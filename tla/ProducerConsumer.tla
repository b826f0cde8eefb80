-------------------------- MODULE ProducerConsumer --------------------------
(***************************************************************************)
(* The four programs of lab05-producer-consumer: threads that produce      *)
(* random transactions into a circular buffer guarded by two counting      *)
(* semaphores, and threads that add them to a shared deposit.              *)
(*                                                                         *)
(*   program                  WriteMutex   ReadMutex                       *)
(*   one_prod_one_cons.c        FALSE        FALSE                         *)
(*   one_prod_many_cons.c       FALSE        TRUE                          *)
(*   many_prod_one_cons.c       TRUE         FALSE                         *)
(*   many_prod_many_cons.c      TRUE         TRUE                          *)
(*                                                                         *)
(* A thread's program counter names the statement it runs next; every      *)
(* access to shared memory and every semaphore operation is a step of its  *)
(* own.                                                                    *)
(***************************************************************************)
EXTENDS Integers, Sequences, FiniteSets, Functions

CONSTANTS Producers,       \* threads running performTransactions
          Consumers,       \* threads running processTransactions
          BufferSize,      \* BUFFER_SIZE
          MaxTransaction,  \* MAX_TRANSACTION
          ReportEvery,     \* 10 in "read_index % 10 == 0"
          Modulus,         \* 2^w for the w bits of the int deposit
          WriteMutex,      \* the program declares write_mutex
          ReadMutex        \* the program declares read_mutex

ASSUME ThreadAssumption ==
    /\ IsFiniteSet(Producers) /\ Producers # {}
    /\ IsFiniteSet(Consumers) /\ Consumers # {}
    /\ Producers \cap Consumers = {}
ASSUME SizeAssumption ==
    /\ BufferSize \in Nat \ {0}
    /\ MaxTransaction \in Nat \ {0}
    /\ ReportEvery \in Nat \ {0}
    /\ Modulus \in Nat \ {0}
\* Only the programs with one thread on a side do without its mutex.
ASSUME MutexAssumption ==
    /\ WriteMutex \in BOOLEAN /\ ReadMutex \in BOOLEAN
    /\ ~WriteMutex => \A p, q \in Producers : p = q
    /\ ~ReadMutex  => \A c, d \in Consumers : c = d

VARIABLES transactions,  \* the circular buffer
          fill_count, empty_count, read_mutex, write_mutex,  \* semaphores
          read_index, write_index, deposit,
          pc,            \* next statement of each thread
          local,         \* the thread's register or local variable
          process,       \* "starting", "running" (main has left), "exited"
          ledger,        \* history: everything produced so far, modulo 2^w
          sinceReport,   \* history: transactions settled since a report
          lastReport     \* history: span of the last report, 0 before any

semaphores == <<fill_count, empty_count, read_mutex, write_mutex>>
reports    == <<sinceReport, lastReport>>
vars == <<transactions, semaphores, read_index, write_index, deposit, pc,
          local, process, ledger, reports>>

Threads == Producers \cup Consumers
Slots   == 0 .. BufferSize - 1

NextIndex(i) == (i + 1) % BufferSize

\* What performRandomTransaction returns when rand() % (2*MAX) is r.
performRandomTransaction(r) ==
    IF r >= MaxTransaction THEN MaxTransaction - (r + 1) ELSE r + 1

Amounts == {performRandomTransaction(r) : r \in 0 .. 2 * MaxTransaction - 1}

Add(balance, amount) == (balance + amount) % Modulus

ProducerPC == {"unborn", "produce", "wait_empty", "wait_write", "write",
               "advance_w", "post_write", "post_fill"}
ConsumerPC == {"unborn", "wait_fill", "wait_read", "load", "store",
               "advance_r", "post_read", "post_empty", "apply"}

Goto(t, from, to) == /\ process # "exited"
                     /\ pc[t] = from
                     /\ pc' = [pc EXCEPT ![t] = to]
-----------------------------------------------------------------------------
(* main: indexes and semaphores are initialised before any thread exists.  *)
Init == /\ transactions = [i \in Slots |-> 0]
        /\ fill_count = 0
        /\ empty_count = BufferSize
        /\ read_mutex = 1
        /\ write_mutex = 1
        /\ read_index = 0
        /\ write_index = 0
        /\ deposit = 0
        /\ pc = [t \in Threads |-> "unborn"]
        /\ local = [t \in Threads |-> 0]
        /\ process = "starting"
        /\ ledger = 0
        /\ sinceReport = 0
        /\ lastReport = 0

memory == <<transactions, semaphores, read_index, write_index, deposit,
            local, ledger, reports>>

\* pthread_create and pthread_detach succeed: producers first, then consumers.
CreateThread(t) ==
    /\ process = "starting"
    /\ pc[t] = "unborn"
    /\ t \in Consumers => \A p \in Producers : pc[p] # "unborn"
    /\ pc' = [pc EXCEPT ![t] = IF t \in Producers THEN "produce"
                                                  ELSE "wait_fill"]
    /\ UNCHANGED <<process, memory>>

\* PTHREAD_ERROR_HELPER: exit() takes the threads already running with it.
CreateFails ==
    /\ process = "starting"
    /\ process' = "exited"
    /\ UNCHANGED <<pc, memory>>

\* pthread_exit ends the main thread only.
MainExits ==
    /\ process = "starting"
    /\ \A t \in Threads : pc[t] # "unborn"
    /\ process' = "running"
    /\ UNCHANGED <<pc, memory>>
-----------------------------------------------------------------------------
(* Producer thread.                                                        *)
Produce(p) ==
    /\ Goto(p, "produce", "wait_empty")
    /\ \E a \in Amounts : /\ local' = [local EXCEPT ![p] = a]
                          /\ ledger' = Add(ledger, a)
    /\ UNCHANGED <<transactions, semaphores, read_index, write_index,
                   deposit, process, reports>>

WaitEmpty(p) ==
    /\ empty_count > 0
    /\ empty_count' = empty_count - 1
    /\ Goto(p, "wait_empty", IF WriteMutex THEN "wait_write" ELSE "write")
    /\ UNCHANGED <<transactions, fill_count, read_mutex, write_mutex,
                   read_index, write_index, deposit, local, process, ledger,
                   reports>>

\* Mutation: no sem_wait on write_mutex.
SkipWaitWrite(p) ==
    /\ Goto(p, "wait_write", "write")
    /\ UNCHANGED <<transactions, semaphores, read_index, write_index, deposit,
                   local, process, ledger, reports>>

WaitWrite(p) ==
    /\ write_mutex > 0
    /\ write_mutex' = write_mutex - 1
    /\ Goto(p, "wait_write", "write")
    /\ UNCHANGED <<transactions, fill_count, empty_count, read_mutex,
                   read_index, write_index, deposit, local, process, ledger,
                   reports>>

WriteItem(p) ==
    /\ Goto(p, "write", "advance_w")
    /\ transactions' = [transactions EXCEPT ![write_index] = local[p]]
    /\ UNCHANGED <<semaphores, read_index, write_index, deposit, local,
                   process, ledger, reports>>

AdvanceWrite(p) ==
    /\ Goto(p, "advance_w", IF WriteMutex THEN "post_write" ELSE "post_fill")
    /\ write_index' = NextIndex(write_index)
    /\ UNCHANGED <<transactions, semaphores, read_index, deposit, local,
                   process, ledger, reports>>

PostWrite(p) ==
    /\ Goto(p, "post_write", "post_fill")
    /\ write_mutex' = write_mutex + 1
    /\ UNCHANGED <<transactions, fill_count, empty_count, read_mutex,
                   read_index, write_index, deposit, local, process, ledger,
                   reports>>

PostFill(p) ==
    /\ Goto(p, "post_fill", "produce")
    /\ fill_count' = fill_count + 1
    /\ UNCHANGED <<transactions, empty_count, read_mutex, write_mutex,
                   read_index, write_index, deposit, local, process, ledger,
                   reports>>
-----------------------------------------------------------------------------
(* Consumer thread.  With one consumer the amount is copied out of the     *)
(* buffer and added to deposit after the slot is given back; with several  *)
(* it is added inside the critical section.                                *)
\* Mutation: no sem_wait on fill_count.
SkipWaitFill(c) ==
    /\ Goto(c, "wait_fill", IF ReadMutex THEN "wait_read" ELSE "load")
    /\ UNCHANGED <<transactions, semaphores, read_index, write_index, deposit,
                   local, process, ledger, reports>>

WaitFill(c) ==
    /\ fill_count > 0
    /\ fill_count' = fill_count - 1
    /\ Goto(c, "wait_fill", IF ReadMutex THEN "wait_read" ELSE "load")
    /\ UNCHANGED <<transactions, empty_count, read_mutex, write_mutex,
                   read_index, write_index, deposit, local, process, ledger,
                   reports>>

\* Mutation: no sem_wait on read_mutex.
SkipWaitRead(c) ==
    /\ Goto(c, "wait_read", "load")
    /\ UNCHANGED <<transactions, semaphores, read_index, write_index, deposit,
                   local, process, ledger, reports>>

WaitRead(c) ==
    /\ read_mutex > 0
    /\ read_mutex' = read_mutex - 1
    /\ Goto(c, "wait_read", "load")
    /\ UNCHANGED <<transactions, fill_count, empty_count, write_mutex,
                   read_index, write_index, deposit, local, process, ledger,
                   reports>>

\* One consumer: lastTransaction = transactions[read_index].
LoadItem(c) ==
    /\ ~ReadMutex
    /\ Goto(c, "load", "advance_r")
    /\ local' = [local EXCEPT ![c] = transactions[read_index]]
    /\ UNCHANGED <<transactions, semaphores, read_index, write_index,
                   deposit, process, ledger, reports>>

\* Several: deposit += transactions[read_index] loads both operands ...
LoadSum(c) ==
    /\ ReadMutex
    /\ Goto(c, "load", "store")
    /\ local' = [local EXCEPT ![c] = Add(deposit, transactions[read_index])]
    /\ UNCHANGED <<transactions, semaphores, read_index, write_index,
                   deposit, process, ledger, reports>>

\* ... and stores their sum.
StoreSum(c) ==
    /\ Goto(c, "store", "advance_r")
    /\ deposit' = local[c]
    /\ UNCHANGED <<transactions, semaphores, read_index, write_index, local,
                   process, ledger, reports>>

\* Mutation: the slots are counted from one.
ReportEarly(index) ==
    IF (index + 1) % ReportEvery = 0
    THEN lastReport' = sinceReport + 1 /\ sinceReport' = 0
    ELSE sinceReport' = sinceReport + 1 /\ UNCHANGED lastReport

\* The report printed when the index is a multiple of ten.
Report(index) ==
    IF index % ReportEvery = 0
    THEN lastReport' = sinceReport + 1 /\ sinceReport' = 0
    ELSE sinceReport' = sinceReport + 1 /\ UNCHANGED lastReport

AdvanceRead(c) ==
    /\ Goto(c, "advance_r", IF ReadMutex THEN "post_read" ELSE "post_empty")
    /\ read_index' = NextIndex(read_index)
    /\ IF ReadMutex THEN Report(read_index') ELSE UNCHANGED reports
    /\ UNCHANGED <<transactions, semaphores, write_index, deposit, local,
                   process, ledger>>

\* Mutation: read_mutex is never posted.
ForgetPostRead(c) ==
    /\ Goto(c, "post_read", "post_empty")
    /\ UNCHANGED <<transactions, semaphores, read_index, write_index, deposit,
                   local, process, ledger, reports>>

PostRead(c) ==
    /\ Goto(c, "post_read", "post_empty")
    /\ read_mutex' = read_mutex + 1
    /\ UNCHANGED <<transactions, fill_count, empty_count, write_mutex,
                   read_index, write_index, deposit, local, process, ledger,
                   reports>>

\* Mutation: the slot is never given back.
ForgetPostEmpty(c) ==
    /\ Goto(c, "post_empty", IF ReadMutex THEN "wait_fill" ELSE "apply")
    /\ UNCHANGED <<transactions, semaphores, read_index, write_index, deposit,
                   local, process, ledger, reports>>

PostEmpty(c) ==
    /\ Goto(c, "post_empty", IF ReadMutex THEN "wait_fill" ELSE "apply")
    /\ empty_count' = empty_count + 1
    /\ UNCHANGED <<transactions, fill_count, read_mutex, write_mutex,
                   read_index, write_index, deposit, local, process, ledger,
                   reports>>

\* Mutation: the consumer thread does not loop.
ApplyAndLeave(c) ==
    /\ Goto(c, "apply", "left")
    /\ deposit' = Add(deposit, local[c])
    /\ Report(read_index)
    /\ UNCHANGED <<transactions, semaphores, read_index, write_index, local,
                   process, ledger>>

\* One consumer: deposit += lastTransaction, then the report.
ApplyItem(c) ==
    /\ Goto(c, "apply", "wait_fill")
    /\ deposit' = Add(deposit, local[c])
    /\ Report(read_index)
    /\ UNCHANGED <<transactions, semaphores, read_index, write_index, local,
                   process, ledger>>
-----------------------------------------------------------------------------
ProducerStep(p) == \/ Produce(p) \/ WaitEmpty(p) \/ WaitWrite(p)
                   \/ WriteItem(p) \/ AdvanceWrite(p) \/ PostWrite(p)
                   \/ PostFill(p)

ConsumerStep(c) == \/ WaitFill(c) \/ WaitRead(c) \/ LoadItem(c)
                   \/ LoadSum(c) \/ StoreSum(c) \/ AdvanceRead(c)
                   \/ PostRead(c) \/ PostEmpty(c) \/ ApplyItem(c)

MainStep == (\E t \in Threads : CreateThread(t)) \/ CreateFails \/ MainExits

\* A process that exit() ended takes no more steps.
Exited == process = "exited" /\ UNCHANGED vars

Next == \/ MainStep
        \/ \E p \in Producers : ProducerStep(p)
        \/ \E c \in Consumers : ConsumerStep(c)
        \/ Exited

Spec == Init /\ [][Next]_vars

\* The kernel schedules every runnable thread; a semaphore wakes some waiter.
Fairness == /\ WF_vars(MainStep)
            /\ \A p \in Producers : WF_vars(ProducerStep(p))
            /\ \A c \in Consumers : WF_vars(ConsumerStep(c))

FairSpec == Spec /\ Fairness
-----------------------------------------------------------------------------
TypeOK ==
    /\ transactions \in [Slots -> Int]
    /\ fill_count \in Nat /\ empty_count \in Nat
    /\ read_mutex \in {0, 1} /\ write_mutex \in {0, 1}
    /\ read_index \in Slots /\ write_index \in Slots
    /\ deposit \in Int
    /\ pc \in [Threads -> ProducerPC \cup ConsumerPC]
    /\ \A p \in Producers : pc[p] \in ProducerPC
    /\ \A c \in Consumers : pc[c] \in ConsumerPC
    /\ local \in [Threads -> Int]
    /\ process \in {"starting", "running", "exited"}
    /\ ledger \in Int
    /\ sinceReport \in Nat /\ lastReport \in Nat

At(S, labels) == {t \in S : pc[t] \in labels}

\* Threads that took a slot from a counting semaphore and still owe it back.
FillingPC  == {"wait_write", "write", "advance_w", "post_write", "post_fill"}
DrainingPC == {"wait_read", "load", "store", "advance_r", "post_read",
               "post_empty"}
Filling    == At(Producers, FillingPC)
Draining   == At(Consumers, DrainingPC)

\* Of these, the ones whose slot lies between read_index and write_index:
\* written but not announced, claimed but not passed over.
WrittenPC == {"post_write", "post_fill"}
ClaimedPC == {"wait_read", "load", "store", "advance_r"}
Written   == At(Producers, WrittenPC)
Claimed   == At(Consumers, ClaimedPC)

\* How many slots hold an item.
Occupied == fill_count + Cardinality(Written) + Cardinality(Claimed)
-----------------------------------------------------------------------------
(* Every slot is counted exactly once: free, full, or in some thread's     *)
(* hands between its sem_wait and its sem_post.                            *)
SlotsAccounted ==
    empty_count + fill_count + Cardinality(Filling) + Cardinality(Draining)
        = BufferSize

(* A mutex is down exactly while one thread of its side is between its     *)
(* sem_wait and its sem_post, and the bare programs never touch it.        *)
InWriteSection(p) == pc[p] \in {"write", "advance_w", "post_write"}
InReadSection(c)  == pc[c] \in {"load", "store", "advance_r", "post_read"}
MutexesHeld ==
    /\ \A p, q \in Producers : InWriteSection(p) /\ InWriteSection(q) => p = q
    /\ \A c, d \in Consumers : InReadSection(c) /\ InReadSection(d) => c = d
    /\ \A p \in Producers :
           /\ WriteMutex /\ InWriteSection(p) => write_mutex = 0
           /\ ~WriteMutex => pc[p] \notin {"wait_write", "post_write"}
    /\ \A c \in Consumers :
           /\ ReadMutex /\ InReadSection(c) => read_mutex = 0
           /\ ~ReadMutex => pc[c] \notin {"wait_read", "store", "post_read"}
           /\ ReadMutex => pc[c] # "apply"

(* The two indexes and the semaphores agree on how much the buffer holds.  *)
IndexesAgree == write_index = (read_index + Occupied) % BufferSize

(* "Two threads never read from or write to the same element": the slot a  *)
(* producer is writing is no other producer's and no reading consumer's,   *)
(* and two consumers never read the same slot.                             *)
Writing(p) == pc[p] \in {"write", "advance_w"}
Reading(c) == pc[c] \in {"load", "store", "advance_r"}
ElementsExclusive ==
    /\ \A p, q \in Producers : Writing(p) /\ Writing(q) => p = q
    /\ \A c, d \in Consumers : Reading(c) /\ Reading(d) => c = d
    /\ \A p \in Producers, c \in Consumers :
           Writing(p) /\ Reading(c) => write_index # read_index

(* With one consumer a report announces "the last 10 transactions", but    *)
(* read_index wraps at BUFFER_SIZE: each report covers ReportEvery settled *)
(* transactions, except the one at the wrap, which covers what is left of  *)
(* the buffer.                                                             *)
ReportSpans == lastReport \in {0, ReportEvery, BufferSize % ReportEvery}

\* The mapping to the abstract queue.  An item leaves it when a consumer
\* loads it, before read_index passes over its slot.
HeldSlots == Cardinality(At(Consumers, {"store", "advance_r"}))
AbstractQueue == [i \in 1 .. Occupied - HeldSlots |->
                    transactions[(read_index + HeldSlots + i - 1) % BufferSize]]
AbstractTaken == [c \in Consumers |->
                    CASE pc[c] = "store" -> transactions[read_index]
                      [] ~ReadMutex /\ pc[c] \in {"advance_r", "post_empty",
                                                  "apply"} -> local[c]
                      [] OTHER -> 0]

Queue == INSTANCE TransactionQueue WITH
            Capacity <- BufferSize, queue <- AbstractQueue,
            taken <- AbstractTaken, balance <- deposit

(* The program implements the abstract queue: amounts are taken in the     *)
(* order they were put, each once, and each is added once to deposit.      *)
ImplementsQueue == Queue!Spec

\* Produced and not yet past write_index.
InHand(p) == IF pc[p] \in {"wait_empty", "wait_write", "write", "advance_w"}
             THEN local[p] ELSE 0
Hands == [p \in Producers |-> InHand(p)]

(* No money is lost, made or counted twice by any interleaving: deposit,   *)
(* what waits in the buffer and what threads hold add up to what           *)
(* performRandomTransaction returned so far.                               *)
MoneyConserved ==
    ledger = Add(deposit, SumFunction(Hands) + SumFunction(AbstractQueue)
                                             + SumFunction(AbstractTaken))

(* A transaction that reached the buffer is settled: its slot does not     *)
(* stay occupied forever.                                                  *)
Holds(i) == \E k \in 0 .. Occupied - 1 : i = (read_index + k) % BufferSize
EveryTransactionSettles ==
    \A i \in Slots : Holds(i) ~> (~Holds(i) \/ process = "exited")
=============================================================================
