# A verification project for the C-teaching laboratories

The repository is a course on operating systems in C: a dozen small programs about
threads, processes, semaphores, FIFOs, pipes and sockets. This directory models the
ones that carry concurrent logic in TLA+, checks them with TLC and proves the safety
properties of all ten models with TLAPS. Every definition is translated from the C source;
`PROJECT.json` ("map") names the lines each one stands for.

1. [Inventory](#inventory)
2. [Modules](#modules-and-their-correspondence-to-the-code)
3. [Runs](#runs)
4. [Fairness](#fairness)
5. [Proofs](#proofs)
6. [Findings](#findings)
7. [Limits of the models](#limits-of-the-models)
8. [Plan](#plan)

## Inventory

| Part | State | Operations | Interaction | What is hard | What makes it correct |
|---|---|---|---|---|---|
| **lab05** bank transactions (`one/many_prod_one/many_cons.c`) | circular buffer `transactions`, `read_index`, `write_index`, `deposit`; semaphores `fill_count`, `empty_count`, `read_mutex`, `write_mutex` | produce, put, take, add to the deposit, report | threads over shared memory | which accesses which semaphore protects; the deposit updated outside or inside the critical section; a full or empty buffer; an `int` that wraps | no element used by two threads; no money lost or counted twice; FIFO order; nobody blocked for good |
| **lab04** recap exercise (`riepilogo.c`) | four named semaphores, `accesses.log`, main, N children with M threads each | fork, start barrier, critical section, end notification, statistics | processes and threads over named semaphores and a file | semaphores and file outlive the processes; one post seen by all the children; failing calls | children start together, end when told, accesses counted exactly, main finishes |
| **lab04** named semaphore (`server.c`, `client.c`) | one named semaphore per run of the server | create, print the value, unlink; spawn, open, wait, post, close | independent processes that meet by a name | the name is unlinked and reused while semaphores are open | each semaphore counts its own resources; threads finish |
| **lab09** echo over FIFOs (`echo.c`, `client.c`) | two FIFOs in the file system, descriptors, data | mkfifo, blocking open, read and write loops, cleanup | two processes over two FIFOs | both ends block in `open`; end of file; SIGPIPE; leftover names | no deadlock on opening; answers are echoes; FIFOs removed |
| **lab11** limited connections (`multiprocess.c`, `multithread.c`) | semaphore `connections`, accept queue, handlers | accept, wait, fork or create, serve, post, signal cleanup | main and children (or threads) | handlers that die with a token; children that outlive main; restarts | never more than MAX_CONCURRENCY connections handled; tokens conserved; clients served |
| **lab11** logger thread (`echo_server_mt_logger.c`) | `log_buffer`, indexes, semaphores, heap strings, log file | `my_log`, `logger`, accept, handlers | threads | back-pressure from a full log; ownership of the strings; `exit()` in one thread | nothing overwritten, leaked or freed twice; order per thread; no call blocked for good |
| **lab11** test clients | sockets | connect, send, receive | environment of the two servers | - | - |
| **lab09** server with logger process (`Logger/`) | pipe, `logger_shouldStop`, log file | write a line, read, SIGTERM | parent and child over a pipe and a signal | a signal before the flag is reset; data left in the pipe; a server that dies without a signal | everything written is logged; the logger ends with the server |
| **lab10** chat over FIFOs and sockets | two threads per endpoint, `shouldStop` | send, receive with a timeout, BYE | two processes | a flag read between blocking calls; BYE on both sides at once; a killed or reset peer | both sides end, no message lost before BYE |
| **lab08** echo servers, **lab06** time server | connections, descriptors, the address of the client | accept, recv, send, close | client and server; server, child or thread | `recv` returning 0; an address read after the next `accept`; a descriptor held twice | clients are named right, accepted and answered |
| **lab06** file copy | descriptors, block, offset | read and write loops | kernel | partial and interrupted calls; an existing destination | the bytes of the source, once and in order |
| **lab03** scheduler | semaphore on the heap, threads | acquire, work, release, destroy | threads | detached threads and a semaphore that main destroys | resources counted exactly; threads finish |
| **lab02/lab03** counters and timer | shared variable, array, `timer` | `+=`, join, `begin`, `end`, `diff` | threads | lost updates; an index passed by reference; the borrow between seconds and nanoseconds | the sum of the array is exact, that of the shared variable bounded; the time is exact |
| **lab02** reactivity, **lab01** exercises | - | - | - | - | - |

`PROJECT.json` lists all of them under "components", and under "hazards" what is hard to
test in them, each at its line.

## Modules and their correspondence to the code

A thread's or process's program counter names the statement it runs next. Each semaphore
operation, each access to shared memory and each system call that another actor can notice
is a step of its own; computations on local data are part of the step before or after.
`ERROR_HELPER` and its relatives call `exit()`: the model ends the whole process, threads
included. Operators introduced by `\* Mutation` are deliberate mistakes that show that the
properties can fail; no specification uses them.

**`TransactionQueue`** is the abstract specification of lab05: a bounded FIFO queue of amounts
(`Put`, `Take`, `Apply`), with neither semaphores nor slots.

**`ProducerConsumer`** is lab05. Constants `WriteMutex` and `ReadMutex` choose among the four
programs (table at the head of the module). `performTransactions` is `Produce`, `WaitEmpty`,
`WaitWrite`, `WriteItem`, `AdvanceWrite`, `PostWrite`, `PostFill`; `processTransactions` is
`WaitFill`, `WaitRead`, then `LoadItem` (one consumer: the amount is copied and `ApplyItem`
adds it after the slot is given back) or `LoadSum` and `StoreSum` (several: the two halves of
`deposit +=` are separate steps, so that a lost update would show), `AdvanceRead`, `PostRead`,
`PostEmpty`. main is `CreateThread`, `CreateFails` (exit) and `MainExits` (pthread_exit).
Sums wrap at `Modulus`, which stands for 2^w. `ledger`, `sinceReport` and `lastReport` are
history variables. `Queue` is the refinement mapping: an amount leaves the abstract queue when
it is loaded and reaches the balance when deposit is stored. `Hands` is what producers have
drawn and not put yet; with the queue and what was taken it is the money on its way to the deposit (`MoneyConserved`).

**`Recap`** is lab04 `riepilogo.c`: main (`CreateSemaphore` ... `CleanUp`), `child_process` (`NotifyReady` ...
`Finish`) and `thread_function` (`EnterCritical`, `AppendId`, `LeaveCritical`). Semaphores and file live in
the file system: `KillAndRestart` kills every process and leaves them as they are.
`create_named_semaphore` and `init_file` replace what they find.
`ComputeStats` is one round of the loop of main over `access_stats`.

**`NamedSemaphore`** is lab04 `named_semaphore` and lab03 `scheduler_solution.c`; the variable `program`, chosen
at the start, says which. The semaphores of all runs of the server exist side by
side; `linked` says which of them the name means. A client thread keeps the one it opened. In lab03 a thread gets the
semaphore of its process, takes it again until its items of work are done, and main destroys and frees it at
CTRL+D (`DestroySemaphore`); what threads meet then (`UseFreed`) is any outcome of an access to freed memory.
A name that is in use is unlinked (`UnlinkName`) before `sem_open` is tried again, and a client may look for it in between.

**`EchoFIFO`** is lab09 `EchoFIFO`. A program's end of a FIFO is closed, opening (blocked in `open`)
or open. `Read`, `AtEOF` and `Write` are the semantics of FIFOs, SIGPIPE included; `cleanFIFOs` closes and unlinks one by one; the loops of the
source around `read` and `write` are one step, as one line is far shorter than PIPE_BUF.

**`LimitConn`** is lab11 `ES-MP-LimitConn`. The variable `program`, chosen at the start, says whether handlers are
children or threads: children outlive a dead main, threads do not; a failed child loses its token, a
failed thread ends the server. SIGTERM reaches main alone, SIGINT the whole group.

**`LogServer`** is lab11 `ES-MT-Logger`. Any thread may be inside `my_log` (`stage`) while `pc` says which call it
is. An entry is the pair of its thread and its number; `heap` holds the strings allocated and
not freed; `log` the last entry of each thread in the file.

**`CopyLoop`** is the block copy loop of lab06 `copy.c` and of the logger process in lab09 `Logger/server.c`. A byte is its position in
the source. `ReadSome` and `WriteSome` transfer any number of bytes the kernel may choose, `ReadEnd` is the `read` that
returns 0, for a pipe once nobody can write to it any more. Around the loop `startLogger` is `CloseWriteEnd`, `SetHandlers`,
`ResetFlag` and `CheckFlag`, in the order of the source, and `Signalled` is its handler, which is deadly before `SetHandlers`. The
server's threads write lines (`LogLine`); a failed call is a line, a signal and `exit()` (`CallFailed`, `KillLogger`, `ExitServer`), with other threads
writing in between.

**`Chat`** is lab10 `chat-fifo.c` and `chat-socket.c`: main (`Start` to `Unlink`), `receiveMessage` (`RecvCheck`, `SelectTimeout`, `ReadLine`, `ReadEnd`,
`ReadFails`) and `sendMessage` (`SendCheck`, `Input`, `Write`, `ByeSent`) of both endpoints. `wire` is what was sent and not yet read;
`Close` and `reset` are the semantics of TCP when a socket with unread data is closed or written to after it was closed. `Die` is `exit()` or
SIGPIPE.

**`SharedCounter`** is lab02 `concurrent_threads.c`, `sol-concurrent_threads.c` and lab03 `concurrent_threads_solution_timer.c`: an addition is `Load`
and `Store`. The clock ticks at any time; `begin`, `end`, `diff`, `get_nanoseconds` and `get_milliseconds` are those of `performance.c`, with `Second` and `Millisecond` ticks in a second and a millisecond; the last one truncates and is cast to an `unsigned int` of `UIntRange` values.
Only the program with the array is timed.

**`EchoServers`** is lab08 `base.c`, `multiprocess.c`, `multithread.c` and their client, and the time server and client of lab06. `holders` is the set of processes
that have the descriptor of a connection: the connection is over when it is empty. `content` is the memory behind the pointer
`client_addr`, `args` what a handler thread was given, so that a reused buffer would show.

The `MC*` modules define the sets and symmetries the configurations use. The specifications of `LimitConn` and `EchoFIFO` are called
`LimitSpec` and `FIFOSpec`, and their parts likewise (`LimitInit`, `FIFONext`, ...), because a module of proofs extends each together with another specification.

## Runs

| Run | Instance | Shows |
|---|---|---|
| `ManyProdManyCons` | 2 producers, 2 consumers, 2 slots, 222 000 states | slot accounting, index agreement, exclusive elements, conserved money, refinement of `TransactionQueue`, every occupied slot is emptied again |
| `OneProdOneCons` | 1 + 1 threads, 4 slots, a report every 3 reads, 108 000 states | the program without mutexes refines the queue and is live; reports cover exactly the transactions that the wrapping index leaves them |
| `Recap` | 2 children, 2 threads, 2 rounds, one killed run, one failed call, 11 800 states | start barrier, critical section, exact statistics; main finishes when no call fails |
| `LimitConn` | both servers, 3 clients, 2 tokens, backlog 1, failures, 2 runs | tokens are conserved per run, connections handled are bounded, clients are served while a token is left |
| `EchoFIFO` | each program started up to 3 times, 2 kills, 19 400 states | echoes, cleanup, opening without deadlock, quit ends echo, texts are answered |
| `LogServer` | main and 2 handlers, 2 slots, 1 message beside QUIT, clients that vanish, 134 000 states | heap ownership, no overwriting, order in the log, entries consumed while the server is up |
| `NamedSemaphore` | 2 clients with 2 threads each, 1 resource, 2 runs of the server, 1 kill; or one lab03 scheduler with 2 threads and 3 items each; 275 000 states | resources conserved per semaphore, threads finish |
| `CopyLoop` | blocks of 3, files of 0 to 7 bytes, old destinations of 0 to 2; 2 handlers, lines of 2 bytes, signals at any time, 237 000 states | bytes copied once, in order, in place and to the last one; both loops end, the logger's whenever the server is gone |
| `LoggerPending` | the logger, no signal but the server's own | *violation*: see Findings |
| `Chat` | both programs, 2 lines per user, one fault, stale FIFOs, 126 000 states | nothing lost before BYE, bad ends only after BYE, told endpoints stop, the peer's end is noticed |
| `SharedCounter` | 3 threads, 3 additions of 2, a second of 4 ticks and a millisecond of 2, 314 000 states | the array is exact, the shared variable keeps between 2 additions and all of them, the timer is exact |
| `EchoServers` | 4 servers, 2 clients, backlog 1, 2 faults, 21 600 states | the welcome names its client, queued connections are accepted, answers arrive |

**Why the bounds are enough to be interesting.** Each buffer is small enough to be found full, found empty and to
wrap many times, and each critical section is contended by at least two threads. In `ManyProdManyCons` the amounts are 1 and -1 and `Modulus` is 2, which makes a lost, repeated
or added transaction change the parity of the deposit; `OneProdOneCons` uses modulus 3, so that
sign matters too, and 4 slots with a report every 3, so that, as with 128 and 10, the index wraps between two reports. The two mixed lab05 programs have the producer of one of these instances
and the consumer of the other; the theorems below cover them for all parameters. The
restarts allow one run that inherits what a killed run left behind (two of them in `EchoFIFO`). Three clients with two tokens
and a backlog of one make main wait in `sem_wait` with a connection in hand, another in the
queue. In `CopyLoop` files end inside a block and at its end, lines straddle blocks, and an old destination is longer or shorter than the file. Three threads with three additions
each can lose all of them but two. A clock of 0 to 7 passes a full second between begin and end, and more milliseconds than an `unsigned int` of two values can count.
In `EchoServers` two clients suffice for an address that is reused while a thread has not read it yet, and for a connection that waits
behind another one in the serial servers. Counters that the code never bounds (rounds, messages, restarts, kills, faults) have a named
bound in a guard; nothing else is cut off.

`TypeOK` of each module was an invariant of its run while the module was written; the runs kept here ask what
can be wrong beyond types. `TypeOK` and `MutexesHeld` of lab05 are part of the proved invariant.

Deadlock is checked in the lab05 and `LogServer` runs. It is not in the others because the
systems really can come to a stop: after a failed call (`Recap`, `CopyLoop`), when every token was lost
(`LimitConn`), after an empty line (`EchoFIFO`, `EchoServers`), when a killed client held the resource (`NamedSemaphore`), when the threads have ended
(`SharedCounter`), when both endpoints have exited or a user never types (`Chat`).

## Fairness

`FairSpec` (`LimitFairSpec`, `FIFOFairSpec`) assumes weak fairness of the steps of each process and thread: the kernel
runs whatever is runnable. A POSIX semaphore guarantees no order among its waiters, and no
strong fairness is assumed for it: the liveness properties hold because someone gets
through, not because a given waiter does (that is why `EveryTransactionSettles` speaks of
slots; in `LogServer`, `LimitConn` and `NamedSemaphore` the competitors are finitely many and come to an end
within the bounds). Strong fairness appears twice, about the environment. In `LimitConn` it is for `RecvQuit`: a client which keeps talking says
QUIT at some time; without it a handler may lawfully serve one
client forever. In `EchoServers` it is `InsertQuit`: a user who is asked for a line again and again types QUIT at some time; the time
client, which has no user, sends its request under weak fairness. The user is not assumed to press any key in `NamedSemaphore` or to type in `Chat`, whose
liveness properties therefore exclude a thread that blocks in `fgets`. In `CopyLoop` the copying process and those steps of the server's threads
that wait for no client are fair; partial transfers make progress because `read` and `write` transfer at least a byte. `SharedCounter` states no liveness. Kills, failures and
restarts are never fair. In `EchoFIFO` the user, who is part of `FIFOClientStep`, does react to the prompt.

## Proofs

Each safety invariant and action property of a passing run, and the refinement, is a theorem. The runs show them on an
instance, the theorems for every value of the constants.

`SemaphoreProofs` proves for all four lab05 programs, every finite set of threads and every
buffer size:

* `TypeCorrect`: `Spec => []TypeOK`, which includes that indexes stay inside the
  buffer and mutexes stay 0 or 1;
* `SlotsAreAccounted`: `Spec => []SlotsAccounted`;
* `IndexesStayInStep`: `Spec => []IndexesAgree`;
* `ElementsAreExclusive`: `Spec => []ElementsExclusive`, the claim the comments of the source make ("two threads
  never read from or write to the same element");
* `BufferIsAQueue`: `Spec => ImplementsQueue`, the buffer refines `TransactionQueue`;
* `ReportsSpan`: `Spec => []ReportSpans`;
* `MoneyIsConserved`: `Spec => []MoneyConserved`, for every `MaxTransaction` and every `Modulus`.

The inductive invariant of the first four is

    IInv == TypeOK /\ MutexesHeld /\ SlotsAccounted /\ IndexesAgree

`ElementsExclusive` is not inductive: that a producer and a consumer are at different slots follows only
from how many slots lie between the indexes. `IndexesAgree` says it, but is preserved only when
the number of occupied slots stays between 0 and `BufferSize`, which is `SlotsAccounted`; and one index
moves by one at a time only because of `MutexesHeld`. If a producer and a consumer
were at the same slot, the occupied slots would be 0 or all; but the consumer has claimed one
and the producer still owes one, so they are at least 1 and at most `BufferSize` - 1.

The argument rests on lemmas about counting: `CountMove` says how the number of threads at a set
of labels changes when one thread moves (from the cardinality theorems of the library),
`ProducerMove` and `ConsumerMove` apply it to the four sets the invariant counts, and `IndexesUnfold` removes `%`
from `IndexesAgree` by a case distinction, so that the steps are linear arithmetic. `ProducerTypes`,
`ConsumerTypes`, `ProducerCounts`, `ConsumerCounts` and `MainPreserves` are the steps of the induction.

The refinement needs to know, besides how many, which items there are: `Contents` says that the slots between the indexes have transactions, that a producer about to advance `write_index` has stored its own there, and that
a consumer about to store has the sum of the deposit and the first item (no other thread has changed either, by `IInv`). The abstract queue is the items from `read_index` on that no consumer has loaded (`QueueIs`). `StepRefines` goes through the steps:
`AdvanceWrite` is `Put`, `LoadItem` and `LoadSum` are `Take`, `ApplyItem` and `StoreSum` are `Apply`, and every other step, `AdvanceRead` included, leaves the queue, the items taken and the balance as they are.
For `ReportsSpan` the invariant `Reports` says that the transactions settled since the last report are `read_index % ReportEvery`, or one behind while the only consumer has moved the index and not yet added its item; `ModSuccessor` is what `%` does when
the index grows.

`MoneyConserved` relates sums, which no single thread knows. Its induction rests on `IInv`, on `Contents` and on what `ProducerRefines` and `ConsumerRefines` say about which abstract step each step is: `Produce` adds to a producer's hand what it adds
to the ledger, `Put` moves it to the end of the queue, `Take` from its head to a consumer (`HandMoves`, `TakenMoves`, `SumAppend`, `SumTail`), and `Apply` from there to the deposit; `MoneyStays` is every other step.
Deposit and ledger wrap while the sums between them do not: `AddTwice` says that two wrapped additions are one of the sum.
The sums are `SumFunction` of the community module `Functions`, a recursion over the domain. Induction over data is available only where its statement is a set, and not an operator: `NatSetInduction` takes the set of numbers for which a fact holds and gets a minimal
counterexample from the well-foundedness of `<`, `SubsetInduction` does it for the subsets of a finite set. By them the recursion has a solution (`SumExists`, `SumUnfold`), it takes one element at a time (`SumStep`) in any order (`SumAny`), and a changed value
changes the sum by the difference (`SumUpdate`).

Assumptions: `ThreadAssumption` (finite, non-empty, disjoint sets of threads), `SizeAssumption` (positive
sizes) and `MutexAssumption` (a side without a mutex has one thread). TLC evaluates them on each run.

`SharedCounterProofs` proves for every number of threads and additions, and for every length of a second:

* `ArrayIsExact`: `Spec => []ArrayExact`, no addition of `sol-concurrent_threads.c` is lost;
* `SharedIsBounded`: `Spec => []SharedBounds`, of the additions of `concurrent_threads.c` none is made up and two at least remain;
* `ElapsedIsExact`: `Spec => []ElapsedExact`, the timer measures the time between begin and end, and its whole milliseconds are printed as long as they fit.

`ArrayExact` speaks of the end only. Its invariant `SharesExact` says of every moment that what a thread has added and what it still has to add make
its share `M * V` (`Added`), that a loaded value is still the value of the counter, which holds because a thread uses the index it was given and nobody else
has it, and that main has added up the shares of the threads it joined (`Joined`), because a joined thread has nothing left to add. Products of
variables are outside linear arithmetic: `OneLess`, `OneMore` and `SecondsDiffer` state the few facts about them, and steps that touch no counter keep `Added` folded (`SharesKept`).
`DiffExact` shows by the two cases of `diff` that borrowing a second keeps the difference; `TimespecValue` that a timespec is a division with remainder, `WholeMilliseconds` what truncating and the cast leave; it needs that end is not before begin (`TimerExact`), which the monotonic clock gives.
`SharedBounds` also speaks of the end only. Its upper half (`AtMost`) says that the variable and every copy of it in a register are at most `V` times the stores made so far, counted as the cardinality of the set of pairs of a thread and one of its finished additions.
The lower half (`AtLeast`) needs no history: every store leaves at least `V`; a thread that loads after its first store therefore loads at least `V`; and the last store of all, made by a thread that has made others (`M` > 1), leaves `2 * V`.
`Alone` is the case of one thread. The assumption is `CounterAssumption` (positive numbers).

`NamedSemaphoreProofs` proves for every number of clients, threads, resources, restarts and kills:

* `ResourcesAreAccounted`: `Spec => []ResourcesAccounted`, the count of each semaphore of lab04 and lab03 is exact until it is destroyed.

The invariant adds `Consistent`: a thread that waits or works uses a semaphore that was created, and of one that was not nothing is held or lost. Both are needed when a run of the
server creates the next semaphore (`NewSemaphore`): it counts right from the start because nobody can hold anything of it yet. `HoldersGrow`,
`HoldersShrink` and `HoldersLost` say how the number of threads that hold a resource of a semaphore changes when one takes it, gives it back, or a whole process ends; the last one
moves what the process held to `lost`. A thread keeps the semaphore it opened, so that its release counts where its acquisition did. `FreedCounts`
says that what happens to a destroyed semaphore concerns no other one. The assumption is `ResourceAssumption` (finitely many clients, positive numbers).

The other half of `SemaphoreProofs` is about `LimitConn` and proves for every number of clients, tokens, restarts and failures, in both programs:

* `TokensAreAccounted`: `LimitSpec => []TokensAccounted`;
* `ServingIsBounded`: `LimitSpec => []ServingBounded`.

`TokensAccounted` speaks of the running server only, and is not enough for `ServingBounded`, which also bounds the children that outlive their server. The invariant is `LimitInv == Consistent /\ Budgets`: `Budget(r)` gives every run
that began its inequality, and the equality to the one whose main is alive. `Consistent` says that the connection in main's hands and those in the queue are different and have no handler yet, so that starting a handler
takes no token from another one, and that a handler belongs to a run that began, so that a new semaphore starts with all its tokens. `HandlerKeeps`, `HandlerPosts`, `HandlerFails` and
`HandlerStarts` count. Assumptions: `LimitAssumption`, `NoneAssumption`.

`RecapProofs` proves for every number of children, threads, rounds, failures and killed runs:

* `ChildrenStartTogether`: `Spec => []StartTogether`;
* `CriticalSectionIsExclusive`: `Spec => []CriticalExclusive`;
* `StatisticsAreComplete`: `Spec => []StatsComplete`.

None is inductive. `Barrier` counts: what main took from `main_waits_for_children` and what is still on it are the children that notified it, as soon as this run has created the semaphore (before that it may
have any value a killed run left), and `children_wait_for_main` is 0 until main releases. `Mutex` holds for the value only after `critical_section` was created, while exclusion holds before that too, because `Families` says that there are no threads
then. `Exact(c)` says of every moment that the file has `M` accesses for each finished round of a child and one for each thread of this round that has appended. `Best` is the loop invariant of
the statistics: the winner so far is the first with the most accesses among the children looked at. Assumption: `RecapAssumption` (positive numbers).

`CopyLoopProofs` proves for every block size, every size of source and old destination, every split of the data by `read` and `write`, and any number of threads that log:

* `CopyIsInOrder`: `Spec => []CopiedInOrder`;
* `CopyIsComplete`: `Spec => []NothingLeftAtEnd`.

`Block` says that the block in memory has the last bytes read and that the offset of the destination is where the next one goes; `WriteExtends` that a partial write then extends the copy in its place, and no further. `Ending` says that
nothing can follow the end of a pipe, as every thread that held it is gone. Assumption: `CopyAssumption`.

`LogServerProofs` proves for every number of clients and messages and every buffer size:

* `NoEntryIsOverwritten`: `Spec => []NoneOverwritten`;
* `HeapIsExact`: `Spec => []HeapExact`;
* `LogIsInOrder`: `Spec => LoggedInOrder`, an action property.

`Tokens` and `Mutex` are the accounting of lab05 for several writers and one reader, `Position` ties the indexes to it. What is stated about single entries rests on `Order`: the entries between the indexes are, for each thread, exactly those numbered after the last one
the logger took up to the last one `my_log` passed, once and in order. From it follow that all are different (a slot overwritten would be one missing), that the logger's next entry of a thread is the one after its last, and that the string freed is
in use by nobody else. `Enqueue`, `Dequeue` and `Oldest` prove `Order` for any such queue, without slots; `ViewKept`, `ViewGrows` and `ViewShrinks` show that a step of the program is one of these. Assumption: `LogAssumption`.

`ChatProofs` proves for any number of lines and faults, over FIFOs and sockets:

* `NothingIsLostBeforeBye`: `Spec => []NothingLostBeforeBye`;
* `FailureFollowsBye`: `Spec => []FailsOnlyAfterBye`.

`Places` says where the threads and descriptors of an endpoint are at each statement of its main thread. `ByeIsLast` says that a sender that said BYE sends nothing more; `Delivered` that what an endpoint with an open channel has shown and
what waits for it are all that was sent, which ends at BYE. `Reasons` is why anybody stops: without faults `shouldStop` is set only by one's own BYE, the other's, or a channel the other closed; a channel is closed by who was told to stop, so one of the two said BYE; and it is reset only by an endpoint that
left messages unread and therefore said BYE itself (`StopMeansBye`). The last needs `Delivered`: after reading BYE nothing can be unread. `Kinds` sorts the steps into those that
concern the invariant and quiet ones. Assumption: `ChatAssumption`.

`EchoProofs` proves for the servers of lab08 and lab06, for every number of clients, backlog and faults:

* `ClientsAreWelcomed`: `Spec => []WelcomeNamesClient`;

and for the echo over FIFOs of lab09, for any number of starts and kills:

* `AnswersEcho`: `FIFOSpec => AnswersAreEchoes`, an action property;
* `NoFIFOLeft`: `FIFOSpec => []FIFOsRemoved`.

`WelcomeNamesClient` speaks of a handler that has parsed its address. `AddressesRight` says it of every handler before: a thread that has not looked yet was given a buffer that still has its client's address, and that main has left behind or will leave
before it accepts again; a child and the serial servers have a copy of their own. `BuffersSuffice` says that a new buffer is there to be had, as main takes one only after it started a handler, and counts the handlers begun. `ServersConsistent` says that
main's connection and those in the queue are different and have no handler, so that starting one disturbs no other. Assumption: `ServersAssumption`.

For the FIFOs, `FifoEnds` says that what a program has open follows from where it is. `OneMessage` says that never more than one message is under way, in a FIFO or in echo's buffer, and that while the client waits for an answer it is the client's own line: so the
answer it reads is the echo of that line, kills and restarts included. `FIFOsRemoved` is about runs without a kill. Echo also leaves the names behind when SIGPIPE ends it, so `Undisturbed` has to show that whenever echo writes there is a client to read, from the
opening handshake on: a client that waits for the welcome or for its answer does not leave.

**Only model-checked.** Liveness under fairness, in all modules: it is outside what the prover does. These are `EveryTransactionSettles`, `MainFinishes`, `EveryClientServed`, `ClientGetsThrough`, `QuitEndsEcho`, `TextsAnswered`,
`ConsumedWhileUp`, `ThreadsFinish`, `LoopsEnd`, `StopsWhenTold`, `PeerLearns`, `EveryClientAccepted` and `AnswersArrive`.

## Findings

Where a text of the repository says something else than the code does, a run shows it.

* `LoggerPending`: "When we reach this point and the flag is true there are no more data to read" (lab09 `Logger/server.c`:100). The flag is looked at after each block; the server
  writes its error message just before it sends SIGTERM, and when the logger is writing an earlier block at that time, the message stays in the pipe.

Also seen with the models, and stated by a property, a guard of one, or the note of a hazard:

* lab05: "After the last 10 transactions" holds for reports within one pass over the buffer; the report depends on `read_index`, and 128 is no multiple of 10, so the one after the wrap covers 8.
  `ReportSpans` states what is reported.
* lab06 `copy.c`:121 warns that an existing destination is overwritten ("I will overwrite it!"), but line 122 opens it without O_TRUNC: when the old file is longer than the source, its tail follows the copy. `CopiedInOrder` and
  `NothingLeftAtEnd` state what the code does, tail included (`Copied`); they hold, and do not say that the destination equals the source.
* lab11 `LimitConn`: one child more than MAX_CONCURRENCY can be alive, as the token is posted before the child exits; the connections handled at a time are bounded as intended.
* lab09 `EchoFIFO` and lab08: after an empty line the client sends nothing and both programs wait for each other.
* lab11 `LogServer`: a client that closes its connection makes `exit()` end the process with entries still in the buffer.
* lab04 `named_semaphore`: "number of resources not in use" is not the value after a restart of the server, while threads hold resources through the old semaphore.
* lab04 `riepilogo.c`: a child can exit while a thread of it is in the critical section, and a fork that fails half way leaves children waiting.
* lab09 `EchoFIFO`: a client that starts during the cleanup of echo waits for ever; echo ended by SIGPIPE leaves the FIFOs.
* lab08 serial server: a client that leaves without QUIT keeps it busy, as `recv` returns 0 without end. The client's `msg_len` is a `size_t`, so that its test for a negative result never holds.
* lab04 `named_semaphore`: a client process that ends with the resource strands the threads of the others.
* lab03 scheduler: after CTRL+D threads use a semaphore that was destroyed and freed, until main returns.
* lab06 `copy.c`:90 calls `FD_ERROR_HELPER`, which is not defined; the model takes it for `ERROR_HELPER`.

## Limits of the models

* A message is an abstract value; its bytes, the partial transfers of the socket loops and the terminator
  written at the end of a full buffer are not modelled. Partial transfers are the subject of `CopyLoop`.
* `EchoFIFO`: echo is not started again while a client still has the FIFOs of the previous run open (a
  FIFO is identified by its name).
* `NamedSemaphore` and `LimitConn`: one server at a time.
* `Recap`: children orphaned by a failed fork are killed before the program is run again, as the
  comment in the source tells the user to do.
* `init_file`, `create_named_semaphore` and their counterparts are one step: nobody else runs the program at the same
  time.
* The ends of `Recap` (`CleanUp`: four closes and unlinks, after all children have ended) and of the client of `EchoFIFO` (two closes after QUIT) are one step each: nobody looks at what is between them, and a kill leaves
  the next run no more than a kill just before.
* `CopyLoop`: a line of the server enters the pipe whole and finds room, as lines are far shorter than PIPE_BUF and the pipe is far larger than the lines in it.
* `Chat`: one chat per pair of endpoints; parsing of the arguments is left out.
* Memory is sequentially consistent: where threads share data they access it between semaphore operations or after a join,
  which order it. The shared variable of `concurrent_threads.c` is the exception; its loads and stores are separate steps, as in the program built
  without optimisation.

### Not modelled

* The test clients of lab11: the servers' models enumerate what a client may send and when it may vanish.
* The reactivity programs of lab02: they measure how late a thread wakes up on the machine at hand and have no other behaviour.
* The exercises of lab01: short sequential programs without state, two of them meant to crash.

## Plan

The modules were written in the order of the inventory, lab05 first, each with its run and then its theorems. All planned models, runs and proofs of safety are done. Liveness stays with TLC.
When the code changes, "map" in `PROJECT.json` says which definitions to look at; the `\* Mutation` operators show which property should notice a mistake there.
