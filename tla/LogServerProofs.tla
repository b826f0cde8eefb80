--------------------------- MODULE LogServerProofs --------------------------
(***************************************************************************)
(* For any number of clients, any buffer size and any number of messages:  *)
(* no entry of the log is overwritten, every thread's entries reach the    *)
(* file in order, and no string is leaked or used after it was freed.      *)
(***************************************************************************)
EXTENDS LogServer, FiniteSetTheorems, TLAPS

\* Calls of my_log that have not moved write_index past their entry, those
\* of them that took a slot, and those whose entry the index has passed.
PendingAt == {"wait_empty", "wait_mutex", "write", "advance"}
HoldingAt == {"wait_mutex", "write", "advance"}
StoredAt  == {"post_mutex", "post_fill"}
InSection == {"write", "advance", "post_mutex"}

At(S) == {t \in Callers : stage[t] \in S}

\* The slot the logger has emptied and not posted yet.
Consuming == IF logger \in {"write", "free", "post"} THEN 1 ELSE 0

Slot(k) == (read_index + k) % LogBufferSize

\* The entries waiting, oldest first, as they would be read.
Queue == [k \in 0 .. Waiting - 1 |-> log_buffer[Slot(k)]]

\* Of each caller: entries the index has passed, and entries off the buffer.
Passed == [t \in Callers |->
             IF stage[t] \in PendingAt THEN entries[t] - 1 ELSE entries[t]]
Taken  == [t \in Callers |->
             IF logger = "write" /\ log_msg[1] = t THEN log[t] + 1 ELSE log[t]]

-----------------------------------------------------------------------------
(* The parts of the inductive invariant.                                   *)

LogLabels == {"log_accepted", "log_created", "log_message", "log_completed"}
Labels == LogLabels \cup {"accept", "create", "created", "unborn", "welcome",
                          "recv", "answer", "closed", "ended"}
Strings == Callers \X Nat

Types ==
    /\ log_buffer \in [Slots -> Strings]
    /\ fill_count \in Nat /\ empty_count \in Nat /\ write_mutex \in {0, 1}
    /\ read_index \in Slots /\ write_index \in Slots
    /\ pc \in [Callers -> Labels] /\ stage \in [Callers -> Stages]
    /\ entries \in [Callers -> Nat] /\ log \in [Callers -> Nat]
    /\ client_desc \in Callers
    /\ logger \in {"wait", "load", "write", "free", "post"}
    /\ log_msg \in Strings

(* A caller is inside my_log exactly at the lines that call it, and the    *)
(* connection main has accepted has no thread before main creates it.      *)
Calls ==
    /\ \A t \in Callers : stage[t] # "none" <=> pc[t] \in LogLabels
    /\ pc[Main] \in {"log_accepted", "create"} =>
          client_desc \in Clients /\ pc[client_desc] = "unborn"

(* write_mutex is down while one caller is between its wait and its post.  *)
Mutex ==
    /\ \A t \in Callers : stage[t] \in InSection => write_mutex = 0
    /\ \A t, u \in Callers :
          stage[t] \in InSection /\ stage[u] \in InSection => t = u

(* Every slot is free, or in the hands of one caller or of the logger, or  *)
(* between the indexes.                                                    *)
Tokens == empty_count + Cardinality(At(HoldingAt)) + Waiting + Consuming
             = LogBufferSize

(* The indexes agree with the number of entries waiting, and the slot at   *)
(* write_index has the entry of the caller that is about to pass it.       *)
Position ==
    /\ write_index = Slot(Waiting)
    /\ \A t \in Callers :
          stage[t] = "advance" => log_buffer[write_index] = <<t, entries[t]>>

(* A queue q of w entries has the entries of each caller t with the        *)
(* numbers after taken[t] up to passed[t], each once and in that order.    *)
Ordered(w, q, passed, taken) ==
    /\ \A t \in Callers : taken[t] <= passed[t]
    /\ \A k \in 0 .. w - 1 : /\ q[k][2] > taken[q[k][1]]
                             /\ q[k][2] <= passed[q[k][1]]
    /\ \A k, l \in 0 .. w - 1 :
          k < l /\ q[k][1] = q[l][1] => q[k][2] < q[l][2]
    /\ \A t \in Callers, n \in Nat :
          taken[t] < n /\ n <= passed[t] =>
              \E k \in 0 .. w - 1 : q[k][1] = t /\ q[k][2] = n

Order == Ordered(Waiting, Queue, Passed, Taken)

(* The entry the logger holds is the next of its caller, then the last.    *)
Held ==
    /\ logger = "write" => log_msg[2] = log[log_msg[1]] + 1
    /\ logger = "free"  => log_msg[2] = log[log_msg[1]]
    /\ \A t \in Callers : stage[t] # "none" => entries[t] # 0

IInv == Types /\ Calls /\ Mutex /\ Tokens /\ Position /\ Order /\ Held
        /\ HeapExact
-----------------------------------------------------------------------------
(* Slots and counts.                                                       *)

(* Within one turn of the buffer, % subtracts the size at most once.       *)
LEMMA Turn ==
    ASSUME NEW k \in 0 .. LogBufferSize, NEW r \in Slots
    PROVE  /\ (r + k) % LogBufferSize \in Slots
           /\ (r + k) % LogBufferSize =
                 IF r + k < LogBufferSize THEN r + k ELSE r + k - LogBufferSize
  <1>1. /\ LogBufferSize \in Nat \ {0} /\ k \in Nat /\ r \in Nat
        /\ r < LogBufferSize /\ k <= LogBufferSize
    BY LogAssumption DEF Slots
  <1>2. PICK x \in Nat : x = r + k
    BY <1>1
  <1>3. PICK n \in Nat \ {0} : n = LogBufferSize
    BY <1>1
  <1>4. x < n + n
    BY <1>1, <1>2, <1>3
  <1>5. (x < n => x % n = x) /\ (n <= x => x % n = x - n)
    BY <1>2, <1>3, <1>4
  <1>6. (r + k) % LogBufferSize = x % n
    BY <1>2, <1>3, Zenon
  <1> QED
    BY <1>1, <1>2, <1>3, <1>5, <1>6 DEF Slots

(* The element k places after read_index, with one subtraction.            *)
LEMMA SlotIs ==
    ASSUME NEW k \in 0 .. LogBufferSize, read_index \in Slots
    PROVE  /\ Slot(k) \in Slots
           /\ Slot(k) = IF read_index + k < LogBufferSize
                        THEN read_index + k
                        ELSE read_index + k - LogBufferSize
  BY Turn DEF Slot

(* NextSlot stays inside the buffer and wraps at its end.                  *)
LEMMA NextSlotWraps ==
    ASSUME NEW j \in Slots
    PROVE  /\ NextSlot(j) \in Slots
           /\ NextSlot(j) = IF j + 1 = LogBufferSize THEN 0 ELSE j + 1
  <1>1. /\ LogBufferSize \in Nat \ {0} /\ j \in Nat /\ j < LogBufferSize
    BY LogAssumption DEF Slots
  <1>2. PICK x \in Nat : x = j + 1
    BY <1>1
  <1>3. PICK n \in Nat \ {0} : n = LogBufferSize
    BY <1>1
  <1>4. x < n + n
    BY <1>1, <1>2, <1>3
  <1>5. (x < n => x % n = x) /\ (n <= x => x % n = x - n)
    BY <1>2, <1>3, <1>4
  <1>6. NextSlot(j) = x % n
    BY <1>2, <1>3, Zenon DEF NextSlot
  <1> QED
    BY <1>1, <1>2, <1>3, <1>5, <1>6 DEF Slots

(* When read_index moves on, what was the next slot is the first.          *)
LEMMA SlotShifts ==
    ASSUME read_index \in Slots, read_index' = NextSlot(read_index),
           NEW k \in 0 .. LogBufferSize - 1
    PROVE  Slot(k)' = Slot(k + 1)
  <1>1. /\ LogBufferSize \in Nat \ {0} /\ k \in Nat /\ k < LogBufferSize
        /\ read_index \in Nat /\ read_index < LogBufferSize
        /\ k \in 0 .. LogBufferSize /\ k + 1 \in 0 .. LogBufferSize
    BY LogAssumption DEF Slots
  <1>2. PICK r \in Slots : r = read_index'
    BY NextSlotWraps
  <1>3. r = IF read_index + 1 = LogBufferSize THEN 0 ELSE read_index + 1
    BY <1>2, NextSlotWraps
  <1>4. (r + k) % LogBufferSize =
          IF r + k < LogBufferSize THEN r + k ELSE r + k - LogBufferSize
    BY <1>1, Turn
  <1>5. Slot(k + 1) = IF read_index + (k + 1) < LogBufferSize
                      THEN read_index + (k + 1)
                      ELSE read_index + (k + 1) - LogBufferSize
    BY <1>1, SlotIs
  <1>6. Slot(k)' = (r + k) % LogBufferSize
    BY <1>2 DEF Slot
  <1> QED
    BY <1>1, <1>3, <1>4, <1>5, <1>6

(* The slot after one is the next one.                                     *)
LEMMA SlotFollows ==
    ASSUME read_index \in Slots, NEW k \in 0 .. LogBufferSize - 1
    PROVE  NextSlot(Slot(k)) = Slot(k + 1)
  <1>1. /\ LogBufferSize \in Nat \ {0} /\ k \in Nat /\ k < LogBufferSize
        /\ read_index \in Nat /\ read_index < LogBufferSize
        /\ k \in 0 .. LogBufferSize /\ k + 1 \in 0 .. LogBufferSize
    BY LogAssumption DEF Slots
  <1>2. PICK j \in Slots : j = Slot(k)
    BY <1>1, SlotIs
  <1>3. NextSlot(j) = IF j + 1 = LogBufferSize THEN 0 ELSE j + 1
    BY NextSlotWraps
  <1>4. j = IF read_index + k < LogBufferSize
            THEN read_index + k ELSE read_index + k - LogBufferSize
    BY <1>1, <1>2, SlotIs
  <1>5. Slot(k + 1) = IF read_index + (k + 1) < LogBufferSize
                      THEN read_index + (k + 1)
                      ELSE read_index + (k + 1) - LogBufferSize
    BY <1>1, SlotIs
  <1> QED
    BY <1>1, <1>2, <1>3, <1>4, <1>5

(* Two entries waiting are in two slots.                                   *)
LEMMA SlotsDiffer ==
    ASSUME read_index \in Slots,
           NEW w \in 0 .. LogBufferSize - 1, NEW k \in 0 .. w - 1
    PROVE  Slot(k) # Slot(w)
  <1>1. /\ LogBufferSize \in Nat /\ read_index \in Nat
        /\ read_index < LogBufferSize
        /\ k \in 0 .. LogBufferSize /\ w \in 0 .. LogBufferSize /\ k < w
        /\ k \in Nat /\ w \in Nat /\ w < LogBufferSize
    BY LogAssumption DEF Slots
  <1>2. /\ Slot(k) = IF read_index + k < LogBufferSize
                     THEN read_index + k ELSE read_index + k - LogBufferSize
        /\ Slot(w) = IF read_index + w < LogBufferSize
                     THEN read_index + w ELSE read_index + w - LogBufferSize
    BY <1>1, SlotIs
  <1> QED
    BY <1>1, <1>2

(* The callers at given stages are finitely many, and one that moves       *)
(* changes their number by what it contributes.                            *)
LEMMA CountMove ==
    ASSUME NEW S, NEW t \in Callers, stage \in [Callers -> Stages],
           NEW to, stage' = [stage EXCEPT ![t] = to]
    PROVE  Cardinality(At(S)') = Cardinality(At(S))
                + (IF to \in S THEN 1 ELSE 0)
                - (IF stage[t] \in S THEN 1 ELSE 0)
  <1> DEFINE A == At(S)  B == At(S)'
  <1>1. IsFiniteSet(A)
    <2>1. IsFiniteSet(Callers)
      BY LogAssumption, FS_AddElement DEF Callers
    <2> QED
      BY <2>1, FS_Subset DEF At
  <1>2. Cardinality(A) \in Nat
    BY <1>1, FS_CardinalityType
  <1>3. CASE to \in S /\ stage[t] \notin S
    <2>1. B = A \cup {t} /\ t \notin A
      BY <1>3 DEF At
    <2>2. Cardinality(A \cup {t}) = Cardinality(A) + 1
      BY <2>1, <1>1, FS_AddElement
    <2> HIDE DEF A, B
    <2>3. Cardinality(B) = Cardinality(A) + 1
      BY <2>1, <2>2
    <2> QED
      BY <2>3, <1>2, <1>3 DEF A, B
  <1>4. CASE to \notin S /\ stage[t] \in S
    <2>1. B = A \ {t} /\ t \in A
      BY <1>4 DEF At
    <2>2. Cardinality(A \ {t}) = Cardinality(A) - 1
      BY <2>1, <1>1, FS_RemoveElement
    <2> HIDE DEF A, B
    <2>3. Cardinality(B) = Cardinality(A) - 1
      BY <2>1, <2>2
    <2> QED
      BY <2>3, <1>2, <1>4 DEF A, B
  <1>5. CASE to \in S <=> stage[t] \in S
    <2>1. B = A
      BY <1>5 DEF At
    <2> QED
      BY <2>1, <1>2, <1>5
  <1> QED
    BY <1>3, <1>4, <1>5

(* The callers at some labels can be counted; one of them counts.          *)
LEMMA CountsNat ==
    ASSUME NEW S
    PROVE  /\ Cardinality(At(S)) \in Nat
           /\ (\E t \in Callers : stage[t] \in S) => Cardinality(At(S)) > 0
  <1>1. IsFiniteSet(Callers)
    BY LogAssumption, FS_AddElement DEF Callers
  <1>2. IsFiniteSet(At(S))
    BY <1>1, FS_Subset DEF At
  <1>3. Cardinality(At(S)) \in Nat
    BY <1>2, FS_CardinalityType
  <1>4. ASSUME NEW t \in Callers, stage[t] \in S
        PROVE  Cardinality(At(S)) > 0
    <2>1. At(S) # {}
      BY <1>4 DEF At
    <2>2. Cardinality(At(S)) # 0
      BY <2>1, <1>2, FS_EmptySet
    <2> QED
      BY <2>2, <1>3
  <1> QED
    BY <1>3, <1>4

(* How many entries wait, in terms of At, now and after a step.            *)
LEMMA WaitingIs ==
    /\ Waiting = fill_count + (IF logger = "load" THEN 1 ELSE 0)
                 + Cardinality(At(StoredAt))
    /\ Waiting' = fill_count' + (IF logger' = "load" THEN 1 ELSE 0)
                 + Cardinality(At(StoredAt)')
  BY Zenon DEF Waiting, At, StoredAt

(* There are at most as many entries as slots, fewer while a caller or the *)
(* logger holds one, and one at least when the logger is to load it.       *)
LEMMA WaitingBounds ==
    ASSUME Types, Tokens
    PROVE  /\ Waiting \in 0 .. LogBufferSize
           /\ (\E t \in Callers : stage[t] \in HoldingAt)
                 => Waiting < LogBufferSize
           /\ logger = "load" => Waiting > 0
           /\ empty_count > 0 => Waiting < LogBufferSize
  <1> DEFINE H == Cardinality(At(HoldingAt))  S == Cardinality(At(StoredAt))
  <1>1. /\ H \in Nat /\ S \in Nat
        /\ (\E t \in Callers : stage[t] \in HoldingAt) => H > 0
    BY CountsNat
  <1>2. Waiting = fill_count + (IF logger = "load" THEN 1 ELSE 0) + S
    BY WaitingIs
  <1>3. empty_count + H + Waiting + Consuming = LogBufferSize
    BY DEF Tokens
  <1>4. fill_count \in Nat /\ empty_count \in Nat /\ Consuming \in 0 .. 1
    BY DEF Types, Consuming
  <1>5. LogBufferSize \in Nat
    BY LogAssumption
  <1> HIDE DEF H, S
  <1> QED
    BY <1>1, <1>2, <1>3, <1>4, <1>5

-----------------------------------------------------------------------------
(* The steps, as the buffer sees them.                                     *)

Outside == UNCHANGED <<log_buffer, fill_count, empty_count, write_mutex,
                       read_index, write_index, stage, entries, logger,
                       log_msg, log, heap>>

Called(t) ==
    /\ stage[t] = "none"
    /\ stage' = [stage EXCEPT ![t] = "wait_empty"]
    /\ entries' = [entries EXCEPT ![t] = entries[t] + 1]
    /\ heap' = heap \cup {<<t, entries[t] + 1>>}
    /\ UNCHANGED <<log_buffer, fill_count, empty_count, write_mutex,
                   read_index, write_index, logger, log_msg, log>>

CallLabels == {"accept", "created", "recv", "closed"}

(* A call of my_log() starts the call of a thread that made none.          *)
LEMMA CallIsCalled ==
    ASSUME Types, Calls, NEW t \in Callers, NEW from \in CallLabels, NEW to,
           CallLog(t, from, to)
    PROVE  Called(t)
  <1>1. stage[t] = "none"
    BY DEF Calls, CallLog, CallLabels, LogLabels
  <1>2. entries' = [entries EXCEPT ![t] = entries[t] + 1]
    BY DEF CallLog, Types
  <1> QED
    BY <1>1, <1>2 DEF CallLog, Called, semaphores, reader

(* A step is outside my_log(), a call of it, inside it, or the logger's.   *)
LEMMA StepKinds ==
    ASSUME Types, Calls, [Next]_vars
    PROVE  \/ Outside
           \/ \E t \in Callers : Called(t)
           \/ \E t \in Callers : my_log(t)
           \/ LoggerStep
  <1>1. CASE MainStep
    <2>1. Main \in Callers
      BY DEF Callers
    <2>2. ASSUME NEW c \in Clients, Accept(c) PROVE Called(Main)
      BY <2>1, <2>2, CallIsCalled DEF Accept, CallLabels
    <2>3. ASSUME LogCreated PROVE Called(Main)
      BY <2>1, <2>3, CallIsCalled DEF LogCreated, CallLabels
    <2>4. ASSUME CreateHandler PROVE Outside
      BY <2>4 DEF CreateHandler, Outside, semaphores, reader
    <2> QED
      BY <1>1, <2>1, <2>2, <2>3, <2>4 DEF MainStep
  <1>2. CASE \E c \in Clients : HandlerStep(c)
    <2>0. PICK c \in Clients : HandlerStep(c)
      BY <1>2
    <2>1. c \in Callers
      BY DEF Callers
    <2>2. ASSUME RecvMessage(c) \/ RecvQuit(c) PROVE Called(c)
      BY <2>1, <2>2, CallIsCalled DEF RecvMessage, RecvQuit, CallLabels
    <2>3. ASSUME LogCompleted(c) PROVE Called(c)
      BY <2>1, <2>3, CallIsCalled DEF LogCompleted, CallLabels
    <2>4. ASSUME SendWelcome(c) \/ SendBack(c) \/ CloseSocket(c) PROVE Outside
      BY <2>4 DEF SendWelcome, SendBack, CloseSocket, HandlerMoves, Outside,
                  semaphores, reader
    <2> QED
      BY <2>0, <2>1, <2>2, <2>3, <2>4 DEF HandlerStep
  <1>3. CASE CreateFails \/ \E c \in Clients : ClientVanishes(c)
    BY <1>3 DEF CreateFails, ClientVanishes, ExitServer, Outside, semaphores,
                reader
  <1>4. CASE Idle \/ UNCHANGED vars
    BY <1>4 DEF Idle, vars, Outside, semaphores, reader
  <1> QED
    BY <1>1, <1>2, <1>3, <1>4 DEF Next

-----------------------------------------------------------------------------
(* Control.                                                                *)

(* Where each step leaves the control of the callers.                      *)
LEMMA ControlNext ==
    ASSUME Types, Calls, [Next]_vars
    PROVE  pc' \in [Callers -> Labels] /\ client_desc' \in Callers /\ Calls'
  <1>0. /\ Main \in Callers /\ Clients \subseteq Callers /\ Main \notin Clients
        /\ pc \in [Callers -> Labels] /\ stage \in [Callers -> Stages]
        /\ client_desc \in Callers
    BY LogAssumption DEF Callers, Types
  <1>1. ASSUME NEW c \in Clients, Accept(c)
        PROVE  pc' \in [Callers -> Labels] /\ client_desc' \in Callers /\ Calls'
    BY <1>0, <1>1 DEF Accept, CallLog, Calls, Labels, LogLabels, Main
  <1>2. ASSUME CreateHandler
        PROVE  pc' \in [Callers -> Labels] /\ client_desc' \in Callers /\ Calls'
    BY <1>0, <1>2 DEF CreateHandler, Calls, Labels, LogLabels, Main
  <1>3. ASSUME LogCreated
        PROVE  pc' \in [Callers -> Labels] /\ client_desc' \in Callers /\ Calls'
    BY <1>0, <1>3 DEF LogCreated, CallLog, session, Calls, Labels, LogLabels,
                      Main
  <1>4. ASSUME NEW t \in Callers, my_log(t)
        PROVE  pc' \in [Callers -> Labels] /\ client_desc' \in Callers /\ Calls'
    <2>1. ASSUME PostFill(t)
          PROVE  pc' \in [Callers -> Labels] /\ client_desc' \in Callers /\ Calls'
      <3>1. pc[t] \in LogLabels
        BY <2>1 DEF PostFill, Move, Calls
      <3>2. /\ pc[t] = "log_accepted"  => After(pc[t]) = "create"
            /\ pc[t] = "log_created"   => After(pc[t]) = "accept"
            /\ pc[t] = "log_message"   => After(pc[t]) = "answer"
            /\ pc[t] = "log_completed" => After(pc[t]) = "ended"
        BY DEF After
      <3>3. After(pc[t]) \in Labels \ LogLabels
        BY <3>1, <3>2 DEF Labels, LogLabels
      <3>4. /\ pc' = [pc EXCEPT ![t] = After(pc[t])]
            /\ stage' = [stage EXCEPT ![t] = "none"]
            /\ client_desc' = client_desc
        BY <2>1, <1>0 DEF PostFill, Move, session
      <3>5. \A u \in Callers : stage'[u] # "none" <=> pc'[u] \in LogLabels
        BY <3>3, <3>4, <1>0 DEF Calls
      <3>6. pc'[Main] \in {"log_accepted", "create"} =>
              client_desc' \in Clients /\ pc'[client_desc'] = "unborn"
        BY <3>1, <3>2, <3>3, <3>4, <1>0 DEF Calls, LogLabels
      <3> QED
        BY <3>3, <3>4, <3>5, <3>6, <1>0 DEF Calls
    <2>2. ASSUME WaitEmpty(t) \/ WaitMutex(t) \/ WriteSlot(t)
                 \/ AdvanceWrite(t) \/ PostMutex(t)
          PROVE  pc' \in [Callers -> Labels] /\ client_desc' \in Callers /\ Calls'
      BY <2>2, <1>0 DEF WaitEmpty, WaitMutex, WriteSlot, AdvanceWrite,
                        PostMutex, Move, session, Calls
    <2> QED
      BY <2>1, <2>2, <1>4 DEF my_log
  <1>5. ASSUME LoggerStep
        PROVE  pc' \in [Callers -> Labels] /\ client_desc' \in Callers /\ Calls'
    BY <1>5, <1>0 DEF LoggerStep, WaitFill, LoadEntry, WriteFile, FreeEntry,
                      PostEmpty, LoggerMoves, session, Calls
  <1>6. ASSUME NEW c \in Clients, NEW from \in {"recv", "closed"},
               NEW to \in {"log_message", "log_completed"},
               CallLog(c, from, to), client_desc' = client_desc
        PROVE  pc' \in [Callers -> Labels] /\ client_desc' \in Callers /\ Calls'
    BY <1>6, <1>0 DEF CallLog, Calls, Labels, LogLabels
  <1>7. ASSUME NEW c \in Clients, NEW from \in {"welcome", "answer"},
               NEW to \in {"recv", "closed"}, HandlerMoves(c, from, to)
        PROVE  pc' \in [Callers -> Labels] /\ client_desc' \in Callers /\ Calls'
    BY <1>7, <1>0 DEF HandlerMoves, session, Calls, Labels, LogLabels
  <1>8. ASSUME UNCHANGED <<pc, stage, client_desc>>
        PROVE  pc' \in [Callers -> Labels] /\ client_desc' \in Callers /\ Calls'
    BY <1>8, <1>0 DEF Calls
  <1>9. ASSUME NEW c \in Clients, HandlerStep(c)
        PROVE  pc' \in [Callers -> Labels] /\ client_desc' \in Callers /\ Calls'
    BY <1>9, <1>0, <1>4, <1>6, <1>7
    DEF HandlerStep, SendWelcome, SendBack, CloseSocket, RecvMessage, RecvQuit,
        LogCompleted, session
  <1>10. ASSUME MainStep
         PROVE  pc' \in [Callers -> Labels] /\ client_desc' \in Callers /\ Calls'
    BY <1>10, <1>0, <1>1, <1>2, <1>3, <1>4 DEF MainStep
  <1>11. ASSUME \/ CreateFails \/ Idle \/ UNCHANGED vars
                \/ \E c \in Clients : ClientVanishes(c)
         PROVE  UNCHANGED <<pc, stage, client_desc>>
    BY <1>11 DEF CreateFails, ClientVanishes, ExitServer, Idle, vars, session
  <1> QED
    BY <1>5, <1>8, <1>9, <1>10, <1>11 DEF Next

(* The variables keep their types.                                         *)
LEMMA TypesNext ==
    ASSUME Types, Calls, Mutex, [Next]_vars
    PROVE  Types'
  <1>0. pc' \in [Callers -> Labels] /\ client_desc' \in Callers
    BY ControlNext
  <1>1. CASE Outside
    BY <1>0, <1>1 DEF Outside, Types
  <1>2. ASSUME NEW t \in Callers, Called(t) PROVE Types'
    BY <1>0, <1>2 DEF Called, Types, Stages
  <1>3. ASSUME NEW t \in Callers, my_log(t) PROVE Types'
    <2>0. /\ read_index' = read_index /\ entries' = entries /\ log' = log
          /\ logger' = logger /\ log_msg' = log_msg
      BY <1>3 DEF my_log, WaitEmpty, WaitMutex, WriteSlot, AdvanceWrite,
                  PostMutex, PostFill, Move, reader
    <2>1. stage' \in [Callers -> Stages]
      BY <1>3 DEF my_log, WaitEmpty, WaitMutex, WriteSlot, AdvanceWrite,
                  PostMutex, PostFill, Move, Types, Stages
    <2>2. fill_count' \in Nat /\ empty_count' \in Nat
      BY <1>3 DEF my_log, WaitEmpty, WaitMutex, WriteSlot, AdvanceWrite,
                  PostMutex, PostFill, Types, semaphores
    <2>3. write_mutex' \in {0, 1}
      BY <1>3 DEF my_log, WaitEmpty, WaitMutex, WriteSlot, AdvanceWrite,
                  PostMutex, PostFill, Move, Types, semaphores, Mutex, InSection
    <2>4. write_index' \in Slots
      BY <1>3, NextSlotWraps
      DEF my_log, WaitEmpty, WaitMutex, WriteSlot, AdvanceWrite,
          PostMutex, PostFill, Types
    <2>5. log_buffer' \in [Slots -> Strings]
      BY <1>3 DEF my_log, WaitEmpty, WaitMutex, WriteSlot, AdvanceWrite,
                  PostMutex, PostFill, Types, Strings
    <2> QED
      BY <1>0, <2>0, <2>1, <2>2, <2>3, <2>4, <2>5 DEF Types
  <1>4. ASSUME LoggerStep PROVE Types'
    <2>0. /\ log_buffer' = log_buffer /\ write_mutex' = write_mutex
          /\ write_index' = write_index /\ stage' = stage /\ entries' = entries
      BY <1>4 DEF LoggerStep, WaitFill, LoadEntry, WriteFile, FreeEntry,
                  PostEmpty, LoggerMoves
    <2>1. fill_count' \in Nat /\ empty_count' \in Nat
      BY <1>4 DEF LoggerStep, WaitFill, LoadEntry, WriteFile, FreeEntry,
                  PostEmpty, Types
    <2>2. read_index' \in Slots
      BY <1>4, NextSlotWraps DEF LoggerStep, WaitFill, LoadEntry, WriteFile,
                                 FreeEntry, PostEmpty, Types
    <2>3. logger' \in {"wait", "load", "write", "free", "post"}
      BY <1>4 DEF LoggerStep, WaitFill, LoadEntry, WriteFile, FreeEntry,
                  PostEmpty, LoggerMoves
    <2>4. log_msg' \in Strings
      BY <1>4 DEF LoggerStep, WaitFill, LoadEntry, WriteFile, FreeEntry,
                  PostEmpty, Types
    <2>5. log' \in [Callers -> Nat]
      BY <1>4 DEF LoggerStep, WaitFill, LoadEntry, WriteFile, FreeEntry,
                  PostEmpty, Types, Strings
    <2> QED
      BY <1>0, <2>0, <2>1, <2>2, <2>3, <2>4, <2>5 DEF Types
  <1> QED
    BY <1>1, <1>2, <1>3, <1>4, StepKinds

(* One caller at a time is between its wait for write_mutex and its post.  *)
LEMMA MutexNext ==
    ASSUME Types, Calls, Mutex, [Next]_vars
    PROVE  Mutex'
  <1>0. stage \in [Callers -> Stages] /\ write_mutex \in {0, 1}
    BY DEF Types
  <1>1. CASE Outside
    BY <1>1 DEF Outside, Mutex
  <1>2. ASSUME NEW t \in Callers, Called(t) PROVE Mutex'
    BY <1>0, <1>2 DEF Called, Mutex, InSection
  <1>3. ASSUME NEW t \in Callers, my_log(t) PROVE Mutex'
    <2>1. CASE WaitEmpty(t) \/ WriteSlot(t) \/ AdvanceWrite(t)
      BY <1>0, <2>1 DEF WaitEmpty, WriteSlot, AdvanceWrite, Move, semaphores,
                        Mutex, InSection
    <2>2. CASE WaitMutex(t)
      BY <1>0, <2>2 DEF WaitMutex, Move, Mutex, InSection
    <2>3. CASE PostMutex(t)
      BY <1>0, <2>3 DEF PostMutex, Move, Mutex, InSection
    <2>4. CASE PostFill(t)
      BY <1>0, <2>4 DEF PostFill, Move, Mutex, InSection
    <2> QED
      BY <1>3, <2>1, <2>2, <2>3, <2>4 DEF my_log
  <1>4. CASE LoggerStep
    BY <1>4 DEF LoggerStep, WaitFill, LoadEntry, WriteFile, FreeEntry,
                PostEmpty, LoggerMoves, Mutex
  <1> QED
    BY <1>1, <1>2, <1>3, <1>4, StepKinds

-----------------------------------------------------------------------------
(* What the steps do to the slots.                                         *)

(* How the number of entries waiting and of slots held change when one     *)
(* caller moves.                                                           *)
LEMMA CallerMoves ==
    ASSUME Types, NEW t \in Callers, fill_count' \in Nat,
           stage' = [stage EXCEPT ![t] = stage'[t]], logger' = logger
    PROVE  /\ \E n \in Int :
                 /\ Waiting = fill_count + n
                 /\ Waiting' = fill_count' + n
                       + (IF stage'[t] \in StoredAt THEN 1 ELSE 0)
                       - (IF stage[t] \in StoredAt THEN 1 ELSE 0)
           /\ Cardinality(At(HoldingAt)') = Cardinality(At(HoldingAt))
                + (IF stage'[t] \in HoldingAt THEN 1 ELSE 0)
                - (IF stage[t] \in HoldingAt THEN 1 ELSE 0)
           /\ Cardinality(At(HoldingAt)) \in Nat
           /\ Consuming' = Consuming /\ Consuming \in 0 .. 1
  <1> DEFINE S == Cardinality(At(StoredAt))  T == Cardinality(At(StoredAt)')
  <1>1. /\ S \in Nat /\ Cardinality(At(HoldingAt)) \in Nat
    BY CountsNat
  <1>2. T = S + (IF stage'[t] \in StoredAt THEN 1 ELSE 0)
              - (IF stage[t] \in StoredAt THEN 1 ELSE 0)
    BY CountMove DEF Types
  <1>3. Cardinality(At(HoldingAt)') = Cardinality(At(HoldingAt))
                + (IF stage'[t] \in HoldingAt THEN 1 ELSE 0)
                - (IF stage[t] \in HoldingAt THEN 1 ELSE 0)
    BY CountMove DEF Types
  <1>4. /\ Waiting = fill_count + (IF logger = "load" THEN 1 ELSE 0) + S
        /\ Waiting' = fill_count' + (IF logger' = "load" THEN 1 ELSE 0) + T
    BY WaitingIs
  <1>5. fill_count \in Nat /\ Consuming' = Consuming /\ Consuming \in 0 .. 1
    BY DEF Types, Consuming
  <1> HIDE DEF S, T
  <1> DEFINE n == (IF logger = "load" THEN 1 ELSE 0) + S
  <1>6. n \in Int /\ Waiting = fill_count + n
    BY <1>1, <1>4, <1>5
  <1>7. Waiting' = fill_count' + n + (IF stage'[t] \in StoredAt THEN 1 ELSE 0)
                       - (IF stage[t] \in StoredAt THEN 1 ELSE 0)
    BY <1>1, <1>2, <1>4, <1>5
  <1> HIDE DEF n
  <1> QED
    BY <1>1, <1>3, <1>5, <1>6, <1>7

(* The same for a step of the logger.                                      *)
LEMMA LoggerCounts ==
    ASSUME Types, stage' = stage, fill_count' \in Nat
    PROVE  /\ \E n \in Int :
                 /\ Waiting = fill_count + n
                 /\ Waiting' = fill_count' + n
                       + (IF logger' = "load" THEN 1 ELSE 0)
                       - (IF logger = "load" THEN 1 ELSE 0)
           /\ Cardinality(At(HoldingAt)') = Cardinality(At(HoldingAt))
           /\ Cardinality(At(HoldingAt)) \in Nat
  <1> DEFINE S == Cardinality(At(StoredAt))
  <1>1. /\ S \in Nat /\ Cardinality(At(HoldingAt)) \in Nat
    BY CountsNat
  <1>2. /\ Cardinality(At(StoredAt)') = S
        /\ Cardinality(At(HoldingAt)') = Cardinality(At(HoldingAt))
    BY Zenon DEF At
  <1>3. /\ Waiting = fill_count + (IF logger = "load" THEN 1 ELSE 0) + S
        /\ Waiting' = fill_count' + (IF logger' = "load" THEN 1 ELSE 0) + S
    BY <1>2, WaitingIs
  <1>4. fill_count \in Nat
    BY DEF Types
  <1> HIDE DEF S
  <1> DEFINE n == (IF logger = "load" THEN 1 ELSE 0) + S
  <1>5. n \in Int /\ Waiting = fill_count + n
    BY <1>1, <1>3, <1>4
  <1>6. Waiting' = fill_count' + n + (IF logger' = "load" THEN 1 ELSE 0)
                                   - (IF logger = "load" THEN 1 ELSE 0)
    BY <1>1, <1>3, <1>4
  <1> HIDE DEF n
  <1> QED
    BY <1>1, <1>2, <1>5, <1>6

(* Every step keeps the account of the slots; only AdvanceWrite and        *)
(* LoadEntry change the number of entries waiting.                         *)
LEMMA TokensNext ==
    ASSUME Types, Types', Calls, Tokens, [Next]_vars
    PROVE  /\ Tokens'
           /\ \/ Waiting' = Waiting
              \/ \E t \in Callers : AdvanceWrite(t) /\ Waiting' = Waiting + 1
              \/ LoadEntry /\ Waiting' = Waiting - 1
  <1> DEFINE H == Cardinality(At(HoldingAt))
             G == Cardinality(At(HoldingAt)')
             Goal == /\ Tokens'
                     /\ \/ Waiting' = Waiting
                        \/ \E t \in Callers :
                              AdvanceWrite(t) /\ Waiting' = Waiting + 1
                        \/ LoadEntry /\ Waiting' = Waiting - 1
  <1>t. /\ fill_count \in Nat /\ empty_count \in Nat /\ LogBufferSize \in Nat
        /\ fill_count' \in Nat /\ empty_count' \in Nat
    BY LogAssumption DEF Types
  <1>s. stage \in [Callers -> Stages]
    BY DEF Types
  <1>q. empty_count + H + Waiting + Consuming = LogBufferSize
    BY DEF Tokens
  <1>p. ASSUME empty_count' + G + Waiting' + Consuming' = LogBufferSize
        PROVE  Tokens'
    BY <1>p DEF Tokens
  <1>1. CASE Outside
    <2>1. Waiting' = Waiting /\ G = H /\ Consuming' = Consuming
      BY <1>1 DEF Outside, Waiting, At, Consuming
    <2>2. empty_count' = empty_count
      BY <1>1 DEF Outside
    <2> QED
      BY <2>1, <2>2, <1>q, <1>p
  <1>2. ASSUME NEW t \in Callers, Called(t) PROVE Goal
    <2>1. /\ stage' = [stage EXCEPT ![t] = stage'[t]] /\ stage'[t] = "wait_empty"
          /\ stage[t] = "none"
          /\ logger' = logger /\ fill_count' = fill_count
          /\ empty_count' = empty_count
      BY <1>2, <1>s DEF Called
    <2>2. PICK n \in Int :
          /\ Waiting = fill_count + n
          /\ Waiting' = fill_count' + n
          /\ G = H /\ H \in Nat /\ Consuming' = Consuming
      BY <2>1, <1>t, CallerMoves DEF StoredAt, HoldingAt
    <2> HIDE DEF H, G
    <2>3. Waiting' = Waiting
      BY <2>1, <2>2, <1>t
    <2> QED
      BY <2>1, <2>2, <2>3, <1>q, <1>p
  <1>3. ASSUME NEW t \in Callers, my_log(t) PROVE Goal
    <2>0. logger' = logger
      BY <1>3 DEF my_log, WaitEmpty, WaitMutex, WriteSlot, AdvanceWrite,
                  PostMutex, PostFill, Move, reader
    <2>1. CASE WaitEmpty(t)
      <3>1. /\ stage' = [stage EXCEPT ![t] = stage'[t]] /\ stage'[t] = "wait_mutex"
            /\ stage[t] = "wait_empty"
            /\ fill_count' = fill_count /\ empty_count' = empty_count - 1
        BY <2>1, <1>s DEF WaitEmpty, Move
      <3>2. PICK n \in Int :
            /\ Waiting = fill_count + n
            /\ Waiting' = fill_count' + n
            /\ G = H + 1 /\ H \in Nat
            /\ Consuming' = Consuming /\ Consuming \in 0 .. 1
        BY <3>1, <2>0, <1>t, CallerMoves DEF StoredAt, HoldingAt
      <3> HIDE DEF H, G
      <3>3. Waiting' = Waiting
        BY <3>1, <3>2, <1>t
      <3>4. empty_count' + G + Waiting' + Consuming' = LogBufferSize
        BY <3>1, <3>2, <3>3, <1>q, <1>t
      <3> QED
        BY <3>3, <3>4, <1>p DEF H, G
    <2>2. CASE WaitMutex(t) \/ WriteSlot(t) \/ PostMutex(t)
      <3>0. /\ stage' = [stage EXCEPT ![t] = stage'[t]]
            /\ stage'[t] \in StoredAt <=> stage[t] \in StoredAt
            /\ stage'[t] \in HoldingAt <=> stage[t] \in HoldingAt
        BY <2>2, <1>s DEF WaitMutex, WriteSlot, PostMutex, Move, StoredAt, HoldingAt
      <3>1. fill_count' = fill_count /\ empty_count' = empty_count
        BY <2>2 DEF WaitMutex, WriteSlot, PostMutex, semaphores
      <3>a. (IF stage'[t] \in StoredAt THEN 1 ELSE 0)
              = (IF stage[t] \in StoredAt THEN 1 ELSE 0)
            /\ (IF stage'[t] \in HoldingAt THEN 1 ELSE 0)
              = (IF stage[t] \in HoldingAt THEN 1 ELSE 0)
        BY <3>0
      <3>b. PICK n \in Int :
              /\ Waiting = fill_count + n
              /\ Waiting' = fill_count' + n
                    + (IF stage'[t] \in StoredAt THEN 1 ELSE 0)
                    - (IF stage[t] \in StoredAt THEN 1 ELSE 0)
        BY <3>0, <2>0, <1>t, CallerMoves
      <3>c. /\ G = H + (IF stage'[t] \in HoldingAt THEN 1 ELSE 0)
                     - (IF stage[t] \in HoldingAt THEN 1 ELSE 0)
            /\ H \in Nat /\ Consuming' = Consuming /\ Consuming \in 0 .. 1
        BY <3>0, <2>0, <1>t, CallerMoves
      <3> HIDE DEF H, G
      <3>2. /\ Waiting' = fill_count' + n /\ Waiting = fill_count + n
            /\ G = H /\ H \in Nat
            /\ Consuming' = Consuming /\ Consuming \in 0 .. 1
        BY <3>0, <3>a, <3>b, <3>c, <1>t
      <3>3. Waiting' = Waiting
        BY <3>1, <3>2, <1>t
      <3>4. empty_count' + G + Waiting' + Consuming' = LogBufferSize
        BY <3>1, <3>2, <3>3, <1>q, <1>t
      <3> QED
        BY <3>3, <3>4, <1>p DEF H, G
    <2>3. CASE AdvanceWrite(t)
      <3>1. /\ stage' = [stage EXCEPT ![t] = stage'[t]] /\ stage'[t] = "post_mutex"
            /\ stage[t] = "advance"
            /\ fill_count' = fill_count /\ empty_count' = empty_count
        BY <2>3, <1>s DEF AdvanceWrite, Move, semaphores
      <3>2. PICK n \in Int :
            /\ Waiting = fill_count + n
            /\ Waiting' = fill_count' + n + 1
            /\ G = H - 1 /\ H \in Nat
            /\ Consuming' = Consuming /\ Consuming \in 0 .. 1
        BY <3>1, <2>0, <1>t, CallerMoves DEF StoredAt, HoldingAt
      <3> HIDE DEF H, G
      <3>3. Waiting' = Waiting + 1
        BY <3>1, <3>2, <1>t
      <3>4. empty_count' + G + Waiting' + Consuming' = LogBufferSize
        BY <3>1, <3>2, <3>3, <1>q, <1>t
      <3> QED
        BY <3>3, <3>4, <1>p, <2>3 DEF H, G
    <2>4. CASE PostFill(t)
      <3>1. /\ stage' = [stage EXCEPT ![t] = stage'[t]] /\ stage'[t] = "none"
            /\ stage[t] = "post_fill"
            /\ fill_count' = fill_count + 1 /\ empty_count' = empty_count
        BY <2>4, <1>s DEF PostFill, Move
      <3>2. PICK n \in Int :
            /\ Waiting = fill_count + n
            /\ Waiting' = fill_count' + n - 1
            /\ G = H /\ H \in Nat
            /\ Consuming' = Consuming /\ Consuming \in 0 .. 1
        BY <3>1, <2>0, <1>t, CallerMoves DEF StoredAt, HoldingAt
      <3> HIDE DEF H, G
      <3>3. Waiting' = Waiting
        BY <3>1, <3>2, <1>t
      <3>4. empty_count' + G + Waiting' + Consuming' = LogBufferSize
        BY <3>1, <3>2, <3>3, <1>q, <1>t
      <3> QED
        BY <3>3, <3>4, <1>p DEF H, G
    <2> QED
      BY <1>3, <2>1, <2>2, <2>3, <2>4 DEF my_log
  <1>4. ASSUME LoggerStep PROVE Goal
    <2>0. stage' = stage
      BY <1>4 DEF LoggerStep, WaitFill, LoadEntry, WriteFile, FreeEntry,
                  PostEmpty, LoggerMoves
    <2>1. PICK n \in Int :
            /\ Waiting = fill_count + n
            /\ Waiting' = fill_count' + n
                  + (IF logger' = "load" THEN 1 ELSE 0)
                  - (IF logger = "load" THEN 1 ELSE 0)
            /\ G = H /\ H \in Nat
      BY <2>0, <1>t, LoggerCounts
    <2> HIDE DEF H, G
    <2>2. CASE WaitFill
      <3>1. /\ logger = "wait" /\ logger' = "load"
            /\ fill_count' = fill_count - 1 /\ empty_count' = empty_count
            /\ Consuming = 0 /\ Consuming' = 0
        BY <2>2 DEF WaitFill, LoggerMoves, Consuming
      <3>2. Waiting' = Waiting
        BY <3>1, <2>1, <1>t
      <3> QED
        BY <3>1, <3>2, <2>1, <1>q, <1>p DEF H, G
    <2>3. CASE LoadEntry
      <3>1. /\ logger = "load" /\ logger' = "write"
            /\ fill_count' = fill_count /\ empty_count' = empty_count
            /\ Consuming = 0 /\ Consuming' = 1
        BY <2>3 DEF LoadEntry, LoggerMoves, Consuming
      <3>2. Waiting' = Waiting - 1
        BY <3>1, <2>1, <1>t
      <3>3. empty_count' + G + Waiting' + Consuming' = LogBufferSize
        BY <3>1, <3>2, <2>1, <1>q, <1>t
      <3> QED
        BY <3>2, <3>3, <2>3, <1>p DEF H, G
    <2>4. CASE WriteFile \/ FreeEntry
      <3>1. /\ logger # "load" /\ logger' # "load"
            /\ fill_count' = fill_count /\ empty_count' = empty_count
            /\ Consuming = 1 /\ Consuming' = 1
        BY <2>4 DEF WriteFile, FreeEntry, LoggerMoves, Consuming
      <3>2. Waiting' = Waiting
        BY <3>1, <2>1, <1>t
      <3> QED
        BY <3>1, <3>2, <2>1, <1>q, <1>p DEF H, G
    <2>5. CASE PostEmpty
      <3>1. /\ logger # "load" /\ logger' # "load"
            /\ fill_count' = fill_count /\ empty_count' = empty_count + 1
            /\ Consuming = 1 /\ Consuming' = 0
        BY <2>5 DEF PostEmpty, LoggerMoves, Consuming
      <3>2. Waiting' = Waiting
        BY <3>1, <2>1, <1>t
      <3>3. empty_count' + G + Waiting' + Consuming' = LogBufferSize
        BY <3>1, <3>2, <2>1, <1>q, <1>t
      <3> QED
        BY <3>2, <3>3, <1>p DEF H, G
    <2> QED
      BY <1>4, <2>2, <2>3, <2>4, <2>5 DEF LoggerStep
  <1> QED
    BY <1>1, <1>2, <1>3, <1>4, StepKinds

-----------------------------------------------------------------------------
(* Queues of numbered entries.                                             *)

(* The next entry of a caller, put at the end, keeps the order.            *)
LEMMA Enqueue ==
    ASSUME NEW w \in Nat, NEW q \in [0 .. w - 1 -> Strings],
           NEW r \in [0 .. w -> Strings], NEW t \in Callers,
           NEW passed \in [Callers -> Nat], NEW taken \in [Callers -> Nat],
           \A k \in 0 .. w - 1 : r[k] = q[k],
           r[w] = <<t, passed[t] + 1>>,
           Ordered(w, q, passed, taken)
    PROVE  Ordered(w + 1, r, [passed EXCEPT ![t] = passed[t] + 1], taken)
  <1> DEFINE p == [passed EXCEPT ![t] = passed[t] + 1]
  <1>1. /\ p \in [Callers -> Nat] /\ p[t] = passed[t] + 1
        /\ \A u \in Callers : u # t => p[u] = passed[u]
        /\ \A u \in Callers : passed[u] <= p[u]
    OBVIOUS
  <1>2. /\ r[w][1] = t /\ r[w][2] = passed[t] + 1
        /\ \A k \in 0 .. w - 1 : /\ q[k][1] \in Callers /\ q[k][2] \in Nat
                                 /\ r[k][1] = q[k][1] /\ r[k][2] = q[k][2]
    BY DEF Strings
  <1>3. \A k \in 0 .. w : k \in 0 .. w - 1 \/ k = w
    OBVIOUS
  <1>4. (w + 1) - 1 = w
    OBVIOUS
  <1> HIDE DEF p
  <1>5. \A u \in Callers : taken[u] <= p[u]
    BY <1>1 DEF Ordered
  <1>6. \A k \in 0 .. w : r[k][2] > taken[r[k][1]] /\ r[k][2] <= p[r[k][1]]
    <2>1. ASSUME NEW k \in 0 .. w - 1
          PROVE  r[k][2] > taken[r[k][1]] /\ r[k][2] <= p[r[k][1]]
      <3>1. q[k][2] > taken[q[k][1]] /\ q[k][2] <= passed[q[k][1]]
        BY DEF Ordered
      <3>2. passed[q[k][1]] <= p[q[k][1]] /\ passed[q[k][1]] \in Nat
            /\ p[q[k][1]] \in Nat
        BY <1>1, <1>2
      <3> QED
        BY <3>1, <3>2, <1>2
    <2>2. passed[t] + 1 > taken[t]
      BY DEF Ordered
    <2> QED
      BY <2>1, <2>2, <1>1, <1>2, <1>3
  <1>7. ASSUME NEW k \in 0 .. w, NEW l \in 0 .. w, k < l, r[k][1] = r[l][1]
        PROVE  r[k][2] < r[l][2]
    <2>1. k \in 0 .. w - 1
      BY <1>7
    <2>2. CASE l \in 0 .. w - 1
      BY <2>1, <2>2, <1>2, <1>7 DEF Ordered
    <2>3. CASE l = w
      <3>1. q[k][1] = t /\ q[k][2] <= passed[q[k][1]]
        BY <2>1, <2>3, <1>2, <1>7 DEF Ordered
      <3> QED
        BY <3>1, <2>1, <2>3, <1>2
    <2> QED
      BY <2>2, <2>3, <1>3
  <1>8. ASSUME NEW u \in Callers, NEW n \in Nat, taken[u] < n, n <= p[u]
        PROVE  \E k \in 0 .. w : r[k][1] = u /\ r[k][2] = n
    <2>1. CASE n <= passed[u]
      <3>1. PICK k \in 0 .. w - 1 : q[k][1] = u /\ q[k][2] = n
        BY <2>1, <1>8 DEF Ordered
      <3>2. k \in 0 .. w
        OBVIOUS
      <3> QED
        BY <3>1, <3>2, <1>2
    <2>2. CASE ~(n <= passed[u])
      <3>1. u = t /\ n = passed[t] + 1
        BY <2>2, <1>1, <1>8
      <3>2. w \in 0 .. w
        OBVIOUS
      <3> QED
        BY <3>1, <3>2, <1>2
    <2> QED
      BY <2>1, <2>2
  <1> QED
    BY <1>4, <1>5, <1>6, <1>7, <1>8 DEF Ordered, p

(* The oldest entry is the next its caller has not seen taken.             *)
LEMMA Oldest ==
    ASSUME NEW w \in Nat \ {0}, NEW q \in [0 .. w - 1 -> Strings],
           NEW passed \in [Callers -> Nat], NEW taken \in [Callers -> Nat],
           Ordered(w, q, passed, taken)
    PROVE  q[0][2] = taken[q[0][1]] + 1
  <1>1. /\ \A k \in 0 .. w - 1 : q[k][1] \in Callers /\ q[k][2] \in Nat
        /\ 0 \in 0 .. w - 1
    BY DEF Strings
  <1> DEFINE t == q[0][1]
  <1>2. t \in Callers /\ taken[t] \in Nat /\ passed[t] \in Nat /\ q[0][2] \in Nat
    BY <1>1
  <1>3. q[0][2] > taken[t] /\ q[0][2] <= passed[t]
    BY <1>1 DEF Ordered
  <1>4. q[0][2] = taken[t] + 1
    <2> SUFFICES ASSUME q[0][2] # taken[t] + 1 PROVE FALSE
      OBVIOUS
    <2>1. /\ taken[t] + 1 \in Nat /\ taken[t] < taken[t] + 1
          /\ taken[t] + 1 <= passed[t] /\ taken[t] + 1 < q[0][2]
      BY <1>2, <1>3
    <2>0. PICK n \in Nat : n = taken[t] + 1
      BY <2>1
    <2>a. \A u \in Callers, m \in Nat : taken[u] < m /\ m <= passed[u] =>
             \E k \in 0 .. w - 1 : q[k][1] = u /\ q[k][2] = m
      BY DEF Ordered
    <2>b. taken[t] < n /\ n <= passed[t]
      BY <2>0, <2>1
    <2> HIDE DEF t
    <2>c. PICK k \in 0 .. w - 1 : q[k][1] = t /\ q[k][2] = n
      BY <2>a, <2>b, <1>2
    <2>2. q[k][1] = t /\ q[k][2] = taken[t] + 1
      BY <2>0, <2>c
    <2>3. k # 0
      BY <2>1, <2>2, <1>2
    <2>4. 0 < k
      BY <2>3
    <2>5. q[0][2] < q[k][2]
      BY <2>2, <2>4, <1>1 DEF Ordered, t
    <2> QED
      BY <2>1, <2>2, <2>5, <1>2
  <1> QED
    BY <1>4

(* Without it the rest is in order.                                        *)
LEMMA Dequeue ==
    ASSUME NEW w \in Nat \ {0}, NEW q \in [0 .. w - 1 -> Strings],
           NEW r \in [0 .. w - 2 -> Strings],
           NEW passed \in [Callers -> Nat], NEW taken \in [Callers -> Nat],
           \A k \in 0 .. w - 2 : r[k] = q[k + 1],
           Ordered(w, q, passed, taken)
    PROVE  Ordered(w - 1, r, passed,
                   [taken EXCEPT ![q[0][1]] = taken[q[0][1]] + 1])
  <1>1. /\ \A k \in 0 .. w - 1 : q[k][1] \in Callers /\ q[k][2] \in Nat
        /\ 0 \in 0 .. w - 1
    BY DEF Strings
  <1> DEFINE t == q[0][1]
             h == [taken EXCEPT ![t] = taken[t] + 1]
  <1>2. t \in Callers /\ taken[t] \in Nat /\ passed[t] \in Nat /\ q[0][2] \in Nat
    BY <1>1
  <1>3. q[0][2] > taken[t] /\ q[0][2] <= passed[t]
    BY <1>1 DEF Ordered
  <1>4. q[0][2] = taken[t] + 1
    BY Oldest
  <1>5. /\ h \in [Callers -> Nat] /\ h[t] = taken[t] + 1
        /\ \A u \in Callers : u # t => h[u] = taken[u]
    BY <1>2
  <1>6. \A k \in 0 .. w - 2 :
          /\ k + 1 \in 0 .. w - 1 /\ k \in Nat
          /\ r[k][1] = q[k + 1][1] /\ r[k][2] = q[k + 1][2]
          /\ q[k + 1][1] \in Callers /\ q[k + 1][2] \in Nat
    BY <1>1
  <1> HIDE DEF h
  <1>7. \A u \in Callers : h[u] <= passed[u]
    BY <1>2, <1>3, <1>4, <1>5 DEF Ordered
  <1>8. ASSUME NEW k \in 0 .. w - 2
        PROVE  r[k][2] > h[r[k][1]] /\ r[k][2] <= passed[r[k][1]]
    <2>1. q[k + 1][2] > taken[q[k + 1][1]] /\ q[k + 1][2] <= passed[q[k + 1][1]]
      BY <1>6 DEF Ordered
    <2>2. CASE q[k + 1][1] # t
      BY <2>1, <2>2, <1>5, <1>6
    <2>3. CASE q[k + 1][1] = t
      <3>1. q[0][2] < q[k + 1][2]
        BY <2>3, <1>1, <1>6 DEF Ordered
      <3> QED
        BY <3>1, <2>1, <2>3, <1>4, <1>5, <1>6
    <2> QED
      BY <2>2, <2>3
  <1>9. ASSUME NEW k \in 0 .. w - 2, NEW l \in 0 .. w - 2, k < l,
               r[k][1] = r[l][1]
        PROVE  r[k][2] < r[l][2]
    <2>1. k + 1 < l + 1
      BY <1>9
    <2> QED
      BY <2>1, <1>6, <1>9 DEF Ordered
  <1>10. ASSUME NEW u \in Callers, NEW n \in Nat, h[u] < n, n <= passed[u]
         PROVE  \E k \in 0 .. w - 2 : r[k][1] = u /\ r[k][2] = n
    <2>1. taken[u] < n /\ (u = t => n # taken[t] + 1)
      BY <1>2, <1>5, <1>10
    <2>2. PICK k \in 0 .. w - 1 : q[k][1] = u /\ q[k][2] = n
      BY <2>1, <1>10 DEF Ordered
    <2>3. k # 0
      BY <2>1, <2>2, <1>4
    <2>4. k - 1 \in 0 .. w - 2 /\ (k - 1) + 1 = k
      BY <2>3
    <2>5. r[k - 1] = q[k]
      BY <2>4
    <2> QED
      BY <2>2, <2>4, <2>5
  <1>11. (w - 1) - 1 = w - 2
    OBVIOUS
  <1>12. Ordered(w - 1, r, passed, h)
    BY <1>7, <1>8, <1>9, <1>10, <1>11 DEF Ordered
  <1> QED
    BY <1>12 DEF h

-----------------------------------------------------------------------------
(* The entries waiting.                                                    *)

(* The types of the queue and of the counts of entries.                    *)
LEMMA ViewTypes ==
    ASSUME Types, Tokens, Held
    PROVE  /\ Waiting \in Nat /\ Queue \in [0 .. Waiting - 1 -> Strings]
           /\ Passed \in [Callers -> Nat] /\ Taken \in [Callers -> Nat]
  <1>1. Waiting \in 0 .. LogBufferSize /\ LogBufferSize \in Nat
    BY WaitingBounds, LogAssumption
  <1>2. ASSUME NEW k \in 0 .. Waiting - 1 PROVE log_buffer[Slot(k)] \in Strings
    <2>1. k \in 0 .. LogBufferSize
      BY <1>1
    <2>2. Slot(k) \in Slots
      BY <2>1, SlotIs DEF Types
    <2> QED
      BY <2>2 DEF Types
  <1>3. Queue \in [0 .. Waiting - 1 -> Strings]
    BY <1>2 DEF Queue
  <1>4. Passed \in [Callers -> Nat]
    BY DEF Passed, Types, Held, PendingAt
  <1>5. Taken \in [Callers -> Nat]
    BY DEF Taken, Types
  <1> QED
    BY <1>1, <1>3, <1>4, <1>5

(* The step that writes a slot writes none of those waiting, and no step   *)
(* but AdvanceWrite and LoadEntry changes what is waiting, or how far each *)
(* caller's entries have come.                                             *)
LEMMA ViewKept ==
    ASSUME Types, Types', Calls, Tokens, Position, Held, [Next]_vars,
           Waiting' = Waiting, ~LoadEntry, \A t \in Callers : ~AdvanceWrite(t)
    PROVE  Queue' = Queue /\ Passed' = Passed /\ Taken' = Taken
  <1>1. ASSUME read_index' = read_index, log_buffer' = log_buffer
        PROVE  Queue' = Queue
    BY <1>1 DEF Queue, Slot
  <1>2. CASE Outside
    BY <1>1, <1>2 DEF Outside, Passed, Taken
  <1>3. ASSUME NEW t \in Callers, Called(t)
        PROVE  Queue' = Queue /\ Passed' = Passed /\ Taken' = Taken
    <2>1. Queue' = Queue /\ Taken' = Taken
      BY <1>1, <1>3 DEF Called, Taken
    <2>2. /\ stage[t] = "none" /\ stage' = [stage EXCEPT ![t] = "wait_empty"]
          /\ entries' = [entries EXCEPT ![t] = entries[t] + 1]
          /\ stage \in [Callers -> Stages] /\ entries \in [Callers -> Nat]
      BY <1>3 DEF Called, Types
    <2>3. ASSUME NEW u \in Callers
          PROVE  (IF stage'[u] \in PendingAt THEN entries'[u] - 1 ELSE entries'[u])
                 = (IF stage[u] \in PendingAt THEN entries[u] - 1 ELSE entries[u])
      BY <2>2 DEF PendingAt
    <2> QED
      BY <2>1, <2>3 DEF Passed
  <1>4. ASSUME NEW t \in Callers, my_log(t)
        PROVE  Queue' = Queue /\ Passed' = Passed /\ Taken' = Taken
    <2>0. /\ read_index' = read_index /\ entries' = entries /\ Taken' = Taken
          /\ stage \in [Callers -> Stages]
      BY <1>4 DEF my_log, WaitEmpty, WaitMutex, WriteSlot, AdvanceWrite,
                  PostMutex, PostFill, Move, reader, Taken, Types
    <2>1. CASE WaitEmpty(t) \/ WaitMutex(t) \/ PostMutex(t) \/ PostFill(t)
      <3>1. Queue' = Queue
        BY <2>0, <2>1, <1>1 DEF WaitEmpty, WaitMutex, PostMutex, PostFill
      <3>2. \A u \in Callers : stage'[u] \in PendingAt <=> stage[u] \in PendingAt
        BY <2>0, <2>1 DEF WaitEmpty, WaitMutex, PostMutex, PostFill, Move,
                          PendingAt
      <3> QED
        BY <3>1, <3>2, <2>0 DEF Passed
    <2>2. CASE WriteSlot(t)
      <3>1. stage[t] = "write" /\ stage' = [stage EXCEPT ![t] = "advance"]
            /\ log_buffer' = [log_buffer EXCEPT ![write_index] = <<t, entries[t]>>]
        BY <2>2 DEF WriteSlot, Move
      <3>2. Waiting \in 0 .. LogBufferSize - 1
        BY <3>1, WaitingBounds, LogAssumption DEF HoldingAt
      <3>3. write_index = Slot(Waiting)
        BY DEF Position
      <3>4. ASSUME NEW k \in 0 .. Waiting - 1
            PROVE  log_buffer'[Slot(k)'] = log_buffer[Slot(k)]
        <4>1. Slot(k) # Slot(Waiting)
          BY <3>2, SlotsDiffer DEF Types
        <4>2. k \in 0 .. LogBufferSize
          BY <3>2, LogAssumption
        <4>3. Slot(k) \in Slots
          BY <4>2, SlotIs DEF Types
        <4>4. Slot(k)' = Slot(k)
          BY <2>0 DEF Slot
        <4> QED
          BY <4>1, <4>3, <4>4, <3>1, <3>3 DEF Types
      <3>5. Queue' = Queue
        BY <3>4 DEF Queue
      <3>6. \A u \in Callers : stage'[u] \in PendingAt <=> stage[u] \in PendingAt
        BY <2>0, <3>1 DEF PendingAt
      <3> QED
        BY <3>5, <3>6, <2>0 DEF Passed
    <2> QED
      BY <1>4, <2>1, <2>2 DEF my_log
  <1>5. ASSUME LoggerStep
        PROVE  Queue' = Queue /\ Passed' = Passed /\ Taken' = Taken
    <2>1. Queue' = Queue /\ Passed' = Passed
      BY <1>1, <1>5 DEF LoggerStep, WaitFill, WriteFile, FreeEntry, PostEmpty,
                        LoggerMoves, Passed
    <2>2. CASE WaitFill \/ FreeEntry \/ PostEmpty
      BY <2>1, <2>2 DEF WaitFill, FreeEntry, PostEmpty, LoggerMoves, Taken
    <2>3. CASE WriteFile
      <3>1. /\ logger = "write" /\ logger' = "free"
            /\ log' = [log EXCEPT ![log_msg[1]] = log_msg[2]]
            /\ log_msg[2] = log[log_msg[1]] + 1
            /\ log_msg[1] \in Callers /\ log \in [Callers -> Nat]
        BY <2>3 DEF WriteFile, LoggerMoves, Held, Types, Strings
      <3>2. \A u \in Callers :
              log'[u] = IF log_msg[1] = u THEN log[u] + 1 ELSE log[u]
        BY <3>1
      <3> QED
        BY <2>1, <3>1, <3>2 DEF Taken
    <2> QED
      BY <1>5, <2>2, <2>3 DEF LoggerStep
  <1> QED
    BY <1>2, <1>3, <1>4, <1>5, StepKinds

(* AdvanceWrite puts the entry of its caller at the end of the queue.      *)
LEMMA ViewGrows ==
    ASSUME Types, Types', Tokens, Position, NEW t \in Callers, AdvanceWrite(t),
           Waiting' = Waiting + 1
    PROVE  /\ \A k \in 0 .. Waiting - 1 : Queue'[k] = Queue[k]
           /\ Queue'[Waiting] = <<t, Passed[t] + 1>>
           /\ Queue'[Waiting] = <<t, entries[t]>>
           /\ Passed' = [Passed EXCEPT ![t] = Passed[t] + 1]
           /\ Taken' = Taken
  <1>1. /\ stage[t] = "advance" /\ stage' = [stage EXCEPT ![t] = "post_mutex"]
        /\ read_index' = read_index /\ log_buffer' = log_buffer
        /\ entries' = entries /\ entries \in [Callers -> Nat]
        /\ stage \in [Callers -> Stages] /\ Taken' = Taken
    BY DEF AdvanceWrite, Move, reader, Taken, Types
  <1>2. Waiting \in Nat
    BY WaitingBounds, LogAssumption
  <1>3. \A k : Slot(k)' = Slot(k)
    BY <1>1 DEF Slot
  <1>4. Queue' = [k \in 0 .. Waiting |-> log_buffer[Slot(k)]]
    BY <1>1, <1>2, <1>3 DEF Queue
  <1>5. \A k \in 0 .. Waiting - 1 : Queue'[k] = Queue[k]
    BY <1>2, <1>4 DEF Queue
  <1>6. Passed[t] + 1 = entries[t]
    BY <1>1 DEF Passed, PendingAt
  <1>7. Queue'[Waiting] = <<t, entries[t]>>
    BY <1>1, <1>2, <1>4 DEF Position
  <1>8. Passed' = [Passed EXCEPT ![t] = Passed[t] + 1]
    <2>1. \A u \in Callers : u # t => stage'[u] = stage[u]
      BY <1>1
    <2>2. stage'[t] \notin PendingAt /\ stage[t] \in PendingAt
      BY <1>1 DEF PendingAt
    <2>3. \A u \in Callers : Passed'[u] = IF u = t THEN entries[t] ELSE Passed[u]
      BY <2>1, <2>2, <1>1 DEF Passed
    <2>4. Passed' = [u \in Callers |-> Passed'[u]]
      BY DEF Passed
    <2>5. Passed = [u \in Callers |-> Passed[u]]
      BY DEF Passed
    <2> HIDE DEF Passed
    <2> QED
      BY <2>3, <2>4, <2>5, <1>6
  <1> QED
    BY <1>1, <1>5, <1>6, <1>7, <1>8

(* LoadEntry takes the oldest entry off the queue.                         *)
LEMMA ViewShrinks ==
    ASSUME Types, Types', Tokens, LoadEntry, Waiting' = Waiting - 1
    PROVE  /\ Waiting > 0 /\ log_msg' = Queue[0]
           /\ \A k \in 0 .. Waiting - 2 : Queue'[k] = Queue[k + 1]
           /\ Passed' = Passed
           /\ Taken' = [Taken EXCEPT ![Queue[0][1]] = Taken[Queue[0][1]] + 1]
           /\ Taken = log
  <1>1. /\ logger = "load" /\ logger' = "write"
        /\ log_msg' = log_buffer[read_index] /\ log' = log
        /\ read_index' = NextSlot(read_index) /\ log_buffer' = log_buffer
        /\ Passed' = Passed /\ log \in [Callers -> Nat]
        /\ log_msg' \in Strings /\ read_index \in Slots
    BY DEF LoadEntry, LoggerMoves, Passed, Types
  <1>2. /\ Waiting > 0 /\ Waiting \in Nat /\ Waiting \in 0 .. LogBufferSize
        /\ LogBufferSize \in Nat \ {0}
    BY <1>1, WaitingBounds, LogAssumption
  <1>3. log_msg' = Queue[0]
    <2>1. Slot(0) = read_index
      <3>1. 0 \in 0 .. LogBufferSize /\ read_index + 0 < LogBufferSize
            /\ read_index + 0 = read_index
        BY <1>1, <1>2 DEF Slots
      <3> QED
        BY <3>1, <1>1, SlotIs
    <2>2. 0 \in 0 .. Waiting - 1
      BY <1>2
    <2> QED
      BY <2>1, <2>2, <1>1 DEF Queue
  <1>4. ASSUME NEW k \in 0 .. Waiting - 2 PROVE Queue'[k] = Queue[k + 1]
    <2>1. /\ k \in 0 .. LogBufferSize - 1 /\ k + 1 \in 0 .. Waiting - 1
          /\ k \in 0 .. Waiting' - 1
      BY <1>2
    <2>2. Slot(k)' = Slot(k + 1)
      BY <2>1, <1>1, SlotShifts
    <2>3. Queue'[k] = log_buffer'[Slot(k)']
      BY <2>1 DEF Queue
    <2>4. Queue[k + 1] = log_buffer[Slot(k + 1)]
      BY <2>1 DEF Queue
    <2> QED
      BY <2>2, <2>3, <2>4, <1>1
  <1>5. Taken = log
    BY <1>1 DEF Taken
  <1>6. Taken' = [log EXCEPT ![log_msg'[1]] = log[log_msg'[1]] + 1]
    BY <1>1 DEF Taken, Strings
  <1> QED
    BY <1>1, <1>2, <1>3, <1>4, <1>5, <1>6

(* AdvanceWrite and LoadEntry always change the number of entries waiting. *)
LEMMA TwoStepsMove ==
    ASSUME Types, Waiting' = Waiting
    PROVE  ~LoadEntry /\ \A t \in Callers : ~AdvanceWrite(t)
  <1>1. ASSUME LoadEntry PROVE FALSE
    <2>1. /\ stage' = stage /\ fill_count' = fill_count /\ logger = "load"
          /\ logger' = "write" /\ fill_count \in Nat
      BY <1>1 DEF LoadEntry, LoggerMoves, Types
    <2>2. PICK n \in Int :
            /\ Waiting = fill_count + n
            /\ Waiting' = fill_count' + n
                  + (IF logger' = "load" THEN 1 ELSE 0)
                  - (IF logger = "load" THEN 1 ELSE 0)
      BY <2>1, LoggerCounts
    <2> QED
      BY <2>1, <2>2
  <1>2. ASSUME NEW t \in Callers, AdvanceWrite(t) PROVE FALSE
    <2>1. /\ stage' = [stage EXCEPT ![t] = stage'[t]]
          /\ stage'[t] = "post_mutex" /\ stage[t] = "advance"
          /\ fill_count' = fill_count /\ logger' = logger /\ fill_count \in Nat
      BY <1>2 DEF AdvanceWrite, Move, semaphores, reader, Types
    <2>2. PICK n \in Int : Waiting = fill_count + n
                           /\ Waiting' = fill_count' + n + 1
      BY <2>1, CallerMoves DEF StoredAt
    <2> QED
      BY <2>1, <2>2
  <1> QED
    BY <1>1, <1>2

(* No step advances write_index and loads an entry.                        *)
LEMMA AdvanceIsNoLoad ==
    ASSUME NEW t \in Callers, AdvanceWrite(t), LoadEntry
    PROVE  FALSE
  BY DEF AdvanceWrite, Move, LoadEntry, LoggerMoves, reader

(* The order is kept: an entry joins its caller's last one, and the oldest *)
(* leaves.                                                                 *)
LEMMA OrderNext ==
    ASSUME Types, Types', Calls, Tokens, Position, Order, Held, [Next]_vars
    PROVE  Order'
  <1>0. /\ Waiting \in Nat /\ Queue \in [0 .. Waiting - 1 -> Strings]
        /\ Passed \in [Callers -> Nat] /\ Taken \in [Callers -> Nat]
    BY ViewTypes
  <1>o. Ordered(Waiting, Queue, Passed, Taken)
    BY DEF Order
  <1>p. ASSUME Ordered(Waiting', Queue', Passed', Taken') PROVE Order'
    BY <1>p DEF Order, Ordered
  <1>1. ASSUME NEW t \in Callers, AdvanceWrite(t), Waiting' = Waiting + 1
        PROVE  Order'
    <2>1. /\ \A k \in 0 .. Waiting - 1 : Queue'[k] = Queue[k]
          /\ Queue'[Waiting] = <<t, Passed[t] + 1>>
          /\ Passed' = [Passed EXCEPT ![t] = Passed[t] + 1]
          /\ Taken' = Taken
      BY <1>1, ViewGrows
    <2>2. Queue' \in [0 .. Waiting -> Strings]
      <3>1. \A k \in 0 .. Waiting : k \in 0 .. Waiting - 1 \/ k = Waiting
        BY <1>0
      <3>2. \A k \in 0 .. Waiting : Queue'[k] \in Strings
        <4>1. \A k \in 0 .. Waiting - 1 : Queue'[k] \in Strings
          BY <2>1, <1>0
        <4>2. Queue'[Waiting] \in Strings
          BY <2>1, <1>0 DEF Strings
        <4> QED
          BY <4>1, <4>2, <3>1
      <3>3. (Waiting + 1) - 1 = Waiting
        BY <1>0
      <3>4. Queue' = [k \in 0 .. Waiting |-> Queue'[k]]
        BY <3>3, <1>1 DEF Queue
      <3> HIDE DEF Queue
      <3> QED
        BY <3>2, <3>4
    <2>3. Ordered(Waiting + 1, Queue', [Passed EXCEPT ![t] = Passed[t] + 1], Taken)
      BY <2>1, <2>2, <1>0, <1>o, Enqueue
    <2> QED
      BY <2>1, <2>3, <1>1, <1>p
  <1>2. ASSUME LoadEntry, Waiting' = Waiting - 1 PROVE Order'
    <2>1. /\ Waiting > 0
          /\ \A k \in 0 .. Waiting - 2 : Queue'[k] = Queue[k + 1]
          /\ Passed' = Passed
          /\ Taken' = [Taken EXCEPT ![Queue[0][1]] = Taken[Queue[0][1]] + 1]
      BY <1>2, ViewShrinks
    <2>2. Queue' \in [0 .. Waiting - 2 -> Strings]
      <3>1. \A k \in 0 .. Waiting - 2 : k + 1 \in 0 .. Waiting - 1
        BY <1>0
      <3>2. \A k \in 0 .. Waiting - 2 : Queue'[k] \in Strings
        BY <3>1, <2>1, <1>0
      <3>3. (Waiting - 1) - 1 = Waiting - 2
        BY <1>0
      <3>4. Queue' = [k \in 0 .. Waiting - 2 |-> Queue'[k]]
        BY <3>3, <1>2 DEF Queue
      <3> HIDE DEF Queue
      <3> QED
        BY <3>2, <3>4
    <2>3. Waiting \in Nat \ {0}
      BY <2>1, <1>0
    <2>4. Ordered(Waiting - 1, Queue', Passed,
                  [Taken EXCEPT ![Queue[0][1]] = Taken[Queue[0][1]] + 1])
      BY <2>1, <2>2, <2>3, <1>0, <1>o, Dequeue
    <2> QED
      BY <2>1, <2>4, <1>2, <1>p
  <1>3. ASSUME Waiting' = Waiting PROVE Order'
    <2>1. ~LoadEntry /\ \A t \in Callers : ~AdvanceWrite(t)
      BY <1>3, TwoStepsMove
    <2>3. Queue' = Queue /\ Passed' = Passed /\ Taken' = Taken
      BY <1>3, <2>1, ViewKept
    <2> QED
      BY <2>3, <1>3, <1>o, <1>p
  <1> QED
    BY <1>1, <1>2, <1>3, TokensNext

(* The indexes and the number of entries waiting keep agreeing.            *)
LEMMA PositionNext ==
    ASSUME Types, Types', Calls, Mutex, Tokens, Position, [Next]_vars
    PROVE  Position'
  <1>0. /\ stage \in [Callers -> Stages] /\ entries \in [Callers -> Nat]
        /\ read_index \in Slots /\ write_index \in Slots
        /\ log_buffer \in [Slots -> Strings]
    BY DEF Types
  <1>w. /\ Waiting \in 0 .. LogBufferSize /\ LogBufferSize \in Nat \ {0}
        /\ \/ Waiting' = Waiting
           \/ \E t \in Callers : AdvanceWrite(t) /\ Waiting' = Waiting + 1
           \/ LoadEntry /\ Waiting' = Waiting - 1
    BY TokensNext, WaitingBounds, LogAssumption
  <1>p. /\ write_index = Slot(Waiting)
        /\ \A t \in Callers :
              stage[t] = "advance" => log_buffer[write_index] = <<t, entries[t]>>
    BY DEF Position
  <1>s. ASSUME Waiting' = Waiting, read_index' = read_index,
               write_index' = write_index
        PROVE  write_index' = Slot(Waiting)'
    BY <1>s, <1>p DEF Slot
  <1>1. ASSUME NEW t \in Callers, AdvanceWrite(t), Waiting' = Waiting + 1
        PROVE  Position'
    <2>1. /\ stage[t] = "advance" /\ stage' = [stage EXCEPT ![t] = "post_mutex"]
          /\ write_index' = NextSlot(write_index) /\ read_index' = read_index
      BY <1>1 DEF AdvanceWrite, Move, reader
    <2>2. Waiting \in 0 .. LogBufferSize - 1
      BY <2>1, <1>w, WaitingBounds DEF HoldingAt
    <2>3. write_index' = Slot(Waiting + 1)
      BY <2>1, <2>2, <1>0, <1>p, SlotFollows
    <2>4. Slot(Waiting)' = Slot(Waiting + 1)
      BY <2>1, <1>1 DEF Slot
    <2>5. \A u \in Callers : stage'[u] # "advance"
      BY <2>1, <1>0 DEF Mutex, InSection
    <2> QED
      BY <2>3, <2>4, <2>5 DEF Position
  <1>2. ASSUME LoadEntry, Waiting' = Waiting - 1 PROVE Position'
    <2>1. /\ logger = "load" /\ read_index' = NextSlot(read_index)
          /\ write_index' = write_index /\ log_buffer' = log_buffer
          /\ stage' = stage /\ entries' = entries
      BY <1>2 DEF LoadEntry, LoggerMoves
    <2>2. PICK k \in 0 .. LogBufferSize - 1 : k = Waiting - 1
      BY <2>1, <1>w, WaitingBounds
    <2>3. Slot(k)' = Slot(k + 1)
      BY <2>1, <1>0, SlotShifts
    <2>4. k + 1 = Waiting
      BY <2>2, <1>w
    <2>5. Slot(Waiting)' = Slot(k)'
      BY <2>2, <1>2 DEF Slot
    <2>6. write_index' = Slot(Waiting)'
      BY <2>1, <2>3, <2>4, <2>5, <1>p
    <2> QED
      BY <2>1, <2>6, <1>p DEF Position
  <1>3. ASSUME Waiting' = Waiting, ~LoadEntry,
               \A t \in Callers : ~AdvanceWrite(t)
        PROVE  Position'
    <2>1. CASE Outside
      BY <1>3, <1>s, <1>p, <2>1 DEF Outside, Position
    <2>2. ASSUME NEW t \in Callers, Called(t) PROVE Position'
      BY <1>3, <1>0, <1>s, <1>p, <2>2 DEF Called, Position
    <2>3. ASSUME NEW t \in Callers, my_log(t) PROVE Position'
      <3>1. CASE WaitEmpty(t) \/ WaitMutex(t) \/ PostMutex(t) \/ PostFill(t)
        BY <1>3, <1>0, <1>s, <1>p, <3>1
        DEF WaitEmpty, WaitMutex, PostMutex, PostFill, Move, reader, Position
      <3>2. CASE WriteSlot(t)
        <4>1. /\ stage[t] = "write" /\ stage' = [stage EXCEPT ![t] = "advance"]
              /\ log_buffer' = [log_buffer EXCEPT
                                  ![write_index] = <<t, entries[t]>>]
              /\ write_index' = write_index /\ read_index' = read_index
              /\ entries' = entries
          BY <3>2 DEF WriteSlot, Move, reader
        <4>2. \A u \in Callers : stage'[u] = "advance" => u = t
          BY <4>1, <1>0 DEF Mutex, InSection
        <4>3. log_buffer'[write_index'] = <<t, entries'[t]>>
          BY <4>1, <1>0
        <4>4. write_index' = Slot(Waiting)'
          BY <4>1, <1>3, <1>s
        <4> QED
          BY <4>2, <4>3, <4>4 DEF Position
      <3> QED
        BY <1>3, <2>3, <3>1, <3>2 DEF my_log
    <2>4. CASE LoggerStep
      BY <1>3, <1>s, <1>p, <2>4
      DEF LoggerStep, WaitFill, WriteFile, FreeEntry, PostEmpty, LoggerMoves,
          Position
    <2> QED
      BY <2>1, <2>2, <2>3, <2>4, StepKinds
  <1> QED
    BY <1>1, <1>2, <1>3, <1>w, TwoStepsMove

(* The entry the logger takes is the one its caller's log misses.          *)
LEMMA HeldNext ==
    ASSUME Types, Types', Calls, Tokens, Position, Order, Held, [Next]_vars
    PROVE  Held'
  <1>0. /\ stage \in [Callers -> Stages] /\ entries \in [Callers -> Nat]
        /\ log \in [Callers -> Nat] /\ log_msg \in Strings
    BY DEF Types
  <1>e. ASSUME stage' = stage, entries' = entries
        PROVE  \A t \in Callers : stage'[t] # "none" => entries'[t] # 0
    BY <1>e DEF Held
  <1>1. CASE Outside
    BY <1>1 DEF Outside, Held
  <1>2. ASSUME NEW t \in Callers, Called(t) PROVE Held'
    BY <1>0, <1>2 DEF Called, Held
  <1>3. ASSUME NEW t \in Callers, my_log(t) PROVE Held'
    <2>1. /\ logger' = logger /\ log_msg' = log_msg /\ log' = log
          /\ entries' = entries /\ stage[t] # "none"
          /\ \A u \in Callers : stage'[u] # "none" => stage[u] # "none"
      BY <1>0, <1>3 DEF my_log, WaitEmpty, WaitMutex, WriteSlot, AdvanceWrite,
                        PostMutex, PostFill, Move, reader
    <2> QED
      BY <2>1 DEF Held
  <1>4. CASE LoadEntry
    <2>1. Waiting' = Waiting - 1
      BY <1>4, TokensNext, TwoStepsMove, AdvanceIsNoLoad
    <2>2. /\ Waiting > 0 /\ log_msg' = Queue[0] /\ Taken = log
      BY <1>4, <2>1, ViewShrinks
    <2>3. /\ Waiting \in Nat /\ Queue \in [0 .. Waiting - 1 -> Strings]
          /\ Passed \in [Callers -> Nat] /\ Taken \in [Callers -> Nat]
      BY ViewTypes
    <2>a. Ordered(Waiting, Queue, Passed, Taken)
      BY DEF Order
    <2>b. Waiting \in Nat \ {0}
      BY <2>2, <2>3
    <2>4. Queue[0][2] = Taken[Queue[0][1]] + 1
      BY <2>a, <2>b, <2>3, Oldest
    <2>5. /\ logger' = "write" /\ log' = log /\ stage' = stage
          /\ entries' = entries
      BY <1>4 DEF LoadEntry, LoggerMoves
    <2> QED
      BY <2>2, <2>4, <2>5, <1>e DEF Held
  <1>5. CASE WaitFill \/ WriteFile \/ FreeEntry \/ PostEmpty
    <2>1. stage' = stage /\ entries' = entries /\ log_msg' = log_msg
      BY <1>5 DEF WaitFill, WriteFile, FreeEntry, PostEmpty, LoggerMoves
    <2>2. logger' # "write"
      BY <1>5 DEF WaitFill, WriteFile, FreeEntry, PostEmpty, LoggerMoves
    <2>3. logger' = "free" => log'[log_msg[1]] = log_msg[2]
      BY <1>0, <1>5 DEF WaitFill, WriteFile, FreeEntry, PostEmpty, LoggerMoves,
                        Strings
    <2> QED
      BY <2>1, <2>2, <2>3, <1>e DEF Held
  <1> QED
    BY <1>1, <1>2, <1>3, <1>4, <1>5, StepKinds DEF LoggerStep

-----------------------------------------------------------------------------
(* The strings.                                                            *)

\* A thread still needs the string s.
InUse(s) ==
    \/ \E t \in Callers : stage[t] \in PendingAt /\ s = <<t, entries[t]>>
    \/ \E k \in 0 .. Waiting - 1 : s = Queue[k]
    \/ logger \in {"write", "free"} /\ s = log_msg

(* The buffered entries are those of the queue.                            *)
LEMMA BufferedIs ==
    /\ Buffered = {Queue[k] : k \in 0 .. Waiting - 1}
    /\ Buffered' = {Queue'[k] : k \in 0 .. Waiting' - 1}
  BY DEF Buffered, Queue, Slot

(* HeapExact, string by string.                                            *)
LEMMA HeapIs ==
    /\ HeapExact <=> \A s : s \in heap <=> InUse(s)
    /\ HeapExact' <=> \A s : s \in heap' <=> InUse(s)'
  <1> DEFINE B == Buffered
             C == Buffered'
  <1>1. \A s : s \in B <=> \E k \in 0 .. Waiting - 1 : s = Queue[k]
    BY BufferedIs
  <1>2. \A s : s \in C <=> \E k \in 0 .. Waiting' - 1 : s = Queue'[k]
    BY BufferedIs
  <1> HIDE DEF B, C
  <1>3. HeapExact <=> \A s : s \in heap <=> InUse(s)
    <2> DEFINE P == {<<t, entries[t]>> : t \in {u \in Callers : stage[u] \in
                       {"wait_empty", "wait_mutex", "write", "advance"}}}
               L == IF logger \in {"write", "free"} THEN {log_msg} ELSE {}
    <2>1. \A s : s \in P <=>
             \E t \in Callers : stage[t] \in PendingAt /\ s = <<t, entries[t]>>
      BY DEF PendingAt
    <2>2. \A s : s \in L <=> logger \in {"write", "free"} /\ s = log_msg
      OBVIOUS
    <2>3. HeapExact <=> heap = P \cup B \cup L
      BY DEF HeapExact, B
    <2> HIDE DEF P, L
    <2>4. heap = P \cup B \cup L <=>
             \A s : s \in heap <=> s \in P \/ s \in B \/ s \in L
      OBVIOUS
    <2>5. \A s : InUse(s) <=> s \in P \/ s \in B \/ s \in L
      BY <2>1, <2>2, <1>1, Zenon DEF InUse
    <2> QED
      BY <2>3, <2>4, <2>5, Zenon
  <1>4. HeapExact' <=> \A s : s \in heap' <=> InUse(s)'
    <2> DEFINE P == {<<t, entries'[t]>> : t \in {u \in Callers : stage'[u] \in
                       {"wait_empty", "wait_mutex", "write", "advance"}}}
               L == IF logger' \in {"write", "free"} THEN {log_msg'} ELSE {}
    <2>1. \A s : s \in P <=>
             \E t \in Callers : stage'[t] \in PendingAt /\ s = <<t, entries'[t]>>
      BY DEF PendingAt
    <2>2. \A s : s \in L <=> logger' \in {"write", "free"} /\ s = log_msg'
      OBVIOUS
    <2>3. HeapExact' <=> heap' = P \cup C \cup L
      BY DEF HeapExact, C
    <2> HIDE DEF P, L
    <2>4. heap' = P \cup C \cup L <=>
             \A s : s \in heap' <=> s \in P \/ s \in C \/ s \in L
      OBVIOUS
    <2>5. \A s : InUse(s)' <=> s \in P \/ s \in C \/ s \in L
      BY <2>1, <2>2, <1>2, Zenon DEF InUse
    <2> QED
      BY <2>3, <2>4, <2>5, Zenon
  <1> QED
    BY <1>3, <1>4

(* Every step keeps the heap to the strings in use.                        *)
LEMMA HeapNext ==
    ASSUME Types, Types', Calls, Tokens, Position, Order, Held, HeapExact,
           [Next]_vars
    PROVE  HeapExact'
  <1>0. /\ stage \in [Callers -> Stages] /\ entries \in [Callers -> Nat]
        /\ log \in [Callers -> Nat] /\ log_msg \in Strings
    BY DEF Types
  <1>v. /\ Waiting \in Nat /\ Queue \in [0 .. Waiting - 1 -> Strings]
        /\ Passed \in [Callers -> Nat] /\ Taken \in [Callers -> Nat]
    BY ViewTypes
  <1>h. \A s : s \in heap <=> InUse(s)
    BY HeapIs
  <1> SUFFICES \A s : s \in heap' <=> InUse(s)'
    BY HeapIs
  <1>1. ASSUME NEW t \in Callers, AdvanceWrite(t), Waiting' = Waiting + 1, NEW s
        PROVE  s \in heap' <=> InUse(s)'
    <2>1. /\ \A k \in 0 .. Waiting - 1 : Queue'[k] = Queue[k]
          /\ Queue'[Waiting] = <<t, entries[t]>>
      BY <1>1, ViewGrows
    <2>2. /\ stage[t] = "advance" /\ stage' = [stage EXCEPT ![t] = "post_mutex"]
          /\ entries' = entries /\ heap' = heap /\ logger' = logger
          /\ log_msg' = log_msg
      BY <1>1 DEF AdvanceWrite, Move, reader
    <2>3. (\E u \in Callers : stage[u] \in PendingAt /\ s = <<u, entries[u]>>)
          <=> \/ \E u \in Callers : stage'[u] \in PendingAt /\ s = <<u, entries'[u]>>
              \/ s = <<t, entries[t]>>
      BY <2>2, <1>0 DEF PendingAt
    <2>4. (\E k \in 0 .. Waiting' - 1 : s = Queue'[k])
          <=> \/ \E k \in 0 .. Waiting - 1 : s = Queue[k]
              \/ s = <<t, entries[t]>>
      <3>1. /\ \A k \in 0 .. Waiting' - 1 : k \in 0 .. Waiting - 1 \/ k = Waiting
            /\ \A k \in 0 .. Waiting - 1 : k \in 0 .. Waiting' - 1
            /\ Waiting \in 0 .. Waiting' - 1
        BY <1>1, <1>v
      <3> QED
        BY <3>1, <2>1
    <2>5. InUse(s) <=> InUse(s)'
      BY <2>2, <2>3, <2>4 DEF InUse
    <2> QED
      BY <2>2, <2>5, <1>h
  <1>2. ASSUME LoadEntry, Waiting' = Waiting - 1, NEW s
        PROVE  s \in heap' <=> InUse(s)'
    <2>1. /\ Waiting > 0 /\ log_msg' = Queue[0]
          /\ \A k \in 0 .. Waiting - 2 : Queue'[k] = Queue[k + 1]
      BY <1>2, ViewShrinks
    <2>2. /\ stage' = stage /\ entries' = entries /\ heap' = heap
          /\ logger = "load" /\ logger' = "write"
      BY <1>2 DEF LoadEntry, LoggerMoves
    <2>3. (\E k \in 0 .. Waiting - 1 : s = Queue[k])
          <=> \/ \E k \in 0 .. Waiting' - 1 : s = Queue'[k]
              \/ s = Queue[0]
      <3>1. /\ \A k \in 0 .. Waiting - 1 :
                  k = 0 \/ (k - 1 \in 0 .. Waiting - 2 /\ (k - 1) + 1 = k)
            /\ \A k \in 0 .. Waiting - 2 : k + 1 \in 0 .. Waiting - 1
            /\ 0 \in 0 .. Waiting - 1
            /\ Waiting' - 1 = Waiting - 2
        BY <1>2, <1>v, <2>1
      <3>2. ASSUME NEW k \in 0 .. Waiting - 1, s = Queue[k], k # 0
            PROVE  \E l \in 0 .. Waiting - 2 : s = Queue'[l]
        <4>1. k - 1 \in 0 .. Waiting - 2 /\ Queue'[k - 1] = Queue[k]
          BY <3>1, <3>2, <2>1
        <4> QED
          BY <4>1, <3>2
      <3>3. ASSUME NEW k \in 0 .. Waiting - 2, s = Queue'[k]
            PROVE  \E l \in 0 .. Waiting - 1 : s = Queue[l]
        BY <3>1, <3>3, <2>1
      <3> QED
        BY <3>1, <3>2, <3>3
    <2>5. InUse(s) <=> InUse(s)'
      BY <2>1, <2>2, <2>3 DEF InUse
    <2> QED
      BY <2>2, <2>5, <1>h
  <1>3. ASSUME Waiting' = Waiting, NEW s PROVE s \in heap' <=> InUse(s)'
    <2>0. ~LoadEntry /\ \A t \in Callers : ~AdvanceWrite(t)
      BY <1>3, TwoStepsMove
    <2>1. Queue' = Queue
      BY <1>3, <2>0, ViewKept
    <2>2. CASE Outside
      BY <1>3, <1>h, <2>1, <2>2 DEF Outside, InUse
    <2>3. ASSUME NEW t \in Callers, Called(t) PROVE s \in heap' <=> InUse(s)'
      <3>1. /\ stage[t] = "none" /\ stage' = [stage EXCEPT ![t] = "wait_empty"]
            /\ entries' = [entries EXCEPT ![t] = entries[t] + 1]
            /\ heap' = heap \cup {<<t, entries[t] + 1>>}
            /\ logger' = logger /\ log_msg' = log_msg
        BY <2>3 DEF Called
      <3>2. (\E u \in Callers : stage'[u] \in PendingAt /\ s = <<u, entries'[u]>>)
            <=> \/ \E u \in Callers : stage[u] \in PendingAt /\ s = <<u, entries[u]>>
                \/ s = <<t, entries[t] + 1>>
        BY <3>1, <1>0 DEF PendingAt
      <3>3. InUse(s)' <=> InUse(s) \/ s = <<t, entries[t] + 1>>
        BY <3>1, <3>2, <2>1, <1>3 DEF InUse
      <3> QED
        BY <3>1, <3>3, <1>h
    <2>4. ASSUME NEW t \in Callers, my_log(t) PROVE s \in heap' <=> InUse(s)'
      <3>1. /\ entries' = entries /\ heap' = heap /\ logger' = logger
            /\ log_msg' = log_msg
        BY <2>4 DEF my_log, WaitEmpty, WaitMutex, WriteSlot, AdvanceWrite,
                    PostMutex, PostFill, Move, reader
      <3>2. \A u \in Callers : stage'[u] \in PendingAt <=> stage[u] \in PendingAt
        BY <2>4, <2>0, <1>0
        DEF my_log, WaitEmpty, WaitMutex, WriteSlot, PostMutex, PostFill, Move,
            PendingAt
      <3>3. InUse(s)' <=> InUse(s)
        BY <3>1, <3>2, <2>1, <1>3 DEF InUse
      <3> QED
        BY <3>1, <3>3, <1>h
    <2>5. CASE WaitFill \/ WriteFile \/ PostEmpty
      <3>1. /\ entries' = entries /\ heap' = heap /\ stage' = stage
            /\ log_msg' = log_msg
            /\ logger' \in {"write", "free"} <=> logger \in {"write", "free"}
        BY <2>5 DEF WaitFill, WriteFile, PostEmpty, LoggerMoves
      <3>2. InUse(s)' <=> InUse(s)
        BY <3>1, <2>1, <1>3 DEF InUse
      <3> QED
        BY <3>1, <3>2, <1>h
    <2>6. CASE FreeEntry
      <3>1. /\ entries' = entries /\ heap' = heap \ {log_msg} /\ stage' = stage
            /\ logger = "free" /\ logger' = "post"
        BY <2>6 DEF FreeEntry, LoggerMoves
      <3>2. /\ log_msg[2] = log[log_msg[1]] /\ Taken = log
            /\ log_msg[1] \in Callers /\ log_msg[2] \in Nat
        BY <3>1, <1>0 DEF Held, Taken, Strings
      <3>3. ASSUME NEW u \in Callers, stage[u] \in PendingAt
            PROVE  <<u, entries[u]>> # log_msg
        <4>1. Taken[u] <= Passed[u] /\ Passed[u] = entries[u] - 1
          BY <3>3 DEF Order, Ordered, Passed
        <4>2. entries[u] # log[u]
          BY <4>1, <3>2, <1>0
        <4> QED
          BY <4>2, <3>2
      <3>4. ASSUME NEW k \in 0 .. Waiting - 1
            PROVE  Queue[k] # log_msg
        <4>1. Queue[k][2] > Taken[Queue[k][1]]
          BY DEF Order, Ordered
        <4>2. Queue[k][1] \in Callers /\ Queue[k][2] \in Nat
          BY <1>v DEF Strings
        <4> QED
          BY <4>1, <4>2, <3>2, <1>0
      <3>5. InUse(s)' <=> InUse(s) /\ s # log_msg
        BY <3>1, <3>3, <3>4, <2>1, <1>3 DEF InUse
      <3> QED
        BY <3>1, <3>5, <1>h
    <2> QED
      BY <2>0, <2>2, <2>3, <2>4, <2>5, <2>6, StepKinds DEF LoggerStep
  <1> QED
    BY <1>1, <1>2, <1>3, TokensNext

-----------------------------------------------------------------------------
(* The inductive invariant.                                                *)

(* main sets up an empty buffer with all its slots free.                   *)
LEMMA InitIInv == Init => IInv
  <1> SUFFICES ASSUME Init PROVE IInv
    OBVIOUS
  <1>0. /\ LogBufferSize \in Nat \ {0} /\ Main \in Callers /\ 0 \in Slots
    BY LogAssumption DEF Callers, Slots
  <1>1. Types
    BY <1>0 DEF Init, Types, Labels, LogLabels, Stages, Strings, Nothing
  <1>2. Calls
    BY <1>0 DEF Init, Calls, LogLabels
  <1>3. Mutex
    BY DEF Init, Mutex, InSection
  <1>4. At(HoldingAt) = {} /\ At(StoredAt) = {}
    BY DEF Init, At, HoldingAt, StoredAt
  <1>5. Cardinality(At(HoldingAt)) = 0 /\ Cardinality(At(StoredAt)) = 0
    BY <1>4, FS_EmptySet
  <1>6. Waiting = 0
    <2>1. Waiting = fill_count + (IF logger = "load" THEN 1 ELSE 0)
                    + Cardinality(At(StoredAt))
      BY WaitingIs
    <2> QED
      BY <2>1, <1>5 DEF Init
  <1>7. Tokens
    BY <1>0, <1>5, <1>6 DEF Init, Tokens, Consuming
  <1>8. Position
    <2>1. 0 \in 0 .. LogBufferSize /\ read_index = 0 /\ write_index = 0
          /\ 0 + 0 < LogBufferSize
      BY <1>0 DEF Init
    <2>2. Slot(0) = 0
      BY <2>1, <1>0, SlotIs
    <2> QED
      BY <2>1, <2>2, <1>6 DEF Init, Position
  <1>9. Held
    BY DEF Init, Held
  <1>10. 0 .. Waiting - 1 = {}
    BY <1>6
  <1>11. Order
    <2>1. \A t \in Callers : Taken[t] = 0 /\ Passed[t] = 0
      BY DEF Init, Taken, Passed, PendingAt
    <2> QED
      BY <2>1, <1>10 DEF Order, Ordered
  <1>12. HeapExact
    <2>1. \A s : ~InUse(s)
      BY <1>10 DEF InUse, Init, PendingAt
    <2> QED
      BY <2>1, HeapIs DEF Init
  <1> QED
    BY <1>1, <1>2, <1>3, <1>7, <1>8, <1>9, <1>11, <1>12 DEF IInv

(* Every step preserves the whole invariant.                               *)
LEMMA NextIInv == IInv /\ [Next]_vars => IInv'
  <1> SUFFICES ASSUME Types, Calls, Mutex, Tokens, Position, Order, Held,
                      HeapExact, [Next]_vars
               PROVE  IInv'
    BY DEF IInv
  <1>1. Types' /\ Calls'
    BY TypesNext, ControlNext
  <1>2. Mutex' /\ Tokens'
    BY <1>1, MutexNext, TokensNext
  <1>3. Position' /\ Order' /\ Held' /\ HeapExact'
    BY <1>1, PositionNext, OrderNext, HeldNext, HeapNext
  <1> QED
    BY <1>1, <1>2, <1>3 DEF IInv

(* The entries of a queue in order are all different.                      *)
LEMMA EntriesDiffer == IInv => NoneOverwritten
  <1> SUFFICES ASSUME IInv PROVE Cardinality(Buffered) = Waiting
    BY DEF NoneOverwritten
  <1>0. /\ Waiting \in Nat /\ Queue \in [0 .. Waiting - 1 -> Strings]
    BY ViewTypes DEF IInv
  <1> DEFINE D == 0 .. Waiting - 1
  <1>1. Buffered = {Queue[k] : k \in D}
    BY BufferedIs
  <1>2. \A k, l \in D : Queue[k] = Queue[l] => k = l
    <2> SUFFICES ASSUME NEW k \in D, NEW l \in D, Queue[k] = Queue[l], k < l
                 PROVE  FALSE
      BY <1>0
    <2>1. Queue[k][2] < Queue[l][2]
      BY DEF IInv, Order, Ordered
    <2>2. Queue[k][2] \in Nat
      BY <1>0 DEF Strings
    <2> QED
      BY <2>1, <2>2
  <1>3. Queue \in Bijection(D, Buffered)
    <2> HIDE DEF D
    <2>1. Queue \in [D -> Buffered] /\ DOMAIN Queue = D
      BY <1>0, <1>1 DEF D
    <2>2. Queue \in Injection(D, Buffered)
      BY <2>1, <1>2 DEF Injection, IsInjective
    <2>3. Queue \in Surjection(D, Buffered)
      BY <2>1, <1>1 DEF Surjection
    <2> QED
      BY <2>2, <2>3 DEF Bijection
  <1>4. IsFiniteSet(D) /\ Cardinality(D) = Waiting
    BY <1>0, FS_Interval
  <1>5. ExistsBijection(D, Buffered)
    BY <1>3 DEF ExistsBijection
  <1> HIDE DEF D
  <1> QED
    BY <1>4, <1>5, FS_Bijection

(* my_log and the logger thread: for any buffer size and any threads that  *)
(* compete for the slots, no entry is overwritten before it is read.       *)
THEOREM NoEntryIsOverwritten == Spec => []NoneOverwritten
  <1>1. IInv => NoneOverwritten
    BY EntriesDiffer
  <1> QED
    BY <1>1, InitIInv, NextIInv, PTL DEF Spec

(* The strings my_log allocates are freed once, by the logger, after their *)
(* last use, and none is lost.                                             *)
THEOREM HeapIsExact == Spec => []HeapExact
  <1>1. IInv => HeapExact
    BY DEF IInv
  <1> QED
    BY <1>1, InitIInv, NextIInv, PTL DEF Spec

(* The log file gains the entries of each thread one by one, in the order  *)
(* the thread logged them.                                                 *)
THEOREM LogIsInOrder == Spec => LoggedInOrder
  <1>1. ASSUME IInv, [Next]_vars
        PROVE  [\A t \in Callers : log'[t] \in {log[t], log[t] + 1}]_vars
    <2>1. Types /\ Calls /\ Held
      BY <1>1 DEF IInv
    <2>2. CASE WriteFile
      <3>1. /\ log' = [log EXCEPT ![log_msg[1]] = log_msg[2]]
            /\ log_msg[2] = log[log_msg[1]] + 1
            /\ log_msg[1] \in Callers /\ log \in [Callers -> Nat]
        BY <2>1, <2>2 DEF WriteFile, LoggerMoves, Held, Types, Strings
      <3> QED
        BY <3>1
    <2>3. CASE ~WriteFile
      <3>1. log' = log
        BY <1>1, <2>1, <2>3, StepKinds
        DEF Outside, Called, my_log, WaitEmpty, WaitMutex, WriteSlot,
            AdvanceWrite, PostMutex, PostFill, Move, reader, LoggerStep,
            WaitFill, LoadEntry, FreeEntry, PostEmpty
      <3> QED
        BY <3>1
    <2> QED
      BY <2>2, <2>3
  <1> QED
    BY <1>1, InitIInv, NextIInv, PTL DEF Spec, LoggedInOrder
=============================================================================
