-------------------------- MODULE SemaphoreProofs ---------------------------
(***************************************************************************)
(* The programs that count with semaphores: the transactions of lab05 and  *)
(* the echo server of lab11 with a limit on its connections.               *)
(*                                                                         *)
(* For any number of producers and consumers and any buffer size: the type *)
(* invariant, the semaphore accounting and the exclusive use of elements,  *)
(* that the buffer implements TransactionQueue, that the reports span the  *)
(* transactions between them, and that no money is lost or made on its way *)
(* to the deposit.                                                         *)
(*                                                                         *)
(* For any number of clients, tokens and runs of the server: no token is   *)
(* ever made or lost unnoticed, and no run handles more connections than   *)
(* MAX_CONCURRENCY.                                                        *)
(*                                                                         *)
(* ProducerConsumer and LimitConn have no state in common: this module is  *)
(* about each of their specifications, Spec and LimitSpec, on its own.     *)
(***************************************************************************)
EXTENDS ProducerConsumer, LimitConn, FiniteSetTheorems, SequenceTheorems, TLAPS

-----------------------------------------------------------------------------
(* Indexes.                                                                *)

(* Below twice the buffer size, % subtracts the size at most once.         *)
LEMMA ModUnfold ==
    ASSUME NEW n \in Nat \ {0}, NEW x \in Nat, x < 2 * n
    PROVE  /\ x < n => x % n = x
           /\ n <= x => x % n = x - n
  OBVIOUS

(* NextIndex stays inside the buffer and wraps at its end.                 *)
LEMMA NextIndexWraps ==
    ASSUME NEW i \in Slots
    PROVE  /\ NextIndex(i) \in Slots
           /\ NextIndex(i) = IF i + 1 = BufferSize THEN 0 ELSE i + 1
  <1>1. /\ BufferSize \in Nat \ {0}
        /\ i + 1 \in Nat
        /\ i + 1 <= BufferSize
        /\ i + 1 < 2 * BufferSize
    BY SizeAssumption DEF Slots
  <1>2. PICK x \in Nat : x = i + 1
    BY <1>1
  <1>3. /\ x < BufferSize => x % BufferSize = x
        /\ BufferSize <= x => x % BufferSize = x - BufferSize
    BY <1>1, <1>2, ModUnfold
  <1>4. NextIndex(i) = x % BufferSize
    BY <1>2, Zenon DEF NextIndex
  <1> QED
    BY <1>1, <1>2, <1>3, <1>4 DEF Slots

(* A transaction is an integer, and so is a sum reduced modulo 2^w.        *)
LEMMA AmountsAreInts == Amounts \subseteq Int
  BY SizeAssumption DEF Amounts, performRandomTransaction

(* The balance after deposit += amount, as the w-bit int wraps it.         *)
LEMMA AddIsInt ==
    ASSUME NEW b \in Int, NEW a \in Int
    PROVE  Add(b, a) \in Int
  BY SizeAssumption DEF Add

-----------------------------------------------------------------------------
(* Counting threads.  When one thread moves, the number of threads of S at *)
(* a label of L changes by what that thread contributes.                   *)
LEMMA CountMove ==
    ASSUME NEW S, IsFiniteSet(S), S \subseteq Threads, NEW L, NEW X,
           NEW t \in Threads,
           pc \in [Threads -> X], pc' = [pc EXCEPT ![t] = pc'[t]]
    PROVE  /\ Cardinality(At(S, L)) \in Nat
           /\ Cardinality(At(S, L)') =
                Cardinality(At(S, L))
                + (IF t \in S /\ pc'[t] \in L THEN 1 ELSE 0)
                - (IF t \in S /\ pc[t] \in L THEN 1 ELSE 0)
  <1> DEFINE A == At(S, L)  B == At(S, L)'
  <1>1. IsFiniteSet(A) /\ A \subseteq S
    BY FS_Subset DEF At
  <1>2. Cardinality(A) \in Nat
    BY <1>1, FS_CardinalityType
  <1>3. CASE t \in S /\ pc'[t] \in L /\ pc[t] \notin L
    <2>1. B = A \cup {t} /\ t \notin A
      BY <1>3 DEF At
    <2>2. Cardinality(A \cup {t}) = Cardinality(A) + 1
      BY <2>1, <1>1, FS_AddElement
    <2> HIDE DEF A, B
    <2>3. Cardinality(B) = Cardinality(A) + 1
      BY <2>1, <2>2
    <2> QED
      BY <2>3, <1>2, <1>3 DEF A, B
  <1>4. CASE t \in S /\ pc'[t] \notin L /\ pc[t] \in L
    <2>1. B = A \ {t} /\ t \in A
      BY <1>4 DEF At
    <2>2. Cardinality(A \ {t}) = Cardinality(A) - 1
      BY <2>1, <1>1, FS_RemoveElement
    <2> HIDE DEF A, B
    <2>3. Cardinality(B) = Cardinality(A) - 1
      BY <2>1, <2>2
    <2> QED
      BY <2>3, <1>2, <1>4 DEF A, B
  <1>5. CASE t \notin S \/ (pc'[t] \in L <=> pc[t] \in L)
    <2>1. B = A
      BY <1>5 DEF At
    <2> QED
      BY <2>1, <1>2, <1>5
  <1> QED
    BY <1>3, <1>4, <1>5

(* What the step of one producer does to the four counts.                  *)
LEMMA ProducerMove ==
    ASSUME TypeOK, NEW p \in Producers,
           pc' = [pc EXCEPT ![p] = pc'[p]]
    PROVE  /\ Cardinality(Filling') = Cardinality(Filling)
                + (IF pc'[p] \in FillingPC THEN 1 ELSE 0)
                - (IF pc[p] \in FillingPC THEN 1 ELSE 0)
           /\ Cardinality(Written') = Cardinality(Written)
                + (IF pc'[p] \in WrittenPC THEN 1 ELSE 0)
                - (IF pc[p] \in WrittenPC THEN 1 ELSE 0)
           /\ Cardinality(Draining') = Cardinality(Draining)
           /\ Cardinality(Claimed') = Cardinality(Claimed)
  <1>1. /\ p \in Threads /\ p \notin Consumers
        /\ Producers \subseteq Threads /\ Consumers \subseteq Threads
        /\ IsFiniteSet(Producers) /\ IsFiniteSet(Consumers)
        /\ pc \in [Threads -> ProducerPC \cup ConsumerPC]
    BY ThreadAssumption DEF Threads, TypeOK
  <1>2. /\ Cardinality(Filling') = Cardinality(Filling)
                + (IF p \in Producers /\ pc'[p] \in FillingPC THEN 1 ELSE 0)
                - (IF p \in Producers /\ pc[p] \in FillingPC THEN 1 ELSE 0)
        /\ Cardinality(Written') = Cardinality(Written)
                + (IF p \in Producers /\ pc'[p] \in WrittenPC THEN 1 ELSE 0)
                - (IF p \in Producers /\ pc[p] \in WrittenPC THEN 1 ELSE 0)
    BY <1>1, CountMove DEF Filling, Written
  <1>3. Draining' = Draining /\ Claimed' = Claimed
    BY <1>1 DEF Draining, Claimed, At
  <1> QED
    BY <1>2, <1>3

(* What the step of one consumer does to the four counts.                  *)
LEMMA ConsumerMove ==
    ASSUME TypeOK, NEW c \in Consumers,
           pc' = [pc EXCEPT ![c] = pc'[c]]
    PROVE  /\ Cardinality(Draining') = Cardinality(Draining)
                + (IF pc'[c] \in DrainingPC THEN 1 ELSE 0)
                - (IF pc[c] \in DrainingPC THEN 1 ELSE 0)
           /\ Cardinality(Claimed') = Cardinality(Claimed)
                + (IF pc'[c] \in ClaimedPC THEN 1 ELSE 0)
                - (IF pc[c] \in ClaimedPC THEN 1 ELSE 0)
           /\ Cardinality(Filling') = Cardinality(Filling)
           /\ Cardinality(Written') = Cardinality(Written)
  <1>1. /\ c \in Threads /\ c \notin Producers
        /\ Producers \subseteq Threads /\ Consumers \subseteq Threads
        /\ IsFiniteSet(Producers) /\ IsFiniteSet(Consumers)
        /\ pc \in [Threads -> ProducerPC \cup ConsumerPC]
    BY ThreadAssumption DEF Threads, TypeOK
  <1>2. /\ Cardinality(Draining') = Cardinality(Draining)
                + (IF c \in Consumers /\ pc'[c] \in DrainingPC THEN 1 ELSE 0)
                - (IF c \in Consumers /\ pc[c] \in DrainingPC THEN 1 ELSE 0)
        /\ Cardinality(Claimed') = Cardinality(Claimed)
                + (IF c \in Consumers /\ pc'[c] \in ClaimedPC THEN 1 ELSE 0)
                - (IF c \in Consumers /\ pc[c] \in ClaimedPC THEN 1 ELSE 0)
    BY <1>1, CountMove DEF Draining, Claimed
  <1>3. Filling' = Filling /\ Written' = Written
    BY <1>1 DEF Filling, Written, At
  <1> QED
    BY <1>2, <1>3

(* The counts are naturals, and the slots that hold an item are a subset   *)
(* of those in some thread's hands; strictly so while one is being written.*)
LEMMA CountBounds ==
    /\ Cardinality(Filling) \in Nat /\ Cardinality(Written) \in Nat
    /\ Cardinality(Draining) \in Nat /\ Cardinality(Claimed) \in Nat
    /\ Cardinality(Written) <= Cardinality(Filling)
    /\ Cardinality(Claimed) <= Cardinality(Draining)
    /\ (\E p \in Producers : pc[p] \in FillingPC \ WrittenPC)
          => Cardinality(Written) < Cardinality(Filling)
    /\ (\E c \in Consumers : pc[c] \in ClaimedPC) => Cardinality(Claimed) > 0
  <1>1. /\ IsFiniteSet(Filling) /\ IsFiniteSet(Draining)
        /\ Written \subseteq Filling /\ Claimed \subseteq Draining
    BY ThreadAssumption, FS_Subset
    DEF Filling, Draining, Written, Claimed, At, FillingPC, DrainingPC,
        WrittenPC, ClaimedPC
  <1>2. IsFiniteSet(Written) /\ IsFiniteSet(Claimed)
    BY <1>1, FS_Subset
  <1>3. /\ Cardinality(Filling) \in Nat /\ Cardinality(Written) \in Nat
        /\ Cardinality(Draining) \in Nat /\ Cardinality(Claimed) \in Nat
    BY <1>1, <1>2, FS_CardinalityType
  <1>4. /\ Cardinality(Written) <= Cardinality(Filling)
        /\ Cardinality(Claimed) <= Cardinality(Draining)
    BY <1>1, FS_Subset
  <1>5. ASSUME NEW p \in Producers, pc[p] \in FillingPC \ WrittenPC
        PROVE  Cardinality(Written) < Cardinality(Filling)
    <2>1. p \in Filling /\ p \notin Written
      BY <1>5 DEF Filling, Written, At
    <2>2. Cardinality(Written) # Cardinality(Filling)
      BY <2>1, <1>1, FS_Subset
    <2> QED
      BY <2>2, <1>3, <1>4
  <1>6. ASSUME NEW c \in Consumers, pc[c] \in ClaimedPC
        PROVE  Cardinality(Claimed) > 0
    <2>1. Claimed # {}
      BY <1>6 DEF Claimed, At
    <2>2. Cardinality(Claimed) # 0
      BY <2>1, <1>2, FS_EmptySet
    <2> QED
      BY <2>2, <1>3
  <1> QED
    BY <1>3, <1>4, <1>5, <1>6

-----------------------------------------------------------------------------
(* The inductive invariant.                                                *)
IInv == TypeOK /\ MutexesHeld /\ SlotsAccounted /\ IndexesAgree

(* main sets the indexes and semaphores up so that IInv holds.             *)
LEMMA InitIInv == Init => IInv
  <1> SUFFICES ASSUME Init PROVE IInv
    OBVIOUS
  <1>1. TypeOK
    BY SizeAssumption, ThreadAssumption
    DEF Init, TypeOK, Slots, Threads, ProducerPC, ConsumerPC
  <1>2. MutexesHeld
    BY DEF Init, MutexesHeld, Threads, InWriteSection, InReadSection
  <1>3. Filling = {} /\ Draining = {} /\ Written = {} /\ Claimed = {}
    BY DEF Init, Threads, Filling, Draining, Written, Claimed, At,
           FillingPC, DrainingPC, WrittenPC, ClaimedPC
  <1>4. SlotsAccounted
    BY <1>3, FS_EmptySet, SizeAssumption DEF SlotsAccounted, Init
  <1>5. Occupied = 0
    BY <1>3, FS_EmptySet DEF Occupied, Init
  <1>6. 0 % BufferSize = 0
    BY SizeAssumption
  <1>7. IndexesAgree
    BY <1>5, <1>6 DEF IndexesAgree, Init
  <1> QED
    BY <1>1, <1>2, <1>4, <1>7 DEF IInv

(* The occupied slots never outnumber the buffer, so the % in IndexesAgree *)
(* subtracts the size at most once.                                        *)
Wrapped == IF read_index + Occupied < BufferSize
           THEN read_index + Occupied
           ELSE read_index + Occupied - BufferSize

IndexesUnfolded == write_index = Wrapped

(* IndexesAgree without %: the sum wraps at most once.                     *)
LEMMA IndexesUnfold ==
    ASSUME TypeOK, SlotsAccounted
    PROVE  /\ Occupied \in 0 .. BufferSize
           /\ IndexesAgree <=> IndexesUnfolded
  <1>1. Occupied \in 0 .. BufferSize
    BY CountBounds, SizeAssumption DEF TypeOK, SlotsAccounted, Occupied
  <1>2. PICK x \in Nat : x = read_index + Occupied
    BY <1>1 DEF TypeOK, Slots
  <1>3. x < 2 * BufferSize
    BY <1>1, <1>2, SizeAssumption DEF TypeOK, Slots
  <1>4. /\ x < BufferSize => x % BufferSize = x
        /\ BufferSize <= x => x % BufferSize = x - BufferSize
    BY <1>3, SizeAssumption, ModUnfold
  <1>5. Wrapped = IF x < BufferSize THEN x ELSE x - BufferSize
    BY <1>1, <1>2, SizeAssumption DEF Wrapped, TypeOK, Slots
  <1>6. Wrapped = x % BufferSize
    BY <1>4, <1>5, SizeAssumption
  <1>7. IndexesAgree <=> write_index = x % BufferSize
    BY <1>2, Zenon DEF IndexesAgree
  <1> QED
    BY <1>1, <1>6, <1>7, Zenon DEF IndexesUnfolded

(* The same fact about the state after a step.                             *)
LEMMA IndexesUnfoldNext ==
    TypeOK' /\ SlotsAccounted' => (IndexesAgree' <=> IndexesUnfolded')
  <1>1. TypeOK /\ SlotsAccounted => (IndexesAgree <=> IndexesUnfolded)
    BY IndexesUnfold
  <1> QED
    BY <1>1, PTL

(* Type correctness and mutual exclusion are kept by every producer step.  *)
LEMMA ProducerTypes ==
    ASSUME TypeOK, MutexesHeld, NEW p \in Producers, ProducerStep(p)
    PROVE  TypeOK' /\ MutexesHeld'
  <1>1. p \in Threads /\ p \notin Consumers
    BY ThreadAssumption DEF Threads
  <1>2. CASE Produce(p)
    BY <1>1, <1>2, AmountsAreInts, AddIsInt
    DEF Produce, Goto, TypeOK, MutexesHeld, InWriteSection, InReadSection,
        semaphores, reports, ProducerPC, Threads
  <1>3. CASE WaitEmpty(p)
    BY <1>1, <1>3, MutexAssumption
    DEF WaitEmpty, Goto, TypeOK, MutexesHeld, InWriteSection, InReadSection,
        reports, ProducerPC, Threads
  <1>4. CASE WaitWrite(p)
    BY <1>1, <1>4
    DEF WaitWrite, Goto, TypeOK, MutexesHeld, InWriteSection, InReadSection,
        reports, ProducerPC, Threads
  <1>5. CASE WriteItem(p)
    BY <1>1, <1>5
    DEF WriteItem, Goto, TypeOK, MutexesHeld, InWriteSection, InReadSection,
        semaphores, reports, ProducerPC, Threads
  <1>6. CASE AdvanceWrite(p)
    BY <1>1, <1>6, NextIndexWraps
    DEF AdvanceWrite, Goto, TypeOK, MutexesHeld, InWriteSection,
        InReadSection, semaphores, reports, ProducerPC, Threads
  <1>7. CASE PostWrite(p)
    BY <1>1, <1>7
    DEF PostWrite, Goto, TypeOK, MutexesHeld, InWriteSection, InReadSection,
        reports, ProducerPC, Threads
  <1>8. CASE PostFill(p)
    BY <1>1, <1>8
    DEF PostFill, Goto, TypeOK, MutexesHeld, InWriteSection, InReadSection,
        reports, ProducerPC, Threads
  <1> QED
    BY <1>2, <1>3, <1>4, <1>5, <1>6, <1>7, <1>8 DEF ProducerStep

(* And by every consumer step.                                             *)
LEMMA ConsumerTypes ==
    ASSUME TypeOK, MutexesHeld, NEW c \in Consumers, ConsumerStep(c)
    PROVE  TypeOK' /\ MutexesHeld'
  <1>1. c \in Threads /\ c \notin Producers
    BY ThreadAssumption DEF Threads
  <1>a. ASSUME NEW i \in Slots, Report(i)
        PROVE  sinceReport' \in Nat /\ lastReport' \in Nat
    BY <1>a DEF Report, TypeOK
  <1>2. CASE WaitFill(c)
    BY <1>1, <1>2, MutexAssumption
    DEF WaitFill, Goto, TypeOK, MutexesHeld, InWriteSection, InReadSection,
        reports, ConsumerPC, Threads
  <1>3. CASE WaitRead(c)
    BY <1>1, <1>3
    DEF WaitRead, Goto, TypeOK, MutexesHeld, InWriteSection, InReadSection,
        reports, ConsumerPC, Threads
  <1>4. CASE LoadItem(c)
    BY <1>1, <1>4
    DEF LoadItem, Goto, TypeOK, MutexesHeld, InWriteSection, InReadSection,
        semaphores, reports, ConsumerPC, Threads
  <1>5. CASE LoadSum(c)
    BY <1>1, <1>5, AddIsInt
    DEF LoadSum, Goto, TypeOK, MutexesHeld, InWriteSection, InReadSection,
        semaphores, reports, ConsumerPC, Threads
  <1>6. CASE StoreSum(c)
    BY <1>1, <1>6
    DEF StoreSum, Goto, TypeOK, MutexesHeld, InWriteSection, InReadSection,
        semaphores, reports, ConsumerPC, Threads
  <1>7. CASE AdvanceRead(c)
    <2>1. read_index' \in Slots
      BY <1>7, NextIndexWraps DEF AdvanceRead, TypeOK
    <2>2. sinceReport' \in Nat /\ lastReport' \in Nat
      BY <2>1, <1>7, <1>a DEF AdvanceRead, TypeOK, reports
    <2> QED
      BY <1>1, <1>7, <2>1, <2>2
      DEF AdvanceRead, Goto, TypeOK, MutexesHeld, InWriteSection,
          InReadSection, semaphores, ConsumerPC, Threads
  <1>8. CASE PostRead(c)
    BY <1>1, <1>8
    DEF PostRead, Goto, TypeOK, MutexesHeld, InWriteSection, InReadSection,
        reports, ConsumerPC, Threads
  <1>9. CASE PostEmpty(c)
    BY <1>1, <1>9
    DEF PostEmpty, Goto, TypeOK, MutexesHeld, InWriteSection, InReadSection,
        reports, ConsumerPC, Threads
  <1>10. CASE ApplyItem(c)
    <2>1. sinceReport' \in Nat /\ lastReport' \in Nat
      BY <1>10, <1>a DEF ApplyItem, TypeOK
    <2> QED
      BY <1>1, <1>10, <2>1, AddIsInt
      DEF ApplyItem, Goto, TypeOK, MutexesHeld, InWriteSection,
          InReadSection, semaphores, ConsumerPC, Threads
  <1> QED
    BY <1>2, <1>3, <1>4, <1>5, <1>6, <1>7, <1>8, <1>9, <1>10
    DEF ConsumerStep

(* The accounting is kept by every producer step.  Only WaitEmpty and      *)
(* PostFill move a slot between a semaphore and a thread, only             *)
(* AdvanceWrite makes one more slot hold an item.                          *)
LEMMA ProducerCounts ==
    ASSUME IInv, NEW p \in Producers, ProducerStep(p), TypeOK'
    PROVE  SlotsAccounted' /\ IndexesAgree'
  <1> USE DEF IInv
  <1>1. CASE Produce(p) \/ WaitWrite(p) \/ WriteItem(p) \/ PostWrite(p)
    <2>1. /\ UNCHANGED <<fill_count, empty_count, read_index, write_index>>
          /\ pc' = [pc EXCEPT ![p] = pc'[p]]
          /\ pc'[p] \in FillingPC <=> pc[p] \in FillingPC
          /\ pc'[p] \in WrittenPC <=> pc[p] \in WrittenPC
      BY <1>1 DEF Produce, WaitWrite, WriteItem, PostWrite, Goto, semaphores,
                  TypeOK, Threads, FillingPC, WrittenPC
    <2>2. /\ Cardinality(Filling') = Cardinality(Filling)
          /\ Cardinality(Written') = Cardinality(Written)
          /\ Cardinality(Draining') = Cardinality(Draining)
          /\ Cardinality(Claimed') = Cardinality(Claimed)
      BY <2>1, ProducerMove, CountBounds
    <2>3. Occupied' = Occupied
      BY <2>1, <2>2 DEF Occupied
    <2> QED
      BY <2>1, <2>2, <2>3 DEF SlotsAccounted, IndexesAgree
  <1>2. CASE WaitEmpty(p)
    <2>1. /\ Cardinality(Filling') = Cardinality(Filling) + 1
          /\ Cardinality(Written') = Cardinality(Written)
          /\ Cardinality(Draining') = Cardinality(Draining)
          /\ Cardinality(Claimed') = Cardinality(Claimed)
      <3>1. /\ pc' = [pc EXCEPT ![p] = pc'[p]]
            /\ pc[p] \notin FillingPC /\ pc'[p] \in FillingPC
            /\ pc[p] \notin WrittenPC /\ pc'[p] \notin WrittenPC
        BY <1>2 DEF WaitEmpty, Goto, TypeOK, Threads, FillingPC, WrittenPC
      <3> QED
        BY <3>1, ProducerMove, CountBounds
    <2>2. SlotsAccounted'
      BY <2>1, <1>2, CountBounds DEF WaitEmpty, SlotsAccounted, TypeOK
    <2>3. Occupied' = Occupied
      BY <2>1, <1>2 DEF Occupied, WaitEmpty
    <2> QED
      BY <2>2, <2>3, <1>2 DEF IndexesAgree, WaitEmpty
  <1>3. CASE AdvanceWrite(p)
    <2>1. /\ Cardinality(Filling') = Cardinality(Filling)
          /\ Cardinality(Written') = Cardinality(Written) + 1
          /\ Cardinality(Draining') = Cardinality(Draining)
          /\ Cardinality(Claimed') = Cardinality(Claimed)
      <3>1. /\ pc' = [pc EXCEPT ![p] = pc'[p]]
            /\ pc[p] \in FillingPC /\ pc'[p] \in FillingPC
            /\ pc[p] \notin WrittenPC /\ pc'[p] \in WrittenPC
        BY <1>3 DEF AdvanceWrite, Goto, TypeOK, Threads, FillingPC, WrittenPC
      <3> QED
        BY <3>1, ProducerMove, CountBounds
    <2>2. SlotsAccounted'
      BY <2>1, <1>3, CountBounds
      DEF AdvanceWrite, semaphores, SlotsAccounted, TypeOK
    <2>3. Occupied' = Occupied + 1
      BY <2>1, <1>3, CountBounds DEF Occupied, AdvanceWrite, semaphores, TypeOK
    <2>4. Cardinality(Written) < Cardinality(Filling)
      BY <1>3, CountBounds DEF AdvanceWrite, Goto, FillingPC, WrittenPC
    <2>5. Occupied < BufferSize
      BY <2>4, CountBounds, SizeAssumption DEF Occupied, SlotsAccounted, TypeOK
    <2>6. write_index' = IF write_index + 1 = BufferSize THEN 0
                                                         ELSE write_index + 1
      BY <1>3, NextIndexWraps DEF AdvanceWrite, TypeOK
    <2>7. write_index = Wrapped
      BY IndexesUnfold DEF IndexesUnfolded
    <2>8. Occupied \in 0 .. BufferSize
      BY IndexesUnfold
    <2>9. write_index' = Wrapped'
      BY <2>3, <2>5, <2>6, <2>7, <2>8, <1>3, SizeAssumption
      DEF Wrapped, AdvanceWrite, TypeOK, Slots
    <2> QED
      BY <2>2, <2>9, IndexesUnfoldNext DEF IndexesUnfolded
  <1>4. CASE PostFill(p)
    <2>1. /\ Cardinality(Filling') = Cardinality(Filling) - 1
          /\ Cardinality(Written') = Cardinality(Written) - 1
          /\ Cardinality(Draining') = Cardinality(Draining)
          /\ Cardinality(Claimed') = Cardinality(Claimed)
      <3>1. /\ pc' = [pc EXCEPT ![p] = pc'[p]]
            /\ pc[p] \in FillingPC /\ pc'[p] \notin FillingPC
            /\ pc[p] \in WrittenPC /\ pc'[p] \notin WrittenPC
        BY <1>4 DEF PostFill, Goto, TypeOK, Threads, FillingPC, WrittenPC
      <3> QED
        BY <3>1, ProducerMove, CountBounds
    <2>2. SlotsAccounted'
      BY <2>1, <1>4, CountBounds DEF PostFill, SlotsAccounted, TypeOK
    <2>3. Occupied' = Occupied
      BY <2>1, <1>4, CountBounds DEF Occupied, PostFill, TypeOK
    <2> QED
      BY <2>2, <2>3, <1>4 DEF IndexesAgree, PostFill
  <1> QED
    BY <1>1, <1>2, <1>3, <1>4 DEF ProducerStep

(* And by every consumer step.  WaitFill claims an item without freeing    *)
(* its slot, AdvanceRead passes over it, PostEmpty gives the slot back.    *)
LEMMA ConsumerCounts ==
    ASSUME IInv, NEW c \in Consumers, ConsumerStep(c), TypeOK'
    PROVE  SlotsAccounted' /\ IndexesAgree'
  <1> USE DEF IInv
  <1>1. CASE \/ WaitRead(c) \/ LoadItem(c) \/ LoadSum(c) \/ StoreSum(c)
             \/ PostRead(c) \/ ApplyItem(c)
    <2>1. /\ UNCHANGED <<fill_count, empty_count, read_index, write_index>>
          /\ pc' = [pc EXCEPT ![c] = pc'[c]]
          /\ pc'[c] \in DrainingPC <=> pc[c] \in DrainingPC
          /\ pc'[c] \in ClaimedPC <=> pc[c] \in ClaimedPC
      BY <1>1 DEF WaitRead, LoadItem, LoadSum, StoreSum, PostRead, ApplyItem,
                  Goto, semaphores, TypeOK, Threads, DrainingPC, ClaimedPC
    <2>2. /\ Cardinality(Filling') = Cardinality(Filling)
          /\ Cardinality(Written') = Cardinality(Written)
          /\ Cardinality(Draining') = Cardinality(Draining)
          /\ Cardinality(Claimed') = Cardinality(Claimed)
      BY <2>1, ConsumerMove, CountBounds
    <2>3. Occupied' = Occupied
      BY <2>1, <2>2 DEF Occupied
    <2> QED
      BY <2>1, <2>2, <2>3 DEF SlotsAccounted, IndexesAgree
  <1>2. CASE WaitFill(c)
    <2>1. /\ Cardinality(Filling') = Cardinality(Filling)
          /\ Cardinality(Written') = Cardinality(Written)
          /\ Cardinality(Draining') = Cardinality(Draining) + 1
          /\ Cardinality(Claimed') = Cardinality(Claimed) + 1
      <3>1. /\ pc' = [pc EXCEPT ![c] = pc'[c]]
            /\ pc[c] \notin DrainingPC /\ pc'[c] \in DrainingPC
            /\ pc[c] \notin ClaimedPC /\ pc'[c] \in ClaimedPC
        BY <1>2 DEF WaitFill, Goto, TypeOK, Threads, DrainingPC, ClaimedPC
      <3> QED
        BY <3>1, ConsumerMove, CountBounds
    <2>2. SlotsAccounted'
      BY <2>1, <1>2, CountBounds DEF WaitFill, SlotsAccounted, TypeOK
    <2>3. Occupied' = Occupied
      BY <2>1, <1>2, CountBounds DEF Occupied, WaitFill, TypeOK
    <2> QED
      BY <2>2, <2>3, <1>2 DEF IndexesAgree, WaitFill
  <1>3. CASE AdvanceRead(c)
    <2>1. /\ Cardinality(Filling') = Cardinality(Filling)
          /\ Cardinality(Written') = Cardinality(Written)
          /\ Cardinality(Draining') = Cardinality(Draining)
          /\ Cardinality(Claimed') = Cardinality(Claimed) - 1
      <3>1. /\ pc' = [pc EXCEPT ![c] = pc'[c]]
            /\ pc[c] \in DrainingPC /\ pc'[c] \in DrainingPC
            /\ pc[c] \in ClaimedPC /\ pc'[c] \notin ClaimedPC
        BY <1>3 DEF AdvanceRead, Goto, TypeOK, Threads, DrainingPC, ClaimedPC
      <3> QED
        BY <3>1, ConsumerMove, CountBounds
    <2>2. SlotsAccounted'
      BY <2>1, <1>3, CountBounds
      DEF AdvanceRead, semaphores, SlotsAccounted, TypeOK
    <2>3. Occupied' = Occupied - 1
      BY <2>1, <1>3, CountBounds DEF Occupied, AdvanceRead, semaphores, TypeOK
    <2>4. Cardinality(Claimed) > 0
      BY <1>3, CountBounds DEF AdvanceRead, Goto, ClaimedPC
    <2>5. Occupied > 0
      BY <2>4, CountBounds DEF Occupied, TypeOK
    <2>6. read_index' = IF read_index + 1 = BufferSize THEN 0
                                                       ELSE read_index + 1
      BY <1>3, NextIndexWraps DEF AdvanceRead, TypeOK
    <2>7. write_index = Wrapped
      BY IndexesUnfold DEF IndexesUnfolded
    <2>8. Occupied \in 0 .. BufferSize
      BY IndexesUnfold
    <2>9. write_index' = Wrapped'
      BY <2>3, <2>5, <2>6, <2>7, <2>8, <1>3, SizeAssumption
      DEF Wrapped, AdvanceRead, TypeOK, Slots
    <2> QED
      BY <2>2, <2>9, IndexesUnfoldNext DEF IndexesUnfolded
  <1>4. CASE PostEmpty(c)
    <2>1. /\ Cardinality(Filling') = Cardinality(Filling)
          /\ Cardinality(Written') = Cardinality(Written)
          /\ Cardinality(Draining') = Cardinality(Draining) - 1
          /\ Cardinality(Claimed') = Cardinality(Claimed)
      <3>1. /\ pc' = [pc EXCEPT ![c] = pc'[c]]
            /\ pc[c] \in DrainingPC /\ pc'[c] \notin DrainingPC
            /\ pc[c] \notin ClaimedPC /\ pc'[c] \notin ClaimedPC
        BY <1>4 DEF PostEmpty, Goto, TypeOK, Threads, DrainingPC, ClaimedPC
      <3> QED
        BY <3>1, ConsumerMove, CountBounds
    <2>2. SlotsAccounted'
      BY <2>1, <1>4, CountBounds DEF PostEmpty, SlotsAccounted, TypeOK
    <2>3. Occupied' = Occupied
      BY <2>1, <1>4 DEF Occupied, PostEmpty
    <2> QED
      BY <2>2, <2>3, <1>4 DEF IndexesAgree, PostEmpty
  <1> QED
    BY <1>1, <1>2, <1>3, <1>4 DEF ConsumerStep

(* The main thread only starts threads outside every critical section.     *)
LEMMA MainPreserves ==
    ASSUME IInv, MainStep
    PROVE  IInv'
  <1> USE DEF IInv
  <1>1. ASSUME NEW t \in Threads, CreateThread(t)
        PROVE  IInv'
    <2>1. /\ UNCHANGED <<memory, process>>
          /\ pc[t] = "unborn"
          /\ pc' = [pc EXCEPT ![t] = pc'[t]]
          /\ t \in Producers => pc'[t] = "produce"
          /\ t \in Consumers => pc'[t] = "wait_fill"
      BY <1>1, ThreadAssumption DEF CreateThread, TypeOK
    <2>2. TypeOK' /\ MutexesHeld'
      BY <2>1, ThreadAssumption
      DEF TypeOK, MutexesHeld, InWriteSection, InReadSection, memory,
          semaphores, reports, ProducerPC, ConsumerPC, Threads
    <2>3. /\ Cardinality(Filling') = Cardinality(Filling)
          /\ Cardinality(Written') = Cardinality(Written)
          /\ Cardinality(Draining') = Cardinality(Draining)
          /\ Cardinality(Claimed') = Cardinality(Claimed)
      <3>1. CASE t \in Producers
        <4>1. /\ pc[t] \notin FillingPC \cup WrittenPC
              /\ pc'[t] \notin FillingPC \cup WrittenPC
          BY <2>1, <3>1 DEF FillingPC, WrittenPC
        <4> QED
          BY <4>1, <2>1, <3>1, ProducerMove, CountBounds
      <3>2. CASE t \in Consumers
        <4>1. /\ pc[t] \notin DrainingPC \cup ClaimedPC
              /\ pc'[t] \notin DrainingPC \cup ClaimedPC
          BY <2>1, <3>2 DEF DrainingPC, ClaimedPC
        <4> QED
          BY <4>1, <2>1, <3>2, ConsumerMove, CountBounds
      <3> QED
        BY <3>1, <3>2 DEF Threads
    <2>4. Occupied' = Occupied
      BY <2>1, <2>3 DEF Occupied, memory, semaphores
    <2> QED
      BY <2>1, <2>2, <2>3, <2>4
      DEF SlotsAccounted, IndexesAgree, memory, semaphores
  <1>2. ASSUME UNCHANGED <<pc, memory>>, process' \in {"running", "exited"}
        PROVE  IInv'
    BY <1>2 DEF TypeOK, MutexesHeld, InWriteSection, InReadSection,
        SlotsAccounted, IndexesAgree, Occupied, Filling, Draining, Written,
        Claimed, At, memory, semaphores, reports
  <1> QED
    BY <1>1, <1>2 DEF MainStep, CreateFails, MainExits

(* Every step of main, of a producer and of a consumer preserves IInv.     *)
LEMMA NextPreserves == IInv /\ [Next]_vars => IInv'
  <1> SUFFICES ASSUME IInv, [Next]_vars PROVE IInv'
    OBVIOUS
  <1>1. CASE MainStep
    BY <1>1, MainPreserves
  <1>2. ASSUME NEW p \in Producers, ProducerStep(p) PROVE IInv'
    BY <1>2, ProducerTypes, ProducerCounts DEF IInv
  <1>3. ASSUME NEW c \in Consumers, ConsumerStep(c) PROVE IInv'
    BY <1>3, ConsumerTypes, ConsumerCounts DEF IInv
  <1>4. CASE UNCHANGED vars
    BY <1>4 DEF IInv, TypeOK, MutexesHeld, InWriteSection, InReadSection,
        SlotsAccounted, IndexesAgree, Occupied, Filling, Draining, Written,
        Claimed, At, vars, semaphores, reports
  <1> QED
    BY <1>1, <1>2, <1>3, <1>4 DEF Next, Exited

(* IInv holds in every reachable state of every one of the four programs.  *)
LEMMA Invariance == Spec => []IInv
  BY InitIInv, NextPreserves, PTL DEF Spec

-----------------------------------------------------------------------------
(* No interleaving takes an index outside transactions or a mutex above 1, *)
(* whatever the numbers of threads and slots.                              *)
THEOREM TypeCorrect == Spec => []TypeOK
  <1>1. IInv => TypeOK
    BY DEF IInv
  <1> QED
    BY <1>1, Invariance, PTL

(* The pairs sem_wait/sem_post on empty_count and fill_count lose no slot  *)
(* and invent none, however the threads of lab05 interleave.               *)
THEOREM SlotsAreAccounted == Spec => []SlotsAccounted
  <1>1. IInv => SlotsAccounted
    BY DEF IInv
  <1> QED
    BY <1>1, Invariance, PTL

(* The two indexes always enclose exactly the items the semaphores and the *)
(* threads in their critical sections account for.                         *)
THEOREM IndexesStayInStep == Spec => []IndexesAgree
  <1>1. IInv => IndexesAgree
    BY DEF IInv
  <1> QED
    BY <1>1, Invariance, PTL

(* "Two threads never read from or write to the same element", for every   *)
(* number of producers and consumers and every BUFFER_SIZE.                *)
THEOREM ElementsAreExclusive == Spec => []ElementsExclusive
  <1>1. ASSUME IInv PROVE ElementsExclusive
    <2> USE DEF IInv
    <2>1. /\ \A p, q \in Producers : Writing(p) /\ Writing(q) => p = q
          /\ \A c, d \in Consumers : Reading(c) /\ Reading(d) => c = d
      BY <1>1 DEF MutexesHeld, InWriteSection, InReadSection, Writing, Reading
    <2>2. ASSUME NEW p \in Producers, NEW c \in Consumers,
                 Writing(p), Reading(c)
          PROVE  write_index # read_index
      <3>1. Cardinality(Written) < Cardinality(Filling)
        BY <2>2, CountBounds DEF Writing, FillingPC, WrittenPC
      <3>2. Cardinality(Claimed) > 0
        BY <2>2, CountBounds DEF Reading, ClaimedPC
      <3>3. Occupied > 0 /\ Occupied < BufferSize
        BY <1>1, <3>1, <3>2, CountBounds, SizeAssumption
        DEF Occupied, SlotsAccounted, TypeOK
      <3>4. write_index = Wrapped /\ Occupied \in 0 .. BufferSize
        BY <1>1, IndexesUnfold DEF IndexesUnfolded
      <3> QED
        BY <1>1, <3>3, <3>4, SizeAssumption DEF Wrapped, TypeOK, Slots
    <2> QED
      BY <2>1, <2>2 DEF ElementsExclusive
  <1> QED
    BY <1>1, Invariance, PTL

-----------------------------------------------------------------------------
(* The items between the indexes.                                          *)

ItemSlot(k) == (read_index + k) % BufferSize
Item(k)     == transactions[ItemSlot(k)]

(* Within one turn of the buffer, % subtracts the size at most once.       *)
LEMMA Turn ==
    ASSUME NEW k \in 0 .. BufferSize, NEW r \in Slots
    PROVE  /\ (r + k) % BufferSize \in Slots
           /\ (r + k) % BufferSize =
                 IF r + k < BufferSize THEN r + k ELSE r + k - BufferSize
  <1>1. /\ BufferSize \in Nat \ {0} /\ k \in Nat /\ r \in Nat
        /\ r < BufferSize /\ k <= BufferSize
    BY SizeAssumption DEF Slots
  <1>2. PICK x \in Nat : x = r + k
    BY <1>1
  <1>3. x < 2 * BufferSize
    BY <1>1, <1>2
  <1>4. /\ x < BufferSize => x % BufferSize = x
        /\ BufferSize <= x => x % BufferSize = x - BufferSize
    BY <1>1, <1>2, <1>3, ModUnfold
  <1>5. (r + k) % BufferSize = x % BufferSize
    BY <1>2, Zenon
  <1> QED
    BY <1>1, <1>2, <1>4, <1>5 DEF Slots

(* The slot of item k, with one subtraction.                               *)
LEMMA ItemSlotIs ==
    ASSUME NEW k \in 0 .. BufferSize, read_index \in Slots
    PROVE  /\ ItemSlot(k) \in Slots
           /\ ItemSlot(k) = IF read_index + k < BufferSize
                            THEN read_index + k
                            ELSE read_index + k - BufferSize
  BY Turn DEF ItemSlot

(* The first item is the one at read_index.                                *)
LEMMA FirstItem ==
    ASSUME read_index \in Slots
    PROVE  ItemSlot(0) = read_index
  <1>1. /\ 0 \in 0 .. BufferSize /\ read_index + 0 < BufferSize
        /\ read_index + 0 = read_index
    BY SizeAssumption DEF Slots
  <1> QED
    BY <1>1, ItemSlotIs

(* An item and the slot after the last one are in different slots.         *)
LEMMA ItemSlotsDiffer ==
    ASSUME read_index \in Slots,
           NEW w \in 0 .. BufferSize - 1, NEW k \in 0 .. w - 1
    PROVE  ItemSlot(k) # ItemSlot(w)
  <1>1. /\ BufferSize \in Nat /\ read_index \in Nat
        /\ read_index < BufferSize
        /\ k \in 0 .. BufferSize /\ w \in 0 .. BufferSize /\ k < w
        /\ k \in Nat /\ w \in Nat /\ w < BufferSize
    BY SizeAssumption DEF Slots
  <1>2. /\ ItemSlot(k) = IF read_index + k < BufferSize
                         THEN read_index + k ELSE read_index + k - BufferSize
        /\ ItemSlot(w) = IF read_index + w < BufferSize
                         THEN read_index + w ELSE read_index + w - BufferSize
    BY <1>1, ItemSlotIs
  <1> QED
    BY <1>1, <1>2

(* When read_index moves on, what was the second item is the first.        *)
LEMMA ItemsShift ==
    ASSUME read_index \in Slots, read_index' = NextIndex(read_index),
           NEW k \in 0 .. BufferSize - 1
    PROVE  ItemSlot(k)' = ItemSlot(k + 1)
  <1>1. /\ BufferSize \in Nat \ {0} /\ k \in Nat /\ k < BufferSize
        /\ read_index \in Nat /\ read_index < BufferSize
        /\ k \in 0 .. BufferSize /\ k + 1 \in 0 .. BufferSize
    BY SizeAssumption DEF Slots
  <1>2. PICK r \in Slots : r = read_index'
    BY NextIndexWraps
  <1>3. r = IF read_index + 1 = BufferSize THEN 0 ELSE read_index + 1
    BY <1>2, NextIndexWraps
  <1>4. (r + k) % BufferSize =
          IF r + k < BufferSize THEN r + k ELSE r + k - BufferSize
    BY <1>1, Turn
  <1>5. ItemSlot(k + 1) = IF read_index + (k + 1) < BufferSize
                          THEN read_index + (k + 1)
                          ELSE read_index + (k + 1) - BufferSize
    BY <1>1, ItemSlotIs
  <1>6. ItemSlot(k)' = (r + k) % BufferSize
    BY <1>2 DEF ItemSlot
  <1> QED
    BY <1>1, <1>3, <1>4, <1>5, <1>6

(* How many items there are: fewer than slots while a producer is writing, *)
(* one at least while a consumer is reading.                               *)
LEMMA OccupiedBounds ==
    ASSUME IInv
    PROVE  /\ Occupied \in 0 .. BufferSize
           /\ (\E p \in Producers : Writing(p)) => Occupied < BufferSize
           /\ (\E c \in Consumers : Reading(c)) => Occupied > 0
           /\ write_index = ItemSlot(Occupied)
  <1>1. TypeOK /\ SlotsAccounted /\ IndexesAgree
    BY DEF IInv
  <1>2. ASSUME NEW p \in Producers, Writing(p) PROVE Occupied < BufferSize
    <2>1. Cardinality(Written) < Cardinality(Filling)
      BY <1>2, CountBounds DEF Writing, FillingPC, WrittenPC
    <2> QED
      BY <2>1, <1>1, CountBounds, SizeAssumption
      DEF Occupied, SlotsAccounted, TypeOK
  <1>3. ASSUME NEW c \in Consumers, Reading(c) PROVE Occupied > 0
    <2>1. Cardinality(Claimed) > 0
      BY <1>3, CountBounds DEF Reading, ClaimedPC
    <2> QED
      BY <2>1, <1>1, CountBounds DEF Occupied, TypeOK
  <1> QED
    BY <1>1, <1>2, <1>3, IndexesUnfold DEF IndexesAgree, ItemSlot

(* Only AdvanceWrite makes one more slot hold an item ...                  *)
LEMMA ProducerOccupied ==
    ASSUME TypeOK, NEW p \in Producers, ProducerStep(p)
    PROVE  IF AdvanceWrite(p) THEN Occupied' = Occupied + 1
                              ELSE Occupied' = Occupied
  <1>0. fill_count \in Nat
    BY DEF TypeOK
  <1>1. CASE Produce(p) \/ WaitEmpty(p) \/ WaitWrite(p) \/ WriteItem(p)
             \/ PostWrite(p)
    <2>1. /\ fill_count' = fill_count
          /\ pc' = [pc EXCEPT ![p] = pc'[p]]
          /\ pc'[p] \in WrittenPC <=> pc[p] \in WrittenPC
          /\ ~AdvanceWrite(p)
      BY <1>1 DEF Produce, WaitEmpty, WaitWrite, WriteItem, PostWrite,
                  AdvanceWrite, Goto, semaphores, TypeOK, Threads, WrittenPC
    <2>2. /\ Cardinality(Written') = Cardinality(Written)
          /\ Cardinality(Claimed') = Cardinality(Claimed)
      BY <2>1, ProducerMove, CountBounds
    <2> QED
      BY <2>1, <2>2 DEF Occupied
  <1>2. CASE AdvanceWrite(p)
    <2>1. /\ fill_count' = fill_count
          /\ pc' = [pc EXCEPT ![p] = pc'[p]]
          /\ pc[p] \notin WrittenPC /\ pc'[p] \in WrittenPC
      BY <1>2 DEF AdvanceWrite, Goto, semaphores, TypeOK, Threads, WrittenPC
    <2>2. /\ Cardinality(Written') = Cardinality(Written) + 1
          /\ Cardinality(Claimed') = Cardinality(Claimed)
      BY <2>1, ProducerMove, CountBounds
    <2> QED
      BY <2>1, <2>2, <1>0, <1>2, CountBounds DEF Occupied
  <1>3. CASE PostFill(p)
    <2>1. /\ fill_count' = fill_count + 1
          /\ pc' = [pc EXCEPT ![p] = pc'[p]]
          /\ pc[p] \in WrittenPC /\ pc'[p] \notin WrittenPC
          /\ ~AdvanceWrite(p)
      BY <1>3 DEF PostFill, AdvanceWrite, Goto, TypeOK, Threads, WrittenPC
    <2>2. /\ Cardinality(Written') = Cardinality(Written) - 1
          /\ Cardinality(Claimed') = Cardinality(Claimed)
      BY <2>1, ProducerMove, CountBounds
    <2> QED
      BY <2>1, <2>2, <1>0, CountBounds DEF Occupied
  <1> QED
    BY <1>1, <1>2, <1>3 DEF ProducerStep

(* ... and only AdvanceRead one fewer.                                     *)
LEMMA ConsumerOccupied ==
    ASSUME TypeOK, NEW c \in Consumers, ConsumerStep(c)
    PROVE  IF AdvanceRead(c) THEN Occupied' = Occupied - 1
                             ELSE Occupied' = Occupied
  <1>0. fill_count \in Nat
    BY DEF TypeOK
  <1>1. CASE \/ WaitRead(c) \/ LoadItem(c) \/ LoadSum(c) \/ StoreSum(c)
             \/ PostRead(c) \/ PostEmpty(c) \/ ApplyItem(c)
    <2>1. /\ fill_count' = fill_count
          /\ pc' = [pc EXCEPT ![c] = pc'[c]]
          /\ pc'[c] \in ClaimedPC <=> pc[c] \in ClaimedPC
          /\ ~AdvanceRead(c)
      BY <1>1 DEF WaitRead, LoadItem, LoadSum, StoreSum, PostRead, PostEmpty,
                  ApplyItem, AdvanceRead, Goto, semaphores, TypeOK, Threads,
                  ClaimedPC
    <2>2. /\ Cardinality(Written') = Cardinality(Written)
          /\ Cardinality(Claimed') = Cardinality(Claimed)
      BY <2>1, ConsumerMove, CountBounds
    <2> QED
      BY <2>1, <2>2 DEF Occupied
  <1>2. CASE WaitFill(c)
    <2>1. /\ fill_count' = fill_count - 1
          /\ pc' = [pc EXCEPT ![c] = pc'[c]]
          /\ pc[c] \notin ClaimedPC /\ pc'[c] \in ClaimedPC
          /\ ~AdvanceRead(c)
      BY <1>2 DEF WaitFill, AdvanceRead, Goto, TypeOK, Threads, ClaimedPC
    <2>2. /\ Cardinality(Written') = Cardinality(Written)
          /\ Cardinality(Claimed') = Cardinality(Claimed) + 1
      BY <2>1, ConsumerMove, CountBounds
    <2> QED
      BY <2>1, <2>2, <1>0, CountBounds DEF Occupied
  <1>3. CASE AdvanceRead(c)
    <2>1. /\ fill_count' = fill_count
          /\ pc' = [pc EXCEPT ![c] = pc'[c]]
          /\ pc[c] \in ClaimedPC /\ pc'[c] \notin ClaimedPC
      BY <1>3 DEF AdvanceRead, Goto, semaphores, TypeOK, Threads, ClaimedPC
    <2>2. /\ Cardinality(Written') = Cardinality(Written)
          /\ Cardinality(Claimed') = Cardinality(Claimed) - 1
      BY <2>1, ConsumerMove, CountBounds
    <2> QED
      BY <2>1, <2>2, <1>0, <1>3, CountBounds DEF Occupied
  <1> QED
    BY <1>1, <1>2, <1>3 DEF ConsumerStep

(* The other steps change neither the items nor the threads that use them. *)
LEMMA OtherSteps ==
    ASSUME TypeOK, [Next]_vars
    PROVE  \/ \E p \in Producers : ProducerStep(p)
           \/ \E c \in Consumers : ConsumerStep(c)
           \/ /\ UNCHANGED <<transactions, read_index, write_index, deposit,
                             local, ledger, sinceReport, lastReport>>
              /\ Occupied' = Occupied
              /\ \A t \in Threads :
                    \/ pc'[t] = pc[t]
                    \/ pc[t] = "unborn" /\ pc'[t] \in {"produce", "wait_fill"}
  <1>1. ASSUME NEW t \in Threads, CreateThread(t)
        PROVE  /\ UNCHANGED <<transactions, read_index, write_index, deposit,
                              local, ledger, sinceReport, lastReport>>
               /\ Occupied' = Occupied
               /\ \A u \in Threads :
                     \/ pc'[u] = pc[u]
                     \/ pc[u] = "unborn" /\ pc'[u] \in {"produce", "wait_fill"}
    <2>1. /\ pc[t] = "unborn" /\ pc' = [pc EXCEPT ![t] = pc'[t]]
          /\ pc'[t] \in {"produce", "wait_fill"} /\ fill_count' = fill_count
          /\ UNCHANGED <<transactions, read_index, write_index, deposit,
                         local, ledger, sinceReport, lastReport>>
          /\ pc \in [Threads -> ProducerPC \cup ConsumerPC]
      BY <1>1 DEF CreateThread, memory, semaphores, reports, TypeOK
    <2>2. Written' = Written /\ Claimed' = Claimed
      BY <2>1 DEF Written, Claimed, At, WrittenPC, ClaimedPC, Threads
    <2>3. Occupied' = Occupied
      BY <2>1, <2>2 DEF Occupied
    <2> QED
      BY <2>1, <2>3
  <1>2. ASSUME UNCHANGED <<pc, memory>>
        PROVE  /\ UNCHANGED <<transactions, read_index, write_index, deposit,
                              local, ledger, sinceReport, lastReport>>
               /\ Occupied' = Occupied
               /\ \A u \in Threads : pc'[u] = pc[u]
    BY <1>2 DEF memory, semaphores, reports, Occupied, Written, Claimed, At
  <1>3. ASSUME Exited \/ UNCHANGED vars PROVE UNCHANGED <<pc, memory>>
    BY <1>3 DEF Exited, vars, memory, semaphores, reports
  <1>4. ASSUME CreateFails \/ MainExits PROVE UNCHANGED <<pc, memory>>
    BY <1>4 DEF CreateFails, MainExits
  <1> QED
    BY <1>1, <1>2, <1>3, <1>4 DEF Next, MainStep

-----------------------------------------------------------------------------
(* What the slots and the locals contain.                                  *)

(* A producer's local is its transaction until it has passed it on, and    *)
(* the slot at write_index has it once it is written; the slots between    *)
(* the indexes have transactions; a consumer about to store has the sum of *)
(* the deposit and the first item, and one that copied its item keeps it   *)
(* until it is added.                                                      *)
ItemsValid == \A k \in 0 .. Occupied - 1 : Item(k) \in Amounts

ProducersReady ==
    \A p \in Producers :
        /\ pc[p] \in {"wait_empty", "wait_write", "write", "advance_w"}
              => local[p] \in Amounts
        /\ pc[p] = "advance_w" => transactions[write_index] = local[p]

ConsumersReady ==
    \A c \in Consumers :
        /\ pc[c] = "store" => local[c] = Add(deposit, transactions[read_index])
        /\ ~ReadMutex /\ pc[c] \in {"advance_r", "post_empty", "apply"}
              => local[c] \in Amounts

Contents == ItemsValid /\ ProducersReady /\ ConsumersReady

(* A transaction is an amount other than zero.                             *)
LEMMA AmountsNotZero == Amounts \subseteq Int \ {0}
  <1> SUFFICES ASSUME NEW r \in 0 .. 2 * MaxTransaction - 1
               PROVE  performRandomTransaction(r) \in Int \ {0}
    BY DEF Amounts
  <1> QED
    BY SizeAssumption DEF performRandomTransaction

(* An empty buffer has nothing to be valid.                                *)
LEMMA InitContents == Init => Contents
  <1> SUFFICES ASSUME Init PROVE Contents
    OBVIOUS
  <1>1. Written = {} /\ Claimed = {}
    BY DEF Init, Threads, Written, Claimed, At, WrittenPC, ClaimedPC
  <1>2. Occupied = 0
    BY <1>1, FS_EmptySet DEF Occupied, Init
  <1>3. ItemsValid
    BY <1>2 DEF ItemsValid
  <1> QED
    BY <1>3 DEF Contents, ProducersReady, ConsumersReady, Init, Threads

(* A step that leaves slots and read_index alone leaves the items alone.   *)
LEMMA ItemsKept ==
    ASSUME UNCHANGED <<transactions, read_index>>
    PROVE  \A k : Item(k)' = Item(k) /\ ItemSlot(k)' = ItemSlot(k)
  BY DEF Item, ItemSlot

(* A producer writes to the slot after the last item.                      *)
LEMMA WriteKeepsItems ==
    ASSUME IInv, NEW p \in Producers, WriteItem(p)
    PROVE  \A k \in 0 .. Occupied - 1 : Item(k)' = Item(k)
  <1>1. /\ transactions \in [Slots -> Int] /\ read_index \in Slots
        /\ Writing(p) /\ read_index' = read_index
        /\ transactions' = [transactions EXCEPT ![write_index] = local[p]]
    BY DEF IInv, TypeOK, WriteItem, Goto, Writing
  <1>2. /\ Occupied \in 0 .. BufferSize - 1 /\ write_index = ItemSlot(Occupied)
        /\ BufferSize \in Nat
    BY <1>1, OccupiedBounds, SizeAssumption
  <1>3. ASSUME NEW k \in 0 .. Occupied - 1
        PROVE  Item(k)' = Item(k)
    <2>1. ItemSlot(k) # write_index
      BY <1>1, <1>2, ItemSlotsDiffer
    <2>2. k \in 0 .. BufferSize
      BY <1>2
    <2>3. ItemSlot(k) \in Slots
      BY <2>2, <1>1, ItemSlotIs
    <2>4. ItemSlot(k)' = ItemSlot(k)
      BY <1>1 DEF ItemSlot
    <2> QED
      BY <2>1, <2>3, <2>4, <1>1 DEF Item
  <1> QED
    BY <1>3

(* A producer stores a transaction before it announces it.                 *)
LEMMA ProducerContents ==
    ASSUME IInv, Contents, NEW p \in Producers, ProducerStep(p)
    PROVE  Contents'
  <1>0. /\ p \in Threads /\ p \notin Consumers /\ Consumers \subseteq Threads
        /\ Producers \subseteq Threads
        /\ pc \in [Threads -> ProducerPC \cup ConsumerPC]
        /\ local \in [Threads -> Int] /\ transactions \in [Slots -> Int]
        /\ read_index \in Slots /\ write_index \in Slots
    BY ThreadAssumption DEF Threads, IInv, TypeOK
  <1>o. Occupied \in 0 .. BufferSize /\ BufferSize \in Nat \ {0}
    BY OccupiedBounds, SizeAssumption
  <1>c. ASSUME UNCHANGED <<read_index, deposit>>,
               \A c \in Consumers : pc'[c] = pc[c] /\ local'[c] = local[c],
               \A c \in Consumers : pc[c] = "store" =>
                   transactions'[read_index] = transactions[read_index]
        PROVE  ConsumersReady'
    BY <1>c DEF Contents, ConsumersReady, Add
  <1>p. \A q \in Producers : pc[q] = "advance_w" /\ Writing(p) => q = p
    BY DEF IInv, MutexesHeld, InWriteSection, Writing
  <1>1. CASE Produce(p) \/ WaitEmpty(p) \/ WaitWrite(p) \/ PostWrite(p)
             \/ PostFill(p)
    <2>1. /\ UNCHANGED <<transactions, read_index, write_index, deposit>>
          /\ \A t \in Threads : t # p => pc'[t] = pc[t] /\ local'[t] = local[t]
          /\ ~AdvanceWrite(p) /\ pc'[p] # "advance_w"
      BY <1>1, <1>0 DEF Produce, WaitEmpty, WaitWrite, PostWrite, PostFill,
                        AdvanceWrite, Goto
    <2>2. Occupied' = Occupied
      BY <2>1, ProducerOccupied DEF IInv
    <2>3. ItemsValid'
      BY <2>1, <2>2, ItemsKept DEF Contents, ItemsValid
    <2>4. pc'[p] \in {"wait_empty", "wait_write", "write"} =>
             local'[p] \in Amounts
      BY <1>1, <1>0 DEF Produce, WaitEmpty, WaitWrite, PostWrite, PostFill,
                        Goto, Contents, ProducersReady
    <2>5. ProducersReady'
      BY <2>1, <2>4, <1>0 DEF Contents, ProducersReady
    <2>6. ConsumersReady'
      BY <2>1, <1>0, <1>c
    <2> QED
      BY <2>3, <2>5, <2>6 DEF Contents
  <1>2. CASE WriteItem(p)
    <2>1. /\ pc[p] = "write" /\ pc' = [pc EXCEPT ![p] = "advance_w"]
          /\ transactions' = [transactions EXCEPT ![write_index] = local[p]]
          /\ UNCHANGED <<read_index, write_index, deposit, local>>
          /\ ~AdvanceWrite(p)
      BY <1>2 DEF WriteItem, AdvanceWrite, Goto
    <2>2. Writing(p)
      BY <2>1 DEF Writing
    <2>3. Occupied \in 0 .. BufferSize - 1 /\ write_index = ItemSlot(Occupied)
      BY <2>2, <1>o, OccupiedBounds
    <2>4. Occupied' = Occupied
      BY <2>1, ProducerOccupied DEF IInv
    <2>5. \A k \in 0 .. Occupied - 1 : Item(k)' = Item(k)
      BY <1>2, WriteKeepsItems
    <2>6. ItemsValid'
      BY <2>4, <2>5 DEF Contents, ItemsValid
    <2>7. ProducersReady'
      <3>1. local[p] \in Amounts
        BY <2>1 DEF Contents, ProducersReady
      <3>2. transactions'[write_index'] = local'[p]
        BY <2>1, <1>0
      <3>3. \A q \in Producers : pc'[q] = "advance_w" => q = p
        BY <2>1, <2>2, <1>0, <1>p
      <3>4. \A q \in Producers : q # p => pc'[q] = pc[q]
        BY <2>1, <1>0
      <3> QED
        BY <3>1, <3>2, <3>3, <3>4, <2>1 DEF Contents, ProducersReady
    <2>8. ASSUME NEW c \in Consumers, pc[c] = "store"
          PROVE  transactions'[read_index] = transactions[read_index]
      <3>1. Reading(c)
        BY <2>8 DEF Reading
      <3>2. 0 \in 0 .. Occupied - 1
        BY <3>1, <1>o, OccupiedBounds
      <3>3. Item(0)' = Item(0)
        BY <3>2, <2>5
      <3>4. ItemSlot(0) = read_index /\ ItemSlot(0)' = ItemSlot(0)
        BY <2>1, <1>0, FirstItem DEF ItemSlot
      <3> QED
        BY <3>3, <3>4 DEF Item
    <2>9. ConsumersReady'
      BY <2>1, <2>8, <1>0, <1>c
    <2> QED
      BY <2>6, <2>7, <2>9 DEF Contents
  <1>3. CASE AdvanceWrite(p)
    <2>1. /\ pc[p] = "advance_w"
          /\ pc' = [pc EXCEPT ![p] = pc'[p]]
          /\ pc'[p] \in {"post_write", "post_fill"}
          /\ UNCHANGED <<transactions, read_index, deposit, local>>
      BY <1>3, <1>0 DEF AdvanceWrite, Goto
    <2>2. Writing(p)
      BY <2>1 DEF Writing
    <2>3. Occupied \in 0 .. BufferSize - 1 /\ write_index = ItemSlot(Occupied)
      BY <2>2, <1>o, OccupiedBounds
    <2>4. Occupied' = Occupied + 1
      BY <1>3, ProducerOccupied DEF IInv
    <2>5. Item(Occupied) = local[p] /\ local[p] \in Amounts
      BY <2>1, <2>3 DEF Item, Contents, ProducersReady
    <2>6. ItemsValid'
      <3>1. \A k \in 0 .. Occupied' - 1 : k \in 0 .. Occupied - 1 \/ k = Occupied
        BY <2>3, <2>4
      <3>2. \A k \in 0 .. Occupied' - 1 : Item(k) \in Amounts
        BY <3>1, <2>5 DEF Contents, ItemsValid
      <3>3. \A k : Item(k)' = Item(k)
        BY <2>1, ItemsKept
      <3> QED
        BY <3>2, <3>3 DEF ItemsValid
    <2>7. ProducersReady'
      <3>1. \A q \in Producers : q # p => pc'[q] = pc[q] /\ pc[q] # "advance_w"
        BY <2>1, <2>2, <1>0, <1>p
      <3> QED
        BY <3>1, <2>1 DEF Contents, ProducersReady
    <2>8. ConsumersReady'
      BY <2>1, <1>0, <1>c
    <2> QED
      BY <2>6, <2>7, <2>8 DEF Contents
  <1> QED
    BY <1>1, <1>2, <1>3 DEF ProducerStep

(* A consumer changes no item that is still to be taken.                   *)
LEMMA ConsumerContents ==
    ASSUME IInv, Contents, NEW c \in Consumers, ConsumerStep(c)
    PROVE  Contents'
  <1>0. /\ c \in Threads /\ c \notin Producers /\ Consumers \subseteq Threads
        /\ Producers \subseteq Threads
        /\ pc \in [Threads -> ProducerPC \cup ConsumerPC]
        /\ local \in [Threads -> Int] /\ transactions \in [Slots -> Int]
        /\ read_index \in Slots /\ write_index \in Slots
    BY ThreadAssumption DEF Threads, IInv, TypeOK
  <1>o. Occupied \in 0 .. BufferSize /\ BufferSize \in Nat \ {0}
    BY OccupiedBounds, SizeAssumption
  <1>u. /\ transactions' = transactions /\ write_index' = write_index
        /\ \A t \in Threads : t # c => pc'[t] = pc[t] /\ local'[t] = local[t]
    BY <1>0 DEF ConsumerStep, WaitFill, WaitRead, LoadItem, LoadSum, StoreSum,
                AdvanceRead, PostRead, PostEmpty, ApplyItem, Goto
  <1>p. ProducersReady'
    BY <1>0, <1>u DEF Contents, ProducersReady
  <1>r. \A d \in Consumers :
           /\ pc[d] = "store" /\ Reading(c) => d = c
           /\ pc[d] = "store" => ReadMutex /\ Reading(d)
    BY DEF IInv, MutexesHeld, InReadSection, Reading
  <1>i. ASSUME read_index' = read_index, ~AdvanceRead(c) PROVE ItemsValid'
    <2>1. Occupied' = Occupied
      BY <1>i, ConsumerOccupied DEF IInv
    <2> QED
      BY <2>1, <1>i, <1>u, ItemsKept DEF Contents, ItemsValid
  <1>1. CASE WaitFill(c) \/ WaitRead(c) \/ PostRead(c) \/ PostEmpty(c)
    <2>1. /\ UNCHANGED <<read_index, deposit, local>> /\ ~AdvanceRead(c)
          /\ pc'[c] \notin {"store", "advance_r"}
      BY <1>1, <1>0 DEF WaitFill, WaitRead, PostRead, PostEmpty, AdvanceRead,
                        Goto
    <2>2. ~ReadMutex /\ pc'[c] \in {"post_empty", "apply"} =>
             pc[c] \in {"post_empty"}
      BY <1>1, <1>0
      DEF WaitFill, WaitRead, PostRead, PostEmpty, Goto, IInv, MutexesHeld
    <2>3. ConsumersReady'
      BY <2>1, <2>2, <1>0, <1>u DEF Contents, ConsumersReady, Add
    <2> QED
      BY <2>1, <2>3, <1>i, <1>p DEF Contents
  <1>2. CASE LoadItem(c)
    <2>1. /\ ~ReadMutex /\ pc[c] = "load" /\ pc'[c] = "advance_r"
          /\ local'[c] = transactions[read_index]
          /\ UNCHANGED <<read_index, deposit>> /\ ~AdvanceRead(c)
      BY <1>2, <1>0 DEF LoadItem, AdvanceRead, Goto
    <2>2. 0 \in 0 .. Occupied - 1
      BY <2>1, <1>o, OccupiedBounds DEF Reading
    <2>3. local'[c] \in Amounts
      BY <2>1, <2>2, <1>0, FirstItem DEF Contents, ItemsValid, Item
    <2>4. ConsumersReady'
      BY <2>1, <2>3, <1>0, <1>u DEF Contents, ConsumersReady, Add
    <2> QED
      BY <2>1, <2>4, <1>i, <1>p DEF Contents
  <1>3. CASE LoadSum(c)
    <2>1. /\ ReadMutex /\ pc[c] = "load" /\ pc'[c] = "store"
          /\ local'[c] = Add(deposit, transactions[read_index])
          /\ UNCHANGED <<read_index, deposit>> /\ ~AdvanceRead(c)
      BY <1>3, <1>0 DEF LoadSum, AdvanceRead, Goto
    <2>2. ConsumersReady'
      BY <2>1, <1>0, <1>u DEF Contents, ConsumersReady, Add
    <2> QED
      BY <2>1, <2>2, <1>i, <1>p DEF Contents
  <1>4. CASE StoreSum(c)
    <2>1. /\ pc[c] = "store" /\ pc'[c] = "advance_r"
          /\ UNCHANGED <<read_index, local>> /\ ~AdvanceRead(c)
      BY <1>4, <1>0 DEF StoreSum, AdvanceRead, Goto
    <2>2. ReadMutex /\ \A d \in Consumers : pc'[d] # "store"
      BY <2>1, <1>0, <1>r, <1>u DEF Reading
    <2>3. ConsumersReady'
      BY <2>2 DEF ConsumersReady
    <2> QED
      BY <2>1, <2>3, <1>i, <1>p DEF Contents
  <1>5. CASE AdvanceRead(c)
    <2>1. /\ pc[c] = "advance_r" /\ pc'[c] \in {"post_read", "post_empty"}
          /\ read_index' = NextIndex(read_index) /\ UNCHANGED <<local, deposit>>
      BY <1>5, <1>0 DEF AdvanceRead, Goto
    <2>2. Occupied' = Occupied - 1 /\ Occupied > 0
      BY <1>5, <2>1, ConsumerOccupied, OccupiedBounds DEF IInv, Reading
    <2>3. ASSUME NEW k \in 0 .. Occupied' - 1 PROVE Item(k)' \in Amounts
      <3>1. k \in 0 .. BufferSize - 1 /\ k + 1 \in 0 .. Occupied - 1
        BY <2>2, <1>o
      <3>2. ItemSlot(k)' = ItemSlot(k + 1)
        BY <3>1, <2>1, <1>0, ItemsShift
      <3>3. Item(k + 1) \in Amounts
        BY <3>1 DEF Contents, ItemsValid
      <3> QED
        BY <3>2, <3>3, <1>u DEF Item
    <2>4. ItemsValid'
      BY <2>3 DEF ItemsValid
    <2>5. \A d \in Consumers : pc'[d] # "store"
      BY <2>1, <1>0, <1>r, <1>u DEF Reading
    <2>6. ~ReadMutex => local[c] \in Amounts
      BY <2>1 DEF Contents, ConsumersReady
    <2>7. ConsumersReady'
      BY <2>1, <2>5, <2>6, <1>0, <1>u DEF Contents, ConsumersReady
    <2> QED
      BY <2>4, <2>7, <1>p DEF Contents
  <1>6. CASE ApplyItem(c)
    <2>1. /\ pc[c] = "apply" /\ pc'[c] = "wait_fill"
          /\ UNCHANGED <<read_index, local>> /\ ~AdvanceRead(c)
      BY <1>6, <1>0 DEF ApplyItem, AdvanceRead, Goto
    <2>2. ~ReadMutex
      BY <2>1 DEF IInv, MutexesHeld
    <2>3. \A d \in Consumers : pc'[d] # "store"
      BY <2>1, <2>2, <1>0, <1>r, <1>u
    <2>4. ConsumersReady'
      BY <2>1, <2>3, <1>0, <1>u DEF Contents, ConsumersReady
    <2> QED
      BY <2>1, <2>4, <1>i, <1>p DEF Contents
  <1> QED
    BY <1>1, <1>2, <1>3, <1>4, <1>5, <1>6 DEF ConsumerStep

(* Every step preserves the contents.                                      *)
LEMMA NextContents == IInv /\ Contents /\ [Next]_vars => Contents'
  <1> SUFFICES ASSUME IInv, Contents, [Next]_vars PROVE Contents'
    OBVIOUS
  <1>1. ASSUME UNCHANGED <<transactions, read_index, write_index, deposit,
                           local>>,
               Occupied' = Occupied,
               \A t \in Threads :
                  \/ pc'[t] = pc[t]
                  \/ pc[t] = "unborn" /\ pc'[t] \in {"produce", "wait_fill"}
        PROVE  Contents'
    <2>1. ItemsValid'
      BY <1>1, ItemsKept DEF Contents, ItemsValid
    <2>2. ProducersReady' /\ ConsumersReady'
      BY <1>1 DEF Contents, ProducersReady, ConsumersReady, Threads, Add
    <2> QED
      BY <2>1, <2>2 DEF Contents
  <1>2. TypeOK
    BY DEF IInv
  <1> QED
    BY <1>1, <1>2, OtherSteps, ProducerContents, ConsumerContents

-----------------------------------------------------------------------------
(* The abstract queue.                                                     *)

(* A consumer between its load and its AdvanceRead holds the first item.   *)
HoldsItem(c) == pc[c] \in {"store", "advance_r"}

\* What AbstractTaken says of a consumer.
TakenBy(c) ==
    IF pc[c] = "store" THEN transactions[read_index]
    ELSE IF ~ReadMutex /\ pc[c] \in {"advance_r", "post_empty", "apply"}
         THEN local[c]
         ELSE 0

(* What the consumers took, without CASE, now and after a step.            *)
LEMMA TakenIs ==
    /\ AbstractTaken = [c \in Consumers |-> TakenBy(c)]
    /\ AbstractTaken' = [c \in Consumers |-> TakenBy(c)']
  <1>1. \A c : (CASE pc[c] = "store" -> transactions[read_index]
                  [] ~ReadMutex /\ pc[c] \in {"advance_r", "post_empty", "apply"}
                        -> local[c]
                  [] OTHER -> 0) = TakenBy(c)
    BY Zenon DEF TakenBy
  <1>2. \A c : (CASE pc'[c] = "store" -> transactions'[read_index']
                  [] ~ReadMutex /\ pc'[c] \in {"advance_r", "post_empty", "apply"}
                        -> local'[c]
                  [] OTHER -> 0) = TakenBy(c)'
    BY Zenon DEF TakenBy
  <1> QED
    BY <1>1, <1>2, Zenon DEF AbstractTaken

(* Only one consumer at a time holds an item.                              *)
LEMMA HeldIs ==
    ASSUME IInv
    PROVE  /\ (\E c \in Consumers : HoldsItem(c)) => HeldSlots = 1
           /\ (\A c \in Consumers : ~HoldsItem(c)) => HeldSlots = 0
           /\ HeldSlots \in 0 .. 1 /\ Occupied - HeldSlots \in Nat
  <1>1. ASSUME NEW c \in Consumers, HoldsItem(c)
        PROVE  HeldSlots = 1 /\ Occupied > 0
    <2>1. At(Consumers, {"store", "advance_r"}) = {c}
      BY <1>1 DEF At, HoldsItem, IInv, MutexesHeld, InReadSection
    <2>2. Occupied > 0
      BY <1>1, OccupiedBounds DEF HoldsItem, Reading
    <2> QED
      BY <2>1, <2>2, FS_Singleton DEF HeldSlots
  <1>2. ASSUME \A c \in Consumers : ~HoldsItem(c) PROVE HeldSlots = 0
    <2>1. At(Consumers, {"store", "advance_r"}) = {}
      BY <1>2 DEF At, HoldsItem
    <2> QED
      BY <2>1, FS_EmptySet DEF HeldSlots
  <1>3. Occupied \in Nat
    BY OccupiedBounds, SizeAssumption
  <1> QED
    BY <1>1, <1>2, <1>3

OneHolds == /\ (\E c \in Consumers : HoldsItem(c)) => HeldSlots = 1
            /\ (\A c \in Consumers : ~HoldsItem(c)) => HeldSlots = 0

(* One consumer at most holds an item, after a step too.                   *)
LEMMA HeldIsNext == IInv' => OneHolds'
  <1>1. IInv => OneHolds
    BY HeldIs DEF OneHolds
  <1> QED
    BY <1>1, PTL

(* The queue is the items that no consumer has loaded.                     *)
QueueOfItems ==
    /\ AbstractQueue \in Seq(Int)
    /\ Len(AbstractQueue) = Occupied - HeldSlots
    /\ \A i \in 1 .. Occupied - HeldSlots :
          AbstractQueue[i] = Item(HeldSlots + i - 1)

(* The abstract queue is the items from read_index on.                     *)
LEMMA QueueIs ==
    ASSUME IInv, Contents
    PROVE  QueueOfItems
  <1>0. /\ HeldSlots \in 0 .. 1 /\ Occupied - HeldSlots \in Nat
        /\ Occupied \in 0 .. BufferSize /\ read_index \in Slots
    BY HeldIs, OccupiedBounds DEF IInv, TypeOK
  <1>1. PICK n \in Nat : n = Occupied - HeldSlots
    BY <1>0
  <1>2. ASSUME NEW i \in 1 .. n
        PROVE  /\ transactions[(read_index + HeldSlots + i - 1) % BufferSize]
                    = Item(HeldSlots + i - 1)
               /\ Item(HeldSlots + i - 1) \in Int
    <2>1. HeldSlots + i - 1 \in 0 .. Occupied - 1
      BY <1>0, <1>1
    <2>2. Item(HeldSlots + i - 1) \in Amounts
      BY <2>1 DEF Contents, ItemsValid
    <2>3. read_index + HeldSlots + i - 1 = read_index + (HeldSlots + i - 1)
      BY <1>0 DEF Slots
    <2>4. (read_index + HeldSlots + i - 1) % BufferSize
             = ItemSlot(HeldSlots + i - 1)
      BY <2>3, Zenon DEF ItemSlot
    <2> QED
      BY <2>2, <2>4, AmountsNotZero DEF Item
  <1>3. AbstractQueue = [i \in 1 .. n |->
            transactions[(read_index + HeldSlots + i - 1) % BufferSize]]
    BY <1>1 DEF AbstractQueue
  <1>4. AbstractQueue = [i \in 1 .. n |-> Item(HeldSlots + i - 1)]
    BY <1>2, <1>3
  <1>5. AbstractQueue \in [1 .. n -> Int]
    BY <1>2, <1>4
  <1> HIDE DEF AbstractQueue
  <1>6. AbstractQueue \in Seq(Int) /\ Len(AbstractQueue) = n
    BY <1>5
  <1> QED
    BY <1>1, <1>4, <1>6 DEF QueueOfItems

(* The same after a step.                                                  *)
LEMMA QueueIsNext == IInv' /\ Contents' => QueueOfItems'
  <1>1. IInv /\ Contents => QueueOfItems
    BY QueueIs
  <1> QED
    BY <1>1, PTL

(* The same items in the same slots, held or not as before.                *)
LEMMA QueueKept ==
    ASSUME IInv, IInv', Contents, Contents', Occupied' = Occupied,
           HeldSlots' = HeldSlots, read_index' = read_index,
           \A k \in 0 .. Occupied - 1 : Item(k)' = Item(k)
    PROVE  AbstractQueue' = AbstractQueue
  <1>0. /\ HeldSlots \in 0 .. 1 /\ Occupied - HeldSlots \in Nat
        /\ Occupied \in 0 .. BufferSize
    BY HeldIs, OccupiedBounds
  <1>1. /\ AbstractQueue \in Seq(Int)
        /\ Len(AbstractQueue) = Occupied - HeldSlots
        /\ \A i \in 1 .. Occupied - HeldSlots :
              AbstractQueue[i] = Item(HeldSlots + i - 1)
    BY QueueIs DEF QueueOfItems
  <1>2. /\ AbstractQueue' \in Seq(Int)
        /\ Len(AbstractQueue') = Occupied - HeldSlots
        /\ \A i \in 1 .. Occupied - HeldSlots :
              AbstractQueue'[i] = Item(HeldSlots + i - 1)'
    BY QueueIsNext DEF QueueOfItems
  <1>3. ASSUME NEW i \in 1 .. Occupied - HeldSlots
        PROVE  AbstractQueue'[i] = AbstractQueue[i]
    <2>1. HeldSlots + i - 1 \in 0 .. Occupied - 1
      BY <1>0
    <2>2. PICK k \in 0 .. Occupied - 1 : k = HeldSlots + i - 1
      BY <2>1
    <2>3. Item(HeldSlots + i - 1)' = Item(k)'
      BY <2>2 DEF Item, ItemSlot
    <2> QED
      BY <2>2, <2>3, <1>1, <1>2
  <1> HIDE DEF AbstractQueue
  <1> QED
    BY <1>1, <1>2, <1>3, SeqEqual

(* One more item between the indexes is one more at the queue's end.       *)
LEMMA QueueGrows ==
    ASSUME IInv, IInv', Contents, Contents', Occupied' = Occupied + 1,
           HeldSlots' = HeldSlots, UNCHANGED <<transactions, read_index>>,
           Item(Occupied) \in Int
    PROVE  AbstractQueue' = Append(AbstractQueue, Item(Occupied))
  <1>0. /\ HeldSlots \in 0 .. 1 /\ Occupied - HeldSlots \in Nat
        /\ Occupied \in Int
    BY HeldIs, OccupiedBounds, SizeAssumption
  <1>1. /\ AbstractQueue \in Seq(Int)
        /\ Len(AbstractQueue) = Occupied - HeldSlots
        /\ \A i \in 1 .. Occupied - HeldSlots :
              AbstractQueue[i] = Item(HeldSlots + i - 1)
    BY QueueIs DEF QueueOfItems
  <1>2. /\ AbstractQueue' \in Seq(Int)
        /\ Len(AbstractQueue') = Occupied + 1 - HeldSlots
        /\ \A i \in 1 .. Occupied + 1 - HeldSlots :
              AbstractQueue'[i] = Item(HeldSlots + i - 1)'
    <2>1. QueueOfItems'
      BY QueueIsNext
    <2>2. Occupied' - HeldSlots' = Occupied + 1 - HeldSlots
      BY <1>0
    <2> QED
      BY <2>1, <2>2, Zenon DEF QueueOfItems
  <1>3. \A k : Item(k)' = Item(k)
    BY ItemsKept
  <1> HIDE DEF AbstractQueue
  <1> DEFINE q == Append(AbstractQueue, Item(Occupied))
  <1>4. /\ q \in Seq(Int) /\ Len(q) = Occupied + 1 - HeldSlots
        /\ \A i \in 1 .. Occupied - HeldSlots : q[i] = AbstractQueue[i]
        /\ q[Occupied - HeldSlots + 1] = Item(Occupied)
    BY <1>0, <1>1, AppendProperties
  <1> HIDE DEF q
  <1>5. ASSUME NEW i \in 1 .. Occupied + 1 - HeldSlots
        PROVE  AbstractQueue'[i] = q[i]
    <2>1. AbstractQueue'[i] = Item(HeldSlots + i - 1)
      <3>1. AbstractQueue'[i] = Item(HeldSlots + i - 1)'
        BY <1>2
      <3>2. Item(HeldSlots + i - 1)' = Item(HeldSlots + i - 1)
        BY DEF Item, ItemSlot
      <3> QED
        BY <3>1, <3>2, Zenon
    <2>2. CASE i \in 1 .. Occupied - HeldSlots
      BY <2>1, <2>2, <1>1, <1>4
    <2>3. CASE i = Occupied - HeldSlots + 1
      <3>1. HeldSlots + i - 1 = Occupied
        BY <2>3, <1>0
      <3> QED
        BY <3>1, <2>1, <2>3, <1>4
    <2> QED
      BY <2>2, <2>3, <1>0
  <1>6. AbstractQueue' = q
    BY <1>2, <1>4, <1>5, SeqEqual
  <1> QED
    BY <1>6 DEF q

(* A consumer that comes to hold the first item takes it off the queue.    *)
LEMMA QueueShrinks ==
    ASSUME IInv, IInv', Contents, Contents', Occupied' = Occupied,
           Occupied > 0, HeldSlots = 0, HeldSlots' = 1,
           UNCHANGED <<transactions, read_index>>
    PROVE  /\ AbstractQueue # << >>
           /\ Head(AbstractQueue) = transactions[read_index]
           /\ AbstractQueue' = Tail(AbstractQueue)
  <1>0. Occupied \in Nat /\ read_index \in Slots
    BY OccupiedBounds, SizeAssumption DEF IInv, TypeOK
  <1>1. /\ AbstractQueue \in Seq(Int)
        /\ Len(AbstractQueue) = Occupied
        /\ \A i \in 1 .. Occupied : AbstractQueue[i] = Item(i - 1)
    <2>1. /\ AbstractQueue \in Seq(Int)
          /\ Len(AbstractQueue) = Occupied - 0
          /\ \A i \in 1 .. Occupied - 0 : AbstractQueue[i] = Item(0 + i - 1)
      BY QueueIs DEF QueueOfItems
    <2>2. Occupied - 0 = Occupied /\ \A i \in Int : 0 + i - 1 = i - 1
      BY <1>0
    <2> QED
      BY <2>1, <2>2
  <1>2. /\ AbstractQueue' \in Seq(Int)
        /\ Len(AbstractQueue') = Occupied - 1
        /\ \A i \in 1 .. Occupied - 1 : AbstractQueue'[i] = Item(1 + i - 1)'
    BY QueueIsNext DEF QueueOfItems
  <1>3. \A k : Item(k)' = Item(k)
    BY ItemsKept
  <1> HIDE DEF AbstractQueue
  <1>4. AbstractQueue # << >>
    BY <1>0, <1>1, EmptySeq
  <1>5. Head(AbstractQueue) = transactions[read_index]
    <2>1. Head(AbstractQueue) = AbstractQueue[1]
      BY <1>1, <1>4
    <2>2. AbstractQueue[1] = Item(1 - 1) /\ 1 - 1 = 0
      BY <1>0, <1>1
    <2> QED
      BY <2>1, <2>2, <1>0, FirstItem DEF Item
  <1> DEFINE q == Tail(AbstractQueue)
  <1>6. /\ q \in Seq(Int) /\ Len(q) = Occupied - 1
        /\ \A i \in 1 .. Occupied - 1 : q[i] = AbstractQueue[i + 1]
    BY <1>1, <1>4, HeadTailProperties
  <1> HIDE DEF q
  <1>7. ASSUME NEW i \in 1 .. Occupied - 1
        PROVE  AbstractQueue'[i] = q[i]
    <2>1. 1 + i - 1 = i /\ i + 1 - 1 = i /\ i + 1 \in 1 .. Occupied
      BY <1>0
    <2>2. Item(1 + i - 1)' = Item(1 + i - 1)
      BY DEF Item, ItemSlot
    <2>3. AbstractQueue[i + 1] = Item(i + 1 - 1)
      BY <2>1, <1>1
    <2>4. AbstractQueue'[i] = Item(1 + i - 1)
      BY <2>2, <1>2
    <2> QED
      BY <2>1, <2>3, <2>4, <1>6
  <1>8. AbstractQueue' = q
    BY <1>2, <1>6, <1>7, SeqEqual
  <1> QED
    BY <1>4, <1>5, <1>8 DEF q

(* Passing over the slot of an item that is held leaves the queue alone.   *)
LEMMA QueuePassed ==
    ASSUME IInv, IInv', Contents, Contents', Occupied' = Occupied - 1,
           HeldSlots = 1, HeldSlots' = 0, transactions' = transactions,
           read_index' = NextIndex(read_index)
    PROVE  AbstractQueue' = AbstractQueue
  <1>0. /\ Occupied \in 1 .. BufferSize /\ read_index \in Slots
        /\ BufferSize \in Nat
    BY HeldIs, OccupiedBounds, SizeAssumption DEF IInv, TypeOK
  <1>1. /\ AbstractQueue \in Seq(Int)
        /\ Len(AbstractQueue) = Occupied - 1
        /\ \A i \in 1 .. Occupied - 1 : AbstractQueue[i] = Item(1 + i - 1)
    BY QueueIs DEF QueueOfItems
  <1>2. /\ AbstractQueue' \in Seq(Int)
        /\ Len(AbstractQueue') = Occupied - 1 - 0
        /\ \A i \in 1 .. Occupied - 1 - 0 :
              AbstractQueue'[i] = Item(0 + i - 1)'
    BY QueueIsNext DEF QueueOfItems
  <1>3. Occupied - 1 - 0 = Occupied - 1
    BY <1>0
  <1> HIDE DEF AbstractQueue
  <1>4. ASSUME NEW i \in 1 .. Occupied - 1
        PROVE  AbstractQueue'[i] = AbstractQueue[i]
    <2>1. PICK k \in 0 .. BufferSize - 1 : k = 0 + i - 1
      BY <1>0
    <2>2. ItemSlot(k)' = ItemSlot(k + 1)
      BY <1>0, ItemsShift
    <2>3. k + 1 = 1 + i - 1
      BY <2>1
    <2>4. Item(0 + i - 1)' = Item(k)'
      BY <2>1 DEF Item, ItemSlot
    <2>5. Item(k)' = Item(k + 1)
      BY <2>2 DEF Item
    <2> QED
      BY <2>3, <2>4, <2>5, <1>1, <1>2, <1>3
  <1> QED
    BY <1>1, <1>2, <1>3, <1>4, SeqEqual

(* The held slots stay while the consumers that hold one stay.             *)
LEMMA HeldKept ==
    ASSUME \A c \in Consumers : HoldsItem(c)' <=> HoldsItem(c)
    PROVE  HeldSlots' = HeldSlots
  <1>1. At(Consumers, {"store", "advance_r"})' = At(Consumers, {"store", "advance_r"})
    BY DEF At, HoldsItem
  <1> QED
    BY <1>1 DEF HeldSlots

(* Nothing that the abstract queue shows has changed.                      *)
LEMMA QueueStutters ==
    ASSUME AbstractQueue' = AbstractQueue, deposit' = deposit,
           \A c \in Consumers : TakenBy(c)' = TakenBy(c)
    PROVE  UNCHANGED Queue!vars
  <1>1. AbstractTaken' = AbstractTaken
    BY TakenIs
  <1> QED
    BY <1>1 DEF Queue!vars

-----------------------------------------------------------------------------
(* Every step is a step of the abstract queue, or none.                    *)

(* A producer puts its transaction in when it advances write_index.        *)
LEMMA ProducerRefines ==
    ASSUME IInv, IInv', Contents, Contents', NEW p \in Producers,
           ProducerStep(p)
    PROVE  /\ ~AdvanceWrite(p) => UNCHANGED Queue!vars
           /\ AdvanceWrite(p) => /\ Queue!Put
                                 /\ AbstractQueue' = Append(AbstractQueue, local[p])
  <1>0. /\ p \in Threads /\ p \notin Consumers /\ Consumers \subseteq Threads
        /\ pc \in [Threads -> ProducerPC \cup ConsumerPC]
        /\ local \in [Threads -> Int] /\ TypeOK /\ read_index \in Slots
        /\ Occupied \in 0 .. BufferSize /\ BufferSize \in Nat
    BY ThreadAssumption, OccupiedBounds, SizeAssumption
    DEF Threads, IInv, TypeOK
  <1>1. /\ UNCHANGED <<read_index, deposit>>
        /\ \A c \in Consumers : pc'[c] = pc[c] /\ local'[c] = local[c]
    BY <1>0 DEF ProducerStep, Produce, WaitEmpty, WaitWrite, WriteItem,
                AdvanceWrite, PostWrite, PostFill, Goto
  <1>2. transactions' = transactions \/ WriteItem(p)
    BY DEF ProducerStep, Produce, WaitEmpty, WaitWrite, AdvanceWrite,
           PostWrite, PostFill
  <1>3. \A k \in 0 .. Occupied - 1 : Item(k)' = Item(k)
    BY <1>1, <1>2, ItemsKept, WriteKeepsItems
  <1>4. HeldSlots' = HeldSlots
    BY <1>1, HeldKept DEF HoldsItem
  <1>5. ASSUME NEW c \in Consumers PROVE TakenBy(c)' = TakenBy(c)
    <2>1. CASE pc[c] = "store"
      <3>1. 0 \in 0 .. Occupied - 1
        BY <2>1, <1>0, OccupiedBounds DEF Reading
      <3>2. Item(0)' = Item(0)
        BY <3>1, <1>3
      <3>3. ItemSlot(0) = read_index /\ ItemSlot(0)' = read_index
        BY <1>0, <1>1, FirstItem DEF ItemSlot
      <3>4. transactions'[read_index'] = transactions[read_index]
        BY <3>2, <3>3, <1>1 DEF Item
      <3> QED
        BY <3>4, <2>1, <1>1 DEF TakenBy
    <2>2. CASE pc[c] # "store"
      BY <2>2, <1>1 DEF TakenBy
    <2> QED
      BY <2>1, <2>2
  <1>6. CASE ~AdvanceWrite(p)
    <2>1. Occupied' = Occupied
      BY <1>6, <1>0, ProducerOccupied
    <2>2. AbstractQueue' = AbstractQueue
      BY <2>1, <1>1, <1>3, <1>4, QueueKept
    <2> QED
      BY <2>2, <1>1, <1>5, <1>6, QueueStutters
  <1>7. CASE AdvanceWrite(p)
    <2>1. pc[p] = "advance_w" /\ transactions' = transactions
      BY <1>7 DEF AdvanceWrite, Goto
    <2>2. Occupied' = Occupied + 1
      BY <1>7, <1>0, ProducerOccupied
    <2>3. Occupied < BufferSize /\ write_index = ItemSlot(Occupied)
      BY <2>1, OccupiedBounds DEF Writing
    <2>4. Item(Occupied) \in Amounts /\ Item(Occupied) = local[p]
      BY <2>1, <2>3 DEF Item, Contents, ProducersReady
    <2>5. AbstractQueue' = Append(AbstractQueue, Item(Occupied))
      BY <2>1, <2>2, <2>4, <1>1, <1>4, AmountsAreInts, QueueGrows
    <2>6. Len(AbstractQueue) < BufferSize
      <3>1. /\ Len(AbstractQueue) = Occupied - HeldSlots
            /\ HeldSlots \in 0 .. 1
        BY QueueIs, HeldIs DEF QueueOfItems
      <3> QED
        BY <3>1, <2>3, <1>0
    <2>7. AbstractTaken' = AbstractTaken
      BY <1>5, TakenIs
    <2>8. Queue!Put
      BY <2>4, <2>5, <2>6, <2>7, <1>1 DEF Queue!Put
    <2> QED
      BY <2>4, <2>5, <2>8, <1>7
  <1> QED
    BY <1>6, <1>7

(* A consumer takes an item when it loads it and applies it when it stores *)
(* to deposit.                                                             *)
LEMMA ConsumerRefines ==
    ASSUME IInv, IInv', Contents, Contents', NEW c \in Consumers,
           ConsumerStep(c)
    PROVE  Queue!Take(c) \/ Queue!Apply(c) \/ UNCHANGED Queue!vars
  <1>0. /\ c \in Threads /\ Consumers \subseteq Threads
        /\ pc \in [Threads -> ProducerPC \cup ConsumerPC]
        /\ local \in [Threads -> Int] /\ TypeOK /\ read_index \in Slots
        /\ Occupied \in 0 .. BufferSize /\ BufferSize \in Nat
    BY ThreadAssumption, OccupiedBounds, SizeAssumption
    DEF Threads, IInv, TypeOK
  <1>u. /\ transactions' = transactions
        /\ \A d \in Consumers : d # c => pc'[d] = pc[d] /\ local'[d] = local[d]
    BY <1>0 DEF ConsumerStep, WaitFill, WaitRead, LoadItem, LoadSum, StoreSum,
                AdvanceRead, PostRead, PostEmpty, ApplyItem, Goto
  <1>r. \A d \in Consumers : Reading(c) /\ HoldsItem(d) => d = c
    BY DEF IInv, MutexesHeld, InReadSection, Reading, HoldsItem
  <1>h. /\ (\E d \in Consumers : HoldsItem(d)) => HeldSlots = 1
        /\ (\A d \in Consumers : ~HoldsItem(d)) => HeldSlots = 0
        /\ (\E d \in Consumers : HoldsItem(d)') => HeldSlots' = 1
        /\ (\A d \in Consumers : ~HoldsItem(d)') => HeldSlots' = 0
    BY HeldIs, HeldIsNext DEF OneHolds
  <1>t. ASSUME read_index' = read_index
        PROVE  \A d \in Consumers : d # c => TakenBy(d)' = TakenBy(d)
    BY <1>t, <1>u DEF TakenBy
  <1>q. ASSUME read_index' = read_index, ~AdvanceRead(c),
               HoldsItem(c)' <=> HoldsItem(c)
        PROVE  AbstractQueue' = AbstractQueue
    <2>1. Occupied' = Occupied
      BY <1>q, <1>0, ConsumerOccupied
    <2>2. HeldSlots' = HeldSlots
      BY <1>q, <1>u, HeldKept DEF HoldsItem
    <2> QED
      BY <2>1, <2>2, <1>q, <1>u, ItemsKept, QueueKept
  <1>1. CASE WaitFill(c) \/ WaitRead(c) \/ PostRead(c) \/ PostEmpty(c)
    <2>1. /\ UNCHANGED <<read_index, deposit, local>> /\ ~AdvanceRead(c)
          /\ pc[c] \notin {"store", "advance_r"}
          /\ pc'[c] \notin {"store", "advance_r"}
      BY <1>1, <1>0 DEF WaitFill, WaitRead, PostRead, PostEmpty, AdvanceRead,
                        Goto
    <2>2. ~ReadMutex => (pc'[c] \in {"post_empty", "apply"} <=>
                         pc[c] \in {"post_empty", "apply"})
      BY <1>1, <1>0
      DEF WaitFill, WaitRead, PostRead, PostEmpty, Goto, IInv, MutexesHeld
    <2>3. AbstractQueue' = AbstractQueue
      BY <2>1, <1>q DEF HoldsItem
    <2>4. TakenBy(c)' = TakenBy(c)
      BY <2>1, <2>2 DEF TakenBy
    <2> QED
      BY <2>1, <2>3, <2>4, <1>t, QueueStutters
  <1>2. CASE LoadItem(c) \/ LoadSum(c)
    <2>1. /\ pc[c] = "load" /\ UNCHANGED <<read_index, deposit>>
          /\ ~AdvanceRead(c)
          /\ \/ ReadMutex /\ pc'[c] = "store"
             \/ /\ ~ReadMutex /\ pc'[c] = "advance_r"
                /\ local'[c] = transactions[read_index]
      BY <1>2, <1>0 DEF LoadItem, LoadSum, AdvanceRead, Goto
    <2>2. HeldSlots = 0 /\ HeldSlots' = 1
      BY <2>1, <1>r, <1>h DEF Reading, HoldsItem
    <2>3. Occupied' = Occupied /\ Occupied > 0
      BY <2>1, <1>0, ConsumerOccupied, OccupiedBounds DEF Reading
    <2>4. /\ AbstractQueue # << >>
          /\ Head(AbstractQueue) = transactions[read_index]
          /\ AbstractQueue' = Tail(AbstractQueue)
      BY <2>1, <2>2, <2>3, <1>u, QueueShrinks
    <2>5. TakenBy(c) = 0 /\ TakenBy(c)' = transactions[read_index]
      BY <2>1, <1>u DEF TakenBy
    <2>6. /\ AbstractTaken[c] = 0
          /\ AbstractTaken' = [AbstractTaken EXCEPT ![c] = Head(AbstractQueue)]
      BY <2>1, <2>4, <2>5, <1>t, TakenIs
    <2>7. Queue!Take(c)
      BY <2>1, <2>4, <2>6 DEF Queue!Take
    <2> QED
      BY <2>7
  <1>3. CASE StoreSum(c)
    <2>1. /\ pc[c] = "store" /\ pc'[c] = "advance_r" /\ deposit' = local[c]
          /\ read_index' = read_index /\ ~AdvanceRead(c)
      BY <1>3, <1>0 DEF StoreSum, AdvanceRead, Goto
    <2>2. ReadMutex
      BY <2>1 DEF IInv, MutexesHeld
    <2>3. AbstractQueue' = AbstractQueue
      BY <2>1, <1>q DEF HoldsItem
    <2>4. TakenBy(c) = transactions[read_index] /\ TakenBy(c)' = 0
      BY <2>1, <2>2 DEF TakenBy
    <2>5. transactions[read_index] \in Amounts
      <3>1. 0 \in 0 .. Occupied - 1
        BY <2>1, <1>0, OccupiedBounds DEF Reading
      <3> QED
        BY <3>1, <1>0, FirstItem DEF Contents, ItemsValid, Item
    <2>6. deposit' = (deposit + transactions[read_index]) % Modulus
      BY <2>1 DEF Contents, ConsumersReady, Add
    <2>7. /\ AbstractTaken[c] = transactions[read_index]
          /\ AbstractTaken' = [AbstractTaken EXCEPT ![c] = 0]
      BY <2>1, <2>4, <1>t, TakenIs
    <2>8. Queue!Apply(c)
      BY <2>3, <2>5, <2>6, <2>7, AmountsNotZero DEF Queue!Apply
    <2> QED
      BY <2>8
  <1>4. CASE AdvanceRead(c)
    <2>1. /\ pc[c] = "advance_r"
          /\ pc'[c] = IF ReadMutex THEN "post_read" ELSE "post_empty"
          /\ read_index' = NextIndex(read_index) /\ UNCHANGED <<local, deposit>>
      BY <1>4, <1>0 DEF AdvanceRead, Goto
    <2>2. \A d \in Consumers : d # c => ~HoldsItem(d) /\ ~HoldsItem(d)'
      BY <2>1, <1>r, <1>u DEF Reading, HoldsItem
    <2>3. HeldSlots = 1 /\ HeldSlots' = 0
      <3>1. HoldsItem(c) /\ ~HoldsItem(c)'
        BY <2>1 DEF HoldsItem
      <3> QED
        BY <3>1, <2>2, <1>h
    <2>4. Occupied' = Occupied - 1
      BY <1>4, <1>0, ConsumerOccupied
    <2>5. AbstractQueue' = AbstractQueue
      BY <2>1, <2>3, <2>4, <1>u, QueuePassed
    <2>6. \A d \in Consumers : TakenBy(d)' = TakenBy(d)
      BY <2>1, <2>2, <1>u DEF TakenBy, HoldsItem
    <2> QED
      BY <2>1, <2>5, <2>6, QueueStutters
  <1>5. CASE ApplyItem(c)
    <2>1. /\ pc[c] = "apply" /\ pc'[c] = "wait_fill"
          /\ deposit' = (deposit + local[c]) % Modulus
          /\ read_index' = read_index /\ ~AdvanceRead(c)
      BY <1>5, <1>0 DEF ApplyItem, AdvanceRead, Goto, Add
    <2>2. ~ReadMutex
      BY <2>1 DEF IInv, MutexesHeld
    <2>3. AbstractQueue' = AbstractQueue
      BY <2>1, <1>q DEF HoldsItem
    <2>4. TakenBy(c) = local[c] /\ TakenBy(c)' = 0
      BY <2>1, <2>2 DEF TakenBy
    <2>5. local[c] \in Amounts
      BY <2>1, <2>2 DEF Contents, ConsumersReady
    <2>6. /\ AbstractTaken[c] = local[c]
          /\ AbstractTaken' = [AbstractTaken EXCEPT ![c] = 0]
      BY <2>1, <2>4, <1>t, TakenIs
    <2>7. Queue!Apply(c)
      BY <2>1, <2>3, <2>5, <2>6, AmountsNotZero DEF Queue!Apply
    <2> QED
      BY <2>7
  <1> QED
    BY <1>1, <1>2, <1>3, <1>4, <1>5 DEF ConsumerStep

(* The steps of main show nothing.                                         *)
LEMMA MainRefines ==
    ASSUME IInv, IInv', Contents, Contents',
           UNCHANGED <<transactions, read_index, deposit, local>>,
           Occupied' = Occupied,
           \A t \in Threads :
              \/ pc'[t] = pc[t]
              \/ pc[t] = "unborn" /\ pc'[t] \in {"produce", "wait_fill"}
    PROVE  UNCHANGED Queue!vars
  <1>1. HeldSlots' = HeldSlots
    BY HeldKept DEF HoldsItem, Threads
  <1>2. AbstractQueue' = AbstractQueue
    BY <1>1, ItemsKept, QueueKept
  <1>3. \A c \in Consumers : TakenBy(c)' = TakenBy(c)
    BY DEF TakenBy, Threads
  <1> QED
    BY <1>2, <1>3, QueueStutters

(* So every step is one of the queue, or shows nothing.                    *)
LEMMA StepRefines ==
    ASSUME IInv, IInv', Contents, Contents', [Next]_vars
    PROVE  [Queue!Next]_(Queue!vars)
  <1>1. TypeOK
    BY DEF IInv
  <1>2. ASSUME NEW p \in Producers, ProducerStep(p)
        PROVE  Queue!Put \/ UNCHANGED Queue!vars
    BY <1>2, ProducerRefines
  <1>3. ASSUME NEW c \in Consumers, ConsumerStep(c)
        PROVE  \/ \E d \in Consumers : Queue!Take(d) \/ Queue!Apply(d)
               \/ UNCHANGED Queue!vars
    BY <1>3, ConsumerRefines
  <1>4. \/ Queue!Put
        \/ \E c \in Consumers : Queue!Take(c) \/ Queue!Apply(c)
        \/ UNCHANGED Queue!vars
    BY <1>1, <1>2, <1>3, MainRefines, OtherSteps
  <1> QED
    BY <1>4 DEF Queue!Next

(* An empty buffer is an empty queue.                                      *)
LEMMA InitRefines == Init => Queue!Init
  <1> SUFFICES ASSUME Init PROVE Queue!Init
    OBVIOUS
  <1>1. IInv /\ Contents
    BY InitIInv, InitContents
  <1>2. Written = {} /\ Claimed = {} /\ At(Consumers, {"store", "advance_r"}) = {}
    BY DEF Init, Threads, Written, Claimed, At, WrittenPC, ClaimedPC
  <1>3. Occupied = 0 /\ HeldSlots = 0
    BY <1>2, FS_EmptySet DEF Occupied, HeldSlots, Init
  <1>4. AbstractQueue \in Seq(Int) /\ Len(AbstractQueue) = 0
    BY <1>1, <1>3, QueueIs DEF QueueOfItems
  <1>5. AbstractQueue = << >>
    BY <1>4, EmptySeq
  <1>6. \A c \in Consumers : TakenBy(c) = 0
    BY DEF Init, TakenBy, Threads
  <1>7. AbstractTaken = [c \in Consumers |-> 0]
    BY <1>6, TakenIs
  <1> QED
    BY <1>5, <1>7 DEF Queue!Init, Init

-----------------------------------------------------------------------------
(* The four programs of lab05 implement the bounded FIFO queue, for any    *)
(* number of threads, any BUFFER_SIZE and any width of deposit: items are  *)
(* taken in the order they were put, each by one consumer, and each is     *)
(* added to the deposit once.                                              *)
THEOREM BufferIsAQueue == Spec => ImplementsQueue
  <1>1. Spec => []IInv
    BY Invariance
  <1>2. Spec => [](IInv /\ Contents)
    BY <1>1, InitContents, NextContents, PTL DEF Spec
  <1>3. IInv /\ Contents /\ (IInv /\ Contents)' /\ [Next]_vars
           => [Queue!Next]_(Queue!vars)
    BY StepRefines
  <1> QED
    BY <1>2, <1>3, InitRefines, PTL DEF Spec, ImplementsQueue, Queue!Spec

-----------------------------------------------------------------------------
(* The reports.                                                            *)

(* What % makes of the quotient and the remainder.                         *)
LEMMA ModOf ==
    ASSUME NEW n \in Nat \ {0}, NEW q \in Nat, NEW r \in 0 .. n - 1
    PROVE  (n * q + r) % n = r
  OBVIOUS

(* The remainder grows with the number and starts again at n.              *)
LEMMA ModSuccessor ==
    ASSUME NEW n \in Nat \ {0}, NEW i \in Nat
    PROVE  /\ i % n \in 0 .. n - 1
           /\ (i + 1) % n = IF (i % n) + 1 = n THEN 0 ELSE (i % n) + 1
  <1>1. PICK q \in Nat, r \in 0 .. n - 1 : i = n * q + r /\ r = i % n
    <2>1. /\ i = n * (i \div n) + (i % n)
          /\ i \div n \in Nat /\ i % n \in 0 .. n - 1
      OBVIOUS
    <2> QED
      BY <2>1
  <1>2. CASE r + 1 = n
    <2>1. i + 1 = n * (q + 1) + 0 /\ q + 1 \in Nat /\ 0 \in 0 .. n - 1
      BY <1>1, <1>2
    <2>2. (n * (q + 1) + 0) % n = 0
      BY <2>1, ModOf
    <2>3. (i + 1) % n = 0
      BY <2>1, <2>2, Zenon
    <2> QED
      BY <1>1, <1>2, <2>3
  <1>3. CASE r + 1 # n
    <2>1. i + 1 = n * q + (r + 1) /\ r + 1 \in 0 .. n - 1
      BY <1>1, <1>3
    <2>2. (n * q + (r + 1)) % n = r + 1
      BY <2>1, ModOf
    <2>3. (i + 1) % n = r + 1
      BY <2>1, <2>2, Zenon
    <2> QED
      BY <1>1, <1>3, <2>3
  <1> QED
    BY <1>2, <1>3

(* sinceReport counts the settled transactions since the last multiple of  *)
(* ten.  With one consumer read_index is ahead of them by one from         *)
(* AdvanceRead until ApplyItem.                                            *)
Unsettled == ~ReadMutex /\ \E c \in Consumers : pc[c] \in {"post_empty", "apply"}
SinceReport(i) == sinceReport = i % ReportEvery
Reports == /\ ReportSpans
           /\ ~Unsettled => SinceReport(read_index)
           /\ Unsettled => \E i \in Slots : /\ read_index = NextIndex(i)
                                            /\ SinceReport(i)

(* One transaction more is settled, at the end of the buffer or before.    *)
LEMMA ReportStep ==
    ASSUME NEW i \in Slots, SinceReport(i), ReportSpans, Report(NextIndex(i))
    PROVE  /\ ReportSpans'
           /\ sinceReport' = NextIndex(i) % ReportEvery
  <1>0. /\ i \in Nat /\ BufferSize \in Nat \ {0} /\ ReportEvery \in Nat \ {0}
    BY SizeAssumption DEF Slots
  <1>1. PICK j \in Nat : j = NextIndex(i)
    BY NextIndexWraps DEF Slots
  <1>2. j = IF i + 1 = BufferSize THEN 0 ELSE i + 1
    BY <1>1, NextIndexWraps
  <1>3. PICK s \in 0 .. ReportEvery - 1 : s = i % ReportEvery
    BY <1>0, ModSuccessor
  <1>4. (i + 1) % ReportEvery = IF s + 1 = ReportEvery THEN 0 ELSE s + 1
    BY <1>0, <1>3, ModSuccessor
  <1>5. sinceReport = s
    BY <1>3 DEF SinceReport
  <1>6. /\ j % ReportEvery = 0 => lastReport' = s + 1 /\ sinceReport' = 0
        /\ j % ReportEvery # 0 => sinceReport' = s + 1 /\ lastReport' = lastReport
    BY <1>1, <1>5 DEF Report
  <1>7. CASE i + 1 = BufferSize
    <2>1. j % ReportEvery = 0
      BY <1>0, <1>2, <1>7
    <2>2. BufferSize % ReportEvery = IF s + 1 = ReportEvery THEN 0 ELSE s + 1
      BY <1>4, <1>7
    <2>3. s + 1 \in {ReportEvery, BufferSize % ReportEvery}
      BY <2>2
    <2> QED
      BY <2>1, <2>3, <1>1, <1>6 DEF ReportSpans
  <1>8. CASE i + 1 # BufferSize
    <2>1. j % ReportEvery = IF s + 1 = ReportEvery THEN 0 ELSE s + 1
      BY <1>2, <1>4, <1>8
    <2>2. CASE s + 1 = ReportEvery
      BY <2>1, <2>2, <1>1, <1>6 DEF ReportSpans
    <2>3. CASE s + 1 # ReportEvery
      <3>1. s + 1 # 0
        OBVIOUS
      <3> QED
        BY <3>1, <2>1, <2>3, <1>1, <1>6 DEF ReportSpans
    <2> QED
      BY <2>2, <2>3
  <1> QED
    BY <1>7, <1>8

(* Before any report nothing is settled.                                   *)
LEMMA InitReports == Init => Reports
  <1> SUFFICES ASSUME Init PROVE Reports
    OBVIOUS
  <1>1. 0 % ReportEvery = 0
    BY SizeAssumption
  <1> QED
    BY <1>1 DEF Init, Reports, ReportSpans, Unsettled, SinceReport, Threads

(* A step that settles nothing and moves no index keeps the count.         *)
LEMMA ReportsKept ==
    ASSUME Reports, UNCHANGED <<read_index, sinceReport, lastReport>>,
           Unsettled' <=> Unsettled
    PROVE  Reports'
  BY DEF Reports, ReportSpans, SinceReport

(* A consumer counts a transaction between two reports.                    *)
LEMMA ConsumerReports ==
    ASSUME IInv, Reports, NEW c \in Consumers, ConsumerStep(c)
    PROVE  Reports'
  <1>0. /\ c \in Threads /\ Consumers \subseteq Threads
        /\ pc \in [Threads -> ProducerPC \cup ConsumerPC]
        /\ read_index \in Slots
    BY ThreadAssumption DEF Threads, IInv, TypeOK
  <1>u. \A d \in Consumers : d # c => pc'[d] = pc[d]
    BY <1>0 DEF ConsumerStep, WaitFill, WaitRead, LoadItem, LoadSum, StoreSum,
                AdvanceRead, PostRead, PostEmpty, ApplyItem, Goto
  <1>s. ~ReadMutex => \A d \in Consumers : d = c
    BY MutexAssumption
  <1>k. ReadMutex => ~Unsettled /\ ~Unsettled'
    BY DEF Unsettled
  <1>l. ~ReadMutex => /\ Unsettled <=> pc[c] \in {"post_empty", "apply"}
                      /\ Unsettled' <=> pc'[c] \in {"post_empty", "apply"}
    BY <1>s DEF Unsettled
  <1>1. CASE \/ WaitFill(c) \/ WaitRead(c) \/ LoadItem(c) \/ LoadSum(c)
             \/ StoreSum(c) \/ PostRead(c) \/ PostEmpty(c)
    <2>1. /\ UNCHANGED <<read_index, sinceReport, lastReport>>
          /\ ~ReadMutex => (pc'[c] \in {"post_empty", "apply"} <=>
                            pc[c] \in {"post_empty", "apply"})
      BY <1>1, <1>0
      DEF WaitFill, WaitRead, LoadItem, LoadSum, StoreSum, PostRead,
          PostEmpty, Goto, reports, IInv, MutexesHeld
    <2>2. Unsettled' <=> Unsettled
      BY <2>1, <1>k, <1>l
    <2> QED
      BY <2>1, <2>2, ReportsKept
  <1>2. CASE AdvanceRead(c) /\ ReadMutex
    <2>1. read_index' = NextIndex(read_index) /\ Report(NextIndex(read_index))
      BY <1>2 DEF AdvanceRead
    <2>2. SinceReport(read_index) /\ ReportSpans
      BY <1>2, <1>k DEF Reports
    <2>3. ReportSpans' /\ sinceReport' = NextIndex(read_index) % ReportEvery
      BY <2>1, <2>2, <1>0, ReportStep
    <2> QED
      BY <2>1, <2>3, <1>2, <1>k DEF Reports, SinceReport
  <1>3. CASE AdvanceRead(c) /\ ~ReadMutex
    <2>1. /\ read_index' = NextIndex(read_index)
          /\ UNCHANGED <<sinceReport, lastReport>>
          /\ pc[c] = "advance_r" /\ pc'[c] = "post_empty"
      BY <1>3, <1>0 DEF AdvanceRead, Goto, reports
    <2>2. ~Unsettled /\ Unsettled'
      BY <2>1, <1>3, <1>l
    <2> QED
      BY <2>1, <2>2, <1>0 DEF Reports, ReportSpans, SinceReport
  <1>4. CASE ApplyItem(c)
    <2>1. /\ pc[c] = "apply" /\ pc'[c] = "wait_fill"
          /\ read_index' = read_index /\ Report(read_index)
      BY <1>4, <1>0 DEF ApplyItem, Goto
    <2>2. ~ReadMutex
      BY <2>1 DEF IInv, MutexesHeld
    <2>3. Unsettled /\ ~Unsettled'
      BY <2>1, <2>2, <1>l
    <2>4. PICK i \in Slots : read_index = NextIndex(i) /\ SinceReport(i)
      BY <2>3 DEF Reports
    <2>5. ReportSpans' /\ sinceReport' = NextIndex(i) % ReportEvery
      BY <2>1, <2>4, ReportStep DEF Reports
    <2> QED
      BY <2>1, <2>3, <2>4, <2>5 DEF Reports, SinceReport
  <1> QED
    BY <1>1, <1>2, <1>3, <1>4 DEF ConsumerStep

(* Every step keeps the count between two reports.                         *)
LEMMA NextReports == IInv /\ Reports /\ [Next]_vars => Reports'
  <1> SUFFICES ASSUME IInv, Reports, [Next]_vars PROVE Reports'
    OBVIOUS
  <1>0. TypeOK
    BY DEF IInv
  <1>1. ASSUME NEW p \in Producers, ProducerStep(p) PROVE Reports'
    <2>1. \A c \in Consumers : c \in Threads /\ c # p
      BY ThreadAssumption DEF Threads
    <2>2. /\ UNCHANGED <<read_index, sinceReport, lastReport>>
          /\ \A c \in Consumers : pc'[c] = pc[c]
      BY <1>0, <1>1, <2>1
      DEF TypeOK, ProducerStep, Produce, WaitEmpty, WaitWrite, WriteItem,
          AdvanceWrite, PostWrite, PostFill, Goto, reports
    <2>3. Unsettled' <=> Unsettled
      BY <2>2 DEF Unsettled
    <2> QED
      BY <2>2, <2>3, ReportsKept
  <1>2. ASSUME UNCHANGED <<read_index, sinceReport, lastReport>>,
               \A t \in Threads :
                  \/ pc'[t] = pc[t]
                  \/ pc[t] = "unborn" /\ pc'[t] \in {"produce", "wait_fill"}
        PROVE  Reports'
    <2>1. Unsettled' <=> Unsettled
      BY <1>2 DEF Unsettled, Threads
    <2> QED
      BY <2>1, <1>2, ReportsKept
  <1> QED
    BY <1>0, <1>1, <1>2, ConsumerReports, OtherSteps

(* For every BUFFER_SIZE and every ReportEvery a report announces that     *)
(* many settled transactions, or what the wrap of read_index left.         *)
THEOREM ReportsSpan == Spec => []ReportSpans
  <1>1. Reports => ReportSpans
    BY DEF Reports
  <1> QED
    BY <1>1, Invariance, InitReports, NextReports, PTL DEF Spec

-----------------------------------------------------------------------------
(* Sums over finite sets.  The induction theorems of the library take the  *)
(* statement as an operator; here it is a set, of the numbers or of the    *)
(* subsets it holds for, so that each of these facts is proved by a set.   *)

(* Induction over the natural numbers for a set of them.                   *)
LEMMA NatSetInduction ==
    ASSUME NEW P, 0 \in P, \A n \in Nat : n \in P => n + 1 \in P
    PROVE  \A n \in Nat : n \in P
  <1> DEFINE Out == {n \in Nat : n \notin P}
  <1>1. CASE Out = {}
    BY <1>1
  <1>2. CASE Out # {}
    <2>1. PICK n \in Out : \A m \in Out : ~(<<m, n>> \in OpToRel(<, Nat))
      BY <1>2, NatLessThanWellFounded, WFMin
    <2>2. \A m \in Out : ~(m < n)
      BY <2>1 DEF OpToRel
    <2>3. n \in Nat /\ n \notin P
      BY <2>1
    <2>4. n # 0
      BY <2>3
    <2>5. n - 1 \in Nat /\ n - 1 < n /\ (n - 1) + 1 = n
      BY <2>3, <2>4
    <2>6. n - 1 \notin P
      BY <2>3, <2>5
    <2>7. n - 1 \in Out
      BY <2>5, <2>6
    <2> QED
      BY <2>2, <2>5, <2>7
  <1> QED
    BY <1>1, <1>2

(* Induction over the subsets of a finite set, for a set of them: by the   *)
(* number of elements.                                                     *)
LEMMA SubsetInduction ==
    ASSUME NEW S, IsFiniteSet(S), NEW P, {} \in P,
           \A T \in SUBSET S : T # {} /\ (\A x \in T : T \ {x} \in P) => T \in P
    PROVE  \A T \in SUBSET S : T \in P
  <1>1. \A T \in SUBSET S : IsFiniteSet(T) /\ Cardinality(T) \in Nat
    BY FS_Subset, FS_CardinalityType
  <1> DEFINE Q == {n \in Nat : \A T \in SUBSET S : Cardinality(T) = n => T \in P}
  <1>2. 0 \in Q
    BY <1>1, FS_EmptySet
  <1>3. ASSUME NEW n \in Nat, n \in Q
        PROVE  n + 1 \in Q
    <2> SUFFICES ASSUME NEW T \in SUBSET S, Cardinality(T) = n + 1
                 PROVE  T \in P
      OBVIOUS
    <2>1. T # {}
      <3>1. Cardinality({}) = 0 /\ n + 1 # 0
        BY FS_EmptySet
      <3> QED
        BY <3>1
    <2>2. ASSUME NEW x \in T PROVE T \ {x} \in P
      <3>1. Cardinality(T \ {x}) = n
        BY <1>1, FS_RemoveElement
      <3> QED
        BY <3>1, <1>3
    <2> QED
      BY <2>1, <2>2
  <1> HIDE DEF Q
  <1>4. \A n \in Nat : n \in Q
    BY <1>2, <1>3, NatSetInduction
  <1> QED
    BY <1>1, <1>4 DEF Q

Pick(T) == CHOOSE x \in T : TRUE

IsSum(g, f, S) ==
    g = [T \in SUBSET S |-> IF T = {} THEN 0 ELSE f[Pick(T)] + g[T \ {Pick(T)}]]

(* The recursion has a solution.                                           *)
LEMMA SumExists ==
    ASSUME NEW f, NEW S, IsFiniteSet(S)
    PROVE  \E g : IsSum(g, f, S)
  <1> DEFINE Small(n) == {T \in SUBSET S : Cardinality(T) <= n}
             Solves(g, n) == g = [T \in Small(n) |->
                IF T = {} THEN 0 ELSE f[Pick(T)] + g[T \ {Pick(T)}]]
             P == {n \in Nat : \E g : Solves(g, n)}
  <1>1. \A T \in SUBSET S :
           /\ IsFiniteSet(T) /\ Cardinality(T) \in Nat
           /\ Cardinality(T) <= Cardinality(S) /\ Cardinality(S) \in Nat
    BY FS_Subset, FS_CardinalityType
  <1>2. \A T \in SUBSET S : T # {} => /\ Pick(T) \in T
                                      /\ Cardinality(T \ {Pick(T)}) = Cardinality(T) - 1
    <2>1. \A T : T # {} => Pick(T) \in T
      BY DEF Pick
    <2> QED
      BY <2>1, <1>1, FS_RemoveElement
  <1>3. 0 \in P
    <2> DEFINE g == [T \in Small(0) |-> 0]
    <2>1. \A T \in Small(0) : T = {}
      BY <1>1, FS_EmptySet
    <2>2. Solves(g, 0)
      BY <2>1
    <2> QED
      BY <2>2
  <1>4. ASSUME NEW n \in Nat, n \in P
        PROVE  n + 1 \in P
    <2>1. PICK g : Solves(g, n)
      BY <1>4
    <2> DEFINE h == [T \in Small(n + 1) |->
                       IF T = {} THEN 0 ELSE f[Pick(T)] + g[T \ {Pick(T)}]]
    <2>2. ASSUME NEW T \in Small(n)
          PROVE  g[T] = h[T]
      <3>1. T \in Small(n + 1)
        BY <1>1
      <3>2. g[T] = IF T = {} THEN 0 ELSE f[Pick(T)] + g[T \ {Pick(T)}]
        BY <2>1
      <3> QED
        BY <3>1, <3>2
    <2>3. ASSUME NEW T \in Small(n + 1), T # {}
          PROVE  T \ {Pick(T)} \in Small(n)
      BY <2>3, <1>1, <1>2
    <2>4. Solves(h, n + 1)
      <3>1. \A T \in Small(n + 1) :
               (IF T = {} THEN 0 ELSE f[Pick(T)] + g[T \ {Pick(T)}])
                 = IF T = {} THEN 0 ELSE f[Pick(T)] + h[T \ {Pick(T)}]
        <4> HIDE DEF h
        <4> QED
          BY <2>2, <2>3
      <3> QED
        BY <3>1
    <2>5. \E k : Solves(k, n + 1)
      <3> HIDE DEF Solves, h
      <3> QED
        BY <2>4
    <2>6. n + 1 \in Nat
      OBVIOUS
    <2> QED
      BY <2>5, <2>6
  <1> HIDE DEF P
  <1>5. \A n \in Nat : n \in P
    BY <1>3, <1>4, NatSetInduction
  <1>6. Cardinality(S) \in P /\ Small(Cardinality(S)) = SUBSET S
    BY <1>1, <1>5
  <1>7. PICK g : Solves(g, Cardinality(S))
    BY <1>6 DEF P
  <1> QED
    BY <1>6, <1>7 DEF IsSum

\* The function that SumFunctionOnSet folds with.
Fold(f, S) == CHOOSE g : IsSum(g, f, S)

(* The sum of the library, as the value of that function.                  *)
LEMMA SumUnfold ==
    ASSUME NEW f, NEW S
    PROVE  SumFunctionOnSet(f, S) = Fold(f, S)[S]
  BY DEF SumFunctionOnSet, FoldFunctionOnSet, MapThenFoldSet, Fold, IsSum, Pick

(* What the function returns.                                              *)
LEMMA FoldIs ==
    ASSUME NEW f, NEW S, IsFiniteSet(S), NEW T \in SUBSET S
    PROVE  Fold(f, S)[T] =
              IF T = {} THEN 0 ELSE f[Pick(T)] + Fold(f, S)[T \ {Pick(T)}]
  <1>1. IsSum(Fold(f, S), f, S)
    BY SumExists DEF Fold
  <1> HIDE DEF Fold
  <1> QED
    BY <1>1 DEF IsSum

(* It does not depend on the set it was made for.                          *)
LEMMA FoldOn ==
    ASSUME NEW f, NEW S, IsFiniteSet(S), NEW R \in SUBSET S
    PROVE  Fold(f, S)[R] = SumFunctionOnSet(f, R)
  <1> DEFINE P == {T \in SUBSET R : Fold(f, S)[T] = Fold(f, R)[T]}
  <1>1. IsFiniteSet(R)
    BY FS_Subset
  <1>2. {} \in P
    BY <1>1, FoldIs
  <1>3. ASSUME NEW T \in SUBSET R, T # {}, \A x \in T : T \ {x} \in P
        PROVE  T \in P
    <2>1. Pick(T) \in T
      BY <1>3 DEF Pick
    <2>2. Fold(f, S)[T \ {Pick(T)}] = Fold(f, R)[T \ {Pick(T)}]
      BY <2>1, <1>3
    <2>3. T \in SUBSET S
      OBVIOUS
    <2>4. Fold(f, S)[T] = f[Pick(T)] + Fold(f, S)[T \ {Pick(T)}]
      <3>1. Fold(f, S)[T] =
              IF T = {} THEN 0 ELSE f[Pick(T)] + Fold(f, S)[T \ {Pick(T)}]
        BY <2>3, FoldIs
      <3> QED
        BY <3>1, <1>3
    <2>5. Fold(f, R)[T] = f[Pick(T)] + Fold(f, R)[T \ {Pick(T)}]
      BY <1>1, <1>3, FoldIs
    <2> QED
      BY <2>2, <2>4, <2>5
  <1> HIDE DEF P
  <1>4. \A T \in SUBSET R : T \in P
    BY <1>1, <1>2, <1>3, SubsetInduction
  <1>5. R \in P
    BY <1>4
  <1> QED
    BY <1>5, SumUnfold DEF P

(* The sum, one element at a time.                                         *)
LEMMA SumStep ==
    ASSUME NEW f, NEW S, IsFiniteSet(S)
    PROVE  /\ SumFunctionOnSet(f, {}) = 0
           /\ S # {} => /\ Pick(S) \in S
                        /\ SumFunctionOnSet(f, S) =
                             f[Pick(S)] + SumFunctionOnSet(f, S \ {Pick(S)})
  <1>1. SumFunctionOnSet(f, {}) = 0
    <2>1. {} \in SUBSET {} /\ IsFiniteSet({})
      BY FS_EmptySet
    <2>2. Fold(f, {})[{}] = 0
      BY <2>1, FoldIs
    <2> QED
      BY <2>2, SumUnfold
  <1>2. ASSUME S # {}
        PROVE  /\ Pick(S) \in S
               /\ SumFunctionOnSet(f, S) =
                    f[Pick(S)] + SumFunctionOnSet(f, S \ {Pick(S)})
    <2>1. Pick(S) \in S
      BY <1>2 DEF Pick
    <2>2. Fold(f, S)[S] = f[Pick(S)] + Fold(f, S)[S \ {Pick(S)}]
      BY <1>2, FoldIs
    <2>3. /\ Fold(f, S)[S] = SumFunctionOnSet(f, S)
          /\ Fold(f, S)[S \ {Pick(S)}] = SumFunctionOnSet(f, S \ {Pick(S)})
      BY FoldOn
    <2> QED
      BY <2>1, <2>2, <2>3
  <1> QED
    BY <1>1, <1>2

(* A sum of integers is an integer.                                        *)
LEMMA SumInt ==
    ASSUME NEW f, NEW S, IsFiniteSet(S), \A x \in S : f[x] \in Int
    PROVE  SumFunctionOnSet(f, S) \in Int
  <1> DEFINE P == {T \in SUBSET S : SumFunctionOnSet(f, T) \in Int}
  <1>1. {} \in P
    <2>1. SumFunctionOnSet(f, {}) = 0
      BY SumStep
    <2> QED
      BY <2>1
  <1>2. ASSUME NEW T \in SUBSET S, T # {}, \A x \in T : T \ {x} \in P
        PROVE  T \in P
    <2>1. IsFiniteSet(T)
      BY FS_Subset
    <2>2. /\ Pick(T) \in T
          /\ SumFunctionOnSet(f, T) = f[Pick(T)] + SumFunctionOnSet(f, T \ {Pick(T)})
      BY <2>1, <1>2, SumStep
    <2>3. T \ {Pick(T)} \in P /\ f[Pick(T)] \in Int
      BY <2>2, <1>2
    <2> QED
      BY <2>2, <2>3
  <1> HIDE DEF P
  <1>3. \A T \in SUBSET S : T \in P
    BY <1>1, <1>2, SubsetInduction
  <1>4. S \in P
    BY <1>3
  <1> QED
    BY <1>4 DEF P

(* Equal amounts have equal sums.                                          *)
LEMMA SumSame ==
    ASSUME NEW f, NEW g, NEW S, IsFiniteSet(S), \A x \in S : f[x] = g[x]
    PROVE  SumFunctionOnSet(f, S) = SumFunctionOnSet(g, S)
  <1> DEFINE P == {T \in SUBSET S : SumFunctionOnSet(f, T) = SumFunctionOnSet(g, T)}
  <1>1. {} \in P
    <2>1. SumFunctionOnSet(f, {}) = 0 /\ SumFunctionOnSet(g, {}) = 0
      BY SumStep
    <2> QED
      BY <2>1
  <1>2. ASSUME NEW T \in SUBSET S, T # {}, \A x \in T : T \ {x} \in P
        PROVE  T \in P
    <2>1. IsFiniteSet(T)
      BY FS_Subset
    <2>2. /\ Pick(T) \in T
          /\ SumFunctionOnSet(f, T) = f[Pick(T)] + SumFunctionOnSet(f, T \ {Pick(T)})
      BY <2>1, <1>2, SumStep
    <2>3. SumFunctionOnSet(g, T) = g[Pick(T)] + SumFunctionOnSet(g, T \ {Pick(T)})
      BY <2>1, <1>2, SumStep
    <2>4. T \ {Pick(T)} \in P /\ f[Pick(T)] = g[Pick(T)]
      BY <2>2, <1>2
    <2> QED
      BY <2>2, <2>3, <2>4
  <1> HIDE DEF P
  <1>3. \A T \in SUBSET S : T \in P
    BY <1>1, <1>2, SubsetInduction
  <1>4. S \in P
    BY <1>3
  <1> QED
    BY <1>4 DEF P

(* A sum can be taken apart at any element.                                *)
LEMMA SumAny ==
    ASSUME NEW f, NEW S, IsFiniteSet(S), \A x \in S : f[x] \in Int, NEW z \in S
    PROVE  SumFunctionOnSet(f, S) = f[z] + SumFunctionOnSet(f, S \ {z})
  <1> DEFINE Sum(T) == SumFunctionOnSet(f, T)
             P == {T \in SUBSET S : \A x \in T : Sum(T) = f[x] + Sum(T \ {x})}
  <1>i. \A T \in SUBSET S : Sum(T) \in Int
    <2> TAKE T \in SUBSET S
    <2>1. IsFiniteSet(T) /\ \A x \in T : f[x] \in Int
      BY FS_Subset
    <2> QED
      BY <2>1, SumInt
  <1>s. \A T \in SUBSET S : T # {} => /\ Pick(T) \in T
                                      /\ Sum(T) = f[Pick(T)] + Sum(T \ {Pick(T)})
    <2> TAKE T \in SUBSET S
    <2>1. IsFiniteSet(T)
      BY FS_Subset
    <2> QED
      BY <2>1, SumStep
  <1> HIDE DEF Sum
  <1>1. {} \in P
    OBVIOUS
  <1>2. ASSUME NEW T \in SUBSET S, T # {}, \A x \in T : T \ {x} \in P
        PROVE  T \in P
    <2> SUFFICES ASSUME NEW x \in T PROVE Sum(T) = f[x] + Sum(T \ {x})
      OBVIOUS
    <2>1. PICK y \in T : Sum(T) = f[y] + Sum(T \ {y})
      BY <1>2, <1>s
    <2>2. CASE x = y
      BY <2>1, <2>2
    <2>3. CASE x # y
      <3>1. Sum(T \ {y}) = f[x] + Sum((T \ {y}) \ {x})
        BY <1>2, <2>3
      <3>2. Sum(T \ {x}) = f[y] + Sum((T \ {x}) \ {y})
        BY <1>2, <2>3
      <3>3. (T \ {x}) \ {y} = (T \ {y}) \ {x} /\ (T \ {y}) \ {x} \in SUBSET S
        OBVIOUS
      <3>4. PICK r \in Int : r = Sum((T \ {y}) \ {x})
        BY <3>3, <1>i
      <3>5. f[x] \in Int /\ f[y] \in Int
        OBVIOUS
      <3>6. Sum(T \ {y}) = f[x] + r /\ Sum(T \ {x}) = f[y] + r
        BY <3>1, <3>2, <3>3, <3>4
      <3> QED
        BY <2>1, <3>5, <3>6
    <2> QED
      BY <2>2, <2>3
  <1> HIDE DEF P
  <1>3. \A T \in SUBSET S : T \in P
    BY <1>1, <1>2, SubsetInduction
  <1>4. S \in P
    BY <1>3
  <1> QED
    BY <1>4 DEF P, Sum

(* When one amount changes, the sum changes by the difference.             *)
LEMMA SumUpdate ==
    ASSUME NEW f, NEW g, NEW S, IsFiniteSet(S), NEW z \in S,
           \A x \in S : f[x] \in Int /\ g[x] \in Int,
           \A x \in S : x # z => g[x] = f[x]
    PROVE  SumFunctionOnSet(g, S) = SumFunctionOnSet(f, S) - f[z] + g[z]
  <1>1. SumFunctionOnSet(f, S) = f[z] + SumFunctionOnSet(f, S \ {z})
    BY SumAny
  <1>2. SumFunctionOnSet(g, S) = g[z] + SumFunctionOnSet(g, S \ {z})
    BY SumAny
  <1>3. IsFiniteSet(S \ {z})
    BY FS_Subset
  <1>4. SumFunctionOnSet(f, S \ {z}) = SumFunctionOnSet(g, S \ {z})
    BY <1>3, SumSame
  <1>5. SumFunctionOnSet(f, S \ {z}) \in Int
    BY <1>3, SumInt
  <1> QED
    BY <1>1, <1>2, <1>4, <1>5

-----------------------------------------------------------------------------
(* Sums over sequences.                                                    *)

(* The sum up to the next number.                                          *)
LEMMA SumInterval ==
    ASSUME NEW f, NEW k \in Nat, \A i \in 1 .. k + 1 : f[i] \in Int
    PROVE  SumFunctionOnSet(f, 1 .. k + 1) = f[k + 1] + SumFunctionOnSet(f, 1 .. k)
  <1>1. k + 1 \in 1 .. k + 1 /\ (1 .. k + 1) \ {k + 1} = 1 .. k
    OBVIOUS
  <1>2. IsFiniteSet(1 .. k + 1)
    BY FS_Interval
  <1>3. SumFunctionOnSet(f, 1 .. k + 1)
          = f[k + 1] + SumFunctionOnSet(f, (1 .. k + 1) \ {k + 1})
    BY <1>1, <1>2, SumAny
  <1> QED
    BY <1>1, <1>3

(* The indexes of a sequence are finitely many.                            *)
LEMMA SequenceSum ==
    ASSUME NEW s \in Seq(Int)
    PROVE  /\ SumFunction(s) = SumFunctionOnSet(s, 1 .. Len(s))
           /\ SumFunction(s) \in Int
           /\ \A n \in Nat : IsFiniteSet(1 .. n)
  <1>1. DOMAIN s = 1 .. Len(s) /\ Len(s) \in Nat /\ \A k \in 1 .. Len(s) : s[k] \in Int
    OBVIOUS
  <1>2. \A n \in Nat : IsFiniteSet(1 .. n)
    BY FS_Interval
  <1>3. SumFunction(s) = SumFunctionOnSet(s, 1 .. Len(s))
    BY <1>1 DEF SumFunction
  <1>4. SumFunctionOnSet(s, 1 .. Len(s)) \in Int
    BY <1>1, <1>2, SumInt
  <1> QED
    BY <1>2, <1>3, <1>4

(* An empty sequence has the sum 0.                                        *)
LEMMA SumEmpty == SumFunction(<< >>) = 0
  <1>1. DOMAIN << >> = {}
    OBVIOUS
  <1>2. IsFiniteSet({})
    BY FS_EmptySet
  <1> QED
    BY <1>1, <1>2, SumStep DEF SumFunction

(* Append adds its element to the sum.                                     *)
LEMMA SumAppend ==
    ASSUME NEW s \in Seq(Int), NEW a \in Int
    PROVE  SumFunction(Append(s, a)) = SumFunction(s) + a
  <1> DEFINE t == Append(s, a)  n == Len(s)
  <1>1. /\ t \in Seq(Int) /\ Len(t) = n + 1 /\ n \in Nat
        /\ t[n + 1] = a
        /\ \A k \in 1 .. n : t[k] = s[k]
    BY AppendProperties
  <1>2. \A k \in 1 .. n + 1 : t[k] \in Int
    BY <1>1
  <1> HIDE DEF t, n
  <1>4. IsFiniteSet(1 .. n)
    BY <1>1, SequenceSum
  <1>5. SumFunctionOnSet(t, 1 .. n + 1) = t[n + 1] + SumFunctionOnSet(t, 1 .. n)
    BY <1>1, <1>2, SumInterval
  <1>6. SumFunctionOnSet(t, 1 .. n) = SumFunctionOnSet(s, 1 .. n)
    BY <1>1, <1>4, SumSame
  <1>7. /\ SumFunction(t) = SumFunctionOnSet(t, 1 .. n + 1)
    BY <1>1, SequenceSum
  <1>8. SumFunction(s) = SumFunctionOnSet(s, 1 .. n) /\ SumFunction(s) \in Int
    BY SequenceSum DEF n
  <1>9. SumFunction(t) = SumFunction(s) + a
    BY <1>1, <1>5, <1>6, <1>7, <1>8
  <1> QED
    BY <1>9 DEF t

(* Tail takes the first element from the sum.                              *)
LEMMA SumTail ==
    ASSUME NEW s \in Seq(Int), s # << >>
    PROVE  SumFunction(s) = Head(s) + SumFunction(Tail(s))
  <1> DEFINE t == Tail(s)  n == Len(t)  h == Head(s)
             P == {k \in Nat : k <= n =>
                     SumFunctionOnSet(s, 1 .. k + 1)
                        = h + SumFunctionOnSet(t, 1 .. k)}
  <1>1. /\ t \in Seq(Int) /\ Len(s) = n + 1 /\ n \in Nat
        /\ s[1] = h /\ h \in Int
        /\ \A k \in 1 .. n : t[k] = s[k + 1]
        /\ \A k \in 1 .. n + 1 : s[k] \in Int
    <2>1. Len(s) \in Nat /\ Len(s) # 0
      BY EmptySeq
    <2>2. /\ t \in Seq(Int) /\ Len(t) = Len(s) - 1 /\ h = s[1] /\ h \in Int
          /\ \A k \in 1 .. Len(t) : t[k] = s[k + 1]
      BY HeadTailProperties
    <2> QED
      BY <2>1, <2>2
  <1>2. \A k \in Nat : IsFiniteSet(1 .. k)
    BY SequenceSum
  <1> HIDE DEF t, n, h
  <1>3. \A k \in Nat : k <= n =>
           SumFunctionOnSet(s, 1 .. k + 1) = s[k + 1] + SumFunctionOnSet(s, 1 .. k)
    <2> SUFFICES ASSUME NEW k \in Nat, k <= n
                 PROVE  SumFunctionOnSet(s, 1 .. k + 1)
                          = s[k + 1] + SumFunctionOnSet(s, 1 .. k)
      OBVIOUS
    <2>1. \A i \in 1 .. k + 1 : s[i] \in Int
      BY <1>1
    <2> QED
      BY <2>1, SumInterval
  <1>4. \A k \in Nat : k + 1 <= n =>
           SumFunctionOnSet(t, 1 .. k + 1) = t[k + 1] + SumFunctionOnSet(t, 1 .. k)
    <2> SUFFICES ASSUME NEW k \in Nat, k + 1 <= n
                 PROVE  SumFunctionOnSet(t, 1 .. k + 1)
                          = t[k + 1] + SumFunctionOnSet(t, 1 .. k)
      OBVIOUS
    <2>1. \A i \in 1 .. k + 1 : t[i] \in Int
      BY <1>1
    <2> QED
      BY <2>1, SumInterval
  <1>5. 0 \in P
    <2>1. SumFunctionOnSet(s, 1 .. 0) = 0 /\ SumFunctionOnSet(t, 1 .. 0) = 0
      <3>1. 1 .. 0 = {} /\ IsFiniteSet({})
        BY FS_EmptySet
      <3> QED
        BY <3>1, SumStep
    <2>2. SumFunctionOnSet(s, 1 .. 0 + 1) = s[0 + 1] + SumFunctionOnSet(s, 1 .. 0)
      <3>1. 0 \in Nat /\ 0 <= n
        BY <1>1
      <3> QED
        BY <3>1, <1>3
    <2>3. SumFunctionOnSet(s, 1 .. 0 + 1) = h + SumFunctionOnSet(t, 1 .. 0)
      BY <2>1, <2>2, <1>1
    <2> QED
      BY <2>3
  <1>6. ASSUME NEW k \in Nat, k \in P
        PROVE  k + 1 \in P
    <2> SUFFICES ASSUME k + 1 <= n
                 PROVE  SumFunctionOnSet(s, 1 .. (k + 1) + 1)
                          = h + SumFunctionOnSet(t, 1 .. k + 1)
      OBVIOUS
    <2>1. k <= n /\ k + 1 \in Nat /\ k + 1 \in 1 .. n
      BY <1>1
    <2>2. SumFunctionOnSet(s, 1 .. k + 1) = h + SumFunctionOnSet(t, 1 .. k)
      BY <1>6, <2>1
    <2>3. SumFunctionOnSet(s, 1 .. (k + 1) + 1)
            = s[(k + 1) + 1] + SumFunctionOnSet(s, 1 .. k + 1)
      BY <2>1, <1>3
    <2>4. SumFunctionOnSet(t, 1 .. k + 1) = t[k + 1] + SumFunctionOnSet(t, 1 .. k)
      BY <1>4
    <2>5. t[k + 1] = s[(k + 1) + 1] /\ t[k + 1] \in Int /\ h \in Int
      BY <2>1, <1>1
    <2>6. SumFunctionOnSet(t, 1 .. k) \in Int
      <3>1. \A i \in 1 .. k : t[i] \in Int
        BY <2>1, <1>1
      <3> QED
        BY <3>1, <1>2, SumInt
    <2> QED
      BY <2>2, <2>3, <2>4, <2>5, <2>6
  <1> HIDE DEF P
  <1>7. n \in P
    BY <1>1, <1>5, <1>6, NatSetInduction
  <1>8. SumFunctionOnSet(s, 1 .. n + 1) = h + SumFunctionOnSet(t, 1 .. n)
    BY <1>1, <1>7 DEF P
  <1>9. SumFunction(s) = SumFunctionOnSet(s, 1 .. n + 1)
    BY <1>1, SequenceSum
  <1>10. SumFunction(t) = SumFunctionOnSet(t, 1 .. n)
    BY <1>1, SequenceSum DEF n
  <1> QED
    BY <1>8, <1>9, <1>10 DEF t, h

(* Where nobody has anything the sum is 0.                                 *)
LEMMA SumZero ==
    ASSUME NEW f, NEW S, IsFiniteSet(S), \A x \in S : f[x] = 0
    PROVE  SumFunctionOnSet(f, S) = 0
  <1> DEFINE P == {T \in SUBSET S : SumFunctionOnSet(f, T) = 0}
  <1>1. {} \in P
    <2>1. SumFunctionOnSet(f, {}) = 0
      BY SumStep
    <2> QED
      BY <2>1
  <1>2. ASSUME NEW T \in SUBSET S, T # {}, \A x \in T : T \ {x} \in P
        PROVE  T \in P
    <2>1. IsFiniteSet(T)
      BY FS_Subset
    <2>2. /\ Pick(T) \in T
          /\ SumFunctionOnSet(f, T) = f[Pick(T)] + SumFunctionOnSet(f, T \ {Pick(T)})
      BY <2>1, <1>2, SumStep
    <2>3. T \ {Pick(T)} \in P /\ f[Pick(T)] = 0
      BY <2>2, <1>2
    <2> QED
      BY <2>2, <2>3
  <1> HIDE DEF P
  <1>3. \A T \in SUBSET S : T \in P
    BY <1>1, <1>2, SubsetInduction
  <1>4. S \in P
    BY <1>3
  <1> QED
    BY <1>4 DEF P
-----------------------------------------------------------------------------
(* The money.                                                              *)

(* The remainder of a sum does not depend on when it is taken.             *)
LEMMA ModSum ==
    ASSUME NEW n \in Nat \ {0}, NEW x \in Int, NEW y \in Int
    PROVE  ((x % n) + y) % n = (x + y) % n
  <1>1. PICK q \in Int, r \in 0 .. n - 1 : x = n * q + r /\ r = x % n
    <2>1. /\ x = n * (x \div n) + (x % n)
          /\ x \div n \in Int /\ x % n \in 0 .. n - 1
      OBVIOUS
    <2> QED
      BY <2>1
  <1>2. PICK k \in Int, s \in 0 .. n - 1 : r + y = n * k + s
    <2>1. PICK z \in Int : z = r + y
      OBVIOUS
    <2>2. /\ z = n * (z \div n) + (z % n)
          /\ z \div n \in Int /\ z % n \in 0 .. n - 1
      OBVIOUS
    <2> QED
      BY <2>1, <2>2
  <1>3. \A i \in Int : (n * i + s) % n = s
    OBVIOUS
  <1>4. (r + y) % n = s
    <2>1. (n * k + s) % n = s
      BY <1>3
    <2> QED
      BY <2>1, <1>2, Zenon
  <1>5. x + y = n * (q + k) + s /\ q + k \in Int
    <2>1. n * (q + k) = n * q + n * k
      OBVIOUS
    <2>2. PICK i \in Int, j \in Int : i = n * q /\ j = n * k
      OBVIOUS
    <2>3. x = i + r /\ r + y = j + s
      BY <1>1, <1>2, <2>2, Zenon
    <2>4. n * (q + k) = i + j
      BY <2>1, <2>2, Zenon
    <2> QED
      BY <2>3, <2>4
  <1>6. (x + y) % n = s
    <2>1. (n * (q + k) + s) % n = s
      BY <1>3, <1>5
    <2> QED
      BY <2>1, <1>5, Zenon
  <1> QED
    BY <1>1, <1>4, <1>6, Zenon

(* Two additions to an int wrap like one.                                  *)
LEMMA AddTwice ==
    ASSUME NEW b \in Int, NEW x \in Int, NEW y \in Int
    PROVE  Add(Add(b, x), y) = Add(b, x + y)
  <1>1. PICK c \in Int : c = b + x
    OBVIOUS
  <1>2. ((c % Modulus) + y) % Modulus = (c + y) % Modulus
    BY SizeAssumption, ModSum
  <1>3. c + y = b + (x + y)
    BY <1>1
  <1> QED
    BY <1>1, <1>2, <1>3, Zenon DEF Add

\* What is on its way from performRandomTransaction to the deposit.
OnTheWay == SumFunction(Hands) + SumFunction(AbstractQueue)
                               + SumFunction(AbstractTaken)

(* The three sums have integers to add.                                    *)
MoneyTypes ==
    /\ \A p \in Producers : Hands[p] \in Int
    /\ AbstractQueue \in Seq(Int)
    /\ \A c \in Consumers : AbstractTaken[c] \in Int
    /\ SumFunction(Hands) = SumFunctionOnSet(Hands, Producers)
    /\ SumFunction(AbstractTaken) = SumFunctionOnSet(AbstractTaken, Consumers)
    /\ SumFunction(Hands) \in Int
    /\ SumFunction(AbstractQueue) \in Int
    /\ SumFunction(AbstractTaken) \in Int
    /\ deposit \in Int /\ ledger \in Int

(* They do, with the type invariant and the contents of the buffer.        *)
LEMMA MoneyTyped ==
    ASSUME IInv, Contents
    PROVE  MoneyTypes
  <1>1. /\ local \in [Threads -> Int] /\ transactions \in [Slots -> Int]
        /\ read_index \in Slots /\ deposit \in Int /\ ledger \in Int
        /\ Producers \subseteq Threads /\ Consumers \subseteq Threads
    BY DEF IInv, TypeOK, Threads
  <1>2. \A p \in Producers : Hands[p] \in Int
    BY <1>1 DEF Hands, InHand
  <1>3. AbstractQueue \in Seq(Int)
    BY QueueIs DEF QueueOfItems
  <1>4. \A c \in Consumers : TakenBy(c) \in Int
    BY <1>1 DEF TakenBy
  <1>5. \A c \in Consumers : AbstractTaken[c] \in Int
    BY <1>4, TakenIs
  <1>6. DOMAIN Hands = Producers /\ DOMAIN AbstractTaken = Consumers
    BY TakenIs DEF Hands
  <1> HIDE DEF Hands, AbstractTaken, AbstractQueue
  <1>7. /\ SumFunction(Hands) = SumFunctionOnSet(Hands, Producers)
        /\ SumFunction(AbstractTaken) = SumFunctionOnSet(AbstractTaken, Consumers)
    BY <1>6 DEF SumFunction
  <1>8. /\ SumFunctionOnSet(Hands, Producers) \in Int
        /\ SumFunctionOnSet(AbstractTaken, Consumers) \in Int
    BY <1>2, <1>5, ThreadAssumption, SumInt
  <1>9. SumFunction(AbstractQueue) \in Int
    BY <1>3, SequenceSum
  <1> QED
    BY <1>1, <1>2, <1>3, <1>5, <1>7, <1>8, <1>9 DEF MoneyTypes

(* And after a step.                                                       *)
LEMMA MoneyTypedNext == IInv' /\ Contents' => MoneyTypes'
  <1>1. IInv /\ Contents => MoneyTypes
    BY MoneyTyped
  <1> QED
    BY <1>1, PTL

(* A step of one producer changes what that one has in hand.               *)
LEMMA HandMoves ==
    ASSUME MoneyTypes, MoneyTypes', NEW p \in Producers,
           \A q \in Producers : q # p => InHand(q)' = InHand(q)
    PROVE  SumFunction(Hands)' = SumFunction(Hands) - InHand(p) + InHand(p)'
  <1> DEFINE f == Hands  g == Hands'
  <1>1. /\ \A q \in Producers : f[q] \in Int /\ g[q] \in Int
        /\ SumFunction(Hands) = SumFunctionOnSet(f, Producers)
        /\ SumFunction(Hands)' = SumFunctionOnSet(g, Producers)
    BY DEF MoneyTypes
  <1>2. /\ f[p] = InHand(p) /\ g[p] = InHand(p)'
        /\ \A q \in Producers : q # p => g[q] = f[q]
    BY DEF Hands
  <1> HIDE DEF f, g
  <1>3. SumFunctionOnSet(g, Producers) = SumFunctionOnSet(f, Producers) - f[p] + g[p]
    BY <1>1, <1>2, ThreadAssumption, SumUpdate
  <1> QED
    BY <1>1, <1>2, <1>3

(* A step of one consumer changes what that one has taken.                 *)
LEMMA TakenMoves ==
    ASSUME MoneyTypes, MoneyTypes', NEW c \in Consumers, NEW a,
           AbstractTaken' = [AbstractTaken EXCEPT ![c] = a]
    PROVE  /\ a \in Int
           /\ SumFunction(AbstractTaken)'
                = SumFunction(AbstractTaken) - AbstractTaken[c] + a
  <1> DEFINE f == AbstractTaken  g == AbstractTaken'
  <1>1. /\ \A d \in Consumers : f[d] \in Int /\ g[d] \in Int
        /\ SumFunction(AbstractTaken) = SumFunctionOnSet(f, Consumers)
        /\ SumFunction(AbstractTaken)' = SumFunctionOnSet(g, Consumers)
    BY DEF MoneyTypes
  <1>2. DOMAIN f = Consumers
    BY TakenIs
  <1>3. g[c] = a /\ \A d \in Consumers : d # c => g[d] = f[d]
    BY <1>2
  <1> HIDE DEF f, g
  <1>4. SumFunctionOnSet(g, Consumers) = SumFunctionOnSet(f, Consumers) - f[c] + g[c]
    BY <1>1, <1>3, ThreadAssumption, SumUpdate
  <1> QED
    BY <1>1, <1>3, <1>4 DEF f

(* Nothing moves while neither hands nor queue change.                     *)
LEMMA MoneyStays ==
    ASSUME MoneyConserved, ledger' = ledger, UNCHANGED Queue!vars,
           \A p \in Producers : InHand(p)' = InHand(p)
    PROVE  MoneyConserved'
  <1>1. /\ AbstractQueue' = AbstractQueue /\ AbstractTaken' = AbstractTaken
        /\ deposit' = deposit
    BY DEF Queue!vars
  <1>2. Hands' = Hands
    BY DEF Hands
  <1> QED
    BY <1>1, <1>2 DEF MoneyConserved, Add

(* A producer adds to the ledger what it takes in hand, and puts what it   *)
(* has in hand into the queue.                                             *)
LEMMA ProducerConserves ==
    ASSUME IInv, IInv', Contents, Contents', MoneyConserved,
           NEW p \in Producers, ProducerStep(p)
    PROVE  MoneyConserved'
  <1>0. /\ p \in Threads /\ Producers \subseteq Threads
        /\ pc \in [Threads -> ProducerPC \cup ConsumerPC]
        /\ local \in [Threads -> Int]
    BY DEF Threads, IInv, TypeOK
  <1>t. MoneyTypes /\ MoneyTypes'
    BY MoneyTyped, MoneyTypedNext
  <1>u. \A q \in Producers : q # p => InHand(q)' = InHand(q)
    BY <1>0 DEF ProducerStep, Produce, WaitEmpty, WaitWrite, WriteItem,
                AdvanceWrite, PostWrite, PostFill, Goto, InHand
  <1>h. SumFunction(Hands)' = SumFunction(Hands) - InHand(p) + InHand(p)'
    BY <1>t, <1>u, HandMoves
  <1>1. CASE Produce(p)
    <2>1. PICK a \in Amounts : local' = [local EXCEPT ![p] = a] /\ ledger' = Add(ledger, a)
      BY <1>1 DEF Produce
    <2>2. pc[p] = "produce" /\ pc'[p] = "wait_empty"
      BY <1>1, <1>0 DEF Produce, Goto
    <2>3. InHand(p) = 0 /\ InHand(p)' = a /\ a \in Int
      BY <2>1, <2>2, <1>0, AmountsAreInts DEF InHand
    <2>4. UNCHANGED Queue!vars
      <3>1. ~AdvanceWrite(p)
        BY <2>2 DEF AdvanceWrite, Goto
      <3> QED
        BY <3>1, ProducerRefines
    <2>5. /\ AbstractQueue' = AbstractQueue /\ AbstractTaken' = AbstractTaken
          /\ deposit' = deposit
      BY <2>4 DEF Queue!vars
    <2>6. /\ SumFunction(AbstractQueue)' = SumFunction(AbstractQueue)
          /\ SumFunction(AbstractTaken)' = SumFunction(AbstractTaken)
      BY <2>5
    <2>7. OnTheWay \in Int /\ OnTheWay' = OnTheWay + a /\ deposit \in Int
      BY <2>3, <2>6, <1>h, <1>t DEF OnTheWay, MoneyTypes
    <2>8. ledger = Add(deposit, OnTheWay)
      BY DEF MoneyConserved, OnTheWay
    <2>9. ledger' = Add(deposit, OnTheWay + a)
      BY <2>1, <2>3, <2>7, <2>8, AddTwice
    <2>10. ledger' = Add(deposit', OnTheWay')
      BY <2>5, <2>7, <2>9
    <2> QED
      BY <2>10 DEF MoneyConserved, OnTheWay, Add
  <1>2. CASE AdvanceWrite(p)
    <2>1. /\ pc[p] = "advance_w" /\ pc'[p] \in {"post_write", "post_fill"}
          /\ ledger' = ledger
      BY <1>2, <1>0 DEF AdvanceWrite, Goto
    <2>2. InHand(p) = local[p] /\ InHand(p)' = 0 /\ local[p] \in Int
      BY <2>1, <1>0 DEF InHand
    <2>3. Queue!Put /\ AbstractQueue' = Append(AbstractQueue, local[p])
      BY <1>2, ProducerRefines
    <2>4. AbstractTaken' = AbstractTaken /\ deposit' = deposit
      BY <2>3 DEF Queue!Put
    <2>5. SumFunction(AbstractQueue)' = SumFunction(AbstractQueue) + local[p]
      <3>1. SumFunction(Append(AbstractQueue, local[p]))
              = SumFunction(AbstractQueue) + local[p]
        BY <2>2, <1>t, SumAppend DEF MoneyTypes
      <3> QED
        BY <3>1, <2>3
    <2>6. SumFunction(AbstractTaken)' = SumFunction(AbstractTaken)
      BY <2>4
    <2>7. OnTheWay' = OnTheWay
      BY <2>2, <2>5, <2>6, <1>h, <1>t DEF OnTheWay, MoneyTypes
    <2>8. ledger = Add(deposit, OnTheWay)
      BY DEF MoneyConserved, OnTheWay
    <2>9. ledger' = Add(deposit', OnTheWay')
      BY <2>1, <2>4, <2>7, <2>8
    <2> QED
      BY <2>9 DEF MoneyConserved, OnTheWay, Add
  <1>3. CASE \/ WaitEmpty(p) \/ WaitWrite(p) \/ WriteItem(p) \/ PostWrite(p)
             \/ PostFill(p)
    <2>1. /\ ledger' = ledger /\ local' = local /\ ~AdvanceWrite(p)
          /\ \/ /\ pc[p] \in {"wait_empty", "wait_write", "write"}
                /\ pc'[p] \in {"wait_write", "write", "advance_w"}
             \/ /\ pc[p] \in {"post_write", "post_fill"}
                /\ pc'[p] \in {"post_fill", "produce"}
      BY <1>3, <1>0 DEF WaitEmpty, WaitWrite, WriteItem, PostWrite, PostFill,
                        AdvanceWrite, Goto
    <2>2. InHand(p)' = InHand(p)
      BY <2>1 DEF InHand
    <2>3. UNCHANGED Queue!vars
      BY <2>1, ProducerRefines
    <2> QED
      BY <2>1, <2>2, <2>3, <1>u, MoneyStays
  <1> QED
    BY <1>1, <1>2, <1>3 DEF ProducerStep

(* A consumer takes from the queue and gives to the deposit.               *)
LEMMA ConsumerConserves ==
    ASSUME IInv, IInv', Contents, Contents', MoneyConserved,
           NEW c \in Consumers, ConsumerStep(c)
    PROVE  MoneyConserved'
  <1>0. MoneyTypes /\ MoneyTypes'
    BY MoneyTyped, MoneyTypedNext
  <1>1. ledger' = ledger /\ \A p \in Producers : InHand(p)' = InHand(p)
    <2>1. /\ Producers \subseteq Threads /\ c \in Threads /\ c \notin Producers
          /\ pc \in [Threads -> ProducerPC \cup ConsumerPC]
          /\ local \in [Threads -> Int]
      BY ThreadAssumption DEF Threads, IInv, TypeOK
    <2>2. ledger' = ledger
      BY DEF ConsumerStep, WaitFill, WaitRead, LoadItem, LoadSum, StoreSum,
             AdvanceRead, PostRead, PostEmpty, ApplyItem
    <2>3. \A p \in Producers : pc'[p] = pc[p] /\ local'[p] = local[p]
      BY <2>1 DEF ConsumerStep, WaitFill, WaitRead, LoadItem, LoadSum, StoreSum,
                  AdvanceRead, PostRead, PostEmpty, ApplyItem, Goto
    <2> QED
      BY <2>2, <2>3 DEF InHand
  <1>2. SumFunction(Hands)' = SumFunction(Hands)
    <2>1. Hands' = Hands
      BY <1>1 DEF Hands
    <2> QED
      BY <2>1
  <1>3. ledger = Add(deposit, OnTheWay)
    BY DEF MoneyConserved, OnTheWay
  <1>4. CASE UNCHANGED Queue!vars
    BY <1>1, <1>4, MoneyStays
  <1>5. CASE Queue!Take(c)
    <2>1. /\ AbstractQueue # << >> /\ AbstractTaken[c] = 0
          /\ AbstractTaken' = [AbstractTaken EXCEPT ![c] = Head(AbstractQueue)]
          /\ AbstractQueue' = Tail(AbstractQueue)
          /\ deposit' = deposit
      BY <1>5 DEF Queue!Take
    <2>2. /\ Head(AbstractQueue) \in Int
          /\ SumFunction(AbstractTaken)'
               = SumFunction(AbstractTaken) - AbstractTaken[c] + Head(AbstractQueue)
      BY <2>1, <1>0, TakenMoves
    <2>3. SumFunction(AbstractQueue)
            = Head(AbstractQueue) + SumFunction(Tail(AbstractQueue))
      BY <2>1, <1>0, SumTail DEF MoneyTypes
    <2>4. SumFunction(AbstractQueue)' = SumFunction(Tail(AbstractQueue))
      BY <2>1
    <2>5. OnTheWay' = OnTheWay
      BY <2>1, <2>2, <2>3, <2>4, <1>0, <1>2 DEF OnTheWay, MoneyTypes
    <2>6. ledger' = Add(deposit', OnTheWay')
      BY <2>1, <2>5, <1>1, <1>3
    <2> QED
      BY <2>6 DEF MoneyConserved, OnTheWay, Add
  <1>6. CASE Queue!Apply(c)
    <2>1. PICK a \in Int : a = AbstractTaken[c]
      BY <1>0 DEF MoneyTypes
    <2>2. /\ deposit' = Add(deposit, a)
          /\ AbstractTaken' = [AbstractTaken EXCEPT ![c] = 0]
          /\ AbstractQueue' = AbstractQueue
      BY <1>6, <2>1 DEF Queue!Apply, Add
    <2>3. SumFunction(AbstractTaken)' = SumFunction(AbstractTaken) - a + 0
      BY <2>1, <2>2, <1>0, TakenMoves
    <2>4. SumFunction(AbstractQueue)' = SumFunction(AbstractQueue)
      BY <2>2
    <2>5. OnTheWay' \in Int /\ OnTheWay = a + OnTheWay' /\ deposit \in Int
      BY <2>3, <2>4, <1>0, <1>2 DEF OnTheWay, MoneyTypes
    <2>6. Add(Add(deposit, a), OnTheWay') = Add(deposit, a + OnTheWay')
      BY <2>5, AddTwice
    <2>7. ledger' = Add(deposit', OnTheWay')
      BY <2>2, <2>5, <2>6, <1>1, <1>3
    <2> QED
      BY <2>7 DEF MoneyConserved, OnTheWay, Add
  <1> QED
    BY <1>4, <1>5, <1>6, ConsumerRefines

(* main starts the threads with nothing in hand.                           *)
LEMMA InitConserves == Init => MoneyConserved
  <1> SUFFICES ASSUME Init PROVE MoneyConserved
    OBVIOUS
  <1>1. MoneyTypes
    BY InitIInv, InitContents, MoneyTyped
  <1>2. AbstractQueue = << >> /\ \A c \in Consumers : AbstractTaken[c] = 0
    BY InitRefines DEF Queue!Init
  <1>3. \A p \in Producers : Hands[p] = 0
    BY DEF Init, Hands, InHand, Threads
  <1> HIDE DEF Hands, AbstractQueue, AbstractTaken
  <1>4. /\ SumFunctionOnSet(Hands, Producers) = 0
        /\ SumFunctionOnSet(AbstractTaken, Consumers) = 0
    BY <1>2, <1>3, ThreadAssumption, SumZero
  <1>5. /\ SumFunction(Hands) = 0 /\ SumFunction(AbstractTaken) = 0
        /\ SumFunction(AbstractQueue) = 0
    BY <1>1, <1>2, <1>4, SumEmpty DEF MoneyTypes
  <1>6. (0 + 0) % Modulus = 0
    BY SizeAssumption
  <1> QED
    BY <1>5, <1>6 DEF MoneyConserved, Add, Init

(* Every step keeps the balance of the ledger.                             *)
LEMMA NextConserves ==
    ASSUME IInv, IInv', Contents, Contents', MoneyConserved, [Next]_vars
    PROVE  MoneyConserved'
  <1>0. TypeOK
    BY DEF IInv
  <1>1. ASSUME UNCHANGED <<transactions, read_index, deposit, local, ledger>>,
               Occupied' = Occupied,
               \A t \in Threads :
                  \/ pc'[t] = pc[t]
                  \/ pc[t] = "unborn" /\ pc'[t] \in {"produce", "wait_fill"}
        PROVE  MoneyConserved'
    <2>1. UNCHANGED Queue!vars
      BY <1>1, MainRefines
    <2>2. \A p \in Producers : InHand(p)' = InHand(p)
      BY <1>1 DEF InHand, Threads
    <2> QED
      BY <1>1, <2>1, <2>2, MoneyStays
  <1> QED
    BY <1>0, <1>1, OtherSteps, ProducerConserves, ConsumerConserves

(* For any number of threads, any BUFFER_SIZE and any width of the int: no *)
(* transaction is lost or counted twice on its way to the deposit.         *)
THEOREM MoneyIsConserved == Spec => []MoneyConserved
  <1>1. Spec => [](IInv /\ Contents)
    BY Invariance, InitContents, NextContents, PTL DEF Spec
  <1>2. IInv /\ Contents /\ (IInv /\ Contents)' /\ MoneyConserved /\ [Next]_vars
           => MoneyConserved'
    BY NextConserves
  <1> QED
    BY <1>1, <1>2, InitConserves, PTL DEF Spec
-----------------------------------------------------------------------------
(* The echo server with limited connections (LimitConn).                   *)

\* A handler that has a token.
WithToken == {"welcome", "recv", "echo", "close", "post"}
HandlerLabels == WithToken \cup {"outside", "queued", "exit", "ended", "failed"}

Holding(r) == {c \in Clients : handler[c] \in WithToken /\ owner[c] = r}

\* The token that main has taken for the handler it is about to start.
MainsToken(r) == IF main = "fork" /\ r = run THEN 1 ELSE 0

(* The connection main has accepted and those in the queue are different   *)
(* ones and have no handler; handlers belong to runs that began.           *)
Consistent ==
    /\ program \in {"multiprocess", "multithread"}
    /\ run \in 0 .. MaxRuns /\ linked \in 0 .. MaxRuns
    /\ connections \in [Runs -> Int]
    /\ main \in {"exited", "accept", "wait", "fork"}
    /\ client_desc \in Clients \cup {None}
    /\ backlog \in Seq(Clients)
    /\ handler \in [Clients -> HandlerLabels]
    /\ owner \in [Clients -> 0 .. run]
    /\ main # "exited" => run # 0
    /\ \A k \in 1 .. Len(backlog) : handler[backlog[k]] = "queued"
    /\ \A k, l \in 1 .. Len(backlog) : backlog[k] = backlog[l] => k = l
    /\ main \in {"wait", "fork"} =>
          /\ client_desc \in Clients
          /\ handler[client_desc] = "queued"
          /\ \A k \in 1 .. Len(backlog) : backlog[k] # client_desc
    /\ \A c \in Clients : /\ handler[c] \in {"outside", "queued"} => owner[c] = 0
                          /\ handler[c] \in WithToken => owner[c] # 0

(* No run, not even one whose server is gone and whose children go on, has *)
(* more tokens than it was given; while main runs, none is missing.        *)
Budget(r) ==
    /\ connections[r] >= 0
    /\ connections[r] + MainsToken(r) + Cardinality(Holding(r)) <= MaxConcurrency
    /\ main # "exited" /\ r = run =>
          connections[r] + MainsToken(r) + Cardinality(Holding(r))
              + Cardinality(Leaked(r)) = MaxConcurrency

Budgets == /\ \A r \in 1 .. run : Budget(r)
           /\ \A r \in Runs : r > run => connections[r] = 0

LimitInv == Consistent /\ Budgets

-----------------------------------------------------------------------------
(* Counting handlers.                                                      *)

(* There are finitely many handlers with a token, and finitely many lost.  *)
LEMMA HandlersFinite ==
    ASSUME NEW r
    PROVE  /\ IsFiniteSet(Holding(r)) /\ Cardinality(Holding(r)) \in Nat
           /\ IsFiniteSet(Leaked(r)) /\ Cardinality(Leaked(r)) \in Nat
  <1>1. IsFiniteSet(Holding(r))
    BY LimitAssumption, FS_Subset DEF Holding
  <1>2. IsFiniteSet(Leaked(r))
    BY LimitAssumption, FS_Subset DEF Leaked, Of
  <1> QED
    BY <1>1, <1>2, FS_CardinalityType

(* A handler that moves on with its token, or without one as before.       *)
LEMMA HandlerKeeps ==
    ASSUME NEW c \in Clients, NEW x, x # "failed", handler[c] # "failed",
           x \in WithToken <=> handler[c] \in WithToken,
           handler \in [Clients -> HandlerLabels],
           handler' = [handler EXCEPT ![c] = x], owner' = owner
    PROVE  \A r : Holding(r)' = Holding(r) /\ Leaked(r)' = Leaked(r)
  <1>1. \A r : Holding(r)' = Holding(r)
    BY DEF Holding
  <1>2. \A r : Leaked(r)' = Leaked(r)
    BY DEF Leaked, Of
  <1> QED
    BY <1>1, <1>2

(* A handler that gives its token back.                                    *)
LEMMA HandlerPosts ==
    ASSUME NEW c \in Clients, handler[c] \in WithToken,
           handler \in [Clients -> HandlerLabels],
           handler' = [handler EXCEPT ![c] = "exit"], owner' = owner
    PROVE  \A r : /\ Leaked(r)' = Leaked(r)
                  /\ IF r = owner[c]
                     THEN Cardinality(Holding(r)') = Cardinality(Holding(r)) - 1
                     ELSE Holding(r)' = Holding(r)
  <1>1. \A r : r = owner[c] => /\ Holding(r)' = Holding(r) \ {c}
                               /\ c \in Holding(r)
    BY DEF Holding, WithToken
  <1>2. \A r : r # owner[c] => Holding(r)' = Holding(r)
    BY DEF Holding
  <1>3. \A r : Leaked(r)' = Leaked(r)
    BY DEF Leaked, Of, WithToken
  <1> QED
    BY <1>1, <1>2, <1>3, HandlersFinite, FS_RemoveElement

(* A child that dies with its token.                                       *)
LEMMA HandlerFails ==
    ASSUME NEW c \in Clients, handler[c] \in WithToken,
           handler \in [Clients -> HandlerLabels],
           handler' = [handler EXCEPT ![c] = "failed"], owner' = owner
    PROVE  \A r : IF r = owner[c]
                  THEN /\ Cardinality(Holding(r)') = Cardinality(Holding(r)) - 1
                       /\ Cardinality(Leaked(r)') = Cardinality(Leaked(r)) + 1
                  ELSE Holding(r)' = Holding(r) /\ Leaked(r)' = Leaked(r)
  <1>1. \A r : r = owner[c] => /\ Holding(r)' = Holding(r) \ {c}
                               /\ c \in Holding(r)
    BY DEF Holding, WithToken
  <1>2. \A r : r = owner[c] => /\ Leaked(r)' = Leaked(r) \cup {c}
                               /\ c \notin Leaked(r)
    BY DEF Leaked, Of, WithToken
  <1>3. \A r : r # owner[c] => Holding(r)' = Holding(r)
    BY DEF Holding
  <1>4. \A r : r # owner[c] => Leaked(r)' = Leaked(r)
    BY DEF Leaked, Of
  <1>5. \A r : r = owner[c] => Cardinality(Holding(r)') = Cardinality(Holding(r)) - 1
    BY <1>1, HandlersFinite, FS_RemoveElement
  <1>6. \A r : r = owner[c] => Cardinality(Leaked(r)') = Cardinality(Leaked(r)) + 1
    BY <1>2, HandlersFinite, FS_AddElement
  <1> QED
    BY <1>3, <1>4, <1>5, <1>6

(* A handler that main starts with the token it took.                      *)
LEMMA HandlerStarts ==
    ASSUME NEW c \in Clients, handler[c] = "queued", owner[c] = 0, NEW q, q # 0,
           handler \in [Clients -> HandlerLabels], DOMAIN owner = Clients,
           handler' = [handler EXCEPT ![c] = "welcome"],
           owner' = [owner EXCEPT ![c] = q]
    PROVE  \A r : /\ Leaked(r)' = Leaked(r)
                  /\ IF r = q
                     THEN Cardinality(Holding(r)') = Cardinality(Holding(r)) + 1
                     ELSE Holding(r)' = Holding(r)
  <1>1. \A r : r = q => /\ Holding(r)' = Holding(r) \cup {c}
                        /\ c \notin Holding(r)
    BY DEF Holding, WithToken
  <1>2. \A r : r # q => Holding(r)' = Holding(r)
    BY DEF Holding, WithToken
  <1>3. \A r : Leaked(r)' = Leaked(r)
    BY DEF Leaked, Of
  <1> QED
    BY <1>1, <1>2, <1>3, HandlersFinite, FS_AddElement

-----------------------------------------------------------------------------
(* The server has not been started.                                        *)
LEMMA InitLimitInv == LimitInit => LimitInv
  <1> SUFFICES ASSUME LimitInit PROVE LimitInv
    OBVIOUS
  <1>1. Consistent
    BY LimitAssumption DEF LimitInit, Consistent, HandlerLabels, WithToken, Runs
  <1>2. Budgets
    BY DEF LimitInit, Budgets
  <1> QED
    BY <1>1, <1>2 DEF LimitInv

(* A step of a handler that is alive disturbs neither main nor the queue.  *)
LEMMA HandlerConsistent ==
    ASSUME Consistent, NEW c \in Clients, handler[c] \in WithToken \cup {"exit"},
           NEW x \in HandlerLabels, x \notin {"outside", "queued"},
           x \in WithToken => handler[c] \in WithToken,
           handler' = [handler EXCEPT ![c] = x],
           UNCHANGED <<program, run, linked, main, client_desc, backlog, owner>>,
           connections' \in [Runs -> Int]
    PROVE  Consistent'
  <1>1. handler' \in [Clients -> HandlerLabels]
    BY DEF Consistent
  <1>2. \A d \in Clients : handler[d] = "queued" => handler'[d] = "queued"
    BY DEF Consistent, WithToken
  <1>3. \A k \in 1 .. Len(backlog) : backlog[k] \in Clients
    BY DEF Consistent
  <1>4. \A k \in 1 .. Len(backlog) : handler'[backlog[k]] = "queued"
    BY <1>2, <1>3 DEF Consistent
  <1>5. \A d \in Clients : /\ handler'[d] \in {"outside", "queued"} => owner[d] = 0
                           /\ handler'[d] \in WithToken => owner[d] # 0
    BY DEF Consistent
  <1>6. main \in {"wait", "fork"} => client_desc \in Clients /\ handler'[client_desc] = "queued"
    BY <1>2 DEF Consistent
  <1> QED
    BY <1>1, <1>4, <1>5, <1>6 DEF Consistent

(* A step of a handler that keeps its token, or ends without one.          *)
LEMMA HandlerMoves ==
    ASSUME LimitInv, NEW c \in Clients, handler[c] \in WithToken \cup {"exit"},
           NEW x \in HandlerLabels, x \notin {"outside", "queued", "failed"},
           x \in WithToken <=> handler[c] \in WithToken,
           MoveHandler(c, handler[c], x), UNCHANGED connections
    PROVE  LimitInv'
  <1>1. Consistent'
    BY HandlerConsistent DEF LimitInv, Consistent, MoveHandler
  <1>2. \A r : Holding(r)' = Holding(r) /\ Leaked(r)' = Leaked(r)
    BY HandlerKeeps DEF LimitInv, Consistent, MoveHandler, WithToken
  <1>3. Budgets'
    BY <1>2 DEF LimitInv, Budgets, Budget, MoveHandler, MainsToken
  <1> QED
    BY <1>1, <1>3 DEF LimitInv

(* The token goes back to the semaphore of the run that the handler        *)
(* belongs to.                                                             *)
LEMMA PostLimitInv ==
    ASSUME LimitInv, NEW c \in Clients, PostConnections(c)
    PROVE  LimitInv'
  <1> DEFINE o == owner[c]
  <1>1. /\ handler[c] = "post" /\ handler' = [handler EXCEPT ![c] = "exit"]
        /\ UNCHANGED <<program, run, linked, main, client_desc, backlog, owner>>
        /\ connections' = [connections EXCEPT ![o] = @ + 1]
    BY DEF PostConnections, MoveHandler
  <1>2. handler[c] \in WithToken /\ handler \in [Clients -> HandlerLabels]
    BY <1>1 DEF LimitInv, Consistent, WithToken
  <1>3. o \in 1 .. run /\ run \in 0 .. MaxRuns
    BY <1>2 DEF LimitInv, Consistent
  <1>4. o \in Runs /\ \A r \in 1 .. run : r \in Runs
    BY <1>3, LimitAssumption DEF Runs
  <1>5. connections \in [Runs -> Int]
    BY DEF LimitInv, Consistent
  <1>6. Consistent'
    <2>1. connections' \in [Runs -> Int]
      BY <1>1, <1>4, <1>5
    <2>2. "exit" \in HandlerLabels /\ "exit" \notin WithToken
      BY DEF HandlerLabels, WithToken
    <2> QED
      BY <2>1, <2>2, <1>1, <1>2, HandlerConsistent DEF LimitInv
  <1>7. \A r : /\ Leaked(r)' = Leaked(r)
               /\ IF r = o
                  THEN Cardinality(Holding(r)') = Cardinality(Holding(r)) - 1
                  ELSE Holding(r)' = Holding(r)
    BY <1>1, <1>2, HandlerPosts
  <1>8. \A r : Cardinality(Holding(r)) \in Nat /\ Cardinality(Leaked(r)) \in Nat
    BY HandlersFinite
  <1>9. \A r \in Runs : connections'[r] = IF r = o THEN connections[r] + 1
                                                  ELSE connections[r]
    BY <1>1, <1>5
  <1>10. \A r : MainsToken(r)' = MainsToken(r) /\ MainsToken(r) \in Int
    BY <1>1 DEF MainsToken
  <1>11. ASSUME NEW r \in 1 .. run
         PROVE  Budget(r)'
    <2>1. Budget(r) /\ r \in Runs
      BY <1>4 DEF LimitInv, Budgets
    <2>2. connections[r] \in Int
      BY <2>1, <1>5
    <2>3. CASE r = o
      BY <2>1, <2>2, <2>3, <1>1, <1>7, <1>8, <1>9, <1>10 DEF Budget
    <2>4. CASE r # o
      BY <2>1, <2>2, <2>4, <1>1, <1>7, <1>8, <1>9, <1>10 DEF Budget
    <2> QED
      BY <2>3, <2>4
  <1>12. Budgets'
    BY <1>1, <1>3, <1>9, <1>11 DEF LimitInv, Budgets
  <1> QED
    BY <1>6, <1>12 DEF LimitInv

(* A child process that dies takes its token with it.                      *)
LEMMA ChildDiesLimitInv ==
    ASSUME LimitInv, NEW c \in Clients, handler[c] \in WithToken,
           MoveHandler(c, handler[c], "failed"), UNCHANGED connections
    PROVE  LimitInv'
  <1> DEFINE o == owner[c]
  <1>1. /\ handler' = [handler EXCEPT ![c] = "failed"]
        /\ UNCHANGED <<program, run, linked, main, client_desc, backlog, owner,
                       connections>>
    BY DEF MoveHandler
  <1>2. handler \in [Clients -> HandlerLabels] /\ connections \in [Runs -> Int]
    BY DEF LimitInv, Consistent
  <1>3. run \in 0 .. MaxRuns
    BY DEF LimitInv, Consistent
  <1>4. \A r \in 1 .. run : r \in Runs
    BY <1>3, LimitAssumption DEF Runs
  <1>5. Consistent'
    <2>1. "failed" \in HandlerLabels /\ "failed" \notin WithToken
      BY DEF HandlerLabels, WithToken
    <2> QED
      BY <2>1, <1>1, <1>2, HandlerConsistent DEF LimitInv
  <1>6. \A r : IF r = o
               THEN /\ Cardinality(Holding(r)') = Cardinality(Holding(r)) - 1
                    /\ Cardinality(Leaked(r)') = Cardinality(Leaked(r)) + 1
               ELSE Holding(r)' = Holding(r) /\ Leaked(r)' = Leaked(r)
    BY <1>1, <1>2, HandlerFails
  <1>7. \A r : Cardinality(Holding(r)) \in Nat /\ Cardinality(Leaked(r)) \in Nat
    BY HandlersFinite
  <1>8. \A r : MainsToken(r)' = MainsToken(r) /\ MainsToken(r) \in Int
    BY <1>1 DEF MainsToken
  <1>9. ASSUME NEW r \in 1 .. run
        PROVE  Budget(r)'
    <2>1. Budget(r) /\ connections[r] \in Int
      BY <1>2, <1>4 DEF LimitInv, Budgets
    <2>2. CASE r = o
      BY <2>1, <2>2, <1>1, <1>6, <1>7, <1>8, LimitAssumption DEF Budget
    <2>3. CASE r # o
      BY <2>1, <2>3, <1>1, <1>6, <1>7, <1>8 DEF Budget
    <2> QED
      BY <2>2, <2>3
  <1>10. Budgets'
    BY <1>1, <1>9 DEF LimitInv, Budgets
  <1> QED
    BY <1>5, <1>10 DEF LimitInv

(* Whatever ends with the server, no handler gains a token.                *)
LEMMA MainGoneLimitInv ==
    ASSUME LimitInv, NEW b, MainGone(b), linked' \in 0 .. MaxRuns
    PROVE  LimitInv'
  <1>1. /\ main' = "exited" /\ client_desc' = None /\ backlog' = << >>
        /\ UNCHANGED <<program, run, connections, owner>>
    BY DEF MainGone
  <1>2. handler' = [c \in Clients |->
                      IF \/ handler[c] = "queued"
                         \/ (b \/ ~Processes) /\ c \in Alive
                      THEN "failed" ELSE handler[c]]
    BY DEF MainGone
  <1>3. \A c \in Clients : handler'[c] \in {"failed", handler[c]}
    BY <1>2
  <1>4. handler \in [Clients -> HandlerLabels] /\ "failed" \in HandlerLabels
    BY DEF LimitInv, Consistent, HandlerLabels
  <1>5. handler' \in [Clients -> HandlerLabels]
    BY <1>2, <1>4
  <1>6. \A c \in Clients : /\ handler'[c] \in {"outside", "queued"} => owner'[c] = 0
                           /\ handler'[c] \in WithToken => owner'[c] # 0
    BY <1>1, <1>3 DEF LimitInv, Consistent, WithToken
  <1>7. backlog' \in Seq(Clients) /\ 1 .. Len(backlog') = {}
    BY <1>1
  <1>8. Consistent'
    <2>1. /\ program' \in {"multiprocess", "multithread"}
          /\ run' \in 0 .. MaxRuns /\ linked' \in 0 .. MaxRuns
          /\ connections' \in [Runs -> Int]
          /\ owner' \in [Clients -> 0 .. run']
      BY <1>1 DEF LimitInv, Consistent
    <2>2. /\ main' \in {"exited", "accept", "wait", "fork"}
          /\ main' # "exited" => run' # 0
          /\ client_desc' \in Clients \cup {None}
          /\ main' \notin {"wait", "fork"}
      BY <1>1
    <2>3. \A k \in 1 .. Len(backlog') : FALSE
      BY <1>7
    <2>4. /\ \A k \in 1 .. Len(backlog') : handler'[backlog'[k]] = "queued"
          /\ \A k, l \in 1 .. Len(backlog') : backlog'[k] = backlog'[l] => k = l
      BY <2>3
    <2>5. backlog' \in Seq(Clients)
      BY <1>7
    <2> QED
      BY <2>1, <2>2, <2>4, <2>5, <1>5, <1>6 DEF Consistent
  <1>9. ASSUME NEW r
        PROVE  Cardinality(Holding(r)') <= Cardinality(Holding(r))
    <2>1. Holding(r)' \subseteq Holding(r)
      BY <1>1, <1>3 DEF Holding, WithToken
    <2> QED
      BY <2>1, HandlersFinite, FS_Subset
  <1>10. ASSUME NEW r
         PROVE  Cardinality(Holding(r)) \in Nat /\ Cardinality(Holding(r)') \in Nat
    <2>1. IsFiniteSet(Holding(r)')
      BY LimitAssumption, FS_Subset DEF Holding
    <2> QED
      BY <2>1, HandlersFinite, FS_CardinalityType
  <1>11. ASSUME NEW r \in 1 .. run
         PROVE  Budget(r)'
    <2>1. Budget(r) /\ connections[r] \in Int
      BY LimitAssumption DEF LimitInv, Budgets, Consistent, Runs
    <2>2. MainsToken(r)' = 0 /\ MainsToken(r) \in {0, 1}
      BY <1>1 DEF MainsToken
    <2> QED
      BY <2>1, <2>2, <1>1, <1>9, <1>10, LimitAssumption DEF Budget
  <1>12. Budgets'
    BY <1>1, <1>11 DEF LimitInv, Budgets
  <1> QED
    BY <1>8, <1>12 DEF LimitInv

(* The next run gets a semaphore of its own, with all its tokens on it.    *)
LEMMA StartServerLimitInv ==
    ASSUME LimitInv, StartServer
    PROVE  LimitInv'
  <1>1. /\ main = "exited" /\ run < MaxRuns /\ run' = run + 1
        /\ linked' \in {run + 1, 0} /\ main' = "accept"
        /\ connections' = [connections EXCEPT ![run + 1] = MaxConcurrency]
        /\ UNCHANGED <<program, client_desc, backlog, handler, owner>>
    BY DEF StartServer
  <1>2. run \in 0 .. MaxRuns /\ MaxRuns \in Nat /\ MaxConcurrency \in Nat
    BY LimitAssumption DEF LimitInv, Consistent
  <1>3. run + 1 \in Runs /\ (\A r \in 1 .. run : r \in Runs)
    BY <1>1, <1>2 DEF Runs
  <1>4. connections \in [Runs -> Int]
    BY DEF LimitInv, Consistent
  <1>5. connections' \in [Runs -> Int]
    <2>1. MaxConcurrency \in Int
      BY <1>2
    <2> QED
      BY <2>1, <1>1, <1>3, <1>4
  <1>6. owner \in [Clients -> 0 .. run] /\ 0 .. run \subseteq 0 .. run + 1
    BY <1>2 DEF LimitInv, Consistent
  <1>7. owner' \in [Clients -> 0 .. run']
    BY <1>1, <1>6
  <1>8. run' \in 0 .. MaxRuns /\ linked' \in 0 .. MaxRuns /\ run' # 0
    BY <1>1, <1>2
  <1>9. Consistent'
    BY <1>1, <1>5, <1>7, <1>8 DEF LimitInv, Consistent
  <1>10. \A r : Holding(r)' = Holding(r)
    BY <1>1 DEF Holding
  <1>11. ASSUME NEW r \in 1 .. run
         PROVE  Budget(r)'
    <2>1. Budget(r) /\ connections'[r] = connections[r] /\ r # run'
      BY <1>1, <1>2, <1>3, <1>4 DEF LimitInv, Budgets
    <2>2. MainsToken(r)' = 0 /\ MainsToken(r) = 0
      BY <1>1 DEF MainsToken
    <2> QED
      BY <2>1, <2>2, <1>10 DEF Budget
  <1>12. ASSUME NEW r, r = run + 1
         PROVE  Budget(r)'
    <2>1. connections'[r] = MaxConcurrency
      BY <1>1, <1>3, <1>4, <1>12
    <2>2. MainsToken(r)' = 0
      BY <1>1 DEF MainsToken
    <2>3. Holding(r)' = {} /\ Leaked(r)' = {}
      BY <1>1, <1>2, <1>6, <1>12 DEF Holding, Leaked, Of
    <2>4. Cardinality(Holding(r)') = 0 /\ Cardinality(Leaked(r)') = 0
      BY <2>3, FS_EmptySet
    <2> QED
      BY <2>1, <2>2, <2>4, <1>2 DEF Budget
  <1>13. \A r \in 1 .. run' : r \in 1 .. run \/ r = run + 1
    BY <1>1, <1>2
  <1>14. \A r \in Runs : r > run' => connections'[r] = 0
    BY <1>1, <1>2, <1>4 DEF LimitInv, Budgets, Runs
  <1>15. Budgets'
    BY <1>11, <1>12, <1>13, <1>14 DEF Budgets
  <1> QED
    BY <1>9, <1>15 DEF LimitInv

(* A connection enters the queue.                                          *)
LEMMA ConnectLimitInv ==
    ASSUME LimitInv, NEW c \in Clients, Connect(c)
    PROVE  LimitInv'
  <1>1. /\ handler[c] = "outside"
        /\ handler' = [handler EXCEPT ![c] = "queued"]
        /\ backlog' = Append(backlog, c)
        /\ UNCHANGED <<program, run, linked, connections, main, client_desc, owner>>
    BY DEF Connect
  <1>2. handler \in [Clients -> HandlerLabels] /\ backlog \in Seq(Clients)
    BY DEF LimitInv, Consistent
  <1>3. handler' \in [Clients -> HandlerLabels] /\ backlog' \in Seq(Clients)
    BY <1>1, <1>2 DEF HandlerLabels
  <1>4. \A k \in 1 .. Len(backlog) : backlog[k] \in Clients /\ backlog[k] # c
    BY <1>1, <1>2 DEF LimitInv, Consistent
  <1>5. /\ Len(backlog') = Len(backlog) + 1 /\ Len(backlog) \in Nat
        /\ backlog'[Len(backlog) + 1] = c
        /\ \A k \in 1 .. Len(backlog) : backlog'[k] = backlog[k]
    BY <1>1, <1>2
  <1>6. \A k \in 1 .. Len(backlog') : k \in 1 .. Len(backlog) \/ k = Len(backlog) + 1
    BY <1>5
  <1>7. \A d \in Clients : handler'[d] = IF d = c THEN "queued" ELSE handler[d]
    BY <1>1, <1>2
  <1>8. \A k \in 1 .. Len(backlog') : handler'[backlog'[k]] = "queued"
    BY <1>4, <1>5, <1>6, <1>7 DEF LimitInv, Consistent
  <1>9. \A k, l \in 1 .. Len(backlog') : backlog'[k] = backlog'[l] => k = l
    <2>1. \A k, l \in 1 .. Len(backlog) : backlog[k] = backlog[l] => k = l
      BY DEF LimitInv, Consistent
    <2> QED
      BY <2>1, <1>4, <1>5, <1>6
  <1>10. main \in {"wait", "fork"} =>
            /\ client_desc \in Clients
            /\ handler'[client_desc] = "queued"
            /\ \A k \in 1 .. Len(backlog') : backlog'[k] # client_desc
    BY <1>1, <1>5, <1>6, <1>7 DEF LimitInv, Consistent
  <1>11. \A d \in Clients : /\ handler'[d] \in {"outside", "queued"} => owner'[d] = 0
                            /\ handler'[d] \in WithToken => owner'[d] # 0
    BY <1>1, <1>7 DEF LimitInv, Consistent, WithToken
  <1>12. Consistent'
    BY <1>1, <1>3, <1>8, <1>9, <1>10, <1>11 DEF LimitInv, Consistent
  <1>13. \A r : Holding(r)' = Holding(r) /\ Leaked(r)' = Leaked(r)
    BY <1>1, <1>2, HandlerKeeps DEF WithToken
  <1>14. Budgets'
    BY <1>1, <1>13 DEF LimitInv, Budgets, Budget, MainsToken
  <1> QED
    BY <1>12, <1>14 DEF LimitInv

(* main takes the first connection of the queue.                           *)
LEMMA AcceptLimitInv ==
    ASSUME LimitInv, Accept
    PROVE  LimitInv'
  <1>1. /\ main = "accept" /\ backlog # << >> /\ main' = "wait"
        /\ client_desc' = Head(backlog) /\ backlog' = Tail(backlog)
        /\ UNCHANGED <<program, run, linked, connections, handler, owner>>
    BY DEF Accept
  <1>2. backlog \in Seq(Clients)
    BY DEF LimitInv, Consistent
  <1>3. /\ Len(backlog) \in Nat \ {0} /\ Head(backlog) = backlog[1]
        /\ Tail(backlog) \in Seq(Clients) /\ Len(Tail(backlog)) = Len(backlog) - 1
        /\ \A k \in 1 .. Len(backlog) - 1 : Tail(backlog)[k] = backlog[k + 1]
    BY <1>1, <1>2
  <1>4. backlog[1] \in Clients /\ handler[backlog[1]] = "queued"
    BY <1>2, <1>3 DEF LimitInv, Consistent
  <1>5. \A k \in 1 .. Len(backlog') : k + 1 \in 1 .. Len(backlog) /\ k + 1 # 1
    BY <1>1, <1>3
  <1>6. \A k \in 1 .. Len(backlog') : backlog'[k] = backlog[k + 1]
    BY <1>1, <1>3
  <1>7. \A k \in 1 .. Len(backlog') : handler[backlog'[k]] = "queued"
    <2>1. \A k \in 1 .. Len(backlog) : handler[backlog[k]] = "queued"
      BY DEF LimitInv, Consistent
    <2> QED
      BY <2>1, <1>5, <1>6
  <1>8. \A k, l \in 1 .. Len(backlog') : backlog'[k] = backlog'[l] => k = l
    <2> SUFFICES ASSUME NEW k \in 1 .. Len(backlog'), NEW l \in 1 .. Len(backlog'),
                        backlog'[k] = backlog'[l]
                 PROVE  k = l
      OBVIOUS
    <2>1. k + 1 = l + 1
      BY <1>5, <1>6 DEF LimitInv, Consistent
    <2> QED
      BY <2>1
  <1>9. 1 \in 1 .. Len(backlog)
    BY <1>3
  <1>10. \A k \in 1 .. Len(backlog') : backlog'[k] # backlog[1]
    BY <1>5, <1>6, <1>9 DEF LimitInv, Consistent
  <1>11. client_desc' = backlog[1] /\ backlog' \in Seq(Clients)
    BY <1>1, <1>3
  <1>12. Consistent'
    BY <1>1, <1>4, <1>7, <1>8, <1>10, <1>11 DEF LimitInv, Consistent
  <1>13. \A r : Holding(r)' = Holding(r) /\ Leaked(r)' = Leaked(r)
    BY <1>1 DEF Holding, Leaked, Of
  <1>14. Budgets'
    BY <1>1, <1>13 DEF LimitInv, Budgets, Budget, MainsToken
  <1> QED
    BY <1>12, <1>14 DEF LimitInv

(* main takes a token, if there is one.                                    *)
LEMMA WaitConnectionsLimitInv ==
    ASSUME LimitInv, WaitConnections
    PROVE  LimitInv'
  <1>1. /\ main = "wait" /\ connections[run] > 0 /\ main' = "fork"
        /\ connections' = [connections EXCEPT ![run] = @ - 1]
        /\ UNCHANGED <<program, run, linked, client_desc, backlog, handler, owner>>
    BY DEF WaitConnections
  <1>2. run \in 0 .. MaxRuns /\ MaxRuns \in Nat /\ run # 0
    BY <1>1, LimitAssumption DEF LimitInv, Consistent
  <1>3. run \in Runs /\ (\A r \in 1 .. run : r \in Runs)
    BY <1>2 DEF Runs
  <1>4. connections \in [Runs -> Int]
    BY DEF LimitInv, Consistent
  <1>5. connections' \in [Runs -> Int]
    BY <1>1, <1>3, <1>4
  <1>6. Consistent'
    BY <1>1, <1>5 DEF LimitInv, Consistent
  <1>7. \A r : Holding(r)' = Holding(r) /\ Leaked(r)' = Leaked(r)
    BY <1>1 DEF Holding, Leaked, Of
  <1>8. \A r : Cardinality(Holding(r)) \in Nat /\ Cardinality(Leaked(r)) \in Nat
    BY HandlersFinite
  <1>9. ASSUME NEW r \in 1 .. run
        PROVE  Budget(r)'
    <2>1. Budget(r) /\ connections[r] \in Int
      BY <1>3, <1>4 DEF LimitInv, Budgets
    <2>2. CASE r = run
      <3>1. connections'[r] = connections[r] - 1 /\ connections[r] > 0
        BY <2>2, <1>1, <1>3, <1>4
      <3>2. MainsToken(r) = 0 /\ MainsToken(r)' = 1
        BY <2>2, <1>1 DEF MainsToken
      <3> QED
        BY <2>1, <3>1, <3>2, <1>1, <1>7, <1>8, LimitAssumption DEF Budget
    <2>3. CASE r # run
      <3>1. connections'[r] = connections[r]
        BY <2>3, <1>1, <1>3, <1>4
      <3>2. MainsToken(r) = 0 /\ MainsToken(r)' = 0
        BY <2>3, <1>1 DEF MainsToken
      <3> QED
        BY <2>1, <2>3, <3>1, <3>2, <1>1, <1>7 DEF Budget
    <2> QED
      BY <2>2, <2>3
  <1>10. \A r \in Runs : r > run => connections'[r] = 0
    BY <1>1, <1>2, <1>4 DEF LimitInv, Budgets, Runs
  <1>11. Budgets'
    BY <1>1, <1>9, <1>10 DEF Budgets
  <1> QED
    BY <1>6, <1>11 DEF LimitInv

(* The handler that main starts has the token main took.                   *)
LEMMA StartHandlerLimitInv ==
    ASSUME LimitInv, StartHandler
    PROVE  LimitInv'
  <1> DEFINE c == client_desc
  <1>1. /\ main = "fork" /\ main' = "accept" /\ client_desc' = None
        /\ handler' = [handler EXCEPT ![c] = "welcome"]
        /\ owner' = [owner EXCEPT ![c] = run]
        /\ UNCHANGED <<program, run, linked, connections, backlog>>
    BY DEF StartHandler
  <1>2. run \in 0 .. MaxRuns /\ MaxRuns \in Nat /\ run # 0
    BY <1>1, LimitAssumption DEF LimitInv, Consistent
  <1>3. /\ c \in Clients /\ handler[c] = "queued" /\ owner[c] = 0
        /\ \A k \in 1 .. Len(backlog) : backlog[k] # c
    BY <1>1 DEF LimitInv, Consistent
  <1>4. /\ handler \in [Clients -> HandlerLabels] /\ owner \in [Clients -> 0 .. run]
        /\ backlog \in Seq(Clients) /\ connections \in [Runs -> Int]
    BY DEF LimitInv, Consistent
  <1>5. handler' \in [Clients -> HandlerLabels]
    BY <1>1, <1>4 DEF HandlerLabels, WithToken
  <1>6. owner' \in [Clients -> 0 .. run]
    <2>1. run \in 0 .. run
      BY <1>2
    <2> QED
      BY <2>1, <1>1, <1>4
  <1> HIDE DEF c
  <1>7. \A d \in Clients : /\ d # c => handler'[d] = handler[d] /\ owner'[d] = owner[d]
                           /\ d = c => handler'[d] = "welcome" /\ owner'[d] = run
    BY <1>1, <1>4
  <1>8. \A k \in 1 .. Len(backlog) : backlog[k] \in Clients
    BY <1>4
  <1>9. \A k \in 1 .. Len(backlog) : handler'[backlog[k]] = "queued"
    <2>1. \A k \in 1 .. Len(backlog) : handler[backlog[k]] = "queued" /\ backlog[k] # c
      BY <1>3 DEF LimitInv, Consistent
    <2>2. ASSUME NEW k \in 1 .. Len(backlog)
          PROVE  handler'[backlog[k]] = handler[backlog[k]]
      BY <2>1, <1>7, <1>8
    <2> QED
      BY <2>1, <2>2
  <1>10. \A d \in Clients : /\ handler'[d] \in {"outside", "queued"} => owner'[d] = 0
                            /\ handler'[d] \in WithToken => owner'[d] # 0
    <2>1. \A d \in Clients : /\ handler[d] \in {"outside", "queued"} => owner[d] = 0
                             /\ handler[d] \in WithToken => owner[d] # 0
      BY DEF LimitInv, Consistent
    <2>2. ASSUME NEW d \in Clients, d # c
          PROVE  handler'[d] = handler[d] /\ owner'[d] = owner[d]
      BY <2>2, <1>7
    <2>3. ASSUME NEW d \in Clients, d = c
          PROVE  handler'[d] = "welcome" /\ owner'[d] # 0
      BY <2>3, <1>2, <1>7
    <2> QED
      BY <2>1, <2>2, <2>3
  <1>11. Consistent'
    BY <1>1, <1>5, <1>6, <1>9, <1>10 DEF LimitInv, Consistent
  <1>12. ASSUME NEW q, q = run
         PROVE  \A r \in 1 .. run : Budget(r)'
    <2>1. owner' = [owner EXCEPT ![c] = q] /\ q # 0
      BY <1>1, <1>2, <1>12
    <2>2. \A r : /\ Leaked(r)' = Leaked(r)
                 /\ IF r = q
                    THEN Cardinality(Holding(r)') = Cardinality(Holding(r)) + 1
                    ELSE Holding(r)' = Holding(r)
      BY <2>1, <1>1, <1>3, <1>4, HandlerStarts
    <2>3. \A r : Cardinality(Holding(r)) \in Nat /\ Cardinality(Leaked(r)) \in Nat
      BY HandlersFinite
    <2> SUFFICES ASSUME NEW r \in 1 .. run PROVE Budget(r)'
      OBVIOUS
    <2>4. Budget(r) /\ connections[r] \in Int
      BY <1>2, <1>4 DEF LimitInv, Budgets, Runs
    <2>5. MainsToken(r)' = 0 /\ MainsToken(r) = IF r = q THEN 1 ELSE 0
      BY <1>1, <1>12 DEF MainsToken
    <2>6. CASE r = q
      BY <2>2, <2>3, <2>4, <2>5, <2>6, <1>1, <1>12, LimitAssumption DEF Budget
    <2>7. CASE r # q
      BY <2>2, <2>3, <2>4, <2>5, <2>7, <1>1, <1>12 DEF Budget
    <2> QED
      BY <2>6, <2>7
  <1>13. Budgets'
    BY <1>1, <1>12 DEF LimitInv, Budgets
  <1> QED
    BY <1>11, <1>13 DEF LimitInv

-----------------------------------------------------------------------------
(* Every step of the server, its handlers and its clients.                 *)
LEMMA NextLimitInv == LimitInv /\ [LimitNext]_limitVars => LimitInv'
  <1> SUFFICES ASSUME LimitInv, [LimitNext]_limitVars PROVE LimitInv'
    OBVIOUS
  <1>1. WithToken \subseteq HandlerLabels /\ {"exit", "ended", "failed"} \subseteq HandlerLabels
    BY DEF HandlerLabels
  <1>2. CASE LimitMainStep
    BY <1>2, AcceptLimitInv, WaitConnectionsLimitInv, StartHandlerLimitInv DEF LimitMainStep
  <1>3. ASSUME NEW c \in Clients, HandlerStep(c)
        PROVE  LimitInv'
    <2>1. CASE \/ SendWelcome(c) \/ RecvMessage(c) \/ SendBack(c)
               \/ RecvQuit(c) \/ CloseSocket(c)
      <3>1. PICK x \in WithToken : MoveHandler(c, handler[c], x) /\ handler[c] \in WithToken
                               /\ UNCHANGED connections
        BY <2>1 DEF SendWelcome, RecvMessage, SendBack, RecvQuit, CloseSocket,
                    MoveHandler, WithToken
      <3> QED
        BY <3>1, <1>1, HandlerMoves DEF WithToken
    <2>2. CASE Exit(c)
      <3>1. MoveHandler(c, handler[c], "ended") /\ handler[c] = "exit"
            /\ UNCHANGED connections
        BY <2>2 DEF Exit, MoveHandler
      <3> QED
        BY <3>1, <1>1, HandlerMoves DEF WithToken
    <2> QED
      BY <1>3, <2>1, <2>2, PostLimitInv DEF HandlerStep
  <1>4. linked \in 0 .. MaxRuns /\ 0 \in 0 .. MaxRuns
    BY LimitAssumption DEF LimitInv, Consistent
  <1>5. ASSUME NEW c \in Clients, HandlerDies(c)
        PROVE  LimitInv'
    <2>1. handler[c] \in WithToken
      BY <1>5 DEF HandlerDies, WithToken
    <2> QED
      BY <2>1, <1>4, <1>5, ChildDiesLimitInv, MainGoneLimitInv DEF HandlerDies
  <1>6. CASE \E b \in BOOLEAN : signalHandlerCleanup(b)
    BY <1>4, <1>6, MainGoneLimitInv DEF signalHandlerCleanup
  <1>7. CASE MainDies
    BY <1>4, <1>7, MainGoneLimitInv DEF MainDies
  <1>8. CASE UNCHANGED limitVars
    BY <1>8 DEF limitVars, LimitInv, Consistent, Budgets, Budget, MainsToken, Holding, Leaked, Of
  <1>9. CASE Quiet
    BY <1>8, <1>9 DEF Quiet
  <1> QED
    BY <1>2, <1>3, <1>5, <1>6, <1>7, <1>8, <1>9, StartServerLimitInv, ConnectLimitInv
       DEF LimitNext

(* The inductive invariant holds in every reachable state.                 *)
LEMMA LimitInvariance == LimitSpec => []LimitInv
  BY InitLimitInv, NextLimitInv, PTL DEF LimitSpec

(* The invariants of the model follow from it.                             *)
LEMMA LimitInvImplies == LimitInv => TokensAccounted /\ ServingBounded
  <1> SUFFICES ASSUME LimitInv PROVE TokensAccounted /\ ServingBounded
    OBVIOUS
  <1>1. \A r : Holding(r) = Of(r, Serving \cup {c \in Clients : handler[c] = "post"})
    BY DEF Holding, WithToken, Of, Serving
  <1>2. TokensAccounted
    <2> SUFFICES ASSUME main # "exited"
                 PROVE  connections[run] + MainsToken(run) + Cardinality(Holding(run))
                          + Cardinality(Leaked(run)) = MaxConcurrency
      BY <1>1 DEF TokensAccounted, MainsToken
    <2>1. run \in 1 .. run
      BY DEF LimitInv, Consistent
    <2> QED
      BY <2>1 DEF LimitInv, Budgets, Budget
  <1>3. ASSUME NEW r \in Runs
        PROVE  Cardinality(Of(r, Serving)) <= MaxConcurrency
    <2>1. Of(r, Serving) \subseteq Holding(r)
      BY DEF Of, Serving, Holding, WithToken
    <2>2. /\ Cardinality(Of(r, Serving)) <= Cardinality(Holding(r))
          /\ Cardinality(Of(r, Serving)) \in Nat /\ Cardinality(Holding(r)) \in Nat
      BY <2>1, HandlersFinite, FS_Subset, FS_CardinalityType
    <2>3. CASE r <= run
      <3>1. Budget(r) /\ connections[r] \in Int /\ MainsToken(r) \in {0, 1}
        BY <2>3 DEF LimitInv, Budgets, Consistent, Runs, MainsToken
      <3> QED
        BY <2>2, <3>1, LimitAssumption DEF Budget
    <2>4. CASE r > run
      <3>1. Of(r, Serving) = {}
        BY <2>4 DEF Of, Serving, LimitInv, Consistent, Runs
      <3>2. Cardinality(Of(r, Serving)) = 0
        BY <3>1, FS_EmptySet
      <3> QED
        BY <3>2, LimitAssumption
    <2> QED
      BY <2>3, <2>4 DEF Runs, LimitInv, Consistent
  <1> QED
    BY <1>2, <1>3 DEF ServingBounded

(* ES-MP-LimitConn: for any number of clients, tokens and runs, every      *)
(* token of the running server is on its semaphore, with main, with a      *)
(* handler that has not posted, or was lost with a child that died.        *)
THEOREM TokensAreAccounted == LimitSpec => []TokensAccounted
  BY LimitInvariance, LimitInvImplies, PTL

(* No run of the server ever has more than MAX_CONCURRENCY connections     *)
(* open in its handlers, whichever main processes were killed and          *)
(* whichever children outlived them.                                       *)
THEOREM ServingIsBounded == LimitSpec => []ServingBounded
  BY LimitInvariance, LimitInvImplies, PTL
=============================================================================
