------------------------- MODULE SharedCounterProofs -------------------------
(***************************************************************************)
(* For any number of threads and additions the counters of the solution    *)
(* add up exactly, the variable shared without a lock stays between its    *)
(* bounds, and for any clock the timer measures exactly.                   *)
(***************************************************************************)
EXTENDS SharedCounter, FiniteSetTheorems, TLAPS

-----------------------------------------------------------------------------
(* Sums.                                                                   *)

(* One addition less to make is V less.                                    *)
LEMMA OneLess ==
    ASSUME NEW l \in Nat \ {0}, NEW v \in Nat
    PROVE  (l - 1) * v + v = l * v /\ (l - 1) * v \in Nat
  OBVIOUS

(* One addition more to make is V more.                                    *)
LEMMA OneMore ==
    ASSUME NEW l \in Nat, NEW v \in Nat
    PROVE  (l + 1) * v = l * v + v /\ l * v \in Nat
  OBVIOUS

PerThread == M * V

(* What thread k has added and has still to add make its share.            *)
Added(k) == counter[k] + left[k] * V = PerThread

(* Main has added up the shares of n threads.                              *)
Joined(n) == computed_value = n * PerThread

(* What a thread of the solution has added and what it still has to add    *)
(* are its share; what main has added up are the shares of those it joined.*)
SharesExact ==
    /\ i \in 0 .. N
    /\ main \in {"begin", "create", "join", "done", "failed"}
    /\ counter \in [Ids -> Nat] /\ left \in [Ids -> Nat]
    /\ register \in [Ids -> Nat]
    /\ thread \in [Ids -> {"unborn", "start", "load", "store", "done"}]
    /\ thread_ids \in [Ids -> Ids] /\ thread_idx \in [Ids -> Ids]
    /\ main = "begin" => i = 0
    /\ main \in {"begin", "create"} => \A k \in i .. N - 1 : thread[k] = "unborn"
    /\ main \in {"begin", "create"} => computed_value = 0
    /\ main = "failed" => \A k \in Ids : thread[k] = "done"
    /\ main # "failed" => \A k \in Ids :
          /\ Added(k)
          /\ thread[k] = "start" => thread_ids[k] = k
          /\ thread[k] \in {"load", "store"} => thread_idx[k] = k
          /\ thread[k] = "store" => register[k] = counter[k]
          /\ thread[k] # "done" => left[k] # 0
          /\ thread[k] = "done" => left[k] = 0
    /\ main = "join" => Joined(i)
    /\ main = "done" => Joined(N)

IInv == program = "shared_array" => SharesExact

(* Nothing is added and all is left to add.                                *)
LEMMA InitIInv == Init => IInv
  <1> SUFFICES ASSUME Init, program = "shared_array" PROVE SharesExact
    BY DEF IInv
  <1>1. M * V \in Nat /\ 0 \in Ids /\ N \in Nat /\ M \in Nat \ {0}
    BY CounterAssumption DEF Ids
  <1> QED
    BY <1>1 DEF Init, SharesExact, Added, Joined, PerThread, Ids

(* A step that changes no counter takes nothing from the shares.           *)
LEMMA SharesKept ==
    ASSUME UNCHANGED <<counter, left>>
    PROVE  \A k \in Ids : Added(k)' <=> Added(k)
  BY DEF Added, PerThread

(* An addition moves V from what is left to what was added.                *)
LEMMA ThreadPreserves ==
    ASSUME SharesExact, program = "shared_array", NEW k \in Ids, ThreadStep(k)
    PROVE  SharesExact'
  <1> USE CounterAssumption
  <1>1. PerThread \in Nat /\ V \in Nat
    BY OneMore DEF PerThread
  <1>f. main # "failed"
    BY DEF ThreadStep, ReadIndex, Load, Store, ThreadMoves, SharesExact
  <1>j. /\ (main = "join" => Joined(i)) => (main = "join" => Joined(i))'
        /\ (main = "done" => Joined(N)) => (main = "done" => Joined(N))'
    BY DEF ThreadStep, ReadIndex, Load, Store, ThreadMoves, Joined, PerThread
  <1>2. CASE ReadIndex(k)
    <2>1. \A j \in Ids : Added(j)' <=> Added(j)
      BY <1>2, SharesKept DEF ReadIndex
    <2> QED
      BY <1>2, <1>f, <1>j, <2>1 DEF ReadIndex, ThreadMoves, SharesExact
  <1>3. CASE Load(k)
    <2>1. \A j \in Ids : Added(j)' <=> Added(j)
      BY <1>3, SharesKept DEF Load
    <2> QED
      BY <1>3, <1>f, <1>j, <2>1 DEF Load, ThreadMoves, SharesExact
  <1>4. CASE Store(k)
    <2>1. /\ left[k] \in Nat \ {0} /\ counter[k] \in Nat
          /\ counter[k] + left[k] * V = PerThread
          /\ thread_idx[k] = k /\ register[k] = counter[k]
      BY <1>4, <1>f DEF Store, ThreadMoves, SharesExact, Added
    <2>2. (left[k] - 1) * V + V = left[k] * V /\ (left[k] - 1) * V \in Nat
      BY <2>1, <1>1, OneLess
    <2>3. /\ counter' = [counter EXCEPT ![k] = counter[k] + V]
          /\ left' = [left EXCEPT ![k] = left[k] - 1]
      BY <1>4, <2>1 DEF Store
    <2>4. counter' \in [Ids -> Nat] /\ left' \in [Ids -> Nat]
      BY <2>1, <2>3, <1>1 DEF SharesExact
    <2>5. left'[k] = left[k] - 1 /\ counter'[k] = counter[k] + V
      BY <2>3 DEF SharesExact
    <2>6. Added(k)'
      <3>1. counter[k] + V + (left[k] - 1) * V = PerThread
        BY <2>1, <2>2, <1>1
      <3> QED
        BY <3>1, <2>5 DEF Added, PerThread
    <2>7. ASSUME NEW j \in Ids, j # k
          PROVE  /\ counter'[j] = counter[j] /\ left'[j] = left[j]
                 /\ Added(j)'
      <3>1. counter'[j] = counter[j] /\ left'[j] = left[j]
        BY <2>3, <2>7 DEF SharesExact
      <3>2. Added(j)
        BY <1>f DEF SharesExact
      <3> QED
        BY <3>1, <3>2 DEF Added, PerThread
    <2>8. \A j \in Ids : Added(j)'
      BY <2>6, <2>7
    <2> QED
      BY <1>4, <1>f, <1>j, <2>1, <2>4, <2>5, <2>7, <2>8
      DEF Store, ThreadMoves, SharesExact
  <1> QED
    BY <1>2, <1>3, <1>4 DEF ThreadStep

(* Joining a thread moves its share to the result.                         *)
LEMMA MainPreserves ==
    ASSUME SharesExact, program = "shared_array", MainStep
    PROVE  SharesExact'
  <1> USE CounterAssumption
  <1>1. PerThread \in Nat /\ PerThread' = PerThread
    BY OneMore DEF PerThread
  <1>k. \A k \in Ids : Added(k)' <=> Added(k)
    BY SharesKept DEF MainStep, Begin, CreateThread, CreateFails, AllCreated,
                      JoinThread, Report, adding
  <1>2. CASE Begin
    BY <1>2, <1>k DEF Begin, adding, SharesExact
  <1>3. CASE CreateThread
    <2>1. i \in Ids /\ thread[i] = "unborn"
      BY <1>3 DEF CreateThread, SharesExact, Ids
    <2>2. thread_ids' = [thread_ids EXCEPT ![i] = i]
          /\ thread' = [thread EXCEPT ![i] = "start"] /\ i' = i + 1
          /\ main = "create" /\ main' = "create"
      BY <1>3 DEF CreateThread
    <2>3. \A k \in i' .. N - 1 : k \in i .. N - 1 /\ k # i /\ k \in Ids
      BY <2>1, <2>2 DEF Ids
    <2>4. i' \in 0 .. N
      BY <2>1, <2>2 DEF Ids
    <2> QED
      BY <1>3, <1>k, <2>1, <2>2, <2>3, <2>4 DEF CreateThread, SharesExact
  <1>4. CASE CreateFails
    BY <1>4 DEF CreateFails, SharesExact
  <1>5. CASE AllCreated
    <2>1. Joined(i)'
      BY <1>5, <1>1 DEF AllCreated, Joined, SharesExact
    <2> QED
      BY <1>5, <1>k, <2>1 DEF AllCreated, adding, SharesExact
  <1>6. CASE JoinThread
    <2>1. i \in Ids /\ thread[i] = "done" /\ main = "join"
      BY <1>6 DEF JoinThread, SharesExact, Ids
    <2>2. left[i] = 0 /\ counter[i] \in Nat /\ counter[i] + left[i] * V = PerThread
      BY <2>1 DEF SharesExact, Added
    <2>3. counter[i] = PerThread
      BY <2>2
    <2>4. computed_value = i * PerThread
      BY <2>1 DEF SharesExact, Joined
    <2>5. computed_value' = computed_value + counter[i] /\ i' = i + 1
      BY <1>6 DEF JoinThread, AddUp
    <2>6. i \in Nat
      BY <2>1 DEF Ids
    <2>7. (i + 1) * PerThread = i * PerThread + PerThread
      BY <2>6, <1>1, OneMore
    <2>8. Joined(i)'
      BY <2>3, <2>4, <2>5, <2>7, <1>1 DEF Joined
    <2>9. i' \in 0 .. N
      BY <2>1, <2>5 DEF Ids
    <2> QED
      BY <1>6, <1>k, <2>1, <2>8, <2>9 DEF JoinThread, adding, SharesExact
  <1>7. CASE Report
    <2>1. Joined(N)'
      BY <1>7, <1>1 DEF Report, SharesExact, Joined
    <2> QED
      BY <1>7, <1>k, <2>1 DEF Report, adding, SharesExact
  <1> QED
    BY <1>2, <1>3, <1>4, <1>5, <1>6, <1>7 DEF MainStep

(* Every step preserves the invariant.                                     *)
LEMMA NextPreserves == IInv /\ [Next]_vars => IInv'
  <1> SUFFICES ASSUME SharesExact, program = "shared_array",
                      program' = "shared_array", [Next]_vars
               PROVE  SharesExact'
    <2>1. [Next]_vars => program' = program
      BY DEF Next, MainStep, ThreadStep, Tick, Begin, CreateThread, CreateFails,
             AllCreated, JoinThread, Report, ReadIndex, Load, Store, ThreadMoves,
             vars
    <2> QED
      BY <2>1 DEF IInv
  <1>1. CASE MainStep
    BY <1>1, MainPreserves
  <1>2. CASE \E k \in Ids : ThreadStep(k)
    BY <1>2, ThreadPreserves
  <1>3. CASE Tick
    BY <1>3 DEF Tick, adding, SharesExact, Added, Joined, PerThread
  <1>4. CASE UNCHANGED vars
    BY <1>4 DEF vars, SharesExact, Added, Joined, PerThread
  <1> QED
    BY <1>1, <1>2, <1>3, <1>4 DEF Next

(* sol-concurrent_threads.c: no addition is lost, for any number of        *)
(* threads, any number of additions and any interleaving.                  *)
THEOREM ArrayIsExact == Spec => []ArrayExact
  <1>1. IInv => ArrayExact
    <2>1. N * (M * V) = N * M * V
      BY CounterAssumption
    <2> QED
      BY <2>1 DEF IInv, SharesExact, Joined, ArrayExact, PerThread, expected_value
  <1> QED
    BY <1>1, InitIInv, NextPreserves, PTL DEF Spec
-----------------------------------------------------------------------------
(* The timer.                                                              *)

(* A timespec stands for the ticks it was taken from.                      *)
LEMMA TimespecValue ==
    ASSUME NEW ticks \in Nat
    PROVE  /\ Timespec(ticks).tv_sec \in Nat
           /\ Timespec(ticks).tv_nsec \in 0 .. Second - 1
           /\ Timespec(ticks).tv_sec * Second + Timespec(ticks).tv_nsec = ticks
  <1> USE CounterAssumption
  <1> QED
    BY DEF Timespec

(* A second more is Second ticks more.                                     *)
LEMMA SecondsDiffer ==
    ASSUME NEW s1 \in Int, NEW s2 \in Int, NEW s \in Int
    PROVE  /\ (s2 - s1) * s = s2 * s - s1 * s
           /\ (s2 - s1 - 1) * s = s2 * s - s1 * s - s
           /\ s1 * s \in Int /\ s2 * s \in Int
  OBVIOUS

(* performance.c, diff: it borrows when it has to, and is then exact.      *)
LEMMA DiffExact ==
    ASSUME NEW b \in Nat, NEW e \in Nat,
           NEW d, d = diff(Timespec(b), Timespec(e))
    PROVE  /\ d.tv_nsec \in 0 .. Second - 1
           /\ d.tv_sec * Second + d.tv_nsec = e - b
  <1> DEFINE s1 == Timespec(b).tv_sec   n1 == Timespec(b).tv_nsec
             s2 == Timespec(e).tv_sec   n2 == Timespec(e).tv_nsec
  <1>1. /\ s1 \in Nat /\ n1 \in 0 .. Second - 1 /\ s1 * Second + n1 = b
        /\ s2 \in Nat /\ n2 \in 0 .. Second - 1 /\ s2 * Second + n2 = e
    BY TimespecValue
  <1>2. Second \in Nat \ {0}
    BY CounterAssumption
  <1>3. /\ (s2 - s1) * Second = s2 * Second - s1 * Second
        /\ (s2 - s1 - 1) * Second = s2 * Second - s1 * Second - Second
        /\ s1 * Second \in Int /\ s2 * Second \in Int
    BY <1>1, <1>2, SecondsDiffer
  <1>4. \/ /\ n2 - n1 < 0
           /\ d.tv_sec = s2 - s1 - 1 /\ d.tv_nsec = Second + n2 - n1
        \/ /\ ~(n2 - n1 < 0)
           /\ d.tv_sec = s2 - s1 /\ d.tv_nsec = n2 - n1
    BY DEF diff
  <1> HIDE DEF s1, n1, s2, n2
  <1> QED
    BY <1>1, <1>2, <1>3, <1>4

(* Division with a rest.                                                   *)
LEMMA DivisionRest ==
    ASSUME NEW d \in Nat, NEW n \in Nat \ {0}
    PROVE  \E q \in Nat, r \in 0 .. n - 1 : q = d \div n /\ d = q * n + r
  <1>1. PICK q \in Nat : q = d \div n
    OBVIOUS
  <1>2. PICK r \in 0 .. n - 1 : r = d % n
    OBVIOUS
  <1>3. q * n + r = d
    BY <1>1, <1>2
  <1> QED
    BY <1>1, <1>3

(* Whole milliseconds: what is left is less than one.                      *)
LEMMA WholeMilliseconds ==
    ASSUME NEW d \in Nat, d < UIntRange * Millisecond
    PROVE  d - ((d \div Millisecond) % UIntRange) * Millisecond
             \in 0 .. Millisecond - 1
  <1>1. Millisecond \in Nat \ {0} /\ UIntRange \in Nat \ {0}
    BY CounterAssumption
  <1>2. PICK q \in Nat, r \in 0 .. Millisecond - 1 :
           q = d \div Millisecond /\ d = q * Millisecond + r
    BY <1>1, DivisionRest
  <1>3. q < UIntRange
    <2>1. q >= UIntRange => q * Millisecond >= UIntRange * Millisecond
      BY <1>1
    <2>2. q * Millisecond \in Nat /\ UIntRange * Millisecond \in Nat
      BY <1>1
    <2> QED
      BY <2>1, <2>2, <1>1, <1>2
  <1>4. q % UIntRange = q
    BY <1>1, <1>3
  <1>5. q * Millisecond \in Nat
    BY <1>1
  <1> QED
    BY <1>2, <1>4, <1>5

(* begin was taken at some time, and end takes its difference from there.  *)
TimerExact ==
    /\ main \in {"begin", "create", "join", "done", "failed"} /\ now \in Nat
    /\ main # "begin" /\ Timed => \E b \in 0 .. now : t.begin = Timespec(b)
    /\ main = "done" /\ Timed => \E e \in Nat : \E b \in 0 .. e :
          /\ t.begin = Timespec(b) /\ t.end = Timespec(e)
          /\ t.elapsed = diff(Timespec(b), Timespec(e))
    /\ t \in [{"begin", "end", "elapsed"} -> {t.begin, t.end, t.elapsed}]

(* The elapsed time is the time between begin and end and what is printed  *)
(* are its whole milliseconds, whatever lengths these have in ticks.       *)
THEOREM ElapsedIsExact == Spec => []ElapsedExact
  <1> USE CounterAssumption
  <1>1. Init => TimerExact
    BY DEF Init, TimerExact
  <1>2. TimerExact /\ [Next]_vars => TimerExact'
    <2> SUFFICES ASSUME TimerExact, [Next]_vars PROVE TimerExact'
      OBVIOUS
    <2>1. CASE Begin
      BY <2>1 DEF Begin, begin, TimerExact, Timed
    <2>2. CASE Report
      BY <2>2 DEF Report, end, TimerExact, Timed
    <2>3. CASE CreateThread \/ CreateFails \/ AllCreated \/ JoinThread
      BY <2>3 DEF CreateThread, CreateFails, AllCreated, JoinThread, TimerExact, Timed
    <2>4. CASE Tick
      BY <2>4 DEF Tick, TimerExact, Timed
    <2>5. CASE \E k \in Ids : ThreadStep(k)
      BY <2>5 DEF ThreadStep, ReadIndex, Load, Store, ThreadMoves, TimerExact, Timed
    <2>6. CASE UNCHANGED vars
      BY <2>6 DEF vars, TimerExact, Timed
    <2> QED
      BY <2>1, <2>2, <2>3, <2>4, <2>5, <2>6 DEF Next, MainStep
  <1>3. TimerExact => ElapsedExact
    <2> DEFINE ticks == Ticks(t.end) - Ticks(t.begin)
    <2> SUFFICES ASSUME TimerExact, main = "done", Timed
                 PROVE  /\ t.elapsed.tv_nsec \in 0 .. Second - 1
                        /\ get_nanoseconds(t) = ticks
                        /\ ticks < UIntRange * Millisecond =>
                              ticks - get_milliseconds(t) * Millisecond
                                \in 0 .. Millisecond - 1
      BY DEF ElapsedExact
    <2>1. PICK e \in Nat : \E b \in 0 .. e :
             /\ t.begin = Timespec(b) /\ t.end = Timespec(e)
             /\ t.elapsed = diff(Timespec(b), Timespec(e))
      BY DEF TimerExact
    <2>b. PICK b \in 0 .. e :
             /\ t.begin = Timespec(b) /\ t.end = Timespec(e)
             /\ t.elapsed = diff(Timespec(b), Timespec(e))
      BY <2>1
    <2>2. b \in Nat /\ e - b \in Nat
      OBVIOUS
    <2>3. /\ t.elapsed.tv_nsec \in 0 .. Second - 1
          /\ get_nanoseconds(t) = e - b
      BY <2>b, <2>2, DiffExact DEF get_nanoseconds
    <2>4. Ticks(t.begin) = b /\ Ticks(t.end) = e
      BY <2>b, <2>2, TimespecValue DEF Ticks
    <2>5. get_milliseconds(t) = ((e - b) \div Millisecond) % UIntRange
      BY <2>3 DEF get_milliseconds
    <2> QED
      BY <2>2, <2>3, <2>4, <2>5, WholeMilliseconds
  <1> QED
    BY <1>1, <1>2, <1>3, PTL DEF Spec

-----------------------------------------------------------------------------
(* The shared variable.                                                    *)

(* The control of main and the threads: additions are made by the threads  *)
(* that are not done, and main reads the variable when all are.            *)
Control ==
    /\ i \in 0 .. N /\ left \in [Ids -> 0 .. M]
    /\ main \in {"begin", "create", "join", "done", "failed"}
    /\ counter \in [Ids -> Nat] /\ register \in [Ids -> Nat]
    /\ thread \in [Ids -> {"unborn", "start", "load", "store", "done"}]
    /\ thread_idx = [k \in Ids |-> 0]
    /\ main = "begin" => i = 0
    /\ main \in {"begin", "create"} => \A k \in i .. N - 1 : thread[k] = "unborn"
    /\ main = "failed" => \A k \in Ids : thread[k] = "done"
    /\ main # "failed" => \A k \in Ids : thread[k] = "done" <=> left[k] = 0
    /\ main = "join" => \A k \in 0 .. i - 1 : thread[k] = "done"
    /\ main = "done" => /\ \A k \in Ids : thread[k] = "done"
                        /\ computed_value = counter[0]

(* The additions made so far, and how many they are.                       *)
Made   == {a \in Ids \X (1 .. M) : left[a[1]] < a[2]}
Stores == Cardinality(Made)

(* Nothing is made up: no copy of the variable is ahead of the additions.  *)
AtMost == /\ counter[0] <= Stores * V
          /\ \A k \in Ids : register[k] <= Stores * V

(* Every store leaves V at least, so whoever loads for a second time has V *)
(* at least, and the store that ends the last thread leaves 2 * V.         *)
AtLeast ==
    /\ (\E k \in Ids : left[k] < M) => counter[0] >= V
    /\ \A k \in Ids : thread[k] = "store" /\ left[k] < M => register[k] >= V
    /\ M > 1 /\ (\A k \in Ids : left[k] = 0) => counter[0] >= V + V

(* A thread that is alone loses nothing.                                   *)
Alone ==
    N = 1 /\ main # "failed" =>
        Added(0) /\ (thread[0] = "store" => register[0] = counter[0])

SharedInv == Control /\ AtMost /\ AtLeast /\ Alone


(* There are at most N * M additions.                                      *)
LEMMA StoresBounded ==
    /\ IsFiniteSet(Made) /\ Stores \in Nat
    /\ Stores <= N * M
  <1> USE CounterAssumption
  <1>1. /\ IsFiniteSet(Ids) /\ Cardinality(Ids) = N
        /\ IsFiniteSet(1 .. M) /\ Cardinality(1 .. M) = M
    <2>1. /\ IsFiniteSet(0 .. N - 1) /\ IsFiniteSet(1 .. M)
          /\ Cardinality(0 .. N - 1) = (N - 1) - 0 + 1
          /\ Cardinality(1 .. M) = M - 1 + 1
      BY FS_Interval
    <2> QED
      BY <2>1 DEF Ids
  <1>2. /\ IsFiniteSet(Ids \X (1 .. M))
        /\ Cardinality(Ids \X (1 .. M)) = N * M
    BY <1>1, FS_Product
  <1>3. Made \subseteq Ids \X (1 .. M)
    BY DEF Made
  <1>4. IsFiniteSet(Made) /\ Cardinality(Made) <= N * M
    BY <1>2, <1>3, FS_Subset
  <1>5. Cardinality(Made) \in Nat
    BY <1>4, FS_CardinalityType
  <1> QED
    BY <1>4, <1>5 DEF Stores

(* Before any addition the variable and its copies are zero.               *)
LEMMA InitShared == Init => SharedInv
  <1> USE CounterAssumption
  <1> SUFFICES ASSUME Init PROVE SharedInv
    OBVIOUS
  <1>0. 0 \in Ids /\ M * V \in Nat
    BY OneMore DEF Ids
  <1>1. Control
    BY <1>0 DEF Init, Control, Ids
  <1>2. Stores * V \in Nat
    BY StoresBounded, OneMore
  <1>3. AtMost
    BY <1>0, <1>2 DEF Init, AtMost
  <1>4. AtLeast
    BY <1>0 DEF Init, AtLeast
  <1>5. Alone
    BY <1>0 DEF Init, Alone, Added, PerThread
  <1> QED
    BY <1>1, <1>3, <1>4, <1>5 DEF SharedInv

(* Steps that touch neither the variable nor a copy of it keep the bounds. *)
LEMMA BoundsKept ==
    ASSUME UNCHANGED <<counter, register, left>>, AtMost, AtLeast, Alone,
           \A k \in Ids : thread'[k] = "store" => thread[k] = "store",
           main' # "failed" => main # "failed", 0 \in Ids
    PROVE  AtMost' /\ AtLeast' /\ Alone'
  <1>1. Stores' = Stores
    BY DEF Stores, Made
  <1>2. AtMost'
    BY <1>1 DEF AtMost
  <1>3. AtLeast'
    BY DEF AtLeast
  <1>4. Alone'
    BY DEF Alone, Added, PerThread
  <1> QED
    BY <1>2, <1>3, <1>4

(* main() leaves the shared variable to the threads.                       *)
LEMMA MainShared ==
    ASSUME SharedInv, program = "shared_variable", MainStep
    PROVE  SharedInv'
  <1> USE CounterAssumption
  <1>0. 0 \in Ids /\ Control /\ AtMost /\ AtLeast /\ Alone
    BY DEF SharedInv, Ids
  <1>1. Control'
    <2>1. CASE Begin
      BY <2>1, <1>0 DEF Begin, adding, Control
    <2>2. CASE CreateThread
      <3>1. /\ i \in Ids /\ i' = i + 1 /\ main = "create" /\ main' = "create"
            /\ thread' = [thread EXCEPT ![i] = "start"]
            /\ UNCHANGED <<counter, register, left, thread_idx, computed_value>>
        BY <2>2, <1>0 DEF CreateThread, Control, Ids
      <3>2. i' \in 0 .. N /\ \A k \in i' .. N - 1 : k \in i .. N - 1 /\ k # i
        BY <3>1 DEF Ids
      <3>3. thread[i] = "unborn"
        BY <3>1, <1>0 DEF Control, Ids
      <3>4. \A k \in i' .. N - 1 : k \in Ids
        BY <3>1 DEF Ids
      <3> QED
        BY <3>1, <3>2, <3>3, <3>4, <1>0 DEF Control
    <2>3. CASE CreateFails
      BY <2>3, <1>0 DEF CreateFails, Control
    <2>4. CASE AllCreated
      BY <2>4, <1>0 DEF AllCreated, adding, Control
    <2>5. CASE JoinThread
      <3>1. /\ i \in 0 .. N - 1 /\ i' = i + 1 /\ thread[i] = "done"
            /\ main = "join" /\ main' = "join" /\ UNCHANGED adding
        BY <2>5, <1>0 DEF JoinThread, Control
      <3>2. i' \in 0 .. N /\ \A k \in 0 .. i' - 1 : k \in 0 .. i - 1 \/ k = i
        BY <3>1
      <3> QED
        BY <3>1, <3>2, <1>0 DEF Control, adding
    <2>6. CASE Report
      <3>1. \A k \in Ids : thread[k] = "done"
        BY <2>6, <1>0 DEF Report, Control, Ids
      <3> QED
        BY <3>1, <2>6, <1>0 DEF Report, adding, Control
    <2> QED
      BY <2>1, <2>2, <2>3, <2>4, <2>5, <2>6 DEF MainStep
  <1>2. /\ UNCHANGED <<counter, register, left>>
        /\ \A k \in Ids : thread'[k] = "store" => thread[k] = "store"
        /\ main' # "failed" => main # "failed"
    BY <1>0 DEF MainStep, Begin, CreateThread, CreateFails, AllCreated,
                JoinThread, Report, adding, Control
  <1> QED
    BY <1>0, <1>1, <1>2, BoundsKept DEF SharedInv

(* A store is one addition more.                                           *)
LEMMA StoreMakesOne ==
    ASSUME left \in [Ids -> 0 .. M], NEW k \in Ids, left[k] # 0,
           left' = [left EXCEPT ![k] = left[k] - 1]
    PROVE  Stores' = Stores + 1
  <1> USE CounterAssumption
  <1>1. PICK n \in 1 .. M : n = left[k]
    OBVIOUS
  <1>2. \A j \in Ids : left'[j] = IF j = k THEN n - 1 ELSE left[j]
    BY <1>1
  <1>3. \A j \in Ids, m \in 1 .. M :
           left'[j] < m <=> left[j] < m \/ (j = k /\ m = n)
    <2> SUFFICES ASSUME NEW j \in Ids, NEW m \in 1 .. M
                 PROVE  left'[j] < m <=> left[j] < m \/ (j = k /\ m = n)
      OBVIOUS
    <2>1. CASE j = k
      BY <2>1, <1>1, <1>2
    <2>2. CASE j # k
      BY <2>2, <1>2
    <2> QED
      BY <2>1, <2>2
  <1>4. \A a \in Ids \X (1 .. M) :
           left'[a[1]] < a[2] <=> left[a[1]] < a[2] \/ a = <<k, n>>
    BY <1>3
  <1>5. <<k, n>> \in Ids \X (1 .. M) /\ ~(left[k] < n)
    BY <1>1
  <1>6. Made' = Made \cup {<<k, n>>} /\ <<k, n>> \notin Made
    BY <1>4, <1>5 DEF Made
  <1>7. Cardinality(Made \cup {<<k, n>>}) = Cardinality(Made) + 1
    BY <1>6, StoresBounded, FS_AddElement
  <1> QED
    BY <1>6, <1>7 DEF Stores

(* A thread of concurrent_threads.c adds to the one variable.              *)
LEMMA ThreadShared ==
    ASSUME SharedInv, program = "shared_variable", NEW k \in Ids, ThreadStep(k)
    PROVE  SharedInv'
  <1> USE CounterAssumption
  <1>0. 0 \in Ids /\ Control /\ AtMost /\ AtLeast /\ Alone
    BY DEF SharedInv, Ids
  <1>f. main \notin {"failed", "done"} /\ main' = main
    BY <1>0 DEF ThreadStep, ReadIndex, Load, Store, ThreadMoves, Control
  <1>i. /\ i \in 0 .. N /\ UNCHANGED <<i, computed_value>>
        /\ thread[k] \in {"start", "load", "store"}
        /\ thread' = [thread EXCEPT ![k] = thread'[k]]
    BY <1>0 DEF ThreadStep, ReadIndex, Load, Store, ThreadMoves, Control
  <1>m. main \in {"begin", "create"} => ~(k \in i .. N - 1)
    BY <1>0, <1>i DEF Control
  <1>c. ASSUME left' \in [Ids -> 0 .. M], counter' \in [Ids -> Nat],
               register' \in [Ids -> Nat], thread_idx' = thread_idx,
               \A j \in Ids : thread'[j] = "done" <=> left'[j] = 0,
               thread'[k] \in {"load", "store", "done"}
        PROVE  Control'
    <2>1. thread' \in [Ids -> {"unborn", "start", "load", "store", "done"}]
      BY <1>c, <1>i, <1>0 DEF Control
    <2>2. \A j \in Ids : j # k => thread'[j] = thread[j]
      BY <1>i, <1>0 DEF Control
    <2>3. main \in {"begin", "create"} =>
             \A j \in i .. N - 1 : thread'[j] = "unborn"
      <3>1. \A j \in i .. N - 1 : j \in Ids
        BY <1>i DEF Ids
      <3> QED
        BY <3>1, <2>2, <1>m, <1>0 DEF Control
    <2>4. main = "join" => \A j \in 0 .. i - 1 : thread'[j] = "done"
      <3>1. \A j \in 0 .. i - 1 : j \in Ids
        BY <1>i DEF Ids
      <3> QED
        BY <3>1, <2>2, <1>i, <1>0 DEF Control
    <2> QED
      BY <1>c, <2>1, <2>3, <2>4, <1>0, <1>f, <1>i DEF Control
  <1>1. CASE ReadIndex(k)
    <2>1. /\ thread[k] = "start" /\ thread' = [thread EXCEPT ![k] = "load"]
          /\ thread_idx' = [thread_idx EXCEPT ![k] = 0]
          /\ UNCHANGED <<counter, register, left>>
      BY <1>1 DEF ReadIndex, ThreadMoves
    <2>2. thread_idx' = thread_idx
      BY <2>1, <1>0 DEF Control
    <2>3. Control'
      BY <2>1, <2>2, <1>0, <1>c, <1>f DEF Control
    <2>4. \A j \in Ids : thread'[j] = "store" => thread[j] = "store"
      BY <2>1, <1>0 DEF Control
    <2> QED
      BY <2>1, <2>3, <2>4, <1>0, <1>f, BoundsKept DEF SharedInv
  <1>2. CASE Load(k)
    <2>1. /\ thread[k] = "load" /\ thread' = [thread EXCEPT ![k] = "store"]
          /\ register' = [register EXCEPT ![k] = counter[0]]
          /\ UNCHANGED <<counter, thread_idx, left>>
      BY <1>2, <1>0 DEF Load, ThreadMoves, Control
    <2>2. register' \in [Ids -> Nat]
      BY <2>1, <1>0 DEF Control
    <2>3. Control'
      BY <2>1, <2>2, <1>0, <1>c, <1>f DEF Control
    <2>4. /\ register'[k] = counter[0]
          /\ \A j \in Ids : j # k => /\ register'[j] = register[j]
                                     /\ thread'[j] = thread[j]
      BY <2>1, <1>0 DEF Control
    <2>5. Stores' = Stores
      BY <2>1 DEF Stores, Made
    <2>6. AtMost'
      BY <2>1, <2>4, <2>5, <1>0 DEF AtMost
    <2>7. AtLeast'
      BY <2>1, <2>4, <1>0 DEF AtLeast
    <2>8. Alone'
      <3>1. N = 1 => k = 0
        BY DEF Ids
      <3> QED
        BY <3>1, <2>1, <2>4, <1>0, <1>f DEF Alone, Added, PerThread
    <2> QED
      BY <2>3, <2>6, <2>7, <2>8 DEF SharedInv
  <1>3. CASE Store(k)
    <2>1. /\ thread[k] = "store" /\ left' = [left EXCEPT ![k] = left[k] - 1]
          /\ thread' = [thread EXCEPT ![k] = IF left[k] = 1 THEN "done"
                                                            ELSE "load"]
          /\ counter' = [counter EXCEPT ![0] = register[k] + V]
          /\ UNCHANGED <<register, thread_idx>>
      BY <1>3, <1>0 DEF Store, ThreadMoves, Control
    <2>2. PICK n \in 1 .. M : n = left[k]
      BY <2>1, <1>0, <1>f DEF Control
    <2>3. PICK r \in Nat : r = register[k]
      BY <1>0 DEF Control
    <2>4. /\ left' \in [Ids -> 0 .. M] /\ counter' \in [Ids -> Nat]
          /\ left'[k] = n - 1 /\ counter'[0] = r + V
          /\ \A j \in Ids : j # k => /\ left'[j] = left[j]
                                     /\ thread'[j] = thread[j]
      BY <2>1, <2>2, <2>3, <1>0 DEF Control
    <2>5. thread'[k] \in {"load", "done"} /\ (thread'[k] = "done" <=> n = 1)
      BY <2>1, <2>2, <1>0 DEF Control
    <2>6. \A j \in Ids : thread'[j] = "done" <=> left'[j] = 0
      BY <2>2, <2>4, <2>5, <1>0, <1>f DEF Control
    <2>7. Control'
      BY <2>1, <2>4, <2>5, <2>6, <1>0, <1>c DEF Control
    <2>8. AtMost'
      <3>1. Stores' = Stores + 1 /\ Stores \in Nat
        BY <2>1, <2>2, <1>0, StoreMakesOne, StoresBounded DEF Control
      <3>2. PICK s \in Nat : s = Stores * V
        BY <3>1, OneMore
      <3>3. Stores' * V = s + V
        BY <3>1, <3>2, OneMore
      <3>4. r <= s /\ \A j \in Ids : register[j] \in Nat /\ register[j] <= s
        BY <2>3, <3>2, <1>0 DEF AtMost, Control
      <3>5. counter'[0] <= s + V /\ \A j \in Ids : register'[j] <= s + V
        BY <2>1, <2>4, <3>4
      <3> QED
        BY <3>3, <3>5 DEF AtMost
    <2>9. AtLeast'
      <3>1. counter'[0] >= V
        BY <2>3, <2>4
      <3>2. \A j \in Ids : thread'[j] = "store" => j # k /\ thread[j] = "store"
        BY <2>4, <2>5
      <3>3. \A j \in Ids : thread'[j] = "store" /\ left'[j] < M => register'[j] >= V
        BY <3>2, <2>1, <2>4, <1>0 DEF AtLeast
      <3>4. M > 1 /\ (\A j \in Ids : left'[j] = 0) => counter'[0] >= V + V
        <4> SUFFICES ASSUME M > 1, left'[k] = 0 PROVE counter'[0] >= V + V
          OBVIOUS
        <4>1. left[k] < M
          BY <2>2, <2>4
        <4>2. r >= V
          BY <4>1, <2>1, <2>3, <1>0 DEF AtLeast
        <4> QED
          BY <4>2, <2>4
      <3> QED
        BY <3>1, <3>3, <3>4 DEF AtLeast
    <2>10. Alone'
      <3> SUFFICES ASSUME N = 1 PROVE Added(0)' /\ thread'[0] # "store"
        BY DEF Alone
      <3>1. k = 0
        BY DEF Ids
      <3>2. r = counter[0] /\ counter[0] + n * V = PerThread
        BY <3>1, <2>1, <2>2, <2>3, <1>0, <1>f DEF Alone, Added
      <3>3. (n - 1) * V + V = n * V /\ (n - 1) * V \in Nat
        BY OneLess
      <3>4. PICK u \in Nat : u = (n - 1) * V
        BY <3>3
      <3>5. r + V + u = PerThread
        BY <3>2, <3>3, <3>4, <2>3
      <3>6. counter'[0] + left'[0] * V = r + V + u
        BY <3>1, <3>4, <2>4
      <3> QED
        BY <3>1, <3>5, <3>6, <2>5 DEF Added, PerThread
    <2> QED
      BY <2>7, <2>8, <2>9, <2>10 DEF SharedInv
  <1> QED
    BY <1>1, <1>2, <1>3 DEF ThreadStep

(* SharedInv is inductive for concurrent_threads.c.                        *)
SInv == program = "shared_variable" => SharedInv

(* Every step preserves the bounds of the shared variable.                 *)
LEMMA NextShared == SInv /\ [Next]_vars => SInv'
  <1> SUFFICES ASSUME SharedInv, program = "shared_variable", [Next]_vars
               PROVE  SharedInv'
    <2>1. [Next]_vars => program' = program
      BY DEF Next, MainStep, ThreadStep, Tick, Begin, CreateThread, CreateFails,
             AllCreated, JoinThread, Report, ReadIndex, Load, Store, ThreadMoves,
             vars
    <2> QED
      BY <2>1 DEF SInv
  <1>1. CASE MainStep
    BY <1>1, MainShared
  <1>2. CASE \E k \in Ids : ThreadStep(k)
    BY <1>2, ThreadShared
  <1>3. CASE Tick \/ UNCHANGED vars
    <2>1. UNCHANGED <<counter, register, left, thread, thread_idx, main, i,
                      computed_value>>
      BY <1>3 DEF Tick, vars, adding
    <2>2. Control'
      BY <2>1 DEF SharedInv, Control
    <2>3. 0 \in Ids
      BY CounterAssumption DEF Ids
    <2> QED
      BY <2>1, <2>2, <2>3, BoundsKept DEF SharedInv
  <1> QED
    BY <1>1, <1>2, <1>3 DEF Next

(* A bound on the additions bounds what they add.                          *)
LEMMA TimesMonotonic ==
    ASSUME NEW a \in Nat, NEW b \in Nat, a <= b, NEW v \in Nat
    PROVE  a * v <= b * v
  OBVIOUS

(* concurrent_threads.c, for any N, M and V and any interleaving: the      *)
(* value is never above N * M * V, and it is at least 2 * V (or M * V when *)
(* a thread is alone or adds once).                                        *)
THEOREM SharedIsBounded == Spec => []SharedBounds
  <1> USE CounterAssumption
  <1>1. SInv => SharedBounds
    <2> SUFFICES ASSUME SharedInv, main = "done"
                 PROVE  /\ computed_value <= expected_value
                        /\ computed_value >= IF N = 1 \/ M = 1 THEN M * V
                                                               ELSE 2 * V
      BY DEF SInv, SharedBounds
    <2>0. 0 \in Ids /\ Control /\ AtMost /\ AtLeast /\ Alone
      BY DEF SharedInv, Ids
    <2>1. /\ computed_value = counter[0] /\ counter[0] \in Nat
          /\ \A k \in Ids : left[k] = 0
      BY <2>0 DEF Control
    <2>2. computed_value <= expected_value
      <3>1. N * M \in Nat /\ Stores \in Nat /\ Stores <= N * M
        BY StoresBounded, OneMore
      <3>2. Stores * V <= N * M * V
        BY <3>1, TimesMonotonic
      <3>3. Stores * V \in Nat /\ N * M * V \in Nat
        BY <3>1, OneMore
      <3> QED
        BY <3>2, <3>3, <2>0, <2>1 DEF AtMost, expected_value
    <2>3. CASE N = 1
      <3>1. counter[0] + 0 * V = PerThread
        BY <2>0, <2>1, <2>3 DEF Alone, Added
      <3>2. counter[0] = M * V
        BY <3>1, <2>1 DEF PerThread
      <3> QED
        BY <3>2, <2>1, <2>2, <2>3
    <2>4. CASE N # 1 /\ M = 1
      <3>1. counter[0] >= V /\ M * V = V
        BY <2>0, <2>1, <2>4 DEF AtLeast
      <3> QED
        BY <3>1, <2>1, <2>2, <2>4
    <2>5. CASE N # 1 /\ M # 1
      <3>1. counter[0] >= V + V /\ 2 * V = V + V
        BY <2>0, <2>1, <2>5 DEF AtLeast
      <3> QED
        BY <3>1, <2>1, <2>2, <2>5
    <2> QED
      BY <2>3, <2>4, <2>5
  <1>2. Init => SInv
    BY InitShared DEF SInv
  <1> QED
    BY <1>1, <1>2, NextShared, PTL DEF Spec
=============================================================================
