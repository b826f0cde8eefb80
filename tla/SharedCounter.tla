---------------------------- MODULE SharedCounter ---------------------------
(***************************************************************************)
(* Threads that add V to a counter M times each without synchronisation:   *)
(* lab02 concurrent_threads.c, its solution sol-concurrent_threads.c, and  *)
(* lab03 concurrent_threads_solution_timer.c, which measures the solution  *)
(* with the timer of performance.c.                                        *)
(*                                                                         *)
(* The variable program says which of them it is:                          *)
(*   "shared_variable"   one counter for all threads                       *)
(*   "shared_array"      a counter for each thread, added up by main; with *)
(*                       the timer around it                               *)
(* The programs are built without optimisation: += is a load and a store.  *)
(***************************************************************************)
EXTENDS Integers, FiniteSets

CONSTANTS N, M, V,     \* threads, additions of each, and what is added
          Second,      \* clock ticks in a second (1000000000 in the program)
          Millisecond, \* and in a millisecond (1000000)
          UIntRange,   \* values of an unsigned int (2^32)
          MaxTime      \* bound: ticks that pass

ASSUME CounterAssumption ==
    /\ N \in Nat \ {0} /\ M \in Nat \ {0} /\ V \in Nat \ {0}
    /\ Second \in Nat \ {0} /\ Millisecond \in Nat \ {0}
    /\ UIntRange \in Nat \ {0} /\ MaxTime \in Nat

Ids == 0 .. N - 1

VARIABLES program,
          counter,         \* shared_array, or shared_variable as counter[0]
          thread_ids,      \* what main passes to each thread
          thread,          \* what each thread does next
          thread_idx,      \* the counter it adds to
          register,        \* the value it loaded
          left,            \* additions it still has to make
          main, i,         \* what main does next, and its loop variable
          computed_value,
          now,             \* the clock, in ticks
          t                \* the timer: the timespecs begin, end and elapsed

vars   == <<program, counter, thread_ids, thread, thread_idx, register, left,
            main, i, computed_value, now, t>>
adding == <<counter, thread_ids, thread, thread_idx, register, left>>

Timed == program = "shared_array"

Timespec(ticks) == [tv_sec |-> ticks \div Second, tv_nsec |-> ticks % Second]
Zero == Timespec(0)

Init == /\ program \in {"shared_variable", "shared_array"}
        /\ counter = [k \in Ids |-> 0]
        /\ thread_ids = [k \in Ids |-> 0]
        /\ thread = [k \in Ids |-> "unborn"]
        /\ thread_idx = [k \in Ids |-> 0]
        /\ register = [k \in Ids |-> 0]
        /\ left = [k \in Ids |-> M]
        /\ main = "begin"
        /\ i = 0
        /\ computed_value = 0
        /\ now \in 0 .. Second - 1
        /\ t = [begin |-> Zero, end |-> Zero, elapsed |-> Zero]
-----------------------------------------------------------------------------
(* performance.c                                                           *)

\* Mutation: no borrow from the seconds.
diffNoBorrow(start, end) == [tv_sec  |-> end.tv_sec - start.tv_sec,
                             tv_nsec |-> (end.tv_nsec - start.tv_nsec) % Second]

diff(start, end) ==
    IF end.tv_nsec - start.tv_nsec < 0
    THEN [tv_sec  |-> end.tv_sec - start.tv_sec - 1,
          tv_nsec |-> Second + end.tv_nsec - start.tv_nsec]
    ELSE [tv_sec  |-> end.tv_sec - start.tv_sec,
          tv_nsec |-> end.tv_nsec - start.tv_nsec]

begin(tm) == [tm EXCEPT !.begin = Timespec(now)]
end(tm)   == [tm EXCEPT !.end = Timespec(now),
                        !.elapsed = diff(tm.begin, Timespec(now))]

get_nanoseconds(tm) == tm.elapsed.tv_sec * Second + tm.elapsed.tv_nsec

\* The division truncates before round() is called; then the cast.
get_milliseconds(tm) == (get_nanoseconds(tm) \div Millisecond) % UIntRange

\* The clock; nobody looks at it without the timer.
Tick == /\ Timed
        /\ now < MaxTime
        /\ now' = now + 1
        /\ UNCHANGED <<program, adding, main, i, computed_value, t>>
-----------------------------------------------------------------------------
(* thread_work                                                             *)
ThreadMoves(k, from, to) ==
    /\ thread[k] = from
    /\ thread' = [thread EXCEPT ![k] = to]
    /\ UNCHANGED <<program, thread_ids, main, i, computed_value, now, t>>

\* Mutation: the thread was given &i and not &thread_ids[i].
ReadLoopVariable(k) ==
    /\ ThreadMoves(k, "start", "load")
    /\ thread_idx' = [thread_idx EXCEPT ![k] = IF i < N THEN i ELSE N - 1]
    /\ UNCHANGED <<counter, register, left>>

ReadIndex(k) ==
    /\ ThreadMoves(k, "start", "load")
    /\ thread_idx' = [thread_idx EXCEPT ![k] =
                        IF program = "shared_array" THEN thread_ids[k] ELSE 0]
    /\ UNCHANGED <<counter, register, left>>

Load(k) ==
    /\ ThreadMoves(k, "load", "store")
    /\ register' = [register EXCEPT ![k] = counter[thread_idx[k]]]
    /\ UNCHANGED <<counter, thread_idx, left>>

Store(k) ==
    /\ ThreadMoves(k, "store", IF left[k] = 1 THEN "done" ELSE "load")
    /\ counter' = [counter EXCEPT ![thread_idx[k]] = register[k] + V]
    /\ left' = [left EXCEPT ![k] = @ - 1]
    /\ UNCHANGED <<thread_idx, register>>
-----------------------------------------------------------------------------
(* main                                                                    *)
Begin ==
    /\ main = "begin"
    /\ main' = "create"
    /\ t' = IF Timed THEN begin(t) ELSE t
    /\ UNCHANGED <<program, adding, i, computed_value, now>>

CreateThread ==
    /\ main = "create" /\ i < N
    /\ thread_ids' = [thread_ids EXCEPT ![i] =
                        IF program = "shared_array" THEN i ELSE @]
    /\ thread' = [thread EXCEPT ![i] = "start"]
    /\ i' = i + 1
    /\ UNCHANGED <<program, counter, thread_idx, register, left, main,
                   computed_value, now, t>>

\* pthread_create() fails: exit() ends the threads too.
CreateFails ==
    /\ main = "create" /\ i < N
    /\ main' = "failed"
    /\ thread' = [k \in Ids |-> "done"]
    /\ UNCHANGED <<program, counter, thread_ids, thread_idx, register, left, i,
                   computed_value, now, t>>

AllCreated ==
    /\ main = "create" /\ i = N
    /\ main' = "join"
    /\ i' = 0
    /\ UNCHANGED <<program, adding, computed_value, now, t>>

AddUp == computed_value' = IF program = "shared_array"
                           THEN computed_value + counter[i] ELSE computed_value

\* Mutation: the counter of a thread is read without waiting for it.
NoJoin ==
    /\ main = "join" /\ i < N
    /\ AddUp
    /\ i' = i + 1
    /\ UNCHANGED <<program, adding, main, now, t>>

JoinThread ==
    /\ main = "join" /\ i < N
    /\ thread[i] = "done"
    /\ AddUp
    /\ i' = i + 1
    /\ UNCHANGED <<program, adding, main, now, t>>

\* end(&t), and the values that are reported.
Report ==
    /\ main = "join" /\ i = N
    /\ main' = "done"
    /\ t' = IF Timed THEN end(t) ELSE t
    /\ computed_value' = IF program = "shared_array" THEN computed_value
                                                     ELSE counter[0]
    /\ UNCHANGED <<program, adding, i, now>>
-----------------------------------------------------------------------------
MainStep == \/ Begin \/ CreateThread \/ CreateFails \/ AllCreated
            \/ JoinThread \/ Report

ThreadStep(k) == ReadIndex(k) \/ Load(k) \/ Store(k)

Next == MainStep \/ Tick \/ \E k \in Ids : ThreadStep(k)

Spec == Init /\ [][Next]_vars
-----------------------------------------------------------------------------
TypeOK ==
    /\ program \in {"shared_variable", "shared_array"}
    /\ counter \in [Ids -> Nat] /\ register \in [Ids -> Nat]
    /\ thread_ids \in [Ids -> Ids] /\ thread_idx \in [Ids -> Ids]
    /\ thread \in [Ids -> {"unborn", "start", "load", "store", "done"}]
    /\ left \in [Ids -> 0 .. M]
    /\ main \in {"begin", "create", "join", "done", "failed"}
    /\ i \in 0 .. N
    /\ computed_value \in Nat /\ now \in Nat
    /\ t \in [{"begin", "end", "elapsed"} -> [tv_sec : Nat, tv_nsec : Nat]]

expected_value == N * M * V

(* sol-concurrent_threads.c: with a counter for each thread no addition is *)
(* lost in any interleaving; this takes that every thread reads its own    *)
(* index, and that main adds its counter after the join.                   *)
ArrayExact ==
    main = "done" /\ program = "shared_array" => computed_value = expected_value

(* concurrent_threads.c: additions may be lost but never made up, and at   *)
(* least two of them remain; one when each thread makes a single addition, *)
(* and all of them with a single thread ("It should have been %lu",        *)
(* "Number of lost adds").                                                 *)
SharedBounds ==
    main = "done" /\ program = "shared_variable" =>
        /\ computed_value <= expected_value
        /\ computed_value >= IF N = 1 \/ M = 1 THEN M * V ELSE 2 * V

(* performance.c: elapsed is the time between begin and end, with less     *)
(* than a second of nanoseconds, also when the clock passed a full second  *)
(* in between; "It took %lu milliseconds" are the whole milliseconds of it *)
(* as long as they fit in an unsigned int.                                 *)
Ticks(ts) == ts.tv_sec * Second + ts.tv_nsec
ElapsedExact ==
    main = "done" /\ Timed =>
        LET ticks == Ticks(t.end) - Ticks(t.begin)
        IN  /\ t.elapsed.tv_nsec \in 0 .. Second - 1
            /\ get_nanoseconds(t) = ticks
            /\ ticks < UIntRange * Millisecond =>
                  ticks - get_milliseconds(t) * Millisecond \in 0 .. Millisecond - 1
=============================================================================
