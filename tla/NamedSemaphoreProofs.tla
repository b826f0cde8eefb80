------------------------ MODULE NamedSemaphoreProofs ------------------------
(***************************************************************************)
(* For any number of clients, threads, resources, restarts and kills: the  *)
(* semaphores count their resources exactly.                               *)
(***************************************************************************)
EXTENDS NamedSemaphore, FiniteSetTheorems, TLAPS

Labels  == {"unborn", "open", "wait", "work", "close", "done", "ended"}
Drivers == {"init", "prompt", "spawn", "left", "destroy", "return", "returned",
            "failed"}

(* Threads use semaphores that were created, and nothing is lost of those  *)
(* that were not.                                                          *)
Consistent ==
    /\ program \in {"named", "heap"}
    /\ run \in 0 .. MaxRuns /\ linked \in 0 .. run
    /\ value \in [Runs -> Int] /\ lost \in [Runs -> Int]
    /\ driver \in [Clients -> Drivers] /\ thread \in [Threads -> Labels]
    /\ thread_ID \in [Clients -> Nat]
    /\ opened \in [Threads -> 0 .. run] /\ own \in [Clients -> 0 .. run]
    /\ \A c \in Clients :
          program = "heap" /\ driver[c] \in {"prompt", "spawn"} => own[c] # 0
    /\ \A t \in Threads : /\ thread[t] \in {"wait", "work"} => opened[t] # 0
                          /\ t[2] > thread_ID[t[1]] => thread[t] \in {"unborn", "ended"}
    /\ \A r \in Runs : r > run => lost[r] = 0

IInv == Consistent /\ ResourcesAccounted

-----------------------------------------------------------------------------
(* Counting the threads that hold a resource.                              *)

(* There are finitely many of them.                                        *)
LEMMA HoldersFinite ==
    ASSUME NEW r
    PROVE  IsFiniteSet(Holders(r)) /\ Cardinality(Holders(r)) \in Nat
  <1>1. ThreadBurst * MaxBursts \in Int
    BY ResourceAssumption
  <1>2. IsFiniteSet(IDs)
    BY <1>1, FS_Interval DEF IDs
  <1>3. IsFiniteSet(Threads)
    BY <1>2, ResourceAssumption, FS_Product DEF Threads
  <1>4. IsFiniteSet(Holders(r))
    BY <1>3, FS_Subset DEF Holders
  <1> QED
    BY <1>4, FS_CardinalityType

(* A thread that neither holds a resource before nor after its step.       *)
LEMMA HoldersKept ==
    ASSUME NEW t, t \in Threads => thread[t] # "work", NEW x, x # "work",
           thread \in [Threads -> Labels], opened \in [Threads -> 0 .. run],
           thread' = [thread EXCEPT ![t] = x],
           NEW y, opened' = [opened EXCEPT ![t] = y]
    PROVE  \A r : Holders(r)' = Holders(r)
  BY DEF Holders

(* A thread that takes a resource, and one that gives it back.             *)
LEMMA HoldersGrow ==
    ASSUME NEW t \in Threads, thread[t] # "work",
           thread \in [Threads -> Labels],
           thread' = [thread EXCEPT ![t] = "work"], opened' = opened
    PROVE  \A r : IF r = opened[t]
                  THEN Cardinality(Holders(r)') = Cardinality(Holders(r)) + 1
                  ELSE Holders(r)' = Holders(r)
  <1>1. \A r : r = opened[t] => /\ Holders(r)' = Holders(r) \cup {t}
                               /\ t \notin Holders(r)
    BY DEF Holders
  <1>2. \A r : r # opened[t] => Holders(r)' = Holders(r)
    BY DEF Holders
  <1> QED
    BY <1>1, <1>2, HoldersFinite, FS_AddElement

(* One holder less.                                                        *)
LEMMA HoldersShrink ==
    ASSUME NEW t \in Threads, thread[t] = "work", NEW x, x # "work",
           thread \in [Threads -> Labels],
           thread' = [thread EXCEPT ![t] = x], opened' = opened
    PROVE  \A r : IF r = opened[t]
                  THEN Cardinality(Holders(r)') = Cardinality(Holders(r)) - 1
                  ELSE Holders(r)' = Holders(r)
  <1>1. \A r : r = opened[t] => /\ Holders(r)' = Holders(r) \ {t}
                               /\ t \in Holders(r)
    BY DEF Holders
  <1>2. \A r : r # opened[t] => Holders(r)' = Holders(r)
    BY DEF Holders
  <1> QED
    BY <1>1, <1>2, HoldersFinite, FS_RemoveElement

(* What the threads of a process held when it ends is lost.                *)
LEMMA HoldersLost ==
    ASSUME Consistent, NEW c \in Clients, NEW how, ProcessEnds(c, how),
           NEW r \in Runs
    PROVE  /\ Cardinality(Holders(r)') + lost'[r] = Cardinality(Holders(r)) + lost[r]
           /\ lost'[r] \in Int /\ Cardinality(Holders(r)') \in Int
           /\ r > run => lost'[r] = 0
  <1> DEFINE H == Holders(r)
             E == {t \in Holders(r) : t[1] = c}
  <1>1. IsFiniteSet(H) /\ Cardinality(H) \in Nat
    BY HoldersFinite
  <1>2. IsFiniteSet(E) /\ Cardinality(E) \in Nat
    BY <1>1, FS_Subset, FS_CardinalityType
  <1>3. Holders(r)' = H \ E
    BY DEF ProcessEnds, Holders, Consistent
  <1>4. H \cap E = E
    OBVIOUS
  <1>5. Cardinality(H \ E) = Cardinality(H) - Cardinality(E)
    BY <1>1, <1>4, FS_Difference
  <1>6. lost'[r] = lost[r] + Cardinality(E) /\ lost[r] \in Int
    BY DEF ProcessEnds, Consistent
  <1>7. r > run => E = {}
    BY DEF Consistent, Holders, Runs
  <1>8. r > run => Cardinality(E) = 0
    BY <1>7, FS_EmptySet
  <1>9. r > run => lost[r] = 0
    BY DEF Consistent
  <1> HIDE DEF H, E
  <1>10. Cardinality(Holders(r)') = Cardinality(H) - Cardinality(E)
    BY <1>3, <1>5
  <1>11. Cardinality(Holders(r)') + lost'[r] = Cardinality(H) + lost[r]
    BY <1>1, <1>2, <1>6, <1>10
  <1> QED
    BY <1>1, <1>2, <1>6, <1>8, <1>9, <1>10, <1>11 DEF H

-----------------------------------------------------------------------------
(* No semaphore exists at first.                                           *)
LEMMA InitIInv == Init => IInv
  <1> SUFFICES ASSUME Init PROVE Consistent /\ ResourcesAccounted
    BY DEF IInv
  <1>1. Consistent
    BY ResourceAssumption DEF Init, Consistent, Labels, Drivers, Named, Runs
  <1>2. ResourcesAccounted
    BY DEF Init, ResourcesAccounted
  <1> QED
    BY <1>1, <1>2

(* The semaphore of the next run is new: nobody holds anything of it.      *)
LEMMA NewSemaphore ==
    ASSUME IInv, run < MaxRuns, run' = run + 1,
           value' = [value EXCEPT ![run + 1] = NumResources],
           UNCHANGED <<thread, opened, lost, destroyed>>
    PROVE  ResourcesAccounted'
  <1> SUFFICES ASSUME NEW r \in 1 .. run + 1, r \notin destroyed
               PROVE  value'[r] + Cardinality(Holders(r)) + lost[r] = NumResources
    BY DEF IInv, Consistent, ResourcesAccounted, Holders
  <1>1. run \in Nat /\ run + 1 \in Runs /\ r \in Runs /\ NumResources \in Int
    BY ResourceAssumption DEF IInv, Consistent, Runs
  <1>2. CASE r = run + 1
    <2>1. Holders(r) = {}
      BY <1>1, <1>2 DEF IInv, Consistent, Holders
    <2>2. Cardinality(Holders(r)) = 0
      BY <2>1, FS_EmptySet
    <2>3. lost[r] = 0 /\ value'[r] = NumResources
      BY <1>1, <1>2 DEF IInv, Consistent
    <2> QED
      BY <2>2, <2>3, <1>1
  <1>3. CASE r # run + 1
    <2>1. r \in (1 .. run) \ destroyed /\ value'[r] = value[r]
      BY <1>1, <1>3 DEF IInv, Consistent
    <2> QED
      BY <2>1 DEF IInv, ResourcesAccounted
  <1> QED
    BY <1>2, <1>3

(* Steps that touch neither semaphores nor threads at work.                *)
LEMMA CountsKept ==
    ASSUME IInv, UNCHANGED <<run, value, lost>>, destroyed \subseteq destroyed',
           \A r : Holders(r)' = Holders(r)
    PROVE  ResourcesAccounted'
  BY DEF IInv, ResourcesAccounted

(* What the threads of an ended process held moves to lost.                *)
LEMMA ProcessEndsCounts ==
    ASSUME IInv, NEW c \in Clients, NEW how \in Drivers, ProcessEnds(c, how)
    PROVE  ResourcesAccounted'
  <1> SUFFICES ASSUME NEW r \in (1 .. run) \ destroyed
               PROVE  value[r] + Cardinality(Holders(r)') + lost'[r] = NumResources
    BY DEF ProcessEnds, semaphores, ResourcesAccounted
  <1>1. r \in Runs /\ value[r] \in Int
    BY ResourceAssumption DEF IInv, Consistent, Runs
  <1>2. /\ Cardinality(Holders(r)') + lost'[r] = Cardinality(Holders(r)) + lost[r]
        /\ lost'[r] \in Int /\ lost[r] \in Int
        /\ Cardinality(Holders(r)') \in Int
    BY <1>1, HoldersLost DEF IInv, Consistent
  <1>3. value[r] + Cardinality(Holders(r)) + lost[r] = NumResources
    BY DEF IInv, ResourcesAccounted
  <1>4. Cardinality(Holders(r)) \in Nat
    BY HoldersFinite
  <1> QED
    BY <1>1, <1>2, <1>3, <1>4

(* One thread more or less at work, and the value moves the other way.     *)
LEMMA AcquireCounts ==
    ASSUME IInv, NEW t \in Threads, Acquire(t)
    PROVE  ResourcesAccounted'
  <1> SUFFICES ASSUME NEW r \in (1 .. run) \ destroyed
               PROVE  value'[r] + Cardinality(Holders(r)') + lost[r] = NumResources
    BY DEF Acquire, MoveThread, ResourcesAccounted
  <1>1. /\ thread[t] = "wait" /\ thread' = [thread EXCEPT ![t] = "work"]
        /\ opened' = opened
        /\ value' = [value EXCEPT ![opened[t]] = value[opened[t]] - 1]
    BY DEF Acquire, MoveThread
  <1>2. IF r = opened[t]
        THEN Cardinality(Holders(r)') = Cardinality(Holders(r)) + 1
        ELSE Holders(r)' = Holders(r)
    BY <1>1, HoldersGrow DEF IInv, Consistent
  <1>3. r \in Runs /\ value[r] \in Int /\ lost[r] \in Int
    BY ResourceAssumption DEF IInv, Consistent, Runs
  <1>4. value'[r] = IF r = opened[t] THEN value[r] - 1 ELSE value[r]
    BY <1>1, <1>3 DEF IInv, Consistent
  <1>5. value[r] + Cardinality(Holders(r)) + lost[r] = NumResources
    BY DEF IInv, ResourcesAccounted
  <1>6. Cardinality(Holders(r)) \in Nat
    BY HoldersFinite
  <1>7. CASE r = opened[t]
    <2>1. Cardinality(Holders(r)') = Cardinality(Holders(r)) + 1
      BY <1>2, <1>7
    <2> QED
      BY <2>1, <1>3, <1>4, <1>5, <1>6, <1>7
  <1>8. CASE r # opened[t]
    BY <1>2, <1>4, <1>5, <1>8
  <1> QED
    BY <1>7, <1>8

(* A resource that is released leaves its holder for the semaphore.        *)
LEMMA ReleaseCounts ==
    ASSUME IInv, NEW t \in Threads, Release(t)
    PROVE  ResourcesAccounted'
  <1> SUFFICES ASSUME NEW r \in (1 .. run) \ destroyed
               PROVE  value'[r] + Cardinality(Holders(r)') + lost[r] = NumResources
    BY DEF Release, MoveThread, ResourcesAccounted
  <1>1. /\ thread[t] = "work" /\ thread' = [thread EXCEPT ![t] = AfterWork(t)]
        /\ opened' = opened /\ AfterWork(t) # "work"
        /\ value' = [value EXCEPT ![opened[t]] = value[opened[t]] + 1]
    BY DEF Release, MoveThread, AfterWork
  <1>2. IF r = opened[t]
        THEN Cardinality(Holders(r)') = Cardinality(Holders(r)) - 1
        ELSE Holders(r)' = Holders(r)
    BY <1>1, HoldersShrink DEF IInv, Consistent
  <1>3. r \in Runs /\ value[r] \in Int /\ lost[r] \in Int
    BY ResourceAssumption DEF IInv, Consistent, Runs
  <1>4. value'[r] = IF r = opened[t] THEN value[r] + 1 ELSE value[r]
    BY <1>1, <1>3 DEF IInv, Consistent
  <1>5. value[r] + Cardinality(Holders(r)) + lost[r] = NumResources
    BY DEF IInv, ResourcesAccounted
  <1>6. Cardinality(Holders(r)) \in Nat
    BY HoldersFinite
  <1>7. CASE r = opened[t]
    <2>1. Cardinality(Holders(r)') = Cardinality(Holders(r)) - 1
      BY <1>2, <1>7
    <2> QED
      BY <2>1, <1>3, <1>4, <1>5, <1>6, <1>7
  <1>8. CASE r # opened[t]
    BY <1>2, <1>4, <1>5, <1>8
  <1> QED
    BY <1>7, <1>8

(* What happens to a destroyed semaphore concerns no other one.            *)
LEMMA FreedCounts ==
    ASSUME IInv, NEW t \in Threads, opened[t] \in destroyed,
           NEW x, thread' = [thread EXCEPT ![t] = x], opened' = opened,
           UNCHANGED <<run, value, lost, destroyed>>
    PROVE  ResourcesAccounted'
  <1>1. \A r : r \notin destroyed => Holders(r)' = Holders(r)
    BY DEF IInv, Consistent, Holders
  <1> QED
    BY <1>1 DEF IInv, ResourcesAccounted

-----------------------------------------------------------------------------
(* The steps.                                                              *)

(* Steps of server.c, the creation of a thread, the end of a process, the  *)
(* other steps of a main thread, and those of client().                    *)
LEMMA ServerPreserves ==
    ASSUME IInv, ServerStep \/ cleanup \/ KillServer
    PROVE  IInv'
  <1>1. Consistent'
    <2>1. CASE CreateSemaphore
      <3>1. run \in Nat /\ run + 1 \in 0 .. MaxRuns /\ MaxRuns \in Nat
            /\ NumResources \in Int
        BY <2>1, ResourceAssumption DEF CreateSemaphore, IInv, Consistent
      <3>2. /\ run' = run + 1 /\ linked' = run + 1
            /\ value' = [value EXCEPT ![run + 1] = NumResources]
            /\ UNCHANGED <<program, clients>>
        BY <2>1 DEF CreateSemaphore
      <3>3. /\ value' \in [Runs -> Int]
            /\ opened \in [Threads -> 0 .. run + 1]
            /\ own \in [Clients -> 0 .. run + 1]
        <4>1. value' \in [Runs -> Int]
          BY <3>1, <3>2 DEF IInv, Consistent
        <4>2. 0 .. run \subseteq 0 .. run + 1
          BY <3>1
        <4>3. opened \in [Threads -> 0 .. run] /\ own \in [Clients -> 0 .. run]
          BY DEF IInv, Consistent
        <4> QED
          BY <4>1, <4>2, <4>3
      <3> QED
        BY <3>1, <3>2, <3>3 DEF IInv, Consistent, clients, Runs
    <2>2. CASE UnlinkName \/ SetQuitHandler \/ cleanup \/ KillServer
      <3>1. UNCHANGED <<program, run, value, clients>> /\ linked' \in {linked, 0}
        BY <2>2 DEF UnlinkName, SetQuitHandler, cleanup, KillServer
      <3> QED
        BY <3>1 DEF IInv, Consistent, clients
    <2> QED
      BY <2>1, <2>2 DEF ServerStep
  <1>2. ResourcesAccounted'
    <2>1. CASE CreateSemaphore
      BY <2>1, NewSemaphore DEF CreateSemaphore, clients
    <2>2. CASE UnlinkName \/ SetQuitHandler \/ cleanup \/ KillServer
      <3>1. UNCHANGED <<run, value, destroyed, lost, thread, opened>>
        BY <2>2 DEF UnlinkName, SetQuitHandler, cleanup, KillServer, clients
      <3> QED
        BY <3>1, CountsKept DEF Holders
    <2> QED
      BY <2>1, <2>2 DEF ServerStep
  <1> QED
    BY <1>1, <1>2 DEF IInv

(* A new thread preserves the invariant.                                   *)
LEMMA SpawnPreserves ==
    ASSUME IInv, NEW c \in Clients, SpawnThread(c)
    PROVE  IInv'
  <1> DEFINE t == <<c, thread_ID[c] + 1>>
             x == IF Named THEN "open" ELSE "wait"
  <1>1. /\ driver[c] = "spawn"
        /\ thread_ID' = [thread_ID EXCEPT ![c] = thread_ID[c] + 1]
        /\ thread' = [thread EXCEPT ![t] = x]
        /\ opened' = [opened EXCEPT ![t] = own[c]]
        /\ driver' = [driver EXCEPT ![c] = driver'[c]] /\ driver'[c] \in {"prompt", "spawn"}
        /\ UNCHANGED <<program, semaphores, own, items, lost, kills>>
    BY DEF SpawnThread, IInv, Consistent
  <1>2. thread_ID[c] \in Nat /\ (t \in Threads => thread[t] \in {"unborn", "ended"})
    BY DEF IInv, Consistent
  <1>3. Consistent'
    <2>1. /\ thread' \in [Threads -> Labels] /\ opened' \in [Threads -> 0 .. run]
          /\ thread_ID' \in [Clients -> Nat] /\ driver' \in [Clients -> Drivers]
      <3>1. x \in Labels /\ own[c] \in 0 .. run /\ thread_ID[c] + 1 \in Nat
            /\ driver'[c] \in Drivers
        BY <1>1, <1>2 DEF IInv, Consistent, Labels, Drivers
      <3> HIDE DEF x, t
      <3> QED
        BY <1>1, <3>1 DEF IInv, Consistent
    <2>2. ASSUME NEW u \in Threads
          PROVE  /\ thread'[u] \in {"wait", "work"} => opened'[u] # 0
                 /\ u[2] > thread_ID'[u[1]] => thread'[u] \in {"unborn", "ended"}
      <3>1. CASE u = t
        <4>1. thread'[u] = x /\ opened'[u] = own[c]
          BY <1>1, <3>1 DEF IInv, Consistent
        <4>2. x = "wait" => own[c] # 0
          BY <1>1 DEF IInv, Consistent, Named
        <4>3. u[2] = thread_ID[c] + 1 /\ thread_ID'[u[1]] = thread_ID[c] + 1
          BY <1>1, <3>1 DEF IInv, Consistent
        <4> QED
          BY <4>1, <4>2, <4>3, <1>2
      <3>2. CASE u # t
        <4>1. thread'[u] = thread[u] /\ opened'[u] = opened[u]
          BY <1>1, <3>2 DEF IInv, Consistent
        <4>2. u[1] \in Clients /\ u[2] \in Int
          BY ResourceAssumption DEF Threads, IDs
        <4>3. thread_ID'[u[1]] \in Nat /\ thread_ID[u[1]] \in Nat
              /\ thread_ID'[u[1]] >= thread_ID[u[1]]
          BY <1>1, <1>2, <4>2 DEF IInv, Consistent
        <4> QED
          BY <4>1, <4>2, <4>3 DEF IInv, Consistent
      <3> QED
        BY <3>1, <3>2
    <2> QED
      BY <1>1, <2>1, <2>2 DEF IInv, Consistent, semaphores
  <1>4. ResourcesAccounted'
    <2>1. \A r : Holders(r)' = Holders(r)
      BY <1>1, <1>2, HoldersKept DEF IInv, Consistent
    <2> QED
      BY <1>1, <2>1, CountsKept DEF semaphores
  <1> QED
    BY <1>3, <1>4 DEF IInv

(* The end of a process preserves the invariant.                           *)
LEMMA EndPreserves ==
    ASSUME IInv, NEW c \in Clients, NEW how \in Drivers \ {"prompt", "spawn"},
           ProcessEnds(c, how)
    PROVE  IInv'
  <1>1. /\ driver' = [driver EXCEPT ![c] = how]
        /\ thread' = [u \in Threads |-> IF u[1] = c /\ thread[u] # "done"
                                        THEN "ended" ELSE thread[u]]
        /\ lost' = [r \in Runs |-> lost'[r]]
        /\ UNCHANGED <<program, semaphores, thread_ID, opened, own>>
    BY DEF ProcessEnds
  <1>2. \A r \in Runs : lost'[r] \in Int /\ (r > run => lost'[r] = 0)
    BY HoldersLost DEF IInv
  <1>3. lost' \in [Runs -> Int]
    BY <1>1, <1>2
  <1>4. driver' \in [Clients -> Drivers] /\ thread' \in [Threads -> Labels]
    BY <1>1 DEF IInv, Consistent, Labels
  <1>5. \A d \in Clients : driver'[d] \in {"prompt", "spawn"} => driver'[d] = driver[d]
    BY <1>1 DEF IInv, Consistent
  <1>6. \A u \in Threads : thread'[u] = thread[u] \/ thread'[u] = "ended"
    BY <1>1
  <1>7. Consistent'
    BY <1>1, <1>2, <1>3, <1>4, <1>5, <1>6 DEF IInv, Consistent, semaphores
  <1> QED
    BY <1>7, ProcessEndsCounts DEF IInv

(* The main threads preserve the invariant.                                *)
LEMMA DriverPreserves ==
    ASSUME IInv, NEW c \in Clients, DriverStep(c) \/ ClientDies(c)
    PROVE  IInv'
  <1>1. CASE SpawnThread(c)
    BY <1>1, SpawnPreserves
  <1>2. CASE InitSemaphore(c)
    <2>1. Consistent'
      BY <1>2, ResourceAssumption
      DEF InitSemaphore, IInv, Consistent, Runs, Drivers
    <2>2. run < MaxRuns
      BY <1>2, ResourceAssumption DEF InitSemaphore, IInv, Consistent
    <2>3. ResourcesAccounted'
      BY <1>2, <2>2, NewSemaphore DEF InitSemaphore
    <2> QED
      BY <2>1, <2>3 DEF IInv
  <1>3. CASE PressEnter(c) \/ PressEOF(c) \/ DestroySemaphore(c)
    <2>1. Consistent'
      BY <1>3 DEF PressEnter, PressEOF, DestroySemaphore, semaphores, IInv,
                  Consistent, Drivers
    <2>2. /\ UNCHANGED <<run, value, lost, thread, opened>>
          /\ destroyed \subseteq destroyed'
      BY <1>3 DEF PressEnter, PressEOF, DestroySemaphore, semaphores
    <2>3. ResourcesAccounted'
      BY <2>2, CountsKept DEF Holders
    <2> QED
      BY <2>1, <2>3 DEF IInv
  <1>4. ASSUME NEW how \in Drivers \ {"prompt", "spawn"}, ProcessEnds(c, how)
        PROVE  IInv'
    BY <1>4, EndPreserves
  <1>5. CASE MainReturns(c)
    BY <1>4, <1>5 DEF MainReturns, Drivers
  <1>6. CASE ClientDies(c)
    BY <1>4, <1>6 DEF ClientDies, Drivers
  <1> QED
    BY <1>1, <1>2, <1>3, <1>5, <1>6 DEF DriverStep, MainStep

(* The threads that use resources preserve the invariant.                  *)
LEMMA ThreadPreserves ==
    ASSUME IInv, NEW t \in Threads, ThreadStep(t)
    PROVE  IInv'
  <1>0. t[1] \in Clients
    BY DEF Threads
  <1>1. CASE OpenSemaphore(t)
    <2>1. /\ thread[t] = "open" /\ thread' = [thread EXCEPT ![t] = "wait"]
          /\ opened' = [opened EXCEPT ![t] = linked] /\ linked # 0
          /\ UNCHANGED <<program, semaphores, driver, thread_ID, own, lost>>
      BY <1>1 DEF OpenSemaphore
    <2>2. Consistent'
      BY <2>1 DEF IInv, Consistent, semaphores, Labels
    <2>3. \A r : Holders(r)' = Holders(r)
      BY <2>1, HoldersKept DEF IInv, Consistent
    <2>4. ResourcesAccounted'
      BY <2>1, <2>3, CountsKept DEF semaphores
    <2> QED
      BY <2>2, <2>4 DEF IInv
  <1>2. ASSUME NEW how \in Drivers \ {"prompt", "spawn"}, ProcessEnds(t[1], how)
        PROVE  IInv'
    BY <1>0, <1>2, EndPreserves
  <1>3. CASE OpenFails(t)
    BY <1>2, <1>3 DEF OpenFails, Drivers
  <1>4. ASSUME NEW x \in Labels, NEW y \in Labels, MoveThread(t, y, x),
               y \notin {"unborn", "ended"}, x \in {"wait", "work"} => y \in {"wait", "work"},
               value' \in [Runs -> Int]
        PROVE  Consistent'
    BY <1>4 DEF MoveThread, IInv, Consistent
  <1>5. CASE Acquire(t)
    <2>1. value' \in [Runs -> Int]
      <3>1. opened[t] \in Runs /\ value[opened[t]] \in Int
        BY <1>5, ResourceAssumption
        DEF Acquire, MoveThread, IInv, Consistent, Runs
      <3>2. value' = [value EXCEPT ![opened[t]] = value[opened[t]] - 1]
        BY <1>5 DEF Acquire
      <3> QED
        BY <3>1, <3>2 DEF IInv, Consistent
    <2>2. Consistent'
      BY <1>4, <1>5, <2>1 DEF Acquire, Labels
    <2> QED
      BY <1>5, <2>2, AcquireCounts DEF IInv
  <1>6. CASE Release(t)
    <2>1. value' \in [Runs -> Int]
      <3>1. opened[t] \in Runs /\ value[opened[t]] \in Int
        BY <1>6, ResourceAssumption
        DEF Release, MoveThread, IInv, Consistent, Runs
      <3>2. value' = [value EXCEPT ![opened[t]] = value[opened[t]] + 1]
        BY <1>6 DEF Release
      <3> QED
        BY <3>1, <3>2 DEF IInv, Consistent
    <2>2. AfterWork(t) \in Labels
      BY DEF AfterWork, Labels
    <2>3. Consistent'
      BY <1>4, <1>6, <2>1, <2>2 DEF Release, Labels
    <2> QED
      BY <1>6, <2>3, ReleaseCounts DEF IInv
  <1>7. CASE CloseSemaphore(t)
    <2>1. /\ MoveThread(t, "close", "done") /\ value' = value
      BY <1>7 DEF CloseSemaphore
    <2>2. Consistent'
      BY <1>4, <2>1 DEF IInv, Consistent, Labels
    <2>3. \A r : Holders(r)' = Holders(r)
      BY <2>1 DEF MoveThread, Holders, IInv, Consistent
    <2>4. ResourcesAccounted'
      BY <2>1, <2>3, CountsKept DEF MoveThread
    <2> QED
      BY <2>2, <2>4 DEF IInv
  <1>8. CASE UseFreed(t)
    <2>1. ASSUME NEW x \in Labels, NEW y \in {"wait", "work"},
                 MoveThread(t, y, x), value' = value
          PROVE  IInv'
      <3>1. Consistent'
        BY <1>4, <2>1 DEF IInv, Consistent, Labels
      <3>2. ResourcesAccounted'
        BY <1>8, <2>1, FreedCounts DEF UseFreed, MoveThread
      <3> QED
        BY <3>1, <3>2 DEF IInv
    <2>2. AfterWork(t) \in Labels /\ "work" \in Labels
      BY DEF AfterWork, Labels
    <2> QED
      BY <1>2, <1>8, <2>1, <2>2 DEF UseFreed, Drivers
  <1> QED
    BY <1>1, <1>3, <1>5, <1>6, <1>7, <1>8 DEF ThreadStep

(* Every step preserves the invariant.                                     *)
LEMMA NextPreserves == IInv /\ [Next]_vars => IInv'
  <1> SUFFICES ASSUME IInv, [Next]_vars PROVE IInv'
    OBVIOUS
  <1>1. CASE UNCHANGED vars
    BY <1>1 DEF vars, clients, IInv, Consistent, ResourcesAccounted, Holders
  <1>2. CASE Next /\ ~UNCHANGED vars
    BY <1>2, ServerPreserves, DriverPreserves, ThreadPreserves DEF Next, Idle
  <1> QED
    BY <1>1, <1>2

(* server.c, client.c and scheduler_solution.c: the value of a semaphore   *)
(* is the number of its resources that no thread holds and none took along *)
(* when it was ended, for every number of clients, threads, resources,     *)
(* restarts and kills, until it is destroyed.                              *)
THEOREM ResourcesAreAccounted == Spec => []ResourcesAccounted
  <1>1. IInv => ResourcesAccounted
    BY DEF IInv
  <1> QED
    BY <1>1, InitIInv, NextPreserves, PTL DEF Spec
=============================================================================
