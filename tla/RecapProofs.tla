----------------------------- MODULE RecapProofs ----------------------------
(***************************************************************************)
(* For any number of children, threads, rounds, failures and killed runs:  *)
(* the children start together, one thread at a time is in the critical    *)
(* section, and the statistics count every access once.                    *)
(***************************************************************************)
EXTENDS Recap, FiniteSetTheorems, TLAPS

ThreadLabels == {"idle", "wait", "append", "leave", "done"}
ChildLabels  == {"unborn", "ready", "wait_go", "create", "join", "check",
                 "exited", "failed"}
MainLabels   == {"create", "init_file", "fork", "await", "release", "sleep",
                 "wait", "stats", "cleanup", "done", "failed"}

\* Where main is before it has forked, before it has let the children begin,
\* and after the last child has ended.
Preparing == main \in {"create", "init_file"}
Gathering == main \in {"create", "init_file", "fork", "await", "failed"}
Finishing == main \in {"stats", "cleanup", "done"}

Notified == {c \in Children : child[c] \notin {"unborn", "ready"}}
Over     == {c \in Children : child[c] \in {"exited", "failed"}}
Counted(c) == {k \in Threads : thread[c][k] \in {"leave", "done"}}

Types ==
    /\ sem \in [Names -> Int]
    /\ file \in [Children -> Int]
    /\ main \in MainLabels
    /\ i \in Nat /\ (main = "create" => i <= 3) /\ (main # "create" => i <= N - 1)
    /\ child \in [Children -> ChildLabels]
    /\ created \in [Children -> Int]
    /\ thread \in [Children -> [Threads -> ThreadLabels]]
    /\ rounds \in [Children -> Int]
    /\ winner \in Int

(* Threads exist while their child creates or joins them.                  *)
Family(c) ==
    /\ child[c] \notin {"create", "join"} => thread[c] = NoThreads
    /\ child[c] \notin {"create", "join", "failed"} => created[c] = 0
    /\ child[c] = "create" => created[c] \in 0 .. M - 1
    /\ child[c] \in {"create", "join"} =>
          \A k \in Threads : k > created[c] => thread[c][k] = "idle"

(* There are no children before the fork.                                  *)
Unborn ==
    /\ Preparing => \A c \in Children : child[c] = "unborn" /\ rounds[c] = 0
    /\ main = "init_file" => i = 0
    /\ main = "fork" => \A c \in Children : c >= i => child[c] = "unborn"

Families == Unborn /\ \A c \in Children : Family(c)

(* What main has taken from main_waits_for_children, what is on it and the *)
(* children that have posted; nothing is on children_wait_for_main yet.    *)
Barrier ==
    /\ Gathering /\ (main = "create" => i >= 2) =>
          sem["main_waits_for_children"] + (IF main = "await" THEN i ELSE 0)
              = Cardinality(Notified)
    /\ Gathering /\ (main = "create" => i >= 3) => sem["children_wait_for_main"] = 0
    /\ Gathering => \A c \in Children : ~Started(c)
    /\ ~Gathering => Notified = Children

(* One thread is in the critical section, and the value of the semaphore   *)
(* says so once this run has created it.                                   *)
Critical(c, k) == thread[c][k] \in {"append", "leave"}
Mutex ==
    /\ \A c, d \in Children, k, l \in Threads :
          Critical(c, k) /\ Critical(d, l) => c = d /\ k = l
    /\ main # "create" =>
          \/ sem["critical_section"] = 0
          \/ /\ sem["critical_section"] = 1
             /\ \A c \in Children, k \in Threads : ~Critical(c, k)

(* Every thread that has appended is counted, in this round or before.     *)
Exact(c) == file[c] = M * rounds[c] + Cardinality(Counted(c))
Accesses ==
    /\ ~Preparing => \A c \in Children : child[c] # "failed" => Exact(c)
    /\ \A c \in Children : /\ rounds[c] >= 0
                           /\ child[c] \in {"check", "exited"} => rounds[c] > 0

(* The best of the children the loop has looked at.                        *)
Best ==
    /\ Finishing => Over = Children
    /\ ~Finishing => winner = -1
    /\ main = "stats" => /\ winner \in -1 .. i - 1
                         /\ i # 0 => winner # -1
                         /\ \A d \in 0 .. i - 1 : file[d] <= file[winner]
    /\ main \in {"cleanup", "done"} =>
                         /\ winner \in 0 .. N - 1
                         /\ \A d \in Children : file[d] <= file[winner]
    /\ winner # -1 => \A d \in 0 .. winner - 1 : file[d] < file[winner]

IInv == Types /\ Families /\ Barrier /\ Mutex /\ Accesses /\ Best
-----------------------------------------------------------------------------
(* The names of the semaphores.                                            *)
LEMMA NamesAre ==
    Names = {"end_children_activities", "main_waits_for_children",
             "children_wait_for_main", "critical_section"}
  <1>1. 1 .. 4 = {1, 2, 3, 4}
    OBVIOUS
  <1> QED
    BY <1>1 DEF Names, SemOrder

(* One thread goes on.                                                     *)
LEMMA ThreadMoved ==
    ASSUME Types, NEW c \in Children, NEW k \in Threads, NEW x \in ThreadLabels,
           thread' = [thread EXCEPT ![c][k] = x]
    PROVE  /\ thread' \in [Children -> [Threads -> ThreadLabels]]
           /\ \A d \in Children : d # c => thread'[d] = thread[d]
           /\ \A l \in Threads : thread'[c][l] = IF l = k THEN x ELSE thread[c][l]
  <1>1. thread \in [Children -> [Threads -> ThreadLabels]]
    BY DEF Types
  <1>2. thread[c] \in [Threads -> ThreadLabels]
    BY <1>1
  <1>3. [thread[c] EXCEPT ![k] = x] \in [Threads -> ThreadLabels]
    BY <1>2
  <1>4. thread' = [thread EXCEPT ![c] = [thread[c] EXCEPT ![k] = x]]
    BY <1>1
  <1> QED
    BY <1>1, <1>2, <1>3, <1>4

(* All threads of one child are gone.                                      *)
LEMMA ThreadsGone ==
    ASSUME Types, NEW c \in Children, thread' = [thread EXCEPT ![c] = NoThreads]
    PROVE  /\ thread' \in [Children -> [Threads -> ThreadLabels]]
           /\ \A d \in Children : thread'[d] = IF d = c THEN NoThreads ELSE thread[d]
  <1>1. thread \in [Children -> [Threads -> ThreadLabels]]
    BY DEF Types
  <1>2. NoThreads \in [Threads -> ThreadLabels]
    BY DEF NoThreads, ThreadLabels
  <1> QED
    BY <1>1, <1>2

(* The types of the variables.                                             *)
LEMMA TypesNext == Types /\ Families /\ [Next]_vars => Types'
  <1> SUFFICES ASSUME Types, Families, [Next]_vars PROVE Types'
    OBVIOUS
  <1> USE NamesAre DEF Types
  <1>1. CASE CreateSemaphore
    <2>1. i \in 0 .. 3
      BY <1>1 DEF CreateSemaphore
    <2>2. SemOrder[i + 1] \in Names
      BY <2>1 DEF Names
    <2>3. InitialValue(SemOrder[i + 1]) \in Int
      BY DEF InitialValue
    <2>4. sem' = [sem EXCEPT ![SemOrder[i + 1]] = InitialValue(SemOrder[i + 1])]
      BY <1>1 DEF CreateSemaphore, create_named_semaphore
    <2> QED
      BY <1>1, <2>2, <2>3, <2>4, RecapAssumption
         DEF CreateSemaphore, budgets, family, MainLabels
  <1>2. CASE init_file
    BY <1>2, RecapAssumption DEF init_file, budgets, family, NoAccess, MainLabels
  <1>3. CASE Fork
    <2>1. child' \in [Children -> ChildLabels]
      BY <1>3 DEF Fork, ChildLabels
    <2> QED
      BY <1>3, <2>1, RecapAssumption DEF Fork, budgets, MainLabels
  <1>4. CASE ForkFails
    BY <1>4 DEF ForkFails, family, MainLabels
  <1>5. CASE AwaitChild
    BY <1>5, RecapAssumption DEF AwaitChild, budgets, family, MainLabels
  <1>6. CASE ReleaseChild
    BY <1>6, RecapAssumption DEF ReleaseChild, budgets, family, MainLabels
  <1>7. CASE NotifyEnd
    BY <1>7 DEF NotifyEnd, budgets, family, MainLabels
  <1>8. CASE Reap
    BY <1>8, RecapAssumption DEF Reap, budgets, family, MainLabels
  <1>9. CASE ComputeStats
    BY <1>9, RecapAssumption DEF ComputeStats, budgets, family, MainLabels
  <1>10. CASE CleanUp
    BY <1>10 DEF CleanUp, budgets, family, MainLabels
  <1>11. ASSUME NEW c \in Children, NotifyReady(c) PROVE Types'
    BY <1>11 DEF NotifyReady, budgets, ChildLabels
  <1>12. ASSUME NEW c \in Children, Begin(c) PROVE Types'
    BY <1>12 DEF Begin, budgets, ChildLabels
  <1>13. ASSUME NEW c \in Children, CreateThread(c) PROVE Types'
    <2>1. created[c] + 1 \in Threads
      BY <1>13, RecapAssumption DEF CreateThread, Families, Family, Threads
    <2>2. "wait" \in ThreadLabels /\ "join" \in ChildLabels
      BY DEF ThreadLabels, ChildLabels
    <2>3. thread' \in [Children -> [Threads -> ThreadLabels]]
      BY <1>13, <2>1, <2>2, ThreadMoved DEF CreateThread
    <2>4. child' \in [Children -> ChildLabels]
      BY <1>13, <2>2 DEF CreateThread
    <2>5. created' \in [Children -> Int]
      BY <1>13 DEF CreateThread
    <2> QED
      BY <1>13, <2>3, <2>4, <2>5 DEF CreateThread, budgets
  <1>14. ASSUME NEW c \in Children, CreateThreadFails(c) PROVE Types'
    <2>1. thread' \in [Children -> [Threads -> ThreadLabels]]
      BY <1>14, ThreadsGone DEF CreateThreadFails
    <2>2. child' \in [Children -> ChildLabels]
      BY <1>14 DEF CreateThreadFails, ChildLabels
    <2> QED
      BY <1>14, <2>1, <2>2 DEF CreateThreadFails
  <1>15. ASSUME NEW c \in Children, JoinThreads(c) PROVE Types'
    <2>1. thread' \in [Children -> [Threads -> ThreadLabels]]
      BY <1>15, ThreadsGone DEF JoinThreads
    <2>2. child' \in [Children -> ChildLabels]
      BY <1>15 DEF JoinThreads, ChildLabels
    <2>3. created' \in [Children -> Int] /\ rounds' \in [Children -> Int]
      BY <1>15 DEF JoinThreads
    <2> QED
      BY <1>15, <2>1, <2>2, <2>3 DEF JoinThreads, budgets
  <1>16. ASSUME NEW c \in Children, GoOn(c) PROVE Types'
    BY <1>16 DEF GoOn, budgets, ChildLabels
  <1>17. ASSUME NEW c \in Children, Finish(c) PROVE Types'
    BY <1>17 DEF Finish, budgets, ChildLabels
  <1>18. ASSUME NEW c \in Children, NEW k \in Threads, EnterCritical(c, k) PROVE Types'
    <2>1. "append" \in ThreadLabels
      BY DEF ThreadLabels
    <2>2. thread' \in [Children -> [Threads -> ThreadLabels]]
      BY <1>18, <2>1, ThreadMoved DEF EnterCritical, MoveThread
    <2> QED
      BY <1>18, <2>2 DEF EnterCritical, MoveThread, budgets
  <1>19. ASSUME NEW c \in Children, NEW k \in Threads, AppendId(c, k) PROVE Types'
    <2>1. "leave" \in ThreadLabels
      BY DEF ThreadLabels
    <2>2. thread' \in [Children -> [Threads -> ThreadLabels]]
      BY <1>19, <2>1, ThreadMoved DEF AppendId, MoveThread
    <2> QED
      BY <1>19, <2>2 DEF AppendId, MoveThread, budgets
  <1>20. ASSUME NEW c \in Children, NEW k \in Threads, LeaveCritical(c, k) PROVE Types'
    <2>1. "done" \in ThreadLabels
      BY DEF ThreadLabels
    <2>2. thread' \in [Children -> [Threads -> ThreadLabels]]
      BY <1>20, <2>1, ThreadMoved DEF LeaveCritical, MoveThread
    <2> QED
      BY <1>20, <2>2 DEF LeaveCritical, MoveThread, budgets
  <1>21. CASE KillAndRestart
    <2>1. thread' \in [Children -> [Threads -> ThreadLabels]]
      BY <1>21 DEF KillAndRestart, NoThreads, ThreadLabels
    <2> QED
      BY <1>21, <2>1 DEF KillAndRestart, NoAccess, MainLabels, ChildLabels
  <1>22. CASE UNCHANGED vars
    BY <1>22 DEF vars
  <1> QED
    BY <1>1, <1>2, <1>3, <1>4, <1>5, <1>6, <1>7, <1>8, <1>9, <1>10, <1>11, <1>12, <1>13, <1>14, <1>15, <1>16, <1>17, <1>18, <1>19, <1>20, <1>21, <1>22
       DEF Next, MainStep, ChildStep, ThreadStep, Ended

-----------------------------------------------------------------------------
\* A step of child c or of one of its threads.
ActsAs(c) == \/ ChildStep(c) \/ CreateThreadFails(c)
             \/ \E k \in Threads : ThreadStep(c, k)

\* A step of main that leaves the children alone.
MainAlone == \/ CreateSemaphore \/ init_file \/ ForkFails \/ AwaitChild
             \/ ReleaseChild \/ NotifyEnd \/ Reap \/ ComputeStats \/ CleanUp

(* The kinds of steps.                                                     *)
LEMMA StepKinds ==
    [Next]_vars => \/ MainAlone \/ Fork \/ KillAndRestart
                   \/ \E c \in Children : ActsAs(c)
                   \/ UNCHANGED vars
  BY DEF Next, MainStep, MainAlone, ActsAs, Ended

(* Children do not touch each other, nor main.                             *)
LEMMA OnlyItself ==
    ASSUME Types, NEW c \in Children, ActsAs(c)
    PROVE  /\ UNCHANGED <<main, i, winner>>
           /\ \A d \in Children : d # c =>
                 /\ child'[d] = child[d] /\ created'[d] = created[d]
                 /\ thread'[d] = thread[d] /\ rounds'[d] = rounds[d]
                 /\ file'[d] = file[d]
  <1> USE DEF Types
  <1>1. CASE NotifyReady(c)
    BY <1>1 DEF NotifyReady
  <1>2. CASE Begin(c)
    BY <1>2 DEF Begin
  <1>3. CASE CreateThread(c)
    BY <1>3 DEF CreateThread
  <1>4. CASE CreateThreadFails(c)
    BY <1>4 DEF CreateThreadFails
  <1>5. CASE JoinThreads(c)
    BY <1>5 DEF JoinThreads
  <1>6. CASE GoOn(c)
    BY <1>6 DEF GoOn
  <1>7. CASE Finish(c)
    BY <1>7 DEF Finish
  <1>8. CASE \E k \in Threads : ThreadStep(c, k)
    BY <1>8 DEF ThreadStep, EnterCritical, AppendId, LeaveCritical, MoveThread
  <1> QED
    BY <1>1, <1>2, <1>3, <1>4, <1>5, <1>6, <1>7, <1>8 DEF ActsAs, ChildStep

(* A thread that runs belongs to a child that creates or joins threads.    *)
LEMMA ThreadHasChild ==
    ASSUME Families, NEW c \in Children, NEW k \in Threads, thread[c][k] # "idle"
    PROVE  /\ child[c] \in {"create", "join"}
           /\ ~(k > created[c])
  BY DEF Families, Family, NoThreads

(* What a child does keeps its own threads in order.                       *)
LEMMA FamilyKept ==
    ASSUME Types, Families, NEW c \in Children, ActsAs(c)
    PROVE  Family(c)'
  <1>1. Family(c)
    BY DEF Families
  <1>2. /\ child[c] \in ChildLabels /\ created[c] \in Int
        /\ thread[c] \in [Threads -> ThreadLabels]
    BY DEF Types
  <1>3. \A k \in Threads : NoThreads[k] = "idle"
    BY DEF NoThreads
  <1>4. CASE NotifyReady(c)
    <2>1. child[c] = "ready" /\ child'[c] = "wait_go" /\ UNCHANGED <<thread, created>>
      BY <1>4 DEF NotifyReady, Types
    <2> QED
      BY <2>1, <1>1 DEF Family
  <1>5. CASE Begin(c) \/ GoOn(c)
    <2>1. /\ child[c] \in {"wait_go", "check"} /\ child'[c] = "create"
          /\ UNCHANGED <<thread, created>>
      BY <1>5 DEF Begin, GoOn, Types
    <2>2. 0 \in 0 .. M - 1
      BY RecapAssumption
    <2> QED
      BY <2>1, <2>2, <1>1, <1>3 DEF Family
  <1>6. CASE CreateThread(c)
    <2>1. child[c] = "create" /\ created[c] \in 0 .. M - 1
      BY <1>1, <1>6 DEF CreateThread, Family
    <2>2. created[c] + 1 \in Threads /\ "wait" \in ThreadLabels
      BY <2>1, RecapAssumption DEF Threads, ThreadLabels
    <2>3. \A l \in Threads : thread'[c][l] = IF l = created[c] + 1 THEN "wait"
                                                                ELSE thread[c][l]
      BY <2>2, <1>6, ThreadMoved DEF CreateThread
    <2>4. created'[c] = created[c] + 1
      BY <1>6 DEF CreateThread, Types
    <2>5. child'[c] = IF created'[c] = M THEN "join" ELSE "create"
      BY <1>6, <2>1 DEF CreateThread, Types
    <2>6. \A l \in Threads : l > created'[c] => thread'[c][l] = "idle"
      BY <2>1, <2>3, <2>4, <1>1 DEF Family, Threads
    <2>7. created'[c] # M => created'[c] \in 0 .. M - 1
      BY <2>1, <2>4, RecapAssumption
    <2> QED
      BY <2>5, <2>6, <2>7 DEF Family
  <1>7. CASE CreateThreadFails(c)
    <2>1. child'[c] = "failed" /\ thread'[c] = NoThreads
      BY <1>7, ThreadsGone DEF CreateThreadFails, Types
    <2> QED
      BY <2>1 DEF Family
  <1>8. CASE JoinThreads(c)
    <2>1. child'[c] = "check" /\ thread'[c] = NoThreads /\ created'[c] = 0
      BY <1>8, ThreadsGone DEF JoinThreads, Types
    <2> QED
      BY <2>1 DEF Family
  <1>9. CASE Finish(c)
    <2>1. child[c] = "check" /\ child'[c] = "exited" /\ UNCHANGED <<thread, created>>
      BY <1>9 DEF Finish, Types
    <2> QED
      BY <2>1, <1>1 DEF Family
  <1>10. ASSUME NEW k \in Threads, ThreadStep(c, k)
         PROVE  Family(c)'
    <2>1. thread[c][k] # "idle" /\ UNCHANGED <<child, created>>
      BY <1>10 DEF ThreadStep, EnterCritical, AppendId, LeaveCritical, MoveThread
    <2>2. PICK x \in ThreadLabels : thread' = [thread EXCEPT ![c][k] = x]
      BY <1>10 DEF ThreadStep, EnterCritical, AppendId, LeaveCritical, MoveThread,
                   ThreadLabels
    <2>3. \A l \in Threads : thread'[c][l] = IF l = k THEN x ELSE thread[c][l]
      BY <2>2, ThreadMoved
    <2>4. child[c] \in {"create", "join"} /\ ~(k > created[c])
      BY <2>1, ThreadHasChild
    <2> QED
      BY <2>1, <2>3, <2>4, <1>1 DEF Family
  <1> QED
    BY <1>4, <1>5, <1>6, <1>7, <1>8, <1>9, <1>10 DEF ActsAs, ChildStep

(* A child that acts was forked, and is not unborn again.                  *)
LEMMA ActsAlive ==
    ASSUME Types, Families, NEW c \in Children, ActsAs(c)
    PROVE  child[c] # "unborn" /\ child'[c] \notin {"unborn", "ready"}
  <1> USE DEF Types
  <1>1. CASE ChildStep(c) \/ CreateThreadFails(c)
    BY <1>1 DEF ChildStep, CreateThreadFails, NotifyReady, Begin, CreateThread,
                JoinThreads, GoOn, Finish
  <1>2. ASSUME NEW k \in Threads, ThreadStep(c, k)
        PROVE  child[c] # "unborn" /\ child'[c] \notin {"unborn", "ready"}
    <2>1. thread[c][k] # "idle" /\ UNCHANGED child
      BY <1>2 DEF ThreadStep, EnterCritical, AppendId, LeaveCritical, MoveThread
    <2> QED
      BY <2>1, ThreadHasChild
  <1> QED
    BY <1>1, <1>2 DEF ActsAs

(* The families stay in order.                                             *)
LEMMA FamiliesNext == Types /\ Families /\ [Next]_vars => Families'
  <1> SUFFICES ASSUME Types, Families, [Next]_vars PROVE Families'
    OBVIOUS
  <1>1. CASE MainAlone
    <2>1. UNCHANGED family
      BY <1>1 DEF MainAlone, CreateSemaphore, init_file, ForkFails, AwaitChild,
                  ReleaseChild, NotifyEnd, Reap, ComputeStats, CleanUp
    <2>2. Preparing' => Preparing
      BY <1>1 DEF MainAlone, CreateSemaphore, init_file, ForkFails, AwaitChild,
                  ReleaseChild, NotifyEnd, Reap, ComputeStats, CleanUp, Preparing
    <2>3. main' = "init_file" => i' = 0
      BY <1>1 DEF MainAlone, CreateSemaphore, init_file, ForkFails, AwaitChild,
                  ReleaseChild, NotifyEnd, Reap, ComputeStats, CleanUp
    <2>4. main' = "fork" => Preparing
      BY <1>1 DEF MainAlone, CreateSemaphore, init_file, ForkFails, AwaitChild,
                  ReleaseChild, NotifyEnd, Reap, ComputeStats, CleanUp, Preparing
    <2>5. Unborn'
      BY <2>1, <2>2, <2>3, <2>4 DEF Unborn, Families, family
    <2> QED
      BY <2>1, <2>5 DEF Families, Family, family
  <1>2. CASE Fork
    <2>1. /\ main = "fork" /\ child' = [child EXCEPT ![i] = "ready"]
          /\ UNCHANGED <<created, thread, rounds>>
          /\ main' = "fork" => main = "fork" /\ i' = i + 1
          /\ main' \in {"fork", "await"}
      BY <1>2 DEF Fork
    <2>2. i \in Children
      BY <2>1, RecapAssumption DEF Types, Children
    <2>3. child[i] = "unborn"
      BY <2>1, <2>2 DEF Families, Unborn, Types
    <2>4. \A d \in Children : Family(d)'
      BY <2>1, <2>3 DEF Families, Family, Types
    <2>5. main' = "fork" => \A d \in Children : d >= i' => child'[d] = "unborn"
      BY <2>1 DEF Families, Unborn, Types, Children
    <2>6. Unborn'
      BY <2>1, <2>5 DEF Unborn, Preparing
    <2> QED
      BY <2>4, <2>6 DEF Families
  <1>3. ASSUME NEW c \in Children, ActsAs(c)
        PROVE  Families'
    <2>1. /\ UNCHANGED <<main, i>>
          /\ \A d \in Children : d # c =>
                 /\ child'[d] = child[d] /\ created'[d] = created[d]
                 /\ thread'[d] = thread[d] /\ rounds'[d] = rounds[d]
      BY <1>3, OnlyItself
    <2>2. child[c] # "unborn"
      BY <1>3, ActsAlive
    <2>3. ~Preparing /\ (main = "fork" => ~(c >= i))
      BY <2>2 DEF Families, Unborn
    <2>4. Unborn'
      BY <2>1, <2>3 DEF Families, Unborn, Preparing
    <2>5. \A d \in Children : d # c => Family(d)'
      BY <2>1 DEF Families, Family
    <2> QED
      BY <2>4, <2>5, <1>3, FamilyKept DEF Families
  <1>4. CASE KillAndRestart
    BY <1>4 DEF KillAndRestart, Families, Unborn, Family, NoAccess
  <1>5. CASE UNCHANGED vars
    BY <1>5 DEF vars, Families, Unborn, Family, Preparing
  <1> QED
    BY <1>1, <1>2, <1>3, <1>4, <1>5, StepKinds

-----------------------------------------------------------------------------
(* Nobody is in the critical section before there are children.            *)
LEMMA NoneCritical ==
    ASSUME Families, Preparing, NEW c \in Children, NEW k \in Threads
    PROVE  ~Critical(c, k)
  BY DEF Families, Unborn, Family, NoThreads, Critical

(* Threads may vanish from the critical section, and then it stays closed. *)
LEMMA MutexShrinks ==
    ASSUME Mutex, main' = main, sem'["critical_section"] = sem["critical_section"],
           \A d \in Children, l \in Threads : Critical(d, l)' => Critical(d, l)
    PROVE  Mutex'
  BY DEF Mutex

(* The critical section stays exclusive.                                   *)
LEMMA MutexNext == Types /\ Families /\ Mutex /\ [Next]_vars => Mutex'
  <1> SUFFICES ASSUME Types, Families, Mutex, [Next]_vars PROVE Mutex'
    OBVIOUS
  <1> USE NamesAre
  <1>1. CASE CreateSemaphore
    <2>1. /\ main = "create" /\ UNCHANGED thread
          /\ sem' = [sem EXCEPT ![SemOrder[i + 1]] = InitialValue(SemOrder[i + 1])]
          /\ main' # "create" => ~(i + 1 < 4)
      BY <1>1 DEF CreateSemaphore, create_named_semaphore, family
    <2>2. \A d \in Children, l \in Threads : ~Critical(d, l)'
      BY <2>1, NoneCritical DEF Preparing, Critical
    <2>3. main' # "create" => i = 3
      BY <2>1 DEF Types
    <2>4. main' # "create" => sem'["critical_section"] = 1
      BY <2>1, <2>3 DEF Types, SemOrder, InitialValue
    <2> QED
      BY <2>2, <2>4 DEF Mutex
  <1>2. CASE MainAlone /\ ~CreateSemaphore
    <2>1. /\ main # "create" /\ UNCHANGED thread
          /\ sem'["critical_section"] = sem["critical_section"]
      BY <1>2 DEF MainAlone, init_file, ForkFails, AwaitChild, family, Types,
                  ReleaseChild, NotifyEnd, Reap, ComputeStats, CleanUp
    <2> QED
      BY <2>1 DEF Mutex, Critical
  <1>3. CASE Fork
    BY <1>3 DEF Fork, Mutex, Critical
  <1>4. ASSUME NEW c \in Children, ChildStep(c) \/ CreateThreadFails(c)
        PROVE  Mutex'
    <2>1. main' = main
      BY <1>4, OnlyItself DEF ActsAs
    <2>2. sem'["critical_section"] = sem["critical_section"]
      BY <1>4 DEF ChildStep, CreateThreadFails, NotifyReady, Begin, CreateThread,
                  JoinThreads, GoOn, Finish, Types
    <2>3. CASE NotifyReady(c) \/ Begin(c) \/ GoOn(c) \/ Finish(c)
      <3>1. UNCHANGED thread
        BY <2>3 DEF NotifyReady, Begin, GoOn, Finish
      <3> QED
        BY <3>1, <2>1, <2>2, MutexShrinks DEF Critical
    <2>4. CASE CreateThread(c)
      <3>1. created[c] + 1 \in Threads /\ "wait" \in ThreadLabels
        BY <2>4, RecapAssumption DEF CreateThread, Families, Family, Threads, ThreadLabels
      <3>2. /\ \A d \in Children : d # c => thread'[d] = thread[d]
            /\ \A l \in Threads : thread'[c][l] = IF l = created[c] + 1 THEN "wait"
                                                                     ELSE thread[c][l]
        BY <3>1, <2>4, ThreadMoved DEF CreateThread
      <3>3. \A d \in Children, l \in Threads : Critical(d, l)' => Critical(d, l)
        BY <3>2 DEF Critical
      <3> QED
        BY <3>3, <2>1, <2>2, MutexShrinks
    <2>5. CASE CreateThreadFails(c) \/ JoinThreads(c)
      <3>1. \A d \in Children : thread'[d] = IF d = c THEN NoThreads ELSE thread[d]
        BY <2>5, ThreadsGone DEF CreateThreadFails, JoinThreads
      <3>2. \A d \in Children, l \in Threads : Critical(d, l)' => Critical(d, l)
        BY <3>1 DEF Critical, NoThreads
      <3> QED
        BY <3>2, <2>1, <2>2, MutexShrinks
    <2> QED
      BY <1>4, <2>3, <2>4, <2>5 DEF ChildStep
  <1>5. ASSUME NEW c \in Children, NEW k \in Threads, ThreadStep(c, k)
        PROVE  Mutex'
    <2>1. main' = main
      BY <1>5, OnlyItself DEF ActsAs
    <2>2. main # "create"
      <3>1. child[c] # "unborn"
        BY <1>5, ActsAlive DEF ActsAs
      <3> QED
        BY <3>1 DEF Families, Unborn, Preparing
    <2>3. PICK x \in ThreadLabels : thread' = [thread EXCEPT ![c][k] = x]
                                    /\ (EnterCritical(c, k) => x = "append")
                                    /\ (AppendId(c, k) => x = "leave")
                                    /\ (LeaveCritical(c, k) => x = "done")
      BY <1>5 DEF ThreadStep, EnterCritical, AppendId, LeaveCritical, MoveThread,
                  ThreadLabels
    <2>4. /\ \A d \in Children : d # c => thread'[d] = thread[d]
          /\ \A l \in Threads : thread'[c][l] = IF l = k THEN x ELSE thread[c][l]
      BY <2>3, ThreadMoved
    <2>5. \A d \in Children, l \in Threads :
             ~(d = c /\ l = k) => (Critical(d, l)' <=> Critical(d, l))
      BY <2>4 DEF Critical
    <2>6. Critical(c, k)' <=> x \in {"append", "leave"}
      BY <2>4 DEF Critical
    <2>7. CASE EnterCritical(c, k)
      <3>1. /\ sem["critical_section"] > 0
            /\ sem'["critical_section"] = sem["critical_section"] - 1
        BY <2>7 DEF EnterCritical, Types
      <3>2. sem["critical_section"] = 1 /\ \A d \in Children, l \in Threads : ~Critical(d, l)
        BY <3>1, <2>2 DEF Mutex
      <3>3. \A d \in Children, l \in Threads : Critical(d, l)' => d = c /\ l = k
        BY <3>2, <2>5
      <3> QED
        BY <3>1, <3>2, <3>3 DEF Mutex
    <2>8. CASE AppendId(c, k)
      <3>1. Critical(c, k) /\ UNCHANGED sem
        BY <2>8 DEF AppendId, MoveThread, Critical
      <3>2. \A d \in Children, l \in Threads : Critical(d, l)' => Critical(d, l)
        BY <3>1, <2>5
      <3> QED
        BY <3>1, <3>2, <2>1, MutexShrinks
    <2>9. CASE LeaveCritical(c, k)
      <3>1. Critical(c, k) /\ sem'["critical_section"] = sem["critical_section"] + 1
        BY <2>9 DEF LeaveCritical, MoveThread, Critical, Types
      <3>2. sem["critical_section"] = 0
        BY <3>1, <2>2 DEF Mutex
      <3>3. ~Critical(c, k)'
        BY <2>3, <2>6, <2>9
      <3>4. \A d \in Children, l \in Threads : ~Critical(d, l)'
        BY <3>1, <3>3, <2>5 DEF Mutex
      <3> QED
        BY <3>1, <3>2, <3>4 DEF Mutex
    <2> QED
      BY <1>5, <2>7, <2>8, <2>9 DEF ThreadStep
  <1>6. CASE KillAndRestart
    BY <1>6 DEF KillAndRestart, Mutex, Critical, NoThreads
  <1>7. CASE UNCHANGED vars
    BY <1>7 DEF vars, Mutex, Critical
  <1> QED
    BY <1>1, <1>2, <1>3, <1>4, <1>5, <1>6, <1>7, StepKinds DEF ActsAs

-----------------------------------------------------------------------------
(* Counting children.                                                      *)
LEMMA ChildrenCount ==
    /\ IsFiniteSet(Children) /\ Cardinality(Children) = N
    /\ IsFiniteSet(Notified) /\ Cardinality(Notified) \in Nat
    /\ IsFiniteSet(Over) /\ Cardinality(Over) \in Nat
    /\ Cardinality(Notified) >= N => Notified = Children
    /\ Cardinality(Over) >= N => Over = Children
  <1>1. IsFiniteSet(Children) /\ Cardinality(Children) = N
    <2>1. 0 <= N - 1 /\ 0 \in Int /\ N - 1 \in Int /\ (N - 1) - 0 + 1 = N
      BY RecapAssumption
    <2> QED
      BY <2>1, FS_Interval DEF Children
  <1>2. /\ IsFiniteSet(Notified) /\ Cardinality(Notified) <= N
        /\ Cardinality(Notified) = N => Notified = Children
    BY <1>1, FS_Subset DEF Notified
  <1>3. /\ IsFiniteSet(Over) /\ Cardinality(Over) <= N
        /\ Cardinality(Over) = N => Over = Children
    BY <1>1, FS_Subset DEF Over
  <1>4. Cardinality(Notified) \in Nat /\ Cardinality(Over) \in Nat
    BY <1>2, <1>3, FS_CardinalityType
  <1> QED
    BY <1>1, <1>2, <1>3, <1>4, RecapAssumption

(* A child that has begun shows that main has released the children; so    *)
(* does one that finds a post to begin with.                               *)
LEMMA ActsReleased ==
    ASSUME Types, Families, Barrier, NEW c \in Children, ActsAs(c), ~NotifyReady(c)
    PROVE  ~Gathering
  <1>1. child[c] # "unborn"
    BY ActsAlive
  <1>2. main # "create"
    BY <1>1 DEF Families, Unborn, Preparing
  <1>3. CASE Begin(c)
    BY <1>2, <1>3 DEF Begin, Barrier
  <1>4. CASE ~Begin(c)
    <2>1. Started(c) \/ \E k \in Threads : ThreadStep(c, k)
      BY <1>4 DEF ActsAs, ChildStep, CreateThread, CreateThreadFails, JoinThreads,
                  GoOn, Finish, Started
    <2>2. ASSUME NEW k \in Threads, ThreadStep(c, k) PROVE Started(c)
      <3>1. thread[c][k] # "idle"
        BY <2>2 DEF ThreadStep, EnterCritical, AppendId, LeaveCritical, MoveThread
      <3> QED
        BY <3>1, ThreadHasChild DEF Started
    <2> QED
      BY <2>1, <2>2 DEF Barrier
  <1> QED
    BY <1>3, <1>4

(* The barrier.                                                            *)
LEMMA BarrierNext == Types /\ Families /\ Barrier /\ [Next]_vars => Barrier'
  <1> SUFFICES ASSUME Types, Families, Barrier, [Next]_vars PROVE Barrier'
    OBVIOUS
  <1> USE NamesAre
  <1>1. CASE CreateSemaphore
    <2>1. /\ main = "create" /\ UNCHANGED child
          /\ sem' = [sem EXCEPT ![SemOrder[i + 1]] = InitialValue(SemOrder[i + 1])]
          /\ \/ main' = "create" /\ i' = i + 1
             \/ main' = "init_file" /\ i' = 0 /\ ~(i + 1 < 4)
      BY <1>1 DEF CreateSemaphore, create_named_semaphore, family
    <2>2. i \in {0, 1, 2, 3} /\ sem \in [Names -> Int]
      BY <2>1 DEF Types
    <2>3. /\ sem'["main_waits_for_children"] =
                IF i = 1 THEN 0 ELSE sem["main_waits_for_children"]
          /\ sem'["children_wait_for_main"] =
                IF i = 2 THEN 0 ELSE sem["children_wait_for_main"]
      <3>1. SemOrder[1] = "end_children_activities" /\ SemOrder[4] = "critical_section"
        BY DEF SemOrder
      <3>2. SemOrder[2] = "main_waits_for_children" /\ SemOrder[3] = "children_wait_for_main"
        BY DEF SemOrder
      <3>3. CASE i = 0
        BY <3>1, <3>3, <2>1, <2>2
      <3>4. CASE i = 1
        BY <3>2, <3>4, <2>1, <2>2 DEF InitialValue
      <3>5. CASE i = 2
        BY <3>2, <3>5, <2>1, <2>2 DEF InitialValue
      <3>6. CASE i = 3
        BY <3>1, <3>6, <2>1, <2>2
      <3> QED
        BY <3>3, <3>4, <3>5, <3>6, <2>2
    <2>4. Notified = {} /\ Notified' = {}
      BY <2>1 DEF Families, Unborn, Preparing, Notified
    <2>5. Cardinality(Notified) = 0 /\ Cardinality(Notified') = 0
      BY <2>4, FS_EmptySet
    <2>6. Gathering /\ Gathering'
      BY <2>1 DEF Gathering
    <2>7. \A c \in Children : ~Started(c)'
      BY <2>1, <2>6 DEF Barrier, Started
    <2> QED
      BY <2>1, <2>2, <2>3, <2>5, <2>6, <2>7 DEF Barrier
  <1>2. CASE init_file \/ ForkFails
    <2>1. /\ UNCHANGED <<sem, child>> /\ main \in {"init_file", "fork"}
          /\ main' \in {"fork", "failed"}
      BY <1>2 DEF init_file, ForkFails, family
    <2>2. Notified' = Notified /\ (\A c \in Children : Started(c)' <=> Started(c))
      BY <2>1 DEF Notified, Started
    <2> QED
      BY <2>1, <2>2 DEF Barrier, Gathering
  <1>3. CASE Fork
    <2>1. /\ UNCHANGED sem /\ main = "fork" /\ child' = [child EXCEPT ![i] = "ready"]
          /\ main' = "fork" \/ (main' = "await" /\ i' = 0)
      BY <1>3 DEF Fork
    <2>2. i \in Children /\ child[i] = "unborn"
      BY <2>1, RecapAssumption DEF Types, Children, Families, Unborn
    <2>3. Notified' = Notified
      BY <2>1, <2>2 DEF Notified, Types
    <2>4. \A c \in Children : ~Started(c)'
      BY <2>1 DEF Barrier, Gathering, Started, Types
    <2> QED
      BY <2>1, <2>3, <2>4, ChildrenCount DEF Barrier, Gathering, Types
  <1>4. CASE AwaitChild
    <2>1. /\ main = "await" /\ sem["main_waits_for_children"] > 0 /\ UNCHANGED child
          /\ sem' = [sem EXCEPT !["main_waits_for_children"] = @ - 1]
          /\ \/ main' = "await" /\ i' = i + 1
             \/ main' = "release" /\ ~(i + 1 < N)
      BY <1>4 DEF AwaitChild, family
    <2>2. /\ sem'["main_waits_for_children"] = sem["main_waits_for_children"] - 1
          /\ sem'["children_wait_for_main"] = sem["children_wait_for_main"]
          /\ sem["main_waits_for_children"] \in Int /\ i \in Nat /\ i <= N - 1
      BY <2>1 DEF Types
    <2>3. Notified' = Notified /\ (\A c \in Children : Started(c)' <=> Started(c))
      BY <2>1 DEF Notified, Started
    <2>4. sem["main_waits_for_children"] + i = Cardinality(Notified)
      BY <2>1 DEF Barrier, Gathering
    <2>5. CASE main' = "await"
      BY <2>1, <2>2, <2>3, <2>4, <2>5 DEF Barrier, Gathering
    <2>6. CASE main' = "release"
      <3>1. Cardinality(Notified) >= N
        BY <2>1, <2>2, <2>4, <2>6, RecapAssumption
      <3>2. Notified' = Children
        BY <3>1, <2>3, ChildrenCount
      <3> QED
        BY <3>2, <2>6 DEF Barrier, Gathering
    <2> QED
      BY <2>1, <2>5, <2>6
  <1>5. CASE ReleaseChild \/ NotifyEnd \/ Reap \/ ComputeStats \/ CleanUp
    <2>1. /\ main \in {"release", "sleep", "wait", "stats", "cleanup"} /\ UNCHANGED child
          /\ main' \in {"release", "sleep", "wait", "stats", "cleanup", "done"}
      BY <1>5 DEF ReleaseChild, NotifyEnd, Reap, ComputeStats, CleanUp, family
    <2> QED
      BY <2>1 DEF Barrier, Gathering, Notified
  <1>6. ASSUME NEW c \in Children, ActsAs(c), ~NotifyReady(c)
        PROVE  Barrier'
    <2>1. ~Gathering /\ ~Gathering'
      BY <1>6, ActsReleased, OnlyItself DEF Gathering
    <2>2. \A d \in Children : child'[d] \notin {"unborn", "ready"}
      <3>1. \A d \in Children : d # c => child'[d] = child[d]
        BY <1>6, OnlyItself
      <3>2. \A d \in Children : child[d] \notin {"unborn", "ready"}
        BY <2>1 DEF Barrier, Notified
      <3> QED
        BY <1>6, <3>1, <3>2, ActsAlive
    <2> QED
      BY <2>1, <2>2 DEF Barrier, Notified
  <1>7. ASSUME NEW c \in Children, NotifyReady(c)
        PROVE  Barrier'
    <2>1. /\ child[c] = "ready" /\ UNCHANGED <<main, i>>
          /\ sem' = [sem EXCEPT !["main_waits_for_children"] = @ + 1]
          /\ child' = [child EXCEPT ![c] = "wait_go"]
      BY <1>7 DEF NotifyReady
    <2>2. /\ sem'["main_waits_for_children"] = sem["main_waits_for_children"] + 1
          /\ sem'["children_wait_for_main"] = sem["children_wait_for_main"]
          /\ sem["main_waits_for_children"] \in Int /\ i \in Nat
      BY <2>1 DEF Types
    <2>3. Gathering /\ Gathering' /\ main # "create"
      BY <2>1 DEF Barrier, Notified, Gathering, Families, Unborn, Preparing
    <2>4. Notified' = Notified \cup {c} /\ c \notin Notified
      BY <2>1 DEF Notified, Types
    <2>5. Cardinality(Notified') = Cardinality(Notified) + 1
      BY <2>4, ChildrenCount, FS_AddElement
    <2>6. \A d \in Children : ~Started(d)'
      BY <2>1, <2>3 DEF Barrier, Started, Types
    <2> QED
      BY <2>1, <2>2, <2>3, <2>5, <2>6, ChildrenCount DEF Barrier
  <1>8. CASE KillAndRestart
    BY <1>8 DEF KillAndRestart, Barrier, Gathering, Started
  <1>9. CASE UNCHANGED vars
    BY <1>9 DEF vars, Barrier, Gathering, Started, Notified
  <1> QED
    BY <1>1, <1>2, <1>3, <1>4, <1>5, <1>6, <1>7, <1>8, <1>9, StepKinds DEF MainAlone

-----------------------------------------------------------------------------
(* Counting the threads of a child that have appended its id.              *)
LEMMA CountedFinite ==
    ASSUME NEW c
    PROVE  /\ IsFiniteSet(Counted(c)) /\ Cardinality(Counted(c)) \in Nat
           /\ Cardinality(Threads) = M
  <1>1. IsFiniteSet(Threads) /\ Cardinality(Threads) = M
    <2>1. 1 <= M /\ 1 \in Int /\ M \in Int /\ M - 1 + 1 = M
      BY RecapAssumption
    <2> QED
      BY <2>1, FS_Interval DEF Threads
  <1>2. IsFiniteSet(Counted(c))
    BY <1>1, FS_Subset DEF Counted
  <1> QED
    BY <1>1, <1>2, FS_CardinalityType

(* A child without threads has none to count.                              *)
LEMMA NoneCounted ==
    ASSUME NEW c, thread[c] = NoThreads
    PROVE  Cardinality(Counted(c)) = 0
  <1>1. Counted(c) = {}
    BY DEF Counted, NoThreads
  <1> QED
    BY <1>1, FS_EmptySet

(* The count of a child that keeps its threads, rounds and file entries.   *)
LEMMA ExactKept ==
    ASSUME NEW c, thread'[c] = thread[c], rounds'[c] = rounds[c], file'[c] = file[c]
    PROVE  Exact(c)' <=> Exact(c)
  <1>1. Counted(c)' = Counted(c)
    BY DEF Counted
  <1> QED
    BY <1>1 DEF Exact

(* What a child and its threads do keeps the count.                        *)
LEMMA ExactNext ==
    ASSUME Types, Families, Accesses, NEW c \in Children, ActsAs(c)
    PROVE  /\ child'[c] # "failed" => Exact(c)'
           /\ rounds'[c] >= 0
           /\ child'[c] \in {"check", "exited"} => rounds'[c] > 0
  <1>1. child[c] # "unborn" /\ ~Preparing
    BY ActsAlive DEF Families, Unborn
  <1>2. rounds[c] >= 0 /\ rounds[c] \in Int /\ M \in Int
    BY RecapAssumption DEF Accesses, Types
  <1>3. CASE NotifyReady(c) \/ Begin(c) \/ GoOn(c) \/ Finish(c)
    <2>1. /\ UNCHANGED <<thread, rounds, file>> /\ child[c] # "failed"
          /\ child'[c] \in {"check", "exited"} => child[c] = "check"
      BY <1>3 DEF NotifyReady, Begin, GoOn, Finish, Types
    <2> QED
      BY <2>1, <1>1, ExactKept DEF Accesses
  <1>4. CASE CreateThread(c)
    <2>1. /\ child[c] = "create" /\ UNCHANGED <<rounds, file>>
          /\ child'[c] \notin {"check", "exited"}
      BY <1>4 DEF CreateThread, Types
    <2>2. created[c] + 1 \in Threads /\ "wait" \in ThreadLabels
      BY <2>1, RecapAssumption DEF Families, Family, Threads, ThreadLabels
    <2>3. \A l \in Threads : thread'[c][l] = IF l = created[c] + 1 THEN "wait"
                                                                ELSE thread[c][l]
      BY <2>2, <1>4, ThreadMoved DEF CreateThread
    <2>4. thread[c][created[c] + 1] = "idle"
      BY <2>1, <2>2 DEF Families, Family
    <2>5. Counted(c)' = Counted(c)
      BY <2>3, <2>4 DEF Counted
    <2> QED
      BY <2>1, <2>5, <1>1, <1>2 DEF Accesses, Exact
  <1>5. CASE CreateThreadFails(c)
    BY <1>2, <1>5 DEF CreateThreadFails, Types
  <1>6. CASE JoinThreads(c)
    <2>1. /\ child[c] = "join" /\ \A k \in Threads : thread[c][k] = "done"
          /\ rounds'[c] = rounds[c] + 1 /\ UNCHANGED file
          /\ thread'[c] = NoThreads
      BY <1>6, ThreadsGone DEF JoinThreads, Types
    <2>2. Counted(c) = Threads
      BY <2>1 DEF Counted
    <2>3. Counted(c)' = {}
      BY <2>1 DEF Counted, NoThreads
    <2>4. Cardinality(Counted(c)) = M /\ Cardinality(Counted(c)') = 0
      BY <2>2, <2>3, CountedFinite, FS_EmptySet
    <2>5. file[c] = M * rounds[c] + M
      BY <2>1, <2>4, <1>1 DEF Accesses, Exact
    <2>6. M * rounds'[c] = M * rounds[c] + M
      BY <2>1, <1>2
    <2>7. M * rounds'[c] + 0 = M * rounds'[c]
      BY <2>1, <1>2
    <2>8. Exact(c)'
      BY <2>1, <2>4, <2>5, <2>6, <2>7 DEF Exact
    <2> QED
      BY <2>1, <2>8, <1>2
  <1>7. ASSUME NEW k \in Threads, ThreadStep(c, k)
        PROVE  /\ child'[c] # "failed" => Exact(c)'
               /\ rounds'[c] >= 0
               /\ child'[c] \in {"check", "exited"} => rounds'[c] > 0
    <2>1. thread[c][k] # "idle" /\ UNCHANGED <<child, rounds>>
      BY <1>7 DEF ThreadStep, EnterCritical, AppendId, LeaveCritical, MoveThread
    <2>2. child[c] \in {"create", "join"}
      BY <2>1, ThreadHasChild
    <2>3. Exact(c)
      BY <2>2, <1>1 DEF Accesses
    <2>4. CASE AppendId(c, k)
      <3>1. /\ thread[c][k] = "append" /\ thread' = [thread EXCEPT ![c][k] = "leave"]
            /\ "leave" \in ThreadLabels /\ file'[c] = file[c] + 1
        BY <2>4 DEF AppendId, MoveThread, ThreadLabels, Types
      <3>2. \A l \in Threads : thread'[c][l] = IF l = k THEN "leave" ELSE thread[c][l]
        BY <3>1, ThreadMoved
      <3>3. Counted(c)' = Counted(c) \cup {k} /\ k \notin Counted(c)
        BY <3>1, <3>2 DEF Counted
      <3>4. Cardinality(Counted(c)') = Cardinality(Counted(c)) + 1
        BY <3>3, CountedFinite, FS_AddElement
      <3>5. M * rounds[c] \in Int /\ file[c] \in Int /\ Cardinality(Counted(c)) \in Int
        BY <1>2, CountedFinite DEF Types
      <3> DEFINE n == M * rounds[c]
      <3>6. file[c] = n + Cardinality(Counted(c)) /\ n \in Int
        BY <2>3, <3>5 DEF Exact
      <3> HIDE DEF n
      <3>7. file'[c] = n + Cardinality(Counted(c)')
        BY <3>1, <3>4, <3>5, <3>6
      <3> QED
        BY <3>7, <2>1, <2>2, <1>2 DEF Exact, n
    <2>5. CASE EnterCritical(c, k) \/ LeaveCritical(c, k)
      <3>1. PICK x \in ThreadLabels : /\ thread' = [thread EXCEPT ![c][k] = x]
                                      /\ x \in {"leave", "done"} <=>
                                            thread[c][k] \in {"leave", "done"}
        BY <2>5 DEF EnterCritical, LeaveCritical, MoveThread, ThreadLabels
      <3>2. \A l \in Threads : thread'[c][l] = IF l = k THEN x ELSE thread[c][l]
        BY <3>1, ThreadMoved
      <3>3. Counted(c)' = Counted(c)
        BY <3>1, <3>2 DEF Counted
      <3>4. UNCHANGED file
        BY <2>5 DEF EnterCritical, LeaveCritical
      <3> QED
        BY <3>3, <3>4, <2>1, <2>2, <2>3, <1>2 DEF Exact
    <2> QED
      BY <1>7, <2>4, <2>5 DEF ThreadStep
  <1> QED
    BY <1>3, <1>4, <1>5, <1>6, <1>7 DEF ActsAs, ChildStep

(* The counts stay exact.                                                  *)
LEMMA AccessesNext == Types /\ Families /\ Accesses /\ [Next]_vars => Accesses'
  <1> SUFFICES ASSUME Types, Families, Accesses, [Next]_vars PROVE Accesses'
    OBVIOUS
  <1>1. CASE init_file
    <2>1. /\ UNCHANGED <<child, thread, rounds>> /\ main = "init_file"
          /\ \A c \in Children : file'[c] = 0
      BY <1>1 DEF init_file, family, NoAccess
    <2>2. ASSUME NEW c \in Children PROVE Exact(c)'
      <3>1. child[c] = "unborn" /\ rounds[c] = 0
        BY <2>1 DEF Families, Unborn, Preparing
      <3>2. thread[c] = NoThreads
        BY <3>1 DEF Families, Family
      <3>3. Counted(c)' = Counted(c)
        BY <2>1 DEF Counted
      <3>4. Cardinality(Counted(c)') = 0
        BY <3>2, <3>3, NoneCounted
      <3>5. M * rounds'[c] = 0
        BY <3>1, <2>1, RecapAssumption
      <3> QED
        BY <2>1, <3>4, <3>5 DEF Exact
    <2> QED
      BY <2>1, <2>2 DEF Accesses
  <1>2. CASE MainAlone /\ ~init_file
    <2>1. UNCHANGED <<file, child, thread, rounds>> /\ (~Preparing' => ~Preparing)
      BY <1>2 DEF MainAlone, CreateSemaphore, ForkFails, AwaitChild, ReleaseChild,
                  NotifyEnd, Reap, ComputeStats, CleanUp, Preparing, family
    <2> QED
      BY <2>1, ExactKept DEF Accesses
  <1>3. CASE Fork
    <2>1. /\ UNCHANGED <<file, thread, rounds>> /\ ~Preparing
          /\ child' = [child EXCEPT ![i] = "ready"] /\ main = "fork"
      BY <1>3 DEF Fork, Preparing
    <2>2. i \in Children /\ child[i] = "unborn"
      BY <2>1, RecapAssumption DEF Types, Children, Families, Unborn
    <2>3. \A c \in Children : child'[c] = IF c = i THEN "ready" ELSE child[c]
      BY <2>1 DEF Types
    <2> QED
      BY <2>1, <2>2, <2>3, ExactKept DEF Accesses
  <1>4. ASSUME NEW c \in Children, ActsAs(c)
        PROVE  Accesses'
    <2>1. /\ UNCHANGED main
          /\ \A d \in Children : d # c =>
                /\ child'[d] = child[d] /\ thread'[d] = thread[d]
                /\ rounds'[d] = rounds[d] /\ file'[d] = file[d]
      BY <1>4, OnlyItself
    <2>2. Preparing' <=> Preparing
      BY <2>1 DEF Preparing
    <2>3. \A d \in Children : d # c => (Exact(d)' <=> Exact(d))
      BY <2>1, ExactKept
    <2> QED
      BY <2>1, <2>2, <2>3, <1>4, ExactNext DEF Accesses
  <1>5. CASE KillAndRestart
    BY <1>5 DEF KillAndRestart, Accesses, Preparing, NoAccess
  <1>6. CASE UNCHANGED vars
    BY <1>6 DEF vars, Accesses, Preparing, Exact, Counted
  <1> QED
    BY <1>1, <1>2, <1>3, <1>4, <1>5, <1>6, StepKinds

(* The loop over the statistics finds the best child.                      *)
LEMMA BestNext == Types /\ Families /\ Best /\ [Next]_vars => Best'
  <1> SUFFICES ASSUME Types, Families, Best, [Next]_vars PROVE Best'
    OBVIOUS
  <1>1. CASE Reap
    <2>1. /\ main = "wait" /\ i < Cardinality(Over) /\ UNCHANGED <<child, file, winner>>
          /\ \/ main' = "wait"
             \/ main' = "stats" /\ i' = 0 /\ ~(i + 1 < N)
      BY <1>1 DEF Reap, family, Over
    <2>2. Over' = Over
      BY <2>1 DEF Over
    <2>3. winner = -1
      BY <2>1 DEF Best, Finishing
    <2>4. main' = "stats" => Cardinality(Over) >= N
      BY <2>1, ChildrenCount, RecapAssumption DEF Types
    <2>5. main' = "stats" => Over' = Children
      BY <2>2, <2>4, ChildrenCount
    <2>6. main' = "stats" => \A d \in 0 .. i' - 1 : FALSE
      BY <2>1
    <2> QED
      BY <2>1, <2>3, <2>5, <2>6 DEF Best, Finishing
  <1>2. CASE ComputeStats
    <2>1. /\ main = "stats" /\ UNCHANGED <<child, file>>
          /\ winner' = IF winner = -1 \/ file[i] > file[winner] THEN i ELSE winner
          /\ \/ main' = "stats" /\ i' = i + 1
             \/ main' = "cleanup" /\ ~(i + 1 < N)
      BY <1>2 DEF ComputeStats, family
    <2>2. /\ i \in Nat /\ i <= N - 1 /\ N \in Nat
          /\ \A d \in 0 .. i : file[d] \in Int
      BY <2>1, RecapAssumption DEF Types, Children
    <2>3. /\ winner \in -1 .. i - 1 /\ (i # 0 => winner # -1)
          /\ \A d \in 0 .. i - 1 : file[d] <= file[winner]
          /\ winner # -1 => \A d \in 0 .. winner - 1 : file[d] < file[winner]
      BY <2>1 DEF Best
    <2>4. /\ winner' \in 0 .. i
          /\ \A d \in 0 .. i : file[d] <= file[winner']
          /\ \A d \in 0 .. winner' - 1 : file[d] < file[winner']
      <3>1. CASE winner = -1
        BY <2>1, <2>2, <2>3, <3>1
      <3>2. CASE winner # -1 /\ file[i] > file[winner]
        BY <2>1, <2>2, <2>3, <3>2
      <3>3. CASE winner # -1 /\ ~(file[i] > file[winner])
        BY <2>1, <2>2, <2>3, <3>3
      <3> QED
        BY <3>1, <3>2, <3>3
    <2>5. Over' = Children
      BY <2>1 DEF Best, Finishing, Over
    <2>6. CASE main' = "stats"
      BY <2>1, <2>2, <2>4, <2>5, <2>6 DEF Best, Finishing
    <2>7. CASE main' = "cleanup"
      <3>1. i = N - 1 /\ Children = 0 .. i
        BY <2>1, <2>2, <2>7 DEF Children
      <3> QED
        BY <2>1, <2>2, <2>4, <2>5, <2>7, <3>1 DEF Best, Finishing
    <2> QED
      BY <2>1, <2>6, <2>7
  <1>3. CASE CleanUp
    <2>1. main = "cleanup" /\ main' = "done" /\ UNCHANGED <<child, file, winner>>
      BY <1>3 DEF CleanUp, family
    <2> QED
      BY <2>1 DEF Best, Finishing, Over
  <1>4. CASE MainAlone /\ ~Reap /\ ~ComputeStats /\ ~CleanUp
    <2>1. ~Finishing /\ ~Finishing' /\ winner' = winner
      BY <1>4 DEF MainAlone, CreateSemaphore, init_file, ForkFails, AwaitChild,
                  ReleaseChild, NotifyEnd, Finishing
    <2> QED
      BY <2>1 DEF Best, Finishing
  <1>5. CASE Fork
    <2>1. ~Finishing /\ ~Finishing' /\ winner' = winner
      BY <1>5 DEF Fork, Finishing
    <2> QED
      BY <2>1 DEF Best, Finishing
  <1>6. ASSUME NEW c \in Children, ActsAs(c)
        PROVE  Best'
    <2>1. child[c] \notin {"exited", "failed"}
      <3>1. CASE ChildStep(c) \/ CreateThreadFails(c)
        BY <3>1 DEF ChildStep, CreateThreadFails, NotifyReady, Begin, CreateThread,
                    JoinThreads, GoOn, Finish
      <3>2. ASSUME NEW k \in Threads, ThreadStep(c, k)
            PROVE  child[c] \notin {"exited", "failed"}
        <4>1. thread[c][k] # "idle"
          BY <3>2 DEF ThreadStep, EnterCritical, AppendId, LeaveCritical, MoveThread
        <4> QED
          BY <4>1, ThreadHasChild
      <3> QED
        BY <1>6, <3>1, <3>2 DEF ActsAs
    <2>2. ~Finishing
      BY <2>1 DEF Best, Over
    <2>3. UNCHANGED <<main, i, winner>>
      BY <1>6, OnlyItself
    <2> QED
      BY <2>2, <2>3 DEF Best, Finishing
  <1>7. CASE KillAndRestart
    BY <1>7 DEF KillAndRestart, Best, Finishing
  <1>8. CASE UNCHANGED vars
    BY <1>8 DEF vars, Best, Finishing, Over
  <1> QED
    BY <1>1, <1>2, <1>3, <1>4, <1>5, <1>6, <1>7, <1>8, StepKinds

-----------------------------------------------------------------------------
(* The first run has nothing but stale semaphores to fear.                 *)
LEMMA InitIInv == Init => IInv
  <1> SUFFICES ASSUME Init PROVE IInv
    OBVIOUS
  <1>1. Types
    BY RecapAssumption DEF Init, Types, NoAccess, NoThreads, MainLabels, ChildLabels,
                           ThreadLabels
  <1>2. Families
    BY DEF Init, Families, Unborn, Family, NoAccess
  <1>3. Barrier
    BY DEF Init, Barrier, Gathering, Started
  <1>4. Mutex
    BY DEF Init, Mutex, Critical, NoThreads
  <1>5. Accesses
    BY DEF Init, Accesses, Preparing, NoAccess
  <1>6. Best
    BY DEF Init, Best, Finishing
  <1> QED
    BY <1>1, <1>2, <1>3, <1>4, <1>5, <1>6 DEF IInv

(* The inductive invariant holds in every reachable state.                 *)
LEMMA Invariance == Spec => []IInv
  <1>1. IInv /\ [Next]_vars => IInv'
    BY TypesNext, FamiliesNext, BarrierNext, MutexNext, AccessesNext, BestNext DEF IInv
  <1> QED
    BY InitIInv, <1>1, PTL DEF Spec

(* riepilogo.c: for any number of children, none begins its activities     *)
(* before every child has reported to main that it is ready, whatever      *)
(* semaphores killed runs left behind.                                     *)
THEOREM ChildrenStartTogether == Spec => []StartTogether
  <1>1. IInv => StartTogether
    <2> SUFFICES ASSUME IInv, NEW c \in Children, NEW d \in Children, Started(c)
                 PROVE  child[d] \notin {"unborn", "ready"}
      BY DEF StartTogether
    <2>1. Notified = Children
      BY DEF IInv, Barrier
    <2> QED
      BY <2>1 DEF Notified
  <1> QED
    BY <1>1, Invariance, PTL

(* thread_function: for any number of children and threads, at most one    *)
(* thread of all processes is in the critical section, and the semaphore   *)
(* is 0 while it is; threads that end inside of it leave it closed.        *)
THEOREM CriticalSectionIsExclusive == Spec => []CriticalExclusive
  <1>1. IInv => CriticalExclusive
    <2> SUFFICES ASSUME IInv PROVE CriticalExclusive
      OBVIOUS
    <2>1. \A x \in InCritical : /\ x[1] \in Children /\ x[2] \in Threads
                                /\ x = <<x[1], x[2]>> /\ Critical(x[1], x[2])
      BY DEF InCritical, Critical
    <2>2. \A x, y \in InCritical : x = y
      BY <2>1 DEF IInv, Mutex
    <2>3. CASE InCritical = {}
      BY <2>3, FS_EmptySet DEF CriticalExclusive
    <2>4. CASE InCritical # {}
      <3>1. PICK x \in InCritical : TRUE
        BY <2>4
      <3>2. InCritical = {x}
        BY <2>2, <3>1
      <3>3. Cardinality(InCritical) = 1
        BY <3>2, FS_Singleton
      <3>4. main # "create"
        BY <2>1, <3>1, NoneCritical DEF IInv, Preparing
      <3>5. sem["critical_section"] = 0
        BY <2>1, <3>1, <3>4 DEF IInv, Mutex
      <3> QED
        BY <3>3, <3>5 DEF CriticalExclusive
    <2> QED
      BY <2>3, <2>4
  <1> QED
    BY <1>1, Invariance, PTL

(* main_process: the statistics count every thread of every round of a     *)
(* child that ended normally exactly once, and the child announced is the  *)
(* first of those with the most accesses.                                  *)
THEOREM StatisticsAreComplete == Spec => []StatsComplete
  <1>1. IInv => StatsComplete
    <2> SUFFICES ASSUME IInv, main \in {"cleanup", "done"}
                 PROVE  /\ \A c \in Children : child[c] = "exited" =>
                              file[c] = M * rounds[c] /\ rounds[c] > 0
                        /\ \A d \in Children : file[d] <= file[winner]
                        /\ \A d \in 0 .. winner - 1 : file[d] < file[winner]
      BY DEF StatsComplete
    <2>1. ASSUME NEW c \in Children, child[c] = "exited"
          PROVE  file[c] = M * rounds[c] /\ rounds[c] > 0
      <3>1. Exact(c) /\ rounds[c] > 0 /\ rounds[c] \in Int /\ M \in Int
        BY <2>1, RecapAssumption DEF IInv, Accesses, Preparing, Types
      <3>2. thread[c] = NoThreads
        BY <2>1 DEF IInv, Families, Family
      <3>3. Cardinality(Counted(c)) = 0
        BY <3>2, NoneCounted
      <3>4. M * rounds[c] + 0 = M * rounds[c]
        BY <3>1
      <3> QED
        BY <3>1, <3>3, <3>4 DEF Exact
    <2>2. winner \in 0 .. N - 1 /\ \A d \in Children : file[d] <= file[winner]
      BY DEF IInv, Best
    <2>3. \A d \in 0 .. winner - 1 : file[d] < file[winner]
      BY <2>2 DEF IInv, Best
    <2> QED
      BY <2>1, <2>2, <2>3
  <1> QED
    BY <1>1, Invariance, PTL
=============================================================================
