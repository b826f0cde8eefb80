------------------------------- MODULE Recap --------------------------------
(***************************************************************************)
(* lab04 recap/riepilogo.c: a main process forks N children, releases them *)
(* together, lets them work for a while and tells them to stop; each child *)
(* runs rounds of M threads that append the child's id to a shared file    *)
(* inside a critical section; main then counts the accesses.  Four named   *)
(* semaphores, which outlive the processes, carry all the signalling.      *)
(***************************************************************************)
EXTENDS Integers, Sequences, FiniteSets

CONSTANTS N,            \* children
          M,            \* threads per child and round
          MaxRounds,    \* bound: rounds a child runs before it must be told
          MaxRestarts,  \* bound: times the program is killed and run again
          MaxFailures   \* bound: fork or pthread_create calls that fail

ASSUME RecapAssumption ==
    /\ N \in Nat \ {0} /\ M \in Nat \ {0} /\ MaxRounds \in Nat \ {0}
    /\ MaxRestarts \in Nat /\ MaxFailures \in Nat

Children == 0 .. N - 1
Threads  == 1 .. M

\* The named semaphores in the order main creates them, with initial values.
SemOrder == <<"end_children_activities", "main_waits_for_children",
              "children_wait_for_main", "critical_section">>
Names    == {SemOrder[k] : k \in 1 .. 4}
InitialValue(name) == IF name = "critical_section" THEN 1 ELSE 0

VARIABLES linked,   \* names that exist in the file system
          sem,      \* value of the semaphore behind each name
          file,     \* accesses.log: how often each id occurs in it
          main,     \* what the main process does next
          i,        \* main's loop variable
          child,    \* what each child does next
          created,  \* threads the child created in this round
          thread,   \* what each thread of each child does next
          rounds,   \* history: rounds each child completed
          winner,   \* max_process_id, -1 before it is known
          restarts, failures

vars == <<linked, sem, file, main, i, child, created, thread, rounds, winner,
          restarts, failures>>

NoAccess == [c \in Children |-> 0]
NoThreads == [k \in Threads |-> "idle"]

Init == /\ linked = {}
        /\ sem = [s \in Names |-> 0]
        /\ file = NoAccess
        /\ main = "create"
        /\ i = 0
        /\ child = [c \in Children |-> "unborn"]
        /\ created = NoAccess
        /\ thread = [c \in Children |-> NoThreads]
        /\ rounds = NoAccess
        /\ winner = -1
        /\ restarts = 0
        /\ failures = 0

budgets == <<restarts, failures>>
family  == <<child, created, thread, rounds>>
-----------------------------------------------------------------------------
(* main                                                                    *)

\* Mutation: an existing semaphore is opened as it is.
reuse_named_semaphore(name) ==
    /\ linked' = linked \cup {name}
    /\ sem' = IF name \in linked THEN sem
              ELSE [sem EXCEPT ![name] = InitialValue(name)]

\* A name left by an earlier run is unlinked first, so the value is fresh.
create_named_semaphore(name) ==
    /\ linked' = linked \cup {name}
    /\ sem' = [sem EXCEPT ![name] = InitialValue(name)]

CreateSemaphore ==
    /\ main = "create"
    /\ create_named_semaphore(SemOrder[i + 1])
    /\ IF i + 1 < 4 THEN i' = i + 1 /\ UNCHANGED main
                    ELSE i' = 0 /\ main' = "init_file"
    /\ UNCHANGED <<file, family, winner, budgets>>

\* Mutation: an existing file is kept.
keep_file ==
    /\ main = "init_file"
    /\ main' = "fork"
    /\ UNCHANGED <<linked, sem, file, i, family, winner, budgets>>

\* The file of an earlier run is deleted and an empty one created.
init_file ==
    /\ main = "init_file"
    /\ file' = NoAccess
    /\ main' = "fork"
    /\ UNCHANGED <<linked, sem, i, family, winner, budgets>>

Fork ==
    /\ main = "fork"
    /\ child' = [child EXCEPT ![i] = "ready"]
    /\ IF i + 1 < N THEN i' = i + 1 /\ UNCHANGED main
                    ELSE i' = 0 /\ main' = "await"
    /\ UNCHANGED <<linked, sem, file, created, thread, rounds, winner,
                   budgets>>

\* exit(EXIT_FAILURE): the children forked so far are left behind.
ForkFails ==
    /\ main = "fork"
    /\ failures < MaxFailures
    /\ failures' = failures + 1
    /\ main' = "failed"
    /\ UNCHANGED <<linked, sem, file, i, family, winner, restarts>>

AwaitChild ==
    /\ main = "await"
    /\ sem["main_waits_for_children"] > 0
    /\ sem' = [sem EXCEPT !["main_waits_for_children"] = @ - 1]
    /\ IF i + 1 < N THEN i' = i + 1 /\ UNCHANGED main
                    ELSE i' = 0 /\ main' = "release"
    /\ UNCHANGED <<linked, file, family, winner, budgets>>

ReleaseChild ==
    /\ main = "release"
    /\ sem' = [sem EXCEPT !["children_wait_for_main"] = @ + 1]
    /\ IF i + 1 < N THEN i' = i + 1 /\ UNCHANGED main
                    ELSE i' = 0 /\ main' = "sleep"
    /\ UNCHANGED <<linked, file, family, winner, budgets>>

\* sleep(t) is over: one post that nobody ever takes back.
NotifyEnd ==
    /\ main = "sleep"
    /\ sem' = [sem EXCEPT !["end_children_activities"] = @ + 1]
    /\ main' = "wait"
    /\ UNCHANGED <<linked, file, i, family, winner, budgets>>

\* wait() returns once for each child that has ended.
Reap ==
    /\ main = "wait"
    /\ i < Cardinality({c \in Children : child[c] \in {"exited", "failed"}})
    /\ IF i + 1 < N THEN i' = i + 1 /\ UNCHANGED main
                    ELSE i' = 0 /\ main' = "stats"
    /\ UNCHANGED <<linked, sem, file, family, winner, budgets>>

\* One round of the loop over access_stats, which is what the file holds: all
\* children are gone.  max_accesses is -1 before the first round, and a later
\* child must do strictly better.
ComputeStats ==
    /\ main = "stats"
    /\ winner' = IF winner = -1 \/ file[i] > file[winner] THEN i ELSE winner
    /\ IF i + 1 < N THEN i' = i + 1 /\ UNCHANGED main
                    ELSE i' = 0 /\ main' = "cleanup"
    /\ UNCHANGED <<linked, sem, file, family, budgets>>

CleanUp ==
    /\ main = "cleanup"
    /\ linked' = {}
    /\ main' = "done"
    /\ UNCHANGED <<sem, file, i, family, winner, budgets>>
-----------------------------------------------------------------------------
(* child_process                                                           *)
NotifyReady(c) ==
    /\ child[c] = "ready"
    /\ sem' = [sem EXCEPT !["main_waits_for_children"] = @ + 1]
    /\ child' = [child EXCEPT ![c] = "wait_go"]
    /\ UNCHANGED <<linked, file, main, i, created, thread, rounds, winner,
                   budgets>>

Begin(c) ==
    /\ child[c] = "wait_go"
    /\ sem["children_wait_for_main"] > 0
    /\ sem' = [sem EXCEPT !["children_wait_for_main"] = @ - 1]
    /\ child' = [child EXCEPT ![c] = "create"]
    /\ UNCHANGED <<linked, file, main, i, created, thread, rounds, winner,
                   budgets>>

CreateThread(c) ==
    /\ child[c] = "create"
    /\ thread' = [thread EXCEPT ![c][created[c] + 1] = "wait"]
    /\ created' = [created EXCEPT ![c] = @ + 1]
    /\ child' = [child EXCEPT ![c] = IF created'[c] = M THEN "join" ELSE @]
    /\ UNCHANGED <<linked, sem, file, main, i, rounds, winner, budgets>>

\* exit() ends the child with every thread of it, wherever they are.
CreateThreadFails(c) ==
    /\ child[c] = "create"
    /\ failures < MaxFailures
    /\ failures' = failures + 1
    /\ child' = [child EXCEPT ![c] = "failed"]
    /\ thread' = [thread EXCEPT ![c] = NoThreads]
    /\ UNCHANGED <<linked, sem, file, main, i, created, rounds, winner,
                   restarts>>

JoinThreads(c) ==
    /\ child[c] = "join"
    /\ \A k \in Threads : thread[c][k] = "done"
    /\ thread' = [thread EXCEPT ![c] = NoThreads]
    /\ created' = [created EXCEPT ![c] = 0]
    /\ rounds' = [rounds EXCEPT ![c] = @ + 1]
    /\ child' = [child EXCEPT ![c] = "check"]
    /\ UNCHANGED <<linked, sem, file, main, i, winner, budgets>>

\* sem_getvalue looks at the notification without consuming it.
GoOn(c) ==
    /\ child[c] = "check"
    /\ sem["end_children_activities"] = 0
    /\ rounds[c] < MaxRounds
    /\ child' = [child EXCEPT ![c] = "create"]
    /\ UNCHANGED <<linked, sem, file, main, i, created, thread, rounds,
                   winner, budgets>>

\* Mutation: sem_wait takes the one notification away from the others.
FinishConsuming(c) ==
    /\ child[c] = "check"
    /\ sem["end_children_activities"] # 0
    /\ sem' = [sem EXCEPT !["end_children_activities"] = @ - 1]
    /\ child' = [child EXCEPT ![c] = "exited"]
    /\ UNCHANGED <<linked, file, main, i, created, thread, rounds, winner,
                   budgets>>

Finish(c) ==
    /\ child[c] = "check"
    /\ sem["end_children_activities"] # 0
    /\ child' = [child EXCEPT ![c] = "exited"]
    /\ UNCHANGED <<linked, sem, file, main, i, created, thread, rounds,
                   winner, budgets>>
-----------------------------------------------------------------------------
(* thread_function                                                         *)
MoveThread(c, k, from, to) ==
    /\ thread[c][k] = from
    /\ thread' = [thread EXCEPT ![c][k] = to]
    /\ UNCHANGED <<linked, main, i, child, created, rounds, winner, budgets>>

\* Mutation: no sem_wait on critical_section.
EnterAtOnce(c, k) == MoveThread(c, k, "wait", "append") /\ UNCHANGED <<sem, file>>

EnterCritical(c, k) ==
    /\ sem["critical_section"] > 0
    /\ sem' = [sem EXCEPT !["critical_section"] = @ - 1]
    /\ MoveThread(c, k, "wait", "append")
    /\ UNCHANGED file

AppendId(c, k) ==
    /\ MoveThread(c, k, "append", "leave")
    /\ file' = [file EXCEPT ![c] = @ + 1]
    /\ UNCHANGED sem

LeaveCritical(c, k) ==
    /\ MoveThread(c, k, "leave", "done")
    /\ sem' = [sem EXCEPT !["critical_section"] = @ + 1]
    /\ UNCHANGED file
-----------------------------------------------------------------------------
\* All the processes are killed and the program is started again: what lives
\* in the file system stays as it was.
KillAndRestart ==
    /\ restarts < MaxRestarts
    /\ restarts' = restarts + 1
    /\ main' = "create"
    /\ i' = 0
    /\ child' = [c \in Children |-> "unborn"]
    /\ created' = NoAccess
    /\ thread' = [c \in Children |-> NoThreads]
    /\ rounds' = NoAccess
    /\ winner' = -1
    /\ UNCHANGED <<linked, sem, file, failures>>

MainStep == \/ CreateSemaphore \/ init_file \/ Fork \/ AwaitChild
            \/ ReleaseChild \/ NotifyEnd \/ Reap \/ ComputeStats \/ CleanUp

ChildStep(c) == \/ NotifyReady(c) \/ Begin(c) \/ CreateThread(c)
                \/ JoinThreads(c) \/ GoOn(c) \/ Finish(c)

ThreadStep(c, k) == \/ EnterCritical(c, k) \/ AppendId(c, k)
                    \/ LeaveCritical(c, k)

\* main has returned, or left its children to themselves.
Ended == main \in {"done", "failed"} /\ UNCHANGED vars

Next == \/ MainStep \/ ForkFails
        \/ \E c \in Children : ChildStep(c) \/ CreateThreadFails(c)
        \/ \E c \in Children, k \in Threads : ThreadStep(c, k)
        \/ KillAndRestart
        \/ Ended

Spec == Init /\ [][Next]_vars

\* The kernel runs every process and thread that is not blocked.
Fairness == /\ WF_vars(MainStep)
            /\ \A c \in Children : WF_vars(ChildStep(c))
            /\ \A c \in Children, k \in Threads : WF_vars(ThreadStep(c, k))

FairSpec == Spec /\ Fairness
-----------------------------------------------------------------------------
TypeOK ==
    /\ linked \subseteq Names
    /\ sem \in [Names -> Nat]
    /\ file \in [Children -> Nat]
    /\ main \in {"create", "init_file", "fork", "await", "release", "sleep",
                 "wait", "stats", "cleanup", "done", "failed"}
    /\ i \in 0 .. (IF main = "create" THEN 3 ELSE N - 1)
    /\ child \in [Children -> {"unborn", "ready", "wait_go", "create", "join",
                               "check", "exited", "failed"}]
    /\ created \in [Children -> 0 .. M]
    /\ thread \in [Children -> [Threads -> {"idle", "wait", "append", "leave",
                                            "done"}]]
    /\ rounds \in [Children -> 0 .. MaxRounds]
    /\ winner \in -1 .. N - 1
    /\ restarts \in 0 .. MaxRestarts
    /\ failures \in 0 .. MaxFailures

Started(c) == child[c] \notin {"unborn", "ready", "wait_go"}

(* No child begins its activities before every child has reported that it  *)
(* is ready, also when semaphores of a killed run were lying around.       *)
StartTogether ==
    \A c, d \in Children : Started(c) => child[d] \notin {"unborn", "ready"}

(* At most one thread of all the processes is between sem_wait and         *)
(* sem_post on critical_section, and the semaphore says so.                *)
InCritical == {ck \in Children \X Threads :
                 thread[ck[1]][ck[2]] \in {"append", "leave"}}
CriticalExclusive ==
    /\ Cardinality(InCritical) <= 1
    /\ InCritical # {} => sem["critical_section"] = 0

(* The statistics are of this run and complete: every thread of every      *)
(* round of a child that ended normally is counted, each exactly once, and *)
(* the child announced has the most accesses, the first one among equals.  *)
StatsComplete ==
    main \in {"cleanup", "done"} =>
        /\ \A c \in Children : child[c] = "exited" =>
               file[c] = M * rounds[c] /\ rounds[c] > 0
        /\ \A d \in Children : file[d] <= file[winner]
        /\ \A d \in 0 .. winner - 1 : file[d] < file[winner]

(* When no call fails main reaches its end, with every child reaped, also  *)
(* after a killed run: nobody waits for a post that never comes.           *)
MainFinishes == <>(main = "done" \/ failures > 0)
=============================================================================
