--------------------------- MODULE NamedSemaphore ---------------------------
(***************************************************************************)
(* lab04 named_semaphore: server.c creates a named semaphore that counts   *)
(* NUM_RESOURCES free resources and prints its value now and then; the     *)
(* threads of client.c open it by name, take a resource and give it back.  *)
(* A process keeps the semaphore it opened when the name is unlinked or    *)
(* goes to the semaphore of another run of the server.                     *)
(*                                                                         *)
(* lab03 scheduler_solution.c does the same in one process: main keeps the *)
(* semaphore on the heap, and destroys it when the user leaves, whatever   *)
(* the threads do.  The variable program is "named" or "heap".             *)
(***************************************************************************)
EXTENDS Integers, FiniteSets

CONSTANTS Clients,       \* processes running client.c
          NumResources,  \* NUM_RESOURCES
          ThreadBurst,   \* THREAD_BURST
          NumTasks,      \* NUM_TASKS, items of work of a thread of lab03
          MaxBursts,     \* bound: times ENTER is pressed in each client
          MaxRuns,       \* bound: times the server is started
          MaxHeaps,      \* bound: processes of lab03
          MaxKills       \* bound: processes killed, pthread_create failures

ASSUME ResourceAssumption ==
    /\ IsFiniteSet(Clients)
    /\ NumResources \in Nat \ {0} /\ ThreadBurst \in Nat \ {0}
    /\ NumTasks \in Nat \ {0}
    /\ MaxBursts \in Nat /\ MaxRuns \in Nat \ {0} /\ MaxKills \in Nat
    /\ MaxHeaps \in 0 .. MaxRuns

Runs    == 1 .. MaxRuns
IDs     == 1 .. ThreadBurst * MaxBursts
Threads == Clients \X IDs

VARIABLES program,
          run,        \* semaphores created; one in each run of the server
          server,     \* what the server does next
          linked,     \* run whose semaphore has the name, 0 if none
          value,      \* value of the semaphore of each run
          destroyed,  \* semaphores that were destroyed and freed
          driver,     \* what the main thread of each client does next
          thread_ID,  \* threads each client has created
          thread,     \* what each client thread does next
          opened,     \* run whose semaphore the thread opened, 0 before;
                      \* in lab03 the semaphore it was given
          own,        \* semaphore each process of lab03 created, 0 before
          items,      \* i of client(): items of work the thread began
          lost,       \* history: resources held by threads that were ended
          kills

clients == <<driver, thread_ID, thread, opened, own, items, lost>>
vars    == <<program, run, server, linked, value, destroyed, clients, kills>>

Named == program = "named"

Init == /\ program \in {"named", "heap"}
        /\ run = 0
        /\ server = "off"
        /\ linked = 0
        /\ value = [r \in Runs |-> 0]
        /\ destroyed = {}
        /\ driver = [c \in Clients |-> IF Named THEN "prompt" ELSE "init"]
        /\ thread_ID = [c \in Clients |-> 0]
        /\ thread = [t \in Threads |-> "unborn"]
        /\ opened = [t \in Threads |-> 0]
        /\ own = [c \in Clients |-> 0]
        /\ items = [t \in Threads |-> 0]
        /\ lost = [r \in Runs |-> 0]
        /\ kills = 0

\* Threads between sem_wait and sem_post on the semaphore of run r.
Holders(r) == {t \in Threads : thread[t] = "work" /\ opened[t] = r}
-----------------------------------------------------------------------------
(* server.c                                                                *)

\* Mutation: without O_EXCL an existing semaphore is opened as it is.
CreateReusing ==
    /\ Named
    /\ server \in {"off", "retry"}
    /\ run < MaxRuns
    /\ run' = run + 1
    /\ linked' = run + 1
    /\ value' = [value EXCEPT ![run + 1] =
                   IF linked = 0 THEN NumResources ELSE value[linked]]
    /\ server' = "created"
    /\ UNCHANGED <<program, destroyed, clients, kills>>

\* sem_open() found the name in use, and it is unlinked.
UnlinkName ==
    /\ Named
    /\ server = "off"
    /\ run < MaxRuns
    /\ linked # 0
    /\ linked' = 0
    /\ server' = "retry"
    /\ UNCHANGED <<program, run, value, destroyed, clients, kills>>

\* sem_open() with O_EXCL, at once or after the unlink: always a new one.
CreateSemaphore ==
    /\ Named
    /\ server \in {"off", "retry"}
    /\ run < MaxRuns
    /\ linked = 0
    /\ run' = run + 1
    /\ linked' = run + 1
    /\ value' = [value EXCEPT ![run + 1] = NumResources]
    /\ server' = "created"
    /\ UNCHANGED <<program, destroyed, clients, kills>>

SetQuitHandler ==
    /\ server = "created"
    /\ server' = "running"
    /\ UNCHANGED <<program, run, linked, value, destroyed, clients, kills>>

\* CTRL+C after the handler is set.
cleanup ==
    /\ server = "running"
    /\ server' = "off"
    /\ linked' = 0
    /\ UNCHANGED <<program, run, value, destroyed, clients, kills>>

\* CTRL+C before that, or SIGKILL: the name stays.
KillServer ==
    /\ server # "off"
    /\ kills < MaxKills
    /\ kills' = kills + 1
    /\ server' = "off"
    /\ UNCHANGED <<program, run, linked, value, destroyed, clients>>
-----------------------------------------------------------------------------
(* The driver: main of client.c, and of scheduler_solution.c               *)
semaphores == <<run, server, linked, value, destroyed>>

\* lab03: malloc() and sem_init().
InitSemaphore(c) ==
    /\ driver[c] = "init"
    /\ run < MaxHeaps
    /\ run' = run + 1
    /\ own' = [own EXCEPT ![c] = run + 1]
    /\ value' = [value EXCEPT ![run + 1] = NumResources]
    /\ driver' = [driver EXCEPT ![c] = "prompt"]
    /\ UNCHANGED <<program, server, linked, destroyed, thread_ID, thread,
                   opened, items, lost, kills>>

PressEnter(c) ==
    /\ driver[c] = "prompt"
    /\ thread_ID[c] + ThreadBurst <= ThreadBurst * MaxBursts
    /\ driver' = [driver EXCEPT ![c] = "spawn"]
    /\ UNCHANGED <<program, semaphores, thread_ID, thread, opened, own, items,
                   lost, kills>>

SpawnThread(c) ==
    LET t == <<c, thread_ID[c] + 1>>
    IN  /\ driver[c] = "spawn"
        /\ thread_ID' = [thread_ID EXCEPT ![c] = @ + 1]
        /\ thread' = [thread EXCEPT ![t] = IF Named THEN "open" ELSE "wait"]
        /\ opened' = [opened EXCEPT ![t] = own[c]]
        /\ driver' = [driver EXCEPT ![c] =
                        IF thread_ID'[c] % ThreadBurst = 0 THEN "prompt" ELSE @]
        /\ UNCHANGED <<program, semaphores, own, items, lost, kills>>

\* CTRL+D: pthread_exit leaves the threads running; lab03 leaves the loop.
PressEOF(c) ==
    /\ driver[c] = "prompt"
    /\ driver' = [driver EXCEPT ![c] = IF Named THEN "left" ELSE "destroy"]
    /\ UNCHANGED <<program, semaphores, thread_ID, thread, opened, own, items,
                   lost, kills>>

\* lab03: sem_destroy() and free(); nobody waited for the detached threads.
DestroySemaphore(c) ==
    /\ driver[c] = "destroy"
    /\ destroyed' = destroyed \cup {own[c]}
    /\ driver' = [driver EXCEPT ![c] = "return"]
    /\ UNCHANGED <<program, run, server, linked, value, thread_ID, thread,
                   opened, own, items, lost, kills>>

\* The process ends with all its threads; the kernel posts for nobody.
ProcessEnds(c, how) ==
    /\ driver' = [driver EXCEPT ![c] = how]
    /\ thread' = [t \in Threads |->
                    IF t[1] = c /\ thread[t] # "done" THEN "ended"
                                                      ELSE thread[t]]
    /\ lost' = [r \in Runs |-> lost[r] +
                  Cardinality({t \in Holders(r) : t[1] = c})]
    /\ UNCHANGED <<program, semaphores, thread_ID, opened, own, items>>

\* lab03: main returns.
MainReturns(c) ==
    /\ driver[c] = "return"
    /\ ProcessEnds(c, "returned")
    /\ UNCHANGED kills

\* After pthread_exit the process lives as long as a thread does.
Alive(c) == \/ driver[c] \in {"init", "prompt", "spawn", "destroy", "return"}
            \/ /\ driver[c] = "left"
               /\ \E k \in IDs : thread[<<c, k>>] \in {"open", "wait", "work",
                                                      "close"}

\* A signal, or exit(1) after a failed pthread_create.
ClientDies(c) ==
    /\ Alive(c)
    /\ kills < MaxKills
    /\ kills' = kills + 1
    /\ ProcessEnds(c, "failed")
-----------------------------------------------------------------------------
(* The threads: client() of both programs                                  *)
OpenSemaphore(t) ==
    /\ thread[t] = "open"
    /\ linked # 0
    /\ opened' = [opened EXCEPT ![t] = linked]
    /\ thread' = [thread EXCEPT ![t] = "wait"]
    /\ UNCHANGED <<program, semaphores, driver, thread_ID, own, items, lost,
                   kills>>

\* There is no such name: exit(1) takes every thread of the client along.
OpenFails(t) ==
    /\ thread[t] = "open"
    /\ linked = 0
    /\ ProcessEnds(t[1], "failed")
    /\ UNCHANGED kills

MoveThread(t, from, to) ==
    /\ thread[t] = from
    /\ thread' = [thread EXCEPT ![t] = to]
    /\ UNCHANGED <<program, run, server, linked, destroyed, driver, thread_ID,
                   opened, own, lost, kills>>

Acquire(t) ==
    /\ MoveThread(t, "wait", "work")
    /\ opened[t] \notin destroyed /\ value[opened[t]] > 0
    /\ value' = [value EXCEPT ![opened[t]] = @ - 1]
    /\ UNCHANGED items

\* A thread of lab03 takes two items of work at a time, a last odd one alone.
TwoItems(t) == items' = [items EXCEPT ![t] = IF Named THEN @ ELSE @ + 2]

AfterWork(t) == IF Named THEN "close"
                ELSE IF items[t] + 2 < NumTasks THEN "wait" ELSE "done"

\* Mutation: no sem_post.
ForgetRelease(t) ==
    /\ MoveThread(t, "work", AfterWork(t))
    /\ TwoItems(t)
    /\ UNCHANGED value

Release(t) ==
    /\ MoveThread(t, "work", AfterWork(t))
    /\ opened[t] \notin destroyed
    /\ TwoItems(t)
    /\ value' = [value EXCEPT ![opened[t]] = @ + 1]

CloseSemaphore(t) ==
    /\ MoveThread(t, "close", "done")
    /\ UNCHANGED <<value, items>>

\* sem_wait() or sem_post() on the memory that was freed: it may let the thread
\* through, whatever it counted before, or fail and end the process.
UseFreed(t) ==
    /\ opened[t] \in destroyed
    /\ \/ MoveThread(t, "wait", "work") /\ UNCHANGED <<value, items>>
       \/ MoveThread(t, "work", AfterWork(t)) /\ TwoItems(t) /\ UNCHANGED value
       \/ /\ thread[t] \in {"wait", "work"}
          /\ ProcessEnds(t[1], "failed")
          /\ UNCHANGED kills
-----------------------------------------------------------------------------
ServerStep == UnlinkName \/ CreateSemaphore \/ SetQuitHandler

\* What main does without the user.
MainStep(c) == \/ InitSemaphore(c) \/ SpawnThread(c)
               \/ DestroySemaphore(c) \/ MainReturns(c)

DriverStep(c) == MainStep(c) \/ PressEnter(c) \/ PressEOF(c)

ThreadStep(t) == \/ OpenSemaphore(t) \/ OpenFails(t) \/ Acquire(t)
                 \/ Release(t) \/ CloseSemaphore(t) \/ UseFreed(t)

\* The server prints statistics, clients have nothing left to do.
Idle == /\ \A c \in Clients : driver[c] \in {"left", "returned", "failed"}
        /\ \A t \in Threads : thread[t] \in {"unborn", "done", "ended"}
        /\ UNCHANGED vars

Next == \/ ServerStep \/ cleanup \/ KillServer
        \/ \E c \in Clients : DriverStep(c) \/ ClientDies(c)
        \/ \E t \in Threads : ThreadStep(t)
        \/ Idle

Spec == Init /\ [][Next]_vars

\* Threads that are not blocked run, and sleep() returns.  The user need not
\* press a key, but a burst once begun is spawned.
Fairness == /\ \A c \in Clients : WF_vars(MainStep(c))
            /\ \A t \in Threads : WF_vars(ThreadStep(t))

FairSpec == Spec /\ Fairness
-----------------------------------------------------------------------------
TypeOK ==
    /\ program \in {"named", "heap"}
    /\ run \in 0 .. MaxRuns
    /\ server \in {"off", "retry", "created", "running"}
    /\ linked \in 0 .. MaxRuns
    /\ value \in [Runs -> 0 .. NumResources]
    /\ destroyed \subseteq Runs
    /\ driver \in [Clients -> {"init", "prompt", "spawn", "left", "destroy",
                               "return", "returned", "failed"}]
    /\ thread_ID \in [Clients -> 0 .. ThreadBurst * MaxBursts]
    /\ thread \in [Threads -> {"unborn", "open", "wait", "work", "close",
                               "done", "ended"}]
    /\ opened \in [Threads -> 0 .. MaxRuns]
    /\ own \in [Clients -> 0 .. MaxRuns]
    /\ items \in [Threads -> 0 .. NumTasks + 1]
    /\ lost \in [Runs -> Nat]
    /\ kills \in 0 .. MaxKills

(* Each semaphore ever created counts its own resources exactly, whoever   *)
(* restarts the server meanwhile: what it lacks is held by a thread that   *)
(* took it from this very semaphore, or was held by one that was ended.    *)
(* Once lab03 has destroyed its semaphore it counts nothing any more.      *)
ResourcesAccounted ==
    \A r \in (1 .. run) \ destroyed :
        value[r] + Cardinality(Holders(r)) + lost[r] = NumResources

(* As long as no client process is ended, a thread that waits for its      *)
(* resource gets it, as often as its work takes, and finishes; also when   *)
(* the server is stopped and another one takes the name.                   *)
ThreadsFinish ==
    \A t \in Threads : thread[t] = "wait" ~>
        \/ thread[t] = "done"
        \/ \E c \in Clients : driver[c] \in {"failed", "returned"}
=============================================================================
