----------------------------- MODULE LimitConn ------------------------------
(***************************************************************************)
(* lab11 ES-MP-LimitConn: an echo server that handles at most              *)
(* MAX_CONCURRENCY connections at a time.  main takes a token from the     *)
(* semaphore connections before it starts a handler, and the handler gives *)
(* it back when it has closed its socket.                                  *)
(*                                                                         *)
(* The variable program says which of the two servers it is:               *)
(*   "multiprocess"   a handler is a forked child, connections a named     *)
(*                    semaphore                                            *)
(*   "multithread"    a handler is a detached thread, connections global   *)
(***************************************************************************)
EXTENDS Integers, Sequences, FiniteSets

CONSTANTS Clients,         \* connections made to the server
          MaxConcurrency,  \* MAX_CONCURRENCY
          MaxConnQueue,    \* MAX_CONN_QUEUE
          Failures,        \* clients may vanish, fork may fail, main be killed
          MaxRuns          \* bound: times the server is started

ASSUME LimitAssumption ==
    /\ IsFiniteSet(Clients)
    /\ MaxConcurrency \in Nat \ {0} /\ MaxConnQueue \in Nat \ {0}
    /\ Failures \in BOOLEAN
    /\ MaxRuns \in Nat \ {0}

None == "none"
ASSUME NoneAssumption == None \notin Clients
Runs == 1 .. MaxRuns

VARIABLES program,      \* multiprocess.c or multithread.c
          run,          \* number of this run of the server
          linked,       \* run whose semaphore has the name, 0 if none
          connections,  \* value of the semaphore each run created
          main,         \* what the main process does next
          client_desc,  \* the connection it accepted
          backlog,      \* established connections waiting for accept()
          handler,      \* what the handler of each connection does next
          owner         \* run that each handler was started by, 0 before

limitVars == <<program, run, linked, connections, main, client_desc, backlog,
               handler, owner>>

Processes == program = "multiprocess"

\* A handler alive: forked or created, not yet ended.
Alive   == {c \in Clients : handler[c] \in {"welcome", "recv", "echo",
                                            "close", "post", "exit"}}
\* A handler whose connection is open.
Serving == {c \in Clients : handler[c] \in {"welcome", "recv", "echo",
                                            "close"}}
-----------------------------------------------------------------------------
LimitInit == /\ program \in {"multiprocess", "multithread"}
             /\ run = 0
             /\ linked = 0
             /\ connections = [r \in Runs |-> 0]
             /\ main = "exited"
             /\ client_desc = None
             /\ backlog = << >>
             /\ handler = [c \in Clients |-> "outside"]
             /\ owner = [c \in Clients |-> 0]

\* Mutation: an existing semaphore is opened with the value it has.
StartReusing ==
    /\ main = "exited"
    /\ run < MaxRuns
    /\ run' = run + 1
    /\ linked' = IF Processes THEN run + 1 ELSE 0
    /\ connections' = [connections EXCEPT ![run + 1] =
                         IF linked = 0 THEN MaxConcurrency
                                       ELSE connections[linked]]
    /\ main' = "accept"
    /\ UNCHANGED <<program, client_desc, backlog, handler, owner>>

\* sem_open with O_EXCL, after unlinking a name that already exists; then
\* the handlers of SIGTERM and SIGINT are set up and the socket listens.
StartServer ==
    /\ main = "exited"
    /\ run < MaxRuns
    /\ run' = run + 1
    /\ linked' = IF Processes THEN run + 1 ELSE 0
    /\ connections' = [connections EXCEPT ![run + 1] = MaxConcurrency]
    /\ main' = "accept"
    /\ UNCHANGED <<program, client_desc, backlog, handler, owner>>

\* The kernel completes the connection of a client, as far as listen() allows.
Connect(c) ==
    /\ main # "exited"
    /\ handler[c] = "outside"
    /\ Len(backlog) < MaxConnQueue
    /\ handler' = [handler EXCEPT ![c] = "queued"]
    /\ backlog' = Append(backlog, c)
    /\ UNCHANGED <<program, run, linked, connections, main, client_desc,
                   owner>>

Accept ==
    /\ main = "accept"
    /\ backlog # << >>
    /\ client_desc' = Head(backlog)
    /\ backlog' = Tail(backlog)
    /\ main' = "wait"
    /\ UNCHANGED <<program, run, linked, connections, handler, owner>>

\* Mutation: no sem_wait before the fork.
SkipWaitConnections ==
    /\ main = "wait"
    /\ main' = "fork"
    /\ UNCHANGED <<program, run, linked, connections, client_desc, backlog,
                   handler, owner>>

WaitConnections ==
    /\ main = "wait"
    /\ connections[run] > 0
    /\ connections' = [connections EXCEPT ![run] = @ - 1]
    /\ main' = "fork"
    /\ UNCHANGED <<program, run, linked, client_desc, backlog, handler, owner>>

\* fork() or pthread_create(); main forgets the connection and goes on.
StartHandler ==
    /\ main = "fork"
    /\ handler' = [handler EXCEPT ![client_desc] = "welcome"]
    /\ owner' = [owner EXCEPT ![client_desc] = run]
    /\ client_desc' = None
    /\ main' = "accept"
    /\ UNCHANGED <<program, run, linked, connections, backlog>>

\* The server is gone: connections it did not hand to a child are reset.
\* Threads end with it, child processes do not unless andChildren.
MainGone(andChildren) ==
    /\ main' = "exited"
    /\ client_desc' = None
    /\ backlog' = << >>
    /\ handler' = [c \in Clients |->
                     IF \/ handler[c] = "queued"
                        \/ (andChildren \/ ~Processes) /\ c \in Alive
                     THEN "failed" ELSE handler[c]]
    /\ UNCHANGED <<program, run, connections, owner>>

\* signalHandlerCleanup: SIGTERM reaches main only, SIGINT the whole group.
signalHandlerCleanup(andChildren) ==
    /\ main # "exited"
    /\ Failures
    /\ linked' = 0
    /\ MainGone(andChildren)

\* SIGKILL, or ERROR_HELPER after a failed fork: the name stays behind.
MainDies ==
    /\ main # "exited"
    /\ Failures
    /\ UNCHANGED linked
    /\ MainGone(FALSE)
-----------------------------------------------------------------------------
(* connection_handler                                                      *)
MoveHandler(c, from, to) ==
    /\ handler[c] = from
    /\ handler' = [handler EXCEPT ![c] = to]
    /\ UNCHANGED <<program, run, linked, main, client_desc, backlog, owner>>

SendWelcome(c) == MoveHandler(c, "welcome", "recv") /\ UNCHANGED connections
RecvMessage(c) == MoveHandler(c, "recv", "echo") /\ UNCHANGED connections
SendBack(c)    == MoveHandler(c, "echo", "recv") /\ UNCHANGED connections
RecvQuit(c)    == MoveHandler(c, "recv", "close") /\ UNCHANGED connections
CloseSocket(c) == MoveHandler(c, "close", "post") /\ UNCHANGED connections

\* Mutation: no sem_post.
ForgetPost(c) == MoveHandler(c, "post", "exit") /\ UNCHANGED connections

PostConnections(c) ==
    /\ MoveHandler(c, "post", "exit")
    /\ connections' = [connections EXCEPT ![owner[c]] = @ + 1]

Exit(c) == MoveHandler(c, "exit", "ended") /\ UNCHANGED connections

\* ERROR_HELPER after a failed call or a closed connection, or a signal sent
\* to the child alone: exit() before the post.  It ends the child process, or
\* the server with all its threads.
HandlerDies(c) ==
    /\ Failures
    /\ handler[c] \in {"welcome", "recv", "echo", "close", "post"}
    /\ IF Processes
       THEN MoveHandler(c, handler[c], "failed") /\ UNCHANGED connections
       ELSE MainGone(FALSE) /\ UNCHANGED linked
-----------------------------------------------------------------------------
LimitMainStep == Accept \/ WaitConnections \/ StartHandler

HandlerStep(c) == \/ SendWelcome(c) \/ RecvMessage(c) \/ SendBack(c)
                  \/ RecvQuit(c) \/ CloseSocket(c) \/ PostConnections(c)
                  \/ Exit(c)

\* Every client has been dealt with: the server waits in accept().
Quiet == /\ main \in {"accept", "exited"}
         /\ \A c \in Clients : handler[c] \in {"ended", "failed"}
         /\ UNCHANGED limitVars

LimitNext == \/ StartServer
             \/ LimitMainStep
             \/ \E b \in BOOLEAN : signalHandlerCleanup(b)
             \/ MainDies
             \/ \E c \in Clients : Connect(c) \/ HandlerStep(c) \/ HandlerDies(c)
             \/ Quiet

LimitSpec == LimitInit /\ [][LimitNext]_limitVars

\* Processes and threads that can run do (scheduler), and a client that keeps
\* talking says QUIT at some point (environment).
LimitFairness == /\ WF_limitVars(LimitMainStep)
                 /\ \A c \in Clients : /\ WF_limitVars(HandlerStep(c))
                                       /\ SF_limitVars(RecvQuit(c))

LimitFairSpec == LimitSpec /\ LimitFairness
-----------------------------------------------------------------------------
LimitTypeOK ==
    /\ program \in {"multiprocess", "multithread"}
    /\ run \in 0 .. MaxRuns
    /\ linked \in 0 .. MaxRuns
    /\ connections \in [Runs -> 0 .. MaxConcurrency]
    /\ main \in {"exited", "accept", "wait", "fork"}
    /\ client_desc \in Clients \cup {None}
    /\ backlog \in Seq(Clients)
    /\ handler \in [Clients -> {"outside", "queued", "welcome", "recv",
                                "echo", "close", "post", "exit", "ended",
                                "failed"}]
    /\ owner \in [Clients -> 0 .. MaxRuns]

Of(r, S) == {c \in S : owner[c] = r}

\* Tokens of run r that no handler will give back: a child died with one.
Leaked(r) == Of(r, {c \in Clients : handler[c] = "failed"})

(* Every token is on the semaphore of its own run, with main, with a       *)
(* handler that has not posted, or lost with a child that died: handlers   *)
(* that outlive their server never add to the next server's semaphore.     *)
TokensAccounted ==
    main # "exited" =>
        connections[run]
            + (IF main = "fork" THEN 1 ELSE 0)
            + Cardinality(Of(run, Serving \cup
                             {c \in Clients : handler[c] = "post"}))
            + Cardinality(Leaked(run))
          = MaxConcurrency

(* "The maximum number of connections to handle in parallel": no run of    *)
(* the server ever has more connections open in its handlers.              *)
ServingBounded ==
    \A r \in Runs : Cardinality(Of(r, Serving)) <= MaxConcurrency

(* A connection that was established is handled to its end, however many   *)
(* others compete for the tokens and however often the server is started   *)
(* again, as long as not every token of the run has died with a child.     *)
EveryClientServed ==
    \A c \in Clients : handler[c] = "queued" ~>
        \/ handler[c] \in {"ended", "failed"}
        \/ Cardinality(Leaked(run)) >= MaxConcurrency
=============================================================================
