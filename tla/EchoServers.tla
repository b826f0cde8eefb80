---------------------------- MODULE EchoServers -----------------------------
(***************************************************************************)
(* The TCP servers without a limit on connections, and their clients:      *)
(*   "base"           lab08 base.c, one connection after the other         *)
(*   "multiprocess"   lab08 multiprocess.c, a child for each connection    *)
(*   "multithread"    lab08 multithread.c, a thread for each connection    *)
(*   "time"           lab06 time server, one request per connection        *)
(* Client and server take turns, so that a connection carries at most one  *)
(* message; of its content matters whether it is text or QUIT.  A process  *)
(* holds a connection open until it closes its copy of the descriptor.     *)
(***************************************************************************)
EXTENDS Integers, Sequences, FiniteSets

CONSTANTS Clients,       \* connections made to the server
          MaxConnQueue,  \* MAX_CONN_QUEUE
          MaxFaults      \* bound: processes that are killed or fail

ASSUME ServersAssumption ==
    /\ IsFiniteSet(Clients)
    /\ MaxConnQueue \in Nat \ {0}
    /\ MaxFaults \in Nat

None == "none"
ASSUME NoneAssumption == None \notin Clients

Buffers == 0 .. Cardinality(Clients)

VARIABLES program,
          main,         \* what the server's main thread does next
          client_desc,  \* the connection it accepted
          backlog,      \* established connections waiting for accept()
          client_addr,  \* the buffer accept() puts the address in
          content,      \* whose address each buffer of the server holds
          handler,      \* what the handler of each connection does next
          args,         \* the buffer a handler thread was given
          address,      \* the address the handler found in it
          holders,      \* processes that hold the connection open
          client,       \* what each client does next; "gone" when it closed,
                        \* "reset" when data met its closed socket
          msg,          \* the message on the connection
          faults

vars   == <<program, main, client_desc, backlog, client_addr, content, handler,
            args, address, holders, client, msg, faults>>
server == <<main, client_desc, backlog, client_addr, content>>
memory == <<args, address>>

Time    == program = "time"
Serial  == program \in {"base", "time"}
Threads == program = "multithread"
Forks   == program = "multiprocess"
\* The process a handler runs in.
Holder  == IF Forks THEN "child" ELSE "main"

Alive(c) == handler[c] \in {"parse", "welcome", "recv", "echo", "close"}
\* Nobody at the server's end of an established connection.
Over(c)  == handler[c] \in {"ended", "failed"} /\ holders[c] = {}

Init == /\ program \in {"base", "multiprocess", "multithread", "time"}
        /\ main = "accept"
        /\ client_desc = None
        /\ backlog = << >>
        /\ client_addr = 0
        /\ content = [b \in Buffers |-> None]
        /\ handler = [c \in Clients |-> "outside"]
        /\ args = [c \in Clients |-> 0]
        /\ address = [c \in Clients |-> None]
        /\ holders = [c \in Clients |-> {}]
        /\ client = [c \in Clients |-> "off"]
        /\ msg = [c \in Clients |-> None]
        /\ faults = 0
-----------------------------------------------------------------------------
(* main of the servers                                                     *)
Accept ==
    /\ main = "accept"
    /\ backlog # << >>
    /\ client_desc' = Head(backlog)
    /\ backlog' = Tail(backlog)
    /\ content' = [content EXCEPT ![client_addr] = client_desc']
    /\ holders' = [holders EXCEPT ![client_desc'] = {"main"}]
    /\ main' = "start"
    /\ UNCHANGED <<program, client_addr, handler, memory, client, msg, faults>>

\* connection_handler is called, forked or created as a thread.  A child has a
\* copy of the server's memory and descriptors, a thread shares them.
StartHandler ==
    LET c == client_desc
    IN  /\ main = "start"
        /\ handler' = [handler EXCEPT ![c] = IF Time THEN "recv" ELSE "parse"]
        /\ args' = [args EXCEPT ![c] = client_addr]
        /\ address' = [address EXCEPT ![c] = IF Threads THEN None
                                             ELSE content[client_addr]]
        /\ holders' = [holders EXCEPT ![c] = @ \cup {Holder}]
        /\ main' = CASE Serial  -> "serving"
                     [] Forks   -> "close"
                     [] Threads -> "calloc"
        /\ UNCHANGED <<program, client_desc, backlog, client_addr, content,
                       client, msg, faults>>

\* base.c and the time server: connection_handler has returned.
HandlerReturned ==
    /\ main = "serving"
    /\ handler[client_desc] = "ended"
    /\ main' = IF Time THEN "accept" ELSE "memset"
    /\ UNCHANGED <<program, client_desc, backlog, client_addr, content,
                   handler, memory, holders, client, msg, faults>>

\* Mutation: the parent keeps its copy of the connection.
KeepCopy ==
    /\ main = "close"
    /\ main' = "memset"
    /\ UNCHANGED <<program, client_desc, backlog, client_addr, content,
                   handler, memory, holders, client, msg, faults>>

\* multiprocess.c: the parent closes its copy of the connection.
CloseCopy ==
    /\ main = "close"
    /\ holders' = [holders EXCEPT ![client_desc] = @ \ {"main"}]
    /\ main' = "memset"
    /\ UNCHANGED <<program, client_desc, backlog, client_addr, content,
                   handler, memory, client, msg, faults>>

\* base.c and multiprocess.c: the fields of client_addr are reset.
ClearAddress ==
    /\ main = "memset"
    /\ content' = [content EXCEPT ![client_addr] = None]
    /\ main' = "accept"
    /\ UNCHANGED <<program, client_desc, backlog, client_addr, handler, memory,
                   holders, client, msg, faults>>

\* Mutation: the fields of client_addr are reset.
ReuseAddress ==
    /\ main = "calloc"
    /\ content' = [content EXCEPT ![client_addr] = None]
    /\ main' = "accept"
    /\ UNCHANGED <<program, client_desc, backlog, client_addr, handler, memory,
                   holders, client, msg, faults>>

\* multithread.c: "we can't just reset fields: we need a new buffer".
NewAddress ==
    /\ main = "calloc"
    /\ client_addr' = client_addr + 1
    /\ main' = "accept"
    /\ UNCHANGED <<program, client_desc, backlog, content, handler, memory,
                   holders, client, msg, faults>>

\* The main process ends: connections without a child are closed.
MainGone ==
    /\ main' = "exited"
    /\ backlog' = << >>
    /\ handler' = [c \in Clients |->
                     IF handler[c] = "queued" \/ (Alive(c) /\ ~Forks)
                     THEN "failed" ELSE handler[c]]
    /\ holders' = [c \in Clients |-> holders[c] \ {"main"}]
    /\ UNCHANGED <<program, client_desc, client_addr, content, memory>>

\* A signal, or ERROR_HELPER after accept(), fork() or pthread_create().
MainDies ==
    /\ main # "exited"
    /\ faults < MaxFaults
    /\ faults' = faults + 1
    /\ MainGone
    /\ UNCHANGED <<client, msg>>
-----------------------------------------------------------------------------
(* connection_handler                                                      *)
Moves(c, from, to) ==
    handler[c] = from /\ handler' = [handler EXCEPT ![c] = to]

\* exit() in ERROR_HELPER, or SIGPIPE.
HandlerGone(c) ==
    IF Forks
    THEN /\ handler' = [handler EXCEPT ![c] = "failed"]
         /\ holders' = [holders EXCEPT ![c] = @ \ {"child"}]
         /\ UNCHANGED <<program, server, memory>>
    ELSE MainGone

\* inet_ntop() on the address; a child and main have it to themselves.
ParseAddress(c) ==
    /\ Moves(c, "parse", "welcome")
    /\ address' = [address EXCEPT ![c] = IF Threads THEN content[args[c]] ELSE @]
    /\ UNCHANGED <<program, server, args, holders, client, msg, faults>>

\* send(): what is sent to a socket that was closed is answered with a reset,
\* and after a reset it is an error.
Send(c, from, to, m) ==
    /\ handler[c] = from
    /\ IF client[c] = "reset"
       THEN HandlerGone(c) /\ UNCHANGED <<client, msg>>
       ELSE /\ Moves(c, from, to)
            /\ IF client[c] = "gone"
               THEN client' = [client EXCEPT ![c] = "reset"] /\ UNCHANGED msg
               ELSE msg' = [msg EXCEPT ![c] = m] /\ UNCHANGED client
            /\ UNCHANGED <<program, server, memory, holders>>
    /\ UNCHANGED faults

SendWelcome(c) == Send(c, "welcome", "recv", "welcome")
SendBack(c)    == Send(c, "echo", IF Time THEN "close" ELSE "recv", "answer")

\* recv(): text, or QUIT; the time server answers whatever it receives.
RecvMessage(c) ==
    /\ msg[c] \in {"text", "quit"}
    /\ Moves(c, "recv", IF msg[c] = "quit" THEN "close" ELSE "echo")
    /\ msg' = [msg EXCEPT ![c] = None]
    /\ UNCHANGED <<program, server, memory, holders, client, faults>>

\* Mutation: the time server receives again while recv() returns 0.
SpinAtEnd(c) == FALSE

\* recv() returns 0.  The time server takes it for a request; the handlers of
\* the echo servers send back no bytes and receive again, for ever.
RecvEnd(c) ==
    /\ Time
    /\ client[c] = "gone" /\ msg[c] = None
    /\ Moves(c, "recv", "echo")
    /\ UNCHANGED <<program, server, memory, holders, client, msg, faults>>

RecvFails(c) ==
    /\ handler[c] = "recv"
    /\ client[c] = "reset" /\ msg[c] = None
    /\ HandlerGone(c)
    /\ UNCHANGED <<client, msg, faults>>

CloseSocket(c) ==
    /\ Moves(c, "close", "ended")
    /\ holders' = [holders EXCEPT ![c] = @ \ {Holder}]
    /\ UNCHANGED <<program, server, memory, client, msg, faults>>

\* A signal to the child, or a call of the handler that fails.
HandlerDies(c) ==
    /\ Alive(c)
    /\ faults < MaxFaults
    /\ faults' = faults + 1
    /\ HandlerGone(c)
    /\ UNCHANGED <<client, msg>>
-----------------------------------------------------------------------------
(* The clients                                                             *)
ClientMoves(c, from, to) ==
    /\ client[c] = from
    /\ client' = [client EXCEPT ![c] = to]
    /\ UNCHANGED <<program, main, client_desc, client_addr, content, memory,
                   holders>>

\* connect() succeeds when the kernel has queued the connection.
Connect(c) ==
    /\ main # "exited"
    /\ Len(backlog) < MaxConnQueue
    /\ ClientMoves(c, "off", IF Time THEN "input" ELSE "welcome")
    /\ backlog' = Append(backlog, c)
    /\ handler' = [handler EXCEPT ![c] = "queued"]
    /\ UNCHANGED <<msg, faults>>

\* The user types a text or QUIT, and it is sent; an empty line is not.  When
\* the server's end is gone it is lost or deadly.  The time client sends TIME.
Insert(c, what) ==
    /\ UNCHANGED <<backlog, handler, faults>>
    /\ IF Over(c)
       THEN /\ \E s \in {"answer", "gone"} : ClientMoves(c, "input", s)
            /\ UNCHANGED msg
       ELSE /\ ClientMoves(c, "input", CASE what = "text" -> "answer"
                                         [] what = "quit" -> "bye"
                                         [] what = None   -> "empty")
            /\ msg' = [msg EXCEPT ![c] = what]

InsertText(c)  == Insert(c, "text")
InsertQuit(c)  == ~Time /\ Insert(c, "quit")
InsertEmpty(c) == ~Time /\ Insert(c, None)

\* recv() of the welcome or of the answer.  When the connection is over it
\* returns 0 or -1: the lab08 client, whose msg_len has no sign, takes that for
\* an answer, or crashes as it terminates the string at buf[-1]; the time client
\* goes on or exits.
Recv(c, from, to) ==
    /\ UNCHANGED <<backlog, handler, faults>>
    /\ \/ /\ msg[c] \in {"welcome", "answer"}
          /\ ClientMoves(c, from, to)
          /\ msg' = [msg EXCEPT ![c] = None]
       \/ /\ Over(c) /\ msg[c] \notin {"welcome", "answer"}
          /\ \E s \in {to, "gone"} : ClientMoves(c, from, s)
          /\ UNCHANGED msg

RecvWelcome(c) == Recv(c, "welcome", "input")
RecvAnswer(c)  == \E s \in {"answer", "empty"} :
                     Recv(c, s, IF Time THEN "bye" ELSE "input")

CloseClient(c) ==
    /\ ClientMoves(c, "bye", "gone")
    /\ UNCHANGED <<backlog, handler, msg, faults>>

\* The client is killed, or its stdin ends: an unread message is a reset.
ClientDies(c) ==
    /\ faults < MaxFaults
    /\ faults' = faults + 1
    /\ \E s \in {"welcome", "input", "answer", "empty", "bye"} :
          ClientMoves(c, s, IF msg[c] \in {"welcome", "answer"} THEN "reset"
                                                                ELSE "gone")
    /\ msg' = [msg EXCEPT ![c] = IF @ \in {"welcome", "answer"} THEN None ELSE @]
    /\ UNCHANGED <<backlog, handler>>
-----------------------------------------------------------------------------
MainStep == \/ Accept \/ StartHandler \/ HandlerReturned \/ CloseCopy
            \/ ClearAddress \/ NewAddress

HandlerStep(c) == \/ ParseAddress(c) \/ SendWelcome(c) \/ RecvMessage(c)
                  \/ SendBack(c) \/ RecvEnd(c) \/ RecvFails(c) \/ CloseSocket(c)

ClientStep(c) == RecvWelcome(c) \/ RecvAnswer(c) \/ CloseClient(c)

Next == \/ MainStep \/ MainDies
        \/ \E c \in Clients : \/ HandlerStep(c) \/ HandlerDies(c)
                              \/ Connect(c) \/ ClientStep(c) \/ ClientDies(c)
                              \/ InsertText(c) \/ InsertQuit(c) \/ InsertEmpty(c)

Spec == Init /\ [][Next]_vars

\* Processes and threads that can run do (scheduler); a user who is asked for a
\* line again and again types QUIT some time, the time client sends its request.
FairSpec == /\ Spec
            /\ WF_vars(MainStep)
            /\ \A c \in Clients : /\ WF_vars(HandlerStep(c))
                                  /\ WF_vars(ClientStep(c))
                                  /\ SF_vars(InsertQuit(c))
                                  /\ WF_vars(Time /\ InsertText(c))
-----------------------------------------------------------------------------
TypeOK ==
    /\ program \in {"base", "multiprocess", "multithread", "time"}
    /\ main \in {"accept", "start", "serving", "close", "memset", "calloc",
                 "exited"}
    /\ client_desc \in Clients \cup {None}
    /\ backlog \in Seq(Clients)
    /\ client_addr \in Buffers
    /\ content \in [Buffers -> Clients \cup {None}]
    /\ handler \in [Clients -> {"outside", "queued", "parse", "welcome", "recv",
                                "echo", "close", "ended", "failed"}]
    /\ args \in [Clients -> Buffers]
    /\ address \in [Clients -> Clients \cup {None}]
    /\ holders \in [Clients -> SUBSET {"main", "child"}]
    /\ client \in [Clients -> {"off", "welcome", "input", "answer", "empty",
                               "bye", "gone", "reset"}]
    /\ msg \in [Clients -> {None, "welcome", "text", "quit", "answer"}]
    /\ faults \in 0 .. MaxFaults

(* A handler welcomes its own client, "You are %s talking on port %hu",    *)
(* however late the thread looks at the address main left for it, and      *)
(* whatever connections main accepted in the meantime.                     *)
WelcomeNamesClient ==
    \A c \in Clients : handler[c] \in {"welcome", "recv", "echo"} => address[c] = c

\* A connection that keeps its handler: an empty line left both ends in
\* recv(), or the client left without QUIT and the handler spins.
Held(c) == Alive(c) /\ (client[c] = "empty" \/ (client[c] = "gone" /\ ~Time))

(* A connection in the queue gets a handler, or is reset with the server;  *)
(* in the serial servers, unless one before it keeps the only handler.     *)
EveryClientAccepted ==
    \A c \in Clients : handler[c] = "queued" ~>
        \/ handler[c] # "queued"
        \/ Serial /\ \E d \in Clients : Held(d)

(* A client that sent a text does not wait for ever once it has a handler: *)
(* it gets an answer, or learns that no process holds its connection.      *)
AnswersArrive ==
    \A c \in Clients :
        (client[c] = "answer" /\ handler[c] \notin {"outside", "queued"})
            ~> client[c] # "answer"
=============================================================================
