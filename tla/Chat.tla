-------------------------------- MODULE Chat --------------------------------
(***************************************************************************)
(* lab10: two endpoints chat until one of them sends BYE.  Each has a      *)
(* thread that receives and one that sends; they share shouldStop.         *)
(*                                                                         *)
(* The variable program says which of the two programs it is:              *)
(*   "fifo"     chat-fifo.c, over a Listen and an Accept FIFO              *)
(*   "socket"   chat-socket.c, over a TCP connection                       *)
(* A line is shorter than BUFFER_SIZE and is sent whole, so that a line is *)
(* one message: the number of the line, or Bye.                            *)
(***************************************************************************)
EXTENDS Integers, Sequences

CONSTANTS MaxLines,   \* bound: lines the user of an endpoint types
          MaxFaults   \* bound: endpoints that are killed or fail

ASSUME ChatAssumption == MaxLines \in Nat /\ MaxFaults \in Nat

Bye  == 0                          \* CLOSE_COMMAND
Ends == {"accept", "connect"}
Peer(e)   == IF e = "accept" THEN "connect" ELSE "accept"
FifoNames == {"listen_fifo", "accept_fifo"}

VARIABLES program,
          names,       \* FIFOs that exist in the file system
          main,        \* what the main thread of each endpoint does next
          desc,        \* its descriptors: "none", "half" (one FIFO), "open",
                       \* "sendclosed" (one FIFO), "closed"
          recv, send,  \* what its two threads do next
          shouldStop,
          line,        \* the line in the buffer of the sender
          wire,        \* messages it sent that were not read yet
          sent,        \* all messages it sent
          shown,       \* all messages it received
          reset,       \* the connection was reset by the other endpoint
          faults

vars == <<program, names, main, desc, recv, send, shouldStop, line, wire, sent,
          shown, reset, faults>>

Fifo   == program = "fifo"
Ended  == {"exited", "failed"}

\* The FIFOs of a chat that ended badly may still be there.
Init == /\ program \in {"fifo", "socket"}
        /\ names \in IF program = "fifo" THEN SUBSET FifoNames ELSE {{}}
        /\ main = [e \in Ends |-> "off"]
        /\ desc = [e \in Ends |-> "none"]
        /\ recv = [e \in Ends |-> "unborn"]
        /\ send = [e \in Ends |-> "unborn"]
        /\ shouldStop = [e \in Ends |-> FALSE]
        /\ line = [e \in Ends |-> Bye]
        /\ wire = [e \in Ends |-> << >>]
        /\ sent = [e \in Ends |-> << >>]
        /\ shown = [e \in Ends |-> << >>]
        /\ reset = [e \in Ends |-> FALSE]
        /\ faults = 0

\* The descriptors of e are closed.  Closing a socket with unread messages, or
\* the end of a connection that nobody accepted, resets the connection.
Close(e) ==
    LET p == Peer(e)
    IN  /\ desc' = [desc EXCEPT ![e] = IF @ = "none" THEN @ ELSE "closed"]
        /\ wire' = [wire EXCEPT ![p] = << >>]
        /\ reset' = [reset EXCEPT ![p] =
                        \/ @
                        \/ /\ ~Fifo /\ desc[p] # "none"
                           /\ wire[p] # << >> \/ desc[e] = "none"]

\* The process of e ends at once: exit() in an error helper, or a signal.
Die(e) ==
    /\ main' = [main EXCEPT ![e] = "failed"]
    /\ recv' = [recv EXCEPT ![e] = IF @ = "unborn" THEN @ ELSE "done"]
    /\ send' = [send EXCEPT ![e] = IF @ = "unborn" THEN @ ELSE "done"]
    /\ Close(e)
    /\ UNCHANGED <<program, names, shouldStop, line, sent, shown>>
-----------------------------------------------------------------------------
(* The main thread: listenOnFIFO, connectOnFIFO, listenOnPort, connectTo   *)
MainMoves(e, from, to) == main[e] = from /\ main' = [main EXCEPT ![e] = to]

threads == <<recv, send, shouldStop, line, sent, shown>>
link    == <<desc, wire, reset>>

Start(e) ==
    /\ MainMoves(e, "off", CASE Fifo /\ e = "accept"    -> "mkfifo1"
                             [] Fifo /\ e = "connect"   -> "open1"
                             [] ~Fifo /\ e = "accept"   -> "listen"
                             [] ~Fifo /\ e = "connect"  -> "connect")
    /\ UNCHANGED <<program, names, link, threads, faults>>

\* mkfifo() fails if the name exists.
Mkfifo(from, to, name) ==
    /\ main["accept"] = from
    /\ IF name \in names
       THEN Die("accept")
       ELSE /\ MainMoves("accept", from, to)
            /\ names' = names \cup {name}
            /\ UNCHANGED <<program, link, threads>>
    /\ UNCHANGED faults

\* open() of a FIFO returns when both its ends are being opened.
OpenBoth(from, to, d) ==
    /\ \A e \in Ends : main[e] = from
    /\ main' = [e \in Ends |-> to]
    /\ desc' = [e \in Ends |-> d]
    /\ UNCHANGED <<program, names, wire, reset, threads, faults>>

\* There is no Listen FIFO, or nobody listens on the port.
ConnectFails ==
    /\ \/ main["connect"] = "open1" /\ "listen_fifo" \notin names
       \/ main["connect"] = "connect" /\ main["accept"] # "accept"
    /\ Die("connect")
    /\ UNCHANGED faults

Listen ==
    /\ MainMoves("accept", "listen", "accept")
    /\ UNCHANGED <<program, names, link, threads, faults>>

\* The kernel completes the connection; accept() returns it later.
Connect ==
    /\ main["accept"] = "accept"
    /\ MainMoves("connect", "connect", "create1")
    /\ desc' = [desc EXCEPT !["connect"] = "open"]
    /\ UNCHANGED <<program, names, wire, reset, threads, faults>>
Accept ==
    /\ desc["connect"] # "none"
    /\ MainMoves("accept", "accept", "create1")
    /\ desc' = [desc EXCEPT !["accept"] = "open"]
    /\ UNCHANGED <<program, names, wire, reset, threads, faults>>

(* chatSession                                                             *)
CreateRecv(e) ==
    /\ MainMoves(e, "create1", "create2")
    /\ recv' = [recv EXCEPT ![e] = "check"]
    /\ UNCHANGED <<program, names, link, send, shouldStop, line, sent, shown,
                   faults>>
CreateSend(e) ==
    /\ MainMoves(e, "create2", "join1")
    /\ send' = [send EXCEPT ![e] = "check"]
    /\ UNCHANGED <<program, names, link, recv, shouldStop, line, sent, shown,
                   faults>>

\* Mutation: the descriptors are closed before the threads were joined.
JoinNone(e) ==
    /\ MainMoves(e, "join1", "close")
    /\ UNCHANGED <<program, names, link, threads, faults>>

JoinRecv(e) ==
    /\ recv[e] = "done"
    /\ MainMoves(e, "join1", "join2")
    /\ UNCHANGED <<program, names, link, threads, faults>>
JoinSend(e) ==
    /\ send[e] = "done"
    /\ MainMoves(e, "join2", "close")
    /\ UNCHANGED <<program, names, link, threads, faults>>

\* The sending FIFO is closed before the receiving one.
CloseSend(e) ==
    /\ Fifo
    /\ MainMoves(e, "close", "close2")
    /\ desc' = [desc EXCEPT ![e] = "sendclosed"]
    /\ UNCHANGED <<program, names, wire, reset, threads, faults>>
CloseAll(e) ==
    /\ MainMoves(e, IF Fifo THEN "close2" ELSE "close",
                 IF Fifo /\ e = "accept" THEN "unlink1" ELSE "exited")
    /\ Close(e)
    /\ UNCHANGED <<program, names, threads, faults>>
Unlink(from, to, name) ==
    /\ MainMoves("accept", from, to)
    /\ names' = names \ {name}
    /\ UNCHANGED <<program, link, threads, faults>>
-----------------------------------------------------------------------------
(* receiveMessage                                                          *)
RecvMoves(e, from, to) == recv[e] = from /\ recv' = [recv EXCEPT ![e] = to]

RecvCheck(e) ==
    /\ RecvMoves(e, "check", IF shouldStop[e] THEN "done" ELSE "select")
    /\ UNCHANGED <<program, names, main, link, send, shouldStop, line, sent,
                   shown, faults>>

SendEndClosed(e) == desc[e] \in {"sendclosed", "closed"}
Readable(e) == wire[Peer(e)] # << >> \/ SendEndClosed(Peer(e)) \/ reset[e]

\* Mutation: select() without a timeout.
WaitForData(e) == FALSE

\* select() returns 0 after 1.5 seconds; shouldStop is looked at again.
SelectTimeout(e) ==
    /\ ~Readable(e)
    /\ RecvMoves(e, "select", "check")
    /\ UNCHANGED <<program, names, main, link, send, shouldStop, line, sent,
                   shown, faults>>

\* A line was read up to its newline.
ReadLine(e) ==
    /\ wire[Peer(e)] # << >>
    /\ RecvMoves(e, "select", "check")
    /\ wire' = [wire EXCEPT ![Peer(e)] = Tail(@)]
    /\ shown' = [shown EXCEPT ![e] = Append(@, Head(wire[Peer(e)]))]
    /\ shouldStop' = [shouldStop EXCEPT ![e] = @ \/ Head(wire[Peer(e)]) = Bye]
    /\ UNCHANGED <<program, names, main, desc, send, line, sent, reset, faults>>

\* Mutation: a read of zero bytes is taken for a timeout.
IgnoreEnd(e) ==
    /\ wire[Peer(e)] = << >> /\ SendEndClosed(Peer(e)) /\ ~reset[e]
    /\ RecvMoves(e, "select", "check")
    /\ UNCHANGED <<program, names, main, link, send, shouldStop, line, sent,
                   shown, faults>>

\* read() or recv() returns 0: "Endpoint closed the connection unexpectedly".
ReadEnd(e) ==
    /\ wire[Peer(e)] = << >> /\ SendEndClosed(Peer(e)) /\ ~reset[e]
    /\ RecvMoves(e, "select", "done")
    /\ shouldStop' = [shouldStop EXCEPT ![e] = TRUE]
    /\ UNCHANGED <<program, names, main, link, send, line, sent, shown, faults>>

\* recv() reports the reset after the data that came before it.
ReadFails(e) ==
    /\ recv[e] = "select"
    /\ wire[Peer(e)] = << >> /\ reset[e]
    /\ Die(e)
    /\ UNCHANGED faults
-----------------------------------------------------------------------------
(* sendMessage                                                             *)
SendMoves(e, from, to) == send[e] = from /\ send' = [send EXCEPT ![e] = to]

\* The test in the while loop, and the one after fgets().
SendCheck(e) ==
    /\ \/ SendMoves(e, "check", IF shouldStop[e] THEN "done" ELSE "input")
       \/ SendMoves(e, "recheck", IF shouldStop[e] THEN "done" ELSE "write")
    /\ UNCHANGED <<program, names, main, link, recv, shouldStop, line, sent,
                   shown, faults>>

\* The user types a line; the last one is BYE, or ENTER when told to.
Input(e) ==
    /\ SendMoves(e, "input", "recheck")
    /\ \E l \in {Bye, Len(sent[e]) + 1} :
          /\ l <= MaxLines
          /\ line' = [line EXCEPT ![e] = l]
    /\ UNCHANGED <<program, names, main, link, recv, shouldStop, sent, shown,
                   faults>>

\* What becomes of a write: the message is queued; it is lost in a socket the
\* peer closed, which answers with a reset; or there is nobody to read it and
\* SIGPIPE or the error helper ends the process.
Write(e) ==
    /\ send[e] = "write"
    /\ \/ /\ desc[Peer(e)] # "closed" /\ ~reset[e]
          /\ wire' = [wire EXCEPT ![e] = Append(@, line[e])]
          /\ sent' = [sent EXCEPT ![e] = Append(@, line[e])]
          /\ SendMoves(e, "write", IF line[e] = Bye THEN "bye" ELSE "check")
          /\ UNCHANGED <<program, names, main, desc, recv, shouldStop, line,
                         shown, reset>>
       \/ /\ desc[Peer(e)] = "closed" /\ ~reset[e] /\ ~Fifo
          /\ sent' = [sent EXCEPT ![e] = Append(@, line[e])]
          /\ \E b \in BOOLEAN : reset' = [reset EXCEPT ![e] = b]
          /\ SendMoves(e, "write", IF line[e] = Bye THEN "bye" ELSE "check")
          /\ UNCHANGED <<program, names, main, desc, recv, shouldStop, line,
                         wire, shown>>
       \/ /\ reset[e] \/ (Fifo /\ desc[Peer(e)] = "closed")
          /\ Die(e)
    /\ UNCHANGED faults

\* Mutation: shouldStop is not set after BYE.
ForgetBye(e) ==
    /\ SendMoves(e, "bye", "check")
    /\ UNCHANGED <<program, names, main, link, recv, shouldStop, line, sent,
                   shown, faults>>

ByeSent(e) ==
    /\ SendMoves(e, "bye", "check")
    /\ shouldStop' = [shouldStop EXCEPT ![e] = TRUE]
    /\ UNCHANGED <<program, names, main, link, recv, line, sent, shown, faults>>

\* End of stdin, a failed call such as pthread_create(), or a deadly signal.
Fault(e) ==
    /\ main[e] \notin Ended \cup {"off"}
    /\ faults < MaxFaults
    /\ faults' = faults + 1
    /\ Die(e)
-----------------------------------------------------------------------------
MainStep(e) ==
    \/ e = "accept" /\ \/ Mkfifo("mkfifo1", "mkfifo2", "listen_fifo")
                       \/ Mkfifo("mkfifo2", "open1", "accept_fifo")
                       \/ Listen
                       \/ Accept
                       \/ Unlink("unlink1", "unlink2", "listen_fifo")
                       \/ Unlink("unlink2", "exited", "accept_fifo")
    \/ e = "connect" /\ (Connect \/ ConnectFails)
    \/ OpenBoth("open1", "open2", "half") \/ OpenBoth("open2", "create1", "open")
    \/ CreateRecv(e) \/ CreateSend(e) \/ JoinRecv(e) \/ JoinSend(e)
    \/ CloseSend(e) \/ CloseAll(e)

RecvStep(e) == \/ RecvCheck(e) \/ SelectTimeout(e) \/ ReadLine(e)
               \/ ReadEnd(e) \/ ReadFails(e)

SendStep(e) == SendCheck(e) \/ Write(e) \/ ByeSent(e)

Next == \E e \in Ends : \/ Start(e) \/ MainStep(e) \/ RecvStep(e) \/ SendStep(e)
                        \/ Input(e) \/ Fault(e)

Spec == Init /\ [][Next]_vars

\* Threads that can run do; a user never has to type.
FairSpec == /\ Spec
            /\ \A e \in Ends : /\ WF_vars(MainStep(e))
                               /\ WF_vars(RecvStep(e))
                               /\ WF_vars(SendStep(e))
-----------------------------------------------------------------------------
Messages == 0 .. MaxLines

TypeOK ==
    /\ program \in {"fifo", "socket"}
    /\ names \subseteq FifoNames
    /\ main \in [Ends -> Ended \cup
                   {"off", "mkfifo1", "mkfifo2", "open1", "open2", "listen",
                    "accept", "connect", "create1", "create2", "join1",
                    "join2", "close", "close2", "unlink1", "unlink2"}]
    /\ desc \in [Ends -> {"none", "half", "open", "sendclosed", "closed"}]
    /\ recv \in [Ends -> {"unborn", "check", "select", "done"}]
    /\ send \in [Ends -> {"unborn", "check", "input", "recheck", "write",
                          "bye", "done"}]
    /\ shouldStop \in [Ends -> BOOLEAN] /\ reset \in [Ends -> BOOLEAN]
    /\ line \in [Ends -> Messages]
    /\ wire \in [Ends -> Seq(Messages)] /\ sent \in [Ends -> Seq(Messages)]
    /\ shown \in [Ends -> Seq(Messages)]
    /\ faults \in 0 .. MaxFaults

(* When an endpoint has read BYE, it has shown every message the other one *)
(* ever sent, in order: the threads of the sender stop at BYE, and neither *)
(* closes the channel under what was sent before it.                       *)
NothingLostBeforeBye ==
    \A e \in Ends : (\E i \in 1 .. Len(shown[e]) : shown[e][i] = Bye)
                       => shown[e] = sent[Peer(e)]

(* Without a fault from outside an endpoint that chats only ends badly, on *)
(* a line typed after the other one said BYE and left: the descriptors are *)
(* closed when both threads have ended, never before.                      *)
FailsOnlyAfterBye ==
    \A e \in Ends :
        main[e] = "failed" /\ recv[e] # "unborn" /\ faults = 0
        => \E i \in 1 .. Len(sent[Peer(e)]) : sent[Peer(e)][i] = Bye

(* An endpoint told to stop, by its own BYE, the other's or the end of the *)
(* channel, ends without help from the other one, as soon as its user has  *)
(* pressed ENTER: select() comes back to look at shouldStop.               *)
StopsWhenTold ==
    \A e \in Ends : (shouldStop[e] /\ send[e] # "input") ~> main[e] \in Ended

(* An endpoint that chats learns that the other one is gone, whether it    *)
(* said BYE, was killed, or left messages unread.                          *)
PeerLearns ==
    \A e \in Ends :
        (main[Peer(e)] \in Ended /\ desc[e] = "open")
            ~> (shouldStop[e] \/ main[e] \in Ended)
=============================================================================
