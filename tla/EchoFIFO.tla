------------------------------ MODULE EchoFIFO ------------------------------
(***************************************************************************)
(* lab09 EchoFIFO: echo.c creates two FIFOs and sends back on echo_fifo    *)
(* what client.c writes to client_fifo, until it reads the quit command.   *)
(*                                                                         *)
(* A line fits in the 1023 bytes that one read() asks for and a FIFO takes *)
(* it whole, so a line is one message; what matters of it is whether it is *)
(* empty or the quit command.                                              *)
(***************************************************************************)
EXTENDS Integers, Sequences

CONSTANTS Texts,     \* lines that are neither empty nor the quit command
          Lines,     \* the lines the user may type
          MaxRuns,   \* bound: times each program is started
          MaxKills   \* bound: times one of them is killed

QUIT    == "QUIT"     \* QUIT_COMMAND
Empty   == "empty"    \* a line with nothing before its newline
Welcome == "welcome"

ASSUME LineAssumption ==
    /\ Lines \subseteq Texts \cup {QUIT, Empty}
    /\ Texts \cap {QUIT, Empty, Welcome} = {}
    /\ MaxRuns["echo"] \in Nat /\ MaxRuns["client"] \in Nat
    /\ MaxKills \in Nat

Programs == {"echo", "client"}
Fifos    == {"echo_fifo", "client_fifo"}
Peer(p)  == IF p = "echo" THEN "client" ELSE "echo"
\* The FIFO a program writes to, and the one it reads from.
Out(p)   == IF p = "echo" THEN "echo_fifo" ELSE "client_fifo"
In(p)    == Out(Peer(p))

\* Mutation: the client opens the FIFO it writes to first.
WritersFirst(p) == IF p = "echo" THEN <<"echo_fifo", "client_fifo">>
                                 ELSE <<"client_fifo", "echo_fifo">>

\* "It is important that the two FIFOs are opened in the same order."
OpenOrder(p) == <<"echo_fifo", "client_fifo">>

VARIABLES names,  \* FIFOs that exist in the file system
          end,    \* end[p][f]: p's end of f is "closed", "opening" or "open"
          data,   \* messages in each FIFO
          pc,     \* what each program does next
          buf,    \* the message in each program's buffer
          runs, kills

fifoVars == <<names, end, data, pc, buf, runs, kills>>
bounds   == <<runs, kills>>

AllClosed == [f \in Fifos |-> "closed"]

FIFOInit == /\ names = {}
            /\ end = [p \in Programs |-> AllClosed]
            /\ data = [f \in Fifos |-> << >>]
            /\ pc = [p \in Programs |-> "off"]
            /\ buf = [p \in Programs |-> Empty]
            /\ runs = [p \in Programs |-> 0]
            /\ kills = 0

Goto(p, from, to) == pc[p] = from /\ pc' = [pc EXCEPT ![p] = to]

\* A FIFO that nobody has open any more loses its data.
CloseEnds(p) ==
    /\ end' = [end EXCEPT ![p] = AllClosed]
    /\ data' = [f \in Fifos |->
                  IF end[Peer(p)][f] = "closed" THEN << >> ELSE data[f]]

\* The program ends, and the kernel closes its descriptors.
Ends(p) ==
    /\ pc' = [pc EXCEPT ![p] = "off"]
    /\ CloseEnds(p)
    /\ UNCHANGED buf
-----------------------------------------------------------------------------
(* Starting, creating and opening the FIFOs.                               *)

\* Nobody starts echo again while a client still has the old FIFOs open.
Start(p) ==
    /\ runs[p] < MaxRuns[p]
    /\ runs' = [runs EXCEPT ![p] = @ + 1]
    /\ p = "echo" => end["client"] = AllClosed
    /\ Goto(p, "off", IF p = "echo" THEN "mkfifo1" ELSE "open1")
    /\ UNCHANGED <<names, end, data, buf, kills>>

\* mkfifo fails with EEXIST when an earlier run left the name behind.
MakeFIFO(f, from, to) ==
    /\ pc["echo"] = from
    /\ IF f \in names
       THEN Ends("echo") /\ UNCHANGED names
       ELSE /\ Goto("echo", from, to)
            /\ names' = names \cup {f}
            /\ UNCHANGED <<end, data, buf>>
    /\ UNCHANGED bounds

MakeFIFOs == \/ MakeFIFO("echo_fifo", "mkfifo1", "mkfifo2")
             \/ MakeFIFO("client_fifo", "mkfifo2", "open1")

\* open(2) fails with ENOENT, waits for the other end, or finds it and lets a
\* peer that waits there go on too.
Open(p, k) ==
    LET f == OpenOrder(p)[k] IN
    /\ pc[p] = <<"open1", "open2">>[k]
    /\ IF f \notin names
       THEN Ends(p)
       ELSE /\ Goto(p, pc[p], <<"opening1", "opening2">>[k])
            /\ end' = IF end[Peer(p)][f] = "closed"
                      THEN [end EXCEPT ![p][f] = "opening"]
                      ELSE [q \in Programs |-> [end[q] EXCEPT ![f] = "open"]]
            /\ UNCHANGED <<data, buf>>
    /\ UNCHANGED <<names, bounds>>

Opened(p, k) ==
    /\ end[p][OpenOrder(p)[k]] = "open"
    /\ Goto(p, <<"opening1", "opening2">>[k],
               <<"open2", IF p = "echo" THEN "welcome" ELSE "greeted">>[k])
    /\ UNCHANGED <<names, end, data, buf, bounds>>
-----------------------------------------------------------------------------
(* read and write                                                          *)

\* The loop around read(): it blocks while the FIFO is empty and has a writer.
Read(p, from, to) ==
    /\ data[In(p)] # << >>
    /\ Goto(p, from, to)
    /\ buf' = [buf EXCEPT ![p] = Head(data[In(p)])]
    /\ data' = [data EXCEPT ![In(p)] = Tail(@)]
    /\ UNCHANGED <<names, end, bounds>>

\* read() returns 0: nothing left and no writer.
AtEOF(p) == data[In(p)] = << >> /\ end[Peer(p)][In(p)] = "closed"

\* The loop around write(): with no reader SIGPIPE kills the writer.
Write(p, message, from, to) ==
    /\ pc[p] = from
    /\ IF end[Peer(p)][Out(p)] = "closed"
       THEN Ends(p)
       ELSE /\ Goto(p, from, to)
            /\ data' = [data EXCEPT ![Out(p)] = Append(@, message)]
            /\ UNCHANGED <<end, buf>>
    /\ UNCHANGED <<names, bounds>>
-----------------------------------------------------------------------------
(* echo.c                                                                  *)
WriteWelcome == Write("echo", Welcome, "welcome", "read")

EchoReceives == Read("echo", "read", "received")

EchoQuits ==
    /\ buf["echo"] = QUIT
    /\ Goto("echo", "received", "clean")
    /\ UNCHANGED <<names, end, data, buf, bounds>>

\* Mutations: nothing is sent back; the buffer still holds the welcome.
SwallowLine == /\ buf["echo"] # QUIT
               /\ Goto("echo", "received", "read")
               /\ UNCHANGED <<names, end, data, buf, bounds>>
SendStale == buf["echo"] # QUIT /\ Write("echo", Welcome, "received", "read")

WriteBack == buf["echo"] # QUIT /\ Write("echo", buf["echo"], "received", "read")

\* Mutation: exit without cleanFIFOs.
ExitAtOnce ==
    /\ pc["echo"] = "read"
    /\ AtEOF("echo")
    /\ Ends("echo")
    /\ UNCHANGED <<names, bounds>>

ClientVanished ==
    /\ AtEOF("echo")
    /\ Goto("echo", "read", "clean")
    /\ UNCHANGED <<names, end, data, buf, bounds>>

\* close() of one descriptor; both are closed before a name is unlinked.
CloseFIFO(f, from, to) ==
    /\ Goto("echo", from, to)
    /\ end' = [end EXCEPT !["echo"][f] = "closed"]
    /\ data' = [data EXCEPT ![f] = IF end["client"][f] = "closed" THEN << >> ELSE @]
    /\ UNCHANGED <<names, buf, bounds>>

\* Mutation: echo_fifo is not unlinked.
KeepEchoFIFO ==
    /\ Goto("echo", "unlink1", "unlink2")
    /\ UNCHANGED <<names, end, data, buf, bounds>>

UnlinkEchoFIFO ==
    /\ Goto("echo", "unlink1", "unlink2")
    /\ names' = names \ {"echo_fifo"}
    /\ UNCHANGED <<end, data, buf, bounds>>

UnlinkClientFIFO ==
    /\ Goto("echo", "unlink2", "off")
    /\ names' = names \ {"client_fifo"}
    /\ UNCHANGED <<end, data, buf, bounds>>

cleanFIFOs == \/ CloseFIFO("echo_fifo", "clean", "close2")
              \/ CloseFIFO("client_fifo", "close2", "unlink1")
              \/ UnlinkEchoFIFO \/ UnlinkClientFIFO
-----------------------------------------------------------------------------
(* client.c                                                                *)
ReadWelcome == Read("client", "greeted", "insert")

\* fgets; an empty line leaves nothing to send.
InsertLine ==
    \E line \in Lines :
        /\ buf' = [buf EXCEPT !["client"] = line]
        /\ Goto("client", "insert", IF line = Empty THEN "answer" ELSE "send")
        /\ UNCHANGED <<names, end, data, bounds>>

SendLine == Write("client", buf["client"], "send",
                  IF buf["client"] = QUIT THEN "close" ELSE "answer")

ReadAnswer == Read("client", "answer", "insert")

\* The echo program is gone, fgets fails, or the quit command was sent.
ClientExits ==
    /\ \/ pc["client"] \in {"greeted", "answer"} /\ AtEOF("client")
       \/ pc["client"] \in {"insert", "close"}
    /\ Ends("client")
    /\ UNCHANGED <<names, bounds>>
-----------------------------------------------------------------------------
\* A signal kills a program wherever it is; names stay as they are.
Kill(p) ==
    /\ pc[p] # "off"
    /\ kills < MaxKills
    /\ kills' = kills + 1
    /\ Ends(p)
    /\ UNCHANGED <<names, runs>>

EchoStep == \/ MakeFIFOs
            \/ \E k \in {1, 2} : Open("echo", k) \/ Opened("echo", k)
            \/ WriteWelcome \/ EchoReceives \/ EchoQuits \/ WriteBack
            \/ ClientVanished \/ cleanFIFOs

FIFOClientStep == \/ \E k \in {1, 2} : Open("client", k) \/ Opened("client", k)
                  \/ ReadWelcome \/ InsertLine \/ SendLine \/ ReadAnswer
                  \/ ClientExits

\* Both programs have ended and nobody starts them again.
FIFOOver == pc = [p \in Programs |-> "off"] /\ UNCHANGED fifoVars

FIFONext == \/ EchoStep \/ FIFOClientStep
            \/ \E p \in Programs : Start(p) \/ Kill(p)
            \/ FIFOOver

FIFOSpec == FIFOInit /\ [][FIFONext]_fifoVars

\* The kernel runs a program that is not blocked.
FIFOFairSpec == FIFOSpec /\ WF_fifoVars(EchoStep) /\ WF_fifoVars(FIFOClientStep)
-----------------------------------------------------------------------------
FIFOTypeOK ==
    /\ names \subseteq Fifos
    /\ end \in [Programs -> [Fifos -> {"closed", "opening", "open"}]]
    /\ data \in [Fifos -> Seq(Texts \cup {QUIT, Welcome})]
    /\ pc["echo"] \in {"off", "mkfifo1", "mkfifo2", "open1", "opening1",
                       "open2", "opening2", "welcome", "read", "received",
                       "clean", "close2", "unlink1", "unlink2"}
    /\ pc["client"] \in {"off", "open1", "opening1", "open2", "opening2",
                         "greeted", "insert", "send", "answer", "close"}
    /\ buf \in [Programs -> Texts \cup {QUIT, Empty, Welcome}]
    /\ \A p \in Programs : runs[p] \in 0 .. MaxRuns[p]
    /\ kills \in 0 .. MaxKills

(* "I will send you back whatever you send me": the answer the client      *)
(* prints is the line it sent, also when it took over from a client that   *)
(* died in the middle of an exchange.                                      *)
AnswersAreEchoes ==
    [][pc["client"] = "answer" /\ pc'["client"] = "insert"
         => buf'["client"] = buf["client"]]_fifoVars

(* Unless a program is killed, echo leaves no FIFO in the file system, so  *)
(* that the next mkfifo succeeds.                                          *)
FIFOsRemoved == kills = 0 /\ pc["echo"] = "off" => names = {}

(* The opening order avoids deadlock: a client that opens the FIFOs while  *)
(* echo does gets through both calls, unless one of them is killed.        *)
ClientGetsThrough ==
    /\ pc["client"] = "opening1" /\ kills = 0
    /\ pc["echo"] \in {"mkfifo2", "open1", "opening1", "open2", "opening2"}
    ~> pc["client"] \in {"greeted", "off"} \/ kills > 0

(* After the quit command echo ends and removes the FIFOs, unless it is    *)
(* killed before.                                                          *)
QuitEndsEcho ==
    pc["client"] = "close" ~>
        (pc["echo"] = "off" /\ names = {}) \/ kills > 0

(* The client does not wait forever for the answer to a line with text,    *)
(* also when echo dies or the client took over another one's session.      *)
TextsAnswered ==
    pc["client"] = "answer" /\ buf["client"] # Empty ~> pc["client"] # "answer"
=============================================================================
