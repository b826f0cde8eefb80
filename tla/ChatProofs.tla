----------------------------- MODULE ChatProofs -----------------------------
(***************************************************************************)
(* For any number of lines: what was sent before BYE arrives, and without  *)
(* a fault from outside an endpoint that chats fails only after a BYE.     *)
(***************************************************************************)
EXTENDS Chat, SequenceTheorems, TLAPS

Said(s) == \E i \in 1 .. Len(s) : s[i] = Bye

-----------------------------------------------------------------------------
(* The inductive invariant.                                                *)

(* Where the threads and the descriptors of an endpoint are when its main  *)
(* thread is at a statement.                                               *)
Before   == {"off", "mkfifo1", "mkfifo2", "open1", "listen", "accept",
             "connect"}
Closed   == {"unlink1", "unlink2", "exited"}
Live(e)  == main[e] \notin Closed \cup {"failed"}

DescPlace(e) ==
    /\ main[e] \in Before => desc[e] = "none"
    /\ main[e] = "open2" => desc[e] = "half"
    /\ main[e] \in {"create1", "create2", "join1", "join2", "close"}
          => desc[e] = "open"
    /\ main[e] = "close2" => desc[e] = "sendclosed"
    /\ main[e] \in Closed => desc[e] = "closed"
    /\ main[e] = "failed" => desc[e] \in {"none", "closed"}

ThreadPlace(e) ==
    /\ main[e] \in Before \cup {"open2", "create1"} => recv[e] = "unborn"
    /\ main[e] \in {"create2", "join1"} => recv[e] # "unborn"
    /\ main[e] \in {"join2", "close", "close2"} \cup Closed => recv[e] = "done"
    /\ main[e] = "failed" => recv[e] \in {"unborn", "done"}
    /\ main[e] \in Before \cup {"open2", "create1", "create2"}
          => send[e] = "unborn"
    /\ main[e] \in {"close", "close2"} \cup Closed => send[e] = "done"
    /\ main[e] = "failed" => send[e] \in {"unborn", "done"}

ProgramPlace ==
    /\ \A e \in Ends :
          /\ main[e] \in {"mkfifo1", "mkfifo2", "open1"} => Fifo
          /\ main[e] = "connect" => ~Fifo /\ e = "connect"
    /\ ~Fifo /\ desc["accept"] # "none" => desc["connect"] # "none"

Places == ProgramPlace /\ \A e \in Ends : DescPlace(e) /\ ThreadPlace(e)

(* A sender stops at BYE: it is the last message, and no other is coming.  *)
ByeIsLast(e) ==
    /\ \A i \in 1 .. Len(sent[e]) : sent[e][i] = Bye => i = Len(sent[e])
    /\ Said(sent[e]) => \/ send[e] \in {"bye", "done"}
                        \/ send[e] = "check" /\ shouldStop[e]
    /\ send[e] = "bye" => Said(sent[e])

(* What an endpoint that has not closed its channel has shown and what     *)
(* waits for it are all that was sent to it.                               *)
Delivered(e) ==
    /\ Live(e) => sent[Peer(e)] = shown[e] \o wire[Peer(e)]
    /\ Said(shown[e]) => shown[e] = sent[Peer(e)]

(* Why an endpoint was told to stop.                                       *)
StopReason(e) ==
    \/ Said(sent[e])
    \/ Said(shown[e])
    \/ SendEndClosed(Peer(e)) /\ wire[Peer(e)] = << >>

(* Without faults a channel is closed after a BYE, and reset by one that   *)
(* said BYE itself.                                                        *)
Reasons(e) ==
    /\ Live(e) /\ recv[e] = "done" => shouldStop[e]
    /\ reset[e] => ~Live(Peer(e))
    /\ faults = 0 =>
          /\ Live(e) /\ shouldStop[e] => StopReason(e)
          /\ Live(e) /\ reset[e] => Said(sent[Peer(e)])
          /\ SendEndClosed(e) => Said(sent[e]) \/ Said(sent[Peer(e)])
          /\ main[e] = "failed" /\ recv[e] # "unborn" => Said(sent[Peer(e)])

IInv == /\ TypeOK /\ Places
        /\ \A e \in Ends : ByeIsLast(e) /\ Delivered(e) /\ Reasons(e)

(* There are two endpoints, each the peer of the other.                    *)
LEMMA PeerIs ==
    ASSUME NEW e \in Ends
    PROVE  /\ Peer(e) \in Ends /\ Peer(e) # e /\ Peer(Peer(e)) = e
           /\ \A x \in Ends : x = e \/ x = Peer(e)
  BY DEF Ends, Peer

(* Nothing was sent and nobody started.                                    *)
LEMMA InitIInv == Init => IInv
  <1> SUFFICES ASSUME Init PROVE IInv
    OBVIOUS
  <1>1. << >> \in Seq(Messages) /\ Bye \in Messages
    BY ChatAssumption DEF Messages, Bye
  <1>2. TypeOK
    <2>1. /\ program \in {"fifo", "socket"} /\ names \subseteq FifoNames
      BY DEF Init
    <2> QED
      BY <1>1, <2>1, ChatAssumption DEF Init, TypeOK, Ended
  <1>3. Places
    BY DEF Init, Places, ProgramPlace, DescPlace, ThreadPlace, Before, Closed,
           Ends
  <1>4. ASSUME NEW e \in Ends
        PROVE  ByeIsLast(e) /\ Delivered(e) /\ Reasons(e)
    <2>1. Peer(e) \in Ends
      BY PeerIs
    <2>2. /\ sent[e] = << >> /\ shown[e] = << >> /\ sent[Peer(e)] = << >>
          /\ wire[Peer(e)] = << >> /\ send[e] = "unborn" /\ recv[e] = "unborn"
          /\ ~shouldStop[e] /\ ~reset[e] /\ desc[e] = "none" /\ main[e] = "off"
      BY <2>1 DEF Init
    <2>3. ~Said(<< >>) /\ Len(<< >>) = 0
      BY DEF Said
    <2>4. ByeIsLast(e)
      BY <2>2, <2>3 DEF ByeIsLast
    <2>5. << >> \o << >> = << >>
      BY <1>1, ConcatEmptySeq
    <2>6. Delivered(e)
      BY <2>2, <2>3, <2>5 DEF Delivered
    <2>7. Reasons(e)
      BY <2>2 DEF Reasons, SendEndClosed
    <2> QED
      BY <2>4, <2>6, <2>7
  <1> QED
    BY <1>2, <1>3, <1>4 DEF IInv

-----------------------------------------------------------------------------
(* Types and places.                                                       *)

(* main() of an endpoint chooses its first statement.                      *)
LEMMA StartIs ==
    ASSUME NEW e \in Ends, Start(e)
    PROVE  \/ Fifo /\ e = "accept" /\ MainMoves(e, "off", "mkfifo1")
           \/ Fifo /\ e = "connect" /\ MainMoves(e, "off", "open1")
           \/ ~Fifo /\ e = "accept" /\ MainMoves(e, "off", "listen")
           \/ ~Fifo /\ e = "connect" /\ MainMoves(e, "off", "connect")
  <1> DEFINE to == CASE Fifo /\ e = "accept"    -> "mkfifo1"
                     [] Fifo /\ e = "connect"   -> "open1"
                     [] ~Fifo /\ e = "accept"   -> "listen"
                     [] ~Fifo /\ e = "connect"  -> "connect"
  <1>1. "accept" # "connect" /\ (e = "accept" \/ e = "connect")
    BY DEF Ends
  <1>2. CASE Fifo /\ e = "accept"
    <2>1. to = "mkfifo1"
      BY <1>1, <1>2, Zenon
    <2> QED
      BY <1>2, <2>1, Zenon DEF Start
  <1>3. CASE Fifo /\ e = "connect"
    <2>1. to = "open1"
      BY <1>1, <1>3, Zenon
    <2> QED
      BY <1>3, <2>1, Zenon DEF Start
  <1>4. CASE ~Fifo /\ e = "accept"
    <2>1. to = "listen"
      BY <1>1, <1>4, Zenon
    <2> QED
      BY <1>4, <2>1, Zenon DEF Start
  <1>5. CASE ~Fifo /\ e = "connect"
    <2>1. to = "connect"
      BY <1>1, <1>5, Zenon
    <2> QED
      BY <1>5, <2>1, Zenon DEF Start
  <1> QED
    BY <1>1, <1>2, <1>3, <1>4, <1>5

(* Types, with places.                                                     *)
Sane == TypeOK /\ Places

(* A process that ends at once leaves threads and descriptors in place.    *)
LEMMA DieSane ==
    ASSUME Sane, NEW e \in Ends, Die(e), faults' \in 0 .. MaxFaults
    PROVE  Sane'
  <1>1. Peer(e) \in Ends /\ << >> \in Seq(Messages)
    BY PeerIs
  <1>2. TypeOK'
    BY <1>1 DEF Sane, TypeOK, Die, Close, Ended
  <1>3. Places'
    BY DEF Sane, TypeOK, Places, ProgramPlace, DescPlace, ThreadPlace, Die,
           Close, Before, Closed, Fifo
  <1> QED
    BY <1>2, <1>3 DEF Sane

(* The main thread takes its threads and descriptors from place to place.  *)
LEMMA MainSane ==
    ASSUME Sane, NEW e \in Ends, Start(e) \/ MainStep(e)
    PROVE  Sane'
  <1> USE DEF Sane
  <1>0. /\ main \in [Ends -> Ended \cup
                   {"off", "mkfifo1", "mkfifo2", "open1", "open2", "listen",
                    "accept", "connect", "create1", "create2", "join1",
                    "join2", "close", "close2", "unlink1", "unlink2"}]
        /\ desc \in [Ends -> {"none", "half", "open", "sendclosed", "closed"}]
        /\ recv \in [Ends -> {"unborn", "check", "select", "done"}]
        /\ send \in [Ends -> {"unborn", "check", "input", "recheck", "write",
                              "bye", "done"}]
        /\ "accept" \in Ends /\ "connect" \in Ends
        /\ faults \in 0 .. MaxFaults
    BY DEF TypeOK, Ends
  <1>1. CASE Start(e)
    <2>1. /\ UNCHANGED <<program, names, link, threads, faults>>
          /\ \/ Fifo /\ e = "accept" /\ MainMoves(e, "off", "mkfifo1")
             \/ Fifo /\ e = "connect" /\ MainMoves(e, "off", "open1")
             \/ ~Fifo /\ e = "accept" /\ MainMoves(e, "off", "listen")
             \/ ~Fifo /\ e = "connect" /\ MainMoves(e, "off", "connect")
      BY <1>1, StartIs DEF Start
    <2>2. TypeOK'
      BY <2>1, <1>0 DEF MainMoves, TypeOK, link, threads
    <2>3. Places'
      BY <2>1, <1>0 DEF MainMoves, link, threads, Places, ProgramPlace,
                        DescPlace, ThreadPlace, Before, Closed, Fifo
    <2> QED
      BY <2>2, <2>3
  <1>2. ASSUME NEW from \in {"mkfifo1", "mkfifo2"}, NEW name \in FifoNames,
               NEW to \in {"mkfifo2", "open1"}, Mkfifo(from, to, name)
        PROVE  Sane'
    <2>1. CASE name \in names
      BY <2>1, <1>0, <1>2, DieSane DEF Mkfifo
    <2>2. CASE name \notin names
      <3>1. /\ main["accept"] = from
            /\ main' = [main EXCEPT !["accept"] = to]
            /\ names' = names \cup {name}
            /\ UNCHANGED <<program, link, threads, faults>>
        BY <2>2, <1>2 DEF Mkfifo, MainMoves
      <3>2. TypeOK'
        BY <3>1, <1>0 DEF TypeOK, link, threads
      <3>3. Places'
        BY <3>1, <1>0 DEF link, threads, Places, ProgramPlace, DescPlace,
                          ThreadPlace, Before, Closed, Fifo
      <3> QED
        BY <3>2, <3>3
    <2> QED
      BY <2>1, <2>2
  <1>3. CASE Listen \/ Accept \/ Connect
    <2>1. TypeOK'
      BY <1>3, <1>0 DEF Listen, Accept, Connect, MainMoves, TypeOK, link, threads
    <2>2. Places'
      BY <1>3, <1>0 DEF Listen, Accept, Connect, MainMoves, link, threads,
                        Places, ProgramPlace, DescPlace, ThreadPlace, Before,
                        Closed, Fifo
    <2> QED
      BY <2>1, <2>2
  <1>4. CASE ConnectFails
    BY <1>4, <1>0, DieSane DEF ConnectFails
  <1>5. CASE \/ Unlink("unlink1", "unlink2", "listen_fifo")
             \/ Unlink("unlink2", "exited", "accept_fifo")
    <2>1. TypeOK'
      BY <1>5, <1>0 DEF Unlink, MainMoves, TypeOK, link, threads, Ended
    <2>2. Places'
      BY <1>5, <1>0 DEF Unlink, MainMoves, link, threads, Places, ProgramPlace,
                        DescPlace, ThreadPlace, Before, Closed, Fifo
    <2> QED
      BY <2>1, <2>2
  <1>6. CASE OpenBoth("open1", "open2", "half") \/ OpenBoth("open2", "create1", "open")
    <2>1. TypeOK'
      BY <1>6, <1>0 DEF OpenBoth, TypeOK, threads
    <2>2. Places'
      BY <1>6, <1>0 DEF OpenBoth, threads, Places, ProgramPlace, DescPlace,
                        ThreadPlace, Before, Closed, Fifo
    <2> QED
      BY <2>1, <2>2
  <1>7. CASE CreateRecv(e) \/ CreateSend(e) \/ JoinRecv(e) \/ JoinSend(e)
    <2>1. TypeOK'
      BY <1>7, <1>0 DEF CreateRecv, CreateSend, JoinRecv, JoinSend, MainMoves,
                        TypeOK, link, threads
    <2>2. Places'
      BY <1>7, <1>0 DEF CreateRecv, CreateSend, JoinRecv, JoinSend, MainMoves,
                        link, threads, Places, ProgramPlace, DescPlace,
                        ThreadPlace, Before, Closed, Fifo
    <2> QED
      BY <2>1, <2>2
  <1>8. CASE CloseSend(e) \/ CloseAll(e)
    <2>0. Peer(e) \in Ends /\ << >> \in Seq(Messages)
      BY PeerIs
    <2>1. TypeOK'
      <3>1. CASE CloseSend(e)
        BY <3>1, <1>0 DEF CloseSend, MainMoves, TypeOK, threads
      <3>2. CASE CloseAll(e)
        <4>1. /\ main' \in [Ends -> Ended \cup
                    {"off", "mkfifo1", "mkfifo2", "open1", "open2", "listen",
                     "accept", "connect", "create1", "create2", "join1",
                     "join2", "close", "close2", "unlink1", "unlink2"}]
              /\ Close(e) /\ UNCHANGED <<program, names, threads, faults>>
          BY <3>2, <1>0 DEF CloseAll, MainMoves, Ended
        <4> QED
          BY <4>1, <2>0 DEF TypeOK, Close, threads
      <3> QED
        BY <3>1, <3>2, <1>8
    <2>2. Places'
      BY <1>8, <1>0 DEF CloseSend, CloseAll, Close, MainMoves, threads, Places,
                        ProgramPlace, DescPlace, ThreadPlace, Before, Closed,
                        Fifo
    <2> QED
      BY <2>1, <2>2
  <1>9. CASE e = "accept" /\ \/ Mkfifo("mkfifo1", "mkfifo2", "listen_fifo")
                             \/ Mkfifo("mkfifo2", "open1", "accept_fifo")
    BY <1>2, <1>9 DEF FifoNames
  <1> QED
    BY <1>1, <1>3, <1>4, <1>5, <1>6, <1>7, <1>8, <1>9 DEF MainStep

(* The receiving thread moves within its place.                            *)
LEMMA RecvSane ==
    ASSUME Sane, NEW e \in Ends, RecvStep(e)
    PROVE  Sane'
  <1> USE DEF Sane
  <1>0. /\ recv \in [Ends -> {"unborn", "check", "select", "done"}]
        /\ Peer(e) \in Ends /\ faults \in 0 .. MaxFaults
        /\ wire[Peer(e)] \in Seq(Messages)
    BY PeerIs DEF TypeOK
  <1>1. CASE RecvCheck(e) \/ SelectTimeout(e)
    <2>1. TypeOK'
      BY <1>1, <1>0 DEF RecvCheck, SelectTimeout, RecvMoves, TypeOK, link
    <2>2. Places'
      BY <1>1, <1>0 DEF RecvCheck, SelectTimeout, RecvMoves, link, Places,
                        ProgramPlace, DescPlace, ThreadPlace, Before, Closed,
                        Fifo
    <2> QED
      BY <2>1, <2>2
  <1>2. CASE ReadLine(e)
    <2>1. /\ Head(wire[Peer(e)]) \in Messages
          /\ Tail(wire[Peer(e)]) \in Seq(Messages)
      BY <1>2, <1>0, HeadTailProperties DEF ReadLine
    <2>2. PICK h \in Messages : h = Head(wire[Peer(e)])
      BY <2>1
    <2>3. Append(shown[e], h) \in Seq(Messages)
      BY AppendProperties DEF TypeOK
    <2>4. /\ wire' = [wire EXCEPT ![Peer(e)] = Tail(wire[Peer(e)])]
          /\ shown' = [shown EXCEPT ![e] = Append(shown[e], h)]
          /\ shouldStop' = [shouldStop EXCEPT ![e] = shouldStop[e] \/ h = Bye]
          /\ recv' = [recv EXCEPT ![e] = "check"] /\ recv[e] = "select"
          /\ UNCHANGED <<program, names, main, desc, send, line, sent, reset,
                         faults>>
      BY <1>2, <2>2 DEF ReadLine, RecvMoves
    <2>5. TypeOK'
      BY <2>1, <2>3, <2>4, <1>0 DEF TypeOK
    <2>6. Places'
      BY <2>4, <1>0 DEF Places, ProgramPlace, DescPlace, ThreadPlace, Before,
                        Closed, Fifo
    <2> QED
      BY <2>5, <2>6
  <1>3. CASE ReadEnd(e)
    <2>1. TypeOK'
      BY <1>3, <1>0 DEF ReadEnd, RecvMoves, TypeOK, link
    <2>2. Places'
      BY <1>3, <1>0 DEF ReadEnd, RecvMoves, link, Places, ProgramPlace,
                        DescPlace, ThreadPlace, Before, Closed, Fifo
    <2> QED
      BY <2>1, <2>2
  <1>4. CASE ReadFails(e)
    BY <1>4, <1>0, DieSane DEF ReadFails
  <1> QED
    BY <1>1, <1>2, <1>3, <1>4 DEF RecvStep

(* The three ends of a write.                                              *)
WriteQueued(e) ==
    /\ desc[Peer(e)] # "closed" /\ ~reset[e]
    /\ wire' = [wire EXCEPT ![e] = Append(wire[e], line[e])]
    /\ sent' = [sent EXCEPT ![e] = Append(sent[e], line[e])]
    /\ SendMoves(e, "write", IF line[e] = Bye THEN "bye" ELSE "check")
    /\ UNCHANGED <<program, names, main, desc, recv, shouldStop, line, shown,
                   reset, faults>>
WriteLost(e) ==
    /\ desc[Peer(e)] = "closed" /\ ~reset[e]
    /\ sent' = [sent EXCEPT ![e] = Append(sent[e], line[e])]
    /\ \E b \in BOOLEAN : reset' = [reset EXCEPT ![e] = b]
    /\ SendMoves(e, "write", IF line[e] = Bye THEN "bye" ELSE "check")
    /\ UNCHANGED <<program, names, main, desc, recv, shouldStop, line, wire,
                   shown, faults>>
WriteKills(e) ==
    /\ send[e] = "write" /\ (reset[e] \/ desc[Peer(e)] = "closed")
    /\ Die(e)
    /\ UNCHANGED faults

(* The three outcomes of a write.                                          *)
LEMMA WriteIs ==
    ASSUME NEW e \in Ends, Write(e)
    PROVE  WriteQueued(e) \/ WriteLost(e) \/ WriteKills(e)
  BY DEF Write, WriteQueued, WriteLost, WriteKills

(* The sending thread, too, and so does the user.                          *)
LEMMA SendSane ==
    ASSUME Sane, NEW e \in Ends, SendStep(e) \/ Input(e)
    PROVE  Sane'
  <1> USE DEF Sane
  <1>0. /\ send \in [Ends -> {"unborn", "check", "input", "recheck", "write",
                              "bye", "done"}]
        /\ Peer(e) \in Ends /\ faults \in 0 .. MaxFaults
        /\ line[e] \in Messages
    BY PeerIs DEF TypeOK
  <1>1. CASE SendCheck(e)
    <2>1. TypeOK'
      BY <1>1, <1>0 DEF SendCheck, SendMoves, TypeOK, link
    <2>2. Places'
      BY <1>1, <1>0 DEF SendCheck, SendMoves, link, Places, ProgramPlace,
                        DescPlace, ThreadPlace, Before, Closed, Fifo
    <2> QED
      BY <2>1, <2>2
  <1>2. CASE ByeSent(e)
    <2>1. TypeOK'
      BY <1>2, <1>0 DEF ByeSent, SendMoves, TypeOK, link
    <2>2. Places'
      BY <1>2, <1>0 DEF ByeSent, SendMoves, link, Places, ProgramPlace,
                        DescPlace, ThreadPlace, Before, Closed, Fifo
    <2> QED
      BY <2>1, <2>2
  <1>3. CASE Input(e)
    <2>1. /\ line' \in [Ends -> Messages] /\ SendMoves(e, "input", "recheck")
          /\ UNCHANGED <<program, names, main, link, recv, shouldStop, sent,
                         shown, faults>>
      <3>1. PICK l \in {Bye, Len(sent[e]) + 1} :
               l <= MaxLines /\ line' = [line EXCEPT ![e] = l]
        BY <1>3 DEF Input
      <3>2. Len(sent[e]) \in Nat
        BY LenProperties DEF TypeOK
      <3>3. l \in Messages
        BY <3>1, <3>2, ChatAssumption DEF Messages, Bye
      <3> QED
        BY <3>1, <3>3, <1>3 DEF Input, TypeOK
    <2>2. TypeOK'
      BY <2>1, <1>0 DEF SendMoves, TypeOK, link
    <2>3. Places'
      BY <2>1, <1>0 DEF SendMoves, link, Places, ProgramPlace, DescPlace,
                        ThreadPlace, Before, Closed, Fifo
    <2> QED
      BY <2>2, <2>3
  <1>4. CASE WriteQueued(e) \/ WriteLost(e)
    <2>1. /\ sent' = [sent EXCEPT ![e] = Append(sent[e], line[e])]
          /\ wire' \in {wire, [wire EXCEPT ![e] = Append(wire[e], line[e])]}
          /\ reset' \in [Ends -> BOOLEAN]
          /\ send[e] = "write" /\ send' = [send EXCEPT ![e] = send'[e]]
          /\ send'[e] \in {"bye", "check"}
          /\ UNCHANGED <<program, names, main, desc, recv, shouldStop, line,
                         shown, faults>>
      BY <1>4, <1>0 DEF WriteQueued, WriteLost, SendMoves, TypeOK
    <2>2. /\ Append(sent[e], line[e]) \in Seq(Messages)
          /\ Append(wire[e], line[e]) \in Seq(Messages)
      BY <1>0, AppendProperties DEF TypeOK
    <2>3. sent' \in [Ends -> Seq(Messages)] /\ wire' \in [Ends -> Seq(Messages)]
      <3>1. sent \in [Ends -> Seq(Messages)] /\ wire \in [Ends -> Seq(Messages)]
        BY DEF TypeOK
      <3>2. PICK s \in Seq(Messages) : s = Append(sent[e], line[e])
        BY <2>2
      <3>3. PICK w \in Seq(Messages) : w = Append(wire[e], line[e])
        BY <2>2
      <3>4. sent' = [sent EXCEPT ![e] = s]
            /\ wire' \in {wire, [wire EXCEPT ![e] = w]}
        BY <2>1, <3>2, <3>3
      <3> QED
        BY <3>1, <3>4
    <2>4. TypeOK'
      <3>1. send' \in [Ends -> {"unborn", "check", "input", "recheck", "write",
                                "bye", "done"}]
        BY <2>1, <1>0
      <3>2. UNCHANGED <<program, names, main, desc, recv, shouldStop, line,
                        shown, faults>>
        BY <2>1
      <3>3. reset' \in [Ends -> BOOLEAN]
        BY <2>1
      <3> QED
        BY <2>3, <3>1, <3>2, <3>3 DEF TypeOK
    <2>5. Places'
      BY <2>1, <1>0 DEF Places, ProgramPlace, DescPlace, ThreadPlace, Before,
                        Closed, Fifo
    <2> QED
      BY <2>4, <2>5
  <1>5. CASE WriteKills(e)
    BY <1>5, <1>0, DieSane DEF WriteKills
  <1> QED
    BY <1>1, <1>2, <1>3, <1>4, <1>5, WriteIs DEF SendStep

(* Types and places hold whatever the endpoints do.                        *)
LEMMA NextSane == Sane /\ [Next]_vars => Sane'
  <1> SUFFICES ASSUME Sane, [Next]_vars PROVE Sane'
    OBVIOUS
  <1>1. ASSUME NEW e \in Ends, Fault(e) PROVE Sane'
    <2>1. faults' \in 0 .. MaxFaults /\ Die(e)
      BY <1>1, ChatAssumption DEF Fault, Sane, TypeOK
    <2> QED
      BY <2>1, DieSane
  <1>2. CASE UNCHANGED vars
    BY <1>2 DEF vars, Sane, TypeOK, Places, ProgramPlace, DescPlace,
                ThreadPlace, Fifo
  <1> QED
    BY <1>1, <1>2, MainSane, RecvSane, SendSane DEF Next

-----------------------------------------------------------------------------
(* The steps that messages, ends of channels and resets come from.         *)

(* Why a process ends at once: a fault; a FIFO that is there, or nobody to *)
(* connect to; a reset found by the receiver; nobody to write to.          *)
Dies(e) ==
    /\ Die(e)
    /\ \/ faults' = faults + 1
       \/ /\ faults' = faults
          /\ \/ main[e] \in {"mkfifo1", "mkfifo2", "open1"}
             \/ main[e] = "connect" /\ e = "connect"
             \/ recv[e] = "select" /\ wire[Peer(e)] = << >> /\ reset[e]
             \/ send[e] = "write" /\ (reset[e] \/ desc[Peer(e)] = "closed")

(* A step of the other kind sends, receives and closes nothing.            *)
QuietAt(x) ==
    /\ Live(x)' <=> Live(x)
    /\ SendEndClosed(x)' <=> SendEndClosed(x)
    /\ main'[x] = "failed" <=> main[x] = "failed"
    /\ main[x] = "failed" => recv'[x] = recv[x]
    /\ recv'[x] = "done" => recv[x] = "done" \/ shouldStop[x]
    /\ \/ send'[x] = send[x]
       \/ send[x] = "check" /\ shouldStop[x] /\ send'[x] = "done"
       \/ /\ send[x] \notin {"bye", "done"} /\ send'[x] # "bye"
          /\ ~(send[x] = "check" /\ shouldStop[x])
Quiet == /\ UNCHANGED <<wire, sent, shown, shouldStop, reset, faults>>
         /\ \A x \in Ends : QuietAt(x)

(* A step of an endpoint is quiet if it is quiet at that endpoint.         *)
LEMMA QuietStep ==
    ASSUME NEW e \in Ends,
           UNCHANGED <<wire, sent, shown, shouldStop, reset, faults>>,
           QuietAt(e),
           \A x \in Ends : x # e => /\ main'[x] = main[x] /\ desc'[x] = desc[x]
                                    /\ recv'[x] = recv[x] /\ send'[x] = send[x]
    PROVE  Quiet
  <1>1. \A x \in Ends : x # e => QuietAt(x)
    BY DEF QuietAt, Live, SendEndClosed
  <1> QED
    BY <1>1 DEF Quiet

(* A step of main() is quiet, ends the endpoint or closes its channel.     *)
LEMMA MainKinds ==
    ASSUME Sane, NEW e \in Ends, Start(e) \/ MainStep(e)
    PROVE  \/ Quiet
           \/ \E x \in Ends : Dies(x) \/ CloseAll(x) \/ CloseSend(x)
  <1>0. /\ main \in [Ends -> Ended \cup
                   {"off", "mkfifo1", "mkfifo2", "open1", "open2", "listen",
                    "accept", "connect", "create1", "create2", "join1",
                    "join2", "close", "close2", "unlink1", "unlink2"}]
        /\ desc \in [Ends -> {"none", "half", "open", "sendclosed", "closed"}]
        /\ recv \in [Ends -> {"unborn", "check", "select", "done"}]
        /\ send \in [Ends -> {"unborn", "check", "input", "recheck", "write",
                              "bye", "done"}]
        /\ "accept" \in Ends /\ "connect" \in Ends
    BY DEF Sane, TypeOK, Ends
  <1>d. \A x \in Ends : DescPlace(x) /\ ThreadPlace(x)
    BY DEF Sane, Places
  <1>1. ASSUME NEW x \in Ends,
               main' = [main EXCEPT ![x] = main'[x]],
               main[x] # "failed", main'[x] # "failed",
               main[x] \in Closed <=> main'[x] \in Closed,
               desc' = [desc EXCEPT ![x] = desc'[x]],
               SendEndClosed(x)' <=> SendEndClosed(x),
               UNCHANGED <<wire, reset, threads, faults>>
        PROVE  Quiet
    <2>1. QuietAt(x)
      BY <1>0, <1>1 DEF QuietAt, Live, Closed, threads
    <2> QED
      BY <2>1, <1>0, <1>1, QuietStep DEF threads
  <1>2. CASE Start(e)
    <2>1. PICK to \in {"mkfifo1", "open1", "listen", "connect"} :
             MainMoves(e, "off", to)
      BY <1>2, StartIs
    <2>2. /\ main[e] = "off" /\ main' = [main EXCEPT ![e] = to]
          /\ UNCHANGED <<desc, wire, reset, threads, faults>>
      BY <1>2, <2>1 DEF Start, MainMoves, link
    <2> QED
      BY <2>2, <1>0, <1>1 DEF Closed, SendEndClosed
  <1>3. ASSUME NEW from \in {"mkfifo1", "mkfifo2"}, NEW name,
               NEW to \in {"mkfifo2", "open1"}, Mkfifo(from, to, name)
        PROVE  Quiet \/ Dies("accept")
    <2>1. CASE name \in names
      BY <1>3, <2>1 DEF Mkfifo, Dies
    <2>2. CASE name \notin names
      <3>1. /\ main["accept"] = from
            /\ main' = [main EXCEPT !["accept"] = to]
            /\ UNCHANGED <<desc, wire, reset, threads, faults>>
        BY <1>3, <2>2 DEF Mkfifo, MainMoves, link
      <3> QED
        BY <3>1, <1>0, <1>1 DEF Closed, SendEndClosed
    <2> QED
      BY <2>1, <2>2
  <1>4. CASE Listen
    <2>1. /\ main["accept"] = "listen"
          /\ main' = [main EXCEPT !["accept"] = "accept"]
          /\ UNCHANGED <<desc, wire, reset, threads, faults>>
      BY <1>4 DEF Listen, MainMoves, link
    <2> QED
      BY <2>1, <1>0, <1>1 DEF Closed, SendEndClosed
  <1>5. CASE Accept
    <2>1. /\ main["accept"] = "accept"
          /\ main' = [main EXCEPT !["accept"] = "create1"]
          /\ desc' = [desc EXCEPT !["accept"] = "open"]
          /\ UNCHANGED <<wire, reset, threads, faults>>
      BY <1>5 DEF Accept, MainMoves
    <2>2. desc["accept"] = "none"
      BY <2>1, <1>0, <1>d DEF DescPlace, Before
    <2>3. desc'["accept"] = "open" /\ desc' = [desc EXCEPT !["accept"] = desc'["accept"]]
      BY <2>1, <1>0
    <2> QED
      BY <2>1, <2>2, <2>3, <1>0, <1>1 DEF Closed, SendEndClosed
  <1>6. CASE Connect
    <2>1. /\ main["connect"] = "connect"
          /\ main' = [main EXCEPT !["connect"] = "create1"]
          /\ desc' = [desc EXCEPT !["connect"] = "open"]
          /\ UNCHANGED <<wire, reset, threads, faults>>
      BY <1>6 DEF Connect, MainMoves
    <2>2. desc["connect"] = "none"
      BY <2>1, <1>0, <1>d DEF DescPlace, Before
    <2>3. desc'["connect"] = "open" /\ desc' = [desc EXCEPT !["connect"] = desc'["connect"]]
      BY <2>1, <1>0
    <2> QED
      BY <2>1, <2>2, <2>3, <1>0, <1>1 DEF Closed, SendEndClosed
  <1>7. CASE ConnectFails
    BY <1>7, <1>0 DEF ConnectFails, Dies
  <1>8. CASE \/ Unlink("unlink1", "unlink2", "listen_fifo")
             \/ Unlink("unlink2", "exited", "accept_fifo")
    <2>1. PICK from \in {"unlink1", "unlink2"}, to \in {"unlink2", "exited"} :
             /\ main["accept"] = from
             /\ main' = [main EXCEPT !["accept"] = to]
      BY <1>8 DEF Unlink, MainMoves
    <2>2. UNCHANGED <<desc, wire, reset, threads, faults>>
      BY <1>8 DEF Unlink, link
    <2> QED
      BY <2>1, <2>2, <1>0, <1>1 DEF Closed, SendEndClosed
  <1>9. CASE OpenBoth("open1", "open2", "half") \/ OpenBoth("open2", "create1", "open")
    <2>1. /\ \A x \in Ends : main[x] \in {"open1", "open2"}
          /\ \A x \in Ends : main'[x] \in {"open2", "create1"}
          /\ \A x \in Ends : desc'[x] \in {"half", "open"}
          /\ UNCHANGED <<wire, reset, threads, faults>>
      BY <1>9, <1>0 DEF OpenBoth
    <2>2. \A x \in Ends : desc[x] \in {"none", "half"}
      BY <2>1, <1>d DEF DescPlace, Before
    <2> QED
      BY <2>1, <2>2 DEF Quiet, QuietAt, Live, Closed, SendEndClosed, threads
  <1>10. CASE JoinRecv(e) \/ JoinSend(e)
    <2>1. PICK from \in {"join1", "join2"}, to \in {"join2", "close"} :
             main[e] = from /\ main' = [main EXCEPT ![e] = to]
      BY <1>10 DEF JoinRecv, JoinSend, MainMoves
    <2>2. UNCHANGED <<desc, wire, reset, threads, faults>>
      BY <1>10 DEF JoinRecv, JoinSend, link
    <2> QED
      BY <2>1, <2>2, <1>0, <1>1 DEF Closed, SendEndClosed
  <1>11. CASE CreateRecv(e) \/ CreateSend(e)
    <2>1. /\ main[e] \in {"create1", "create2"}
          /\ main' = [main EXCEPT ![e] = main'[e]]
          /\ main'[e] \in {"create2", "join1"}
          /\ UNCHANGED <<desc, wire, reset, shouldStop, sent, shown, faults>>
          /\ recv' = recv \/ recv' = [recv EXCEPT ![e] = "check"]
          /\ send' = send \/ (send' = [send EXCEPT ![e] = "check"]
                              /\ main[e] = "create2")
      BY <1>11, <1>0 DEF CreateRecv, CreateSend, MainMoves, link
    <2>2. send[e] = "unborn"
      BY <2>1, <1>d DEF ThreadPlace
    <2>3. QuietAt(e)
      BY <2>1, <2>2, <1>0 DEF QuietAt, Live, Closed, SendEndClosed
    <2> QED
      BY <2>1, <2>3, <1>0, QuietStep
  <1>12. CASE e = "accept" /\ \/ Mkfifo("mkfifo1", "mkfifo2", "listen_fifo")
                              \/ Mkfifo("mkfifo2", "open1", "accept_fifo")
    BY <1>0, <1>3, <1>12
  <1> QED
    BY <1>2, <1>4, <1>5, <1>6, <1>7, <1>8, <1>9, <1>10, <1>11, <1>12
    DEF MainStep

(* Every step is quiet or one of eight that the invariant is about.        *)
LEMMA Kinds ==
    ASSUME Sane, [Next]_vars
    PROVE  \/ Quiet
           \/ \E e \in Ends : \/ Dies(e) \/ CloseAll(e) \/ CloseSend(e)
                              \/ ReadLine(e) \/ ReadEnd(e) \/ WriteQueued(e)
                              \/ WriteLost(e) \/ ByeSent(e)
  <1>0. /\ recv \in [Ends -> {"unborn", "check", "select", "done"}]
        /\ send \in [Ends -> {"unborn", "check", "input", "recheck", "write",
                              "bye", "done"}]
    BY DEF Sane, TypeOK
  <1>d. \A x \in Ends : ThreadPlace(x)
    BY DEF Sane, Places
  <1>1. ASSUME NEW e \in Ends, RecvCheck(e) \/ SelectTimeout(e) PROVE Quiet
    <2>1. /\ recv[e] \in {"check", "select"}
          /\ recv' = [recv EXCEPT ![e] = recv'[e]]
          /\ recv'[e] = "done" => shouldStop[e]
          /\ UNCHANGED <<main, desc, send, wire, sent, shown, shouldStop, reset,
                         faults>>
      BY <1>1, <1>0 DEF RecvCheck, SelectTimeout, RecvMoves, link
    <2>2. main[e] # "failed"
      BY <2>1, <1>d DEF ThreadPlace
    <2>3. QuietAt(e)
      BY <2>1, <2>2 DEF QuietAt, Live, SendEndClosed
    <2> QED
      BY <2>1, <2>3, <1>0, QuietStep
  <1>2. ASSUME NEW e \in Ends, SendCheck(e) \/ Input(e) PROVE Quiet
    <2>1. /\ \/ send[e] = "check" /\ shouldStop[e] /\ send'[e] = "done"
             \/ /\ send[e] \notin {"bye", "done"} /\ send'[e] # "bye"
                /\ ~(send[e] = "check" /\ shouldStop[e])
          /\ send' = [send EXCEPT ![e] = send'[e]]
          /\ UNCHANGED <<main, desc, recv, wire, sent, shown, shouldStop, reset,
                         faults>>
      BY <1>2, <1>0 DEF SendCheck, Input, SendMoves, link
    <2>2. QuietAt(e)
      BY <2>1 DEF QuietAt, Live, SendEndClosed
    <2> QED
      BY <2>1, <2>2, <1>0, QuietStep
  <1>3. ASSUME NEW e \in Ends, ReadFails(e) \/ WriteKills(e) \/ Fault(e)
        PROVE  Dies(e)
    BY <1>3 DEF ReadFails, WriteKills, Fault, Dies
  <1>4. CASE UNCHANGED vars
    BY <1>4 DEF vars, Quiet, QuietAt, Live, SendEndClosed
  <1> QED
    BY <1>1, <1>2, <1>3, <1>4, MainKinds, WriteIs
    DEF Next, RecvStep, SendStep

-----------------------------------------------------------------------------
(* BYE.                                                                    *)

(* One message more in a sequence.                                         *)
LEMMA SaidAppend ==
    ASSUME NEW s \in Seq(Messages), NEW m \in Messages
    PROVE  /\ Said(Append(s, m)) <=> Said(s) \/ m = Bye
           /\ ~Said(s) => \A i \in 1 .. Len(Append(s, m)) :
                 Append(s, m)[i] = Bye => i = Len(Append(s, m))
  <1> DEFINE t == Append(s, m)
  <1>1. /\ Len(s) \in Nat /\ Len(t) = Len(s) + 1
        /\ \A i \in 1 .. Len(s) : t[i] = s[i]
        /\ t[Len(s) + 1] = m
    BY AppendProperties, LenProperties
  <1> HIDE DEF t
  <1>2. \A i \in 1 .. Len(t) : i \in 1 .. Len(s) \/ i = Len(s) + 1
    BY <1>1
  <1>3. \A i \in 1 .. Len(s) : i \in 1 .. Len(t)
    BY <1>1
  <1>4. Len(s) + 1 \in 1 .. Len(t)
    BY <1>1
  <1>5. Said(t) <=> Said(s) \/ m = Bye
    BY <1>1, <1>2, <1>3, <1>4 DEF Said
  <1>6. ~Said(s) => \A i \in 1 .. Len(t) : t[i] = Bye => i = Len(t)
    BY <1>1, <1>2 DEF Said
  <1> QED
    BY <1>5, <1>6 DEF t

(* Threads run, and descriptors are open, while main waits for them.       *)
LEMMA PlaceFacts ==
    ASSUME Sane, NEW e \in Ends
    PROVE  /\ recv[e] \in {"check", "select"} => Live(e) /\ desc[e] = "open"
           /\ send[e] \in {"write", "bye"} => Live(e) /\ desc[e] = "open"
           /\ Live(e) => desc[e] # "closed"
           /\ main[e] \in {"mkfifo1", "mkfifo2", "open1", "connect"} =>
                 desc[e] = "none" /\ recv[e] = "unborn"
           /\ main[e] \in {"close", "close2"} =>
                 Live(e) /\ recv[e] = "done" /\ desc[e] # "none"
           /\ recv[e] = "select" => main[e] # "failed"
  <1>1. /\ DescPlace(e) /\ ThreadPlace(e)
        /\ main[e] \in Ended \cup
                   {"off", "mkfifo1", "mkfifo2", "open1", "open2", "listen",
                    "accept", "connect", "create1", "create2", "join1",
                    "join2", "close", "close2", "unlink1", "unlink2"}
    BY DEF Sane, Places, TypeOK
  <1> QED
    BY <1>1 DEF DescPlace, ThreadPlace, Before, Closed, Live, Ended

(* Both ends of a write that adds to what was sent.                        *)
LEMMA WriteFacts ==
    ASSUME Sane, NEW e \in Ends, WriteQueued(e) \/ WriteLost(e)
    PROVE  /\ sent[e] \in Seq(Messages) /\ line[e] \in Messages
           /\ sent'[e] = Append(sent[e], line[e]) /\ send[e] = "write"
           /\ send'[e] = IF line[e] = Bye THEN "bye" ELSE "check"
           /\ \A x \in Ends : x # e => sent'[x] = sent[x] /\ send'[x] = send[x]
           /\ UNCHANGED <<main, desc, recv, shouldStop, shown, faults>>
  <1>1. /\ sent \in [Ends -> Seq(Messages)] /\ line \in [Ends -> Messages]
        /\ send \in [Ends -> {"unborn", "check", "input", "recheck", "write",
                              "bye", "done"}]
    BY DEF Sane, TypeOK
  <1> QED
    BY <1>1 DEF WriteQueued, WriteLost, SendMoves

(* What closing the descriptors of an endpoint changes.                    *)
LEMMA CloseFacts ==
    ASSUME Sane, NEW e \in Ends, NEW p \in Ends, p = Peer(e),
           Close(e)
    PROVE  /\ desc'[e] = IF desc[e] = "none" THEN "none" ELSE "closed"
           /\ desc'[p] = desc[p] /\ wire'[e] = wire[e] /\ wire'[p] = << >>
           /\ reset'[e] = reset[e]
           /\ reset'[p] <=> \/ reset[p]
                            \/ /\ ~Fifo /\ desc[p] # "none"
                               /\ wire[p] # << >> \/ desc[e] = "none"
  <1>1. /\ desc \in [Ends -> {"none", "half", "open", "sendclosed", "closed"}]
        /\ wire \in [Ends -> Seq(Messages)] /\ reset \in [Ends -> BOOLEAN]
        /\ p # e
    BY PeerIs DEF Sane, TypeOK
  <1> QED
    BY <1>1 DEF Close

(* What the end of a process leaves at the two endpoints.                  *)
LEMMA DieFacts ==
    ASSUME Sane, NEW e \in Ends, Die(e)
    PROVE  /\ main'[e] = "failed" /\ Close(e) /\ ~Live(e)'
           /\ UNCHANGED <<shouldStop, sent, shown>>
           /\ recv'[e] = IF recv[e] = "unborn" THEN "unborn" ELSE "done"
           /\ send'[e] = IF send[e] = "unborn" THEN "unborn" ELSE "done"
           /\ \A x \in Ends : x # e =>
                 /\ main'[x] = main[x] /\ Live(x)' = Live(x)
                 /\ recv'[x] = recv[x] /\ send'[x] = send[x]
  BY DEF Sane, TypeOK, Die, Live

(* What an orderly close leaves at the two endpoints.                      *)
LEMMA CloseAllFacts ==
    ASSUME Sane, NEW e \in Ends, CloseAll(e)
    PROVE  /\ main[e] \in {"close", "close2"} /\ main'[e] # "failed"
           /\ Close(e) /\ ~Live(e)'
           /\ UNCHANGED <<shouldStop, sent, shown, recv, send, faults>>
           /\ \A x \in Ends : x # e => main'[x] = main[x] /\ Live(x)' = Live(x)
  BY DEF Sane, TypeOK, CloseAll, MainMoves, Live, Closed, threads

(* BYE is the last message of an endpoint, whatever step is taken.         *)
LEMMA ByeKept ==
    ASSUME Sane, \A x \in Ends : ByeIsLast(x), [Next]_vars, NEW x \in Ends
    PROVE  ByeIsLast(x)'
  <1>0. /\ send \in [Ends -> {"unborn", "check", "input", "recheck", "write",
                              "bye", "done"}]
        /\ shouldStop \in [Ends -> BOOLEAN]
    BY DEF Sane, TypeOK
  <1>1. CASE Quiet
    BY <1>1 DEF Quiet, QuietAt, ByeIsLast
  <1>2. ASSUME NEW e \in Ends, Dies(e) PROVE ByeIsLast(x)'
    BY <1>2, DieFacts DEF Dies, ByeIsLast
  <1>3. ASSUME NEW e \in Ends, CloseAll(e) \/ CloseSend(e) PROVE ByeIsLast(x)'
    BY <1>3 DEF CloseAll, CloseSend, threads, ByeIsLast
  <1>4. ASSUME NEW e \in Ends, ReadLine(e) \/ ReadEnd(e) PROVE ByeIsLast(x)'
    <2>1. UNCHANGED <<sent, send>> /\ (shouldStop[x] => shouldStop'[x])
      BY <1>4, <1>0 DEF ReadLine, ReadEnd
    <2> QED
      BY <2>1 DEF ByeIsLast
  <1>5. ASSUME NEW e \in Ends, WriteQueued(e) \/ WriteLost(e)
        PROVE  ByeIsLast(x)'
    <2>1. CASE x = e
      <3>1. ~Said(sent[e])
        BY <1>5, WriteFacts DEF ByeIsLast
      <3>2. /\ Said(sent'[e]) <=> line[e] = Bye
            /\ \A i \in 1 .. Len(sent'[e]) :
                  sent'[e][i] = Bye => i = Len(sent'[e])
        <4>1. PICK s \in Seq(Messages), m \in Messages :
                 s = sent[e] /\ m = line[e] /\ sent'[e] = Append(s, m)
          BY <1>5, WriteFacts
        <4> QED
          BY <4>1, <3>1, SaidAppend
      <3> QED
        BY <3>2, <2>1, <1>5, WriteFacts DEF ByeIsLast
    <2>2. CASE x # e
      BY <2>2, <1>5, WriteFacts DEF ByeIsLast
    <2> QED
      BY <2>1, <2>2
  <1>6. ASSUME NEW e \in Ends, ByeSent(e) PROVE ByeIsLast(x)'
    BY <1>6, <1>0 DEF ByeSent, SendMoves, ByeIsLast
  <1> QED
    BY <1>1, <1>2, <1>3, <1>4, <1>5, <1>6, Kinds

-----------------------------------------------------------------------------
(* What was shown and what was sent.                                       *)

(* A message goes from the head of one sequence to the end of the other.   *)
LEMMA MoveHead ==
    ASSUME NEW s \in Seq(Messages), NEW w \in Seq(Messages), w # << >>
    PROVE  s \o w = Append(s, Head(w)) \o Tail(w)
  <1>1. /\ Head(w) \in Messages /\ Tail(w) \in Seq(Messages)
        /\ Len(Tail(w)) = Len(w) - 1 /\ Len(s) \in Nat /\ Len(w) \in Nat \ {0}
        /\ \A i \in 1 .. Len(w) - 1 : Tail(w)[i] = w[i + 1]
        /\ Head(w) = w[1]
    BY HeadTailProperties, LenProperties, EmptySeq
  <1>2. PICK m \in Messages : m = Head(w)
    BY <1>1
  <1>3. PICK r \in Seq(Messages) : r = Tail(w)
    BY <1>1
  <1> DEFINE a == Append(s, m)
  <1>4. /\ a \in Seq(Messages) /\ Len(a) = Len(s) + 1
        /\ \A i \in 1 .. Len(s) : a[i] = s[i]
        /\ a[Len(s) + 1] = m
    BY AppendProperties
  <1> HIDE DEF a
  <1> DEFINE u == s \o w  v == a \o r
  <1>5. /\ u \in Seq(Messages) /\ Len(u) = Len(s) + Len(w)
        /\ \A i \in 1 .. Len(s) + Len(w) :
              u[i] = IF i <= Len(s) THEN s[i] ELSE w[i - Len(s)]
    BY ConcatProperties
  <1>6. /\ v \in Seq(Messages) /\ Len(v) = Len(a) + Len(r)
        /\ \A i \in 1 .. Len(a) + Len(r) :
              v[i] = IF i <= Len(a) THEN a[i] ELSE r[i - Len(a)]
    BY <1>4, ConcatProperties
  <1> HIDE DEF u, v
  <1>7. Len(v) = Len(s) + Len(w) /\ Len(a) + Len(r) = Len(s) + Len(w)
    BY <1>1, <1>3, <1>4, <1>6
  <1>8. ASSUME NEW i \in 1 .. Len(s) + Len(w) PROVE u[i] = v[i]
    <2>1. CASE i <= Len(s)
      <3>1. i <= Len(a) /\ i \in 1 .. Len(s) /\ i \in 1 .. Len(a) + Len(r)
        BY <2>1, <1>1, <1>4, <1>7
      <3>2. u[i] = s[i] /\ v[i] = a[i]
        BY <2>1, <3>1, <1>5, <1>6
      <3> QED
        BY <3>1, <3>2, <1>4
    <2>2. CASE i = Len(s) + 1
      <3>1. i - Len(s) = 1 /\ ~(i <= Len(s)) /\ i <= Len(a)
        BY <2>2, <1>1, <1>4
      <3>2. u[i] = w[1] /\ v[i] = a[Len(s) + 1]
        BY <3>1, <2>2, <1>5, <1>6, <1>7
      <3> QED
        BY <3>2, <1>1, <1>2, <1>4
    <2>3. CASE i > Len(s) + 1
      <3>1. /\ ~(i <= Len(s)) /\ ~(i <= Len(a))
            /\ i - Len(a) \in 1 .. Len(w) - 1 /\ i - Len(a) + 1 = i - Len(s)
        BY <2>3, <1>1, <1>4
      <3>2. u[i] = w[i - Len(s)] /\ v[i] = r[i - Len(a)]
        BY <3>1, <1>5, <1>6, <1>7
      <3>3. r[i - Len(a)] = w[i - Len(a) + 1]
        BY <3>1, <1>1, <1>3
      <3> QED
        BY <3>1, <3>2, <3>3
    <2> QED
      BY <2>1, <2>2, <2>3, <1>1
  <1>9. u = v
    BY <1>5, <1>6, <1>7, <1>8, SeqEqual
  <1> QED
    BY <1>2, <1>3, <1>9 DEF u, v, a

(* A message is appended to a sequence and so to all that follow it.       *)
LEMMA AppendRight ==
    ASSUME NEW s \in Seq(Messages), NEW w \in Seq(Messages),
           NEW m \in Messages
    PROVE  Append(s \o w, m) = s \o Append(w, m)
  <1>1. s \o w \in Seq(Messages) /\ <<m>> \in Seq(Messages)
    BY ConcatProperties
  <1>2. Append(s \o w, m) = (s \o w) \o <<m>>
    BY <1>1, AppendIsConcat
  <1>3. Append(w, m) = w \o <<m>>
    BY AppendIsConcat
  <1>4. (s \o w) \o <<m>> = s \o (w \o <<m>>)
    BY <1>1, ConcatAssociative
  <1> QED
    BY <1>2, <1>3, <1>4

(* The first messages of a sequence, with BYE, are all of it when BYE can  *)
(* only be the last.                                                       *)
LEMMA UpToBye ==
    ASSUME NEW s \in Seq(Messages), NEW w \in Seq(Messages), Said(s),
           \A i \in 1 .. Len(s \o w) : (s \o w)[i] = Bye => i = Len(s \o w)
    PROVE  w = << >> /\ s = s \o w
  <1> DEFINE u == s \o w
  <1>1. /\ u \in Seq(Messages) /\ Len(u) = Len(s) + Len(w)
        /\ Len(s) \in Nat /\ Len(w) \in Nat
        /\ \A i \in 1 .. Len(s) + Len(w) :
              u[i] = IF i <= Len(s) THEN s[i] ELSE w[i - Len(s)]
    BY ConcatProperties, LenProperties
  <1> HIDE DEF u
  <1>2. PICK i \in 1 .. Len(s) : s[i] = Bye
    BY DEF Said
  <1>3. i \in 1 .. Len(s) + Len(w) /\ i <= Len(s)
    BY <1>1
  <1>4. u[i] = Bye
    BY <1>1, <1>2, <1>3
  <1>5. i = Len(u)
    BY <1>1, <1>3, <1>4 DEF u
  <1>6. Len(w) = 0
    BY <1>1, <1>3, <1>5
  <1>7. w = << >>
    BY <1>6, EmptySeq
  <1> QED
    BY <1>7, ConcatEmptySeq

(* Nothing gets lost on the way to an endpoint that is there to read it.   *)
LEMMA DeliveredKept ==
    ASSUME Sane, \A y \in Ends : ByeIsLast(y) /\ Delivered(y), [Next]_vars,
           NEW x \in Ends
    PROVE  Delivered(x)'
  <1>0. /\ sent \in [Ends -> Seq(Messages)] /\ wire \in [Ends -> Seq(Messages)]
        /\ shown \in [Ends -> Seq(Messages)]
    BY DEF Sane, TypeOK
  <1>p. /\ Peer(x) \in Ends /\ Peer(x) # x /\ Peer(Peer(x)) = x
        /\ \A y \in Ends : y = x \/ y = Peer(x)
    BY PeerIs
  <1>d. Delivered(x) /\ ByeIsLast(Peer(x))
    BY <1>p
  <1>1. CASE Quiet
    BY <1>1, <1>d DEF Quiet, QuietAt, Delivered
  <1>2. ASSUME NEW e \in Ends, Dies(e) \/ CloseAll(e) PROVE Delivered(x)'
    <2>1. UNCHANGED <<sent, shown>> /\ Close(e) /\ ~Live(e)'
      BY <1>2, DieFacts, CloseAllFacts DEF Dies
    <2>2. CASE x = e
      BY <2>1, <2>2, <1>d DEF Delivered
    <2>3. CASE e = Peer(x)
      <3>1. Live(x)' = Live(x) /\ wire'[Peer(x)] = wire[Peer(x)]
        BY <2>1, <2>3, <1>2, <1>p, DieFacts, CloseAllFacts, CloseFacts DEF Dies
      <3> QED
        BY <2>1, <3>1, <1>d DEF Delivered
    <2> QED
      BY <2>2, <2>3, <1>p
  <1>3. ASSUME NEW e \in Ends, CloseSend(e) \/ ReadEnd(e) \/ ByeSent(e)
        PROVE  Delivered(x)'
    <2>1. UNCHANGED <<sent, shown, wire>> /\ Live(x)' = Live(x)
      <3>1. CASE CloseSend(e)
        BY <3>1 DEF CloseSend, MainMoves, threads, Live, Closed, Sane, TypeOK
      <3>2. CASE ReadEnd(e) \/ ByeSent(e)
        BY <3>2 DEF ReadEnd, ByeSent, link, Live
      <3> QED
        BY <1>3, <3>1, <3>2
    <2> QED
      BY <2>1, <1>d DEF Delivered
  <1>4. ASSUME NEW e \in Ends, ReadLine(e) PROVE Delivered(x)'
    <2>0. /\ wire[Peer(e)] # << >> /\ UNCHANGED <<main, sent>>
          /\ recv[e] = "select" /\ Peer(e) \in Ends /\ Peer(e) # e
          /\ wire' = [wire EXCEPT ![Peer(e)] = Tail(wire[Peer(e)])]
          /\ shown' = [shown EXCEPT ![e] = Append(shown[e], Head(wire[Peer(e)]))]
      BY <1>4, PeerIs DEF ReadLine, RecvMoves
    <2>1. CASE x = e
      <3>1. Live(x) /\ Live(x)'
        BY <2>0, <2>1, PlaceFacts DEF Live
      <3>2. PICK s \in Seq(Messages), w \in Seq(Messages) :
               s = shown[x] /\ w = wire[Peer(x)] /\ w # << >>
        BY <2>0, <2>1, <1>0, <1>p
      <3>3. shown'[x] = Append(s, Head(w)) /\ wire'[Peer(x)] = Tail(w)
        BY <2>0, <2>1, <3>2, <1>0, <1>p
      <3>4. /\ Head(w) \in Messages /\ Tail(w) \in Seq(Messages)
            /\ Append(s, Head(w)) \in Seq(Messages)
        BY <3>2, HeadTailProperties, AppendProperties
      <3>5. sent[Peer(x)] = Append(s, Head(w)) \o Tail(w)
        BY <3>1, <3>2, <1>d, MoveHead DEF Delivered
      <3>6. PICK t \in Seq(Messages), r \in Seq(Messages) :
               t = shown'[x] /\ r = wire'[Peer(x)] /\ sent[Peer(x)] = t \o r
        BY <3>3, <3>4, <3>5
      <3>7. \A i \in 1 .. Len(t \o r) : (t \o r)[i] = Bye => i = Len(t \o r)
        BY <3>6, <1>d DEF ByeIsLast
      <3>8. Said(t) => t = t \o r
        BY <3>7, UpToBye
      <3> QED
        BY <2>0, <3>6, <3>8 DEF Delivered
    <2>2. CASE e = Peer(x)
      <3>1. shown'[x] = shown[x] /\ wire'[Peer(x)] = wire[Peer(x)]
        BY <2>0, <2>2, <1>0, <1>p
      <3>2. Live(x)' = Live(x)
        BY <2>0 DEF Live
      <3> QED
        BY <2>0, <3>1, <3>2, <1>d DEF Delivered
    <2> QED
      BY <2>1, <2>2, <1>p
  <1>5. ASSUME NEW e \in Ends, WriteQueued(e) \/ WriteLost(e)
        PROVE  Delivered(x)'
    <2>0. /\ UNCHANGED <<main, shown>> /\ Live(x)' = Live(x)
          /\ ~Said(sent[e])
      BY <1>5, WriteFacts DEF Live, ByeIsLast
    <2>1. CASE x = e
      <3>1. sent'[Peer(x)] = sent[Peer(x)] /\ wire'[Peer(x)] = wire[Peer(x)]
        BY <2>1, <1>0, <1>5, <1>p, WriteFacts DEF WriteQueued, WriteLost
      <3> QED
        BY <2>0, <3>1, <1>d DEF Delivered
    <2>2. CASE e = Peer(x)
      <3>1. ~Said(shown[x])
        BY <2>0, <2>2, <1>d DEF Delivered
      <3>2. CASE WriteQueued(e)
        <4>1. PICK s \in Seq(Messages), w \in Seq(Messages), m \in Messages :
                 s = shown[x] /\ w = wire[e] /\ m = line[e]
          BY <1>0, <1>5, WriteFacts
        <4>2. wire'[e] = Append(w, m) /\ sent'[e] = Append(sent[e], m)
          BY <3>2, <4>1, <1>0, WriteFacts DEF WriteQueued
        <4>3. Live(x) => sent[e] = s \o w
          BY <4>1, <2>2, <1>d DEF Delivered
        <4>4. Live(x) => sent'[e] = s \o Append(w, m)
          BY <4>2, <4>3, AppendRight
        <4> QED
          BY <4>1, <4>2, <4>4, <3>1, <2>0, <2>2 DEF Delivered
      <3>3. CASE WriteLost(e)
        <4>1. desc[x] = "closed"
          BY <3>3, <2>2, <1>p DEF WriteLost
        <4>2. ~Live(x)
          BY <4>1, PlaceFacts
        <4> QED
          BY <4>2, <3>1, <2>0 DEF Delivered
      <3> QED
        BY <3>2, <3>3, <1>5
    <2> QED
      BY <2>1, <2>2, <1>p
  <1> QED
    BY <1>1, <1>2, <1>3, <1>4, <1>5, Kinds

-----------------------------------------------------------------------------
(* Why endpoints stop and fail.                                            *)

(* An endpoint that may close its channel was told to: without faults one  *)
(* of the two said BYE, itself if messages are waiting for it.             *)
LEMMA StopMeansBye ==
    ASSUME Sane, \A y \in Ends : Delivered(y) /\ Reasons(y) /\ ByeIsLast(y),
           NEW e \in Ends, main[e] \in {"close", "close2"}, faults = 0
    PROVE  /\ Said(sent[e]) \/ Said(sent[Peer(e)])
           /\ wire[Peer(e)] # << >> => Said(sent[e])
  <1>1. Live(e) /\ recv[e] = "done"
    BY PlaceFacts
  <1>2. StopReason(e)
    BY <1>1 DEF Reasons
  <1>3. ASSUME Said(shown[e])
        PROVE  Said(sent[Peer(e)]) /\ wire[Peer(e)] = << >>
    <2>1. shown[e] = sent[Peer(e)] /\ sent[Peer(e)] = shown[e] \o wire[Peer(e)]
      BY <1>1, <1>3 DEF Delivered
    <2>2. shown[e] \in Seq(Messages) /\ wire[Peer(e)] \in Seq(Messages)
      BY PeerIs DEF Sane, TypeOK
    <2>3. wire[Peer(e)] = << >>
      <3>1. PICK s, w \in Seq(Messages) : s = shown[e] /\ w = wire[Peer(e)]
        BY <2>2
      <3>2. s \o w = s
        BY <2>1, <3>1
      <3>3. w = << >>
        BY <3>2, ConcatEqualIffEmpty
      <3> QED
        BY <3>1, <3>3
    <2> QED
      BY <2>1, <2>3, <1>3
  <1>4. SendEndClosed(Peer(e)) => Said(sent[e]) \/ Said(sent[Peer(e)])
    BY PeerIs DEF Reasons
  <1> QED
    BY <1>2, <1>3, <1>4 DEF StopReason

(* Reasons(x) when nothing it depends on at the two ends has changed.      *)
LEMMA ReasonsFrame ==
    ASSUME NEW x \in Ends, Reasons(x), Live(x)' => Live(x),
           Live(Peer(x))' => Live(Peer(x)),
           recv'[x] = "done" => recv[x] = "done" \/ shouldStop[x],
           shouldStop'[x] = shouldStop[x], reset'[x] = reset[x],
           faults' = faults,
           Said(sent[x]) => Said(sent'[x]), shown'[x] = shown[x],
           Said(sent[Peer(x)]) => Said(sent'[Peer(x)]),
           SendEndClosed(Peer(x)) /\ wire[Peer(x)] = << >> =>
              SendEndClosed(Peer(x))' /\ wire'[Peer(x)] = << >>,
           SendEndClosed(x)' => SendEndClosed(x),
           main'[x] = "failed" => main[x] = "failed" /\ recv'[x] = recv[x]
    PROVE  Reasons(x)'
  <1>1. StopReason(x) => StopReason(x)'
    BY DEF StopReason
  <1> QED
    BY <1>1 DEF Reasons

(* The reasons survive the sudden end of an endpoint.                      *)
LEMMA DieReasons ==
    ASSUME Sane, \A y \in Ends : Delivered(y) /\ Reasons(y) /\ ByeIsLast(y),
           NEW e \in Ends, Dies(e), NEW x \in Ends
    PROVE  Reasons(x)'
  <1>0. /\ Peer(e) \in Ends /\ Peer(e) # e /\ Peer(Peer(e)) = e
        /\ \A y \in Ends : y = e \/ y = Peer(e)
    BY PeerIs
  <1>1. PICK p \in Ends : p = Peer(e) /\ p # e /\ Peer(p) = e
    BY <1>0
  <1>2. /\ main'[e] = "failed" /\ Close(e) /\ ~Live(e)'
        /\ UNCHANGED <<shouldStop, sent, shown>>
        /\ recv'[e] = IF recv[e] = "unborn" THEN "unborn" ELSE "done"
        /\ main'[p] = main[p] /\ Live(p)' = Live(p) /\ recv'[p] = recv[p]
    BY <1>1, DieFacts DEF Dies
  <1>3. /\ desc'[e] = IF desc[e] = "none" THEN "none" ELSE "closed"
        /\ desc'[p] = desc[p] /\ wire'[e] = wire[e] /\ wire'[p] = << >>
        /\ reset'[e] = reset[e]
        /\ reset'[p] <=> \/ reset[p]
                         \/ /\ ~Fifo /\ desc[p] # "none"
                            /\ wire[p] # << >> \/ desc[e] = "none"
    BY <1>1, <1>2, CloseFacts
  <1>4. Reasons(e) /\ Reasons(p) /\ ByeIsLast(e) /\ faults \in Nat
    BY ChatAssumption DEF Sane, TypeOK
  <1>5. faults' = 0 => faults = 0 /\ faults' = faults
    BY <1>4 DEF Dies
  <1>6. faults' = 0 =>
           \/ main[e] \in {"mkfifo1", "mkfifo2", "open1"}
           \/ main[e] = "connect" /\ e = "connect"
           \/ recv[e] = "select" /\ wire[p] = << >> /\ reset[e]
           \/ send[e] = "write" /\ (reset[e] \/ desc[p] = "closed")
    BY <1>1, <1>4 DEF Dies
  <1>7. CASE x = e
    <2>1. ASSUME faults' = 0
          PROVE  (desc[e] = "none" /\ recv[e] = "unborn") \/ Said(sent[p])
      <3>1. CASE main[e] \in {"mkfifo1", "mkfifo2", "open1", "connect"}
        BY <3>1, PlaceFacts
      <3>2. CASE recv[e] = "select" /\ reset[e]
        BY <3>2, <2>1, <1>1, <1>4, <1>5, PlaceFacts DEF Reasons
      <3>3. CASE send[e] = "write" /\ reset[e]
        BY <3>3, <2>1, <1>1, <1>4, <1>5, PlaceFacts DEF Reasons
      <3>4. CASE send[e] = "write" /\ desc[p] = "closed"
        BY <3>4, <2>1, <1>1, <1>4, <1>5 DEF Reasons, SendEndClosed, ByeIsLast
      <3> QED
        BY <2>1, <3>1, <3>2, <3>3, <3>4, <1>6
    <2>2. reset'[e] => ~Live(p)'
      BY <1>1, <1>2, <1>3, <1>4 DEF Reasons
    <2>3. faults' = 0 =>
             /\ SendEndClosed(e)' => Said(sent'[e]) \/ Said(sent'[p])
             /\ recv'[e] # "unborn" => Said(sent'[p])
      BY <2>1, <1>2, <1>3 DEF SendEndClosed
    <2> QED
      BY <2>2, <2>3, <1>1, <1>2, <1>7 DEF Reasons
  <1>8. CASE x = p
    <2>1. ASSUME faults' = 0, Live(p), reset'[p] PROVE Said(sent[e])
      <3>1. CASE reset[p]
        BY <3>1, <2>1, <1>1, <1>4, <1>5 DEF Reasons
      <3>2. CASE ~reset[p]
        <4>0. ~Fifo /\ desc[p] # "none" /\ (wire[p] # << >> \/ desc[e] = "none")
          BY <3>2, <2>1, <1>3
        <4>1. main[e] \notin {"mkfifo1", "mkfifo2", "open1"}
          BY <4>0 DEF Sane, Places, ProgramPlace
        <4>2. ~(main[e] = "connect" /\ e = "connect")
          BY <4>0, <1>1, PlaceFacts DEF Sane, Places, ProgramPlace, Peer
        <4>3. ~(recv[e] = "select" /\ wire[p] = << >>)
          BY <4>0, PlaceFacts
        <4>4. ~(send[e] = "write" /\ reset[e])
          BY <2>1, <1>1, <1>4 DEF Reasons
        <4>5. ~(send[e] = "write" /\ desc[p] = "closed")
          BY <2>1, PlaceFacts
        <4> QED
          BY <2>1, <4>1, <4>2, <4>3, <4>4, <4>5, <1>6
      <3> QED
        BY <3>1, <3>2
    <2>2. StopReason(p) => StopReason(p)'
      BY <1>1, <1>2, <1>3 DEF StopReason, SendEndClosed
    <2>3. SendEndClosed(p)' <=> SendEndClosed(p)
      BY <1>3 DEF SendEndClosed
    <2> QED
      BY <2>1, <2>2, <2>3, <1>1, <1>2, <1>4, <1>5, <1>8 DEF Reasons
  <1> QED
    BY <1>0, <1>1, <1>7, <1>8

(* The reasons survive an orderly close: who closes was told to.           *)
LEMMA CloseReasons ==
    ASSUME Sane, \A y \in Ends : Delivered(y) /\ Reasons(y) /\ ByeIsLast(y),
           NEW e \in Ends, CloseAll(e), NEW x \in Ends
    PROVE  Reasons(x)'
  <1>0. /\ Peer(e) \in Ends /\ Peer(e) # e /\ Peer(Peer(e)) = e
        /\ \A y \in Ends : y = e \/ y = Peer(e)
    BY PeerIs
  <1>1. PICK p \in Ends : p = Peer(e) /\ p # e /\ Peer(p) = e
    BY <1>0
  <1>2. /\ main[e] \in {"close", "close2"} /\ main'[e] # "failed"
        /\ Close(e) /\ ~Live(e)' /\ UNCHANGED <<shouldStop, sent, shown, recv, faults>>
        /\ main'[p] = main[p] /\ Live(p)' = Live(p)
    BY <1>1, CloseAllFacts
  <1>3. /\ desc'[e] = IF desc[e] = "none" THEN "none" ELSE "closed"
        /\ desc'[p] = desc[p] /\ wire'[e] = wire[e] /\ wire'[p] = << >>
        /\ reset'[e] = reset[e]
        /\ reset'[p] <=> \/ reset[p]
                         \/ /\ ~Fifo /\ desc[p] # "none"
                            /\ wire[p] # << >> \/ desc[e] = "none"
    BY <1>1, <1>2, CloseFacts
  <1>4. Reasons(e) /\ Reasons(p) /\ desc[e] # "none"
    BY <1>2, PlaceFacts
  <1>5. faults = 0 => /\ Said(sent[e]) \/ Said(sent[p])
                      /\ wire[p] # << >> => Said(sent[e])
    BY <1>1, <1>2, StopMeansBye
  <1>6. CASE x = e
    <2>1. reset'[e] => ~Live(p)'
      BY <1>1, <1>2, <1>3, <1>4 DEF Reasons
    <2> QED
      BY <2>1, <1>1, <1>2, <1>5, <1>6 DEF Reasons
  <1>7. CASE x = p
    <2>1. StopReason(p) => StopReason(p)'
      BY <1>1, <1>2, <1>3 DEF StopReason, SendEndClosed
    <2>2. SendEndClosed(p)' <=> SendEndClosed(p)
      BY <1>3 DEF SendEndClosed
    <2>3. faults = 0 /\ Live(p) /\ reset'[p] => Said(sent[e])
      BY <1>1, <1>3, <1>4, <1>5 DEF Reasons
    <2> QED
      BY <2>1, <2>2, <2>3, <1>1, <1>2, <1>4, <1>7 DEF Reasons
  <1> QED
    BY <1>0, <1>1, <1>6, <1>7

(* The reasons hold after every step.                                      *)
LEMMA ReasonsKept ==
    ASSUME Sane, \A y \in Ends : Delivered(y) /\ Reasons(y) /\ ByeIsLast(y),
           [Next]_vars, NEW x \in Ends
    PROVE  Reasons(x)'
  <1>t. /\ recv \in [Ends -> {"unborn", "check", "select", "done"}]
        /\ desc \in [Ends -> {"none", "half", "open", "sendclosed", "closed"}]
        /\ shouldStop \in [Ends -> BOOLEAN] /\ reset \in [Ends -> BOOLEAN]
        /\ wire \in [Ends -> Seq(Messages)] /\ shown \in [Ends -> Seq(Messages)]
    BY DEF Sane, TypeOK
  <1>m. main \in [Ends -> Ended \cup
                   {"off", "mkfifo1", "mkfifo2", "open1", "open2", "listen",
                    "accept", "connect", "create1", "create2", "join1",
                    "join2", "close", "close2", "unlink1", "unlink2"}]
    BY DEF Sane, TypeOK
  <1>p. /\ Peer(x) \in Ends /\ Peer(x) # x /\ Peer(Peer(x)) = x
        /\ \A y \in Ends : y = x \/ y = Peer(x)
    BY PeerIs
  <1>r. Reasons(x)
    OBVIOUS
  <1>1. CASE Quiet
    <2>1. /\ UNCHANGED <<wire, sent, shown, shouldStop, reset, faults>>
          /\ QuietAt(x) /\ QuietAt(Peer(x))
      BY <1>1, <1>p DEF Quiet
    <2>2. /\ Live(x)' <=> Live(x)
          /\ Live(Peer(x))' <=> Live(Peer(x))
          /\ SendEndClosed(x)' <=> SendEndClosed(x)
          /\ SendEndClosed(Peer(x))' <=> SendEndClosed(Peer(x))
          /\ recv'[x] = "done" => recv[x] = "done" \/ shouldStop[x]
          /\ main'[x] = "failed" => main[x] = "failed" /\ recv'[x] = recv[x]
      BY <2>1 DEF QuietAt
    <2> QED
      BY <2>1, <2>2, <1>r, ReasonsFrame
  <1>2. ASSUME NEW e \in Ends, Dies(e) PROVE Reasons(x)'
    BY <1>2, DieReasons
  <1>3. ASSUME NEW e \in Ends, CloseAll(e) PROVE Reasons(x)'
    BY <1>3, CloseReasons
  <1>4. ASSUME NEW e \in Ends, CloseSend(e) PROVE Reasons(x)'
    <2>1. /\ main[e] = "close" /\ main' = [main EXCEPT ![e] = "close2"]
          /\ desc' = [desc EXCEPT ![e] = "sendclosed"]
          /\ UNCHANGED <<recv, wire, sent, shown, shouldStop, reset, faults>>
      BY <1>4 DEF CloseSend, MainMoves, threads
    <2>2. \A y \in Ends : /\ Live(y)' <=> Live(y)
                          /\ main'[y] = "failed" <=> main[y] = "failed"
      BY <2>1, <1>m DEF Live, Closed
    <2>3. /\ SendEndClosed(Peer(x)) => SendEndClosed(Peer(x))'
          /\ x # e => (SendEndClosed(x)' <=> SendEndClosed(x))
      BY <2>1, <1>t, <1>p DEF SendEndClosed
    <2>4. faults = 0 /\ x = e => Said(sent[x]) \/ Said(sent[Peer(x)])
      BY <2>1, StopMeansBye
    <2>5. StopReason(x) => StopReason(x)'
      BY <2>1, <2>3 DEF StopReason
    <2> QED
      BY <2>1, <2>2, <2>3, <2>4, <2>5, <1>p, <1>r DEF Reasons
  <1>5. ASSUME NEW e \in Ends, ReadLine(e) PROVE Reasons(x)'
    <2>1. /\ wire[Peer(e)] # << >> /\ recv[e] = "select"
          /\ recv' = [recv EXCEPT ![e] = "check"]
          /\ wire' = [wire EXCEPT ![Peer(e)] = Tail(wire[Peer(e)])]
          /\ shown' = [shown EXCEPT ![e] =
                          Append(shown[e], Head(wire[Peer(e)]))]
          /\ shouldStop' = [shouldStop EXCEPT ![e] =
                               shouldStop[e] \/ Head(wire[Peer(e)]) = Bye]
          /\ UNCHANGED <<main, desc, sent, reset, faults>>
      BY <1>5 DEF ReadLine, RecvMoves
    <2>2. \A y \in Ends : /\ Live(y)' <=> Live(y)
                          /\ SendEndClosed(y)' <=> SendEndClosed(y)
      BY <2>1 DEF Live, SendEndClosed
    <2>3. CASE x = e
      <3>1. PICK s \in Seq(Messages), m \in Messages :
               s = shown[x] /\ m = Head(wire[Peer(x)])
        <4>1. PICK w \in Seq(Messages) : w = wire[Peer(x)] /\ w # << >>
          BY <2>1, <2>3, <1>p, <1>t
        <4>2. Head(w) \in Messages
          BY <4>1, HeadTailProperties
        <4> QED
          BY <4>1, <4>2, <1>t
      <3>2. /\ shown'[x] = Append(s, m) /\ recv'[x] = "check"
            /\ shouldStop'[x] <=> shouldStop[x] \/ m = Bye
        BY <3>1, <2>1, <2>3, <1>t
      <3>3. Said(shown'[x]) <=> Said(shown[x]) \/ m = Bye
        BY <3>1, <3>2, SaidAppend
      <3>4. shouldStop'[x] /\ (shouldStop[x] => StopReason(x))
               => StopReason(x)'
        BY <3>2, <3>3, <2>1, <2>3 DEF StopReason
      <3>5. main'[x] # "failed"
        BY <2>1, <2>3, PlaceFacts
      <3> QED
        BY <3>2, <3>4, <3>5, <2>1, <2>2, <1>p, <1>r DEF Reasons
    <2>4. CASE x # e
      <3>1. /\ recv'[x] = recv[x] /\ wire'[Peer(x)] = wire[Peer(x)]
            /\ shown'[x] = shown[x] /\ shouldStop'[x] = shouldStop[x]
        BY <2>1, <2>4, <1>p, <1>t
      <3> QED
        BY <3>1, <2>1, <2>2, <1>p, <1>r, ReasonsFrame
    <2> QED
      BY <2>3, <2>4
  <1>6. ASSUME NEW e \in Ends, ReadEnd(e) PROVE Reasons(x)'
    <2>1. /\ wire[Peer(e)] = << >> /\ SendEndClosed(Peer(e))
          /\ recv[e] = "select" /\ recv' = [recv EXCEPT ![e] = "done"]
          /\ shouldStop' = [shouldStop EXCEPT ![e] = TRUE]
          /\ UNCHANGED <<main, desc, wire, sent, shown, reset, faults>>
      BY <1>6 DEF ReadEnd, RecvMoves, link
    <2>2. \A y \in Ends : /\ Live(y)' <=> Live(y)
                          /\ SendEndClosed(y)' <=> SendEndClosed(y)
      BY <2>1 DEF Live, SendEndClosed
    <2>3. CASE x = e
      <3>1. StopReason(x)'
        BY <2>1, <2>2, <2>3, <1>p DEF StopReason
      <3>2. main'[x] # "failed" /\ shouldStop'[x]
        BY <2>1, <2>3, <1>t, PlaceFacts
      <3> QED
        BY <3>1, <3>2, <2>1, <2>2, <1>p, <1>r DEF Reasons
    <2>4. CASE x # e
      <3>1. recv'[x] = recv[x] /\ shouldStop'[x] = shouldStop[x]
        BY <2>1, <2>4, <1>t
      <3> QED
        BY <3>1, <2>1, <2>2, <1>p, <1>r, ReasonsFrame
    <2> QED
      BY <2>3, <2>4
  <1>7. ASSUME NEW e \in Ends, WriteQueued(e) \/ WriteLost(e)
        PROVE  Reasons(x)'
    <2>1. /\ UNCHANGED <<main, desc, recv, shouldStop, shown, faults>>
          /\ send[e] = "write" /\ desc[e] = "open"
          /\ \A y \in Ends : y # e => sent'[y] = sent[y]
      BY <1>7, WriteFacts, PlaceFacts
    <2>2. \A y \in Ends : /\ Live(y)' <=> Live(y)
                          /\ SendEndClosed(y)' <=> SendEndClosed(y)
      BY <2>1 DEF Live, SendEndClosed
    <2>3. \A y \in Ends : Said(sent[y]) => Said(sent'[y])
      <3>1. PICK s \in Seq(Messages), m \in Messages :
               s = sent[e] /\ sent'[e] = Append(s, m)
        BY <1>7, WriteFacts
      <3>2. Said(sent[e]) => Said(sent'[e])
        BY <3>1, SaidAppend
      <3> QED
        BY <3>2, <2>1
    <2>4. \A y \in Ends : y # e => wire'[y] = wire[y] /\ reset'[y] = reset[y]
      BY <1>7, <1>t DEF WriteQueued, WriteLost
    <2>5. SendEndClosed(Peer(x)) => wire'[Peer(x)] = wire[Peer(x)]
      BY <2>1, <2>4, <1>p DEF SendEndClosed
    <2>6. ASSUME x # e \/ reset'[x] = reset[x] PROVE Reasons(x)'
      BY <2>1, <2>2, <2>3, <2>4, <2>5, <2>6, <1>p, <1>r, ReasonsFrame
    <2>7. ASSUME x = e, reset'[x] # reset[x] PROVE Reasons(x)'
      <3>1. desc[Peer(x)] = "closed"
        BY <1>7, <2>7 DEF WriteQueued, WriteLost
      <3>2. ~Live(Peer(x)) /\ SendEndClosed(Peer(x))
        BY <3>1, <1>p, PlaceFacts DEF SendEndClosed
      <3>3. ~Said(sent[x])
        BY <2>1, <2>7 DEF ByeIsLast
      <3>4. faults = 0 => Said(sent[Peer(x)])
        <4>1. Reasons(Peer(x))
          BY <1>p
        <4> QED
          BY <4>1, <3>2, <3>3, <1>p DEF Reasons
      <3>5. StopReason(x) => StopReason(x)'
        BY <2>1, <2>2, <2>3, <2>5, <1>p DEF StopReason
      <3> QED
        BY <3>2, <3>4, <3>5, <2>1, <2>2, <2>3, <1>p, <1>r DEF Reasons
    <2> QED
      BY <2>6, <2>7
  <1>8. ASSUME NEW e \in Ends, ByeSent(e) PROVE Reasons(x)'
    <2>1. /\ send[e] = "bye" /\ shouldStop' = [shouldStop EXCEPT ![e] = TRUE]
          /\ UNCHANGED <<main, desc, recv, wire, sent, shown, reset, faults>>
      BY <1>8 DEF ByeSent, SendMoves, link
    <2>2. \A y \in Ends : /\ Live(y)' <=> Live(y)
                          /\ SendEndClosed(y)' <=> SendEndClosed(y)
      BY <2>1 DEF Live, SendEndClosed
    <2>3. CASE x = e
      <3>1. Said(sent[x]) /\ shouldStop'[x]
        BY <2>1, <2>3, <1>t DEF ByeIsLast
      <3>2. StopReason(x)'
        BY <3>1, <2>1 DEF StopReason
      <3> QED
        BY <3>1, <3>2, <2>1, <2>2, <1>p, <1>r DEF Reasons
    <2>4. CASE x # e
      <3>1. shouldStop'[x] = shouldStop[x]
        BY <2>1, <2>4, <1>t
      <3> QED
        BY <3>1, <2>1, <2>2, <1>p, <1>r, ReasonsFrame
    <2> QED
      BY <2>3, <2>4
  <1> QED
    BY <1>1, <1>2, <1>3, <1>4, <1>5, <1>6, <1>7, <1>8, Kinds

-----------------------------------------------------------------------------
(* The theorems.                                                           *)

(* The invariant holds in every state.                                     *)
LEMMA Invariance == Spec => []IInv
  <1>1. IInv /\ [Next]_vars => IInv'
    <2> SUFFICES ASSUME IInv, [Next]_vars PROVE IInv'
      OBVIOUS
    <2>1. Sane /\ \A e \in Ends : ByeIsLast(e) /\ Delivered(e) /\ Reasons(e)
      BY DEF IInv, Sane
    <2>2. Sane'
      BY <2>1, NextSane
    <2>3. ASSUME NEW e \in Ends
          PROVE  ByeIsLast(e)' /\ Delivered(e)' /\ Reasons(e)'
      BY <2>1, ByeKept, DeliveredKept, ReasonsKept
    <2> QED
      BY <2>2, <2>3 DEF IInv, Sane
  <1> QED
    BY <1>1, InitIInv, PTL DEF Spec

(* When an endpoint of chat-fifo.c or chat-socket.c has read BYE, it has   *)
(* shown all that the other one sent, in order, whatever the lines and the *)
(* faults: sendMessage() sends nothing after BYE, and the main thread      *)
(* closes the descriptors only when both threads were joined.              *)
THEOREM NothingIsLostBeforeBye == Spec => []NothingLostBeforeBye
  <1>1. IInv => NothingLostBeforeBye
    BY DEF IInv, Delivered, Said, NothingLostBeforeBye
  <1> QED
    BY <1>1, Invariance, PTL

(* If nothing outside the two programs fails, an endpoint that chats only  *)
(* ends in an error helper or by SIGPIPE after the other one said BYE: a   *)
(* channel is closed, or reset, by one that was told to stop.              *)
THEOREM FailureFollowsBye == Spec => []FailsOnlyAfterBye
  <1>1. IInv => FailsOnlyAfterBye
    BY DEF IInv, Reasons, Said, FailsOnlyAfterBye
  <1> QED
    BY <1>1, Invariance, PTL
=============================================================================
