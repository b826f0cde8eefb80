------------------------------ MODULE CopyLoop ------------------------------
(***************************************************************************)
(* The block copy loop of two programs: lab06 copy.c copies a file, and    *)
(* the Logger process of the lab09 Logger server copies to log.txt what    *)
(* the threads of the Server write to the pipe behind their stderr.        *)
(*                                                                         *)
(* A byte is its position in the source, so that a byte lost, repeated or  *)
(* moved shows in the destination; bytes the destination had before are 0. *)
(* A call interrupted by a signal (EINTR) is repeated and changes nothing. *)
(***************************************************************************)
EXTENDS Integers, Sequences

CONSTANTS BlockSize,  \* block_size, sizeof(buf)
          LineBytes,  \* bytes of a line of the Server's stderr
          Handlers,   \* handler threads of the Server
          Signals,    \* somebody may send signals to the two processes
          MaxSource,  \* bound: size of the file to copy
          MaxOld      \* bound: size of an old destination

Main    == "main"
Threads == Handlers \cup {Main}

ASSUME CopyAssumption ==
    /\ BlockSize \in Nat \ {0} /\ LineBytes \in Nat \ {0}
    /\ Main \notin Handlers
    /\ Signals \in BOOLEAN
    /\ MaxSource \in Nat /\ MaxOld \in Nat

VARIABLES program,  \* "copy" or "logger"
          supply,   \* bytes in the source: size of the file, written to the pipe
          taken,    \* bytes read from it
          buf,      \* bytes of the block
          written,  \* written_bytes: bytes of the block already written
          old,      \* size of the destination before
          dest,     \* bytes of the destination
          offset,   \* where the next write goes
          pc,       \* what the program that copies does next
          logger_shouldStop,
          thread    \* what each thread of the Server does next

block  == <<taken, buf, written, dest, offset>>
vars   == <<program, supply, block, old, pc, logger_shouldStop, thread>>

MinOf(a, b) == IF a <= b THEN a ELSE b
MaxOf(a, b) == IF a <= b THEN b ELSE a

ServerGone == thread[Main] = "gone"

\* The destination is opened without O_TRUNC (copy) or with O_APPEND (logger);
\* either way the bytes it has stay.  In the logger fork() has just returned.
Init == /\ program \in {"copy", "logger"}
        /\ supply \in IF program = "copy" THEN 0 .. MaxSource ELSE {0}
        /\ taken = 0
        /\ buf = << >>
        /\ written = 0
        /\ old \in 0 .. MaxOld
        /\ dest = [i \in 1 .. old |-> 0]
        /\ offset = IF program = "copy" THEN 0 ELSE old
        /\ pc = IF program = "copy" THEN "read" ELSE "close"
        /\ logger_shouldStop = FALSE
        /\ thread = [t \in Threads |-> IF program = "copy" THEN "gone"
                                       ELSE IF t = Main THEN "startup"
                                       ELSE "unborn"]
-----------------------------------------------------------------------------
(* performCopyBetweenDescriptors, and the main loop of startLogger         *)

\* How many bytes one read() may return: copy asks again for what is missing
\* of the block, the logger takes what the pipe has.
ReadSizes ==
    LET most == MinOf(BlockSize - Len(buf), supply - taken)
    IN  IF program = "copy" THEN 1 .. most ELSE {most} \ {0}

ReadSome(n) ==
    /\ pc = "read"
    /\ n \in ReadSizes
    /\ buf' = buf \o [i \in 1 .. n |-> taken + i]
    /\ taken' = taken + n
    /\ pc' = IF program = "logger" \/ Len(buf') = BlockSize THEN "write"
                                                            ELSE "read"
    /\ UNCHANGED <<program, supply, written, old, dest, offset,
                   logger_shouldStop, thread>>

\* Mutation: at the end of the file the block read so far is forgotten.
ReadEndAtOnce ==
    /\ pc = "read"
    /\ taken = supply
    /\ ServerGone
    /\ pc' = "eof"
    /\ UNCHANGED <<program, supply, block, old, logger_shouldStop, thread>>

\* Mutation: the logger keeps its own write end of the pipe open.
ReadEndOfFile ==
    /\ pc = "read"
    /\ taken = supply
    /\ program = "copy"
    /\ pc' = IF buf = << >> THEN "eof" ELSE "write"
    /\ UNCHANGED <<program, supply, block, old, logger_shouldStop, thread>>

\* read() returns 0: the end of the file, or a pipe nobody can write to.
ReadEnd ==
    /\ pc = "read"
    /\ taken = supply
    /\ ServerGone
    /\ pc' = IF buf = << >> THEN "eof" ELSE "write"
    /\ UNCHANGED <<program, supply, block, old, logger_shouldStop, thread>>

\* dest with bytes at the offset.
Overwrite(bytes) ==
    [i \in 1 .. MaxOf(Len(dest), offset + Len(bytes)) |->
        IF i \in offset + 1 .. offset + Len(bytes) THEN bytes[i - offset]
                                                   ELSE dest[i]]

\* write() accepted n bytes of source; the block is done when all were.
WriteFrom(bytes, n) ==
    LET done == written + n = Len(buf)
    IN  /\ pc = "write"
        /\ dest' = Overwrite(bytes)
        /\ offset' = offset + n
        /\ written' = IF done THEN 0 ELSE written + n
        /\ buf' = IF done THEN << >> ELSE buf
        /\ pc' = IF ~done THEN "write"
                 ELSE IF program = "copy" THEN "read" ELSE "check"
        /\ UNCHANGED <<program, supply, taken, old, logger_shouldStop, thread>>

\* Mutation: write(fd, buf, bytes_left) after a partial write.
WriteFromStart(n) ==
    /\ n \in 1 .. Len(buf) - written
    /\ WriteFrom(SubSeq(buf, 1, n), n)

WriteSome(n) ==
    /\ n \in 1 .. Len(buf) - written
    /\ WriteFrom(SubSeq(buf, written + 1, written + n), n)

Ended == {"closed", "dead"}

\* read() or write() fails: ERROR_HELPER.
CallFails ==
    /\ pc \in {"read", "write"}
    /\ pc' = "dead"
    /\ UNCHANGED <<program, supply, block, old, logger_shouldStop, thread>>

\* The descriptors are closed and the process exits.
CloseFiles ==
    /\ pc \in {"eof", "told"}
    /\ pc' = "closed"
    /\ UNCHANGED <<program, supply, block, old, logger_shouldStop, thread>>
-----------------------------------------------------------------------------
(* startLogger around its loop                                             *)

LoggerMoves(from, to) ==
    /\ pc = from
    /\ pc' = to
    /\ UNCHANGED <<program, supply, block, old, thread>>

CloseWriteEnd == LoggerMoves("close", "sigaction") /\ UNCHANGED logger_shouldStop
SetHandlers   == LoggerMoves("sigaction", "reset") /\ UNCHANGED logger_shouldStop
ResetFlag     == LoggerMoves("reset", "read") /\ logger_shouldStop' = FALSE
CheckFlag     == /\ LoggerMoves("check", IF logger_shouldStop THEN "told" ELSE "read")
                 /\ UNCHANGED logger_shouldStop

\* SIGTERM or SIGINT reaches the logger: deadly before sigaction(), afterwards
\* signalHandlerForLoggerProcess.
Signalled ==
    IF pc \in {"close", "sigaction"}
    THEN pc' = "dead" /\ UNCHANGED logger_shouldStop
    ELSE /\ logger_shouldStop' = (logger_shouldStop \/ pc \notin Ended)
         /\ UNCHANGED pc
-----------------------------------------------------------------------------
(* Threads of the Server                                                   *)
AllGone == [t \in Threads |-> "gone"]

\* fprintf(stderr): a line goes into the pipe at once and whole, and without
\* a reader the write is deadly (SIGPIPE).
LogLine(t, from, to) ==
    /\ thread[t] = from
    /\ IF pc \in Ended
       THEN thread' = AllGone /\ UNCHANGED supply
       ELSE thread' = [thread EXCEPT ![t] = to] /\ supply' = supply + LineBytes
    /\ UNCHANGED <<program, block, old, pc, logger_shouldStop>>

ThreadMoves(t, from, to) ==
    /\ thread[t] = from
    /\ thread' = [thread EXCEPT ![t] = to]
    /\ UNCHANGED <<program, supply, block, old, pc, logger_shouldStop>>

\* main closes its read end and puts the pipe behind stderr; a failure on the
\* way is reported on the old stderr.
Redirect    == ThreadMoves(Main, "startup", "boot")
StartFails  == ThreadMoves(Main, "startup", "kill")
BootMessage == LogLine(Main, "boot", "accept")

\* accept(), then the message about it.
Accepted    == LogLine(Main, "accept", "create")
CreateThread(h) ==
    /\ thread[Main] = "create"
    /\ thread[h] = "unborn"
    /\ thread' = [thread EXCEPT ![Main] = "accept", ![h] = "start"]
    /\ UNCHANGED <<program, supply, block, old, pc, logger_shouldStop>>

\* connection_handler: one message, the echo loop until QUIT, one message.
HandlerStarts(h) == LogLine(h, "start", "echo")
QuitReceived(h)  == ThreadMoves(h, "echo", "end")
HandlerEnds(h)   == LogLine(h, "end", "over")

\* SRV_ERROR_HELPER_WITH_ACTIVE_LOGGER: a message, SIGTERM to the logger, and
\* exit() for all threads; the others run on until then.
CallFailed(t) == \/ t = Main /\ \E s \in {"accept", "create"} : LogLine(t, s, "kill")
                 \/ t # Main /\ \E s \in {"echo", "end"} : LogLine(t, s, "kill")
KillLogger(t) ==
    /\ thread[t] = "kill"
    /\ thread' = [thread EXCEPT ![t] = "exit"]
    /\ Signalled
    /\ UNCHANGED <<program, supply, block, old>>
ExitServer(t) ==
    /\ thread[t] = "exit"
    /\ thread' = AllGone
    /\ UNCHANGED <<program, supply, block, old, pc, logger_shouldStop>>

\* CTRL-C reaches both processes, the Server dies of it; SIGKILL to the
\* Server; SIGTERM to the logger alone.
CtrlC      == /\ ~ServerGone
              /\ Signals
              /\ thread' = AllGone
              /\ Signalled
              /\ UNCHANGED <<program, supply, block, old>>
ServerDies == /\ ~ServerGone
              /\ Signals
              /\ thread' = AllGone
              /\ UNCHANGED <<program, supply, block, old, pc, logger_shouldStop>>
LoggerTold == /\ program = "logger"
              /\ Signals
              /\ Signalled
              /\ UNCHANGED <<program, supply, block, old, thread>>
-----------------------------------------------------------------------------
CopyStep == \/ \E n \in 1 .. BlockSize : ReadSome(n) \/ WriteSome(n)
            \/ ReadEnd \/ CloseFiles
            \/ CloseWriteEnd \/ SetHandlers \/ ResetFlag \/ CheckFlag

ThreadStep(t) == \/ HandlerStarts(t) \/ HandlerEnds(t)
                 \/ KillLogger(t) \/ ExitServer(t)

ServerStep == \/ Redirect \/ StartFails \/ BootMessage \/ Accepted
              \/ \E h \in Handlers : CreateThread(h) \/ QuitReceived(h)
              \/ \E t \in Threads : ThreadStep(t) \/ CallFailed(t)

Next == CopyStep \/ CallFails \/ ServerStep \/ CtrlC \/ ServerDies \/ LoggerTold

Spec == Init /\ [][Next]_vars

\* The process that copies is scheduled, and no call is interrupted for ever;
\* a thread of the Server that is not waiting for a client goes on.
FairSpec == /\ Spec
            /\ WF_vars(CopyStep)
            /\ \A t \in Threads : WF_vars(ThreadStep(t))
-----------------------------------------------------------------------------
TypeOK ==
    /\ program \in {"copy", "logger"}
    /\ supply \in Nat /\ taken \in 0 .. supply
    /\ buf \in Seq(Nat) /\ Len(buf) <= BlockSize
    /\ written \in 0 .. Len(buf)
    /\ old \in Nat /\ offset \in Nat
    /\ dest \in Seq(Nat)
    /\ pc \in {"close", "sigaction", "reset", "read", "write", "check", "eof",
               "told", "closed", "dead"}
    /\ logger_shouldStop \in BOOLEAN
    /\ thread \in [Threads -> {"startup", "boot", "accept", "create", "kill",
                               "exit", "unborn", "start", "echo", "end",
                               "over", "gone"}]

\* What the destination holds when n bytes were copied.  Without O_TRUNC a
\* longer old file keeps its tail, although copy.c says it overwrites the file.
Copied(n) ==
    LET start == IF program = "copy" THEN 0 ELSE old
    IN  [i \in 1 .. MaxOf(old, start + n) |->
            IF i \in start + 1 .. start + n THEN i - start ELSE 0]

(* performCopyBetweenDescriptors and startLogger: however read() and       *)
(* write() split the data, the destination holds the bytes read so far and *)
(* not waiting in the block, each once, in order and in its place, and     *)
(* what an old destination had outside of them.                            *)
CopiedInOrder == dest = Copied(taken - (Len(buf) - written))

(* When the loop ends because read() returned 0, every byte of the source  *)
(* was copied, those of an incomplete last block too, and everything the   *)
(* Server wrote before it died.                                            *)
NothingLeftAtEnd == pc = "eof" => dest = Copied(supply)

(* "When we reach this point and the flag is true there are no more data   *)
(* to read" (server.c).                                                    *)
NoneLeftWhenTold == pc = "check" /\ logger_shouldStop => taken = supply

(* A copy ends, and the logger does when the Server is gone, whether it    *)
(* heard a signal, lost it or never got one: it reads the end of the pipe. *)
LoopsEnd == ServerGone ~> pc \in Ended
=============================================================================
