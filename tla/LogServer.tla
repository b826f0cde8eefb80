----------------------------- MODULE LogServer ------------------------------
(***************************************************************************)
(* lab11 ES-MT-Logger: a multithreaded echo server whose threads record    *)
(* what they do with my_log().  An entry is a string allocated by my_log,  *)
(* passed through a circular buffer, written to the log file and freed by  *)
(* the logger thread.  An entry is here the pair of the thread that logs   *)
(* it and its number among the entries of that thread.                     *)
(***************************************************************************)
EXTENDS Integers, FiniteSets

CONSTANTS Clients,        \* connections, each with its handler thread
          LogBufferSize,  \* LOG_BUFFER_SIZE
          MaxMessages,    \* bound: messages other than QUIT, of all clients
          Failures        \* clients may vanish, pthread_create may fail

Main == "main"
ASSUME LogAssumption ==
    /\ IsFiniteSet(Clients) /\ Main \notin Clients
    /\ LogBufferSize \in Nat \ {0} /\ MaxMessages \in Nat
    /\ Failures \in BOOLEAN

Callers == Clients \cup {Main}
Slots   == 0 .. LogBufferSize - 1

VARIABLES log_buffer, fill_count, empty_count, write_mutex,
          read_index, write_index,
          pc,           \* what each caller of my_log does next
          stage,        \* where in my_log it is, "none" outside
          entries,      \* my_log calls of each caller so far
          client_desc,  \* the connection main has accepted
          received,     \* such messages that handlers have read
          quitting,     \* handlers whose last message is the quit command
          logger,       \* what the logger thread does next
          log_msg,      \* the entry it holds
          log,          \* the log file: the last entry of each caller in it
          heap,         \* entries allocated and not freed
          server        \* "up", or "down" after exit()

semaphores == <<fill_count, empty_count, write_mutex>>
session    == <<client_desc, received, quitting>>
reader     == <<read_index, logger, log_msg, log>>
vars == <<log_buffer, semaphores, write_index, pc, stage, entries, session,
          reader, heap, server>>

Nothing == <<Main, 0>>

NextSlot(i) == (i + 1) % LogBufferSize

Init == /\ log_buffer = [i \in Slots |-> Nothing]
        /\ fill_count = 0
        /\ empty_count = LogBufferSize
        /\ write_mutex = 1
        /\ read_index = 0
        /\ write_index = 0
        /\ pc = [t \in Callers |-> IF t = Main THEN "accept" ELSE "unborn"]
        /\ stage = [t \in Callers |-> "none"]
        /\ entries = [t \in Callers |-> 0]
        /\ client_desc = Main
        /\ received = 0
        /\ quitting = {}
        /\ logger = "wait"
        /\ log_msg = Nothing
        /\ log = [t \in Callers |-> 0]
        /\ heap = {}
        /\ server = "up"
-----------------------------------------------------------------------------
(* my_log                                                                  *)

\* The call: control moves to its line and the string is allocated.
CallLog(t, from, to) ==
    /\ server = "up"
    /\ pc[t] = from
    /\ pc' = [pc EXCEPT ![t] = to]
    /\ stage' = [stage EXCEPT ![t] = "wait_empty"]
    /\ entries' = [entries EXCEPT ![t] = @ + 1]
    /\ heap' = heap \cup {<<t, entries[t] + 1>>}
    /\ UNCHANGED <<log_buffer, semaphores, write_index, reader, server>>

\* Where control goes when the call returns.
After(label) == CASE label = "log_accepted"  -> "create"
                  [] label = "log_created"   -> "accept"
                  [] label = "log_message"   -> "answer"
                  [] label = "log_completed" -> "ended"

Move(t, from, to) == /\ server = "up"
                     /\ stage[t] = from
                     /\ stage' = [stage EXCEPT ![t] = to]
                     /\ UNCHANGED <<entries, session, reader, heap, server>>

\* Mutation: no sem_wait on empty_count.
SkipWaitEmpty(t) ==
    /\ Move(t, "wait_empty", "wait_mutex")
    /\ UNCHANGED <<log_buffer, semaphores, write_index, pc>>

WaitEmpty(t) ==
    /\ Move(t, "wait_empty", "wait_mutex")
    /\ empty_count > 0
    /\ empty_count' = empty_count - 1
    /\ UNCHANGED <<log_buffer, fill_count, write_mutex, write_index, pc>>

\* Mutation: no sem_wait on write_mutex.
SkipWaitMutex(t) ==
    /\ Move(t, "wait_mutex", "write")
    /\ UNCHANGED <<log_buffer, semaphores, write_index, pc>>

WaitMutex(t) ==
    /\ Move(t, "wait_mutex", "write")
    /\ write_mutex > 0
    /\ write_mutex' = write_mutex - 1
    /\ UNCHANGED <<log_buffer, fill_count, empty_count, write_index, pc>>

WriteSlot(t) ==
    /\ Move(t, "write", "advance")
    /\ log_buffer' = [log_buffer EXCEPT ![write_index] = <<t, entries[t]>>]
    /\ UNCHANGED <<semaphores, write_index, pc>>

AdvanceWrite(t) ==
    /\ Move(t, "advance", "post_mutex")
    /\ write_index' = NextSlot(write_index)
    /\ UNCHANGED <<log_buffer, semaphores, pc>>

PostMutex(t) ==
    /\ Move(t, "post_mutex", "post_fill")
    /\ write_mutex' = write_mutex + 1
    /\ UNCHANGED <<log_buffer, fill_count, empty_count, write_index, pc>>

PostFill(t) ==
    /\ Move(t, "post_fill", "none")
    /\ fill_count' = fill_count + 1
    /\ pc' = [pc EXCEPT ![t] = After(@)]
    /\ UNCHANGED <<log_buffer, empty_count, write_mutex, write_index>>

my_log(t) == \/ WaitEmpty(t) \/ WaitMutex(t) \/ WriteSlot(t)
             \/ AdvanceWrite(t) \/ PostMutex(t) \/ PostFill(t)
-----------------------------------------------------------------------------
(* logger                                                                  *)
LoggerMoves(from, to) ==
    /\ server = "up"
    /\ logger = from
    /\ logger' = to
    /\ UNCHANGED <<log_buffer, write_mutex, write_index, pc, stage, entries,
                   session, server>>

WaitFill ==
    /\ LoggerMoves("wait", "load")
    /\ fill_count > 0
    /\ fill_count' = fill_count - 1
    /\ UNCHANGED <<empty_count, read_index, log_msg, log, heap>>

LoadEntry ==
    /\ LoggerMoves("load", "write")
    /\ log_msg' = log_buffer[read_index]
    /\ read_index' = NextSlot(read_index)
    /\ UNCHANGED <<fill_count, empty_count, log, heap>>

WriteFile ==
    /\ LoggerMoves("write", "free")
    /\ log' = [log EXCEPT ![log_msg[1]] = log_msg[2]]
    /\ UNCHANGED <<fill_count, empty_count, read_index, log_msg, heap>>

\* Mutation: the string is not freed.
LeakEntry ==
    /\ LoggerMoves("free", "post")
    /\ UNCHANGED <<fill_count, empty_count, read_index, log_msg, log, heap>>

FreeEntry ==
    /\ LoggerMoves("free", "post")
    /\ heap' = heap \ {log_msg}
    /\ UNCHANGED <<fill_count, empty_count, read_index, log_msg, log>>

\* Mutation: no sem_post on empty_count.
ForgetPostEmpty ==
    /\ LoggerMoves("post", "wait")
    /\ UNCHANGED <<fill_count, empty_count, read_index, log_msg, log, heap>>

PostEmpty ==
    /\ LoggerMoves("post", "wait")
    /\ empty_count' = empty_count + 1
    /\ UNCHANGED <<fill_count, read_index, log_msg, log, heap>>

LoggerStep == WaitFill \/ LoadEntry \/ WriteFile \/ FreeEntry \/ PostEmpty
-----------------------------------------------------------------------------
(* main                                                                    *)
Accept(c) ==
    /\ CallLog(Main, "accept", "log_accepted")
    /\ pc[c] = "unborn"
    /\ client_desc' = c
    /\ UNCHANGED <<received, quitting>>

\* pthread_create, then the call that logs it: the new thread runs already.
CreateHandler ==
    /\ server = "up"
    /\ pc[Main] = "create"
    /\ pc' = [pc EXCEPT ![client_desc] = "welcome", ![Main] = "created"]
    /\ client_desc' = Main
    /\ UNCHANGED <<log_buffer, semaphores, write_index, stage, entries,
                   received, quitting, reader, heap, server>>

LogCreated == CallLog(Main, "created", "log_created") /\ UNCHANGED session

\* PTHREAD_ERROR_HELPER or ERROR_HELPER in any thread: exit() ends them all.
ExitServer ==
    /\ server' = "down"
    /\ UNCHANGED <<log_buffer, semaphores, write_index, pc, stage, entries,
                   session, reader, heap>>

CreateFails == Failures /\ server = "up" /\ pc[Main] = "create" /\ ExitServer
-----------------------------------------------------------------------------
(* connection_handler                                                      *)
HandlerMoves(c, from, to) ==
    /\ server = "up"
    /\ pc[c] = from
    /\ pc' = [pc EXCEPT ![c] = to]
    /\ UNCHANGED <<log_buffer, semaphores, write_index, stage, entries,
                   session, reader, heap, server>>

SendWelcome(c) == HandlerMoves(c, "welcome", "recv")

\* A message is logged before the handler looks at it.
RecvMessage(c) ==
    /\ CallLog(c, "recv", "log_message")
    /\ received < MaxMessages
    /\ received' = received + 1
    /\ UNCHANGED <<client_desc, quitting>>

RecvQuit(c) ==
    /\ CallLog(c, "recv", "log_message")
    /\ quitting' = quitting \cup {c}
    /\ UNCHANGED <<client_desc, received>>

\* recv returns 0, "Connection closed unexpectedly!", or a send fails.
ClientVanishes(c) ==
    /\ Failures
    /\ server = "up"
    /\ pc[c] \in {"welcome", "recv", "answer"}
    /\ ExitServer

SendBack(c)    == c \notin quitting /\ HandlerMoves(c, "answer", "recv")
CloseSocket(c) == c \in quitting /\ HandlerMoves(c, "answer", "closed")

LogCompleted(c) ==
    CallLog(c, "closed", "log_completed") /\ UNCHANGED session
-----------------------------------------------------------------------------
MainStep == \/ \E c \in Clients : Accept(c)
            \/ CreateHandler \/ LogCreated \/ my_log(Main)

HandlerStep(c) == \/ SendWelcome(c) \/ RecvMessage(c) \/ RecvQuit(c)
                  \/ SendBack(c) \/ CloseSocket(c) \/ LogCompleted(c)
                  \/ my_log(c)

\* The server is down, or idle: nothing to log and nobody left to serve.
Idle == /\ \/ server = "down"
           \/ /\ \A c \in Clients : pc[c] = "ended"
              /\ pc[Main] = "accept" /\ logger = "wait" /\ fill_count = 0
        /\ UNCHANGED vars

Next == \/ MainStep \/ CreateFails \/ LoggerStep
        \/ \E c \in Clients : HandlerStep(c) \/ ClientVanishes(c)
        \/ Idle

Spec == Init /\ [][Next]_vars

\* Every thread that is not blocked runs.
Fairness == /\ WF_vars(MainStep) /\ WF_vars(LoggerStep)
            /\ \A c \in Clients : WF_vars(HandlerStep(c))

FairSpec == Spec /\ Fairness
-----------------------------------------------------------------------------
Stages == {"none", "wait_empty", "wait_mutex", "write", "advance",
           "post_mutex", "post_fill"}

Entries == {<<t, n>> : t \in Callers, n \in 0 .. MaxMessages + 2 +
                                            2 * Cardinality(Clients)}

TypeOK ==
    /\ log_buffer \in [Slots -> Entries]
    /\ fill_count \in 0 .. LogBufferSize
    /\ empty_count \in 0 .. LogBufferSize
    /\ write_mutex \in {0, 1}
    /\ read_index \in Slots /\ write_index \in Slots
    /\ pc \in [Callers -> {"accept", "log_accepted", "create", "created",
                           "log_created", "unborn", "welcome", "recv",
                           "log_message", "answer", "closed",
                           "log_completed", "ended"}]
    /\ stage \in [Callers -> Stages]
    /\ entries \in [Callers -> Nat]
    /\ client_desc \in Callers
    /\ received \in 0 .. MaxMessages
    /\ quitting \subseteq Clients
    /\ logger \in {"wait", "load", "write", "free", "post"}
    /\ log_msg \in Entries
    /\ log \in [Callers -> Nat]
    /\ heap \subseteq Entries
    /\ server \in {"up", "down"}

\* Entries between read_index and write_index.
Waiting == fill_count + (IF logger = "load" THEN 1 ELSE 0)
           + Cardinality({t \in Callers :
                            stage[t] \in {"post_mutex", "post_fill"}})
Buffered == {log_buffer[(read_index + k) % LogBufferSize] :
               k \in 0 .. Waiting - 1}

(* The strings allocated are exactly those some thread still needs: one    *)
(* per call of my_log that has not stored it, those waiting in the buffer, *)
(* and the one the logger is writing.  Nothing is leaked, freed twice or   *)
(* used after it was freed.                                                *)
HeapExact ==
    heap = {<<t, entries[t]>> : t \in {u \in Callers : stage[u] \in
                {"wait_empty", "wait_mutex", "write", "advance"}}}
           \cup Buffered
           \cup (IF logger \in {"write", "free"} THEN {log_msg} ELSE {})

(* No entry is overwritten before it is read: all the entries waiting are  *)
(* different, whatever threads compete for the slots.                      *)
NoneOverwritten == Cardinality(Buffered) = Waiting

(* The log file gains the entries of a thread one by one, in the order the *)
(* thread made them, none missing and none twice.                          *)
LoggedInOrder ==
    [][\A t \in Callers : log'[t] \in {log[t], log[t] + 1}]_vars

(* "The items that are produced and eventually consumed": what a thread    *)
(* has passed to my_log is in the log file at some later time, unless      *)
(* exit() ends the server before.  A full buffer blocks nobody for good.   *)
ConsumedWhileUp ==
    \A t \in Callers :
        log[t] < entries[t] ~> log[t] = entries[t] \/ server = "down"
=============================================================================
