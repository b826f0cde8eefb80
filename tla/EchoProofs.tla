----------------------------- MODULE EchoProofs -----------------------------
(***************************************************************************)
(* The echo services without a limit: the servers of lab08 and lab06, and  *)
(* the client and the server of lab09 that talk over FIFOs.  For any number*)
(* of clients, restarts and failures: a handler welcomes its own client by *)
(* name, although main reuses the buffer the address arrived in; what a    *)
(* client of the FIFOs takes for its answer is the line it sent; and a     *)
(* server that no signal kills leaves no FIFO behind.                      *)
(*                                                                         *)
(* EchoServers and EchoFIFO have no state in common: this module is about  *)
(* each of their specifications, Spec and FIFOSpec, on its own.            *)
(***************************************************************************)
EXTENDS EchoServers, EchoFIFO, FiniteSetTheorems, SequenceTheorems, TLAPS

-----------------------------------------------------------------------------
(* The servers (EchoServers).                                              *)

ServerLabels == {"outside", "queued", "parse", "welcome", "recv", "echo",
                 "close", "ended", "failed"}
ClientLabels == {"off", "welcome", "input", "answer", "empty", "bye", "gone",
                 "reset"}

(* Types, and the queue: main's connection and those that wait for it are  *)
(* different ones and have no handler; a client that is off has none.      *)
ServersConsistent ==
    /\ program \in {"base", "multiprocess", "multithread", "time"}
    /\ main \in {"accept", "start", "serving", "close", "memset", "calloc",
                 "exited"}
    /\ client_desc \in Clients \cup {None}
    /\ backlog \in Seq(Clients)
    /\ handler \in [Clients -> ServerLabels]
    /\ client \in [Clients -> ClientLabels]
    /\ \A k \in 1 .. Len(backlog) : handler[backlog[k]] = "queued"
    /\ \A k, l \in 1 .. Len(backlog) : backlog[k] = backlog[l] => k = l
    /\ main = "start" =>
          /\ client_desc \in Clients
          /\ handler[client_desc] = "queued"
          /\ \A k \in 1 .. Len(backlog) : backlog[k] # client_desc
    /\ \A c \in Clients : client[c] = "off" => handler[c] = "outside"

\* Connections that main has started a handler for, or that ended with main.
Begun == {c \in Clients : handler[c] \notin {"outside", "queued"}}

(* There is a buffer for every connection: main takes a new one only after *)
(* it started a handler, and never goes back to one.                       *)
BuffersSuffice ==
    /\ client_addr \in Buffers
    /\ client_addr <= Cardinality(Begun)
    /\ main = "calloc" => client_addr < Cardinality(Begun)

(* The address a handler has, or will find, is that of its client: a       *)
(* thread that has not looked yet was given a buffer main has left behind, *)
(* or will leave before it accepts again; a child and main have their own. *)
AddressesRight ==
    /\ content \in [Buffers -> Clients \cup {None}]
    /\ args \in [Clients -> Buffers]
    /\ address \in [Clients -> Clients \cup {None}]
    /\ main = "start" => content[client_addr] = client_desc
    /\ main \in {"serving", "close", "memset"} => ~Threads
    /\ main = "calloc" => Threads
    /\ \A c \in Clients : handler[c] = "parse" =>
          IF Threads
          THEN /\ content[args[c]] = c
               /\ \/ args[c] < client_addr
                  \/ args[c] = client_addr /\ main = "calloc"
          ELSE address[c] = c
    /\ \A c \in Clients : handler[c] \in {"welcome", "recv", "echo"} =>
          address[c] = c

ServersInv == ServersConsistent /\ BuffersSuffice /\ AddressesRight

(* Handlers that begin never leave the set, and there is a buffer for each *)
(* of them.                                                                *)
LEMMA BegunBounded ==
    /\ IsFiniteSet(Begun) /\ Cardinality(Begun) \in Nat
    /\ Cardinality(Clients) \in Nat
    /\ Cardinality(Begun) <= Cardinality(Clients)
  <1>1. Begun \subseteq Clients
    BY DEF Begun
  <1> QED
    BY <1>1, ServersAssumption, FS_Subset, FS_CardinalityType

(* The same for the connections that have begun after the step.            *)
LEMMA BegunGrows ==
    ASSUME handler \in [Clients -> ServerLabels],
           \A d \in Clients : handler'[d] \in {"outside", "queued"} =>
                                 handler[d] \in {"outside", "queued"}
    PROVE  /\ IsFiniteSet(Begun') /\ Cardinality(Begun') \in Nat
           /\ Cardinality(Begun) <= Cardinality(Begun')
           /\ Cardinality(Begun') <= Cardinality(Clients)
  <1>1. Begun' \subseteq Clients /\ Begun \subseteq Begun'
    BY DEF Begun
  <1> QED
    BY <1>1, ServersAssumption, FS_Subset, FS_CardinalityType

(* A step that changes neither main nor its buffer keeps the bound.        *)
LEMMA BuffersKept ==
    ASSUME BuffersSuffice, handler \in [Clients -> ServerLabels],
           UNCHANGED client_addr, main' = "calloc" => main = "calloc",
           \A d \in Clients : handler'[d] \in {"outside", "queued"} =>
                                 handler[d] \in {"outside", "queued"}
    PROVE  BuffersSuffice'
  <1>1. /\ Cardinality(Begun') \in Nat /\ Cardinality(Begun) \in Nat
        /\ Cardinality(Begun) <= Cardinality(Begun')
    BY BegunGrows, BegunBounded
  <1>2. client_addr \in Nat
    BY BegunBounded DEF BuffersSuffice, Buffers
  <1>3. Buffers' = Buffers
    BY DEF Buffers
  <1> QED
    BY <1>1, <1>2, <1>3 DEF BuffersSuffice

-----------------------------------------------------------------------------
(* Before the first connection.                                            *)
LEMMA ServersInitInv == Init => ServersInv
  <1> SUFFICES ASSUME Init PROVE ServersInv
    OBVIOUS
  <1>1. ServersConsistent
    BY DEF Init, ServersConsistent, ServerLabels, ClientLabels,
           None, None
  <1>2. 0 \in Buffers
    BY BegunBounded DEF Buffers
  <1>3. BuffersSuffice
    BY <1>2, BegunBounded DEF Init, BuffersSuffice
  <1>4. AddressesRight
    BY <1>2 DEF Init, AddressesRight, None, None
  <1> QED
    BY <1>1, <1>3, <1>4 DEF ServersInv

(* A client step touches nothing that main and the handlers use.           *)
LEMMA ClientStepInv ==
    ASSUME ServersInv, client' \in [Clients -> ClientLabels],
           \A d \in Clients : client'[d] = "off" => client[d] = "off",
           UNCHANGED <<program, main, client_desc, backlog, client_addr,
                       content, handler, args, address>>
    PROVE  ServersInv'
  <1>1. ServersConsistent'
    BY DEF ServersInv, ServersConsistent
  <1>2. BuffersSuffice'
    BY BuffersKept DEF ServersInv, ServersConsistent
  <1>3. AddressesRight'
    BY DEF ServersInv, AddressesRight, Buffers, Threads
  <1> QED
    BY <1>1, <1>2, <1>3 DEF ServersInv

\* The steps of a handler after the first.
Later == {"welcome", "recv", "echo", "close", "ended", "failed"}

(* A step of one handler: main and the queue stay as they are, and the     *)
(* handler has the right address when it goes on.                          *)
LEMMA HandlerStepInv ==
    ASSUME ServersInv, NEW c \in Clients, NEW to \in Later,
           Alive(c), handler' = [handler EXCEPT ![c] = to],
           client' \in [Clients -> ClientLabels],
           \A d \in Clients : client'[d] = "off" => client[d] = "off",
           NEW a \in Clients \cup {None},
           address' = [address EXCEPT ![c] = a],
           to \in {"welcome", "recv", "echo"} => a = c,
           UNCHANGED <<program, main, client_desc, backlog, client_addr,
                       content, args>>
    PROVE  ServersInv'
  <1>1. /\ handler \in [Clients -> ServerLabels]
        /\ \A k \in 1 .. Len(backlog) : backlog[k] \in Clients
        /\ address \in [Clients -> Clients \cup {None}]
    BY DEF ServersInv, ServersConsistent, AddressesRight
  <1>2. handler[c] \notin {"outside", "queued"} /\ to \in ServerLabels
    BY DEF Alive, Later, ServerLabels
  <1>3. \A d \in Clients : d # c => handler'[d] = handler[d] /\ address'[d] = address[d]
    BY <1>1
  <1>4. handler'[c] = to /\ address'[c] = a
    BY <1>1
  <1>5. handler' \in [Clients -> ServerLabels] /\ address' \in [Clients -> Clients \cup {None}]
    BY <1>1, <1>2
  <1>6. \A d \in Clients : handler[d] \in {"outside", "queued"} => handler'[d] = handler[d]
    BY <1>2, <1>3
  <1>7. \A d \in Clients : handler'[d] \in {"outside", "queued"} =>
                              handler[d] \in {"outside", "queued"}
    BY <1>2, <1>3, <1>4 DEF Later
  <1>8. ServersConsistent'
    BY <1>1, <1>5, <1>6 DEF ServersInv, ServersConsistent
  <1>9. BuffersSuffice'
    BY <1>1, <1>7, BuffersKept DEF ServersInv
  <1>10. AddressesRight'
    <2>1. Threads' = Threads /\ Buffers' = Buffers
      BY DEF Threads, Buffers
    <2>2. ASSUME NEW d \in Clients
          PROVE  /\ handler'[d] = "parse" =>
                      IF Threads
                      THEN /\ content[args[d]] = d
                           /\ \/ args[d] < client_addr
                              \/ args[d] = client_addr /\ main = "calloc"
                      ELSE address'[d] = d
                 /\ handler'[d] \in {"welcome", "recv", "echo"} => address'[d] = d
      BY <1>3, <1>4 DEF ServersInv, AddressesRight, Later
    <2> QED
      BY <2>1, <2>2, <1>5 DEF ServersInv, AddressesRight
  <1> QED
    BY <1>8, <1>9, <1>10 DEF ServersInv

(* The main process ends, and with it its threads and its queue.           *)
LEMMA ServersMainGoneInv ==
    ASSUME ServersInv, MainGone, UNCHANGED client
    PROVE  ServersInv'
  <1>1. /\ main' = "exited" /\ backlog' = << >>
        /\ UNCHANGED <<program, client_desc, client_addr, content, args, address>>
    BY DEF MainGone, memory
  <1>2. handler' = [c \in Clients |->
                      IF handler[c] = "queued"
                           \/ (Alive(c) /\ ~Forks)
                      THEN "failed" ELSE handler[c]]
    BY DEF MainGone
  <1>3. handler \in [Clients -> ServerLabels] /\ "failed" \in ServerLabels
    BY DEF ServersInv, ServersConsistent, ServerLabels
  <1>4. \A c \in Clients : handler'[c] \in {"failed", handler[c]}
    BY <1>2
  <1>5. handler' \in [Clients -> ServerLabels]
    BY <1>2, <1>3
  <1>6. \A c \in Clients : handler[c] = "outside" => handler'[c] = "outside"
    BY <1>2 DEF Alive
  <1>7. Threads => \A c \in Clients : handler'[c] # "parse"
    BY <1>2 DEF Alive, Forks, Threads
  <1>8. ServersConsistent'
    <2>1. backlog' \in Seq(Clients) /\ 1 .. Len(backlog') = {}
      BY <1>1
    <2> QED
      BY <2>1, <1>1, <1>5, <1>6 DEF ServersInv, ServersConsistent
  <1>9. BuffersSuffice'
    BY <1>1, <1>3, <1>4, BuffersKept DEF ServersInv
  <1>10. AddressesRight'
    <2>1. Threads' = Threads /\ Buffers' = Buffers
      BY <1>1 DEF Threads, Buffers
    <2> QED
      BY <2>1, <1>1, <1>4, <1>7 DEF ServersInv, AddressesRight
  <1> QED
    BY <1>8, <1>9, <1>10 DEF ServersInv

(* A connection that the kernel queues is neither waiting nor main's.      *)
LEMMA ServersConnectInv ==
    ASSUME ServersInv, NEW c \in Clients, Connect(c)
    PROVE  ServersInv'
  <1> DEFINE to == IF Time THEN "input" ELSE "welcome"
  <1>1. /\ main # "exited" /\ client[c] = "off"
        /\ client' = [client EXCEPT ![c] = to]
        /\ handler' = [handler EXCEPT ![c] = "queued"]
        /\ backlog' = Append(backlog, c)
        /\ UNCHANGED <<program, main, client_desc, client_addr, content, args,
                       address>>
    BY DEF Connect, ClientMoves, memory
  <1>2. /\ handler \in [Clients -> ServerLabels] /\ backlog \in Seq(Clients)
        /\ client \in [Clients -> ClientLabels] /\ handler[c] = "outside"
    BY <1>1 DEF ServersInv, ServersConsistent
  <1>3. /\ handler' \in [Clients -> ServerLabels] /\ backlog' \in Seq(Clients)
        /\ client' \in [Clients -> ClientLabels]
    BY <1>1, <1>2 DEF ServerLabels, ClientLabels
  <1>4. \A k \in 1 .. Len(backlog) : backlog[k] \in Clients /\ backlog[k] # c
    BY <1>2 DEF ServersInv, ServersConsistent
  <1>5. /\ Len(backlog') = Len(backlog) + 1 /\ Len(backlog) \in Nat
        /\ backlog'[Len(backlog) + 1] = c
        /\ \A k \in 1 .. Len(backlog) : backlog'[k] = backlog[k]
    BY <1>1, <1>2
  <1>6. \A k \in 1 .. Len(backlog') : k \in 1 .. Len(backlog) \/ k = Len(backlog) + 1
    BY <1>5
  <1>7. \A d \in Clients : handler'[d] = IF d = c THEN "queued" ELSE handler[d]
    BY <1>1, <1>2
  <1>8. \A k \in 1 .. Len(backlog') : handler'[backlog'[k]] = "queued"
    BY <1>4, <1>5, <1>6, <1>7 DEF ServersInv, ServersConsistent
  <1>9. \A k, l \in 1 .. Len(backlog') : backlog'[k] = backlog'[l] => k = l
    <2>1. \A k, l \in 1 .. Len(backlog) : backlog[k] = backlog[l] => k = l
      BY DEF ServersInv, ServersConsistent
    <2> QED
      BY <2>1, <1>4, <1>5, <1>6
  <1>10. main = "start" =>
            /\ client_desc \in Clients
            /\ handler'[client_desc] = "queued"
            /\ \A k \in 1 .. Len(backlog') : backlog'[k] # client_desc
    BY <1>2, <1>5, <1>6, <1>7 DEF ServersInv, ServersConsistent
  <1>11. \A d \in Clients : client'[d] = "off" => handler'[d] = "outside"
    BY <1>1, <1>2, <1>7 DEF ServersInv, ServersConsistent
  <1>12. ServersConsistent'
    BY <1>1, <1>3, <1>8, <1>9, <1>10, <1>11 DEF ServersInv, ServersConsistent
  <1>13. BuffersSuffice'
    BY <1>1, <1>2, <1>7, BuffersKept DEF ServersInv
  <1>14. AddressesRight'
    <2>1. Threads' = Threads /\ Buffers' = Buffers
      BY <1>1 DEF Threads, Buffers
    <2>2. \A d \in Clients : handler'[d] # "queued" => handler'[d] = handler[d]
      BY <1>7
    <2> QED
      BY <2>1, <2>2, <1>1 DEF ServersInv, AddressesRight
  <1> QED
    BY <1>12, <1>13, <1>14 DEF ServersInv

(* accept() writes the address into a buffer that no thread will read.     *)
LEMMA ServersAcceptInv ==
    ASSUME ServersInv, Accept
    PROVE  ServersInv'
  <1>1. /\ main = "accept" /\ backlog # << >> /\ main' = "start"
        /\ client_desc' = Head(backlog) /\ backlog' = Tail(backlog)
        /\ content' = [content EXCEPT ![client_addr] = client_desc']
        /\ UNCHANGED <<program, client_addr, handler, args, address, client>>
    BY DEF Accept, memory
  <1>2. backlog \in Seq(Clients)
    BY DEF ServersInv, ServersConsistent
  <1>3. /\ Len(backlog) \in Nat \ {0} /\ Head(backlog) = backlog[1]
        /\ Tail(backlog) \in Seq(Clients) /\ Len(Tail(backlog)) = Len(backlog) - 1
        /\ \A k \in 1 .. Len(backlog) - 1 : Tail(backlog)[k] = backlog[k + 1]
    BY <1>1, <1>2
  <1>4. backlog[1] \in Clients /\ handler[backlog[1]] = "queued"
    BY <1>2, <1>3 DEF ServersInv, ServersConsistent
  <1>5. \A k \in 1 .. Len(backlog') : k + 1 \in 1 .. Len(backlog) /\ k + 1 # 1
    BY <1>1, <1>3
  <1>6. \A k \in 1 .. Len(backlog') : backlog'[k] = backlog[k + 1]
    BY <1>1, <1>3
  <1>7. \A k \in 1 .. Len(backlog') : handler[backlog'[k]] = "queued"
    <2>1. \A k \in 1 .. Len(backlog) : handler[backlog[k]] = "queued"
      BY DEF ServersInv, ServersConsistent
    <2> QED
      BY <2>1, <1>5, <1>6
  <1>8. \A k, l \in 1 .. Len(backlog') : backlog'[k] = backlog'[l] => k = l
    <2> SUFFICES ASSUME NEW k \in 1 .. Len(backlog'), NEW l \in 1 .. Len(backlog'),
                        backlog'[k] = backlog'[l]
                 PROVE  k = l
      OBVIOUS
    <2>1. k + 1 = l + 1
      BY <1>5, <1>6 DEF ServersInv, ServersConsistent
    <2> QED
      BY <2>1
  <1>9. 1 \in 1 .. Len(backlog)
    BY <1>3
  <1>10. \A k \in 1 .. Len(backlog') : backlog'[k] # backlog[1]
    BY <1>5, <1>6, <1>9 DEF ServersInv, ServersConsistent
  <1>11. client_desc' = backlog[1] /\ backlog' \in Seq(Clients)
    BY <1>1, <1>3
  <1>12. ServersConsistent'
    BY <1>1, <1>4, <1>7, <1>8, <1>10, <1>11 DEF ServersInv, ServersConsistent
  <1>13. BuffersSuffice'
    BY <1>1, BuffersKept DEF ServersInv, ServersConsistent
  <1>14. AddressesRight'
    <2>1. Threads' = Threads /\ Buffers' = Buffers
      BY <1>1 DEF Threads, Buffers
    <2>2. /\ client_addr \in Buffers /\ client_desc' \in Clients
          /\ content \in [Buffers -> Clients \cup {None}]
          /\ args \in [Clients -> Buffers]
      BY <1>4, <1>11 DEF ServersInv, BuffersSuffice, AddressesRight
    <2>3. /\ content' \in [Buffers -> Clients \cup {None}]
          /\ content'[client_addr] = client_desc'
          /\ \A b \in Buffers : b # client_addr => content'[b] = content[b]
      BY <1>1, <2>2
    <2>4. ASSUME NEW d \in Clients, handler[d] = "parse", Threads
          PROVE  content'[args[d]] = d /\ args[d] < client_addr
      <3>1. content[args[d]] = d /\ args[d] < client_addr
        BY <1>1, <2>4 DEF ServersInv, AddressesRight
      <3>2. args[d] # client_addr
        BY <2>2, <3>1, BegunBounded DEF Buffers
      <3> QED
        BY <2>2, <2>3, <3>1, <3>2
    <2> QED
      BY <2>1, <2>3, <2>4, <1>1 DEF ServersInv, AddressesRight
  <1> QED
    BY <1>12, <1>13, <1>14 DEF ServersInv

(* The handler is started with the address of its own connection, or with  *)
(* the buffer that holds it.                                               *)
LEMMA ServersStartInv ==
    ASSUME ServersInv, StartHandler
    PROVE  ServersInv'
  <1> DEFINE c  == client_desc
             to == IF Time THEN "recv" ELSE "parse"
             a  == IF Threads THEN None ELSE content[client_addr]
  <1>1. /\ main = "start"
        /\ handler' = [handler EXCEPT ![c] = to]
        /\ args' = [args EXCEPT ![c] = client_addr]
        /\ address' = [address EXCEPT ![c] = a]
        /\ UNCHANGED <<program, client_desc, backlog, client_addr, content, client>>
    BY DEF StartHandler, None, None
  <1>2. main' = CASE Serial  -> "serving"
                  [] Forks   -> "close"
                  [] Threads -> "calloc"
    BY DEF StartHandler
  <1>3. program \in {"base", "multiprocess", "multithread", "time"}
    BY DEF ServersInv, ServersConsistent
  <1>4. /\ main' \in {"serving", "close", "calloc"}
        /\ main' = "calloc" <=> Threads
    <2>1. Serial => main' = "serving" /\ ~Threads
      BY <1>2, Zenon DEF Serial, Threads, Forks
    <2>2. Forks => main' = "close" /\ ~Threads
      BY <1>2, Zenon DEF Serial, Threads, Forks
    <2>3. Threads => main' = "calloc"
      BY <1>2, Zenon DEF Serial, Threads, Forks
    <2> QED
      BY <2>1, <2>2, <2>3, <1>3 DEF Serial, Forks, Threads
  <1>5. /\ c \in Clients /\ handler[c] = "queued"
        /\ \A k \in 1 .. Len(backlog) : backlog[k] # c /\ backlog[k] \in Clients
        /\ handler \in [Clients -> ServerLabels]
        /\ client[c] # "off"
    BY <1>1 DEF ServersInv, ServersConsistent
  <1>6. /\ client_addr \in Buffers /\ content[client_addr] = c
        /\ content \in [Buffers -> Clients \cup {None}]
        /\ args \in [Clients -> Buffers]
        /\ address \in [Clients -> Clients \cup {None}]
    BY <1>1 DEF ServersInv, BuffersSuffice, AddressesRight
  <1>7. to \in {"recv", "parse"} /\ a \in Clients \cup {None}
    BY <1>5, <1>6
  <1>8. /\ handler' \in [Clients -> ServerLabels]
        /\ args' \in [Clients -> Buffers]
        /\ address' \in [Clients -> Clients \cup {None}]
    BY <1>1, <1>5, <1>6, <1>7 DEF ServerLabels
  <1>9. \A d \in Clients :
           IF d = c
           THEN handler'[d] = to /\ args'[d] = client_addr /\ address'[d] = a
           ELSE handler'[d] = handler[d] /\ args'[d] = args[d] /\ address'[d] = address[d]
    BY <1>1, <1>5, <1>6
  <1> HIDE DEF to, a
  <1>10. ServersConsistent'
    <2>1. \A k \in 1 .. Len(backlog) : handler'[backlog[k]] = "queued"
      BY <1>5, <1>9 DEF ServersInv, ServersConsistent
    <2>2. \A d \in Clients : client[d] = "off" => handler'[d] = "outside"
      BY <1>5, <1>9 DEF ServersInv, ServersConsistent
    <2> QED
      BY <2>1, <2>2, <1>1, <1>4, <1>8 DEF ServersInv, ServersConsistent
  <1>11. BuffersSuffice'
    <2>1. Begun' = Begun \cup {c} /\ c \notin Begun
      BY <1>5, <1>7, <1>9 DEF Begun
    <2>2. Cardinality(Begun') = Cardinality(Begun) + 1
      BY <2>1, BegunBounded, FS_AddElement
    <2>3. client_addr \in Nat /\ Buffers' = Buffers
      BY <1>6, BegunBounded DEF Buffers
    <2> QED
      BY <2>2, <2>3, <1>1, BegunBounded DEF ServersInv, BuffersSuffice
  <1>12. AddressesRight'
    <2>1. Threads' = Threads /\ Buffers' = Buffers
      BY <1>1 DEF Threads, Buffers
    <2>2. to = "recv" => ~Threads
      BY DEF to, Time, Threads
    <2>3. ~Threads => a = c
      BY <1>6 DEF a
    <2>4. ASSUME NEW d \in Clients
          PROVE  /\ handler'[d] = "parse" =>
                      IF Threads
                      THEN /\ content[args'[d]] = d
                           /\ \/ args'[d] < client_addr
                              \/ args'[d] = client_addr /\ main' = "calloc"
                      ELSE address'[d] = d
                 /\ handler'[d] \in {"welcome", "recv", "echo"} => address'[d] = d
      <3>1. CASE d = c
        BY <3>1, <1>4, <1>6, <1>7, <1>9, <2>2, <2>3
      <3>2. CASE d # c
        <4>1. /\ handler'[d] = handler[d] /\ args'[d] = args[d]
              /\ address'[d] = address[d]
          BY <3>2, <1>9
        <4> QED
          BY <4>1, <1>1 DEF ServersInv, AddressesRight
      <3> QED
        BY <3>1, <3>2
    <2> QED
      BY <2>1, <2>4, <1>1, <1>4, <1>6, <1>8 DEF AddressesRight
  <1> QED
    BY <1>10, <1>11, <1>12 DEF ServersInv

(* The steps of main between two connections.  A server with threads goes  *)
(* on to a new buffer, the others clear the one they have.                 *)
LEMMA ServersMainInv ==
    ASSUME ServersInv,
           \/ HandlerReturned \/ CloseCopy
           \/ ClearAddress \/ NewAddress
    PROVE  ServersInv'
  <1>1. UNCHANGED <<program, client_desc, backlog, handler, args, address, client>>
    BY DEF HandlerReturned, CloseCopy, ClearAddress,
           NewAddress, memory
  <1>2. \/ /\ main \in {"serving", "close"} /\ main' = "memset"
           /\ UNCHANGED <<client_addr, content>>
        \/ /\ main = "serving" /\ main' = "accept"
           /\ UNCHANGED <<client_addr, content>>
        \/ /\ main = "memset" /\ main' = "accept"
           /\ content' = [content EXCEPT ![client_addr] = None]
           /\ UNCHANGED client_addr
        \/ /\ main = "calloc" /\ main' = "accept"
           /\ client_addr' = client_addr + 1
           /\ UNCHANGED content
    BY DEF HandlerReturned, CloseCopy, ClearAddress,
           NewAddress
  <1>3. ServersConsistent'
    BY <1>1, <1>2 DEF ServersInv, ServersConsistent
  <1>4. client_addr \in Nat /\ Buffers' = Buffers
    BY BegunBounded DEF Buffers, ServersInv, BuffersSuffice
  <1>5. Begun' = Begun
    BY <1>1 DEF Begun
  <1>6. BuffersSuffice'
    <2>1. main = "calloc" => client_addr < Cardinality(Begun)
      BY DEF ServersInv, BuffersSuffice
    <2>2. main = "calloc" => client_addr + 1 \in 0 .. Cardinality(Clients)
      BY <2>1, <1>4, BegunBounded
    <2>3. main = "calloc" => client_addr + 1 <= Cardinality(Begun)
      BY <2>1, <1>4, BegunBounded
    <2>4. client_addr' \in Buffers
      BY <2>2, <1>2 DEF Buffers, ServersInv, BuffersSuffice
    <2> QED
      BY <2>3, <2>4, <1>2, <1>4, <1>5 DEF ServersInv, BuffersSuffice
  <1>7. Threads' = Threads
    BY <1>1 DEF Threads
  <1>8. AddressesRight'
    <2>1. content' \in [Buffers -> Clients \cup {None}]
      BY <1>2 DEF ServersInv, AddressesRight
    <2>2. ASSUME NEW d \in Clients, handler[d] = "parse", Threads
          PROVE  content'[args[d]] = d /\ args[d] < client_addr'
      <3>1. /\ main = "calloc" => client_addr' = client_addr + 1
            /\ main # "calloc" => client_addr' = client_addr
            /\ content' = content
        BY <2>2, <1>2 DEF ServersInv, AddressesRight
      <3>2. args[d] \in Nat
        BY BegunBounded DEF Buffers, ServersInv, AddressesRight
      <3>3. /\ content[args[d]] = d
            /\ args[d] < client_addr \/ (args[d] = client_addr /\ main = "calloc")
        BY <2>2 DEF ServersInv, AddressesRight
      <3> QED
        BY <3>1, <3>2, <3>3, <1>4
    <2> QED
      BY <2>1, <2>2, <1>1, <1>2, <1>4, <1>7 DEF ServersInv, AddressesRight
  <1> QED
    BY <1>3, <1>6, <1>8 DEF ServersInv

(* A handler that goes on, or ends in its own process, without looking at  *)
(* the address again.                                                      *)
LEMMA SameAddressInv ==
    ASSUME ServersInv, NEW c \in Clients, NEW to \in Later,
           Alive(c), handler' = [handler EXCEPT ![c] = to],
           to \in {"welcome", "recv", "echo"} =>
              handler[c] \in {"welcome", "recv", "echo"},
           client' \in [Clients -> ClientLabels],
           \A d \in Clients : client'[d] = "off" => client[d] = "off",
           UNCHANGED <<program, main, client_desc, backlog, client_addr,
                       content, args, address>>
    PROVE  ServersInv'
  <1>1. /\ address \in [Clients -> Clients \cup {None}]
        /\ to \in {"welcome", "recv", "echo"} => address[c] = c
    BY DEF ServersInv, AddressesRight
  <1>2. /\ address[c] \in Clients \cup {None}
        /\ address' = [address EXCEPT ![c] = address[c]]
    BY <1>1
  <1> QED
    BY <1>1, <1>2, HandlerStepInv

(* A child that dies, or a handler whose end is the end of the server.     *)
LEMMA HandlerGoneInv ==
    ASSUME ServersInv, NEW c \in Clients, Alive(c),
           HandlerGone(c), UNCHANGED client
    PROVE  ServersInv'
  <1>1. CASE Forks
    <2>1. /\ handler' = [handler EXCEPT ![c] = "failed"]
          /\ UNCHANGED <<program, main, client_desc, backlog, client_addr,
                         content, args, address>>
      BY <1>1 DEF HandlerGone, server, memory
    <2>2. client' \in [Clients -> ClientLabels]
      BY DEF ServersInv, ServersConsistent
    <2> QED
      BY <2>1, <2>2, SameAddressInv DEF Later
  <1>2. CASE ~Forks
    BY <1>2, ServersMainGoneInv DEF HandlerGone
  <1> QED
    BY <1>1, <1>2

(* inet_ntop() finds the address of the handler's own client.              *)
LEMMA ParseAddressInv ==
    ASSUME ServersInv, NEW c \in Clients, ParseAddress(c)
    PROVE  ServersInv'
  <1> DEFINE a == IF Threads THEN content[args[c]] ELSE address[c]
  <1>1. /\ handler[c] = "parse"
        /\ handler' = [handler EXCEPT ![c] = "welcome"]
        /\ address' = [address EXCEPT ![c] = a]
        /\ UNCHANGED <<program, main, client_desc, backlog, client_addr,
                       content, args, client>>
    BY DEF ParseAddress, Moves, server
  <1>2. a = c
    BY <1>1 DEF ServersInv, AddressesRight
  <1>3. client \in [Clients -> ClientLabels]
    BY DEF ServersInv, ServersConsistent
  <1>4. Alive(c) /\ "welcome" \in Later
    BY <1>1 DEF Alive, Later
  <1> HIDE DEF a
  <1> QED
    BY <1>1, <1>2, <1>3, <1>4, HandlerStepInv

(* send(): the handler goes on, also when its client is gone, unless the   *)
(* connection was reset.                                                   *)
LEMMA ServersSendInv ==
    ASSUME ServersInv, NEW c \in Clients, NEW from \in {"welcome", "echo"},
           NEW to \in {"recv", "close"}, NEW m, Send(c, from, to, m)
    PROVE  ServersInv'
  <1>1. handler[c] = from
    BY DEF Send
  <1>2. Alive(c) /\ to \in Later
    BY <1>1 DEF Alive, Later
  <1>3. client \in [Clients -> ClientLabels]
    BY DEF ServersInv, ServersConsistent
  <1>4. CASE client[c] = "reset"
    BY <1>2, <1>4, HandlerGoneInv DEF Send
  <1>5. CASE client[c] # "reset"
    <2>1. /\ handler' = [handler EXCEPT ![c] = to]
          /\ UNCHANGED <<program, main, client_desc, backlog, client_addr,
                         content, args, address>>
      BY <1>5 DEF Send, Moves, server, memory
    <2>2. client' = client \/ client' = [client EXCEPT ![c] = "reset"]
      BY <1>5 DEF Send
    <2>3. /\ client' \in [Clients -> ClientLabels]
          /\ \A d \in Clients : client'[d] = "off" => client[d] = "off"
      BY <2>2, <1>3 DEF ClientLabels
    <2> QED
      BY <2>1, <2>3, <1>1, <1>2, SameAddressInv
  <1> QED
    BY <1>4, <1>5

(* Every step of a connection handler.                                     *)
LEMMA ServersHandlerInv ==
    ASSUME ServersInv, NEW c \in Clients,
           HandlerStep(c) \/ HandlerDies(c)
    PROVE  ServersInv'
  <1>1. client \in [Clients -> ClientLabels]
    BY DEF ServersInv, ServersConsistent
  <1>2. CASE ParseAddress(c)
    BY <1>2, ParseAddressInv
  <1>3. CASE SendWelcome(c)
    BY <1>3, ServersSendInv DEF SendWelcome
  <1>4. CASE SendBack(c)
    <2> DEFINE to == IF Time THEN "close" ELSE "recv"
    <2>1. Send(c, "echo", to, "answer") /\ to \in {"recv", "close"}
      BY <1>4 DEF SendBack
    <2> HIDE DEF to
    <2> QED
      BY <2>1, ServersSendInv
  <1>5. CASE RecvMessage(c)
    <2> DEFINE to == IF msg[c] = "quit" THEN "close" ELSE "echo"
    <2>1. /\ handler[c] = "recv" /\ handler' = [handler EXCEPT ![c] = to]
          /\ UNCHANGED <<program, main, client_desc, backlog, client_addr,
                         content, args, address, client>>
      BY <1>5 DEF RecvMessage, Moves, server, memory
    <2>2. Alive(c) /\ to \in Later
      BY <2>1 DEF Alive, Later
    <2> HIDE DEF to
    <2> QED
      BY <2>1, <2>2, <1>1, SameAddressInv
  <1>6. CASE RecvEnd(c)
    <2>1. /\ handler[c] = "recv" /\ handler' = [handler EXCEPT ![c] = "echo"]
          /\ UNCHANGED <<program, main, client_desc, backlog, client_addr,
                         content, args, address, client>>
      BY <1>6 DEF RecvEnd, Moves, server, memory
    <2>2. Alive(c) /\ "echo" \in Later
      BY <2>1 DEF Alive, Later
    <2> QED
      BY <2>1, <2>2, <1>1, SameAddressInv
  <1>7. CASE RecvFails(c)
    <2>1. Alive(c) /\ HandlerGone(c) /\ UNCHANGED client
      BY <1>7 DEF RecvFails, Alive
    <2> QED
      BY <2>1, HandlerGoneInv
  <1>8. CASE CloseSocket(c)
    <2>1. /\ handler[c] = "close" /\ handler' = [handler EXCEPT ![c] = "ended"]
          /\ UNCHANGED <<program, main, client_desc, backlog, client_addr,
                         content, args, address, client>>
      BY <1>8 DEF CloseSocket, Moves, server, memory
    <2>2. Alive(c) /\ "ended" \in Later
      BY <2>1 DEF Alive, Later
    <2> QED
      BY <2>1, <2>2, <1>1, SameAddressInv
  <1>9. CASE HandlerDies(c)
    <2>1. Alive(c) /\ HandlerGone(c) /\ UNCHANGED client
      BY <1>9 DEF HandlerDies
    <2> QED
      BY <2>1, HandlerGoneInv
  <1> QED
    BY <1>2, <1>3, <1>4, <1>5, <1>6, <1>7, <1>8, <1>9 DEF HandlerStep

(* Every step of a client that is connected.                               *)
LEMMA ServersClientInv ==
    ASSUME ServersInv, NEW c \in Clients,
           \/ ClientStep(c) \/ ClientDies(c)
           \/ InsertText(c) \/ InsertQuit(c)
           \/ InsertEmpty(c)
    PROVE  ServersInv'
  <1> DEFINE Step == \E from \in ClientLabels \ {"off"}, to \in ClientLabels \ {"off"} :
                        ClientMoves(c, from, to)
  <1>1. ASSUME InsertText(c) \/ InsertQuit(c) \/ InsertEmpty(c)
        PROVE  Step
    <2>1. PICK what \in {"text", "quit", None} : Insert(c, what)
      BY <1>1 DEF InsertText, InsertQuit, InsertEmpty,
                  None, None
    <2>2. CASE Over(c)
      BY <2>1, <2>2 DEF Insert, ClientLabels
    <2>3. CASE ~Over(c)
      <3> DEFINE s == CASE what = "text" -> "answer"
                        [] what = "quit" -> "bye"
                        [] what = None   -> "empty"
      <3>1. s \in {"answer", "bye", "empty"}
        <4>1. what = "text" => s = "answer"
          BY Zenon DEF None
        <4>2. what = "quit" => s = "bye"
          BY Zenon DEF None
        <4>3. what = None => s = "empty"
          BY Zenon DEF None
        <4> QED
          BY <4>1, <4>2, <4>3, <2>1
      <3>2. ClientMoves(c, "input", s)
        BY <2>1, <2>3 DEF Insert, None, None
      <3> QED
        BY <3>1, <3>2 DEF ClientLabels
    <2> QED
      BY <2>2, <2>3
  <1>2. ASSUME RecvWelcome(c)
        PROVE  Step
    <2>1. Recv(c, "welcome", "input")
      BY <1>2 DEF RecvWelcome
    <2> QED
      BY <2>1 DEF Recv, ClientLabels
  <1>3. ASSUME RecvAnswer(c)
        PROVE  Step
    <2> DEFINE to == IF Time THEN "bye" ELSE "input"
    <2>1. PICK s \in {"answer", "empty"} : Recv(c, s, to)
      BY <1>3 DEF RecvAnswer
    <2>2. to \in {"bye", "input"}
      OBVIOUS
    <2> HIDE DEF to
    <2> QED
      BY <2>1, <2>2 DEF Recv, ClientLabels
  <1>4. ASSUME CloseClient(c)
        PROVE  Step
    BY <1>4 DEF CloseClient, ClientLabels
  <1>5. ASSUME ClientDies(c)
        PROVE  Step
    <2> DEFINE to == IF msg[c] \in {"welcome", "answer"} THEN "reset" ELSE "gone"
    <2>1. PICK s \in {"welcome", "input", "answer", "empty", "bye"} :
             ClientMoves(c, s, to)
      BY <1>5 DEF ClientDies
    <2>2. to \in {"reset", "gone"}
      OBVIOUS
    <2> HIDE DEF to
    <2> QED
      BY <2>1, <2>2 DEF ClientLabels
  <1>6. Step
    BY <1>1, <1>2, <1>3, <1>4, <1>5 DEF ClientStep
  <1>7. UNCHANGED <<backlog, handler>>
    BY DEF ClientStep, ClientDies, InsertText,
           InsertQuit, InsertEmpty, Insert, Recv,
           RecvWelcome, RecvAnswer, CloseClient
  <1>8. PICK from \in ClientLabels \ {"off"}, to \in ClientLabels \ {"off"} :
           ClientMoves(c, from, to)
    BY <1>6
  <1>9. /\ client' = [client EXCEPT ![c] = to]
        /\ UNCHANGED <<program, main, client_desc, client_addr, content, args,
                       address>>
    BY <1>8 DEF ClientMoves, memory
  <1>10. client \in [Clients -> ClientLabels]
    BY DEF ServersInv, ServersConsistent
  <1>11. /\ client' \in [Clients -> ClientLabels]
         /\ \A d \in Clients : client'[d] = "off" => client[d] = "off"
    BY <1>9, <1>10
  <1> QED
    BY <1>7, <1>9, <1>11, ClientStepInv

(* Every step of the servers and their clients.                            *)
LEMMA ServersNextInv == ServersInv /\ [Next]_vars => ServersInv'
  <1> SUFFICES ASSUME ServersInv, [Next]_vars PROVE ServersInv'
    OBVIOUS
  <1>1. CASE UNCHANGED vars
    <2>1. client' \in [Clients -> ClientLabels] /\ client' = client
      BY <1>1 DEF vars, ServersInv, ServersConsistent
    <2> QED
      BY <1>1, <2>1, ClientStepInv DEF vars
  <1>2. CASE MainStep
    BY <1>2, ServersAcceptInv, ServersStartInv, ServersMainInv DEF MainStep
  <1>3. CASE MainDies
    BY <1>3, ServersMainGoneInv DEF MainDies
  <1>4. ASSUME NEW c \in Clients,
               HandlerStep(c) \/ HandlerDies(c)
        PROVE  ServersInv'
    BY <1>4, ServersHandlerInv
  <1>5. ASSUME NEW c \in Clients, Connect(c)
        PROVE  ServersInv'
    BY <1>5, ServersConnectInv
  <1>6. ASSUME NEW c \in Clients,
               \/ ClientStep(c) \/ ClientDies(c)
               \/ InsertText(c) \/ InsertQuit(c)
               \/ InsertEmpty(c)
        PROVE  ServersInv'
    BY <1>6, ServersClientInv
  <1> QED
    BY <1>1, <1>2, <1>3, <1>4, <1>5, <1>6 DEF Next

(* lab08 and lab06: however many clients there are, and however late a     *)
(* thread looks at the address main left for it, a handler welcomes its    *)
(* own client.                                                             *)
THEOREM ClientsAreWelcomed == Spec => []WelcomeNamesClient
  <1>1. ServersInv => WelcomeNamesClient
    BY DEF ServersInv, AddressesRight, WelcomeNamesClient
  <1> QED
    BY <1>1, ServersInitInv, ServersNextInv, PTL DEF Spec
-----------------------------------------------------------------------------
(* The client and the server on FIFOs (EchoFIFO).                          *)

Messages == Lines \cup {QUIT, Empty, Welcome}

EchoLabels == {"off", "mkfifo1", "mkfifo2", "open1", "opening1", "open2",
               "opening2", "welcome", "read", "received", "clean", "close2",
               "unlink1", "unlink2"}
UserLabels == {"off", "open1", "opening1", "open2", "opening2", "greeted",
               "insert", "send", "answer", "close"}

\* Where echo has neither FIFO open, where it has only echo_fifo, and where
\* it has not got echo_fifo.
EchoApart == {"off", "mkfifo1", "mkfifo2", "open1", "unlink1", "unlink2"}
EchoHalf  == {"opening1", "open2"}
EchoMute  == EchoApart \cup {"close2"}

\* echo before it sent its welcome, and the client before it read anything.
Early   == {"mkfifo1", "mkfifo2", "open1", "opening1", "open2", "opening2",
            "welcome"}
Joining == {"off", "open1", "opening1", "open2", "opening2", "greeted"}

(* Types, and what each program has open, which follows from where it is.  *)
FifoEnds ==
    /\ names \subseteq Fifos
    /\ end \in [Programs -> [Fifos -> {"closed", "opening", "open"}]]
    /\ data \in [Fifos -> Seq(Messages)]
    /\ pc \in [Programs -> EchoLabels \cup UserLabels]
    /\ pc["echo"] \in EchoLabels /\ pc["client"] \in UserLabels
    /\ buf \in [Programs -> Messages]
    /\ kills \in Nat
    /\ end["echo"]["echo_fifo"] = "closed" <=> pc["echo"] \in EchoMute
    /\ end["echo"]["client_fifo"] = "closed" <=>
          pc["echo"] \in EchoApart \cup EchoHalf
    /\ end["client"]["echo_fifo"] = "closed" <=> pc["client"] \in {"off", "open1"}
    /\ end["client"]["client_fifo"] = "closed" <=>
          pc["client"] \in {"off", "open1", "opening1", "open2"}

(* There is never more than one message under way, in a FIFO or in echo's  *)
(* buffer, none while the client may send, and while it waits for an       *)
(* answer it is the client's own line.                                     *)
OneMessage ==
    /\ \A f \in Fifos : \/ data[f] = << >>
                             \/ \E m \in Messages : data[f] = <<m>>
    /\ data["echo_fifo"] = << >> \/ data["client_fifo"] = << >>
    /\ \A f \in Fifos :
          end["echo"][f] = "closed" /\ end["client"][f] = "closed" => data[f] = << >>
    /\ pc["echo"] = "received" \/ pc["echo"] \in Early \/ pc["client"] \in {"insert", "send"}
          => \A f \in Fifos : data[f] = << >>
    /\ pc["echo"] \in Early => pc["client"] \in Joining
    /\ pc["client"] \in {"insert", "send"} => pc["echo"] # "received"
    /\ pc["client"] = "answer" =>
          /\ \A f \in Fifos : data[f] # << >> => data[f] = <<buf["client"]>>
          /\ pc["echo"] = "received" => buf["echo"] = buf["client"]

(* Until a program is killed: the FIFOs that exist follow from where echo  *)
(* is, and whenever echo writes there is a client to read it.              *)
Undisturbed ==
    /\ pc["echo"] \in {"off", "mkfifo1"} => names = {}
    /\ pc["echo"] = "mkfifo2" => names = {"echo_fifo"}
    /\ pc["echo"] = "unlink2" => names = {"client_fifo"}
    /\ pc["echo"] \notin {"off", "mkfifo1", "mkfifo2", "unlink2"} => names = Fifos
    /\ pc["echo"] = "welcome" => pc["client"] \in {"opening2", "greeted"}
    /\ pc["echo"] = "opening2" /\ end["echo"]["client_fifo"] = "open"
          => pc["client"] \in {"opening2", "greeted"}
    /\ pc["echo"] = "received" /\ buf["echo"] # QUIT => pc["client"] = "answer"
    /\ pc["echo"] = "read" /\ data["client_fifo"] \notin {<< >>, <<QUIT>>}
          => pc["client"] = "answer"

FifoInv == FifoEnds /\ OneMessage /\ (kills = 0 => Undisturbed)

(* The two programs and the two FIFOs between them.                        *)
LEMMA FifoNames ==
    /\ Programs = {"echo", "client"}
    /\ Fifos = {"echo_fifo", "client_fifo"}
    /\ Peer("echo") = "client" /\ Peer("client") = "echo"
    /\ Out("echo") = "echo_fifo" /\ Out("client") = "client_fifo"
    /\ In("echo") = "client_fifo" /\ In("client") = "echo_fifo"
  BY DEF Programs, Fifos, Peer, Out, In

(* Sequences of one message.                                               *)
LEMMA Single ==
    ASSUME NEW m
    PROVE  /\ Head(<<m>>) = m /\ Tail(<<m>>) = << >> /\ Append(<< >>, m) = <<m>>
           /\ <<m>> # << >>
  OBVIOUS

(* Neither program has been started.                                       *)
LEMMA FifoInitInv == FIFOInit => FifoInv
  <1> SUFFICES ASSUME FIFOInit PROVE FifoInv
    OBVIOUS
  <1>1. /\ names = {} /\ kills = 0
        /\ end = [p \in {"echo", "client"} |->
                     [f \in {"echo_fifo", "client_fifo"} |-> "closed"]]
        /\ data = [f \in {"echo_fifo", "client_fifo"} |-> << >>]
        /\ pc = [p \in {"echo", "client"} |-> "off"]
        /\ buf = [p \in {"echo", "client"} |-> Empty]
    BY FifoNames DEF FIFOInit, AllClosed
  <1>2. FifoEnds
    BY <1>1, FifoNames DEF FifoEnds, EchoLabels, UserLabels, EchoApart, EchoHalf,
                           EchoMute, Messages
  <1>3. OneMessage
    BY <1>1, FifoNames DEF OneMessage, Early
  <1>4. Undisturbed
    BY <1>1 DEF Undisturbed
  <1> QED
    BY <1>2, <1>3, <1>4 DEF FifoInv

(* echo goes from one call to the next and leaves the descriptors and the  *)
(* messages as they are.                                                   *)
LEMMA EchoGoes ==
    ASSUME FifoInv, NEW to \in EchoLabels \ {"received"},
           pc' = [pc EXCEPT !["echo"] = to],
           UNCHANGED <<end, data, buf, kills>>, names' \subseteq Fifos,
           to # "close2" /\ pc["echo"] # "close2",
           to \in EchoApart <=> pc["echo"] \in EchoApart,
           to \in EchoHalf <=> pc["echo"] \in EchoHalf,
           to \in Early => /\ pc["client"] \in Joining
                           /\ \A f \in Fifos : data[f] = << >>,
           kills = 0 => Undisturbed'
    PROVE  FifoInv'
  <1>1. /\ pc'["echo"] = to /\ pc'["client"] = pc["client"]
        /\ pc' \in [Programs -> EchoLabels \cup UserLabels]
    BY FifoNames DEF FifoInv, FifoEnds
  <1>2. FifoEnds'
    BY <1>1 DEF FifoInv, FifoEnds, EchoMute
  <1>3. OneMessage'
    BY <1>1 DEF FifoInv, OneMessage
  <1> QED
    BY <1>2, <1>3 DEF FifoInv

(* The same for the client, which may put a line in its buffer.            *)
LEMMA ClientGoes ==
    ASSUME FifoInv, NEW to \in UserLabels, NEW m \in Messages,
           pc' = [pc EXCEPT !["client"] = to],
           buf' = [buf EXCEPT !["client"] = m],
           UNCHANGED <<names, end, data, kills>>,
           to \in {"off", "open1"} <=> pc["client"] \in {"off", "open1"},
           to \in {"opening1", "open2"} <=> pc["client"] \in {"opening1", "open2"},
           to \in Joining <=> pc["client"] \in Joining,
           to \in {"insert", "send", "answer"} => pc["client"] = "insert",
           pc["client"] \in {"opening2", "greeted"} => to \in {"opening2", "greeted"},
           pc["client"] # "answer"
    PROVE  FifoInv'
  <1>1. /\ pc'["client"] = to /\ pc'["echo"] = pc["echo"]
        /\ buf'["client"] = m /\ buf'["echo"] = buf["echo"]
        /\ pc' \in [Programs -> EchoLabels \cup UserLabels]
        /\ buf' \in [Programs -> Messages]
    BY FifoNames DEF FifoInv, FifoEnds
  <1>2. FifoEnds'
    <2>1. to \in {"off", "open1", "opening1", "open2"} <=>
             pc["client"] \in {"off", "open1", "opening1", "open2"}
      OBVIOUS
    <2> QED
      BY <1>1, <2>1 DEF FifoInv, FifoEnds
  <1>3. OneMessage'
    BY <1>1 DEF FifoInv, OneMessage
  <1>4. kills = 0 => Undisturbed'
    BY <1>1 DEF FifoInv, Undisturbed
  <1> QED
    BY <1>2, <1>3, <1>4 DEF FifoInv

(* A program ends, which closes its descriptors: the FIFOs that nobody has *)
(* open are empty, and the others keep their message.                      *)
LEMMA EndsClosed ==
    ASSUME FifoInv, NEW p \in Programs, CloseEnds(p),
           UNCHANGED buf, names' \subseteq Fifos, kills' \in Nat,
           NEW to, pc' = [pc EXCEPT ![p] = to],
           to = "off"
    PROVE  /\ FifoEnds' /\ OneMessage'
           /\ \A q \in Programs : q # p => pc'[q] = pc[q] /\ end'[q] = end[q]
           /\ pc'[p] = to
           /\ \A f \in Fifos : data'[f] \in {<< >>, data[f]}
  <1>1. /\ end \in [Programs -> [Fifos -> {"closed", "opening", "open"}]]
        /\ data \in [Fifos -> Seq(Messages)]
        /\ pc \in [Programs -> EchoLabels \cup UserLabels]
        /\ pc["echo"] \in EchoLabels /\ pc["client"] \in UserLabels
        /\ buf \in [Programs -> Messages]
    BY DEF FifoInv, FifoEnds
  <1>2. to \in EchoLabels \cup UserLabels
    BY DEF EchoLabels, UserLabels
  <1>3. /\ pc' \in [Programs -> EchoLabels \cup UserLabels]
        /\ pc'[p] = to /\ \A q \in Programs : q # p => pc'[q] = pc[q]
    BY <1>1, <1>2
  <1>4. /\ end' = [end EXCEPT ![p] = [f \in Fifos |-> "closed"]]
        /\ data' = [f \in Fifos |->
                      IF end[Peer(p)][f] = "closed" THEN << >> ELSE data[f]]
    BY DEF CloseEnds, AllClosed
  <1>5. /\ end' \in [Programs -> [Fifos -> {"closed", "opening", "open"}]]
        /\ \A f \in Fifos : end'[p][f] = "closed"
        /\ \A q \in Programs : q # p => end'[q] = end[q]
    BY <1>1, <1>4
  <1>6. /\ data' \in [Fifos -> Seq(Messages)]
        /\ \A f \in Fifos : data'[f] =
              IF end[Peer(p)][f] = "closed" THEN << >> ELSE data[f]
    BY <1>1, <1>4
  <1>7. FifoEnds'
    <2>1. CASE p = "echo"
      BY <2>1, <1>1, <1>3, <1>5, <1>6, FifoNames
         DEF FifoInv, FifoEnds, EchoLabels, EchoApart, EchoMute
    <2>2. CASE p = "client"
      BY <2>2, <1>1, <1>3, <1>5, <1>6, FifoNames DEF FifoInv, FifoEnds, UserLabels
    <2> QED
      BY <2>1, <2>2, FifoNames
  <1>8. OneMessage'
    <2>1. CASE p = "echo"
      BY <2>1, <1>3, <1>5, <1>6, FifoNames DEF FifoInv, OneMessage, Early
    <2>2. CASE p = "client"
      BY <2>2, <1>3, <1>5, <1>6, FifoNames DEF FifoInv, OneMessage, Joining
    <2> QED
      BY <2>1, <2>2, FifoNames
  <1> QED
    BY <1>3, <1>5, <1>6, <1>7, <1>8

(* The client ends, where that leaves echo no message to write to nobody.  *)
LEMMA ClientEndsInv ==
    ASSUME FifoInv, Ends("client"), UNCHANGED names, kills' \in Nat,
           kills' = 0 => /\ kills = 0
                         /\ \/ pc["echo"] \in EchoMute
                            \/ pc["client"] \notin {"opening2", "greeted", "answer"}
    PROVE  FifoInv'
  <1>1. /\ pc' = [pc EXCEPT !["client"] = "off"] /\ CloseEnds("client")
        /\ UNCHANGED buf
    BY DEF Ends
  <1>2. names' \subseteq Fifos
    BY DEF FifoInv, FifoEnds
  <1>3. /\ FifoEnds' /\ OneMessage'
        /\ pc'["echo"] = pc["echo"] /\ end'["echo"] = end["echo"]
        /\ data'["client_fifo"] \in {<< >>, data["client_fifo"]}
    BY <1>1, <1>2, EndsClosed, FifoNames
  <1>4. kills' = 0 => Undisturbed'
    BY <1>1, <1>3 DEF FifoInv, Undisturbed, EchoApart, EchoMute
  <1> QED
    BY <1>3, <1>4 DEF FifoInv

(* echo ends before cleanFIFOs, which takes a signal somewhere.            *)
LEMMA EchoEndsInv ==
    ASSUME FifoInv, Ends("echo"), UNCHANGED names, kills' \in Nat \ {0}
    PROVE  FifoInv'
  <1>1. /\ pc' = [pc EXCEPT !["echo"] = "off"] /\ CloseEnds("echo")
        /\ UNCHANGED buf
    BY DEF Ends
  <1>2. names' \subseteq Fifos
    BY DEF FifoInv, FifoEnds
  <1>3. FifoEnds' /\ OneMessage'
    BY <1>1, <1>2, EndsClosed, FifoNames
  <1> QED
    BY <1>3 DEF FifoInv

(* A signal.                                                               *)
LEMMA KillInv ==
    ASSUME FifoInv, NEW p \in Programs, Kill(p)
    PROVE  FifoInv'
  <1>1. kills \in Nat /\ kills' = kills + 1 /\ Ends(p) /\ UNCHANGED names
    BY DEF FifoInv, FifoEnds, Kill
  <1>2. kills' \in Nat \ {0}
    BY <1>1
  <1>3. p = "echo" \/ p = "client"
    BY FifoNames
  <1> QED
    BY <1>1, <1>2, <1>3, EchoEndsInv, ClientEndsInv

(* Starting a program; echo only when no client has the old FIFOs open,    *)
(* so that they are empty.                                                 *)
LEMMA StartInv ==
    ASSUME FifoInv, NEW p \in Programs, Start(p)
    PROVE  FifoInv'
  <1>1. /\ pc[p] = "off" /\ UNCHANGED <<names, end, data, buf, kills>>
        /\ pc' = [pc EXCEPT ![p] = IF p = "echo" THEN "mkfifo1" ELSE "open1"]
        /\ p = "echo" => end["client"] = [f \in Fifos |-> "closed"]
    BY DEF Start, Goto, AllClosed
  <1>2. names' \subseteq Fifos /\ buf \in [Programs -> Messages]
    BY <1>1 DEF FifoInv, FifoEnds
  <1>3. CASE p = "echo"
    <2>1. \A f \in Fifos : end["echo"][f] = "closed" /\ end["client"][f] = "closed"
      BY <1>1, <1>3, FifoNames DEF FifoInv, FifoEnds, EchoApart, EchoMute
    <2>2. pc["client"] \in Joining /\ \A f \in Fifos : data[f] = << >>
      BY <2>1, FifoNames DEF FifoInv, FifoEnds, OneMessage, Joining
    <2>3. pc' = [pc EXCEPT !["echo"] = "mkfifo1"] /\ pc["echo"] = "off"
      BY <1>1, <1>3
    <2>4. pc'["echo"] = "mkfifo1"
      BY <2>3, FifoNames DEF FifoInv, FifoEnds
    <2>5. kills = 0 => Undisturbed'
      BY <1>1, <2>3, <2>4 DEF FifoInv, Undisturbed
    <2>6. /\ "mkfifo1" \in EchoLabels \ {"received"}
          /\ "mkfifo1" \in EchoApart /\ "off" \in EchoApart
          /\ "mkfifo1" \notin EchoHalf /\ "off" \notin EchoHalf
      BY DEF EchoLabels, EchoApart, EchoHalf, EchoMute
    <2> QED
      BY <1>1, <1>2, <2>2, <2>3, <2>5, <2>6, EchoGoes
  <1>4. CASE p = "client"
    <2>1. pc' = [pc EXCEPT !["client"] = "open1"] /\ pc["client"] = "off"
      BY <1>1, <1>4
    <2>2. buf' = [buf EXCEPT !["client"] = buf["client"]] /\ buf["client"] \in Messages
      BY <1>1, <1>2, FifoNames
    <2>3. "open1" \in UserLabels /\ "open1" \in Joining /\ "off" \in Joining
      BY DEF UserLabels, Joining
    <2> QED
      BY <1>1, <2>1, <2>2, <2>3, ClientGoes
  <1> QED
    BY <1>3, <1>4, FifoNames

(* mkfifo() finds no old FIFO unless a program was killed.                 *)
LEMMA MakeFIFOInv ==
    ASSUME FifoInv, MakeFIFOs
    PROVE  FifoInv'
  <1>1. PICK f \in Fifos, from \in EchoLabels, to \in EchoLabels :
           /\ MakeFIFO(f, from, to)
           /\ \/ f = "echo_fifo" /\ from = "mkfifo1" /\ to = "mkfifo2"
              \/ f = "client_fifo" /\ from = "mkfifo2" /\ to = "open1"
    BY FifoNames DEF MakeFIFOs, EchoLabels
  <1>2. pc["echo"] = from /\ UNCHANGED kills
    BY <1>1 DEF MakeFIFO, bounds
  <1>3. CASE f \in names
    <2>1. Ends("echo") /\ UNCHANGED names
      BY <1>1, <1>3 DEF MakeFIFO
    <2>2. kills' \in Nat \ {0}
      BY <1>1, <1>2, <1>3 DEF FifoInv, FifoEnds, Undisturbed
    <2> QED
      BY <2>1, <2>2, EchoEndsInv
  <1>4. CASE f \notin names
    <2>1. /\ pc' = [pc EXCEPT !["echo"] = to] /\ names' = names \cup {f}
          /\ UNCHANGED <<end, data, buf>>
      BY <1>1, <1>4 DEF MakeFIFO, Goto
    <2>2. names' \subseteq Fifos
      BY <2>1 DEF FifoInv, FifoEnds
    <2>3. pc'["echo"] = to
      BY <2>1, FifoNames DEF FifoInv, FifoEnds
    <2>4. kills = 0 => Undisturbed'
      BY <1>1, <1>2, <2>1, <2>3, FifoNames DEF FifoInv, Undisturbed
    <2>5. /\ to \in EchoLabels \ {"received"} /\ to \in EchoApart
          /\ to # "close2" /\ pc["echo"] # "close2"
          /\ pc["echo"] \in EchoApart /\ to \notin EchoHalf /\ pc["echo"] \notin EchoHalf
          /\ pc["echo"] \in Early
      BY <1>1, <1>2 DEF EchoLabels, EchoApart, EchoHalf, Early
    <2>6. /\ pc["client"] \in Joining
          /\ \A g \in Fifos : data[g] = << >>
      BY <2>5 DEF FifoInv, OneMessage
    <2> QED
      BY <1>2, <2>1, <2>2, <2>4, <2>5, <2>6, EchoGoes
  <1> QED
    BY <1>3, <1>4

(* What open() does to the ends of the FIFOs: the caller has its end, and  *)
(* echo's end is open for good only if the client has one too.             *)
LEMMA OpenEnds ==
    ASSUME FifoInv, NEW p \in Programs, NEW f \in Fifos,
           end' = IF end[Peer(p)][f] = "closed"
                  THEN [end EXCEPT ![p][f] = "opening"]
                  ELSE [q \in Programs |-> [end[q] EXCEPT ![f] = "open"]]
    PROVE  /\ end' \in [Programs -> [Fifos -> {"closed", "opening", "open"}]]
           /\ \A q \in Programs, g \in Fifos :
                 end'[q][g] = "closed" <=> end[q][g] = "closed" /\ ~(q = p /\ g = f)
           /\ \A g \in Fifos : end'["echo"][g] = "open" =>
                 end["echo"][g] = "open" \/ end'["client"][g] # "closed"
  <1>1. end \in [Programs -> [Fifos -> {"closed", "opening", "open"}]]
    BY DEF FifoInv, FifoEnds
  <1>2. Peer(p) \in Programs /\ \A q \in Programs : q = p \/ q = Peer(p)
    BY FifoNames
  <1>3. CASE end[Peer(p)][f] = "closed"
    <2>1. /\ end' \in [Programs -> [Fifos -> {"closed", "opening", "open"}]]
          /\ \A q \in Programs, g \in Fifos :
                end'[q][g] = IF q = p /\ g = f THEN "opening" ELSE end[q][g]
      BY <1>1, <1>3
    <2> QED
      BY <2>1, <1>1, FifoNames
  <1>4. CASE end[Peer(p)][f] # "closed"
    <2>1. /\ end' \in [Programs -> [Fifos -> {"closed", "opening", "open"}]]
          /\ \A q \in Programs, g \in Fifos :
                end'[q][g] = IF g = f THEN "open" ELSE end[q][g]
      BY <1>1, <1>4
    <2> QED
      BY <2>1, <1>1, <1>2, <1>4, FifoNames
  <1> QED
    BY <1>3, <1>4

(* open() by echo, which does not find its own FIFOs missing unless a      *)
(* program was killed.                                                     *)
LEMMA EchoOpenInv ==
    ASSUME FifoInv, NEW k \in {1, 2}, Open("echo", k)
    PROVE  FifoInv'
  <1> DEFINE f == IF k = 1 THEN "echo_fifo" ELSE "client_fifo"
             to == IF k = 1 THEN "opening1" ELSE "opening2"
  <1>1. /\ pc["echo"] = IF k = 1 THEN "open1" ELSE "open2"
        /\ UNCHANGED <<names, kills>>
        /\ IF f \notin names
           THEN Ends("echo")
           ELSE /\ pc' = [pc EXCEPT !["echo"] = to]
                /\ end' = IF end[Peer("echo")][f] = "closed"
                          THEN [end EXCEPT !["echo"][f] = "opening"]
                          ELSE [q \in Programs |-> [end[q] EXCEPT ![f] = "open"]]
                /\ UNCHANGED <<data, buf>>
    BY DEF Open, OpenOrder, Goto, bounds
  <1>2. f \in Fifos /\ to \in EchoLabels
    BY FifoNames DEF EchoLabels
  <1>3. CASE f \notin names
    <2>1. kills' \in Nat \ {0}
      BY <1>1, <1>2, <1>3 DEF FifoInv, FifoEnds, Undisturbed
    <2> QED
      BY <2>1, <1>1, <1>3, EchoEndsInv
  <1>4. CASE f \in names
    <2>1. /\ end' \in [Programs -> [Fifos -> {"closed", "opening", "open"}]]
          /\ \A q \in Programs, g \in Fifos :
                end'[q][g] = "closed" <=> end[q][g] = "closed" /\ ~(q = "echo" /\ g = f)
          /\ \A g \in Fifos : end'["echo"][g] = "open" =>
                end["echo"][g] = "open" \/ end'["client"][g] # "closed"
      BY <1>1, <1>2, <1>4, OpenEnds, FifoNames
    <2>2. /\ pc'["echo"] = to /\ pc'["client"] = pc["client"]
          /\ pc' \in [Programs -> EchoLabels \cup UserLabels]
      BY <1>1, <1>2, <1>4, FifoNames DEF FifoInv, FifoEnds
    <2>3. FifoEnds'
      BY <1>1, <1>2, <1>4, <2>1, <2>2, FifoNames
         DEF FifoInv, FifoEnds, EchoLabels, EchoApart, EchoHalf, EchoMute
    <2>4. pc["echo"] \in Early /\ to \in Early
      BY <1>1 DEF Early
    <2>5. pc["client"] \in Joining /\ \A g \in Fifos : data[g] = << >>
      BY <2>4 DEF FifoInv, OneMessage
    <2>6. OneMessage'
      BY <1>1, <1>4, <2>2, <2>4, <2>5, FifoNames DEF OneMessage, Joining, Early
    <2>7. kills = 0 => Undisturbed'
      <3>1. pc["echo"] # "opening2" /\ pc["echo"] \notin {"off", "mkfifo1", "mkfifo2", "unlink2"}
        BY <1>1
      <3>2. to = "opening2" => end["echo"]["client_fifo"] = "closed"
        BY <1>1 DEF FifoInv, FifoEnds, EchoHalf
      <3>3. to = "opening2" /\ end'["echo"]["client_fifo"] = "open"
              => end["client"]["client_fifo"] # "closed"
        BY <3>2, <2>1, FifoNames
      <3>4. to = "opening2" /\ end'["echo"]["client_fifo"] = "open"
              => pc["client"] \in {"opening2", "greeted"}
        BY <3>3, <2>5 DEF FifoInv, FifoEnds, Joining
      <3> QED
        BY <3>1, <3>4, <1>1, <2>2 DEF FifoInv, Undisturbed
    <2> QED
      BY <1>1, <2>3, <2>6, <2>7 DEF FifoInv
  <1> QED
    BY <1>3, <1>4

(* open() by the client.                                                   *)
LEMMA ClientOpenInv ==
    ASSUME FifoInv, NEW k \in {1, 2}, Open("client", k)
    PROVE  FifoInv'
  <1> DEFINE f == IF k = 1 THEN "echo_fifo" ELSE "client_fifo"
             to == IF k = 1 THEN "opening1" ELSE "opening2"
  <1>1. /\ pc["client"] = IF k = 1 THEN "open1" ELSE "open2"
        /\ UNCHANGED <<names, kills>>
        /\ IF f \notin names
           THEN Ends("client")
           ELSE /\ pc' = [pc EXCEPT !["client"] = to]
                /\ end' = IF end[Peer("client")][f] = "closed"
                          THEN [end EXCEPT !["client"][f] = "opening"]
                          ELSE [q \in Programs |-> [end[q] EXCEPT ![f] = "open"]]
                /\ UNCHANGED <<data, buf>>
    BY DEF Open, OpenOrder, Goto, bounds
  <1>2. f \in Fifos /\ to \in UserLabels /\ kills \in Nat
    BY FifoNames DEF UserLabels, FifoInv, FifoEnds
  <1>3. CASE f \notin names
    <2>1. Ends("client") /\ pc["client"] \notin {"opening2", "greeted", "answer"}
      BY <1>1, <1>3
    <2> QED
      BY <2>1, <1>1, <1>2, ClientEndsInv
  <1>4. CASE f \in names
    <2>1. /\ end' \in [Programs -> [Fifos -> {"closed", "opening", "open"}]]
          /\ \A q \in Programs, g \in Fifos :
                end'[q][g] = "closed" <=> end[q][g] = "closed" /\ ~(q = "client" /\ g = f)
          /\ \A g \in Fifos : end'["echo"][g] = "open" =>
                end["echo"][g] = "open" \/ end'["client"][g] # "closed"
      BY <1>1, <1>2, <1>4, OpenEnds, FifoNames
    <2>2. /\ pc'["client"] = to /\ pc'["echo"] = pc["echo"]
          /\ pc' \in [Programs -> EchoLabels \cup UserLabels]
      BY <1>1, <1>2, <1>4, FifoNames DEF FifoInv, FifoEnds
    <2>3. FifoEnds'
      BY <1>1, <1>2, <1>4, <2>1, <2>2, FifoNames DEF FifoInv, FifoEnds, UserLabels
    <2>4. OneMessage'
      BY <1>1, <1>4, <2>1, <2>2, FifoNames DEF FifoInv, OneMessage, Joining
    <2>5. kills = 0 => Undisturbed'
      <3>1. end'["client"]["client_fifo"] # "closed" => to = "opening2"
        BY <2>2, <2>3 DEF FifoEnds
      <3>2. end'["echo"]["client_fifo"] = "open" =>
               end["echo"]["client_fifo"] = "open" \/ to = "opening2"
        BY <3>1, <2>1, FifoNames
      <3> QED
        BY <3>2, <1>1, <1>4, <2>2 DEF FifoInv, Undisturbed
    <2> QED
      BY <1>1, <2>3, <2>4, <2>5 DEF FifoInv
  <1> QED
    BY <1>3, <1>4

(* open() returns.                                                         *)
LEMMA OpenedInv ==
    ASSUME FifoInv, NEW p \in Programs, NEW k \in {1, 2}, Opened(p, k)
    PROVE  FifoInv'
  <1> DEFINE from == IF k = 1 THEN "opening1" ELSE "opening2"
             to == IF k = 1 THEN "open2"
                   ELSE IF p = "echo" THEN "welcome" ELSE "greeted"
  <1>1. /\ pc[p] = from /\ pc' = [pc EXCEPT ![p] = to]
        /\ k = 2 => end[p]["client_fifo"] = "open"
        /\ UNCHANGED <<names, end, data, buf, kills>>
    <2>1. CASE k = 1
      BY <2>1 DEF Opened, OpenOrder, Goto, bounds
    <2>2. CASE k = 2
      BY <2>2 DEF Opened, OpenOrder, Goto, bounds
    <2> QED
      BY <2>1, <2>2
  <1>2. names' \subseteq Fifos /\ buf \in [Programs -> Messages]
    BY <1>1 DEF FifoInv, FifoEnds
  <1>3. CASE p = "echo"
    <2>1. /\ to \in EchoLabels \ {"received"} /\ to \notin EchoApart /\ from \notin EchoApart
          /\ to # "close2" /\ from # "close2"
          /\ to \in EchoHalf <=> from \in EchoHalf
          /\ from \in Early
      BY <1>3 DEF EchoLabels, EchoApart, EchoHalf, Early
    <2>2. pc["client"] \in Joining /\ \A g \in Fifos : data[g] = << >>
      BY <2>1, <1>1, <1>3 DEF FifoInv, OneMessage
    <2>3. pc'["echo"] = to /\ pc'["client"] = pc["client"]
      BY <1>1, <1>3, FifoNames DEF FifoInv, FifoEnds
    <2>4. kills = 0 => Undisturbed'
      BY <1>1, <1>3, <2>3 DEF FifoInv, Undisturbed
    <2>5. pc' = [pc EXCEPT !["echo"] = to] /\ pc["echo"] = from
      BY <1>1, <1>3
    <2> HIDE DEF to, from
    <2> QED
      BY <1>1, <1>2, <2>1, <2>2, <2>4, <2>5, EchoGoes
  <1>4. CASE p = "client"
    <2>1. /\ to \in UserLabels /\ to \in Joining /\ from \in Joining
          /\ to \in {"opening1", "open2"} <=> from \in {"opening1", "open2"}
          /\ to \notin {"off", "open1", "insert", "send", "answer"}
          /\ from \notin {"off", "open1", "answer"}
          /\ from \in {"opening2", "greeted"} => to \in {"opening2", "greeted"}
      BY <1>4 DEF UserLabels, Joining
    <2>2. buf' = [buf EXCEPT !["client"] = buf["client"]] /\ buf["client"] \in Messages
      BY <1>1, <1>2, FifoNames
    <2>3. pc' = [pc EXCEPT !["client"] = to] /\ pc["client"] = from
      BY <1>1, <1>4
    <2> HIDE DEF to, from
    <2> QED
      BY <1>1, <2>1, <2>2, <2>3, ClientGoes
  <1> QED
    BY <1>3, <1>4, FifoNames

(* echo reads a line; it is the only message.                              *)
LEMMA EchoReceivesInv ==
    ASSUME FifoInv, EchoReceives
    PROVE  FifoInv'
  <1>1. /\ data["client_fifo"] # << >> /\ pc["echo"] = "read"
        /\ pc' = [pc EXCEPT !["echo"] = "received"]
        /\ buf' = [buf EXCEPT !["echo"] = Head(data["client_fifo"])]
        /\ data' = [data EXCEPT !["client_fifo"] = Tail(data["client_fifo"])]
        /\ UNCHANGED <<names, end, kills>>
    BY FifoNames DEF EchoReceives, Read, Goto, bounds
  <1>2. PICK m \in Messages : data["client_fifo"] = <<m>>
    BY <1>1, FifoNames DEF FifoInv, OneMessage
  <1>3. /\ buf' = [buf EXCEPT !["echo"] = m]
        /\ data' = [data EXCEPT !["client_fifo"] = << >>]
    BY <1>1, <1>2, Single
  <1>4. /\ data \in [Fifos -> Seq(Messages)] /\ buf \in [Programs -> Messages]
        /\ pc \in [Programs -> EchoLabels \cup UserLabels]
        /\ data["echo_fifo"] = << >>
    BY <1>1 DEF FifoInv, FifoEnds, OneMessage
  <1>5. /\ pc'["echo"] = "received" /\ pc'["client"] = pc["client"]
        /\ buf'["echo"] = m /\ buf'["client"] = buf["client"]
        /\ \A f \in Fifos : data'[f] = << >>
    BY <1>1, <1>3, <1>4, FifoNames
  <1>6. /\ data' \in [Fifos -> Seq(Messages)] /\ buf' \in [Programs -> Messages]
        /\ pc' \in [Programs -> EchoLabels \cup UserLabels]
    BY <1>1, <1>3, <1>4, FifoNames DEF EchoLabels
  <1>7. FifoEnds'
    BY <1>1, <1>5, <1>6 DEF FifoInv, FifoEnds, EchoLabels, EchoApart, EchoHalf, EchoMute
  <1>8. /\ pc["client"] \notin {"insert", "send"}
        /\ pc["client"] = "answer" => m = buf["client"]
    BY <1>1, <1>2, FifoNames, Single DEF FifoInv, OneMessage
  <1>9. OneMessage'
    BY <1>5, <1>8, FifoNames DEF OneMessage, Early
  <1>10. kills = 0 => Undisturbed'
    <2>1. m # QUIT => data["client_fifo"] \notin {<< >>, <<QUIT>>}
      BY <1>1, <1>2
    <2> QED
      BY <2>1, <1>1, <1>5 DEF FifoInv, Undisturbed
  <1> QED
    BY <1>1, <1>7, <1>9, <1>10 DEF FifoInv

(* The client reads a message, the welcome or an answer; then there is     *)
(* none.  The answer is the line in its buffer.                            *)
LEMMA ClientReadsInv ==
    ASSUME FifoInv, ReadWelcome \/ ReadAnswer
    PROVE  /\ FifoInv'
           /\ pc["client"] = "answer" => buf'["client"] = buf["client"]
  <1>1. /\ data["echo_fifo"] # << >> /\ pc["client"] \in {"greeted", "answer"}
        /\ pc' = [pc EXCEPT !["client"] = "insert"]
        /\ buf' = [buf EXCEPT !["client"] = Head(data["echo_fifo"])]
        /\ data' = [data EXCEPT !["echo_fifo"] = Tail(data["echo_fifo"])]
        /\ UNCHANGED <<names, end, kills>>
    BY FifoNames DEF ReadWelcome, ReadAnswer, Read, Goto, bounds
  <1>2. PICK m \in Messages : data["echo_fifo"] = <<m>>
    BY <1>1, FifoNames DEF FifoInv, OneMessage
  <1>3. /\ buf' = [buf EXCEPT !["client"] = m]
        /\ data' = [data EXCEPT !["echo_fifo"] = << >>]
    BY <1>1, <1>2, Single
  <1>4. /\ data \in [Fifos -> Seq(Messages)] /\ buf \in [Programs -> Messages]
        /\ pc \in [Programs -> EchoLabels \cup UserLabels]
        /\ data["client_fifo"] = << >>
    BY <1>1 DEF FifoInv, FifoEnds, OneMessage
  <1>5. /\ pc'["client"] = "insert" /\ pc'["echo"] = pc["echo"]
        /\ buf'["client"] = m /\ buf'["echo"] = buf["echo"]
        /\ \A f \in Fifos : data'[f] = << >>
    BY <1>1, <1>3, <1>4, FifoNames
  <1>6. /\ data' \in [Fifos -> Seq(Messages)] /\ buf' \in [Programs -> Messages]
        /\ pc' \in [Programs -> EchoLabels \cup UserLabels]
    BY <1>1, <1>3, <1>4, FifoNames DEF UserLabels
  <1>7. FifoEnds'
    BY <1>1, <1>5, <1>6 DEF FifoInv, FifoEnds, UserLabels
  <1>8. /\ pc["echo"] # "received" /\ pc["echo"] \notin Early
        /\ pc["client"] = "answer" => m = buf["client"]
    BY <1>1, <1>2, FifoNames, Single DEF FifoInv, OneMessage
  <1>9. OneMessage'
    BY <1>5, <1>8, FifoNames DEF OneMessage
  <1>10. kills = 0 => Undisturbed'
    BY <1>1, <1>5, <1>8, FifoNames DEF FifoInv, Undisturbed, Early
  <1> QED
    BY <1>1, <1>5, <1>7, <1>8, <1>9, <1>10 DEF FifoInv

(* echo sends its welcome or the line back; without a signal there is a    *)
(* client that has the FIFO open.                                          *)
LEMMA EchoWritesInv ==
    ASSUME FifoInv, NEW m \in Messages, NEW from \in {"welcome", "received"},
           Write("echo", m, from, "read"),
           from = "received" => m = buf["echo"] /\ m # QUIT
    PROVE  FifoInv'
  <1>1. /\ pc["echo"] = from /\ UNCHANGED <<names, kills>>
        /\ IF end["client"]["echo_fifo"] = "closed"
           THEN Ends("echo")
           ELSE /\ pc' = [pc EXCEPT !["echo"] = "read"]
                /\ data' = [data EXCEPT !["echo_fifo"] = Append(data["echo_fifo"], m)]
                /\ UNCHANGED <<end, buf>>
    BY FifoNames DEF Write, Goto, bounds
  <1>2. CASE end["client"]["echo_fifo"] = "closed"
    <2>1. pc["client"] \in {"off", "open1"}
      BY <1>2 DEF FifoInv, FifoEnds
    <2>2. kills' \in Nat \ {0}
      <3>1. kills \in Nat
        BY DEF FifoInv, FifoEnds
      <3>2. kills = 0 => pc["client"] \in {"opening2", "greeted", "answer"}
        BY <1>1 DEF FifoInv, Undisturbed
      <3> QED
        BY <3>1, <3>2, <1>1, <2>1
    <2> QED
      BY <2>2, <1>1, <1>2, EchoEndsInv
  <1>3. CASE end["client"]["echo_fifo"] # "closed"
    <2>1. /\ data \in [Fifos -> Seq(Messages)]
          /\ pc \in [Programs -> EchoLabels \cup UserLabels]
          /\ \A f \in Fifos : data[f] = << >>
      BY <1>1 DEF FifoInv, FifoEnds, OneMessage, Early
    <2>2. data' = [data EXCEPT !["echo_fifo"] = <<m>>]
      BY <1>1, <1>3, <2>1, Single, FifoNames
    <2>3. /\ data'["echo_fifo"] = <<m>> /\ data'["client_fifo"] = << >>
          /\ pc'["echo"] = "read" /\ pc'["client"] = pc["client"]
      BY <1>1, <1>3, <2>1, <2>2, FifoNames
    <2>4. /\ data' \in [Fifos -> Seq(Messages)]
          /\ pc' \in [Programs -> EchoLabels \cup UserLabels]
      BY <1>1, <1>3, <2>1, <2>2, FifoNames DEF EchoLabels
    <2>5. FifoEnds'
      BY <1>1, <1>3, <2>3, <2>4 DEF FifoInv, FifoEnds, EchoLabels, EchoApart, EchoHalf, EchoMute
    <2>6. /\ pc["client"] \notin {"insert", "send"}
          /\ pc["client"] = "answer" => from = "received" /\ m = buf["client"]
      BY <1>1 DEF FifoInv, OneMessage, Early, Joining
    <2>7. OneMessage'
      BY <1>1, <1>3, <2>3, <2>6, FifoNames, Single DEF OneMessage, Early
    <2>8. kills = 0 => Undisturbed'
      BY <1>1, <1>3, <2>3 DEF FifoInv, Undisturbed
    <2> QED
      BY <1>1, <2>5, <2>7, <2>8 DEF FifoInv
  <1> QED
    BY <1>2, <1>3

(* The client sends its line while no other message is under way.          *)
LEMMA SendLineInv ==
    ASSUME FifoInv, SendLine
    PROVE  FifoInv'
  <1> DEFINE to == IF buf["client"] = QUIT THEN "close" ELSE "answer"
  <1>1. /\ pc["client"] = "send" /\ UNCHANGED <<names, kills>>
        /\ IF end["echo"]["client_fifo"] = "closed"
           THEN Ends("client")
           ELSE /\ pc' = [pc EXCEPT !["client"] = to]
                /\ data' = [data EXCEPT !["client_fifo"] =
                               Append(data["client_fifo"], buf["client"])]
                /\ UNCHANGED <<end, buf>>
    BY FifoNames DEF SendLine, Write, Goto, bounds, QUIT
  <1>2. CASE end["echo"]["client_fifo"] = "closed"
    <2>1. kills' \in Nat /\ Ends("client")
      BY <1>1, <1>2 DEF FifoInv, FifoEnds
    <2> QED
      BY <2>1, <1>1, ClientEndsInv
  <1>3. CASE end["echo"]["client_fifo"] # "closed"
    <2>1. /\ data \in [Fifos -> Seq(Messages)] /\ buf["client"] \in Messages
          /\ pc \in [Programs -> EchoLabels \cup UserLabels]
          /\ \A f \in Fifos : data[f] = << >>
          /\ pc["echo"] # "received" /\ pc["echo"] \notin Early
      BY <1>1, FifoNames DEF FifoInv, FifoEnds, OneMessage, Joining
    <2>2. data' = [data EXCEPT !["client_fifo"] = <<buf["client"]>>]
      BY <1>1, <1>3, <2>1, Single, FifoNames
    <2>3. /\ data'["client_fifo"] = <<buf["client"]>> /\ data'["echo_fifo"] = << >>
          /\ pc'["client"] = to /\ pc'["echo"] = pc["echo"]
      BY <1>1, <1>3, <2>1, <2>2, FifoNames
    <2>4. /\ data' \in [Fifos -> Seq(Messages)]
          /\ pc' \in [Programs -> EchoLabels \cup UserLabels]
      BY <1>1, <1>3, <2>1, <2>2, FifoNames DEF UserLabels
    <2>5. FifoEnds'
      BY <1>1, <1>3, <2>3, <2>4 DEF FifoInv, FifoEnds, UserLabels
    <2>6. OneMessage'
      BY <1>1, <1>3, <2>1, <2>3, FifoNames, Single DEF OneMessage
    <2>7. kills = 0 => Undisturbed'
      BY <1>1, <1>3, <2>1, <2>3 DEF FifoInv, Undisturbed, Early
    <2> QED
      BY <1>1, <2>5, <2>6, <2>7 DEF FifoInv
  <1> QED
    BY <1>2, <1>3

(* The user types a line.                                                  *)
LEMMA InsertLineInv ==
    ASSUME FifoInv, InsertLine
    PROVE  FifoInv'
  <1>1. PICK line \in Lines :
           /\ buf' = [buf EXCEPT !["client"] = line]
           /\ Goto("client", "insert", IF line = Empty THEN "answer" ELSE "send")
           /\ UNCHANGED <<names, end, data, bounds>>
    BY DEF InsertLine
  <1> DEFINE to == IF line = Empty THEN "answer" ELSE "send"
  <1>2. /\ pc["client"] = "insert" /\ pc' = [pc EXCEPT !["client"] = to]
        /\ UNCHANGED <<names, end, data, kills>> /\ line \in Messages
    BY <1>1 DEF Goto, bounds, Messages
  <1>3. /\ to \in UserLabels /\ to \notin Joining /\ "insert" \notin Joining
        /\ to \notin {"off", "open1", "opening1", "open2"}
    BY DEF UserLabels, Joining
  <1> HIDE DEF to
  <1> QED
    BY <1>1, <1>2, <1>3, ClientGoes

(* The client ends by itself: it sent nothing that is not answered, or     *)
(* echo has closed the FIFO.                                               *)
LEMMA ClientExitsInv ==
    ASSUME FifoInv, ClientExits
    PROVE  FifoInv'
  <1>1. /\ \/ pc["client"] \in {"insert", "close"}
           \/ end["echo"]["echo_fifo"] = "closed"
        /\ Ends("client") /\ UNCHANGED <<names, kills>>
    BY FifoNames DEF ClientExits, AtEOF, bounds
  <1>2. kills \in Nat
    BY DEF FifoInv, FifoEnds
  <1>3. pc["echo"] \in EchoMute \/ pc["client"] \notin {"opening2", "greeted", "answer"}
    BY <1>1 DEF FifoInv, FifoEnds
  <1> QED
    BY <1>1, <1>2, <1>3, ClientEndsInv

(* echo quits, or finds that the client vanished.                          *)
LEMMA EchoLeavesInv ==
    ASSUME FifoInv, EchoQuits \/ ClientVanished
    PROVE  FifoInv'
  <1>1. /\ pc["echo"] \in {"received", "read"}
        /\ pc' = [pc EXCEPT !["echo"] = "clean"]
        /\ UNCHANGED <<names, end, data, buf, kills>>
    BY DEF EchoQuits, ClientVanished, Goto, bounds
  <1>2. /\ "clean" \in EchoLabels \ {"received"} /\ "clean" \notin Early
        /\ {"clean", "received", "read"} \cap (EchoApart \cup EchoHalf) = {}
    BY DEF EchoLabels, EchoApart, EchoHalf, Early
  <1>3. pc'["echo"] = "clean" /\ names' \subseteq Fifos
    BY <1>1, FifoNames DEF FifoInv, FifoEnds
  <1>4. kills = 0 => Undisturbed'
    BY <1>1, <1>3 DEF FifoInv, Undisturbed
  <1> QED
    BY <1>1, <1>2, <1>3, <1>4, EchoGoes

(* cleanFIFOs closes a descriptor, first that of echo_fifo.                *)
LEMMA CloseInv ==
    ASSUME FifoInv,
           \/ CloseFIFO("echo_fifo", "clean", "close2")
           \/ CloseFIFO("client_fifo", "close2", "unlink1")
    PROVE  FifoInv'
  <1>1. PICK f \in Fifos, to \in {"close2", "unlink1"} :
           /\ \/ f = "echo_fifo" /\ pc["echo"] = "clean" /\ to = "close2"
              \/ f = "client_fifo" /\ pc["echo"] = "close2" /\ to = "unlink1"
           /\ pc' = [pc EXCEPT !["echo"] = to]
           /\ end' = [end EXCEPT !["echo"][f] = "closed"]
           /\ data' = [data EXCEPT ![f] =
                         IF end["client"][f] = "closed" THEN << >> ELSE data[f]]
           /\ UNCHANGED <<names, buf, kills>>
    BY FifoNames DEF CloseFIFO, Goto, bounds
  <1>2. /\ end \in [Programs -> [Fifos -> {"closed", "opening", "open"}]]
        /\ data \in [Fifos -> Seq(Messages)]
        /\ pc \in [Programs -> EchoLabels \cup UserLabels]
    BY DEF FifoInv, FifoEnds
  <1>3. /\ pc' \in [Programs -> EchoLabels \cup UserLabels]
        /\ pc'["echo"] = to /\ pc'["client"] = pc["client"]
    BY <1>1, <1>2, FifoNames DEF EchoLabels
  <1>4. /\ end' \in [Programs -> [Fifos -> {"closed", "opening", "open"}]]
        /\ end'["client"] = end["client"]
        /\ \A g \in Fifos :
              end'["echo"][g] = IF g = f THEN "closed" ELSE end["echo"][g]
    BY <1>1, <1>2, FifoNames
  <1>5. /\ data' \in [Fifos -> Seq(Messages)]
        /\ \A g \in Fifos : data'[g] =
              IF g = f /\ end["client"][g] = "closed" THEN << >> ELSE data[g]
    BY <1>1, <1>2
  <1>6. FifoEnds'
    BY <1>1, <1>3, <1>4, <1>5, FifoNames
       DEF FifoInv, FifoEnds, EchoLabels, EchoApart, EchoHalf, EchoMute
  <1>7. OneMessage'
    <2>1. to # "received" /\ to \notin Early
      BY <1>1 DEF Early
    <2> QED
      BY <2>1, <1>1, <1>3, <1>4, <1>5, FifoNames DEF FifoInv, OneMessage
  <1>8. kills = 0 => Undisturbed'
    BY <1>1, <1>3 DEF FifoInv, Undisturbed
  <1> QED
    BY <1>1, <1>6, <1>7, <1>8 DEF FifoInv

(* cleanFIFOs closes the descriptors and removes the names one by one.     *)
LEMMA CleanInv ==
    ASSUME FifoInv, cleanFIFOs
    PROVE  FifoInv'
  <1>1. names \subseteq Fifos /\ kills \in Nat
    BY DEF FifoInv, FifoEnds
  <1>2. CASE \/ CloseFIFO("echo_fifo", "clean", "close2")
            \/ CloseFIFO("client_fifo", "close2", "unlink1")
    BY <1>2, CloseInv
  <1>3. CASE UnlinkEchoFIFO
    <2>1. /\ pc["echo"] = "unlink1" /\ pc' = [pc EXCEPT !["echo"] = "unlink2"]
          /\ names' = names \ {"echo_fifo"} /\ UNCHANGED <<end, data, buf, kills>>
      BY <1>3 DEF UnlinkEchoFIFO, Goto, bounds
    <2>2. /\ "unlink2" \in EchoLabels \ {"received"} /\ "unlink2" \notin Early
          /\ {"unlink1", "unlink2"} \subseteq EchoApart
          /\ {"unlink1", "unlink2"} \cap EchoHalf = {}
      BY DEF EchoLabels, EchoApart, EchoHalf, Early
    <2>3. pc'["echo"] = "unlink2" /\ names' \subseteq Fifos
      BY <1>1, <2>1, FifoNames DEF FifoInv, FifoEnds
    <2>4. kills = 0 => Undisturbed'
      BY <2>1, <2>3, FifoNames DEF FifoInv, Undisturbed
    <2> QED
      BY <2>1, <2>2, <2>3, <2>4, EchoGoes
  <1>4. CASE UnlinkClientFIFO
    <2>1. /\ pc["echo"] = "unlink2" /\ pc' = [pc EXCEPT !["echo"] = "off"]
          /\ names' = names \ {"client_fifo"} /\ UNCHANGED <<end, data, buf, kills>>
      BY <1>4 DEF UnlinkClientFIFO, Goto, bounds
    <2>2. /\ "off" \in EchoLabels \ {"received"} /\ "off" \notin Early
          /\ {"off", "unlink2"} \subseteq EchoApart
          /\ {"off", "unlink2"} \cap EchoHalf = {}
      BY DEF EchoLabels, EchoApart, EchoHalf, Early
    <2>3. pc'["echo"] = "off" /\ names' \subseteq Fifos
      BY <1>1, <2>1, FifoNames DEF FifoInv, FifoEnds
    <2>4. kills = 0 => Undisturbed'
      BY <2>1, <2>3 DEF FifoInv, Undisturbed
    <2> QED
      BY <2>1, <2>2, <2>3, <2>4, EchoGoes
  <1> QED
    BY <1>2, <1>3, <1>4 DEF cleanFIFOs

(* Every step of the two programs.                                         *)
LEMMA FifoNextInv == FifoInv /\ [FIFONext]_fifoVars => FifoInv'
  <1> SUFFICES ASSUME FifoInv, [FIFONext]_fifoVars PROVE FifoInv'
    OBVIOUS
  <1>1. CASE UNCHANGED fifoVars
    <2>1. UNCHANGED <<names, end, data, pc, buf, kills>>
      BY <1>1 DEF fifoVars
    <2> QED
      BY <2>1 DEF FifoInv, FifoEnds, OneMessage, Undisturbed, Programs, Fifos
  <1>2. CASE EchoStep
    <2>1. CASE \E k \in {1, 2} : Open("echo", k) \/ Opened("echo", k)
      BY <2>1, EchoOpenInv, OpenedInv, FifoNames
    <2>2. CASE WriteWelcome
      <3>1. Welcome \in Messages
        BY DEF Messages
      <3> QED
        BY <2>2, <3>1, EchoWritesInv DEF WriteWelcome
    <2>3. CASE WriteBack
      <3>1. buf["echo"] \in Messages /\ buf["echo"] # QUIT
        BY <2>3, FifoNames DEF WriteBack, FifoInv, FifoEnds, QUIT
      <3> QED
        BY <2>3, <3>1, EchoWritesInv DEF WriteBack
    <2>4. CASE \/ MakeFIFOs \/ EchoReceives \/ EchoQuits
               \/ ClientVanished \/ cleanFIFOs
      BY <2>4, MakeFIFOInv, EchoReceivesInv, EchoLeavesInv, CleanInv
    <2> QED
      BY <1>2, <2>1, <2>2, <2>3, <2>4 DEF EchoStep
  <1>3. CASE FIFOClientStep
    <2>1. CASE \E k \in {1, 2} : Open("client", k) \/ Opened("client", k)
      BY <2>1, ClientOpenInv, OpenedInv, FifoNames
    <2>2. CASE \/ ReadWelcome \/ InsertLine \/ SendLine
               \/ ReadAnswer \/ ClientExits
      BY <2>2, ClientReadsInv, InsertLineInv, SendLineInv, ClientExitsInv
    <2> QED
      BY <1>3, <2>1, <2>2 DEF FIFOClientStep
  <1>4. CASE \E p \in Programs : Start(p) \/ Kill(p)
    BY <1>4, StartInv, KillInv
  <1> QED
    BY <1>1, <1>2, <1>3, <1>4 DEF FIFONext, FIFOOver

(* Only ReadAnswer takes the client from waiting for its answer to the     *)
(* next line.                                                              *)
LEMMA OnlyReadAnswer ==
    ASSUME FifoInv, [FIFONext]_fifoVars, pc["client"] = "answer",
           pc'["client"] = "insert"
    PROVE  ReadAnswer
  <1>1. pc \in [Programs -> EchoLabels \cup UserLabels]
    BY DEF FifoInv, FifoEnds
  <1>2. \A to : pc' # [pc EXCEPT !["echo"] = to]
    BY <1>1, FifoNames
  <1>3. pc' # pc /\ \A to : pc' = [pc EXCEPT !["client"] = to] => to = "insert"
    BY <1>1, FifoNames
  <1>4. ~Ends("echo") /\ ~Ends("client")
    BY <1>2, <1>3 DEF Ends
  <1>5. ~EchoStep
    <2>1. ~MakeFIFOs
      BY <1>2, <1>4 DEF MakeFIFOs, MakeFIFO, Goto
    <2>2. \A k \in {1, 2} : ~Open("echo", k) /\ ~Opened("echo", k)
      BY <1>2, <1>4 DEF Open, Opened, Goto
    <2>3. ~WriteWelcome /\ ~WriteBack
      BY <1>2, <1>4 DEF WriteWelcome, WriteBack, Write, Goto
    <2>4. ~EchoReceives /\ ~EchoQuits /\ ~ClientVanished
      BY <1>2 DEF EchoReceives, Read, EchoQuits, ClientVanished,
                  Goto
    <2>5. ~cleanFIFOs
      BY <1>2 DEF cleanFIFOs, CloseFIFO, UnlinkEchoFIFO,
                  UnlinkClientFIFO, Goto
    <2> QED
      BY <2>1, <2>2, <2>3, <2>4, <2>5 DEF EchoStep
  <1>6. \A p \in Programs : ~Start(p) /\ ~Kill(p)
    <2>1. ~Kill("echo") /\ ~Kill("client")
      BY <1>4 DEF Kill
    <2>2. ~Start("echo") /\ ~Start("client")
      BY <1>2 DEF Start, Goto
    <2> QED
      BY <2>1, <2>2, FifoNames
  <1>7. FIFOClientStep
    BY <1>3, <1>5, <1>6 DEF FIFONext, FIFOOver, fifoVars
  <1>8. \A k \in {1, 2} : ~Open("client", k) /\ ~Opened("client", k)
    BY <1>4 DEF Open, Opened, Goto
  <1>9. ~ReadWelcome /\ ~InsertLine /\ ~SendLine /\ ~ClientExits
    BY <1>4 DEF ReadWelcome, Read, InsertLine, SendLine,
                Write, ClientExits, Goto
  <1> QED
    BY <1>7, <1>8, <1>9 DEF FIFOClientStep

(* lab09 EchoFIFO: the invariant holds in every reachable state.           *)
LEMMA FifoInvariance == FIFOSpec => []FifoInv
  BY FifoInitInv, FifoNextInv, PTL DEF FIFOSpec

(* lab09 EchoFIFO: for any texts, and any number of runs and signals, what *)
(* the client takes for its answer is the line it sent.                    *)
THEOREM AnswersEcho == FIFOSpec => AnswersAreEchoes
  <1>1. FifoInv /\ [FIFONext]_fifoVars =>
           [pc["client"] = "answer" /\ pc'["client"] = "insert"
              => buf'["client"] = buf["client"]]_fifoVars
    BY OnlyReadAnswer, ClientReadsInv
  <1> QED
    BY <1>1, FifoInvariance, PTL DEF FIFOSpec, AnswersAreEchoes

(* lab09 EchoFIFO: unless a program is killed, echo leaves no FIFO behind, *)
(* however often the programs are started and whatever is typed.           *)
THEOREM NoFIFOLeft == FIFOSpec => []FIFOsRemoved
  <1>1. FifoInv => FIFOsRemoved
    BY DEF FifoInv, Undisturbed, FIFOsRemoved
  <1> QED
    BY <1>1, FifoInvariance, PTL
=============================================================================
