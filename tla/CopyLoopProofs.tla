---------------------------- MODULE CopyLoopProofs --------------------------
(***************************************************************************)
(* For any block size, any sizes of source and destination, any split of   *)
(* the data by read() and write() and any number of threads that log: the  *)
(* destination holds what was read, in order and in its place, and         *)
(* everything when the loop has seen the end of its source.                *)
(***************************************************************************)
EXTENDS CopyLoop, SequenceTheorems, TLAPS

PCs == {"close", "sigaction", "reset", "read", "write", "check", "eof", "told",
        "closed", "dead"}
Labels == {"startup", "boot", "accept", "create", "kill", "exit", "unborn",
           "start", "echo", "end", "over", "gone"}

\* Where the copy begins in the destination, and the bytes copied so far.
Start == IF program = "copy" THEN 0 ELSE old
Done  == taken - (Len(buf) - written)

Types ==
    /\ program \in {"copy", "logger"}
    /\ supply \in Nat /\ taken \in Nat /\ taken <= supply
    /\ buf \in Seq(Nat) /\ Len(buf) <= BlockSize
    /\ written \in Nat /\ written <= Len(buf) /\ Len(buf) <= taken
    /\ old \in Nat
    /\ pc \in PCs
    /\ thread \in [Threads -> Labels]

(* The block holds the last bytes read; those before the next one to write *)
(* are in the destination, which ends the block when it has them all.      *)
Block ==
    /\ \A j \in 1 .. Len(buf) : buf[j] = taken - Len(buf) + j
    /\ pc \notin {"write", "dead"} => written = 0
    /\ pc = "write" => written < Len(buf)
    /\ offset = Start + Done

(* Who read the end of the source has no more to come: no thread is left.  *)
Ending ==
    /\ ServerGone => \A t \in Threads : thread[t] = "gone"
    /\ pc = "eof" => taken = supply /\ buf = << >> /\ ServerGone

IInv == Types /\ Block /\ Ending /\ CopiedInOrder

-----------------------------------------------------------------------------
(* The larger of two numbers.                                              *)
LEMMA MaxOfFacts ==
    ASSUME NEW a \in Int, NEW b \in Int
    PROVE  MaxOf(a, b) \in {a, b} /\ MaxOf(a, b) >= a /\ MaxOf(a, b) >= b
  BY DEF MaxOf

(* The next n bytes of the source, written behind the first m, extend the  *)
(* copy to m + n bytes.                                                    *)
LEMMA WriteExtends ==
    ASSUME Types, NEW m \in Nat, NEW n \in Nat, NEW bytes \in Seq(Nat),
           Len(bytes) = n, \A j \in 1 .. n : bytes[j] = m + j,
           dest = Copied(m), offset = Start + m
    PROVE  Overwrite(bytes) = Copied(m + n)
  <1> DEFINE s == Start
             l == MaxOf(old, s + m)
             f == MaxOf(l, offset + n)
  <1>1. s \in Nat /\ old \in Nat /\ offset \in Nat
    BY DEF Start, Types
  <1>2. dest = [i \in 1 .. l |-> IF i \in s + 1 .. s + m THEN i - s ELSE 0]
    BY DEF Copied, Start
  <1>3. l \in Nat /\ l >= old /\ l >= s + m /\ l \in {old, s + m}
    BY <1>1, MaxOfFacts
  <1>4. f \in Nat /\ f >= l /\ f >= s + m + n /\ f \in {l, s + m + n}
    BY <1>1, <1>3, MaxOfFacts
  <1>5. MaxOf(old, s + (m + n)) = f
    <2>1. /\ MaxOf(old, s + (m + n)) \in {old, s + (m + n)}
          /\ MaxOf(old, s + (m + n)) >= old /\ MaxOf(old, s + (m + n)) >= s + (m + n)
      BY <1>1, MaxOfFacts
    <2> HIDE DEF l, f, s
    <2> QED
      BY <2>1, <1>1, <1>3, <1>4
  <1>6. Len(dest) = l
    BY <1>2, <1>3
  <1>7. Overwrite(bytes) = [i \in 1 .. f |->
                              IF i \in offset + 1 .. offset + n
                              THEN bytes[i - offset] ELSE dest[i]]
    BY <1>6 DEF Overwrite
  <1>8. Copied(m + n) = [i \in 1 .. f |-> IF i \in s + 1 .. s + (m + n)
                                          THEN i - s ELSE 0]
    BY <1>5 DEF Copied, Start
  <1>9. ASSUME NEW i \in 1 .. f
        PROVE  (IF i \in offset + 1 .. offset + n THEN bytes[i - offset] ELSE dest[i])
               = IF i \in s + 1 .. s + (m + n) THEN i - s ELSE 0
    <2> HIDE DEF s, l, f
    <2>1. CASE i \in offset + 1 .. offset + n
      <3>1. i - offset \in 1 .. n /\ m + (i - offset) = i - s
        BY <2>1, <1>1, <1>4 DEF s
      <3>2. bytes[i - offset] = i - s
        BY <3>1
      <3>3. i \in s + 1 .. s + (m + n)
        BY <2>1, <1>1, <1>4 DEF s
      <3> QED
        BY <2>1, <3>2, <3>3
    <2>2. CASE i \notin offset + 1 .. offset + n
      <3>1. i \in 1 .. l /\ (i \in s + 1 .. s + (m + n) <=> i \in s + 1 .. s + m)
        BY <2>2, <1>1, <1>3, <1>4 DEF s
      <3> QED
        BY <2>2, <3>1, <1>2
    <2> QED
      BY <2>1, <2>2
  <1> HIDE DEF s, l, f
  <1> QED
    BY <1>7, <1>8, <1>9

-----------------------------------------------------------------------------
(* Nothing is read or written at first.                                    *)
LEMMA InitIInv == Init => IInv
  <1> SUFFICES ASSUME Init PROVE IInv
    OBVIOUS
  <1>1. /\ taken = 0 /\ buf = << >> /\ written = 0 /\ Len(buf) = 0 /\ old \in Nat
        /\ BlockSize \in Nat /\ supply \in Nat
    BY CopyAssumption DEF Init
  <1>2. thread \in [Threads -> Labels]
    BY DEF Init, Labels
  <1>3. buf \in Seq(Nat)
    BY <1>1
  <1>4. Types
    BY <1>1, <1>2, <1>3 DEF Init, Types, PCs
  <1>5. Done = 0 /\ Start \in Nat
    <2>1. taken = 0 /\ Len(buf) = 0 /\ written = 0
      BY <1>1
    <2>2. Start \in {0, old}
      BY DEF Start
    <2> QED
      BY <2>1, <2>2, <1>1 DEF Done
  <1>6. Block
    BY <1>1, <1>5 DEF Init, Block, Start
  <1>7. Ending
    BY DEF Init, Ending, ServerGone, Threads, Main
  <1>8. CopiedInOrder
    <2>1. MaxOf(old, Start + 0) = old
      BY <1>1 DEF MaxOf, Start
    <2>2. Copied(0) = [i \in 1 .. old |-> 0]
      BY <2>1, <1>1 DEF Copied, Start
    <2> QED
      BY <1>5, <2>2 DEF Init, CopiedInOrder, Done
  <1> QED
    BY <1>4, <1>6, <1>7, <1>8 DEF IInv

(* Steps that leave the block and the destination alone.                   *)
LEMMA BlockKept ==
    ASSUME IInv, UNCHANGED <<program, block, old>>,
           supply' \in Nat, supply' >= supply, supply' # supply => ~ServerGone,
           thread' \in [Threads -> Labels], ServerGone => ServerGone',
           ServerGone' => \A t \in Threads : thread'[t] = "gone",
           pc' \in PCs, pc' = "write" => written < Len(buf),
           pc' \notin {"write", "dead"} => written = 0,
           pc' = "eof" => taken = supply /\ buf = << >> /\ ServerGone
    PROVE  IInv'
  <1>1. UNCHANGED <<program, taken, buf, written, dest, offset, old>>
    BY DEF block
  <1>2. Types'
    BY <1>1 DEF IInv, Types
  <1>3. Block'
    BY <1>1 DEF IInv, Block, Start, Done
  <1>4. Ending'
    BY <1>1 DEF IInv, Ending
  <1>5. CopiedInOrder'
    BY <1>1 DEF IInv, CopiedInOrder, Copied
  <1> QED
    BY <1>2, <1>3, <1>4, <1>5 DEF IInv

(* What one read() may return.                                             *)
LEMMA ReadSizesFit ==
    ASSUME Types, NEW n \in ReadSizes
    PROVE  /\ n \in Nat \ {0}
           /\ n <= BlockSize - Len(buf) /\ n <= supply - taken
  <1> DEFINE a == BlockSize - Len(buf)
             b == supply - taken
  <1>1. a \in Nat /\ b \in Nat
    BY CopyAssumption DEF Types
  <1> HIDE DEF a, b
  <1>2. MinOf(a, b) \in Nat /\ MinOf(a, b) <= a /\ MinOf(a, b) <= b
    BY <1>1 DEF MinOf
  <1>3. ReadSizes = IF program = "copy" THEN 1 .. MinOf(a, b) ELSE {MinOf(a, b)} \ {0}
    BY DEF ReadSizes, a, b
  <1>4. n \in Nat \ {0} /\ n <= a /\ n <= b
    BY <1>1, <1>2, <1>3
  <1> QED
    BY <1>4 DEF a, b

(* read() appends to the block the bytes that follow.                      *)
LEMMA ReadSomeIInv ==
    ASSUME IInv, NEW n, ReadSome(n)
    PROVE  IInv'
  <1>1. /\ pc = "read" /\ n \in ReadSizes
        /\ buf' = buf \o [j \in 1 .. n |-> taken + j] /\ taken' = taken + n
        /\ pc' \in {"read", "write"}
        /\ UNCHANGED <<program, supply, written, old, dest, offset, thread>>
    BY DEF ReadSome
  <1>2. /\ n \in Nat \ {0} /\ n <= BlockSize - Len(buf) /\ n <= supply - taken
        /\ Types /\ Block
    BY <1>1, ReadSizesFit DEF IInv
  <1>3. /\ taken \in Nat /\ supply \in Nat /\ Len(buf) \in Nat /\ written = 0
        /\ BlockSize \in Nat /\ buf \in Seq(Nat) /\ Len(buf) <= taken
    BY <1>1, <1>2, CopyAssumption DEF Types, Block
  <1> DEFINE new == [j \in 1 .. n |-> taken + j]
  <1>4. new \in Seq(Nat) /\ Len(new) = n /\ \A j \in 1 .. n : new[j] = taken + j
    BY <1>2, <1>3
  <1>4a. buf' = buf \o new
    BY <1>1
  <1> HIDE DEF new
  <1>5. buf' \in Seq(Nat) /\ Len(buf') = Len(buf) + n
    BY <1>4a, <1>3, <1>4, ConcatProperties
  <1>6. ASSUME NEW j \in 1 .. Len(buf')
        PROVE  buf'[j] = taken' - Len(buf') + j
    <2>1. CASE j <= Len(buf)
      <3>1. buf'[j] = buf[j] /\ j \in 1 .. Len(buf)
        BY <2>1, <1>4a, <1>3, <1>4, <1>5
      <3>2. buf[j] = taken - Len(buf) + j
        BY <3>1, <1>2 DEF Block
      <3> QED
        BY <3>1, <3>2, <1>1, <1>2, <1>3, <1>5
    <2>2. CASE j > Len(buf)
      <3>1. j - Len(buf) \in 1 .. n
        BY <2>2, <1>2, <1>3, <1>5
      <3>2. buf'[j] = new[j - Len(buf)]
        BY <2>2, <3>1, <1>4a, <1>3, <1>4, <1>5
      <3>3. buf'[j] = taken + (j - Len(buf))
        BY <3>1, <3>2, <1>4
      <3> QED
        BY <3>3, <1>1, <1>2, <1>3, <1>5
    <2> QED
      BY <2>1, <2>2, <1>3, <1>5
  <1>7. Types'
    BY <1>1, <1>2, <1>3, <1>5 DEF Types, PCs
  <1>8. taken' - (Len(buf') - written') = taken - (Len(buf) - written)
    BY <1>1, <1>2, <1>3, <1>5
  <1>9. Done' = Done /\ Start' = Start
    BY <1>1, <1>8 DEF Done, Start
  <1>10. Block'
    BY <1>1, <1>2, <1>3, <1>5, <1>6, <1>9 DEF Block
  <1>11. Ending'
    BY <1>1 DEF IInv, Ending, ServerGone
  <1>12. CopiedInOrder'
    <2>1. ASSUME NEW m PROVE Copied(m)' = Copied(m)
      BY <1>1 DEF Copied
    <2>2. ASSUME NEW m, m = taken - (Len(buf) - written) PROVE CopiedInOrder'
      <3>1. dest = Copied(m)
        BY <2>2 DEF IInv, CopiedInOrder
      <3>2. m = taken' - (Len(buf') - written')
        BY <2>2, <1>8
      <3> QED
        BY <3>1, <3>2, <1>1 DEF CopiedInOrder, Copied
    <2> QED
      BY <2>2
  <1> QED
    BY <1>7, <1>10, <1>11, <1>12 DEF IInv

(* write() puts the next bytes of the block behind those already copied.   *)
LEMMA WriteSomeIInv ==
    ASSUME IInv, NEW n, WriteSome(n)
    PROVE  IInv'
  <1> DEFINE bytes == SubSeq(buf, written + 1, written + n)
             m == taken - (Len(buf) - written)
             done == written + n = Len(buf)
  <1>1. /\ n \in 1 .. Len(buf) - written /\ pc = "write"
        /\ dest' = Overwrite(bytes) /\ offset' = offset + n
        /\ written' = IF done THEN 0 ELSE written + n
        /\ buf' = IF done THEN << >> ELSE buf
        /\ done => pc' \in {"read", "check"}
        /\ ~done => pc' = "write"
        /\ UNCHANGED <<program, supply, taken, old, thread>>
    BY DEF WriteSome, WriteFrom
  <1>2. /\ taken \in Nat /\ Len(buf) \in Nat /\ written \in Nat /\ buf \in Seq(Nat)
        /\ Len(buf) <= taken /\ written <= Len(buf) /\ old \in Nat /\ Types
    BY DEF IInv, Types
  <1>3. n \in Nat \ {0} /\ written + n <= Len(buf) /\ m \in Nat
    BY <1>1, <1>2
  <1>4. bytes \in Seq(Nat) /\ Len(bytes) = n
    BY <1>2, <1>3
  <1>5. ASSUME NEW j \in 1 .. n PROVE bytes[j] = m + j
    <2>1. bytes[j] = buf[written + j] /\ written + j \in 1 .. Len(buf)
      BY <1>2, <1>3, <1>4
    <2>2. buf[written + j] = taken - Len(buf) + (written + j)
      BY <2>1 DEF IInv, Block
    <2> QED
      BY <2>1, <2>2, <1>2, <1>3
  <1>6. offset = Start + m /\ dest = Copied(m) /\ Start \in Nat
    BY <1>2 DEF IInv, Block, Done, CopiedInOrder, Start
  <1>7. dest' = Copied(m + n)
    <2>1. ASSUME NEW mm \in Nat, mm = m PROVE dest' = Copied(mm + n)
      BY <2>1, <1>1, <1>2, <1>3, <1>4, <1>5, <1>6, WriteExtends
    <2> QED
      BY <2>1, <1>3
  <1>8. taken' - (Len(buf') - written') = m + n
    <2>1. CASE done
      <3>1. Len(buf') = 0 /\ written' = 0 /\ taken' = taken
        BY <2>1, <1>1
      <3> QED
        BY <2>1, <3>1, <1>2, <1>3
    <2>2. CASE ~done
      <3>1. buf' = buf /\ written' = written + n /\ taken' = taken
        BY <2>2, <1>1
      <3> QED
        BY <3>1, <1>2, <1>3
    <2> QED
      BY <2>1, <2>2
  <1>9. CopiedInOrder'
    <2>1. ASSUME NEW q, q = m + n PROVE CopiedInOrder'
      <3>1. q = taken' - (Len(buf') - written') /\ dest' = Copied(q)
        BY <2>1, <1>7, <1>8
      <3>2. Copied(q)' = Copied(q)
        BY <1>1 DEF Copied
      <3> QED
        BY <3>1, <1>1 DEF CopiedInOrder, Copied
    <2> QED
      BY <2>1
  <1>10. buf' \in Seq(Nat) /\ Len(buf') \in {0, Len(buf)}
    BY <1>1, <1>2
  <1>11. Types'
    <2>1. CASE done
      <3>1. buf' = << >> /\ Len(buf') = 0 /\ written' = 0
        BY <2>1, <1>1
      <3> QED
        BY <2>1, <3>1, <1>1, <1>2, <1>10, CopyAssumption DEF Types, PCs
    <2>2. CASE ~done
      <3>1. buf' = buf /\ written' = written + n
        BY <2>2, <1>1
      <3> QED
        BY <2>2, <3>1, <1>1, <1>2, <1>3 DEF Types, PCs
    <2> QED
      BY <2>1, <2>2
  <1>12. offset' = Start' + Done'
    <2>1. Start' = Start /\ Done' = m + n
      BY <1>1, <1>8 DEF Start, Done
    <2> QED
      BY <2>1, <1>1, <1>3, <1>6
  <1>13. Block'
    <2>1. CASE done
      <3>1. buf' = << >> /\ Len(buf') = 0 /\ written' = 0 /\ pc' \in {"read", "check"}
        BY <2>1, <1>1
      <3> QED
        BY <3>1, <1>12 DEF Block
    <2>2. CASE ~done
      <3>1. /\ buf' = buf /\ written' = written + n /\ taken' = taken /\ pc' = "write"
            /\ written' < Len(buf')
        BY <2>2, <1>1, <1>2, <1>3
      <3> QED
        BY <3>1, <1>12 DEF IInv, Block
    <2> QED
      BY <2>1, <2>2
  <1>14. Ending'
    BY <1>1 DEF IInv, Ending, ServerGone
  <1> QED
    BY <1>9, <1>11, <1>13, <1>14 DEF IInv

-----------------------------------------------------------------------------
(* The other steps of the process that copies, and a call of it that fails. *)
LEMMA OtherStepsIInv ==
    ASSUME IInv, \/ ReadEnd \/ CloseFiles \/ CallFails
                 \/ CloseWriteEnd \/ SetHandlers \/ ResetFlag \/ CheckFlag
    PROVE  IInv'
  <1>1. UNCHANGED <<program, supply, block, old, thread>>
    BY DEF ReadEnd, CloseFiles, CallFails, CloseWriteEnd, SetHandlers, ResetFlag,
           CheckFlag, LoggerMoves
  <1>2. Types /\ Block /\ Ending
    BY DEF IInv
  <1>3. pc \in PCs /\ pc' \in PCs
    BY <1>2 DEF ReadEnd, CloseFiles, CallFails, CloseWriteEnd, SetHandlers, ResetFlag,
           CheckFlag, LoggerMoves, PCs, Types
  <1>4. pc' \notin {"write", "dead"} => written = 0
    BY <1>2 DEF ReadEnd, CloseFiles, CallFails, CloseWriteEnd, SetHandlers, ResetFlag,
           CheckFlag, LoggerMoves, Block
  <1>5. pc' = "write" => written < Len(buf)
    <2>1. pc' = "write" => ReadEnd /\ buf # << >>
      BY DEF ReadEnd, CloseFiles, CallFails, CloseWriteEnd, SetHandlers, ResetFlag,
             CheckFlag, LoggerMoves
    <2>2. ReadEnd => written = 0
      BY <1>2 DEF ReadEnd, Block
    <2>3. buf # << >> => Len(buf) > 0
      BY <1>2 DEF Types
    <2> QED
      BY <2>1, <2>2, <2>3
  <1>6. pc' = "eof" => taken = supply /\ buf = << >> /\ ServerGone
    BY DEF ReadEnd, CloseFiles, CallFails, CloseWriteEnd, SetHandlers, ResetFlag,
           CheckFlag, LoggerMoves
  <1>7. ServerGone' = ServerGone
    BY <1>1 DEF ServerGone
  <1>8. /\ supply' \in Nat /\ supply' = supply /\ supply' >= supply
        /\ thread' \in [Threads -> Labels]
    BY <1>1, <1>2 DEF Types
  <1>9. ServerGone' => \A t \in Threads : thread'[t] = "gone"
    BY <1>1, <1>2, <1>7 DEF Ending
  <1> QED
    BY <1>1, <1>3, <1>4, <1>5, <1>6, <1>7, <1>8, <1>9, BlockKept

(* A signal to the logger sets its flag or kills it.                       *)
LEMMA SignalledKeeps ==
    ASSUME IInv, Signalled
    PROVE  /\ pc' \in PCs
           /\ pc' = "write" => written < Len(buf)
           /\ pc' \notin {"write", "dead"} => written = 0
           /\ pc' = "eof" => taken = supply /\ buf = << >> /\ ServerGone
  <1>1. pc' \in {pc, "dead"}
    BY DEF Signalled
  <1> QED
    BY <1>1 DEF IInv, Types, Block, Ending, PCs

(* What the threads of the Server do to the pipe and to each other, when   *)
(* the logger goes on or dies.                                             *)
LEMMA ServerKeeps ==
    ASSUME IInv, UNCHANGED <<program, block, old>>, Signalled \/ UNCHANGED pc,
           \/ /\ thread' = AllGone
              /\ UNCHANGED supply
           \/ /\ ~ServerGone
              /\ supply' \in {supply, supply + LineBytes}
              /\ thread' \in [Threads -> Labels] /\ thread'[Main] # "gone"
           \/ UNCHANGED <<thread, supply>>
    PROVE  IInv'
  <1>1. Types /\ Ending /\ supply \in Nat
    BY DEF IInv, Types
  <1>2. /\ pc' \in PCs
        /\ pc' = "write" => written < Len(buf)
        /\ pc' \notin {"write", "dead"} => written = 0
        /\ pc' = "eof" => taken = supply /\ buf = << >> /\ ServerGone
    BY SignalledKeeps DEF IInv, Types, Block, Ending, PCs
  <1>3. AllGone \in [Threads -> Labels] /\ \A t \in Threads : AllGone[t] = "gone"
    BY DEF AllGone, Labels
  <1>4. supply' \in Nat /\ supply' >= supply /\ (supply' # supply => ~ServerGone)
    BY <1>1, CopyAssumption
  <1>5. thread' \in [Threads -> Labels]
    BY <1>1, <1>3 DEF Types
  <1>6. Main \in Threads
    BY DEF Threads
  <1>7. ServerGone => ServerGone'
    BY <1>3, <1>6 DEF ServerGone
  <1>8. ServerGone' => \A t \in Threads : thread'[t] = "gone"
    BY <1>1, <1>3 DEF ServerGone, Ending
  <1> QED
    BY <1>2, <1>4, <1>5, <1>7, <1>8, BlockKept

(* A thread that is not gone, and the server with it.                      *)
LEMMA ThreadChanges ==
    ASSUME IInv, NEW t \in Threads, thread[t] # "gone", NEW x \in Labels, x # "gone",
           thread' = [thread EXCEPT ![t] = x]
    PROVE  /\ ~ServerGone /\ thread' \in [Threads -> Labels]
           /\ thread'[Main] # "gone"
  <1>1. thread \in [Threads -> Labels] /\ Main \in Threads /\ ~ServerGone
    BY DEF IInv, Types, Ending, Threads
  <1> QED
    BY <1>1 DEF ServerGone

(* A message of a thread to the pipe.                                      *)
LEMMA LogLineIInv ==
    ASSUME IInv, NEW t \in Threads, NEW from, from # "gone", NEW to \in Labels,
           to # "gone", LogLine(t, from, to)
    PROVE  IInv'
  <1>1. /\ thread[t] # "gone" /\ UNCHANGED <<program, block, old, pc>>
        /\ \/ thread' = AllGone /\ UNCHANGED supply
           \/ thread' = [thread EXCEPT ![t] = to] /\ supply' = supply + LineBytes
    BY DEF LogLine
  <1>2. thread' = [thread EXCEPT ![t] = to] =>
           /\ ~ServerGone /\ thread' \in [Threads -> Labels]
           /\ thread'[Main] # "gone"
    BY <1>1, ThreadChanges
  <1> QED
    BY <1>1, <1>2, ServerKeeps

(* A step of a thread that writes nothing.                                 *)
LEMMA ThreadMovesIInv ==
    ASSUME IInv, NEW t \in Threads, NEW from, from # "gone", NEW to \in Labels,
           to # "gone", ThreadMoves(t, from, to)
    PROVE  IInv'
  <1>1. /\ thread[t] # "gone" /\ UNCHANGED <<program, supply, block, old, pc>>
        /\ thread' = [thread EXCEPT ![t] = to]
    BY DEF ThreadMoves
  <1>2. /\ ~ServerGone /\ thread' \in [Threads -> Labels]
        /\ thread'[Main] # "gone"
    BY <1>1, ThreadChanges
  <1> QED
    BY <1>1, <1>2, ServerKeeps

(* Every step of the Server.                                               *)
LEMMA ServerIInv ==
    ASSUME IInv, ServerStep
    PROVE  IInv'
  <1>1. Main \in Threads /\ \A h \in Handlers : h \in Threads /\ h # Main
    BY CopyAssumption DEF Threads
  <1>2. CASE Redirect \/ StartFails
    BY <1>1, <1>2, ThreadMovesIInv DEF Redirect, StartFails, Labels
  <1>3. CASE BootMessage \/ Accepted
    BY <1>1, <1>3, LogLineIInv DEF BootMessage, Accepted, Labels
  <1>4. ASSUME NEW h \in Handlers, CreateThread(h)
        PROVE  IInv'
    <2>1. /\ thread[Main] = "create"
          /\ thread' = [thread EXCEPT ![Main] = "accept", ![h] = "start"]
          /\ UNCHANGED <<program, supply, block, old, pc>>
      BY <1>4 DEF CreateThread
    <2>2. thread \in [Threads -> Labels] /\ "accept" \in Labels /\ "start" \in Labels
      BY DEF IInv, Types, Labels
    <2>3. thread' \in [Threads -> Labels] /\ thread'[Main] # "gone"
      BY <2>1, <2>2, <1>1
    <2>4. ~ServerGone
      BY <2>1 DEF ServerGone
    <2> QED
      BY <2>1, <2>3, <2>4, ServerKeeps
  <1>5. ASSUME NEW h \in Handlers, QuitReceived(h)
        PROVE  IInv'
    BY <1>1, <1>5, ThreadMovesIInv DEF QuitReceived, Labels
  <1>6. ASSUME NEW t \in Threads, HandlerStarts(t) \/ HandlerEnds(t) \/ CallFailed(t)
        PROVE  IInv'
    BY <1>6, LogLineIInv DEF HandlerStarts, HandlerEnds, CallFailed, Labels
  <1>7. ASSUME NEW t \in Threads, KillLogger(t)
        PROVE  IInv'
    <2>1. /\ thread[t] = "kill" /\ thread' = [thread EXCEPT ![t] = "exit"]
          /\ Signalled /\ UNCHANGED <<program, supply, block, old>>
      BY <1>7 DEF KillLogger
    <2>2. "exit" \in Labels
      BY DEF Labels
    <2>3. /\ ~ServerGone /\ thread' \in [Threads -> Labels]
          /\ thread'[Main] # "gone"
      BY <2>1, <2>2, ThreadChanges
    <2> QED
      BY <2>1, <2>3, ServerKeeps
  <1>8. ASSUME NEW t \in Threads, ExitServer(t)
        PROVE  IInv'
    BY <1>8, ServerKeeps DEF ExitServer
  <1> QED
    BY <1>2, <1>3, <1>4, <1>5, <1>6, <1>7, <1>8 DEF ServerStep, ThreadStep

(* Every step.                                                             *)
LEMMA NextIInv == IInv /\ [Next]_vars => IInv'
  <1> SUFFICES ASSUME IInv, [Next]_vars PROVE IInv'
    OBVIOUS
  <1>1. CASE CopyStep
    BY <1>1, ReadSomeIInv, WriteSomeIInv, OtherStepsIInv DEF CopyStep
  <1>2. CASE CallFails
    BY <1>2, OtherStepsIInv
  <1>3. CASE ServerStep
    BY <1>3, ServerIInv
  <1>4. CASE CtrlC \/ ServerDies \/ LoggerTold
    BY <1>4, ServerKeeps DEF CtrlC, ServerDies, LoggerTold
  <1>5. CASE UNCHANGED vars
    BY <1>5, ServerKeeps DEF vars
  <1> QED
    BY <1>1, <1>2, <1>3, <1>4, <1>5 DEF Next

(* The inductive invariant holds in every reachable state.                 *)
LEMMA Invariance == Spec => []IInv
  BY InitIInv, NextIInv, PTL DEF Spec

(* performCopyBetweenDescriptors and startLogger: for every block size and *)
(* however read() and write() split the data, the destination holds the    *)
(* bytes read so far and not waiting in the block, each once, in order and *)
(* in its place, and what it had outside of them.                          *)
THEOREM CopyIsInOrder == Spec => []CopiedInOrder
  <1>1. IInv => CopiedInOrder
    BY DEF IInv
  <1> QED
    BY <1>1, Invariance, PTL

(* When the loop ends because read() returned 0, every byte of the file is *)
(* copied, or every byte that any thread of the Server wrote before it     *)
(* died.                                                                   *)
THEOREM CopyIsComplete == Spec => []NothingLeftAtEnd
  <1>1. IInv => NothingLeftAtEnd
    <2> SUFFICES ASSUME IInv, pc = "eof" PROVE dest = Copied(supply)
      BY DEF NothingLeftAtEnd
    <2>1. /\ taken = supply /\ buf = << >> /\ Len(buf) = 0 /\ written = 0
          /\ supply \in Nat
      BY DEF IInv, Ending, Block, Types
    <2>2. taken - (Len(buf) - written) = supply
      BY <2>1
    <2> QED
      BY <2>2 DEF IInv, CopiedInOrder
  <1> QED
    BY <1>1, Invariance, PTL
=============================================================================
