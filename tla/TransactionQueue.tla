-------------------------- MODULE TransactionQueue --------------------------
(***************************************************************************)
(* What the circular buffer of lab05-producer-consumer promises to the     *)
(* bank account behind it, without semaphores, indexes or slots: a FIFO    *)
(* queue of at most Capacity amounts, from which each amount is taken by   *)
(* exactly one consumer and added exactly once to the balance.             *)
(***************************************************************************)
EXTENDS Integers, Sequences

CONSTANTS Amounts,    \* the transactions a producer may submit (never 0)
          Consumers,  \* the threads that settle transactions
          Capacity,   \* how many transactions may wait
          Modulus     \* 2^w for a w-bit int balance

VARIABLES queue,      \* submitted and not yet taken, oldest first
          taken,      \* the amount each consumer is about to add, or 0
          balance

vars == <<queue, taken, balance>>

Init == /\ queue = << >>
        /\ taken = [c \in Consumers |-> 0]
        /\ balance = 0

Put == /\ Len(queue) < Capacity
       /\ \E a \in Amounts : queue' = Append(queue, a)
       /\ UNCHANGED <<taken, balance>>

Take(c) == /\ queue # << >>
           /\ taken[c] = 0
           /\ taken' = [taken EXCEPT ![c] = Head(queue)]
           /\ queue' = Tail(queue)
           /\ UNCHANGED balance

Apply(c) == /\ taken[c] # 0
            /\ balance' = (balance + taken[c]) % Modulus
            /\ taken' = [taken EXCEPT ![c] = 0]
            /\ UNCHANGED queue

Next == Put \/ \E c \in Consumers : Take(c) \/ Apply(c)

Spec == Init /\ [][Next]_vars
=============================================================================
