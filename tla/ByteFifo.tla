------------------------------ MODULE ByteFifo ------------------------------
(***************************************************************************)
(* What a ring buffer of bk_audio promises to the element that writes to   *)
(* it and to the element that reads from it: a bounded byte queue.  Bytes  *)
(* are numbered in the order in which they are accepted, a chunk leaves    *)
(* from the head in that order, and nothing is ever lost, repeated or      *)
(* reordered except by an explicit reset, which empties the queue.         *)
(***************************************************************************)
EXTENDS Naturals, Sequences

CONSTANT Size          \* capacity in bytes

VARIABLES queue,       \* the numbers of the stored bytes, oldest first
          sent,        \* how many bytes have been accepted so far
          got          \* the chunk that the last Take delivered

vars == <<queue, sent, got>>

Init == /\ queue = <<>>
        /\ sent = 0
        /\ got = <<>>

Put(n) == /\ Len(queue) + n <= Size
          /\ queue' = queue \o [i \in 1..n |-> sent + i - 1]
          /\ sent' = sent + n
          /\ UNCHANGED got

Take(n) == /\ got' = SubSeq(queue, 1, n)
           /\ queue' = SubSeq(queue, n + 1, Len(queue))
           /\ UNCHANGED sent

Clear == /\ queue' = <<>>
         /\ UNCHANGED <<sent, got>>

Next == \/ \E n \in 1..Size : Put(n)
        \/ \E n \in 1..Len(queue) : Take(n)
        \/ Clear

Spec == Init /\ [][Next]_vars
=============================================================================
