------------------------------ MODULE FrameFifo ------------------------------
(***************************************************************************)
(* What the single-producer, single-consumer rings promise: a bounded      *)
(* first-in first-out queue.  Frames are numbered in the order in which    *)
(* they are accepted; an enqueue and a dequeue take a whole span at once.  *)
(***************************************************************************)
EXTENDS Naturals, Sequences

CONSTANT Capacity

VARIABLES
  queue,      \* the frames accepted and not yet taken, oldest first
  accepted,   \* how many frames have been accepted so far
  delivered   \* the frames the last read handed to its caller

vars == <<queue, accepted, delivered>>

Init == queue = <<>> /\ accepted = 0 /\ delivered = <<>>

Put(n) ==
  /\ Len(queue) + n <= Capacity
  /\ queue' = queue \o [i \in 1..n |-> accepted + i - 1]
  /\ accepted' = accepted + n
  /\ UNCHANGED delivered

Take(n) ==
  /\ n <= Len(queue)
  /\ delivered' = SubSeq(queue, 1, n)
  /\ queue' = SubSeq(queue, n + 1, Len(queue))
  /\ UNCHANGED accepted

\* The consumer's flush: the frames leave the queue and reach nobody.
Drop(n) ==
  /\ n <= Len(queue)
  /\ delivered' = <<>>
  /\ queue' = SubSeq(queue, n + 1, Len(queue))
  /\ UNCHANGED accepted

Next == \E n \in 0..Capacity : Put(n) \/ Take(n) \/ Drop(n)

Spec == Init /\ [][Next]_vars
=============================================================================
