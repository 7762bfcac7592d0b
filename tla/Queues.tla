------------------------------- MODULE Queues -------------------------------
(***************************************************************************)
(* Two walks over a queue, for the modules of the mapper.  Select is the    *)
(* SelectSeq of a set, as a function the proofs can follow step by step.    *)
(***************************************************************************)
EXTENDS Integers, Sequences

\* A loop over the queue that takes the elements of a set over, in their order.
Select(queue, wanted) ==
  LET taken[i \in 0 .. Len(queue)] ==
        IF i = 0 THEN <<>>
        ELSE IF queue[i] \in wanted THEN Append(taken[i - 1], queue[i])
        ELSE taken[i - 1]
  IN  taken[Len(queue)]

\* A loop that pops the front as long as it is less than x.
From(queue, x) ==
  LET k == CHOOSE i \in 0 .. Len(queue) :
             /\ \A j \in 1 .. i : queue[j] < x
             /\ i = Len(queue) \/ queue[i + 1] >= x
  IN  SubSeq(queue, k + 1, Len(queue))
=============================================================================
