----------------------------- MODULE FrameFifo -----------------------------
(***************************************************************************)
(* What the Livox driver promises of the frames of each LiDAR: those that  *)
(* find room are published once each, whole, in the order in which they    *)
(* were stored; at most Size wait.  A frame that finds no room is lost.    *)
(***************************************************************************)
EXTENDS Integers, Sequences

CONSTANTS Lidars, Frames, Size, NULL

VARIABLES
  queue,   \* [Lidars -> Seq(Frames)]: stored and not yet published
  out      \* the frame published last

vars == <<queue, out>>

Init ==
  /\ queue = [l \in Lidars |-> <<>>]
  /\ out = [l \in Lidars |-> NULL]

Store(l, f) ==
  /\ Len(queue[l]) < Size
  /\ queue' = [queue EXCEPT ![l] = Append(@, f)]
  /\ UNCHANGED out

Publish(l) ==
  /\ queue[l] # <<>>
  /\ out' = [out EXCEPT ![l] = Head(queue[l])]
  /\ queue' = [queue EXCEPT ![l] = Tail(@)]

Next == \E l \in Lidars : Publish(l) \/ \E f \in Frames : Store(l, f)

Spec == Init /\ [][Next]_vars
=============================================================================
