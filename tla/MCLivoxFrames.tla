--------------------------- MODULE MCLivoxFrames ---------------------------
(***************************************************************************)
(* The way of the points in one run: how packets become frames (LivoxFramer) *)
(* and how frames go through the ring (LivoxDriver).  One of the two is      *)
(* chosen at the start, and only that one moves.                             *)
(***************************************************************************)
EXTENDS MCLivoxDriver, LivoxFramer

CONSTANTS h1, h2

VARIABLE part

\* One LiDAR can fill two frames, with stamps in any order, one of them behind a gap;
\* and one packet of another is with it when the host's clock cuts.
MCHandles == {h1, h2}
MCStamps == [h \in MCHandles |-> IF h = h1 THEN {4, 8, 12, 20} ELSE {8}]
MCPackets == [h \in MCHandles |-> IF h = h1 THEN 3 ELSE 1]

FramesInit == part \in {"framer", "ring"} /\ Init /\ FramerInit

FramesNext ==
  \/ part = "framer" /\ FramerNext /\ UNCHANGED <<part, vars>>
  \/ part = "ring" /\ Next /\ UNCHANGED <<part, framerVars>>

FramesSpec == FramesInit /\ [][FramesNext]_<<part, vars, framerVars>>
=============================================================================
