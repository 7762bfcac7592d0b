--------------------------- MODULE MCScanSession ---------------------------
(***************************************************************************)
(* TLC instances of ScanSession, and of SensorStatus beside it: one of the  *)
(* two is chosen at the start, and only that one moves.                     *)
(***************************************************************************)
EXTENDS ScanSession, SensorStatus, TLC

VARIABLE part

\* The sensors differ in their time-outs only, which are equal here.
MCTimeout == [s \in Sensors |-> 1]
Symmetry == Permutations(Sensors)

SessionInit ==
  /\ part \in {"scans", "status"} /\ Init /\ StatusInit
  /\ part = "status" => controller = "web"

SessionNext ==
  \/ part = "scans" /\ Next /\ UNCHANGED <<part, statusVars>>
  \/ part = "status" /\ StatusNext /\ UNCHANGED <<part, vars>>

SessionSpec == SessionInit /\ [][SessionNext]_<<part, vars, statusVars>>
=============================================================================
