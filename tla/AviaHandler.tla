---------------------------- MODULE AviaHandler ----------------------------
(***************************************************************************)
(* What the mapper makes of the times of a Livox message (FAST-LIVO2,       *)
(* preprocess.cpp, avia_handler): a function of the message, used by        *)
(* Preprocess on any message and by LivoxFramer on those of the driver.     *)
(* A message is a sequence of points [line, t, far], t the time since its   *)
(* header.                                                                  *)
(***************************************************************************)
EXTENDS Integers, Sequences, FiniteSets

CONSTANTS
  MsUnits,           \* units of time in a millisecond
  Patch,             \* 0.004166667 ms, less than the time between two points
  N_SCANS,           \* scan_line
  point_filter_num

Distance(a, b) == IF a < b THEN b - a ELSE a - b

Valid(point) == point.line < N_SCANS

\* A time a millisecond or more away from the one of the point before is replaced.
UnlessJump(t, before) == IF Distance(t, before) < MsUnits THEN t ELSE before + Patch

\* pl_full: points of no line of the LiDAR stay as they were made, with time zero.
Curvature(m) ==
  LET c[i \in 1 .. Len(m)] ==
        IF ~Valid(m[i]) THEN 0
        ELSE IF i = 1 THEN (IF m[i].t < MsUnits THEN m[i].t ELSE 0)
        ELSE UnlessJump(m[i].t, c[i - 1])
  IN  c

\* pl_surf: every point_filter_num-th of the valid points, when it is far enough.
KeptPoints(m) ==
  {i \in 1 .. Len(m) :
     /\ Valid(m[i]) /\ m[i].far
     /\ Cardinality({k \in 1 .. i : Valid(m[k])}) % point_filter_num = 0}

-----------------------------------------------------------------------------

\* What is true of the times avia_handler gives, for points in the order of their
\* times: none is ahead of the message's, and up to the first jump or the first point
\* of no line they are the message's, if that begins with the header.  Without such
\* points they do not turn back, so the last point kept ends the scan.
AviaTimes(m) ==
  LET c == Curvature(m)
      Jump(i) == m[i].t - (IF i = 1 THEN 0 ELSE m[i - 1].t) >= MsUnits
      InOrder == \A i \in 1 .. Len(m) - 1 : m[i].t <= m[i + 1].t
      whole == \A i \in 1 .. Len(m) : Valid(m[i])
  IN  InOrder =>
        /\ \A i \in 1 .. Len(m) : c[i] <= m[i].t
        /\ \A i \in 1 .. Len(m) :
             (\A k \in 1 .. i : Valid(m[k]) /\ ~Jump(k)) => c[i] = m[i].t
        /\ whole => \A i, k \in KeptPoints(m) : i < k => c[i] <= c[k]
=============================================================================
