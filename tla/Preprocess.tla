----------------------------- MODULE Preprocess -----------------------------
(***************************************************************************)
(* The mapper's reading of a LiDAR message (FAST-LIVO2, preprocess.cpp):    *)
(* every point gets the time since the start of the scan that the estimator *)
(* works with (curvature).  avia_handler, which ZAV runs, takes it from the *)
(* message and patches up jumps; velodyne_handler, in a message without     *)
(* times, takes it from the angle the LiDAR has turned by; the others take  *)
(* the times of the message as they are, or none.                           *)
(*                                                                          *)
(* Times are integers, several to a millisecond; angles are the time it     *)
(* takes to turn by them.  Feature extraction, which every configuration of *)
(* the repository switches off, is left out.                                *)
(***************************************************************************)
EXTENDS AviaHandler, Queues

CONSTANTS
  Turn,              \* 360.0 / omega_l
  Steps,             \* times between two points of a message
  MaxMessage         \* bound: points of a message

VARIABLE msg         \* the points: [line, t, far]

MessageInit == msg = <<>>

\* A LiDAR measures one more point: later, and turned by less than a whole turn.
Measure(line, step, far) ==
  /\ Len(msg) < MaxMessage
  /\ LET at == IF msg = <<>> THEN 0 ELSE msg[Len(msg)].t + step
     IN  msg' = Append(msg, [line |-> line, t |-> at, far |-> far])

-----------------------------------------------------------------------------
(* velodyne_handler, in a message without times: the angle is known in one    *)
(* turn only, and falls with time.                                            *)

YawAngle(point) == -(point.t % Turn)

\* The points of a line, in order.
OfLine(m, line) == Select(m, {m[i] : i \in {k \in 1 .. Len(m) : m[k].line = line}})

\* The angle since the first point of the line, and a turn more when it is less than
\* that of the point before.
NeverBack(a, last) == a                            \* fault: a second turn is not seen
SecondTurn(a, last) == IF a < last THEN a + Turn ELSE a

SpinTime(line) ==
  LET yaw_fp == YawAngle(line[1])
      t[i \in 1 .. Len(line)] ==
        LET yaw == YawAngle(line[i])
            a == IF yaw <= yaw_fp THEN yaw_fp - yaw ELSE yaw_fp - yaw + Turn
        IN  IF i = 1 THEN 0 ELSE SecondTurn(a, t[i - 1])
  IN  t

-----------------------------------------------------------------------------
(* The clouds of the handlers other than avia_handler: points [at, time], at  *)
(* being the place of the point in the message.                               *)

\* Every point_filter_num-th of all points, when it is far enough.
EveryNth(m) == {i \in 1 .. Len(m) : (i - 1) % point_filter_num = 0 /\ m[i].far}

Cloud(m, kept, time) ==
  LET at == Select([i \in 1 .. Len(m) |-> i], kept)
  IN  [k \in 1 .. Len(at) |-> [at |-> at[k], time |-> time[at[k]]]]

l515_handler(m) == Cloud(m, EveryNth(m), [i \in 1 .. Len(m) |-> 0])
oust64_handler(m) == Cloud(m, EveryNth(m), [i \in 1 .. Len(m) |-> m[i].t])

\* Its points have the time of day: that of the first one is taken off.
xt32_handler(m) == Cloud(m, EveryNth(m), [i \in 1 .. Len(m) |-> m[i].t - m[1].t])

\* The points of a line up to its i-th; the first of a line is not kept.
LineUpTo(m, i) == OfLine(SubSeq(m, 1, i), m[i].line)

\* timed: the message has times.  A last one that is zero is taken for none.
velodyne_handler(m, timed) ==
  IF timed /\ m[Len(m)].t > 0 THEN oust64_handler(m)
  ELSE LET line(i) == LineUpTo(m, i)
       IN  Cloud(m, {i \in EveryNth(m) : Len(line(i)) > 1},
                 [i \in 1 .. Len(m) |-> SpinTime(line(i))[Len(line(i))]])

\* What std::sort can make of a cloud.
Sortings(cloud) ==
  LET n == Len(cloud)
  IN  {s \in [1 .. n -> {cloud[k] : k \in 1 .. n}] :
         /\ \A i, k \in 1 .. n : i < k => s[i].at # s[k].at
         /\ \A i, k \in 1 .. n : i < k => s[i].time <= s[k].time}

Pandar128_handler(m) == Sortings(oust64_handler(m))

\* The clouds that may come of a message that is not empty, for each lidar_type.
process(m, timed) ==
  [L515 |-> {l515_handler(m)}, OUST64 |-> {oust64_handler(m)}, XT32 |-> {xt32_handler(m)},
   VELO16 |-> {velodyne_handler(m, timed)}, PANDAR128 |-> Pandar128_handler(m)]

MessageNext ==
  \E line \in 0 .. N_SCANS, step \in Steps, far \in BOOLEAN : Measure(line, step, far)

MessageSpec == MessageInit /\ [][MessageNext]_msg

-----------------------------------------------------------------------------

\* The time taken from the angle is the time since the line's first point for two
\* turns; in the third it falls back.
SpinTimes ==
  \A l \in 0 .. N_SCANS - 1 :
    LET line == OfLine(msg, l)
        t == SpinTime(line)
        Since(i) == line[i].t - line[1].t
    IN  \A i \in 1 .. Len(line) :
          (Since(i) < 2 * Turn /\ \A k \in 2 .. i : line[k].t - line[k - 1].t < Turn)
            => t[i] = Since(i)

NeverAhead(cloud, m) == \A k \in 1 .. Len(cloud) : cloud[k].time \in 0 .. m[cloud[k].at].t
NeverTurns(cloud) == \A i, k \in 1 .. Len(cloud) : i < k => cloud[i].time <= cloud[k].time

\* No handler gives a point a time ahead of its own, and in no cloud they turn back, so
\* that the last point ends the scan -- but for a LiDAR with several lines whose message
\* has no times, as each of its lines begins at zero.  The Pandar may also send its points
\* in another order than that of their times.
Backwards(m) == [i \in 1 .. Len(m) |-> m[Len(m) + 1 - i]]

CloudTimes ==
  msg # <<>> =>
    /\ \A timed \in BOOLEAN :
         LET clouds == process(msg, timed)
             given(lidar) == lidar = "VELO16" => timed /\ msg[Len(msg)].t > 0
         IN  \A lidar \in DOMAIN clouds : \A cloud \in clouds[lidar] :
               NeverAhead(cloud, msg) /\ (given(lidar) => NeverTurns(cloud))
    /\ \A cloud \in Pandar128_handler(Backwards(msg)) :
         NeverAhead(cloud, Backwards(msg)) /\ NeverTurns(cloud)

ScanTimes == AviaTimes(msg) /\ SpinTimes /\ CloudTimes
=============================================================================
