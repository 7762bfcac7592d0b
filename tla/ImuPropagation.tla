--------------------------- MODULE ImuPropagation ---------------------------
(***************************************************************************)
(* The IMU processing of the mapper (FAST-LIVO2, IMU_Processing.cpp): the   *)
(* first packages feed a mean (IMU_init); after that UndistortPcl carries   *)
(* the state over each package from sample to sample, and then moves the    *)
(* points of the scan to the end of the package, backward from pose to      *)
(* pose.                                                                    *)
(*                                                                          *)
(* Times are integers.  The packages are those of sync_packages: gapless,   *)
(* samples in order and inside the package (no restart of the IMU's clock), *)
(* an image package right behind each package of points when there is a     *)
(* camera.  Poses are the times they stand for.                             *)
(***************************************************************************)
EXTENDS Integers, Sequences, FiniteSets, SequencesExt, Queues

CONSTANTS
  MaxEnd,          \* bound: the end of the last package
  MaxSamples,       \* bound: IMU samples in a package
  MaxScanPoints,    \* bound: points in a package
  MAX_INI_COUNT

VARIABLES
  imaging,          \* with a camera: packages of points and of images take turns
  imu_need_init, init_iter_num,
  last_imu,         \* time of the last sample of the last package that had one
  last_prop_end_time,   \* has no initial value in the code
  propagated,       \* some package has gone through UndistortPcl
  IMUpose,          \* times of the poses, each since the start of its package
  pkg,              \* the package: [kind, beg, end, imu, points]
  steps,            \* intervals the state was carried over in it
  heads             \* for each of its points, the poses it was moved with

propVars == <<imaging, imu_need_init, init_iter_num, last_imu, last_prop_end_time,
          propagated, IMUpose, pkg, steps, heads>>

Times == 1 .. MaxEnd

PropInit ==
  /\ imaging \in BOOLEAN
  /\ imu_need_init = TRUE /\ init_iter_num = 1
  /\ last_imu = 0 /\ last_prop_end_time \in {0, MaxEnd + 1} /\ propagated = FALSE
  /\ IMUpose = <<>>
  /\ pkg = [kind |-> "none", beg |-> 0, end |-> 0, imu |-> <<>>, points |-> <<>>]
  /\ steps = <<>> /\ heads = <<>>

-----------------------------------------------------------------------------

\* The forward loop: from the last sample of before over the samples of the package.
\* A pair that ends before the package is skipped; one that starts before it counts
\* from its start; the last pair ends with the package, other pairs with a sample.
Interval(v, i, beg, end) ==
  IF v[i] < beg THEN [from |-> beg, to |-> v[i + 1]]
  ELSE IF i # Len(v) - 1 THEN [from |-> v[i], to |-> v[i + 1]]
  ELSE [from |-> v[i], to |-> end]

Forward(v, beg, end) ==
  LET pairs == [i \in 1 .. Len(v) - 1 |->
                  [tail |-> v[i + 1], step |-> Interval(v, i, beg, end)]]
      kept == Select(pairs, {p \in Range(pairs) : p.tail >= beg})
  IN  [i \in 1 .. Len(kept) |-> kept[i].step]

\* The inner loop takes points from the back as long as they are later than the pose,
\* and stays at the first point when it gets there.
Taken(at, c, off) == {j \in 1 .. at : \A k \in j .. at : c[k] > off}
PastFirst(at, taken) == at - Cardinality(taken)  \* fault: it goes on past the first
After(at, taken) == IF 1 \in taken THEN 1 ELSE at - Cardinality(taken)

\* The backward loop, from the last pose but one to the first: which poses each of
\* the points with times c was moved with.
Backward(poses, c) ==
  LET n == Len(poses)
      back[k \in 1 .. n] ==
        IF k = n THEN [at |-> Len(c), heads |-> [j \in 1 .. Len(c) |-> {}]]
        ELSE LET later == back[k + 1]
                 taken == Taken(later.at, c, poses[k])
             IN  [at |-> After(later.at, taken),
                  heads |-> [j \in 1 .. Len(c) |->
                               later.heads[j] \cup (IF j \in taken THEN {k} ELSE {})]]
  IN  back[1].heads

\* IMU_init
ImuInit(imu) ==
  /\ init_iter_num' = IF init_iter_num + Len(imu) > MAX_INI_COUNT
                      THEN MAX_INI_COUNT + 1 ELSE init_iter_num + Len(imu)
  /\ last_imu' = Last(imu)
  /\ imu_need_init' = (init_iter_num' <= MAX_INI_COUNT)
  /\ IMUpose' = IF init_iter_num = 1 THEN <<>> ELSE IMUpose

\* UndistortPcl.  The poses of a package without points are not thrown away.
UndistortPcl(p) ==
  LET beg == last_prop_end_time
      moves == Forward(<<last_imu>> \o p.imu, beg, p.end)
      start == IF p.kind = "LIO" THEN Append(IMUpose, 0) ELSE IMUpose
      poses == start \o [i \in 1 .. Len(moves) |-> moves[i].to - beg]
  IN  /\ steps' = moves
      /\ IF p.kind = "LIO" /\ p.points # <<>>
         THEN heads' = Backward(poses, p.points) /\ IMUpose' = <<>>
         ELSE heads' = [j \in 1 .. Len(p.points) |-> {}] /\ IMUpose' = poses
      /\ last_imu' = Last(<<last_imu>> \o p.imu)
      /\ last_prop_end_time' = p.end /\ propagated' = TRUE

\* Process2
Process2(p) ==
  /\ pkg' = p
  /\ IF imu_need_init
     THEN /\ IF p.imu = <<>> THEN UNCHANGED <<imu_need_init, init_iter_num, last_imu, IMUpose>>
                             ELSE ImuInit(p.imu)
          /\ steps' = <<>> /\ heads' = [j \in 1 .. Len(p.points) |-> {}]
          /\ UNCHANGED <<last_prop_end_time, propagated>>
     ELSE UndistortPcl(p) /\ UNCHANGED <<imu_need_init, init_iter_num>>
  /\ UNCHANGED imaging

-----------------------------------------------------------------------------

Ascending(S, n) ==
  {s \in UNION {[1 .. k -> S] : k \in 0 .. n} : \A i \in 1 .. Len(s) - 1 : s[i] < s[i + 1]}

Rising(S, n) ==
  {s \in UNION {[1 .. k -> S] : k \in 0 .. n} : \A i \in 1 .. Len(s) - 1 : s[i] <= s[i + 1]}

\* A package of points: samples after the start and up to the end, points in order of
\* their curvature.  With a camera that is the time since the start, and left-over
\* points may lie behind the end; without one it is the time since the scan's header,
\* which comes after the start, and the last point is at the end.
LioPackage ==
  /\ imaging => pkg.kind # "LIO"
  /\ \E end \in pkg.end + 1 .. MaxEnd :
       \E imu \in Ascending(pkg.end + 1 .. end, MaxSamples) :
         \E pts \in Rising(0 .. (IF imaging THEN MaxEnd ELSE end - pkg.end - 1),
                            MaxScanPoints) :
           Process2([kind |-> "LIO", beg |-> pkg.end, end |-> end, imu |-> imu,
                     points |-> pts])

\* The image package behind it has neither.
VioPackage ==
  /\ imaging /\ pkg.kind = "LIO"
  /\ Process2([kind |-> "VIO", beg |-> pkg.end, end |-> pkg.end, imu |-> <<>>,
               points |-> <<>>])

PropNext == LioPackage \/ VioPackage

PropSpec == PropInit /\ [][PropNext]_propVars

-----------------------------------------------------------------------------

PropTypeOK ==
  /\ imaging \in BOOLEAN /\ imu_need_init \in BOOLEAN /\ propagated \in BOOLEAN
  /\ init_iter_num \in 1 .. MAX_INI_COUNT + 1
  /\ last_imu \in {0} \cup Times /\ last_prop_end_time \in 0 .. MaxEnd + 1
  /\ IMUpose \in Seq(-MaxEnd - 1 .. MaxEnd)
  /\ pkg.end \in {0} \cup Times /\ Len(heads) = Len(pkg.points)

Tiles(s, beg, end) ==
  /\ s # <<>> /\ s[1].from = beg /\ Last(s).to = end
  /\ \A i \in 1 .. Len(s) : s[i].from <= s[i].to
  /\ \A i \in 1 .. Len(s) - 1 : s[i].to = s[i + 1].from

\* With a camera the first package that is propagated is an image's, which gives
\* last_prop_end_time its value before a package of points uses it.
StartKnown == [][imaging /\ pkg'.kind = "LIO" /\ ~imu_need_init
                   => propagated /\ last_prop_end_time = pkg'.beg]_propVars

\* The state is carried over a package of points from its start to its end with no
\* instant left out and none counted twice.  The exception: a single sample in a
\* package after the last one ended between samples; the time behind it is lost.
Covered ==
  [][(pkg'.kind = "LIO" /\ propagated) =>
       \/ Tiles(steps', pkg'.beg, pkg'.end)
       \/ /\ Len(pkg'.imu) = 1 /\ last_imu < pkg'.beg
          /\ Tiles(steps', pkg'.beg, pkg'.imu[1])
       \/ pkg'.imu = <<>> /\ steps' = <<>>]_propVars

\* When the k-th pose of IMUpose is, since the start of the package; "base" is the
\* pose of the start itself, in front of which those of before may have been left.
PoseAt(k, base, moves, beg) == IF k = base THEN 0 ELSE moves[k - base].to - beg

\* The poses h the points c are moved with.  A point at the start is not moved.  Any
\* other but the first is moved once, from the latest pose before it, the last pose
\* excepted, which is that of the end: a point left over past the end is carried on
\* from the one before.  The first point is moved again from every earlier pose.
MovedBy(h, c, moves, beg, base) ==
  LET own == base .. base + Len(moves) - 1
      Before(t) == {k \in own : PoseAt(k, base, moves, beg) < t}
  IN  \A j \in 1 .. Len(c) :
        /\ c[j] = 0 => h[j] = {}
        /\ j > 1 /\ c[j] > 0 =>
             \E k \in Before(c[j]) :
               /\ h[j] = {k}
               /\ \A e \in Before(c[j]) :
                    PoseAt(e, base, moves, beg) <= PoseAt(k, base, moves, beg)
        /\ j = 1 => h[j] \cap own = Before(c[j])

\* So the points of every package with samples are moved, where "before" counts from
\* the start of the package: without a camera the curvature is short of that by the
\* gap between the start and the scan's header.
MovedStep ==
  (pkg'.kind = "LIO" /\ propagated /\ pkg'.imu # <<>>) =>
    MovedBy(heads', pkg'.points, steps', pkg'.beg, Len(IMUpose) + 1)

MovedOnce == [][MovedStep]_propVars

MotionConsistent == StartKnown /\ Covered /\ MovedOnce
=============================================================================
