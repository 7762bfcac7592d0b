------------------------------ MODULE LivoSync ------------------------------
(***************************************************************************)
(* The mapper's front end (FAST-LIVO2, LIVMapper.cpp): three subscription  *)
(* callbacks fill buffers, and run() cuts them into packages for the       *)
(* estimator.  run() spins the callbacks and the synchronisation in one    *)
(* thread, so a callback is one action, and so is a call of sync_packages  *)
(* with what run() does with its package.                                  *)
(*                                                                         *)
(* Times are integers of one fine unit; a scan with header h and n points  *)
(* measures one point per unit, from h on.  Images, poses and the map are  *)
(* left out; every sensor may lose, repeat or reorder its messages, except *)
(* that scans do not overlap and turn back at most MaxLoopBacks times.     *)
(***************************************************************************)
EXTENDS Integers, Sequences, FiniteSets, Queues

CONSTANTS
  Modes,         \* slam modes a run may have: subset of {"LIVO", "ONLY_LIO"}
  MaxTime,       \* bound: the last time stamp
  ScanStarts,    \* header times of scans
  ScanLen,       \* points of a full scan
  ScanSizes,     \* points the filter may leave of a scan: any number, even none
  Jitter,        \* 5 ms: lateness of an IMU sample that is repaired
  ImgGap,        \* 20 ms: images closer than this are dropped
  MAX_INI_COUNT, \* IMU samples averaged before the filter starts
  MaxImu, MaxImg, \* bounds: lengths of imu_buffer and of img_time_buffer
  MaxLoopBacks   \* bound: scans with a header time before the last one

Times == 1 .. MaxTime

ASSUME SyncAssumption ==
  /\ Modes \subseteq {"LIVO", "ONLY_LIO"}
  /\ {MaxTime, ScanLen, Jitter, ImgGap, MAX_INI_COUNT, MaxImu, MaxImg} \subseteq Nat \ {0}
  /\ MaxLoopBacks \in Nat /\ ScanSizes \subseteq 0 .. ScanLen
  /\ \A h \in ScanStarts : h \in Times /\ h + ScanLen - 1 \in Times
  /\ \A g, h \in ScanStarts : g < h => g + ScanLen <= h

VARIABLES
  slam_mode,
  lid_raw_data_buffer,     \* scans [h, n]: their own header time and length
  lid_header_time_buffer,
  imu_buffer,
  img_time_buffer,         \* img_buffer always has the same length
  last_timestamp_lidar, last_timestamp_imu, last_timestamp_img,  \* -1 at first
  imu_loopback,            \* since imu_loopback_first_wall_time_: "none" |
                           \* "recent" | "old" (more than 3 s ago)
  lidar_pushed, lidar,     \* ONLY_LIO: the latched scan, with its header time
  lio_vio_flg,             \* "WAIT" | "LIO" | "VIO"
  last_lio_update_time,
  pcl_proc_next,           \* points [t, c]: true time, curvature
  imu_need_init, init_iter_num,
  pkg,                     \* the last package given to the estimator
  loop_backs               \* bound counter

lidarVars == <<lid_raw_data_buffer, lid_header_time_buffer, last_timestamp_lidar,
               loop_backs>>
imuVars   == <<imu_buffer, last_timestamp_imu, imu_loopback>>
imgVars   == <<img_time_buffer, last_timestamp_img>>
syncVars  == <<lidar_pushed, lidar, lio_vio_flg, last_lio_update_time,
               pcl_proc_next, imu_need_init, init_iter_num, pkg>>
vars == <<slam_mode, lidarVars, imuVars, imgVars, syncVars>>

NoScan == [h |-> 0, n |-> 0, header |-> 0]

\* slam_mode_ is fixed by the parameters img_en, lidar_en and imu_en.
Init ==
  /\ slam_mode \in Modes
  /\ lid_raw_data_buffer = <<>> /\ lid_header_time_buffer = <<>>
  /\ imu_buffer = <<>> /\ img_time_buffer = <<>>
  /\ last_timestamp_lidar = -1 /\ last_timestamp_imu = -1 /\ last_timestamp_img = -1
  /\ imu_loopback = "none"
  /\ lidar_pushed = FALSE /\ lidar = NoScan
  /\ lio_vio_flg = "WAIT" /\ last_lio_update_time = -1
  /\ pcl_proc_next = {}
  /\ imu_need_init = TRUE /\ init_iter_num = 1
  /\ pkg = [kind |-> "none", beg |-> -1, end |-> -1, points |-> {}, imu |-> {}]
  /\ loop_backs = 0

-----------------------------------------------------------------------------
(* The callbacks. *)

\* livox_pcl_cbk: a scan older than the last one empties the buffer of clouds; an
\* empty cloud is dropped only after that.
LivoxPclCbk(h, n) ==
  LET back == h < last_timestamp_lidar
      kept == IF back THEN <<>> ELSE lid_raw_data_buffer
  IN  /\ IF back THEN loop_backs < MaxLoopBacks /\ loop_backs' = loop_backs + 1
                 ELSE h > last_timestamp_lidar /\ UNCHANGED loop_backs
      /\ IF n = 0
         THEN /\ lid_raw_data_buffer' = kept
              /\ UNCHANGED <<lid_header_time_buffer, last_timestamp_lidar>>
         ELSE /\ lid_raw_data_buffer' = Append(kept, [h |-> h, n |-> n])
              /\ lid_header_time_buffer' = Append(lid_header_time_buffer, h)
              /\ last_timestamp_lidar' = h
      /\ UNCHANGED <<slam_mode, imuVars, imgVars, syncVars>>

\* imu_cbk.  A sample in order is stored; one a little late is stored right after
\* the last; an older one is dropped until that has gone on for 3 s, when the
\* sensor is taken to have restarted and its new clock is adopted.
ImuAccept(stamp, kept) ==
  /\ Len(kept) < MaxImu /\ stamp <= MaxTime
  /\ imu_buffer' = Append(kept, stamp) /\ last_timestamp_imu' = stamp

RestartKeeps(s) ==  \* fault: samples of the old clock stay in the buffer
  ImuAccept(s, imu_buffer) /\ imu_loopback' = "none"
ImuRestart(s) == ImuAccept(s, <<>>) /\ imu_loopback' = "none"

ImuCbk(s) ==
  LET late == last_timestamp_imu - s
  IN  /\ last_timestamp_lidar >= 0
      /\ \/ late <= 0 /\ ImuAccept(s, imu_buffer) /\ imu_loopback' = "none"
         \/ /\ 0 < late /\ late < Jitter /\ last_timestamp_imu > 0
            /\ ImuAccept(last_timestamp_imu + 1, imu_buffer)
            /\ UNCHANGED imu_loopback
         \/ late >= Jitter /\ imu_loopback = "old" /\ ImuRestart(s)
         \/ /\ late >= Jitter /\ imu_loopback = "none"
            /\ imu_loopback' = "recent"
            /\ UNCHANGED <<imu_buffer, last_timestamp_imu>>
      /\ UNCHANGED <<slam_mode, lidarVars, imgVars, syncVars>>

LoopbackTimeout ==
  /\ imu_loopback = "recent" /\ imu_loopback' = "old"
  /\ UNCHANGED <<slam_mode, lidarVars, imu_buffer, last_timestamp_imu, imgVars,
                 syncVars>>

\* img_cbk
ImgCbk(s) ==
  /\ slam_mode = "LIVO"
  /\ last_timestamp_lidar >= 0
  /\ s - last_timestamp_img >= ImgGap
  /\ Len(img_time_buffer) < MaxImg
  /\ img_time_buffer' = Append(img_time_buffer, s) /\ last_timestamp_img' = s
  /\ UNCHANGED <<slam_mode, lidarVars, imuVars, syncVars>>

-----------------------------------------------------------------------------
(* sync_packages, and what processImu does with the package. *)

Back(q) == q[Len(q)]
Drop(q, k) == SubSeq(q, k + 1, Len(q))

\* How many elements a loop "while (front <= t) pop" takes off a queue.
FrontUpTo(q, t) ==
  Cardinality({i \in 1 .. Len(q) : \A j \in 1 .. i : q[j] <= t})

Ready ==
  /\ lid_raw_data_buffer # <<>> /\ imu_buffer # <<>>
  /\ slam_mode = "LIVO" => img_time_buffer # <<>>

\* The first call that gets this far starts the time of the estimator.
Base == IF last_lio_update_time < 0 THEN Head(lid_header_time_buffer)
                                    ELSE last_lio_update_time

\* Process2: the first packages only feed the mean of IMU_init, and a package
\* without samples does nothing; after that UndistortPcl moves
\* last_lio_update_time to the end of the package, image packages included.
ProcessImu(p, taken) ==
  IF imu_need_init
  THEN /\ init_iter_num' = IF init_iter_num + Len(taken) > MAX_INI_COUNT
                           THEN MAX_INI_COUNT + 1 ELSE init_iter_num + Len(taken)
       /\ imu_need_init' = (init_iter_num' <= MAX_INI_COUNT \/ taken = <<>>)
       /\ last_lio_update_time' = Base
  ELSE /\ last_lio_update_time' = p.end
       /\ UNCHANGED <<imu_need_init, init_iter_num>>

Capture == Head(img_time_buffer)
LidNewest == Back(lid_header_time_buffer) + Back(lid_raw_data_buffer).n - 1

WaitsForScan == Capture > LidNewest  \* fault: the IMU is not waited for
Waits == Capture > LidNewest \/ Capture > Back(imu_buffer)

TooOld == Capture <= Base

\* An image from before the time of the estimator is thrown away.
ThrownStays == UNCHANGED img_time_buffer  \* fault: the call returns without it
Thrown == img_time_buffer' = Tail(img_time_buffer)

ThrowImage ==
  /\ Ready /\ slam_mode = "LIVO" /\ lio_vio_flg # "LIO"
  /\ TooOld
  /\ Thrown
  /\ last_lio_update_time' = Base
  /\ UNCHANGED <<slam_mode, lidarVars, imuVars, last_timestamp_img, lidar_pushed,
                 lidar, lio_vio_flg, pcl_proc_next, imu_need_init, init_iter_num, pkg>>

\* The points of the i-th buffered scan: their true time and their curvature, which
\* is rebased from the header in the time buffer to "base".
PointsOf(i, base) ==
  LET scan == lid_raw_data_buffer[i]
  IN  {[t |-> scan.h + o, c |-> o + lid_header_time_buffer[i] - base] :
         o \in 0 .. scan.n - 1}

NextBaseOld(end) == Base  \* fault: left-over points keep the old base
NextBase(end) == end

\* LIVO: cut the scans and the IMU at the capture time of the oldest image.
CutLio ==
  LET end    == Capture
      scans  == FrontUpTo(SubSeq(lid_header_time_buffer, 1, Len(lid_raw_data_buffer)), end)
      popped == FrontUpTo(imu_buffer, end)
      taken  == Select(SubSeq(imu_buffer, 1, popped), {s \in Times : s > Base})
      cur    == {p \in UNION {PointsOf(i, Base) : i \in 1 .. scans} :
                   p.c + Base < end}
      rest   == {p \in UNION {PointsOf(i, NextBase(end)) : i \in 1 .. scans} :
                   p.c + NextBase(end) >= end}
      p      == [kind |-> "LIO", beg |-> Base, end |-> end,
                 points |-> pcl_proc_next \cup cur,
                 imu |-> {taken[i] : i \in 1 .. Len(taken)}]
  IN  /\ Ready /\ slam_mode = "LIVO" /\ lio_vio_flg # "LIO"
      /\ ~TooOld /\ ~Waits
      /\ imu_buffer' = Drop(imu_buffer, popped)
      /\ lid_raw_data_buffer' = Drop(lid_raw_data_buffer, scans)
      /\ lid_header_time_buffer' = Drop(lid_header_time_buffer, scans)
      /\ pcl_proc_next' = rest
      /\ lio_vio_flg' = "LIO" /\ pkg' = p
      /\ ProcessImu(p, taken)
      /\ UNCHANGED <<slam_mode, last_timestamp_lidar, last_timestamp_imu,
                     imu_loopback, imgVars, loop_backs, lidar_pushed, lidar>>

\* LIVO: the image itself follows, once.
AfterVioAgain == "LIO"  \* fault: the state is left as it was
AfterVio == "VIO"

CutVio ==
  LET p == [kind |-> "VIO", beg |-> last_lio_update_time, end |-> Capture,
            points |-> {}, imu |-> {}]
  IN  /\ Ready /\ slam_mode = "LIVO" /\ lio_vio_flg = "LIO"
      /\ img_time_buffer' = Tail(img_time_buffer)
      /\ lio_vio_flg' = AfterVio /\ lidar_pushed' = FALSE /\ pkg' = p
      /\ ProcessImu(p, <<>>)
      /\ UNCHANGED <<slam_mode, lidarVars, imuVars, last_timestamp_img, lidar,
                     pcl_proc_next>>

\* ONLY_LIO: the scan in hand is the latched one, else the front of the buffer if
\* that has two points or more.
InHand ==
  IF lidar_pushed THEN lidar
  ELSE [h |-> Head(lid_raw_data_buffer).h, n |-> Head(lid_raw_data_buffer).n,
        header |-> Head(lid_header_time_buffer)]
ScanEnd == InHand.header + InHand.n - 1
UsableMore == lidar_pushed \/ InHand.n > 2  \* fault: off by one
Usable == lidar_pushed \/ InHand.n > 1

WholeScan ==
  LET popped == FrontUpTo(imu_buffer, ScanEnd)
      taken  == SubSeq(imu_buffer, 1, popped)
      p      == [kind |-> "LIO", beg |-> Base, end |-> ScanEnd,
                 points |-> {[t |-> InHand.h + o, c |-> o] : o \in 0 .. InHand.n - 1},
                 imu |-> {taken[i] : i \in 1 .. popped}]
  IN  /\ Ready /\ slam_mode = "ONLY_LIO" /\ Usable
      /\ last_timestamp_imu >= ScanEnd
      /\ imu_buffer' = Drop(imu_buffer, popped)
      /\ lid_raw_data_buffer' = Tail(lid_raw_data_buffer)
      /\ lid_header_time_buffer' = Tail(lid_header_time_buffer)
      /\ lidar_pushed' = FALSE /\ lidar' = NoScan
      /\ lio_vio_flg' = "LIO" /\ pkg' = p
      /\ ProcessImu(p, taken)
      /\ UNCHANGED <<slam_mode, last_timestamp_lidar, last_timestamp_imu,
                     imu_loopback, imgVars, loop_backs, pcl_proc_next>>

\* A call that returns false may still have started the time of the estimator or
\* latched a scan.
SyncWaits ==
  /\ Ready
  /\ \/ slam_mode = "LIVO" /\ lio_vio_flg # "LIO" /\ ~TooOld /\ Waits
     \/ slam_mode = "ONLY_LIO" /\ (Usable => last_timestamp_imu < ScanEnd)
  /\ last_lio_update_time' = Base
  /\ IF slam_mode = "ONLY_LIO" /\ Usable
     THEN lidar_pushed' = TRUE /\ lidar' = InHand
     ELSE UNCHANGED <<lidar_pushed, lidar>>
  /\ UNCHANGED <<slam_mode, lidarVars, imuVars, imgVars, lio_vio_flg, pcl_proc_next,
                 imu_need_init, init_iter_num, pkg>>

SyncPackages == ThrowImage \/ CutLio \/ CutVio \/ WholeScan \/ SyncWaits

Next ==
  \/ \E h \in ScanStarts, n \in ScanSizes : LivoxPclCbk(h, n)
  \/ \E s \in Times : ImuCbk(s)
  \/ LoopbackTimeout
  \/ \E s \in Times : ImgCbk(s)
  \/ SyncPackages

Spec == Init /\ [][Next]_vars

\* run() calls sync_packages again and again.  Nothing is assumed of the sensors.
FairSpec == Spec /\ WF_vars(SyncPackages)

-----------------------------------------------------------------------------
(* Properties. *)

Point == [t : Times, c : -MaxTime .. MaxTime]

TypeOK ==
  /\ slam_mode \in Modes
  /\ lid_raw_data_buffer \in Seq([h : ScanStarts, n : 1 .. ScanLen])
  /\ lid_header_time_buffer \in Seq(ScanStarts)
  /\ imu_buffer \in Seq(Times) /\ Len(imu_buffer) <= MaxImu
  /\ img_time_buffer \in Seq(Times) /\ Len(img_time_buffer) <= MaxImg
  /\ {last_timestamp_lidar, last_timestamp_imu, last_timestamp_img} \subseteq {-1} \cup Times
  /\ imu_loopback \in {"none", "recent", "old"}
  /\ lidar_pushed \in BOOLEAN /\ (lidar_pushed => lidar.n > 1)
  /\ lio_vio_flg \in {"WAIT", "LIO", "VIO"}
  /\ last_lio_update_time \in {-1} \cup Times
  /\ pcl_proc_next \subseteq Point
  /\ imu_need_init \in BOOLEAN /\ init_iter_num \in 1 .. MAX_INI_COUNT + 1
  /\ pkg.kind \in {"none", "LIO", "VIO"} /\ pkg.end \in {-1} \cup Times
  /\ pkg.points \subseteq Point /\ pkg.imu \subseteq Times
  /\ loop_backs \in 0 .. MaxLoopBacks

\* The IMU samples wait in time order whatever order they arrive in, so that the
\* loops that take them off the front miss none and give the propagation no
\* negative step.
ImuSorted ==
  \A i, j \in 1 .. Len(imu_buffer) : i < j => imu_buffer[i] <= imu_buffer[j]

\* The image a package of points was cut for is still at the front when its own
\* turn comes: the update with the image is at the time the points were moved to.
VioAtCut ==
  slam_mode = "LIVO" /\ lio_vio_flg = "LIO" =>
    img_time_buffer # <<>> /\ Capture = pkg.end

\* What the curvature of a point counts from, in the packages that are undistorted.
\* With a camera it is the start of the package, which is the end of the last one, as
\* UndistortPcl takes it to be, also for points left over from an earlier cut.
FromLastEnd ==
  pkg'.beg = pkg.end /\ \A p \in pkg'.points : p.t = pkg'.beg + p.c

\* Without a camera it is the header of the scan, and that always lies behind the last
\* end, which UndistortPcl counts the poses from: every point is taken for earlier
\* than it was by that gap.  The last point is at the end of the package.
FromHeader ==
  /\ \E h \in ScanStarts : pkg.end < h /\ \A p \in pkg'.points : p.t = h + p.c
  /\ \A p \in pkg'.points : p.t <= pkg'.end
  /\ \E p \in pkg'.points : p.t = pkg'.end

\* The times of the points of every package that is undistorted, in either mode.
CutAt ==
  pkg' # pkg /\ pkg'.kind = "LIO" /\ ~imu_need_init =>
    IF slam_mode = "LIVO" THEN FromLastEnd ELSE FromHeader
PointTimes == [][CutAt]_vars

\* What the estimator gets is a gapless stream of packages (PackageStream).
WaitingPoints ==
  {p.t : p \in pcl_proc_next}
    \cup UNION {{lid_raw_data_buffer[i].h + o : o \in 0 .. lid_raw_data_buffer[i].n - 1} :
                  i \in 1 .. Len(lid_raw_data_buffer)}

Stream == INSTANCE PackageStream WITH
  Stamps <- Times, Longest <- ScanLen,
  imaging <- slam_mode = "LIVO",
  points <- WaitingPoints,
  imu <- {imu_buffer[i] : i \in 1 .. Len(imu_buffer)},
  left <- {p.t : p \in pcl_proc_next},
  due <- IF slam_mode = "LIVO" /\ lio_vio_flg = "LIO" THEN "image" ELSE "scan",
  cut <- pkg.end,
  kind <- pkg.kind,
  scan <- {p.t : p \in pkg.points},
  samples <- pkg.imu

ImplementsStream == Stream!Spec

\* No image keeps the ones behind it waiting for ever once a scan and an IMU sample
\* newer than it have come.
ImagesFlow ==
  \A t \in Times :
    <>[](img_time_buffer # <<>> /\ Head(img_time_buffer) = t)
      => []<>(last_timestamp_lidar <= t \/ last_timestamp_imu <= t)

\* Without a camera, no scan waits for ever once the IMU has passed its end, unless
\* a scan of a single point heads the buffer: that one is never taken off.
Heads(h) == lid_raw_data_buffer # <<>> /\ Head(lid_raw_data_buffer).h = h
SinglePoint == lid_raw_data_buffer # <<>> /\ Head(lid_raw_data_buffer).n = 1

ScansFlow ==
  \A h \in ScanStarts :
    <>[](slam_mode = "ONLY_LIO" /\ Heads(h))
      => <>[]SinglePoint \/ []<>(last_timestamp_imu < h + ScanLen - 1)

\* "lidar loop back, clear buffer" (line 799): whatever was buffered before, the
\* clouds and the header times wait in pairs.
HeadersMatch ==
  /\ Len(lid_raw_data_buffer) = Len(lid_header_time_buffer)
  /\ \A i \in 1 .. Len(lid_raw_data_buffer) :
       lid_raw_data_buffer[i].h = lid_header_time_buffer[i]
=============================================================================
