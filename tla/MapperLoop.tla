----------------------------- MODULE MapperLoop -----------------------------
(***************************************************************************)
(* The mapper's main loop behind the synchronisation (FAST-LIVO2,           *)
(* LIVMapper.cpp): what run() does with a package, what comes out of it     *)
(* (the coloured cloud and the saved one), and the pose at the rate of the  *)
(* IMU, which a timer carries on from the last estimate.  One thread runs   *)
(* the callbacks and the loop.                                              *)
(*                                                                          *)
(* Clouds are the numbers of the scans they were made of; the estimators    *)
(* and the maps are modules of their own (ImuPropagation, VoxelMap,         *)
(* VisualMap, IteratedFilter).  Poses are the times they stand for.         *)
(***************************************************************************)
EXTENDS Integers, Sequences, FiniteSets, Queues

CONSTANTS
  pub_scan_num,      \* scans coloured together
  MaxScans,          \* bound: packages of points
  MaxTime,           \* bound: time stamps of the IMU
  MaxKept            \* bound: samples kept for the pose at the rate of the IMU

VARIABLES
  img_en, gravity_align_en, imu_prop_enable,  \* parameters
  p_imu_need_init, gravity_align_finished, lidar_map_inited,
  due,               \* the kind of the next package
  scan_number,              \* packages of points so far
  feats_undistort,   \* the scan it is of; 0: empty
  pcl_w_wait_pub,    \* the scan waiting for its image; 0: empty
  pcl_wait_pub,      \* scans waiting to be coloured
  pub_num,
  pcl_wait_save,     \* pairs <<scan, the image's scan that gave it its colour>>
  path,              \* the scans whose pose is on the published path
  saved, running,
  clock,             \* newest stamp
  cut,               \* last_lio_update_time
  prop_imu_buffer, newest_imu, new_imu,
  ekf_finish_once, state_update_flg, latest_ekf_time,
  imu_propagate,     \* the time the pose at the rate of the IMU stands for
  last_t             \* last_t_from_lidar_end_time

paramVars == <<img_en, gravity_align_en, imu_prop_enable>>
mapVars   == <<p_imu_need_init, gravity_align_finished, lidar_map_inited, due, scan_number,
               feats_undistort>>
cloudVars == <<pcl_w_wait_pub, pcl_wait_pub, pub_num, pcl_wait_save, path, saved>>
imuVars   == <<prop_imu_buffer, newest_imu, new_imu>>
ekfVars   == <<ekf_finish_once, state_update_flg, latest_ekf_time>>
poseVars  == <<imu_propagate, last_t>>
loopVars == <<paramVars, mapVars, cloudVars, running, clock, cut, imuVars, ekfVars, poseVars>>

\* What the loop knows of the configuration file.  lidar_en and imu_en are on.
ReadParameters ==
  img_en \in BOOLEAN /\ gravity_align_en \in BOOLEAN /\ imu_prop_enable \in BOOLEAN

\* readParameters throws if an extrinsic is missing or of the wrong length; the rotation
\* of the camera may go by either name.
ExtrinsicsGiven(given) ==
  {"extrinsic_T", "extrinsic_R", "Pcl"} \subseteq given /\ given \cap {"Rcl", "Rlc"} # {}

\* The constructor: without them, or without the camera's model, there is no run().
Constructed(given) == ExtrinsicsGiven(given) /\ "camera" \in given

\* initializeComponents.
SlamMode == IF img_en THEN "LIVO" ELSE "ONLY_LIO"

LoopInit ==
  /\ ReadParameters
  /\ p_imu_need_init = TRUE /\ gravity_align_finished = FALSE /\ lidar_map_inited = FALSE
  /\ due = "LIO" /\ scan_number = 0 /\ feats_undistort = 0
  /\ pcl_w_wait_pub = 0 /\ pcl_wait_pub = <<>> /\ pub_num = 1
  /\ pcl_wait_save = <<>> /\ path = <<>> /\ saved = <<>>
  /\ \E given \in SUBSET {"extrinsic_T", "extrinsic_R", "Pcl", "Rcl", "Rlc", "camera"} :
       running = Constructed(given)
  /\ clock = 0 /\ cut = 0
  /\ prop_imu_buffer = <<>> /\ newest_imu = 0 /\ new_imu = FALSE
  /\ ekf_finish_once = FALSE /\ state_update_flg = FALSE /\ latest_ekf_time = 0
  /\ imu_propagate = 0 /\ last_t = 0

-----------------------------------------------------------------------------
(* processImu *)

\* Process2 in two words: the packages that feed the mean leave no cloud behind, a
\* package of points leaves its own, an image package an empty one.
ProcessImu(number, ready) ==
  /\ p_imu_need_init' = (p_imu_need_init /\ ~ready)
  /\ feats_undistort' = IF p_imu_need_init THEN feats_undistort ELSE number

\* gravityAlignment, once, as soon as gravity is known.
AlignedLate ==  \* fault: only from the package behind
  gravity_align_finished' = (gravity_align_finished \/ (gravity_align_en /\ ~p_imu_need_init))
GravityAlignment ==
  gravity_align_finished' = (gravity_align_finished \/ (gravity_align_en /\ ~p_imu_need_init'))

-----------------------------------------------------------------------------
(* publish_frame_world *)

NextRound == IF pub_num = pub_scan_num THEN 1 ELSE pub_num + 1

\* All that waits is coloured with the image of the last of pub_scan_num scans; some
\* of the scans may be out of its view, and the queue is emptied if any is in view.
EmptiedNever(queue) == queue  \* fault: it is never emptied
Emptied(queue) == <<>>

InView(queue, seen) == Select(queue, seen)

PublishFrameWorld(cloud, seen) ==
  LET queue == Append(pcl_wait_pub, cloud)
      coloured == IF pub_num = pub_scan_num THEN InView(queue, seen) ELSE <<>>
  IN  /\ pcl_w_wait_pub' = 0
      /\ IF img_en
         THEN /\ pub_num' = NextRound
              /\ pcl_wait_save' = pcl_wait_save
                   \o [i \in 1 .. Len(coloured) |-> <<coloured[i], cloud>>]
              /\ pcl_wait_pub' = IF coloured # <<>> THEN Emptied(queue) ELSE queue
         ELSE /\ pcl_wait_save' = Append(pcl_wait_save, <<cloud, 0>>)
              /\ UNCHANGED <<pcl_wait_pub, pub_num>>

-----------------------------------------------------------------------------
(* The packages: handleLIO and handleVIO. *)

\* What either does with its estimate for the pose at the rate of the IMU.
EkfFinished ==
  IF imu_prop_enable
  THEN ekf_finish_once' = TRUE /\ latest_ekf_time' = cut' /\ state_update_flg' = TRUE
  ELSE UNCHANGED ekfVars

\* publish_odometry, publish_path: the pose of a scan, and all of them so far.
PublishPath(cloud) == path' = Append(path, cloud)

\* handleLIO: a package without points leaves the maps and the clouds alone.
HandleLIO(filled, ready, end) ==
  /\ running /\ due = "LIO" /\ scan_number < MaxScans
  /\ cut < end /\ end <= clock
  /\ scan_number' = scan_number + 1 /\ due' = IF SlamMode = "LIVO" THEN "VIO" ELSE "LIO"
  /\ ProcessImu(IF filled THEN scan_number' ELSE 0, ready) /\ GravityAlignment
  /\ cut' = IF p_imu_need_init THEN cut ELSE end
  /\ IF feats_undistort' = 0
     THEN UNCHANGED <<lidar_map_inited, ekfVars, cloudVars>>
     ELSE /\ lidar_map_inited' = TRUE
          /\ EkfFinished /\ PublishPath(feats_undistort')
          /\ IF img_en
             THEN /\ pcl_w_wait_pub' = feats_undistort'
                  /\ UNCHANGED <<pcl_wait_pub, pub_num, pcl_wait_save>>
             ELSE PublishFrameWorld(feats_undistort', {})
          /\ UNCHANGED saved
  /\ UNCHANGED <<paramVars, running, clock, imuVars, poseVars>>

\* handleVIO: an image without a cloud is not used.
HandleVIO(seen) ==
  /\ running /\ due = "VIO" /\ due' = "LIO"
  /\ ProcessImu(0, FALSE) /\ GravityAlignment
  /\ cut' = cut
  /\ IF pcl_w_wait_pub = 0
     THEN UNCHANGED <<ekfVars, cloudVars>>
     ELSE /\ EkfFinished
          /\ PublishFrameWorld(pcl_w_wait_pub, seen)
          /\ UNCHANGED <<path, saved>>
  /\ UNCHANGED <<paramVars, lidar_map_inited, scan_number, running, clock, imuVars, poseVars>>

\* The end of run(): savePCD.
SavePCD ==
  /\ running /\ running' = FALSE
  /\ saved' = pcl_wait_save
  /\ UNCHANGED <<paramVars, mapVars, pcl_w_wait_pub, pcl_wait_pub, pub_num,
                 pcl_wait_save, path, clock, cut, imuVars, ekfVars, poseVars>>

-----------------------------------------------------------------------------
(* The pose at the rate of the IMU. *)

\* imu_cbk, of a sample that is taken: one behind the last, with any gap; one less than
\* 5 ms before it, which is put behind it; or one from before it when that has lasted for
\* three seconds, which sets the clock back (until then they are thrown away).
ImuCbk(stamp) ==
  /\ running /\ Len(prop_imu_buffer) < MaxKept /\ clock' = stamp
  /\ IF imu_prop_enable
     THEN /\ prop_imu_buffer' = IF p_imu_need_init THEN prop_imu_buffer
                                ELSE Append(prop_imu_buffer, clock')
          /\ newest_imu' = clock' /\ new_imu' = TRUE
     ELSE UNCHANGED imuVars
  /\ UNCHANGED <<paramVars, mapVars, cloudVars, running, cut, ekfVars, poseVars>>

\* The samples from the estimate on: those before it are popped off the front, up to the
\* first that is not.
Kept == From(prop_imu_buffer, latest_ekf_time)

NotRestarted == last_t  \* fault: the time since the estimate runs on
Restarted == 0

\* imu_prop_callback: after a new estimate all samples since are run through again,
\* otherwise the newest one is added, whatever came before it.
ImuPropCallback ==
  /\ running
  /\ ~p_imu_need_init /\ new_imu /\ ekf_finish_once
  /\ new_imu' = FALSE
  /\ IF imu_prop_enable /\ prop_imu_buffer # <<>>
     THEN IF state_update_flg
          THEN LET t[i \in 0 .. Len(Kept)] ==
                     IF i = 0 THEN Restarted ELSE Kept[i] - latest_ekf_time
                   pose[i \in 0 .. Len(Kept)] ==
                     IF i = 0 THEN latest_ekf_time ELSE pose[i - 1] + (t[i] - t[i - 1])
               IN  /\ prop_imu_buffer' = Kept
                   /\ imu_propagate' = pose[Len(Kept)]
                   /\ last_t' = t[Len(Kept)]
                   /\ state_update_flg' = FALSE
          ELSE LET t == newest_imu - latest_ekf_time
               IN  /\ imu_propagate' = imu_propagate + (t - last_t)
                   /\ last_t' = t
                   /\ UNCHANGED <<prop_imu_buffer, state_update_flg>>
     ELSE UNCHANGED <<prop_imu_buffer, state_update_flg, poseVars>>
  /\ UNCHANGED <<paramVars, mapVars, cloudVars, running, clock, cut, newest_imu,
                 ekf_finish_once, latest_ekf_time>>

StateEstimationAndMapping ==
  \/ \E filled, ready \in BOOLEAN, end \in 1 .. MaxTime : HandleLIO(filled, ready, end)
  \/ \E seen \in SUBSET (1 .. MaxScans) : HandleVIO(seen)

\* What is subscribed to besides the sensors' buffers, and the timer of 4 ms.
Callbacks == (\E stamp \in 1 .. MaxTime : ImuCbk(stamp)) \/ ImuPropCallback

LoopNext == StateEstimationAndMapping \/ SavePCD \/ Callbacks

LoopSpec == LoopInit /\ [][LoopNext]_loopVars

-----------------------------------------------------------------------------

LoopTypeOK ==
  /\ {img_en, gravity_align_en, imu_prop_enable, p_imu_need_init, gravity_align_finished,
      lidar_map_inited, running, new_imu, ekf_finish_once, state_update_flg} \subseteq BOOLEAN
  /\ due \in {"LIO", "VIO"} /\ scan_number \in 0 .. MaxScans
  /\ {feats_undistort, pcl_w_wait_pub} \subseteq 0 .. MaxScans
  /\ pcl_wait_pub \in Seq(1 .. MaxScans) /\ pub_num \in 1 .. pub_scan_num
  /\ path \in Seq(1 .. MaxScans)
  /\ {pcl_wait_save, saved} \subseteq Seq((1 .. MaxScans) \X (0 .. MaxScans))
  /\ {clock, cut, newest_imu, latest_ekf_time, imu_propagate, last_t} \subseteq 0 .. MaxTime
  /\ prop_imu_buffer \in Seq(1 .. MaxTime)

\* Each scan gets into the saved cloud once at most, in order and in whole rounds:
\* the next round starts behind the image the last one was coloured with.
RoundsApart ==
  \A i, j \in 1 .. Len(pcl_wait_save) :
    LET a == pcl_wait_save[i]
        b == pcl_wait_save[j]
    IN  i < j => a[1] < b[1] /\ (a[2] = b[2] \/ a[2] < b[1])

\* And none that waits for its colour has been saved before.
WaitingUnsaved ==
  \A i \in 1 .. Len(pcl_wait_save), j \in 1 .. Len(pcl_wait_pub) :
    pcl_wait_save[i][2] < pcl_wait_pub[j]

\* The first points of the map are upright: gravity is aligned before.
MapUpright == lidar_map_inited /\ gravity_align_en => gravity_align_finished

CloudsOnce == RoundsApart /\ WaitingUnsaved /\ MapUpright

\* Every cloud that waits or is saved has its pose on the path, and the path has none
\* twice.
Posed(poses, cloud) == \E k \in 1 .. Len(poses) : poses[k] = cloud

OnPath ==
  /\ \A i, j \in 1 .. Len(path) : i < j => path[i] < path[j]
  /\ pcl_w_wait_pub = 0 \/ Posed(path, pcl_w_wait_pub)
  /\ \A i \in 1 .. Len(pcl_wait_pub) : Posed(path, pcl_wait_pub[i])
  /\ \A i \in 1 .. Len(pcl_wait_save) : Posed(path, pcl_wait_save[i][1])

\* What comes out of the mapper: each scan once, in order, upright, with its pose.
OutputOnce == CloudsOnce /\ OnPath

\* Whenever the pose is carried on it gets to the newest sample, each instant since
\* the last estimate counted once, however the samples, the timer and the estimates
\* come and also when the IMU's clock is set back; only where that is then behind a new
\* estimate, the pose is the estimate's own.
PoseOnTime ==
  [][(new_imu /\ ~new_imu' /\ prop_imu_buffer # <<>>) =>
       \/ imu_propagate' = newest_imu
       \/ /\ state_update_flg /\ newest_imu < latest_ekf_time
          /\ imu_propagate' = latest_ekf_time]_loopVars
=============================================================================
