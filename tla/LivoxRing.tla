----------------------------- MODULE LivoxRing -----------------------------
(***************************************************************************)
(* The data path of the Livox driver, from a finished frame to the ROS     *)
(* publisher: lds.cpp, ldq.cpp, semaphore.cpp, lddc.cpp, driver_node.cpp.  *)
(*                                                                         *)
(* Four threads and the destructor of the node:                            *)
(*   producer   point_process_thread of pub_handler.cpp, stores frames     *)
(*   sdk        the SDK's data thread, stores IMU samples                  *)
(*   pcd, imu   the two poll threads, publish them                         *)
(* The ring of a LiDAR has no lock: each access to an index is a step.     *)
(* Copying a frame into or out of a slot is one step; SlotIsSafe is why.   *)
(* IMU lists have a mutex and are only empty or not: any number may wait.  *)
(***************************************************************************)
EXTENDS Integers, Sequences

CONSTANTS
  LidarCount,  \* lidar_count_, the number of device slots
  Size,        \* slots of a ring: CalculatePacketQueueSize, a power of 2
  Word,        \* number of values of an index: 2^32 in the code
  Frames,      \* contents a frame may have
  NULL         \* a slot that was never written, or nothing published yet

Lidars == 1 .. LidarCount

VARIABLES
  known, connect_state,           \* of LivoxConfig, only read here
  storage_packet, rd_idx, wr_idx, \* LidarDataQueue of every LiDAR
  imu_data,                       \* LiDARs whose imu_data is not empty
  pcd_semaphore, imu_semaphore,   \* their counts
  producer, sdk, pcd, imu,        \* where the threads are
  node,                           \* how far the node is being destroyed
  out                             \* the frame published last

ringVars  == <<storage_packet, rd_idx, wr_idx>>
imuVars   == <<imu_data, imu_semaphore>>
vars == <<ringVars, imuVars, pcd_semaphore, producer, sdk, pcd, imu, node, out>>

Init ==
  /\ storage_packet = [l \in Lidars |-> <<>>]
  /\ rd_idx = [l \in Lidars |-> 0] /\ wr_idx = [l \in Lidars |-> 0]
  /\ imu_data = {}
  /\ pcd_semaphore = 0 /\ imu_semaphore = 0
  /\ producer = [at |-> "idle", lidar |-> 1, frame |-> NULL]
  /\ sdk = [at |-> "idle", lidar |-> 1]
  /\ pcd = [at |-> "top", lidar |-> 1, frame |-> NULL]
  /\ imu = [at |-> "top", lidar |-> 1]
  /\ node = "running"
  /\ out = [l \in Lidars |-> NULL]

\* The node's life: RequestExit, the promise of exit_signal_, both threads joined,
\* the SDK stopped, PubHandler's is_quit_, its thread joined.
Stages == {"running", "requested", "signalled", "joined", "stopped", "quit", "gone"}
Requested == node # "running"                       \* request_exit_
Signalled == node \notin {"running", "requested"}   \* exit_signal_
SdkRuns   == node \in {"running", "requested", "signalled"}

-----------------------------------------------------------------------------
(* ldq.cpp *)

UsedSize(l) == (wr_idx[l] - rd_idx[l]) % Word
IsEmpty(l)  == rd_idx[l] = wr_idx[l]
FullLate(l) == UsedSize(l) > Size  \* fault: > size instead of > mask
IsFull(l)   == UsedSize(l) > Size - 1
Slot(idx)   == idx % Size

-----------------------------------------------------------------------------
(* point_process_thread: Lds::StoragePointData, PushLidarData *)

\* The first frame makes the ring.
FreshRing == [i \in 0 .. Size - 1 |-> NULL]

WhenFullSilent == "idle"  \* fault: a full ring wakes nobody
WhenFull == "count"

\* A frame of a LiDAR with an index: room is looked for, or it is dropped.
Offer(l, f) ==
  /\ producer.at = "idle" /\ l \in known
  /\ node \notin {"quit", "gone"}   \* is_quit_
  /\ storage_packet' = [storage_packet EXCEPT ![l] = IF @ = <<>> THEN FreshRing ELSE @]
  /\ producer' = IF IsFull(l) THEN [at |-> WhenFull, lidar |-> l, frame |-> NULL]
                 ELSE [at |-> "write", lidar |-> l, frame |-> f]
  /\ UNCHANGED <<rd_idx, wr_idx, imuVars, pcd_semaphore, sdk, pcd, imu, node, out>>

Goto(where) == producer' = [producer EXCEPT !.at = where]
Rest == producer' = [at |-> "idle", lidar |-> 1, frame |-> NULL]

\* QueuePushAny: the slot, then the index.
Write ==
  /\ producer.at = "write" /\ Goto("advance")
  /\ storage_packet' = [storage_packet EXCEPT
                          ![producer.lidar][Slot(wr_idx[producer.lidar])] = producer.frame]
  /\ UNCHANGED <<rd_idx, wr_idx, imuVars, pcd_semaphore, sdk, pcd, imu, node, out>>

Advance ==
  /\ producer.at = "advance" /\ Goto("check")
  /\ wr_idx' = [wr_idx EXCEPT ![producer.lidar] = (@ + 1) % Word]
  /\ UNCHANGED <<storage_packet, rd_idx, imuVars, pcd_semaphore, sdk, pcd, imu, node, out>>

Check ==
  /\ producer.at = "check"
  /\ IF IsEmpty(producer.lidar) THEN Rest ELSE Goto("count")
  /\ UNCHANGED <<ringVars, imuVars, pcd_semaphore, sdk, pcd, imu, node, out>>

\* GetCount, without the semaphore's mutex: is a wake-up on its way already?
Awake(count) == count > 0

Count ==
  /\ producer.at = "count"
  /\ IF Awake(pcd_semaphore) THEN Rest ELSE Goto("signal")
  /\ UNCHANGED <<ringVars, imuVars, pcd_semaphore, sdk, pcd, imu, node, out>>

Signal ==
  /\ producer.at = "signal" /\ Rest
  /\ pcd_semaphore' = pcd_semaphore + 1
  /\ UNCHANGED <<ringVars, imuVars, sdk, pcd, imu, node, out>>

\* RawDataProcess leaves its loop, at the latest after its 500 ms of waiting.
ProducerEnds ==
  /\ producer.at = "idle" /\ node = "quit"
  /\ Goto("ended")
  /\ UNCHANGED <<ringVars, imuVars, pcd_semaphore, sdk, pcd, imu, node, out>>

ProducerStep == Write \/ Advance \/ Check \/ Count \/ Signal \/ ProducerEnds

-----------------------------------------------------------------------------
(* SDK data thread: Lds::StorageImuData *)

ImuArrives(l) ==
  /\ sdk.at = "idle" /\ l \in known /\ SdkRuns
  /\ imu_data' = imu_data \cup {l}
  /\ sdk' = [at |-> "count", lidar |-> l]
  /\ UNCHANGED <<ringVars, imu_semaphore, pcd_semaphore, producer, pcd, imu, node, out>>

ImuCount ==
  /\ sdk.at = "count"
  /\ sdk' = IF sdk.lidar \in imu_data /\ ~Awake(imu_semaphore)
            THEN [sdk EXCEPT !.at = "signal"] ELSE [at |-> "idle", lidar |-> 1]
  /\ UNCHANGED <<ringVars, imuVars, pcd_semaphore, producer, pcd, imu, node, out>>

ImuSignal ==
  /\ sdk.at = "signal"
  /\ sdk' = [at |-> "idle", lidar |-> 1]
  /\ imu_semaphore' = imu_semaphore + 1
  /\ UNCHANGED <<ringVars, imu_data, pcd_semaphore, producer, pcd, imu, node, out>>

SdkStep == ImuCount \/ ImuSignal

-----------------------------------------------------------------------------
(* PointCloudDataPollThread: Lddc::DistributePointCloudData *)

\* The loop over the LiDARs: the next one, or back to the top of the thread.
NextLidar(thread) ==
  IF thread.lidar = LidarCount THEN [thread EXCEPT !.at = "top", !.lidar = 1]
  ELSE [thread EXCEPT !.lidar = @ + 1]

\* The status of the future and IsRequestExit: a request without the signal yet
\* goes round in a circle.
PcdTop ==
  /\ pcd.at = "top"
  /\ Requested => Signalled
  /\ pcd' = [pcd EXCEPT !.at = IF Signalled THEN "ended" ELSE "wait"]
  /\ UNCHANGED <<ringVars, imuVars, pcd_semaphore, producer, sdk, imu, node, out>>

PcdWait ==
  /\ pcd.at = "wait" /\ pcd_semaphore > 0
  /\ pcd_semaphore' = pcd_semaphore - 1
  /\ pcd' = [pcd EXCEPT !.at = "poll"]
  /\ UNCHANGED <<ringVars, imuVars, producer, sdk, imu, node, out>>

PcdPoll ==
  /\ pcd.at = "poll"
  /\ pcd' = IF /\ connect_state[pcd.lidar] = "Sampling"
               /\ storage_packet[pcd.lidar] # <<>>
               /\ ~Requested /\ ~IsEmpty(pcd.lidar)
            THEN [pcd EXCEPT !.at = "drain"] ELSE NextLidar(pcd)
  /\ UNCHANGED <<ringVars, imuVars, pcd_semaphore, producer, sdk, imu, node, out>>

\* QueuePrePop: the oldest frame.
PopNewest(l) == Slot(wr_idx[l] - 1)  \* fault: the newest
PopSlot(l) == Slot(rd_idx[l])

\* PublishCustomPointcloud: until the ring is empty, whoever asks to exit.
PcdDrain ==
  /\ pcd.at = "drain"
  /\ pcd' = IF IsEmpty(pcd.lidar) THEN [pcd EXCEPT !.at = "poll"]
            ELSE [pcd EXCEPT !.at = "pop",
                             !.frame = storage_packet[pcd.lidar][PopSlot(pcd.lidar)]]
  /\ UNCHANGED <<ringVars, imuVars, pcd_semaphore, producer, sdk, imu, node, out>>

PcdPop ==
  /\ pcd.at = "pop"
  /\ rd_idx' = [rd_idx EXCEPT ![pcd.lidar] = (@ + 1) % Word]
  /\ out' = [out EXCEPT ![pcd.lidar] = pcd.frame]
  /\ pcd' = [pcd EXCEPT !.at = "drain", !.frame = NULL]
  /\ UNCHANGED <<storage_packet, wr_idx, imuVars, pcd_semaphore, producer, sdk, imu, node>>

PcdStep == PcdTop \/ PcdWait \/ PcdPoll \/ PcdDrain \/ PcdPop

-----------------------------------------------------------------------------
(* ImuDataPollThread: Lddc::DistributeImuData *)

ImuTop ==
  /\ imu.at = "top"
  /\ Requested => Signalled
  /\ imu' = [imu EXCEPT !.at = IF Signalled THEN "ended" ELSE "wait"]
  /\ UNCHANGED <<ringVars, imuVars, pcd_semaphore, producer, sdk, pcd, node, out>>

ImuWait ==
  /\ imu.at = "wait" /\ imu_semaphore > 0
  /\ imu_semaphore' = imu_semaphore - 1
  /\ imu' = [imu EXCEPT !.at = "poll"]
  /\ UNCHANGED <<ringVars, imu_data, pcd_semaphore, producer, sdk, pcd, node, out>>

\* PollingLidarImuData: exit is looked for before every sample.
ImuGoesOnBlind ==  \* fault: only the list is looked at
  connect_state[imu.lidar] = "Sampling" /\ imu.lidar \in imu_data
ImuGoesOn ==
  connect_state[imu.lidar] = "Sampling" /\ ~Requested /\ imu.lidar \in imu_data

ImuPublish ==
  /\ imu.at = "poll" /\ ImuGoesOn
  /\ imu_data' \in {imu_data, imu_data \ {imu.lidar}}
  /\ UNCHANGED <<ringVars, imu_semaphore, pcd_semaphore, producer, sdk, pcd, imu, node, out>>

ImuNext ==
  /\ imu.at = "poll" /\ ~ImuGoesOn
  /\ imu' = NextLidar(imu)
  /\ UNCHANGED <<ringVars, imuVars, pcd_semaphore, producer, sdk, pcd, node, out>>

ImuStep == ImuTop \/ ImuWait \/ ImuPublish \/ ImuNext

-----------------------------------------------------------------------------
(* ~DriverNode, then the members and the static objects. *)

Stage(from, to) ==
  /\ node = from /\ node' = to
  /\ UNCHANGED <<ringVars, imuVars, pcd_semaphore, producer, sdk, pcd, imu, out>>

RequestExit == Stage("running", "requested")
SetSignal   == Stage("requested", "signalled")

Join == pcd.at = "ended" /\ imu.at = "ended" /\ Stage("signalled", "joined")

\* ~Lddc: LivoxLidarSdkUninit, no callback runs when it returns.
SdkUninit == sdk.at = "idle" /\ Stage("joined", "stopped")
Quit == Stage("stopped", "quit")
JoinProducer == producer.at = "ended" /\ Stage("quit", "gone")

NodeStep == SetSignal \/ Join \/ SdkUninit \/ Quit \/ JoinProducer

-----------------------------------------------------------------------------
Next ==
  \/ \E l \in Lidars : ImuArrives(l) \/ \E f \in Frames : Offer(l, f)
  \/ ProducerStep \/ SdkStep \/ PcdStep \/ ImuStep
  \/ RequestExit \/ NodeStep
=============================================================================
