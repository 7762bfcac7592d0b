---------------------------- MODULE LivoxDriver ----------------------------
(***************************************************************************)
(* The Livox driver: configuration (LivoxConfig) and data path (LivoxRing) *)
(* side by side.  They meet in known and connect_state, which the first    *)
(* writes and the second reads without a lock.                             *)
(***************************************************************************)
EXTENDS Integers, Sequences

CONSTANTS
  Network, NoAddress, LidarCount, Settings, ConfigFiles, MaxInFlight,
  Size, Word, Frames, NULL

Lidars == 1 .. LidarCount

\* The size of a ring and the number of values of its indices are powers of two, the
\* ring the smaller one.
ASSUME DriverAssumption ==
  /\ LidarCount \in Nat \ {0}
  /\ NoAddress \notin Network
  /\ \A file \in ConfigFiles :
       /\ Len(file) \in Nat /\ DOMAIN file = 1 .. Len(file)
       /\ \A i \in 1 .. Len(file) :
            file[i].ip \in Network \cup {NoAddress} /\ file[i].asked \subseteq Settings
  /\ MaxInFlight \in Nat \ {0}
  /\ Size \in Nat \ {0} /\ Word \in Nat
  /\ Word > Size /\ Word % Size = 0
  /\ NULL \notin Frames

VARIABLES
  known, connect_state,
  lidar_configs, start, entry, map_index_, asked, set_bits, in_flight, confirmed,
  storage_packet, rd_idx, wr_idx, imu_data, pcd_semaphore, imu_semaphore,
  producer, sdk, pcd, imu, node, out

Config == INSTANCE LivoxConfig
Ring   == INSTANCE LivoxRing

configVars == <<known, connect_state, lidar_configs, start, entry, map_index_, asked,
                set_bits, in_flight, confirmed>>
ringVars == <<storage_packet, rd_idx, wr_idx, imu_data, pcd_semaphore,
              imu_semaphore, producer, sdk, pcd, imu, node, out>>
vars == <<configVars, ringVars>>

Init == Config!Init /\ Ring!Init

\* The threads start when InitLdsLidar returns, whatever it returns; callbacks of the
\* SDK come as long as it runs.
Starting == Config!InitLdsLidar /\ UNCHANGED ringVars
Started == start \in {"done", "failed"}
Configuring(Step) == Ring!SdkRuns /\ Step /\ UNCHANGED ringVars
Moving(Step) == Started /\ Step /\ UNCHANGED configVars

Next == Starting \/ Configuring(Config!Callback) \/ Moving(Ring!Next)

Spec == Init /\ [][Next]_vars

\* Every thread is scheduled, and the SDK answers every request, by a time-out if
\* need be: sent again and again it gets through.  Nothing is assumed of the
\* reports and the data of a LiDAR, nor of the operator.
Fairness ==
  /\ WF_vars(Moving(Ring!ProducerStep)) /\ WF_vars(Moving(Ring!SdkStep))
  /\ WF_vars(Moving(Ring!PcdStep))      /\ WF_vars(Moving(Ring!ImuStep))
  /\ WF_vars(Moving(Ring!NodeStep))
  /\ \A h \in Network, s \in Settings : WF_vars(Configuring(Config!Succeed(h, s)))

FairSpec == Spec /\ Fairness

-----------------------------------------------------------------------------
ThreadOK(thread, places) == thread.at \in places /\ thread.lidar \in Lidars

\* Every variable stays in its range; the counts of the semaphores, which their
\* users read without a lock to keep them at one, do not grow.
TypeOK ==
  /\ Config!TypeOK
  /\ storage_packet \in
       [Lidars -> {<<>>} \cup [0 .. Size - 1 -> Frames \cup {NULL}]]
  /\ rd_idx \in [Lidars -> 0 .. Word - 1] /\ wr_idx \in [Lidars -> 0 .. Word - 1]
  /\ imu_data \subseteq Lidars
  /\ pcd_semaphore \in {0, 1} /\ imu_semaphore \in {0, 1}
  /\ ThreadOK(producer, {"idle", "write", "advance", "check", "count", "signal", "ended"})
  /\ ThreadOK(sdk, {"idle", "count", "signal"})
  /\ ThreadOK(pcd, {"top", "wait", "poll", "drain", "pop", "ended"})
  /\ ThreadOK(imu, {"top", "wait", "poll", "ended"})
  /\ producer.frame \in Frames \cup {NULL} /\ pcd.frame \in Frames \cup {NULL}
  /\ node \in Ring!Stages
  /\ out \in [Lidars -> Frames \cup {NULL}]

\* The lock-free ring: the slot the producer writes is not the one being read, for
\* any order of the index updates and across the wrap-around of the indices.
SlotIsSafe ==
  ~ /\ producer.at \in {"write", "advance"} /\ pcd.at = "pop"
    /\ producer.lidar = pcd.lidar
    /\ wr_idx[producer.lidar] % Size = rd_idx[pcd.lidar] % Size

\* The frames waiting in the ring of l, oldest first.
Stored(l) ==
  [i \in 1 .. Ring!UsedSize(l) |-> storage_packet[l][(rd_idx[l] + i - 1) % Size]]

Fifo == INSTANCE FrameFifo WITH queue <- [l \in Lidars |-> Stored(l)]

\* The ring with its four unlocked indices is a bounded FIFO: whole frames, once
\* each, in order, whatever the interleaving of the two threads.
ImplementsFifo == Fifo!Spec

\* No data is published of a LiDAR that has not confirmed every setting asked for,
\* whatever the order of answers, errors and repeated reports.
SamplingIsConfigured == Config!SamplingIsConfigured

\* Publishing a frame takes less time than collecting the next one.
Offers == \E l \in Lidars, f \in Frames : Ring!Offer(l, f)
KeepsUp == <>[][Offers => pcd.at \notin {"drain", "pop"}]_vars

\* An error is not for ever: a LiDAR that is reported again and again gets its
\* settings confirmed once the errors are over, and its data is published.
ReportedSamples ==
  \A h \in Network :
    /\ <>[][\A s \in Settings : ~Config!Fail(h, s)]_vars
    /\ []<><<Config!InfoChange(h)>>_vars
    => <>(h \in DOMAIN map_index_ /\ connect_state[map_index_[h]] = "Sampling")

\* A LiDAR goes on sending points, or IMU samples.
SendsPoints(l) == WF_vars(Moving(\E f \in Frames : Ring!Offer(l, f)))
SendsImu(l)    == WF_vars(Moving(Ring!ImuArrives(l)))

\* No wake-up is lost: frames of a configured LiDAR that goes on sending are
\* published again and again, also when its ring was full before.
StreamFlows ==
  \A l \in Lidars :
    SendsPoints(l) /\ KeepsUp =>
      (connect_state[l] = "Sampling" ~> (pcd.at = "pop" /\ pcd.lidar = l) \/ Ring!Requested)

\* The destructor returns, provided that the LiDARs go on sending: nobody else
\* wakes the threads it joins.
ExitCompletes ==
  (\A l \in Lidars : SendsPoints(l) /\ SendsImu(l)) /\ KeepsUp /\ <>(known # {})
    => (Ring!Requested ~> node = "gone")
=============================================================================
