---------------------------- MODULE LivoxFramer ----------------------------
(***************************************************************************)
(* The Livox driver's frames (pub_handler.cpp): the SDK's callback queues   *)
(* packets of points, a thread takes them off, collects the points of each  *)
(* LiDAR and cuts them into frames, by the LiDAR's clock when the newest    *)
(* packet of all was stamped by it, else by the host's.  A frame is what    *)
(* LivoxRing is offered; its message (lddc.cpp) is what Preprocess reads.   *)
(*                                                                          *)
(* Times are integers, MsUnits to a millisecond.  What a packet says is     *)
(* taken from the wire: any stamp and any spacing of its points, so that    *)
(* packets may be late, lost, repeated or out of order, several may be of   *)
(* one millisecond, and a LiDAR's clock may be set.  Packets are numbered   *)
(* as they come in.                                                         *)
(***************************************************************************)
EXTENDS AviaHandler

CONSTANTS
  Handles,           \* LiDARs
  publish_interval_ms,
  Stamps,            \* per LiDAR: values of timestamp, by its clock
  Spacings,          \* values of point_interval
  PacketPoints,      \* dot_num
  OffsetWord,        \* values of offset_time of a message
  MaxTime,           \* bound: milliseconds
  MaxQueue,          \* bound: packets that wait
  MaxPackets         \* bound, per LiDAR: packets that arrive

VARIABLES
  now,               \* milliseconds of the host
  arrived,           \* history, per LiDAR: how many packets came
  clocks,            \* history: the kinds of stamps that came
  is_timestamp_sync,
  raw_packet_queue,
  points_clouds,     \* per LiDAR: points not in a frame yet
  points,            \* per LiDAR: points of its last frame
  frame,             \* the LiDARs whose points the last step has published
  first, last_pub_time,
  published          \* history, per LiDAR: the points published

framerVars == <<now, arrived, clocks, is_timestamp_sync, raw_packet_queue,
                points_clouds, points, frame, first, last_pub_time, published>>

publish_interval == publish_interval_ms * MsUnits
publish_interval_tolerance == publish_interval - MsUnits

HostTime == now * MsUnits

FramerInit ==
  /\ now = 0 /\ arrived = [h \in Handles |-> 0] /\ clocks = {}
  /\ is_timestamp_sync = FALSE /\ raw_packet_queue = <<>>
  /\ points_clouds = [h \in Handles |-> <<>>] /\ points = [h \in Handles |-> <<>>]
  /\ frame = {} /\ first = TRUE /\ last_pub_time = 0
  /\ published = [h \in Handles |-> <<>>]

-----------------------------------------------------------------------------
(* The LiDARs and the callback of the SDK. *)

Tick ==
  /\ now < MaxTime /\ now' = now + 1
  /\ UNCHANGED <<arrived, clocks, is_timestamp_sync, raw_packet_queue, points_clouds,
                 points, frame, first, last_pub_time, published>>

\* OnLivoxLidarPointCloudCallback, with a packet of points.  Its stamp
\* (GetEthPacketTimestamp) is the LiDAR's, if that has a synchronised clock, else the
\* host's time.
OnPointCloud(h, synced, stamp, spacing) ==
  LET n == arrived[h] + 1
  IN  /\ n <= MaxPackets[h] /\ Len(raw_packet_queue) < MaxQueue
      /\ arrived' = [arrived EXCEPT ![h] = n]
      /\ is_timestamp_sync' = synced
      /\ raw_packet_queue' = Append(raw_packet_queue,
           [handle |-> h, packet |-> n, synced |-> synced, spacing |-> spacing,
            time_stamp |-> IF synced THEN stamp ELSE HostTime])
      /\ clocks' = clocks \cup {synced}
      /\ UNCHANGED <<now, points_clouds, points, frame, first, last_pub_time, published>>

\* The same callback with an IMU sample, which has a stamp as well.
OnImu(synced) ==
  /\ is_timestamp_sync' = synced /\ clocks' = clocks \cup {synced}
  /\ UNCHANGED <<now, arrived, raw_packet_queue, points_clouds, points, frame, first,
                 last_pub_time, published>>

-----------------------------------------------------------------------------
(* RawDataProcess and CheckTimer. *)

\* PointCloudProcess: the points of a packet, in equal steps from its stamp.
PointsOf(pkt) ==
  [i \in 1 .. PacketPoints |->
     [packet |-> pkt.packet, synced |-> pkt.synced,
      offset_time |-> pkt.time_stamp + (i - 1) * pkt.spacing]]

BaseTime(cloud) == IF cloud = <<>> THEN 0 ELSE cloud[1].offset_time
RecentTime(cloud) == IF cloud = <<>> THEN 0 ELSE cloud[Len(cloud)].offset_time

Ms(time) == time \div MsUnits

\* By the LiDAR's clock: the packet ends in a millisecond that ends an interval, and
\* the points make up an interval, but for a millisecond; the difference is unsigned.
Due(base, recent) ==
  /\ Ms(recent) % publish_interval_ms = 0 /\ Ms(recent) # 0
  /\ recent < base \/ recent - base >= publish_interval_tolerance

DueByLidar(cloud) == Due(BaseTime(cloud), RecentTime(cloud))

\* By the host's: an interval has passed since the last time, which is then one
\* interval further.
DueByHost == ~first /\ HostTime - last_pub_time >= publish_interval

\* What GetLidarPointClouds leaves behind: the clouds are swapped, the old frame having
\* been cleared before.
LeftOld(old) == old     \* fault: it is not cleared
LeftEmpty(old) == <<>>

\* The frame of the LiDARs in due, out of their clouds.
Cut(due, clouds) ==
  /\ frame' = {h \in due : clouds[h] # <<>>}
  /\ points' = [h \in Handles |-> IF h \in due THEN clouds[h] ELSE points[h]]
  /\ points_clouds' = [h \in Handles |-> IF h \in due THEN LeftEmpty(points[h]) ELSE clouds[h]]
  /\ published' = [h \in Handles |-> published[h] \o
       (IF h \in due THEN clouds[h] ELSE <<>>)]

NoCut(clouds) ==
  /\ frame' = {} /\ points_clouds' = clouds
  /\ UNCHANGED <<points, published>>

\* One packet is taken off, its points are collected, and the timer is looked at, with
\* the flag as the newest callback has left it.
RawDataProcess ==
  /\ raw_packet_queue # <<>>
  /\ raw_packet_queue' = Tail(raw_packet_queue)
  /\ LET pkt == Head(raw_packet_queue)
         h == pkt.handle
         clouds == [points_clouds EXCEPT ![h] = @ \o PointsOf(pkt)]
     IN  IF is_timestamp_sync
         THEN /\ IF DueByLidar(clouds[h]) THEN Cut({h}, clouds) ELSE NoCut(clouds)
              /\ UNCHANGED <<first, last_pub_time>>
         ELSE /\ IF DueByHost THEN Cut(Handles, clouds) ELSE NoCut(clouds)
              /\ first' = FALSE
              /\ last_pub_time' = IF first THEN HostTime
                                  ELSE IF DueByHost THEN last_pub_time + publish_interval
                                  ELSE last_pub_time
  /\ UNCHANGED <<now, arrived, clocks, is_timestamp_sync>>

-----------------------------------------------------------------------------
(* The message of a frame. *)

\* InitCustomMsg: the header is the time of the first point.  FillPointsToCustomMsg:
\* the time of a point since then, cut to the width of the field.
CustomMsg(cloud) ==
  [i \in 1 .. Len(cloud) |->
     [line |-> 0, far |-> TRUE, t |-> (cloud[i].offset_time - BaseTime(cloud)) % OffsetWord]]

FramerNext ==
  \/ Tick
  \/ \E h \in Handles : \E synced \in BOOLEAN, stamp \in Stamps[h], spacing \in Spacings :
       OnPointCloud(h, synced, stamp, spacing)
  \/ \E synced \in BOOLEAN : OnImu(synced)
  \/ RawDataProcess

-----------------------------------------------------------------------------

Packets(cloud) == [i \in 1 .. Len(cloud) |-> cloud[i].packet]

Waiting(h) == {i \in 1 .. Len(raw_packet_queue) : raw_packet_queue[i].handle = h}

\* Every point that came is published once and in order, whichever clock cuts and
\* whenever the kind of the stamps changes: those published, those collected and those
\* still in packets are all there are.
PointsOnce ==
  \A h \in Handles :
    LET all == Packets(published[h]) \o Packets(points_clouds[h])
        k == arrived[h] - Cardinality(Waiting(h))
    IN  all = [i \in 1 .. k * PacketPoints |-> ((i - 1) \div PacketPoints) + 1]

\* The host's timer never runs ahead: frames of one interval each at the most, also
\* when it has to catch up.
HostPace == last_pub_time <= HostTime

\* Where the packets of a frame end, the first one counted from an earlier time; they
\* are regular when one ends at most some time after another.
End(f, from, k) == IF k = 0 THEN from ELSE f[k * PacketPoints].offset_time
Regular(f, from, apart) ==
  \A k \in 1 .. Len(f) \div PacketPoints : End(f, from, k) - End(f, from, k - 1) <= apart

\* As long as all stamps are of the LiDARs' clock and it is not set back, a frame lasts
\* an interval but for the tolerance.  If its packets are no more than a millisecond
\* apart, it ends within two; and if they, with the gap to the frame before, are no
\* more than that, it ends the interval that follows on the other: no interval is
\* skipped or divided.
WholeIntervals ==
  \A h \in frame :
    LET f == points[h]
        start == BaseTime(f)
        end == RecentTime(f)
        n == Len(published[h]) - Len(f)
        before == published[h][n].offset_time
    IN  clocks = {TRUE} /\ start <= end =>
          /\ end - start >= publish_interval_tolerance
          /\ Regular(f, start, MsUnits) => Ms(end) - Ms(start) < 2 * publish_interval_ms
          /\ (n > 0 /\ before <= start /\ Regular(f, before, MsUnits - (start - before)))
               => Ms(end) = Ms(before) + publish_interval_ms

OneClock(cloud) == \A i \in 1 .. Len(cloud) : cloud[i].synced = cloud[1].synced
Forward(cloud) == \A i \in 1 .. Len(cloud) : BaseTime(cloud) <= cloud[i].offset_time

\* From the LiDAR to the estimator: with one clock in the frame, and a LiDAR's own clock
\* not set back in it, the header and the time since then are when a point was measured
\* (when it came in, for a clock that is not synchronised), if that time fits into its
\* field; and avia_handler leaves it so up to the first packet that is missing, and
\* puts no point ahead of it after that.
TimesArrive ==
  \A h \in frame :
    LET f == points[h]
    IN  OneClock(f) /\ (f[1].synced => Forward(f)) =>
          /\ AviaTimes(CustomMsg(f))
          /\ \A i \in 1 .. Len(f) :
               f[i].offset_time - BaseTime(f) < OffsetWord =>
                 BaseTime(f) + CustomMsg(f)[i].t = f[i].offset_time

FramesTrue == PointsOnce /\ HostPace /\ WholeIntervals /\ TimesArrive
=============================================================================
