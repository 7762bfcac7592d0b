---------------------------- MODULE MapperProofs ----------------------------
(***************************************************************************)
(* The mapper behind its front end, for all bounds: what the main loop      *)
(* gives out, and the two measurement updates of the Kalman filter.         *)
(***************************************************************************)
EXTENDS PreprocessProofs, FunctionTheorems, MapperLoop, IteratedFilter, ImuPropagation

-----------------------------------------------------------------------------
(* The clouds that come out of the main loop. *)

\* Scans up to here may have been given out: an image is waited for only after its scan.
Done == IF due = "LIO" THEN scan_number ELSE scan_number - 1

CloudTypes ==
  /\ img_en \in BOOLEAN /\ due \in {"LIO", "VIO"} /\ scan_number \in Nat
  /\ pcl_wait_pub \in Seq(Nat) /\ pcl_wait_save \in Seq(Nat \X Nat)

\* The cloud that waits for its image is that of the last scan.
CloudWaits ==
  /\ due = "LIO" => pcl_w_wait_pub = 0
  /\ due = "VIO" => img_en /\ scan_number >= 1 /\ pcl_w_wait_pub \in {0, scan_number}

\* What is waiting is in order; what was saved was coloured with its own or a later image.
QueueInOrder ==
  /\ \A i \in 1 .. Len(pcl_wait_pub) : pcl_wait_pub[i] <= Done
  /\ \A i, j \in 1 .. Len(pcl_wait_pub) : i < j => pcl_wait_pub[i] < pcl_wait_pub[j]

SavedBefore ==
  \A i \in 1 .. Len(pcl_wait_save) :
    /\ pcl_wait_save[i][1] <= Done /\ pcl_wait_save[i][2] <= Done
    /\ img_en => pcl_wait_save[i][1] <= pcl_wait_save[i][2]
    /\ ~img_en => pcl_wait_save[i][2] = 0

\* Until gravity is known there is no cloud.
NoneBeforeGravity ==
  /\ {p_imu_need_init, gravity_align_finished, gravity_align_en, lidar_map_inited} \subseteq BOOLEAN
  /\ p_imu_need_init => feats_undistort = 0

CloudInv ==
  /\ CloudTypes /\ CloudWaits /\ QueueInOrder /\ SavedBefore /\ NoneBeforeGravity
  /\ ~img_en => pcl_wait_pub = <<>>
  /\ CloudsOnce

\* The loop over the waiting scans takes some of them, in their order.
LEMMA InViewFacts ==
  ASSUME NEW q \in Seq(Nat), NEW seen,
         \A i, j \in 1 .. Len(q) : i < j => q[i] < q[j]
  PROVE  LET r == InView(q, seen)
         IN  /\ r \in Seq(Nat)
             /\ \A i \in 1 .. Len(r) : \E k \in 1 .. Len(q) : r[i] = q[k]
             /\ \A i, j \in 1 .. Len(r) : i < j => r[i] < r[j]
<1> DEFINE r == Select(q, seen)
<1>1. InView(q, seen) = r
  BY DEF InView
<1>2. r \in Seq(Nat) /\ Selected(r, q, Len(q), seen)
  BY SelectFacts
<1> HIDE DEF r
<1>3. PICK at \in [1 .. Len(r) -> 1 .. Len(q)] :
         /\ \A i \in 1 .. Len(r) : r[i] = q[at[i]] /\ r[i] \in seen
         /\ \A i, j \in 1 .. Len(r) : i < j => at[i] < at[j]
  BY <1>2 DEF Selected
<1>4. \A i \in 1 .. Len(r) : at[i] \in 1 .. Len(q) /\ r[i] = q[at[i]]
  BY <1>3
<1>5. \A i, j \in 1 .. Len(r) : i < j => r[i] < r[j]
  BY <1>3, <1>4
<1> QED  BY <1>1, <1>2, <1>4, <1>5

\* publish_frame_world, with a camera, called with the cloud of the last scan.
LEMMA ColouredOnce ==
  ASSUME CloudInv, img_en, NEW cloud \in Nat, NEW seen,
         cloud = scan_number, due = "VIO", PublishFrameWorld(cloud, seen)
  PROVE  /\ pcl_wait_pub' \in Seq(Nat) /\ pcl_wait_save' \in Seq(Nat \X Nat)
         /\ \A i \in 1 .. Len(pcl_wait_pub') : pcl_wait_pub'[i] <= cloud
         /\ \A i, j \in 1 .. Len(pcl_wait_pub') : i < j => pcl_wait_pub'[i] < pcl_wait_pub'[j]
         /\ \A i \in 1 .. Len(pcl_wait_save') :
              /\ pcl_wait_save'[i][1] <= pcl_wait_save'[i][2]
              /\ pcl_wait_save'[i][2] <= cloud
         /\ RoundsApart' /\ WaitingUnsaved'
<1> DEFINE queue == Append(pcl_wait_pub, cloud)
           n == Len(pcl_wait_pub)
           coloured == IF pub_num = pub_scan_num THEN InView(queue, seen) ELSE <<>>
           add == [i \in 1 .. Len(coloured) |-> <<coloured[i], cloud>>]
           old == pcl_wait_save
<1>1. /\ pcl_wait_pub \in Seq(Nat) /\ old \in Seq(Nat \X Nat) /\ n \in Nat /\ Len(old) \in Nat
      /\ \A i \in 1 .. n : pcl_wait_pub[i] < cloud
      /\ \A i \in 1 .. Len(old) : old[i][1] <= old[i][2] /\ old[i][2] < cloud
      /\ \A i \in 1 .. Len(old) : old[i] \in Nat \X Nat
      /\ \A i \in 1 .. n : pcl_wait_pub[i] \in Nat
  <2>1. pcl_wait_pub \in Seq(Nat) /\ old \in Seq(Nat \X Nat)
    BY DEF CloudInv, CloudTypes
  <2>2. n \in Nat /\ Len(old) \in Nat /\ \A i \in 1 .. n : pcl_wait_pub[i] \in Nat
    BY <2>1
  <2>3. \A i \in 1 .. Len(old) : old[i] \in Nat \X Nat
    BY <2>1
  <2>4. Done = cloud - 1
    BY DEF Done
  <2>5. \A i \in 1 .. n : pcl_wait_pub[i] <= cloud - 1
    BY <2>4 DEF CloudInv, QueueInOrder
  <2>6. \A i \in 1 .. Len(old) : old[i][1] <= old[i][2] /\ old[i][2] <= cloud - 1
    BY <2>4 DEF CloudInv, SavedBefore
  <2>7. \A i \in 1 .. Len(old) : old[i][2] < cloud
    <3>1. \A x \in Nat : x <= cloud - 1 => x < cloud
      OBVIOUS
    <3>2. \A i \in 1 .. Len(old) : old[i][2] \in Nat
      BY <2>3
    <3> HIDE DEF old
    <3> QED  BY <2>6, <3>1, <3>2
  <2> HIDE DEF old
  <2> QED  BY <2>1, <2>2, <2>3, <2>5, <2>6, <2>7
<1>2. /\ queue \in Seq(Nat) /\ Len(queue) = n + 1 /\ queue[n + 1] = cloud
      /\ \A i \in 1 .. n : queue[i] = pcl_wait_pub[i]
  BY <1>1, AppendProperties
<1>3. /\ pcl_wait_save' = old \o add
      /\ pcl_wait_pub' = IF coloured # <<>> THEN <<>> ELSE queue
  BY DEF PublishFrameWorld, Emptied
<1> HIDE DEF queue
<1>4. \A i \in 1 .. n + 1 : i = n + 1 \/ i \in 1 .. n
  BY <1>1
<1>5. /\ \A i, j \in 1 .. n + 1 : i < j => queue[i] < queue[j]
      /\ \A i \in 1 .. n + 1 : queue[i] <= cloud /\ queue[i] \in Nat
  <2>1. \A i \in 1 .. n + 1 : queue[i] <= cloud /\ queue[i] \in Nat
    <3>1. ASSUME NEW i \in 1 .. n + 1  PROVE queue[i] <= cloud /\ queue[i] \in Nat
      <4>1. CASE i = n + 1
        BY <1>2, <4>1
      <4>2. CASE i \in 1 .. n
        <5>1. queue[i] = pcl_wait_pub[i] /\ pcl_wait_pub[i] \in Nat /\ pcl_wait_pub[i] < cloud
          BY <1>1, <1>2, <4>2
        <5> QED  BY <5>1
      <4> QED  BY <1>4, <4>1, <4>2
    <3> QED  BY <3>1
  <2>2. ASSUME NEW i \in 1 .. n + 1, NEW j \in 1 .. n + 1, i < j  PROVE queue[i] < queue[j]
    <3>1. i \in 1 .. n
      BY <1>1, <2>2
    <3>2. CASE j = n + 1
      BY <1>1, <1>2, <3>1, <3>2
    <3>3. CASE j \in 1 .. n
      BY <1>2, <2>2, <3>1, <3>3 DEF CloudInv, QueueInOrder
    <3> QED  BY <1>4, <3>2, <3>3
  <2> QED  BY <2>1, <2>2
\* Every waiting scan is behind the images used so far.
<1>6. \A i \in 1 .. Len(old), j \in 1 .. n + 1 : old[i][2] < queue[j]
  <2>1. \A i \in 1 .. Len(old), j \in 1 .. n : old[i][2] < pcl_wait_pub[j]
    BY DEF CloudInv, CloudsOnce, WaitingUnsaved
  <2> QED  BY <1>1, <1>2, <1>4, <2>1
<1>7. /\ coloured \in Seq(Nat) /\ Len(coloured) \in Nat
      /\ \A i \in 1 .. Len(coloured) : \E k \in 1 .. n + 1 : coloured[i] = queue[k]
      /\ \A i, j \in 1 .. Len(coloured) : i < j => coloured[i] < coloured[j]
  <2>1. CASE pub_num = pub_scan_num
    <3>1. coloured = InView(queue, seen)
      BY <2>1
    <3> HIDE DEF coloured
    <3>2. \A i, j \in 1 .. Len(queue) : i < j => queue[i] < queue[j]
      BY <1>2, <1>5
    <3>3. LET r == InView(queue, seen)
          IN  /\ r \in Seq(Nat)
              /\ \A i \in 1 .. Len(r) : \E k \in 1 .. Len(queue) : r[i] = queue[k]
              /\ \A i, j \in 1 .. Len(r) : i < j => r[i] < r[j]
      <4>1. queue \in Seq(Nat)
        BY <1>2
      <4> QED  BY <3>2, <4>1, InViewFacts
    <3> QED  BY <1>2, <3>1, <3>3
  <2>2. CASE pub_num # pub_scan_num
    BY <2>2
  <2> QED  BY <2>1, <2>2
<1> HIDE DEF coloured
<1>8. \A i \in 1 .. Len(coloured) : coloured[i] \in Nat /\ coloured[i] <= cloud
  BY <1>5, <1>7
<1>9. /\ add \in Seq(Nat \X Nat) /\ Len(add) = Len(coloured)
      /\ \A i \in 1 .. Len(coloured) : add[i] = <<coloured[i], cloud>>
  BY <1>7, <1>8
<1> HIDE DEF add, old
<1> DEFINE new == old \o add
           k == Len(old)
<1>10. /\ new \in Seq(Nat \X Nat) /\ Len(new) = k + Len(coloured)
       /\ \A i \in 1 .. k : new[i] = old[i]
       /\ \A i \in 1 .. Len(new) : i > k =>
             i - k \in 1 .. Len(coloured) /\ new[i] = <<coloured[i - k], cloud>>
  <2>1. /\ new \in Seq(Nat \X Nat) /\ Len(new) = k + Len(add)
        /\ \A i \in 1 .. Len(new) : new[i] = IF i <= k THEN old[i] ELSE add[i - k]
    <3> DEFINE Pairs == Nat \X Nat
    <3>1. old \in Seq(Pairs) /\ add \in Seq(Pairs)
      BY <1>1, <1>9
    <3> HIDE DEF Pairs
    <3>2. /\ new \in Seq(Pairs) /\ Len(new) = k + Len(add)
          /\ \A i \in 1 .. Len(new) : new[i] = IF i <= k THEN old[i] ELSE add[i - k]
      BY <3>1, ConcatProperties
    <3> QED  BY <3>2 DEF Pairs
  <2>2. ASSUME NEW i \in 1 .. Len(new), i > k  PROVE i - k \in 1 .. Len(coloured)
    BY <1>1, <1>7, <1>9, <2>1, <2>2
  <2>3. \A i \in 1 .. k : i \in 1 .. Len(new) /\ i <= k
    BY <1>1, <1>7, <1>9, <2>1
  <2>4. \A i \in 1 .. Len(new) : i > k => ~(i <= k)
    BY <1>1
  <2> HIDE DEF new, k
  <2> QED  BY <1>9, <2>1, <2>2, <2>3, <2>4
<1> HIDE DEF new
<1>11. \A i \in 1 .. Len(new) : i \in 1 .. k \/ i > k
  BY <1>1
<1>12. \A i \in 1 .. Len(new) : new[i][1] <= new[i][2] /\ new[i][2] <= cloud
  <2>1. ASSUME NEW i \in 1 .. Len(new)  PROVE new[i][1] <= new[i][2] /\ new[i][2] <= cloud
    <3>1. CASE i \in 1 .. k
      <4>1. new[i] = old[i] /\ old[i][1] <= old[i][2] /\ old[i][2] < cloud /\ old[i] \in Nat \X Nat
        BY <1>1, <1>10, <3>1
      <4>2. old[i][2] \in Nat
        BY <4>1
      <4> QED  BY <4>1, <4>2
    <3>2. CASE i > k
      <4>1. i - k \in 1 .. Len(coloured) /\ new[i] = <<coloured[i - k], cloud>>
        BY <1>10, <3>2
      <4>2. new[i][1] = coloured[i - k] /\ new[i][2] = cloud
        BY <4>1
      <4>3. coloured[i - k] <= cloud
        BY <1>8, <4>1
      <4> QED  BY <4>2, <4>3
    <3> QED  BY <1>11, <3>1, <3>2
  <2> QED  BY <2>1
<1>13. ASSUME NEW i \in 1 .. Len(new), NEW j \in 1 .. Len(new), i < j
       PROVE  new[i][1] < new[j][1] /\ (new[i][2] = new[j][2] \/ new[i][2] < new[j][1])
  <2>1. CASE j \in 1 .. k
    <3>1. i \in 1 .. k
      BY <1>1, <1>13, <2>1
    <3>2. old[i][1] < old[j][1] /\ (old[i][2] = old[j][2] \/ old[i][2] < old[j][1])
      BY <1>13, <2>1, <3>1 DEF CloudInv, CloudsOnce, RoundsApart, old
    <3> QED  BY <1>10, <2>1, <3>1, <3>2
  <2>2. CASE j > k /\ i \in 1 .. k
    <3>1. j - k \in 1 .. Len(coloured) /\ new[j] = <<coloured[j - k], cloud>> /\ new[i] = old[i]
      BY <1>10, <2>2
    <3>2. PICK l \in 1 .. n + 1 : coloured[j - k] = queue[l]
      BY <1>7, <3>1
    <3>3. old[i][2] < queue[l] /\ queue[l] \in Nat /\ old[i] \in Nat \X Nat /\ old[i][1] <= old[i][2]
      BY <1>1, <1>5, <1>6, <2>2
    <3>4. old[i][1] \in Nat /\ old[i][2] \in Nat /\ new[j][1] = queue[l]
      BY <3>1, <3>2, <3>3
    <3>5. old[i][1] < queue[l]
      BY <3>3, <3>4
    <3> QED  BY <3>1, <3>3, <3>4, <3>5
  <2>3. CASE j > k /\ i > k
    <3>1. /\ i - k \in 1 .. Len(coloured) /\ j - k \in 1 .. Len(coloured) /\ i - k < j - k
          /\ new[i] = <<coloured[i - k], cloud>> /\ new[j] = <<coloured[j - k], cloud>>
      <4>1. /\ i - k \in 1 .. Len(coloured) /\ j - k \in 1 .. Len(coloured)
            /\ new[i] = <<coloured[i - k], cloud>> /\ new[j] = <<coloured[j - k], cloud>>
        BY <1>10, <2>3
      <4>2. i - k < j - k
        <5>1. k \in Nat /\ i \in Int /\ j \in Int
          BY <1>1
        <5> HIDE DEF k
        <5> QED  BY <1>13, <5>1
      <4> QED  BY <4>1, <4>2
    <3>2. coloured[i - k] < coloured[j - k]
      BY <1>7, <3>1
    <3> QED  BY <3>1, <3>2
  <2> QED  BY <1>11, <2>1, <2>2, <2>3
<1>14. pcl_wait_save' = new
  BY <1>3 DEF new, old
<1>15. RoundsApart'
  BY <1>13, <1>14 DEF RoundsApart
<1>16. WaitingUnsaved'
  <2>1. CASE coloured # <<>>
    BY <1>3, <2>1 DEF WaitingUnsaved
  <2>2. CASE coloured = <<>>
    <3>1. Len(coloured) = 0
      BY <2>2
    <3>2. \A i \in 1 .. Len(new) : i \in 1 .. k
      BY <1>1, <1>10, <3>1
    <3>3. \A i \in 1 .. Len(new), j \in 1 .. n + 1 : new[i][2] < queue[j]
      BY <1>6, <1>10, <3>2
    <3> QED  BY <1>2, <1>3, <1>14, <2>2, <3>3 DEF WaitingUnsaved
  <2> QED  BY <2>1, <2>2
<1>17. /\ pcl_wait_pub' \in Seq(Nat)
       /\ \A i \in 1 .. Len(pcl_wait_pub') : pcl_wait_pub'[i] <= cloud
       /\ \A i, j \in 1 .. Len(pcl_wait_pub') : i < j => pcl_wait_pub'[i] < pcl_wait_pub'[j]
  <2>1. CASE coloured # <<>>
    BY <1>3, <2>1
  <2>2. CASE coloured = <<>>
    <3>1. pcl_wait_pub' = queue
      BY <1>3, <2>2
    <3> QED  BY <1>2, <1>5, <3>1
  <2> QED  BY <2>1, <2>2
<1> QED  BY <1>10, <1>12, <1>14, <1>15, <1>16, <1>17

\* publish_frame_world without a camera: the scan is saved as it is.
LEMMA PublishedOnce ==
  ASSUME CloudInv, ~img_en, NEW cloud \in Nat, NEW seen,
         cloud = scan_number + 1, due = "LIO", PublishFrameWorld(cloud, seen)
  PROVE  /\ pcl_wait_pub' = <<>> /\ pcl_wait_save' \in Seq(Nat \X Nat)
         /\ \A i \in 1 .. Len(pcl_wait_save') :
              pcl_wait_save'[i][1] <= cloud /\ pcl_wait_save'[i][2] = 0
         /\ RoundsApart' /\ WaitingUnsaved'
<1> DEFINE old == pcl_wait_save
           k == Len(old)
           new == Append(old, <<cloud, 0>>)
           Pairs == Nat \X Nat
<1>1. pcl_wait_save' = new /\ pcl_wait_pub' = <<>>
  BY DEF PublishFrameWorld, CloudInv
<1>2. /\ old \in Seq(Pairs) /\ k \in Nat
      /\ \A i \in 1 .. k : old[i] \in Nat \X Nat
  BY DEF CloudInv, CloudTypes
<1>3. \A i \in 1 .. k : old[i][1] < cloud /\ old[i][2] = 0
  <2>1. \A i \in 1 .. k : old[i][1] <= scan_number /\ old[i][2] = 0
    BY DEF CloudInv, SavedBefore, Done
  <2>2. scan_number \in Nat /\ \A x \in Nat : x <= scan_number => x < cloud
    BY DEF CloudInv, CloudTypes
  <2>3. \A i \in 1 .. k : old[i][1] \in Nat
    BY <1>2
  <2> HIDE DEF old
  <2> QED  BY <2>1, <2>2, <2>3
<1>4. \A i, j \in 1 .. k : i < j => old[i][1] < old[j][1]
  BY DEF CloudInv, CloudsOnce, RoundsApart
<1>5. <<cloud, 0>> \in Pairs
  OBVIOUS
<1> HIDE DEF old, Pairs
<1>6. /\ new \in Seq(Pairs) /\ Len(new) = k + 1 /\ new[k + 1] = <<cloud, 0>>
      /\ \A i \in 1 .. k : new[i] = old[i]
  BY <1>2, <1>5, AppendProperties
<1> HIDE DEF new
<1>7. \A i \in 1 .. k + 1 : i \in 1 .. k \/ i = k + 1
  BY <1>2
<1>8. ASSUME NEW i \in 1 .. k + 1  PROVE new[i][1] <= cloud /\ new[i][2] = 0
  <2>1. CASE i \in 1 .. k
    <3>1. new[i] = old[i] /\ old[i][1] \in Nat /\ old[i][1] < cloud /\ old[i][2] = 0
      BY <1>2, <1>3, <1>6, <2>1
    <3> QED  BY <3>1
  <2>2. CASE i = k + 1
    BY <1>6, <2>2
  <2> QED  BY <1>7, <2>1, <2>2
<1>9. ASSUME NEW i \in 1 .. k + 1, NEW j \in 1 .. k + 1, i < j
      PROVE  new[i][1] < new[j][1]
  <2>1. i \in 1 .. k
    BY <1>2, <1>9
  <2>2. CASE j \in 1 .. k
    BY <1>4, <1>6, <1>9, <2>1, <2>2
  <2>3. CASE j = k + 1
    <3>1. new[i] = old[i] /\ old[i][1] < cloud /\ new[j][1] = cloud
      BY <1>3, <1>6, <2>1, <2>3
    <3> QED  BY <3>1
  <2> QED  BY <1>7, <2>2, <2>3
<1>10. RoundsApart'
  BY <1>1, <1>6, <1>8, <1>9 DEF RoundsApart
<1>11. WaitingUnsaved'
  BY <1>1 DEF WaitingUnsaved
<1> QED  BY <1>1, <1>6, <1>8, <1>10, <1>11 DEF Pairs

\* Nothing that CloudInv is about changes.
cloudInvVars == <<img_en, gravity_align_en, p_imu_need_init, gravity_align_finished,
                  lidar_map_inited, due, scan_number, feats_undistort, pcl_w_wait_pub,
                  pcl_wait_pub, pcl_wait_save>>

LEMMA CloudInvStays ==
  ASSUME CloudInv, UNCHANGED cloudInvVars  PROVE CloudInv'
<1>1. /\ img_en' = img_en /\ gravity_align_en' = gravity_align_en
      /\ p_imu_need_init' = p_imu_need_init /\ gravity_align_finished' = gravity_align_finished
      /\ lidar_map_inited' = lidar_map_inited /\ due' = due /\ scan_number' = scan_number
      /\ feats_undistort' = feats_undistort /\ pcl_w_wait_pub' = pcl_w_wait_pub
      /\ pcl_wait_pub' = pcl_wait_pub /\ pcl_wait_save' = pcl_wait_save
  BY DEF cloudInvVars
<1>2. Done' = Done
  BY <1>1 DEF Done
<1>3. CloudTypes' /\ CloudWaits' /\ NoneBeforeGravity'
  BY <1>1 DEF CloudInv, CloudTypes, CloudWaits, NoneBeforeGravity
<1>4. QueueInOrder' /\ SavedBefore' /\ (~img_en' => pcl_wait_pub' = <<>>)
  BY <1>1, <1>2 DEF CloudInv, QueueInOrder, SavedBefore
<1>5. CloudsOnce'
  BY <1>1 DEF CloudInv, CloudsOnce, RoundsApart, WaitingUnsaved, MapUpright
<1> QED  BY <1>3, <1>4, <1>5 DEF CloudInv

LEMMA CloudInvLio ==
  ASSUME CloudInv, NEW filled \in BOOLEAN, NEW ready \in BOOLEAN, NEW end,
         HandleLIO(filled, ready, end)
  PROVE  CloudInv'
<1>1. /\ due = "LIO" /\ scan_number' = scan_number + 1 /\ img_en' = img_en
      /\ gravity_align_en' = gravity_align_en
      /\ due' = IF img_en THEN "VIO" ELSE "LIO"
      /\ p_imu_need_init' = (p_imu_need_init /\ ~ready)
      /\ feats_undistort' = IF p_imu_need_init THEN feats_undistort
                            ELSE IF filled THEN scan_number' ELSE 0
      /\ gravity_align_finished' =
           (gravity_align_finished \/ (gravity_align_en /\ ~p_imu_need_init'))
  BY DEF HandleLIO, ProcessImu, GravityAlignment, SlamMode, paramVars
<1>2. /\ scan_number \in Nat /\ img_en \in BOOLEAN /\ pcl_w_wait_pub = 0
      /\ pcl_wait_pub \in Seq(Nat) /\ pcl_wait_save \in Seq(Nat \X Nat)
      /\ Done = scan_number
  BY <1>1 DEF CloudInv, CloudTypes, CloudWaits, Done
<1>3. /\ feats_undistort' \in {0, scan_number'}
      /\ feats_undistort' # 0 => ~p_imu_need_init /\ ~p_imu_need_init'
  BY <1>1, <1>2 DEF CloudInv, NoneBeforeGravity
<1>4. CASE feats_undistort' = 0 \/ img_en
  <2>1. /\ pcl_wait_pub' = pcl_wait_pub /\ pcl_wait_save' = pcl_wait_save
        /\ pcl_w_wait_pub' \in {0, feats_undistort'}
        /\ ~img_en => pcl_w_wait_pub' = 0
    BY <1>2, <1>4 DEF HandleLIO, cloudVars
  <2>2. Done' \in Nat /\ Done <= Done' /\ Done \in Nat
    BY <1>1, <1>2 DEF Done
  <2>3. \A i \in 1 .. Len(pcl_wait_pub) : pcl_wait_pub[i] \in Nat
    BY <1>2
  <2>4. \A i \in 1 .. Len(pcl_wait_save) :
           pcl_wait_save[i][1] \in Nat /\ pcl_wait_save[i][2] \in Nat
    <3>1. \A i \in 1 .. Len(pcl_wait_save) : pcl_wait_save[i] \in Nat \X Nat
      BY <1>2
    <3> QED  BY <3>1
  <2>5. \A x \in Nat : x <= Done => x <= Done'
    BY <2>2
  <2>6. QueueInOrder'
    BY <2>1, <2>3, <2>5 DEF CloudInv, QueueInOrder
  <2>7. SavedBefore'
    BY <1>1, <2>1, <2>4, <2>5 DEF CloudInv, SavedBefore
  <2>8. RoundsApart' /\ WaitingUnsaved'
    BY <2>1 DEF CloudInv, CloudsOnce, RoundsApart, WaitingUnsaved
  <2>9. CloudTypes' /\ CloudWaits' /\ (~img_en' => pcl_wait_pub' = <<>>)
    BY <1>1, <1>2, <1>3, <2>1 DEF CloudInv, CloudTypes, CloudWaits
  <2>10. NoneBeforeGravity' /\ MapUpright'
    <3>1. lidar_map_inited' \in {TRUE, lidar_map_inited}
          /\ (lidar_map_inited' = lidar_map_inited \/ feats_undistort' # 0)
      BY DEF HandleLIO
    <3>2. /\ p_imu_need_init \in BOOLEAN /\ gravity_align_finished \in BOOLEAN
          /\ gravity_align_en \in BOOLEAN /\ lidar_map_inited \in BOOLEAN
          /\ p_imu_need_init => feats_undistort = 0
      BY DEF CloudInv, NoneBeforeGravity
    <3>3. NoneBeforeGravity'
      <4>1. p_imu_need_init' => feats_undistort' = 0
        BY <1>1, <3>2
      <4> QED  BY <1>1, <3>1, <3>2, <4>1 DEF NoneBeforeGravity
    <3>4. lidar_map_inited /\ gravity_align_en => gravity_align_finished
      BY DEF CloudInv, CloudsOnce, MapUpright
    <3>5. MapUpright'
      <4>1. CASE feats_undistort' # 0
        BY <1>1, <1>3, <4>1 DEF MapUpright
      <4>2. CASE lidar_map_inited' = lidar_map_inited
        BY <1>1, <3>4, <4>2 DEF MapUpright
      <4> QED  BY <3>1, <4>1, <4>2
    <3> QED  BY <3>3, <3>5
  <2> QED  BY <2>6, <2>7, <2>8, <2>9, <2>10 DEF CloudInv, CloudsOnce
<1>5. CASE feats_undistort' # 0 /\ ~img_en
  <2>1. PublishFrameWorld(scan_number + 1, {}) /\ lidar_map_inited' = TRUE
    <3>1. PublishFrameWorld(feats_undistort', {}) /\ lidar_map_inited' = TRUE
      BY <1>5 DEF HandleLIO
    <3>2. feats_undistort' = scan_number + 1
      BY <1>1, <1>3, <1>5
    <3> QED  BY <3>1, <3>2
  <2>2. scan_number + 1 \in Nat
    BY <1>2
  <2>3. /\ pcl_wait_pub' = <<>> /\ pcl_wait_save' \in Seq(Nat \X Nat)
        /\ \A i \in 1 .. Len(pcl_wait_save') :
             pcl_wait_save'[i][1] <= scan_number + 1 /\ pcl_wait_save'[i][2] = 0
        /\ RoundsApart' /\ WaitingUnsaved'
    BY <1>1, <1>5, <2>1, <2>2, PublishedOnce
  <2>4. Done' = scan_number + 1 /\ pcl_w_wait_pub' = 0 /\ due' = "LIO"
    BY <1>1, <1>5, <2>1 DEF Done, PublishFrameWorld
  <2>5. QueueInOrder'
    BY <2>3 DEF QueueInOrder
  <2>6. SavedBefore'
    BY <1>1, <1>2, <1>5, <2>3, <2>4 DEF SavedBefore
  <2>7. CloudTypes' /\ CloudWaits'
    BY <1>1, <1>2, <2>3, <2>4 DEF CloudTypes, CloudWaits
  <2>8. NoneBeforeGravity' /\ MapUpright'
    BY <1>1, <1>3, <1>5, <2>1 DEF CloudInv, NoneBeforeGravity, MapUpright
  <2> QED  BY <2>3, <2>5, <2>6, <2>7, <2>8 DEF CloudInv, CloudsOnce
<1> QED  BY <1>4, <1>5

LEMMA CloudInvVio ==
  ASSUME CloudInv, NEW seen, HandleVIO(seen)  PROVE CloudInv'
<1>1. /\ due = "VIO" /\ due' = "LIO" /\ scan_number' = scan_number /\ img_en' = img_en
      /\ gravity_align_en' = gravity_align_en /\ lidar_map_inited' = lidar_map_inited
      /\ p_imu_need_init' = p_imu_need_init
      /\ feats_undistort' = IF p_imu_need_init THEN feats_undistort ELSE 0
      /\ gravity_align_finished' =
           (gravity_align_finished \/ (gravity_align_en /\ ~p_imu_need_init'))
  BY DEF HandleVIO, ProcessImu, GravityAlignment, paramVars, CloudInv, NoneBeforeGravity
<1>2. /\ scan_number \in Nat /\ scan_number >= 1 /\ img_en
      /\ pcl_w_wait_pub \in {0, scan_number}
      /\ pcl_wait_pub \in Seq(Nat) /\ pcl_wait_save \in Seq(Nat \X Nat)
      /\ Done = scan_number - 1 /\ Done' = scan_number
  BY <1>1 DEF CloudInv, CloudTypes, CloudWaits, Done
<1>3. NoneBeforeGravity' /\ MapUpright'
  BY <1>1 DEF CloudInv, NoneBeforeGravity, CloudsOnce, MapUpright
<1>4. CASE pcl_w_wait_pub = 0
  <2>1. pcl_wait_pub' = pcl_wait_pub /\ pcl_wait_save' = pcl_wait_save /\ pcl_w_wait_pub' = 0
    BY <1>4 DEF HandleVIO, cloudVars
  <2>2. \A x \in Nat : x <= Done => x <= Done'
    BY <1>2
  <2>3. \A i \in 1 .. Len(pcl_wait_pub) : pcl_wait_pub[i] \in Nat
    BY <1>2
  <2>4. \A i \in 1 .. Len(pcl_wait_save) :
           pcl_wait_save[i][1] \in Nat /\ pcl_wait_save[i][2] \in Nat
    <3>1. \A i \in 1 .. Len(pcl_wait_save) : pcl_wait_save[i] \in Nat \X Nat
      BY <1>2
    <3> QED  BY <3>1
  <2>5. QueueInOrder'
    BY <2>1, <2>2, <2>3 DEF CloudInv, QueueInOrder
  <2>6. SavedBefore'
    BY <1>1, <2>1, <2>2, <2>4 DEF CloudInv, SavedBefore
  <2>7. RoundsApart' /\ WaitingUnsaved'
    BY <2>1 DEF CloudInv, CloudsOnce, RoundsApart, WaitingUnsaved
  <2>8. CloudTypes' /\ CloudWaits' /\ (~img_en' => pcl_wait_pub' = <<>>)
    BY <1>1, <1>2, <2>1 DEF CloudInv, CloudTypes, CloudWaits
  <2> QED  BY <1>3, <2>5, <2>6, <2>7, <2>8 DEF CloudInv, CloudsOnce
<1>5. CASE pcl_w_wait_pub # 0
  <2>1. PublishFrameWorld(scan_number, seen)
    <3>1. PublishFrameWorld(pcl_w_wait_pub, seen)
      BY <1>5 DEF HandleVIO
    <3> QED  BY <1>2, <1>5, <3>1
  <2>2. /\ pcl_wait_pub' \in Seq(Nat) /\ pcl_wait_save' \in Seq(Nat \X Nat)
        /\ \A i \in 1 .. Len(pcl_wait_pub') : pcl_wait_pub'[i] <= scan_number
        /\ \A i, j \in 1 .. Len(pcl_wait_pub') : i < j => pcl_wait_pub'[i] < pcl_wait_pub'[j]
        /\ \A i \in 1 .. Len(pcl_wait_save') :
             /\ pcl_wait_save'[i][1] <= pcl_wait_save'[i][2]
             /\ pcl_wait_save'[i][2] <= scan_number
        /\ RoundsApart' /\ WaitingUnsaved'
    BY <1>1, <1>2, <2>1, ColouredOnce
  <2>3. pcl_w_wait_pub' = 0
    BY <2>1 DEF PublishFrameWorld
  <2>4. QueueInOrder'
    BY <1>2, <2>2 DEF QueueInOrder
  <2>5. SavedBefore'
    <3>1. \A i \in 1 .. Len(pcl_wait_save') :
             pcl_wait_save'[i][1] \in Nat /\ pcl_wait_save'[i][2] \in Nat
      <4>1. \A i \in 1 .. Len(pcl_wait_save') : pcl_wait_save'[i] \in Nat \X Nat
        BY <2>2
      <4> QED  BY <4>1
    <3>2. \A x, y \in Nat : x <= y /\ y <= scan_number => x <= scan_number
      BY <1>2
    <3> QED  BY <1>1, <1>2, <2>2, <3>1, <3>2 DEF SavedBefore
  <2>6. CloudTypes' /\ CloudWaits' /\ (~img_en' => pcl_wait_pub' = <<>>)
    BY <1>1, <1>2, <2>2, <2>3 DEF CloudInv, CloudTypes, CloudWaits
  <2> QED  BY <1>3, <2>2, <2>4, <2>5, <2>6 DEF CloudInv, CloudsOnce
<1> QED  BY <1>4, <1>5

\* The poses on the path are of scans there have been, in order, and every cloud given
\* on has one of them.
PathInv ==
  /\ path \in Seq(Nat)
  /\ \A k \in 1 .. Len(path) : path[k] <= scan_number
  /\ OnPath

pathInvVars == <<path, scan_number, pcl_w_wait_pub, pcl_wait_pub, pcl_wait_save>>

LEMMA PathStays ==
  ASSUME PathInv, UNCHANGED pathInvVars  PROVE PathInv'
<1>1. /\ path' = path /\ scan_number' = scan_number /\ pcl_w_wait_pub' = pcl_w_wait_pub
      /\ pcl_wait_pub' = pcl_wait_pub /\ pcl_wait_save' = pcl_wait_save
  BY DEF pathInvVars
<1> QED  BY <1>1 DEF PathInv, OnPath, Posed

\* A new pose at the end of the path: the others stay on it.
LEMMA PathGrows ==
  ASSUME PathInv, NEW cloud \in Nat, scan_number \in Nat, cloud = scan_number + 1,
         scan_number' = cloud, PublishPath(cloud)
  PROVE  /\ path' \in Seq(Nat) /\ Posed(path', cloud)
         /\ \A k \in 1 .. Len(path') : path'[k] <= scan_number'
         /\ \A i, j \in 1 .. Len(path') : i < j => path'[i] < path'[j]
         /\ \A x : Posed(path, x) => Posed(path', x)
<1> DEFINE n == Len(path)
           new == Append(path, cloud)
<1>1. path' = new
  BY DEF PublishPath
<1>2. /\ path \in Seq(Nat) /\ n \in Nat /\ \A k \in 1 .. n : path[k] \in Nat /\ path[k] < cloud
      /\ \A i, j \in 1 .. n : i < j => path[i] < path[j]
  <2>1. path \in Seq(Nat) /\ n \in Nat /\ \A k \in 1 .. n : path[k] \in Nat
    BY DEF PathInv
  <2>2. \A k \in 1 .. n : path[k] <= scan_number
    BY DEF PathInv
  <2>3. \A x \in Nat : x <= scan_number => x < cloud
    OBVIOUS
  <2> QED  BY <2>1, <2>2, <2>3 DEF PathInv, OnPath
<1>3. /\ new \in Seq(Nat) /\ Len(new) = n + 1 /\ new[n + 1] = cloud
      /\ \A k \in 1 .. n : new[k] = path[k]
  BY <1>2, AppendProperties
<1> HIDE DEF new
<1>4. \A k \in 1 .. n + 1 : k \in 1 .. n \/ k = n + 1
  BY <1>2
<1>5. Posed(path', cloud)
  BY <1>1, <1>2, <1>3 DEF Posed
<1>6. \A k \in 1 .. n + 1 : new[k] <= cloud
  BY <1>2, <1>3, <1>4
<1>7. ASSUME NEW i \in 1 .. n + 1, NEW j \in 1 .. n + 1, i < j  PROVE new[i] < new[j]
  <2>1. i \in 1 .. n /\ new[i] = path[i]
    BY <1>2, <1>3, <1>7
  <2>2. CASE j \in 1 .. n
    BY <1>2, <1>3, <1>7, <2>1, <2>2
  <2>3. CASE j = n + 1
    BY <1>2, <1>3, <2>1, <2>3
  <2> QED  BY <1>4, <2>2, <2>3
<1>8. \A x : Posed(path, x) => Posed(path', x)
  BY <1>1, <1>2, <1>3 DEF Posed
<1> QED  BY <1>1, <1>3, <1>5, <1>6, <1>7, <1>8

LEMMA PathLio ==
  ASSUME CloudInv, PathInv, NEW filled \in BOOLEAN, NEW ready \in BOOLEAN, NEW end,
         HandleLIO(filled, ready, end)
  PROVE  PathInv'
<1>1. /\ scan_number \in Nat /\ scan_number' = scan_number + 1
      /\ feats_undistort' \in {0, scan_number'}
  <2>1. scan_number \in Nat /\ scan_number' = scan_number + 1
    BY DEF HandleLIO, CloudInv, CloudTypes
  <2>2. feats_undistort' = IF p_imu_need_init THEN feats_undistort
                           ELSE IF filled THEN scan_number' ELSE 0
    BY DEF HandleLIO, ProcessImu
  <2> QED  BY <2>1, <2>2 DEF CloudInv, NoneBeforeGravity
<1>2. CASE feats_undistort' = 0
  <2>1. /\ path' = path /\ pcl_w_wait_pub' = pcl_w_wait_pub
        /\ pcl_wait_pub' = pcl_wait_pub /\ pcl_wait_save' = pcl_wait_save
    BY <1>2 DEF HandleLIO, cloudVars
  <2>2. OnPath'
    BY <2>1 DEF PathInv, OnPath, Posed
  <2>3. path' \in Seq(Nat) /\ \A k \in 1 .. Len(path') : path'[k] <= scan_number'
    <3>1. \A k \in 1 .. Len(path) : path[k] \in Nat /\ path[k] <= scan_number
      BY DEF PathInv
    <3> QED  BY <1>1, <2>1, <3>1 DEF PathInv
  <2> QED  BY <2>2, <2>3 DEF PathInv
<1>3. CASE feats_undistort' # 0
  <2> DEFINE cloud == scan_number + 1
  <2>1. feats_undistort' = cloud /\ cloud \in Nat /\ scan_number' = cloud
    BY <1>1, <1>3
  <2>2. PublishPath(cloud)
    <3>1. PublishPath(feats_undistort')
      BY <1>3 DEF HandleLIO
    <3> QED  BY <2>1, <3>1
  <2> HIDE DEF cloud
  <2>3. /\ path' \in Seq(Nat) /\ Posed(path', cloud)
        /\ \A k \in 1 .. Len(path') : path'[k] <= scan_number'
        /\ \A i, j \in 1 .. Len(path') : i < j => path'[i] < path'[j]
        /\ \A x : Posed(path, x) => Posed(path', x)
    BY <1>1, <2>1, <2>2, PathGrows DEF cloud
  <2>4. /\ \A i \in 1 .. Len(pcl_wait_pub) : Posed(path, pcl_wait_pub[i])
        /\ \A i \in 1 .. Len(pcl_wait_save) : Posed(path, pcl_wait_save[i][1])
    BY DEF PathInv, OnPath
  <2>5. /\ pcl_wait_pub' = pcl_wait_pub /\ pcl_w_wait_pub' \in {0, cloud}
        /\ pcl_wait_save' \in {pcl_wait_save, Append(pcl_wait_save, <<cloud, 0>>)}
    <3>1. CASE img_en
      BY <1>3, <2>1, <3>1 DEF HandleLIO
    <3>2. CASE ~img_en
      <4>1. PublishFrameWorld(feats_undistort', {})
        BY <1>3, <3>2 DEF HandleLIO
      <4>2. PublishFrameWorld(cloud, {})
        BY <2>1, <4>1
      <4> QED  BY <3>2, <4>2 DEF PublishFrameWorld
    <3> QED  BY <3>1, <3>2
  <2>6. \A i \in 1 .. Len(pcl_wait_save') : Posed(path', pcl_wait_save'[i][1])
    <3>1. CASE pcl_wait_save' = pcl_wait_save
      BY <2>3, <2>4, <3>1
    <3>2. CASE pcl_wait_save' = Append(pcl_wait_save, <<cloud, 0>>)
      <4> DEFINE m == Len(pcl_wait_save)
                 Pairs == Nat \X Nat
      <4>1. pcl_wait_save \in Seq(Pairs) /\ m \in Nat /\ <<cloud, 0>> \in Pairs
        BY <2>1 DEF CloudInv, CloudTypes
      <4> HIDE DEF Pairs
      <4>2. /\ Len(pcl_wait_save') = m + 1 /\ pcl_wait_save'[m + 1] = <<cloud, 0>>
            /\ \A i \in 1 .. m : pcl_wait_save'[i] = pcl_wait_save[i]
        BY <3>2, <4>1, AppendProperties
      <4>3. \A i \in 1 .. m + 1 : i \in 1 .. m \/ i = m + 1
        BY <4>1
      <4> QED  BY <2>3, <2>4, <4>2, <4>3
    <3> QED  BY <2>5, <3>1, <3>2
  <2>7. OnPath'
    BY <2>3, <2>4, <2>5, <2>6 DEF OnPath
  <2> QED  BY <2>3, <2>7 DEF PathInv
<1> QED  BY <1>2, <1>3

LEMMA PathVio ==
  ASSUME CloudInv, PathInv, NEW seen, HandleVIO(seen)  PROVE PathInv'
<1>1. path' = path /\ scan_number' = scan_number
  BY DEF HandleVIO, cloudVars
<1>2. \A x : Posed(path', x) <=> Posed(path, x)
  BY <1>1 DEF Posed
<1>3. CASE pcl_w_wait_pub = 0
  <2>1. UNCHANGED pathInvVars
    BY <1>1, <1>3 DEF HandleVIO, cloudVars, pathInvVars
  <2> QED  BY <2>1, PathStays
<1>4. CASE pcl_w_wait_pub # 0
  <2> DEFINE cloud == pcl_w_wait_pub
             queue == Append(pcl_wait_pub, cloud)
             coloured == IF pub_num = pub_scan_num THEN InView(queue, seen) ELSE <<>>
             add == [i \in 1 .. Len(coloured) |-> <<coloured[i], cloud>>]
             old == pcl_wait_save
  <2>1. img_en /\ PublishFrameWorld(cloud, seen) /\ cloud \in Nat
        /\ pcl_wait_pub \in Seq(Nat) /\ old \in Seq(Nat \X Nat) /\ Posed(path, cloud)
    BY <1>4 DEF HandleVIO, CloudInv, CloudWaits, CloudTypes, PathInv, OnPath
  <2>2. /\ pcl_w_wait_pub' = 0 /\ pcl_wait_save' = old \o add
        /\ pcl_wait_pub' = IF coloured # <<>> THEN <<>> ELSE queue
    BY <2>1 DEF PublishFrameWorld, Emptied
  <2>3. queue \in Seq(Nat) /\ \A i \in 1 .. Len(queue) : Posed(path, queue[i])
    <3> DEFINE n == Len(pcl_wait_pub)
    <3>1. /\ queue \in Seq(Nat) /\ Len(queue) = n + 1 /\ queue[n + 1] = cloud /\ n \in Nat
          /\ \A i \in 1 .. n : queue[i] = pcl_wait_pub[i]
      BY <2>1, AppendProperties
    <3> HIDE DEF queue
    <3>2. \A i \in 1 .. n + 1 : i \in 1 .. n \/ i = n + 1
      BY <3>1
    <3>3. \A i \in 1 .. n : Posed(path, pcl_wait_pub[i])
      BY DEF PathInv, OnPath
    <3> QED  BY <2>1, <3>1, <3>2, <3>3
  <2>4. coloured \in Seq(Nat) /\ \A i \in 1 .. Len(coloured) : Posed(path, coloured[i])
    <3>1. CASE pub_num # pub_scan_num
      BY <3>1
    <3>2. CASE pub_num = pub_scan_num
      <4>1. /\ coloured \in Seq(Nat)
            /\ \A i \in 1 .. Len(coloured) : \E k \in 1 .. Len(queue) : coloured[i] = queue[k]
        <5>1. coloured = Select(queue, seen)
          BY <3>2 DEF InView
        <5>2. coloured \in Seq(Nat) /\ Selected(coloured, queue, Len(queue), seen)
          BY <2>3, <5>1, SelectFacts
        <5> HIDE DEF coloured, queue
        <5> QED  BY <5>2 DEF Selected
      <4> HIDE DEF coloured, queue
      <4> QED  BY <2>3, <4>1
    <3> QED  BY <3>1, <3>2
  <2> HIDE DEF queue, coloured
  <2>5. \A i \in 1 .. Len(pcl_wait_pub') : Posed(path, pcl_wait_pub'[i])
    <3>1. CASE pcl_wait_pub' = queue
      BY <2>3, <3>1
    <3>2. CASE pcl_wait_pub' = <<>>
      BY <3>2
    <3> QED  BY <2>2, <3>1, <3>2
  <2>6. \A i \in 1 .. Len(pcl_wait_save') : Posed(path, pcl_wait_save'[i][1])
    <3> DEFINE Pairs == Nat \X Nat
    <3>1. /\ add \in Seq(Pairs) /\ Len(add) = Len(coloured)
          /\ \A i \in 1 .. Len(add) : add[i][1] = coloured[i]
      <4>1. \A i \in 1 .. Len(coloured) : <<coloured[i], cloud>> \in Pairs
        BY <2>1, <2>4
      <4>2. Len(coloured) \in Nat
        BY <2>4
      <4> HIDE DEF Pairs
      <4>3. add \in [1 .. Len(coloured) -> Pairs]
        BY <4>1
      <4> QED  BY <4>2, <4>3
    <3>2. old \in Seq(Pairs)
      BY <2>1
    <3> HIDE DEF Pairs, add, old
    <3>3. /\ Len(old \o add) = Len(old) + Len(add)
          /\ \A i \in 1 .. Len(old) + Len(add) :
               (old \o add)[i] = IF i <= Len(old) THEN old[i] ELSE add[i - Len(old)]
      BY <3>1, <3>2, ConcatProperties
    <3>4. Len(old) \in Nat /\ Len(add) \in Nat
      BY <3>1, <3>2
    <3>5. \A i \in 1 .. Len(old) : Posed(path, old[i][1])
      BY DEF PathInv, OnPath, old
    <3>6. ASSUME NEW i \in 1 .. Len(old) + Len(add)  PROVE Posed(path, (old \o add)[i][1])
      <4>1. CASE i <= Len(old)
        BY <3>3, <3>4, <3>5, <4>1
      <4>2. CASE ~(i <= Len(old))
        <5>1. i - Len(old) \in 1 .. Len(add)
          BY <3>4, <4>2
        <5>2. (old \o add)[i] = add[i - Len(old)]
          BY <3>3, <4>2
        <5> QED  BY <2>4, <3>1, <5>1, <5>2
      <4> QED  BY <4>1, <4>2
    <3> QED  BY <2>2, <3>3, <3>6
  <2>7. OnPath'
    BY <1>1, <1>2, <2>2, <2>5, <2>6 DEF PathInv, OnPath
  <2> QED  BY <1>1, <2>7 DEF PathInv
<1> QED  BY <1>3, <1>4

\* OutputOnce, for every number of scans coloured together: no scan is saved twice, none
\* after a later one, each has its pose on the path, and the map begins upright.
THEOREM OutputOnceHolds == LoopSpec => []OutputOnce
<1>1. LoopInit => CloudInv
  <2> SUFFICES ASSUME LoopInit  PROVE CloudInv
    OBVIOUS
  <2> USE DEF LoopInit, ReadParameters
  <2>1. CloudTypes /\ CloudWaits /\ NoneBeforeGravity
    <3>1. CloudTypes
      BY DEF CloudTypes
    <3>2. CloudWaits
      BY DEF CloudWaits
    <3>3. NoneBeforeGravity
      BY Zenon DEF NoneBeforeGravity
    <3> QED  BY <3>1, <3>2, <3>3
  <2>2. QueueInOrder /\ SavedBefore
    BY DEF QueueInOrder, SavedBefore
  <2>3. CloudsOnce
    BY DEF CloudsOnce, RoundsApart, WaitingUnsaved, MapUpright
  <2> QED  BY <2>1, <2>2, <2>3 DEF CloudInv
<1>2. CloudInv /\ [LoopNext]_loopVars => CloudInv'
  <2> SUFFICES ASSUME CloudInv, [LoopNext]_loopVars  PROVE CloudInv'
    OBVIOUS
  <2>1. ASSUME NEW filled \in BOOLEAN, NEW ready \in BOOLEAN, NEW end \in 1 .. MaxTime,
               HandleLIO(filled, ready, end)
        PROVE  CloudInv'
    BY <2>1, CloudInvLio
  <2>2. ASSUME NEW seen, HandleVIO(seen)  PROVE CloudInv'
    BY <2>2, CloudInvVio
  <2>3. CASE SavePCD
    <3>1. UNCHANGED cloudInvVars
      BY <2>3 DEF SavePCD, cloudInvVars, paramVars, mapVars
    <3> QED  BY <3>1, CloudInvStays
  <2>4. ASSUME NEW stamp \in 1 .. MaxTime, ImuCbk(stamp)  PROVE CloudInv'
    <3>1. UNCHANGED cloudInvVars
      BY <2>4 DEF ImuCbk, cloudInvVars, paramVars, mapVars, cloudVars
    <3> QED  BY <3>1, CloudInvStays
  <2>5. CASE ImuPropCallback
    <3>1. UNCHANGED cloudInvVars
      BY <2>5 DEF ImuPropCallback, cloudInvVars, paramVars, mapVars, cloudVars
    <3> QED  BY <3>1, CloudInvStays
  <2>6. CASE UNCHANGED loopVars
    <3>1. UNCHANGED cloudInvVars
      BY <2>6 DEF loopVars, cloudInvVars, paramVars, mapVars, cloudVars
    <3> QED  BY <3>1, CloudInvStays
  <2> QED  BY <2>1, <2>2, <2>3, <2>4, <2>5, <2>6 DEF LoopNext, Callbacks, StateEstimationAndMapping
<1>3. LoopInit => PathInv
  BY DEF LoopInit, PathInv, OnPath
<1>4. CloudInv /\ PathInv /\ [LoopNext]_loopVars => PathInv'
  <2> SUFFICES ASSUME CloudInv, PathInv, [LoopNext]_loopVars  PROVE PathInv'
    OBVIOUS
  <2>1. ASSUME NEW filled \in BOOLEAN, NEW ready \in BOOLEAN, NEW end \in 1 .. MaxTime,
               HandleLIO(filled, ready, end)
        PROVE  PathInv'
    BY <2>1, PathLio
  <2>2. ASSUME NEW seen, HandleVIO(seen)  PROVE PathInv'
    BY <2>2, PathVio
  <2>3. CASE SavePCD \/ Callbacks \/ UNCHANGED loopVars
    <3>1. UNCHANGED pathInvVars
      BY <2>3 DEF SavePCD, Callbacks, ImuCbk, ImuPropCallback, pathInvVars, mapVars,
                  cloudVars, loopVars
    <3> QED  BY <3>1, PathStays
  <2> QED  BY <2>1, <2>2, <2>3 DEF LoopNext, StateEstimationAndMapping
<1>5. CloudInv /\ PathInv => OutputOnce
  BY DEF CloudInv, PathInv, OutputOnce
<1> QED  BY <1>1, <1>2, <1>3, <1>4, <1>5, PTL DEF LoopSpec

-----------------------------------------------------------------------------
(* The pose at the rate of the IMU. *)

PoseTypes ==
  /\ p_imu_need_init \in BOOLEAN /\ imu_prop_enable \in BOOLEAN
  /\ new_imu \in BOOLEAN /\ ekf_finish_once \in BOOLEAN /\ state_update_flg \in BOOLEAN
  /\ {clock, cut, latest_ekf_time, newest_imu, imu_propagate, last_t} \subseteq Int
  /\ prop_imu_buffer \in Seq(Int)

\* The last sample kept is the newest.
SamplesKept ==
  /\ p_imu_need_init \/ ~imu_prop_enable => prop_imu_buffer = <<>>
  /\ prop_imu_buffer # <<>> =>
       newest_imu = clock /\ prop_imu_buffer[Len(prop_imu_buffer)] = clock

\* Once the pose has been taken from an estimate it stands for a time since it.
PoseSince ==
  imu_prop_enable /\ ekf_finish_once /\ ~state_update_flg
    => imu_propagate = latest_ekf_time + last_t

PoseInv == PoseTypes /\ SamplesKept /\ PoseSince

poseInvVars == <<imu_prop_enable, p_imu_need_init, clock, cut, imuVars, ekfVars, poseVars>>

LEMMA PoseInvStays ==
  ASSUME PoseInv, UNCHANGED poseInvVars  PROVE PoseInv'
<1>1. /\ imu_prop_enable' = imu_prop_enable /\ p_imu_need_init' = p_imu_need_init
      /\ clock' = clock /\ cut' = cut /\ prop_imu_buffer' = prop_imu_buffer
      /\ newest_imu' = newest_imu /\ new_imu' = new_imu /\ ekf_finish_once' = ekf_finish_once
      /\ state_update_flg' = state_update_flg /\ latest_ekf_time' = latest_ekf_time
      /\ imu_propagate' = imu_propagate /\ last_t' = last_t
  BY DEF poseInvVars, imuVars, ekfVars, poseVars
<1> QED  BY <1>1 DEF PoseInv, PoseTypes, SamplesKept, PoseSince

\* What is behind the estimate ends with the newest sample; if nothing is, that is of
\* before the estimate.
LEMMA KeptFacts ==
  ASSUME PoseInv, prop_imu_buffer # <<>>
  PROVE  /\ Kept \in Seq(Int)
         /\ IF Kept = <<>> THEN newest_imu < latest_ekf_time ELSE Kept[Len(Kept)] = newest_imu
<1> DEFINE b == prop_imu_buffer
           n == Len(b)
<1>1. b \in Seq(Int) /\ latest_ekf_time \in Int /\ clock \in Int
      /\ newest_imu = clock /\ b[n] = clock /\ n \in Nat /\ n # 0
  BY DEF PoseInv, PoseTypes, SamplesKept
<1>2. Kept = From(b, latest_ekf_time)
  BY DEF Kept
<1> HIDE DEF b
<1>3. PICK k \in 0 .. n :
         /\ From(b, latest_ekf_time) = SubSeq(b, k + 1, n)
         /\ \A j \in 1 .. k : b[j] < latest_ekf_time
         /\ k = n \/ b[k + 1] >= latest_ekf_time
  BY <1>1, FromFacts
<1> DEFINE r == SubSeq(b, k + 1, n)
<1>4. Kept = r
  BY <1>2, <1>3
<1>5. CASE k = n
  <2>1. n \in 1 .. k
    BY <1>1, <1>5
  <2>2. newest_imu < latest_ekf_time
    BY <1>1, <1>3, <2>1
  <2>3. r = <<>>
    BY <1>1, <1>5
  <2>4. <<>> \in Seq(Int)
    OBVIOUS
  <2> HIDE DEF r
  <2> QED  BY <1>4, <2>2, <2>3, <2>4
<1>6. CASE k # n
  <2>1. k + 1 \in 1 .. n /\ k \in Nat
    BY <1>1, <1>3, <1>6
  <2>2. r \in Seq(Int) /\ Len(r) = n - k /\ r[n - k] = b[n]
    <3>1. Len(r) = n - k /\ n - k \in 1 .. n - k
      BY <1>1, <2>1
    <3>2. r[n - k] = b[(k + 1) + (n - k) - 1]
      BY <1>1, <2>1
    <3>3. (k + 1) + (n - k) - 1 = n
      BY <1>1, <2>1
    <3>4. r \in Seq(Int)
      BY <1>1, <2>1
    <3> QED  BY <3>1, <3>2, <3>3, <3>4
  <2>3. n - k # 0
    BY <1>1, <2>1
  <2> HIDE DEF r
  <2>4. r # <<>>
    BY <2>2, <2>3
  <2> QED  BY <1>1, <1>4, <2>2, <2>4
<1> QED  BY <1>5, <1>6

\* The loop over these samples: each adds the time since the one before.
LEMMA PoseLoop ==
  ASSUME NEW q \in Seq(Int), NEW e \in Int
  PROVE  LET t[i \in 0 .. Len(q)] == IF i = 0 THEN 0 ELSE q[i] - e
             pose[i \in 0 .. Len(q)] ==
               IF i = 0 THEN e ELSE pose[i - 1] + (t[i] - t[i - 1])
         IN  \A i \in 0 .. Len(q) : t[i] \in Int /\ pose[i] = e + t[i]
<1> DEFINE n == Len(q)
           t[i \in 0 .. n] == IF i = 0 THEN 0 ELSE q[i] - e
           pose[i \in 0 .. n] == IF i = 0 THEN e ELSE pose[i - 1] + (t[i] - t[i - 1])
           g == [i \in 0 .. n |-> e + t[i]]
<1>1. n \in Nat /\ \A i \in 1 .. n : q[i] \in Int
  OBVIOUS
<1>2. t = [i \in 0 .. n |-> IF i = 0 THEN 0 ELSE q[i] - e]
  OBVIOUS
<1>3. \A i \in 0 .. n : t[i] \in Int
  BY <1>1, <1>2
<1>4. t[0] = 0
  BY <1>1, <1>2
<1> HIDE DEF t, n
<1>5. \A i \in 0 .. n : g[i] = IF i = 0 THEN e ELSE g[i - 1] + (t[i] - t[i - 1])
  <2> SUFFICES ASSUME NEW i \in 0 .. n
               PROVE  g[i] = IF i = 0 THEN e ELSE g[i - 1] + (t[i] - t[i - 1])
    OBVIOUS
  <2>1. CASE i = 0
    BY <1>1, <1>4, <2>1
  <2>2. CASE i # 0
    <3>1. i - 1 \in 0 .. n
      BY <1>1, <2>2
    <3>2. t[i] \in Int /\ t[i - 1] \in Int
      BY <1>3, <3>1
    <3> QED  BY <2>2, <3>1, <3>2
  <2> QED  BY <2>1, <2>2
<1>6. g = [i \in 0 .. n |-> IF i = 0 THEN e ELSE g[i - 1] + (t[i] - t[i - 1])]
  BY <1>5
<1>7. pose = [i \in 0 .. n |-> IF i = 0 THEN e ELSE pose[i - 1] + (t[i] - t[i - 1])]
  <2> HIDE DEF g
  <2> QED  BY <1>6
<1> HIDE DEF g, pose
<1> DEFINE Good == {i \in Nat : i <= n => pose[i] = e + t[i]}
<1>8. 0 \in Good
  BY <1>1, <1>4, <1>7
<1>9. ASSUME NEW i \in Nat, i \in Good  PROVE i + 1 \in Good
  <2> SUFFICES ASSUME i + 1 <= n  PROVE pose[i + 1] = e + t[i + 1]
    OBVIOUS
  <2>1. i + 1 \in 0 .. n /\ i \in 0 .. n /\ i + 1 # 0 /\ (i + 1) - 1 = i
    BY <1>1
  <2>2. pose[i + 1] = pose[i] + (t[i + 1] - t[i]) /\ pose[i] = e + t[i]
    BY <1>7, <1>9, <2>1
  <2>3. t[i] \in Int /\ t[i + 1] \in Int
    BY <1>3, <2>1
  <2> QED  BY <2>2, <2>3
<1> HIDE DEF Good
<1>10. Nat \subseteq Good
  BY <1>8, <1>9, SetInduction
<1>11. \A i \in 0 .. n : t[i] \in Int /\ pose[i] = e + t[i]
  BY <1>1, <1>3, <1>10 DEF Good
<1> QED  BY <1>11 DEF t, n, pose

\* Where the timer may carry the pose to.
CarriedOn ==
  \/ imu_propagate' = newest_imu
  \/ /\ state_update_flg /\ newest_imu < latest_ekf_time
     /\ imu_propagate' = latest_ekf_time

LEMMA PoseInvCallback ==
  ASSUME PoseInv, ImuPropCallback
  PROVE  PoseInv' /\ (prop_imu_buffer # <<>> => CarriedOn)
<1>1. /\ ~p_imu_need_init /\ new_imu /\ ekf_finish_once /\ new_imu' = FALSE
      /\ p_imu_need_init' = p_imu_need_init /\ imu_prop_enable' = imu_prop_enable
      /\ clock' = clock /\ cut' = cut /\ newest_imu' = newest_imu
      /\ ekf_finish_once' = ekf_finish_once /\ latest_ekf_time' = latest_ekf_time
  BY DEF ImuPropCallback, paramVars, mapVars
<1>2. CASE ~(imu_prop_enable /\ prop_imu_buffer # <<>>)
  <2>1. /\ prop_imu_buffer' = prop_imu_buffer /\ state_update_flg' = state_update_flg
        /\ imu_propagate' = imu_propagate /\ last_t' = last_t /\ prop_imu_buffer = <<>>
    BY <1>2 DEF ImuPropCallback, poseVars, PoseInv, SamplesKept
  <2> QED  BY <1>1, <2>1 DEF PoseInv, PoseTypes, SamplesKept, PoseSince
<1>3. CASE imu_prop_enable /\ prop_imu_buffer # <<>> /\ state_update_flg
  <2> DEFINE q == Kept
             e == latest_ekf_time
             t[i \in 0 .. Len(q)] == IF i = 0 THEN 0 ELSE q[i] - e
             pose[i \in 0 .. Len(q)] ==
               IF i = 0 THEN e ELSE pose[i - 1] + (t[i] - t[i - 1])
  <2>1. /\ q \in Seq(Int) /\ e \in Int /\ newest_imu \in Int
        /\ IF q = <<>> THEN newest_imu < e ELSE q[Len(q)] = newest_imu
    BY <1>3, KeptFacts DEF PoseInv, PoseTypes
  <2>2. /\ prop_imu_buffer' = q /\ imu_propagate' = pose[Len(q)]
        /\ last_t' = t[Len(q)] /\ state_update_flg' = FALSE
    BY <1>3 DEF ImuPropCallback, Restarted
  <2>3. t[Len(q)] = IF q = <<>> THEN 0 ELSE q[Len(q)] - e
    <3> HIDE DEF q, e
    <3>1. Len(q) \in 0 .. Len(q) /\ (Len(q) = 0 <=> q = <<>>)
      BY <2>1
    <3> QED  BY <3>1
  <2>4. pose[Len(q)] = e + t[Len(q)] /\ t[Len(q)] \in Int
    <3> HIDE DEF q, e
    <3>1. \A i \in 0 .. Len(q) : t[i] \in Int /\ pose[i] = e + t[i]
      BY <2>1, PoseLoop
    <3>2. Len(q) \in 0 .. Len(q)
      BY <2>1
    <3> QED  BY <3>1, <3>2
  <2> HIDE DEF t, pose, q
  <2>5. /\ imu_propagate' = e + last_t' /\ imu_propagate' \in Int /\ last_t' \in Int
        /\ prop_imu_buffer' \in Seq(Int)
        /\ prop_imu_buffer' # <<>> => prop_imu_buffer'[Len(prop_imu_buffer')] = newest_imu
    BY <2>1, <2>2, <2>4
  <2>6. CarriedOn
    <3>1. CASE q = <<>>
      <4>1. last_t' = 0 /\ newest_imu < e
        BY <2>1, <2>2, <2>3, <3>1
      <4> QED  BY <1>3, <2>1, <2>5, <4>1 DEF CarriedOn
    <3>2. CASE q # <<>>
      <4>1. last_t' = newest_imu - e
        BY <2>1, <2>2, <2>3, <3>2
      <4> QED  BY <2>1, <2>5, <4>1 DEF CarriedOn
    <3> QED  BY <3>1, <3>2
  <2>7. PoseTypes'
    <3>1. /\ p_imu_need_init' \in BOOLEAN /\ imu_prop_enable' \in BOOLEAN
          /\ ekf_finish_once' \in BOOLEAN /\ clock' \in Int /\ cut' \in Int
          /\ latest_ekf_time' \in Int /\ newest_imu' \in Int
      BY <1>1 DEF PoseInv, PoseTypes
    <3>2. new_imu' \in BOOLEAN /\ state_update_flg' \in BOOLEAN
      BY <1>1, <2>2, Zenon
    <3> QED  BY <2>5, <3>1, <3>2 DEF PoseTypes
  <2>8. SamplesKept'
    BY <1>1, <1>3, <2>5 DEF PoseInv, SamplesKept
  <2>9. PoseSince'
    BY <1>1, <2>5 DEF PoseSince
  <2> QED  BY <2>6, <2>7, <2>8, <2>9 DEF PoseInv
<1>4. CASE imu_prop_enable /\ prop_imu_buffer # <<>> /\ ~state_update_flg
  <2>1. /\ imu_propagate' = imu_propagate + ((newest_imu - latest_ekf_time) - last_t)
        /\ last_t' = newest_imu - latest_ekf_time
        /\ prop_imu_buffer' = prop_imu_buffer /\ state_update_flg' = state_update_flg
    BY <1>4 DEF ImuPropCallback
  <2>2. /\ imu_propagate \in Int /\ newest_imu \in Int /\ latest_ekf_time \in Int /\ last_t \in Int
        /\ imu_propagate = latest_ekf_time + last_t
    BY <1>1, <1>4 DEF PoseInv, PoseTypes, PoseSince
  <2>3. imu_propagate' = newest_imu /\ imu_propagate' = latest_ekf_time + last_t'
    BY <2>1, <2>2
  <2>4. PoseTypes'
    <3>1. /\ p_imu_need_init' \in BOOLEAN /\ imu_prop_enable' \in BOOLEAN
          /\ ekf_finish_once' \in BOOLEAN /\ state_update_flg' \in BOOLEAN
          /\ clock' \in Int /\ cut' \in Int
          /\ latest_ekf_time' \in Int /\ newest_imu' \in Int /\ prop_imu_buffer' \in Seq(Int)
      BY <1>1, <2>1 DEF PoseInv, PoseTypes
    <3>2. new_imu' \in BOOLEAN
      BY <1>1, Zenon
    <3>3. imu_propagate' \in Int /\ last_t' \in Int
      BY <2>1, <2>2
    <3> QED  BY <3>1, <3>2, <3>3 DEF PoseTypes
  <2>5. SamplesKept' /\ PoseSince'
    BY <1>1, <2>1, <2>3 DEF PoseInv, SamplesKept, PoseSince
  <2> QED  BY <2>3, <2>4, <2>5 DEF PoseInv, CarriedOn
<1> QED  BY <1>2, <1>3, <1>4

\* What either estimator leaves for the timer.
LEMMA PoseInvEstimate ==
  ASSUME PoseInv, NEW end \in Int,
         cut' \in {cut, end}, p_imu_need_init' \in {FALSE, p_imu_need_init},
         UNCHANGED <<imu_prop_enable, clock, imuVars, poseVars>>,
         EkfFinished \/ UNCHANGED ekfVars
  PROVE  PoseInv'
<1>1. /\ imu_prop_enable' = imu_prop_enable /\ clock' = clock
      /\ prop_imu_buffer' = prop_imu_buffer /\ newest_imu' = newest_imu /\ new_imu' = new_imu
      /\ imu_propagate' = imu_propagate /\ last_t' = last_t
  BY DEF imuVars, poseVars
<1>2. cut' \in Int
  BY DEF PoseInv, PoseTypes
<1>3. p_imu_need_init' \in BOOLEAN /\ (p_imu_need_init' => p_imu_need_init)
  <2>1. p_imu_need_init \in BOOLEAN
    BY DEF PoseInv, PoseTypes
  <2>2. CASE p_imu_need_init' = FALSE
    BY <2>2, Zenon
  <2>3. CASE p_imu_need_init' = p_imu_need_init
    BY <2>1, <2>3
  <2> QED  BY <2>2, <2>3
<1>4. CASE UNCHANGED ekfVars
  <2>1. ekf_finish_once' = ekf_finish_once /\ state_update_flg' = state_update_flg
        /\ latest_ekf_time' = latest_ekf_time
    BY <1>4 DEF ekfVars
  <2> QED  BY <1>1, <1>2, <1>3, <2>1 DEF PoseInv, PoseTypes, SamplesKept, PoseSince
<1>5. CASE EkfFinished /\ ~UNCHANGED ekfVars
  <2>1. ekf_finish_once' = TRUE /\ state_update_flg' = TRUE /\ latest_ekf_time' = cut'
    BY <1>5 DEF EkfFinished
  <2> QED  BY <1>1, <1>2, <1>3, <2>1 DEF PoseInv, PoseTypes, SamplesKept, PoseSince
<1> QED  BY <1>4, <1>5

LEMMA PoseStep ==
  PoseInv /\ [LoopNext]_loopVars
    => /\ PoseInv'
       /\ (new_imu /\ ~new_imu' /\ prop_imu_buffer # <<>>) => CarriedOn
<1> SUFFICES ASSUME PoseInv, [LoopNext]_loopVars
             PROVE  /\ PoseInv'
                    /\ (new_imu /\ ~new_imu' /\ prop_imu_buffer # <<>>) => CarriedOn
  OBVIOUS
<1>1. ASSUME NEW filled \in BOOLEAN, NEW ready \in BOOLEAN, NEW end \in 1 .. MaxTime,
             HandleLIO(filled, ready, end)
      PROVE  PoseInv' /\ new_imu' = new_imu
  <2>1. end \in Int
    OBVIOUS
  <2>2. /\ cut' \in {cut, end} /\ p_imu_need_init' \in {FALSE, p_imu_need_init}
        /\ UNCHANGED <<imu_prop_enable, clock, imuVars, poseVars>>
        /\ EkfFinished \/ UNCHANGED ekfVars
    <3>1. cut' \in {cut, end}
      BY <1>1 DEF HandleLIO
    <3>2. p_imu_need_init' = (p_imu_need_init /\ ~ready) /\ p_imu_need_init \in BOOLEAN
      BY <1>1 DEF HandleLIO, ProcessImu, PoseInv, PoseTypes
    <3>3. p_imu_need_init' \in {FALSE, p_imu_need_init}
      BY <1>1, <3>2
    <3>4. UNCHANGED <<imu_prop_enable, clock, imuVars, poseVars>>
      BY <1>1 DEF HandleLIO, paramVars
    <3>5. EkfFinished \/ UNCHANGED ekfVars
      BY <1>1 DEF HandleLIO
    <3> QED  BY <3>1, <3>3, <3>4, <3>5
  <2>3. new_imu' = new_imu
    BY <2>2 DEF imuVars
  <2>4. PoseInv'
    BY <2>1, <2>2, PoseInvEstimate
  <2> QED  BY <2>3, <2>4
<1>2. ASSUME NEW seen, HandleVIO(seen)  PROVE PoseInv' /\ new_imu' = new_imu
  <2>1. cut \in Int
    BY DEF PoseInv, PoseTypes
  <2>2. /\ cut' \in {cut} /\ p_imu_need_init' \in {FALSE, p_imu_need_init}
        /\ UNCHANGED <<imu_prop_enable, clock, imuVars, poseVars>>
        /\ EkfFinished \/ UNCHANGED ekfVars
    <3>1. cut' \in {cut}
      BY <1>2 DEF HandleVIO
    <3>2. p_imu_need_init' = (p_imu_need_init /\ ~FALSE) /\ p_imu_need_init \in BOOLEAN
      BY <1>2 DEF HandleVIO, ProcessImu, PoseInv, PoseTypes
    <3>3. p_imu_need_init' \in {FALSE, p_imu_need_init}
      BY <3>2
    <3>4. UNCHANGED <<imu_prop_enable, clock, imuVars, poseVars>>
      BY <1>2 DEF HandleVIO, paramVars
    <3>5. EkfFinished \/ UNCHANGED ekfVars
      BY <1>2 DEF HandleVIO
    <3> QED  BY <3>1, <3>3, <3>4, <3>5
  <2>3. new_imu' = new_imu
    BY <2>2 DEF imuVars
  <2>4. PoseInv'
    BY <2>1, <2>2, PoseInvEstimate
  <2> QED  BY <2>3, <2>4
<1>3. CASE SavePCD
  <2>1. UNCHANGED poseInvVars
    BY <1>3 DEF SavePCD, poseInvVars, paramVars, mapVars
  <2>2. new_imu' = new_imu
    BY <2>1 DEF poseInvVars, imuVars
  <2> QED  BY <2>1, <2>2, PoseInvStays
<1>4. ASSUME NEW stamp \in 1 .. MaxTime, ImuCbk(stamp)
      PROVE  /\ PoseInv'
             /\ (new_imu /\ ~new_imu' /\ prop_imu_buffer # <<>>) => CarriedOn
  <2>1. /\ clock' = stamp /\ cut' = cut /\ UNCHANGED <<ekfVars, poseVars>>
        /\ p_imu_need_init' = p_imu_need_init /\ imu_prop_enable' = imu_prop_enable
    BY <1>4 DEF ImuCbk, paramVars, mapVars
  <2>2. ekf_finish_once' = ekf_finish_once /\ state_update_flg' = state_update_flg
        /\ latest_ekf_time' = latest_ekf_time /\ imu_propagate' = imu_propagate /\ last_t' = last_t
    BY <2>1 DEF ekfVars, poseVars
  <2>3. cut \in Int /\ latest_ekf_time \in Int /\ clock' \in Int
        /\ prop_imu_buffer \in Seq(Int)
    BY <2>1 DEF PoseInv, PoseTypes, SamplesKept
  <2>4. CASE ~imu_prop_enable
    <3>1. newest_imu' = newest_imu /\ new_imu' = new_imu /\ prop_imu_buffer' = prop_imu_buffer
      BY <1>4, <2>4 DEF ImuCbk, imuVars
    <3> QED  BY <2>1, <2>2, <2>3, <2>4, <3>1 DEF PoseInv, PoseTypes, SamplesKept, PoseSince
  <2>5. CASE imu_prop_enable
    <3>1. /\ newest_imu' = clock' /\ new_imu' = TRUE
          /\ prop_imu_buffer' = IF p_imu_need_init THEN prop_imu_buffer
                                ELSE Append(prop_imu_buffer, clock')
      BY <1>4, <2>5 DEF ImuCbk
    <3>2. /\ prop_imu_buffer' \in Seq(Int)
          /\ p_imu_need_init => prop_imu_buffer' = <<>>
          /\ prop_imu_buffer' # <<>> => prop_imu_buffer'[Len(prop_imu_buffer')] = clock'
      <4>1. CASE p_imu_need_init
        BY <2>3, <3>1, <4>1 DEF PoseInv, SamplesKept
      <4>2. CASE ~p_imu_need_init
        BY <2>3, <3>1, <4>2, AppendProperties
      <4> QED  BY <4>1, <4>2
    <3>3. PoseTypes'
      BY <2>1, <2>2, <2>3, <3>1, <3>2 DEF PoseInv, PoseTypes
    <3>4. SamplesKept' /\ PoseSince'
      BY <2>1, <2>2, <2>3, <2>5, <3>1, <3>2 DEF PoseInv, SamplesKept, PoseSince
    <3> QED  BY <3>1, <3>3, <3>4 DEF PoseInv
  <2> QED  BY <2>4, <2>5
<1>5. CASE ImuPropCallback
  BY <1>5, PoseInvCallback
<1>6. CASE UNCHANGED loopVars
  <2>1. UNCHANGED poseInvVars
    BY <1>6 DEF loopVars, poseInvVars, paramVars, mapVars
  <2>2. new_imu' = new_imu
    BY <2>1 DEF poseInvVars, imuVars
  <2> QED  BY <2>1, <2>2, PoseInvStays
<1> QED  BY <1>1, <1>2, <1>3, <1>4, <1>5, <1>6 DEF LoopNext, Callbacks, StateEstimationAndMapping

\* PoseOnTime, for every order of samples, estimates and timer calls, and also when the
\* IMU's clock is set back: where the pose is carried on, it gets exactly to the newest
\* sample, or stays at a new estimate that is ahead of that.
THEOREM PoseOnTimeHolds == LoopSpec => PoseOnTime
<1> DEFINE Step == (new_imu /\ ~new_imu' /\ prop_imu_buffer # <<>>) => CarriedOn
<1>1. LoopInit => PoseInv
  <2> SUFFICES ASSUME LoopInit  PROVE PoseInv
    OBVIOUS
  <2>1. PoseTypes
    <3>1. prop_imu_buffer \in Seq(Int)
      BY DEF LoopInit, ReadParameters
    <3>2. {clock, cut, latest_ekf_time, newest_imu, imu_propagate, last_t} \subseteq Int
      BY DEF LoopInit, ReadParameters
    <3>3. /\ p_imu_need_init \in BOOLEAN /\ imu_prop_enable \in BOOLEAN
          /\ new_imu \in BOOLEAN /\ ekf_finish_once \in BOOLEAN /\ state_update_flg \in BOOLEAN
      BY Zenon DEF LoopInit, ReadParameters
    <3> QED  BY <3>1, <3>2, <3>3 DEF PoseTypes
  <2>2. SamplesKept /\ PoseSince
    BY DEF LoopInit, ReadParameters, SamplesKept, PoseSince
  <2> QED  BY <2>1, <2>2 DEF PoseInv
<1>2. PoseInv /\ [LoopNext]_loopVars => PoseInv' /\ [Step]_loopVars
  BY PoseStep
<1> HIDE DEF Step
<1>3. LoopSpec => [][Step]_loopVars
  BY <1>1, <1>2, PTL DEF LoopSpec
<1> QED  BY <1>3 DEF PoseOnTime, Step, CarriedOn

-----------------------------------------------------------------------------
(* The measurement updates. *)

\* There is a level of the pyramid; no measured error reaches FLT_MAX.
FilterAssumption ==
  /\ PYRAMID \in Nat \ {0}
  /\ LioIterations \in Nat
  /\ Errors \subseteq {e \in Int : e < NoError}

FilterTypes ==
  /\ update \in {"none", "lio", "vio", "level done"}
  /\ state \in Nat /\ old_state \in Nat
  /\ gain \in [id : Nat, level : Int]
  /\ last_error \in Int /\ measured \subseteq [err : Int, id : Nat]
  /\ iter \in Nat /\ rematch_num \in Nat /\ converged \in Nat /\ made \in Nat
  /\ level \in 0 .. PYRAMID - 1
  /\ inverse_composition_en \in BOOLEAN

\* Before the first solution of a level nothing is measured there; afterwards the gain is
\* of the state before the last solution.
Solved ==
  update = "vio" =>
    /\ iter = 0 => last_error = NoError /\ measured = {} /\ old_state = state
    /\ iter > 0 => /\ gain = [id |-> old_state, level |-> level]
                   /\ [err |-> last_error, id |-> old_state] \in measured
                   /\ state = made /\ old_state < made

\* Old_state has the least error of those measured, and the state has none yet.
LeastIsOld ==
  update = "vio" =>
    \A m \in measured : /\ m.id <= made /\ m.id # state /\ last_error <= m.err
                        /\ m.id = old_state => m.err = last_error

\* What a level leaves.
LevelLeft ==
  update = "level done" =>
    /\ gain = [id |-> old_state, level |-> level] /\ state \in {made, old_state}
    /\ [err |-> last_error, id |-> old_state] \in measured

\* Rematches of a scan that were not for a small step came with the last iteration.
Rematched ==
  update = "lio" =>
    state = made /\ rematch_num <= 1 /\ (converged >= rematch_num \/ iter >= LioIterations - 1)

FilterInv ==
  /\ FilterTypes /\ Solved /\ LeastIsOld /\ LevelLeft /\ Rematched
  /\ update \in {"vio", "level done"} => state <= made /\ old_state <= made
  /\ AppliedOnce /\ GainOfState /\ BestKept /\ CacheOfLevel /\ EndsSettled

-----------------------------------------------------------------------------

LEMMA NoErrorInt == NoError \in Int
BY SMT DEF NoError

LEMMA FilterInvInit ==
  ASSUME FilterAssumption, FilterInit  PROVE FilterInv
<1> USE DEF FilterInit
<1>1. PYRAMID \in Nat \ {0}
  BY DEF FilterAssumption
<1>2. FilterTypes
  <2>1. state \in Nat /\ old_state \in Nat
        /\ gain \in [id : Nat, level : Int]
    BY DEF NoLevel
  <2>2. last_error \in Int /\ measured \subseteq [err : Int, id : Nat]
    BY NoErrorInt
  <2>3. level \in 0 .. PYRAMID - 1
    BY <1>1
  <2>4. inverse_composition_en \in BOOLEAN /\ update = "none"
    OBVIOUS
  <2>5. iter \in Nat /\ rematch_num \in Nat /\ converged \in Nat /\ made \in Nat
    OBVIOUS
  <2> QED  BY <2>1, <2>2, <2>3, <2>4, <2>5 DEF FilterTypes
<1>3. Solved /\ LeastIsOld /\ LevelLeft /\ Rematched /\ BestKept /\ CacheOfLevel
  BY DEF Solved, LeastIsOld, LevelLeft, Rematched, BestKept, CacheOfLevel
<1>4. AppliedOnce /\ GainOfState /\ EndsSettled
  BY DEF AppliedOnce, GainOfState, EndsSettled
<1> QED  BY <1>2, <1>3, <1>4 DEF FilterInv

LEMMA FilterInvStutter ==
  ASSUME FilterInv, UNCHANGED filterVars  PROVE FilterInv'
<1>1. /\ update' = update /\ state' = state /\ old_state' = old_state
      /\ last_error' = last_error /\ gain' = gain /\ iter' = iter /\ level' = level
      /\ rematch_num' = rematch_num
      /\ inverse_composition_en' = inverse_composition_en
      /\ has_ref_patch_cache' = has_ref_patch_cache /\ applied' = applied /\ made' = made
      /\ converged' = converged /\ measured' = measured /\ updates' = updates
  BY DEF filterVars
<1>2. FilterTypes' /\ Solved' /\ LeastIsOld' /\ LevelLeft' /\ Rematched'
  BY <1>1 DEF FilterInv, FilterTypes, Solved, LeastIsOld, LevelLeft, Rematched
<1>3. AppliedOnce' /\ GainOfState' /\ BestKept' /\ CacheOfLevel' /\ EndsSettled'
  BY <1>1 DEF FilterInv, AppliedOnce, GainOfState, BestKept, CacheOfLevel, EndsSettled
<1> QED  BY <1>1, <1>2, <1>3 DEF FilterInv

\* What the invariant says of the types, for the steps.
LEMMA TypesOf ==
  ASSUME FilterInv
  PROVE  /\ state \in Nat /\ old_state \in Nat
         /\ gain \in [id : Nat, level : Int] /\ last_error \in Int
         /\ measured \subseteq [err : Int, id : Nat]
         /\ \A m \in measured : m.err \in Int /\ m.id \in Nat
         /\ iter \in Nat /\ rematch_num \in Nat /\ converged \in Nat /\ made \in Nat
         /\ level \in 0 .. PYRAMID - 1
         /\ inverse_composition_en \in BOOLEAN
<1>1. FilterTypes
  BY DEF FilterInv
<1>2. state \in Nat /\ old_state \in Nat
      /\ gain \in [id : Nat, level : Int] /\ last_error \in Int
      /\ measured \subseteq [err : Int, id : Nat]
  BY <1>1 DEF FilterTypes
<1>3. iter \in Nat /\ rematch_num \in Nat /\ converged \in Nat /\ made \in Nat
      /\ level \in 0 .. PYRAMID - 1
      /\ inverse_composition_en \in BOOLEAN
  BY <1>1, Zenon DEF FilterTypes
<1>4. \A m \in measured : m.err \in Int /\ m.id \in Nat
  BY <1>2
<1> QED  BY <1>2, <1>3, <1>4

LEMMA FilterInvStartLio ==
  ASSUME FilterAssumption, FilterInv, StartLio  PROVE FilterInv'
<1>1. /\ update' = "lio" /\ state' = 0 /\ made' = 0 /\ iter' = 0
      /\ rematch_num' = 0 /\ applied' = 0 /\ converged' = 0
      /\ old_state' = old_state /\ last_error' = last_error /\ gain' = gain
      /\ level' = level
      /\ inverse_composition_en' = inverse_composition_en /\ measured' = measured
  BY DEF StartLio
<1>2. state' \in Nat /\ state' = 0
  BY <1>1, TypesOf
<1>3. FilterTypes'
  BY <1>1, <1>2, TypesOf DEF FilterTypes
<1>4. Solved' /\ LeastIsOld' /\ LevelLeft' /\ BestKept' /\ CacheOfLevel' /\ EndsSettled'
  BY <1>1 DEF Solved, LeastIsOld, LevelLeft, BestKept, CacheOfLevel, EndsSettled
<1>5. Rematched' /\ AppliedOnce' /\ GainOfState'
  BY <1>1, <1>2 DEF Rematched, AppliedOnce, GainOfState
<1> QED  BY <1>1, <1>3, <1>4, <1>5 DEF FilterInv

LEMMA FilterInvLioIterate ==
  ASSUME FilterAssumption, FilterInv, NEW small \in BOOLEAN,
         LioIterate(small)
  PROVE  FilterInv'
<1> DEFINE ends == Rematches(small) >= 2 \/ iter = LioIterations - 1
<1>1. /\ update = "lio" /\ iter < LioIterations
      /\ gain' = [id |-> state, level |-> NoLevel] /\ old_state' = state
      /\ state' = made + 1 /\ made' = made + 1
      /\ rematch_num' = Rematches(small)
      /\ converged' = converged + (IF small THEN 1 ELSE 0)
      /\ iter' = iter + 1
      /\ update' = IF ends THEN "none" ELSE "lio"
      /\ applied' = applied + (IF ends THEN 1 ELSE 0)
      /\ last_error' = last_error /\ level' = level
      /\ inverse_composition_en' = inverse_composition_en /\ measured' = measured
  BY DEF LioIterate
<1>2. /\ state = made /\ rematch_num <= 1
      /\ converged >= rematch_num \/ iter >= LioIterations - 1
      /\ applied = 0
  BY <1>1 DEF FilterInv, Rematched, AppliedOnce
<1>3. /\ iter \in Nat /\ rematch_num \in Nat /\ converged \in Nat /\ made \in Nat
      /\ LioIterations \in Nat /\ state \in Nat
  BY TypesOf DEF FilterAssumption
<1>4. Rematches(small) = rematch_num + (IF small \/ (rematch_num = 0 /\ iter = LioIterations - 2)
                                        THEN 1 ELSE 0)
  BY DEF Rematches
<1>5. /\ ends => converged' >= 2 \/ iter' = LioIterations
      /\ ~ends => rematch_num' <= 1 /\ (converged' >= rematch_num' \/ iter' >= LioIterations - 1)
  <2>1. CASE small
    BY <1>1, <1>2, <1>3, <1>4, <2>1
  <2>2. CASE ~small
    BY <1>1, <1>2, <1>3, <1>4, <2>2
  <2> QED  BY <2>1, <2>2
<1>6. rematch_num' \in Nat /\ converged' \in Nat /\ iter' \in Nat /\ made' \in Nat
  BY <1>1, <1>3, <1>4
<1> HIDE DEF ends
<1>7. state' \in Nat /\ old_state' \in Nat
      /\ gain' \in [id : Nat, level : Int] /\ state' = made' /\ gain'.id = old_state'
      /\ gain'.level = NoLevel
  BY <1>1, <1>3, TypesOf DEF NoLevel
<1>8. FilterTypes'
  <2>1. update' \in {"none", "lio"}
    BY <1>1
  <2> QED  BY <1>1, <1>6, <1>7, <2>1, TypesOf DEF FilterTypes
<1>9. update' \in {"none", "lio"} /\ (update' = "none" <=> ends)
  BY <1>1
<1>10. Solved' /\ LeastIsOld' /\ LevelLeft' /\ BestKept' /\ CacheOfLevel'
  BY <1>9 DEF Solved, LeastIsOld, LevelLeft, BestKept, CacheOfLevel
<1>11. Rematched'
  BY <1>5, <1>7, <1>9 DEF Rematched
<1>12. AppliedOnce'
  BY <1>1, <1>2 DEF AppliedOnce
<1>13. GainOfState'
  BY <1>7, <1>9 DEF GainOfState
<1>14. EndsSettled'
  BY <1>5, <1>9 DEF EndsSettled
<1> QED  BY <1>8, <1>9, <1>10, <1>11, <1>12, <1>13, <1>14 DEF FilterInv

LEMMA FilterInvStartVio ==
  ASSUME FilterAssumption, FilterInv, StartVio
  PROVE  FilterInv'
<1>1. /\ update' = "vio" /\ state' = 0 /\ made' = 0
      /\ applied' = 0 /\ converged' = 0
      /\ level' = PYRAMID - 1 /\ iter' = 0 /\ old_state' = state' /\ last_error' = NoError
      /\ measured' = {} /\ has_ref_patch_cache' = NoLevel
      /\ gain' = gain /\ rematch_num' = rematch_num
      /\ inverse_composition_en' = inverse_composition_en
  BY DEF StartVio, StartLevel
<1>2. PYRAMID - 1 \in 0 .. PYRAMID - 1
  BY DEF FilterAssumption
<1>3. state' \in Nat /\ state' = 0 /\ NoError \in Int
  BY <1>1, <1>2, NoErrorInt
<1>4. FilterTypes'
  BY <1>1, <1>2, <1>3, TypesOf DEF FilterTypes
<1>5. Solved' /\ LeastIsOld' /\ LevelLeft' /\ Rematched' /\ BestKept'
  BY <1>1 DEF Solved, LeastIsOld, LevelLeft, Rematched, BestKept
<1>6. AppliedOnce' /\ GainOfState' /\ CacheOfLevel' /\ EndsSettled'
  BY <1>1 DEF AppliedOnce, GainOfState, CacheOfLevel, EndsSettled
<1>7. state' <= made' /\ old_state' <= made'
  <2>1. state' = 0 /\ old_state' = 0 /\ made' = 0
    BY <1>1, <1>3
  <2> QED  BY <2>1
<1> QED  BY <1>4, <1>5, <1>6, <1>7 DEF FilterInv

LEMMA FilterInvAccept ==
  ASSUME FilterAssumption, FilterInv, NEW err \in Errors, NEW small \in BOOLEAN,
         Accept(err, small)
  PROVE  FilterInv'
<1> DEFINE x == [err |-> err, id |-> state]
<1>1. /\ update = "vio" /\ err <= last_error
      /\ measured' = measured \cup {x} /\ old_state' = state /\ last_error' = err
      /\ gain' = [id |-> state, level |-> level]
      /\ state' = made + 1 /\ made' = made + 1
      /\ converged' = converged + (IF small THEN 1 ELSE 0) /\ iter' = iter + 1
      /\ update' \in {"vio", "level done"}
      /\ level' = level /\ rematch_num' = rematch_num
      /\ inverse_composition_en' = inverse_composition_en /\ applied' = applied
  BY DEF Accept, Measured
<1>2. has_ref_patch_cache' \in {NoLevel, level}
  BY <1>1 DEF Accept, Precompute, FilterInv, CacheOfLevel
<1>3. err \in Int
  BY DEF FilterAssumption
<1>4. /\ x \in [err : Int, id : Nat] /\ x.err = err /\ x.id = state
      /\ state' \in Nat /\ state' = made'
      /\ old_state' \in Nat /\ gain' \in [id : Nat, level : Int]
      /\ gain' = [id |-> old_state', level |-> level'] /\ gain'.id = old_state'
      /\ gain'.level = level'
      /\ x = [err |-> last_error', id |-> old_state']
  <2>1. /\ state \in Nat /\ made + 1 \in Nat
        /\ level \in Int
    <3>1. made \in Nat /\ level \in 0 .. PYRAMID - 1
      BY TypesOf
    <3> QED  BY <3>1, TypesOf
  <2>2. /\ old_state' = state /\ level' = level /\ last_error' = err /\ made' = made + 1
    BY <1>1
  <2>3. x \in [err : Int, id : Nat] /\ x.err = err /\ x.id = state
    BY <1>3, <2>1
  <2>4. state' \in Nat /\ state' = made'
    BY <1>1, <1>3, <2>1
  <2>5. gain' \in [id : Nat, level : Int] /\ gain'.id = state /\ gain'.level = level
    BY <1>1, <2>1
  <2>6. gain' = [id |-> state, level |-> level]
    BY <1>1
  <2> QED  BY <1>1, <2>1, <2>2, <2>3, <2>4, <2>5, <2>6
<1>5. iter' \in Nat /\ iter' # 0 /\ converged' \in Nat /\ made' \in Nat
  <2>1. iter \in Nat /\ converged \in Nat /\ made \in Nat
    BY TypesOf
  <2>2. iter' = iter + 1 /\ made' = made + 1 /\ converged' \in {converged + 1, converged + 0}
    BY <1>1
  <2> QED  BY <2>1, <2>2
<1>6. FilterTypes'
  <2>1. measured' \subseteq [err : Int, id : Nat]
    BY <1>1, <1>4, TypesOf
  <2> HIDE DEF x
  <2> QED  BY <1>1, <1>3, <1>4, <1>5, <2>1, TypesOf DEF FilterTypes
<1>7. \A m \in measured : m.id <= made /\ m.id # state /\ last_error <= m.err
                          /\ m.err \in Int /\ m.id \in Nat
  BY <1>1, TypesOf DEF FilterInv, LeastIsOld
<1>8. state <= made /\ state \in Nat /\ made \in Nat /\ last_error \in Int
  BY <1>1, TypesOf DEF FilterInv
<1>9. \A m \in measured' : /\ m.id <= made' /\ m.id # state' /\ last_error' <= m.err
                           /\ m.id = old_state' => m.err = last_error'
                           /\ m.err \in Int
  <2> SUFFICES ASSUME NEW m \in measured'
               PROVE  /\ m.id <= made' /\ m.id # state' /\ last_error' <= m.err
                      /\ m.id = old_state' => m.err = last_error'
                      /\ m.err \in Int
    OBVIOUS
  <2>1. CASE m \in measured
    <3>1. m.id <= made /\ m.id # state /\ last_error <= m.err /\ m.err \in Int /\ m.id \in Nat
      BY <1>7, <2>1
    <3>2. state' = made + 1 /\ made' = made + 1 /\ old_state' = state
      BY <1>1, <1>4
    <3>3. err <= last_error /\ last_error' = err
      BY <1>1
    <3>4. m.id <= made + 1 /\ m.id # made + 1 /\ err <= m.err
      BY <1>3, <1>8, <3>1, <3>3
    <3> QED  BY <3>1, <3>2, <3>3, <3>4
  <2>2. CASE m = x
    <3>1. m.err = err /\ m.id = state
      BY <1>4, <2>2
    <3>2. state' = made + 1 /\ made' = made + 1 /\ last_error' = err
      BY <1>1, <1>4
    <3> QED  BY <1>3, <1>8, <3>1, <3>2
  <2> QED  BY <1>1, <2>1, <2>2
<1>10. x \in measured'
  BY <1>1
<1>11. old_state' < made' /\ old_state' <= made' /\ state' <= made'
  <2>1. old_state' = state /\ made' = made + 1 /\ state' = made + 1
    BY <1>1, <1>4
  <2> QED  BY <1>8, <2>1
<1> HIDE DEF x
<1>12. Solved'
  BY <1>4, <1>5, <1>10, <1>11 DEF Solved
<1>13. LeastIsOld'
  BY <1>9 DEF LeastIsOld
<1>14. LevelLeft' /\ Rematched'
  BY <1>1, <1>4, <1>10 DEF LevelLeft, Rematched
<1>15. BestKept'
  BY <1>9 DEF BestKept
<1>16. AppliedOnce' /\ CacheOfLevel' /\ EndsSettled'
  BY <1>1, <1>2 DEF FilterInv, AppliedOnce, CacheOfLevel, EndsSettled
<1>17. GainOfState'
  BY <1>1, <1>4, <1>10 DEF GainOfState
<1> QED  BY <1>6, <1>11, <1>12, <1>13, <1>14, <1>15, <1>16, <1>17 DEF FilterInv

LEMMA FilterInvReject ==
  ASSUME FilterAssumption, FilterInv, NEW err \in Errors, Reject(err)  PROVE FilterInv'
<1> DEFINE x == [err |-> err, id |-> state]
           o == [err |-> last_error, id |-> old_state]
<1>1. /\ update = "vio" /\ err > last_error /\ update' = "level done"
      /\ measured' = measured \cup {x} /\ state' = old_state
      /\ old_state' = old_state /\ last_error' = last_error /\ gain' = gain /\ iter' = iter
      /\ level' = level /\ rematch_num' = rematch_num
      /\ inverse_composition_en' = inverse_composition_en /\ applied' = applied
      /\ made' = made /\ converged' = converged
  BY DEF Reject, Measured, RolledBack
<1>2. has_ref_patch_cache' \in {NoLevel, level}
  BY <1>1 DEF Reject, Precompute, FilterInv, CacheOfLevel
<1>3. err \in Int /\ err < NoError
  BY DEF FilterAssumption
\* An error has been accepted before on this level.
<1>4. iter # 0
  <2>1. iter = 0 => last_error = NoError
    BY <1>1 DEF FilterInv, Solved
  <2>2. NoError \in Int
    BY NoErrorInt
  <2>3. err > last_error
    BY <1>1
  <2> QED  BY <1>3, <2>1, <2>2, <2>3
<1>5. gain = [id |-> old_state, level |-> level] /\ o \in measured
      /\ state = made /\ old_state < made
  <2>1. iter > 0
    BY <1>4, TypesOf
  <2> QED  BY <1>1, <2>1 DEF FilterInv, Solved
<1>6. x \in [err : Int, id : Nat] /\ x.err = err /\ x.id = state
  BY <1>3, TypesOf
<1>7. FilterTypes'
  <2>1. measured' \subseteq [err : Int, id : Nat]
    BY <1>1, <1>6, TypesOf
  <2> HIDE DEF x
  <2> QED  BY <1>1, <2>1, TypesOf DEF FilterTypes
<1>8. \A m \in measured' : /\ m.id = old_state => m.err = last_error
                           /\ last_error <= m.err
  <2> SUFFICES ASSUME NEW m \in measured'
               PROVE  (m.id = old_state => m.err = last_error) /\ last_error <= m.err
    OBVIOUS
  <2>1. CASE m \in measured
    BY <1>1, <2>1 DEF FilterInv, LeastIsOld
  <2>2. CASE m = x
    <3>1. m.err = err /\ m.id = made /\ old_state \in Nat /\ made \in Nat /\ last_error \in Int
      BY <1>5, <1>6, <2>2, TypesOf
    <3>2. err > last_error /\ old_state < made
      BY <1>1, <1>5
    <3> QED  BY <1>3, <3>1, <3>2
  <2> QED  BY <1>1, <2>1, <2>2
<1>9. gain'.id = old_state' /\ gain'.level = level' /\ state' = old_state'
  BY <1>1, <1>5
<1>10. old_state' <= made' /\ state' <= made'
  <2>1. old_state \in Nat /\ made \in Nat
    BY TypesOf
  <2>2. old_state' = old_state /\ state' = old_state /\ made' = made
    BY <1>1
  <2>3. old_state <= made
    BY <1>5, <2>1
  <2> QED  BY <2>2, <2>3
<1>11. o \in measured' /\ o = [err |-> last_error', id |-> old_state']
       /\ gain' = [id |-> old_state', level |-> level']
  BY <1>1, <1>5
<1> HIDE DEF x, o
<1>12. Solved' /\ LeastIsOld' /\ Rematched' /\ EndsSettled'
  BY <1>1 DEF Solved, LeastIsOld, Rematched, EndsSettled
<1>13. LevelLeft'
  BY <1>9, <1>11 DEF LevelLeft
<1>14. BestKept'
  BY <1>1, <1>8 DEF BestKept
<1>15. AppliedOnce' /\ CacheOfLevel'
  BY <1>1, <1>2 DEF FilterInv, AppliedOnce, CacheOfLevel
<1>16. GainOfState'
  BY <1>1, <1>9, <1>11 DEF GainOfState
<1> QED  BY <1>7, <1>10, <1>12, <1>13, <1>14, <1>15, <1>16 DEF FilterInv

LEMMA FilterInvNextLevel ==
  ASSUME FilterAssumption, FilterInv, NextLevel  PROVE FilterInv'
<1>1. /\ update = "level done" /\ level > 0 /\ update' = "vio"
      /\ level' = level - 1 /\ iter' = 0 /\ old_state' = state /\ last_error' = NoError
      /\ measured' = {} /\ has_ref_patch_cache' = NoLevel
      /\ state' = state /\ gain' = gain /\ rematch_num' = rematch_num
      /\ inverse_composition_en' = inverse_composition_en
      /\ applied' = applied /\ made' = made /\ converged' = converged
  BY DEF NextLevel, StartLevel
<1>2. level - 1 \in 0 .. PYRAMID - 1 /\ NoError \in Int
  <2>1. level \in 0 .. PYRAMID - 1 /\ PYRAMID \in Nat
    BY TypesOf DEF FilterAssumption
  <2>2. level > 0
    BY <1>1
  <2> QED  BY <2>1, <2>2, NoErrorInt
<1>3. FilterTypes'
  BY <1>1, <1>2, TypesOf DEF FilterTypes
<1>4. Solved' /\ LeastIsOld' /\ LevelLeft' /\ Rematched' /\ BestKept' /\ CacheOfLevel'
  <2>1. ~(iter' > 0) /\ update' = "vio" /\ last_error' = NoError /\ measured' = {}
        /\ old_state' = state' /\ has_ref_patch_cache' = NoLevel
    <3>1. iter' = 0 /\ update' = "vio" /\ last_error' = NoError /\ measured' = {}
          /\ old_state' = state' /\ has_ref_patch_cache' = NoLevel
      BY <1>1
    <3> QED  BY <3>1
  <2> QED  BY <2>1 DEF Solved, LeastIsOld, LevelLeft, Rematched, BestKept, CacheOfLevel
<1>5. AppliedOnce' /\ GainOfState' /\ EndsSettled'
  BY <1>1 DEF FilterInv, AppliedOnce, GainOfState, EndsSettled
<1>6. state' <= made' /\ old_state' <= made'
  BY <1>1 DEF FilterInv
<1> QED  BY <1>3, <1>4, <1>5, <1>6 DEF FilterInv

LEMMA FilterInvFinishVio ==
  ASSUME FilterAssumption, FilterInv, FinishVio  PROVE FilterInv'
<1>1. /\ update = "level done" /\ level = 0 /\ applied' = applied + 1 /\ update' = "none"
      /\ state' = state /\ old_state' = old_state /\ last_error' = last_error /\ gain' = gain
      /\ iter' = iter /\ level' = level /\ rematch_num' = rematch_num
      /\ inverse_composition_en' = inverse_composition_en
      /\ made' = made /\ converged' = converged /\ measured' = measured
  BY DEF FinishVio
<1>2. gain.id = old_state /\ gain.level = 0 /\ state \in {made, old_state}
  <2>1. gain = [id |-> old_state, level |-> level] /\ state \in {made, old_state}
    BY <1>1 DEF FilterInv, LevelLeft
  <2>2. level = 0
    BY <1>1
  <2> QED  BY <2>1, <2>2
<1>3. FilterTypes'
  BY <1>1, TypesOf DEF FilterTypes
<1>4. Solved' /\ LeastIsOld' /\ LevelLeft' /\ Rematched' /\ BestKept' /\ CacheOfLevel'
  BY <1>1 DEF Solved, LeastIsOld, LevelLeft, Rematched, BestKept, CacheOfLevel
<1>5. AppliedOnce'
  <2>1. applied = 0
    BY <1>1 DEF FilterInv, AppliedOnce
  <2>2. applied' = 1 /\ update' = "none"
    <3>1. applied' = applied + 1 /\ update' = "none"
      BY <1>1
    <3>2. applied' = 1
      BY <2>1, <3>1
    <3> QED  BY <3>1, <3>2
  <2> QED  BY <2>2 DEF AppliedOnce
<1>6. GainOfState' /\ EndsSettled'
  <2>1. /\ update' = "none" /\ gain'.id = old_state' /\ gain'.level = 0
        /\ state' \in {made', old_state'}
    BY <1>1, <1>2
  <2> QED  BY <2>1 DEF GainOfState, EndsSettled, NoLevel
<1> QED  BY <1>1, <1>3, <1>4, <1>5, <1>6 DEF FilterInv

\* FilterConsistent, for all limits of iterations, pyramids and errors: the covariance is
\* reduced once, by the gain of the state the solution started from; the state a level
\* leaves is the best one measured.
THEOREM FilterConsistentHolds ==
  ASSUME FilterAssumption  PROVE FilterSpec => []FilterConsistent
<1>1. FilterInit => FilterInv
  BY FilterInvInit
<1>2. FilterInv /\ [FilterNext]_filterVars => FilterInv'
  <2> SUFFICES ASSUME FilterInv, [FilterNext]_filterVars  PROVE FilterInv'
    OBVIOUS
  <2>1. CASE StartLio
    BY <2>1, FilterInvStartLio
  <2>2. ASSUME NEW small \in BOOLEAN, LioIterate(small)  PROVE FilterInv'
    BY <2>2, FilterInvLioIterate
  <2>3. CASE StartVio
    BY <2>3, FilterInvStartVio
  <2>4. ASSUME NEW err \in Errors, NEW small \in BOOLEAN,
               Accept(err, small)
        PROVE  FilterInv'
    BY <2>4, FilterInvAccept
  <2>5. ASSUME NEW err \in Errors, Reject(err)  PROVE FilterInv'
    BY <2>5, FilterInvReject
  <2>6. CASE NextLevel
    BY <2>6, FilterInvNextLevel
  <2>7. CASE FinishVio
    BY <2>7, FilterInvFinishVio
  <2>8. CASE UNCHANGED filterVars
    BY <2>8, FilterInvStutter
  <2> QED  BY <2>1, <2>2, <2>3, <2>4, <2>5, <2>6, <2>7, <2>8 DEF FilterNext
<1>3. FilterInv => FilterConsistent
  BY DEF FilterInv, FilterConsistent
<1> QED  BY <1>1, <1>2, <1>3, PTL DEF FilterSpec

-----------------------------------------------------------------------------
(* The motion of a package: the intervals and the poses of its points. *)

\* The times are integers.
PropAssumption == MaxEnd \in Nat

LEMMA AscendingIs ==
  ASSUME NEW S, NEW n, NEW s \in Ascending(S, n)
  PROVE  s \in Seq(S) /\ \A i \in 1 .. Len(s) - 1 : s[i] < s[i + 1]
<1>1. PICK k \in 0 .. n : s \in [1 .. k -> S]
  BY DEF Ascending
<1>2. k \in Nat
  BY <1>1
<1>3. s \in Seq(S)
  BY <1>1, <1>2
<1> QED  BY <1>3 DEF Ascending

LEMMA RisingIs ==
  ASSUME NEW S, NEW n, NEW s \in Rising(S, n)
  PROVE  s \in Seq(S) /\ \A i \in 1 .. Len(s) - 1 : s[i] <= s[i + 1]
<1>1. PICK k \in 0 .. n : s \in [1 .. k -> S]
  BY DEF Rising
<1>2. k \in Nat
  BY <1>1
<1>3. s \in Seq(S)
  BY <1>1, <1>2
<1> QED  BY <1>3 DEF Rising

\* Neighbours in order: all in order.
LEMMA SortedIs ==
  ASSUME NEW s \in Seq(Int), \A i \in 1 .. Len(s) - 1 : s[i] < s[i + 1]
  PROVE  \A i, j \in 1 .. Len(s) : i < j => s[i] < s[j]
<1> DEFINE n == Len(s)
           Good == {d \in Nat : \A i \in 1 .. n : i + d + 1 <= n => s[i] < s[i + d + 1]}
<1>1. n \in Nat /\ \A i \in 1 .. n : s[i] \in Int
  OBVIOUS
<1>2. \A i \in 1 .. n - 1 : s[i] < s[i + 1]
  OBVIOUS
<1> HIDE DEF n
<1>3. 0 \in Good
  <2> SUFFICES ASSUME NEW i \in 1 .. n, i + 0 + 1 <= n  PROVE s[i] < s[i + 0 + 1]
    OBVIOUS
  <2>1. i \in 1 .. n - 1 /\ i + 0 + 1 = i + 1
    BY <1>1
  <2> QED  BY <1>2, <2>1
<1>4. ASSUME NEW d \in Nat, d \in Good  PROVE d + 1 \in Good
  <2> SUFFICES ASSUME NEW i \in 1 .. n, i + (d + 1) + 1 <= n  PROVE s[i] < s[i + (d + 1) + 1]
    OBVIOUS
  <2>1. /\ i + d + 1 <= n /\ i + d + 1 \in 1 .. n - 1 /\ i + (d + 1) + 1 = (i + d + 1) + 1
        /\ i + d + 1 \in 1 .. n /\ (i + d + 1) + 1 \in 1 .. n
    BY <1>1
  <2>2. s[i] < s[i + d + 1]
    BY <1>4, <2>1
  <2>3. s[i + d + 1] < s[(i + d + 1) + 1]
    BY <1>2, <2>1
  <2>4. s[i] \in Int /\ s[i + d + 1] \in Int /\ s[(i + d + 1) + 1] \in Int
    BY <1>1, <2>1
  <2> QED  BY <2>1, <2>2, <2>3, <2>4
<1> HIDE DEF Good
<1>5. Nat \subseteq Good
  BY <1>3, <1>4, SetInduction
<1>6. ASSUME NEW i \in 1 .. n, NEW j \in 1 .. n, i < j  PROVE s[i] < s[j]
  <2>1. j - i - 1 \in Nat /\ i + (j - i - 1) + 1 = j
    BY <1>1, <1>6
  <2>2. j - i - 1 \in Good
    BY <1>5, <2>1
  <2>3. i + (j - i - 1) + 1 <= n
    BY <1>1, <2>1
  <2> QED  BY <2>1, <2>2, <2>3 DEF Good
<1> QED  BY <1>6 DEF n

\* The same of points, of which several may have one time.
LEMMA RisenIs ==
  ASSUME NEW s \in Seq(Int), \A i \in 1 .. Len(s) - 1 : s[i] <= s[i + 1]
  PROVE  \A i, j \in 1 .. Len(s) : i < j => s[i] <= s[j]
<1> DEFINE n == Len(s)
           Good == {d \in Nat : \A i \in 1 .. n : i + d + 1 <= n => s[i] <= s[i + d + 1]}
<1>1. n \in Nat /\ \A i \in 1 .. n : s[i] \in Int
  OBVIOUS
<1>2. \A i \in 1 .. n - 1 : s[i] <= s[i + 1]
  OBVIOUS
<1> HIDE DEF n
<1>3. 0 \in Good
  <2> SUFFICES ASSUME NEW i \in 1 .. n, i + 0 + 1 <= n  PROVE s[i] <= s[i + 0 + 1]
    OBVIOUS
  <2>1. i \in 1 .. n - 1 /\ i + 0 + 1 = i + 1
    BY <1>1
  <2> QED  BY <1>2, <2>1
<1>4. ASSUME NEW d \in Nat, d \in Good  PROVE d + 1 \in Good
  <2> SUFFICES ASSUME NEW i \in 1 .. n, i + (d + 1) + 1 <= n  PROVE s[i] <= s[i + (d + 1) + 1]
    OBVIOUS
  <2>1. /\ i + d + 1 <= n /\ i + d + 1 \in 1 .. n - 1 /\ i + (d + 1) + 1 = (i + d + 1) + 1
        /\ i + d + 1 \in 1 .. n /\ (i + d + 1) + 1 \in 1 .. n
    BY <1>1
  <2>2. s[i] <= s[i + d + 1]
    BY <1>4, <2>1
  <2>3. s[i + d + 1] <= s[(i + d + 1) + 1]
    BY <1>2, <2>1
  <2>4. s[i] \in Int /\ s[i + d + 1] \in Int /\ s[(i + d + 1) + 1] \in Int
    BY <1>1, <2>1
  <2> QED  BY <2>1, <2>2, <2>3, <2>4
<1> HIDE DEF Good
<1>5. Nat \subseteq Good
  BY <1>3, <1>4, SetInduction
<1>6. ASSUME NEW i \in 1 .. n, NEW j \in 1 .. n, i < j  PROVE s[i] <= s[j]
  <2>1. j - i - 1 \in Nat /\ i + (j - i - 1) + 1 = j
    BY <1>1, <1>6
  <2>2. j - i - 1 \in Good
    BY <1>5, <2>1
  <2>3. i + (j - i - 1) + 1 <= n
    BY <1>1, <2>1
  <2> QED  BY <2>1, <2>2, <2>3 DEF Good
<1> QED  BY <1>6 DEF n

\* With all samples behind the start no interval is skipped.
LEMMA ForwardIs ==
  ASSUME NEW a \in Int, NEW beg \in Int, NEW end \in Int, NEW imu \in Seq(Int),
         \A i \in 1 .. Len(imu) : imu[i] >= beg
  PROVE  LET v == <<a>> \o imu
         IN  Forward(v, beg, end) = [i \in 1 .. Len(imu) |-> Interval(v, i, beg, end)]
<1> DEFINE v == <<a>> \o imu
           n == Len(imu)
           Rec == [tail : Int, step : [from : Int, to : Int]]
           pairs == [i \in 1 .. Len(v) - 1 |->
                       [tail |-> v[i + 1], step |-> Interval(v, i, beg, end)]]
           W == {p \in Range(pairs) : p.tail >= beg}
           kept == Select(pairs, W)
<1>1. n \in Nat /\ Len(v) = n + 1 /\ \A i \in 1 .. n : v[i] \in Int /\ v[i + 1] = imu[i] /\ imu[i] \in Int
  OBVIOUS
<1>2. Len(v) - 1 = n
  BY <1>1
<1>3. Forward(v, beg, end) = [i \in 1 .. Len(kept) |-> kept[i].step]
  BY DEF Forward
<1> HIDE DEF v, n
<1>4. ASSUME NEW i \in 1 .. n  PROVE Interval(v, i, beg, end) \in [from : Int, to : Int]
  BY <1>1 DEF Interval
<1>5. pairs \in Seq(Rec) /\ Len(pairs) = n
  <2>1. pairs = [i \in 1 .. n |-> [tail |-> v[i + 1], step |-> Interval(v, i, beg, end)]]
    BY <1>2
  <2>2. \A i \in 1 .. n : [tail |-> v[i + 1], step |-> Interval(v, i, beg, end)] \in Rec
    BY <1>1, <1>4
  <2> HIDE DEF Rec
  <2>3. pairs \in [1 .. n -> Rec]
    BY <2>1, <2>2
  <2> HIDE DEF pairs
  <2> QED  BY <1>1, <2>3
<1>6. \A i \in 1 .. n : /\ pairs[i].tail = imu[i]
                        /\ pairs[i].step = Interval(v, i, beg, end)
  BY <1>1, <1>2
<1>7. \A i \in 1 .. Len(pairs) : pairs[i] \in W
  <2> SUFFICES ASSUME NEW i \in 1 .. n  PROVE pairs[i] \in W
    BY <1>5
  <2>1. pairs[i] \in Range(pairs)
    BY <1>2 DEF Range
  <2>2. pairs[i].tail >= beg
    BY <1>1, <1>6 DEF n
  <2> QED  BY <2>1, <2>2
<1> HIDE DEF pairs, W, Rec
<1>8. kept = pairs
  BY <1>5, <1>7, SelectAll
<1>9. Forward(v, beg, end) = [i \in 1 .. n |-> Interval(v, i, beg, end)]
  <2> HIDE DEF kept
  <2> QED  BY <1>3, <1>5, <1>6, <1>8
<1> QED  BY <1>9 DEF v, n

\* What is kept ends behind the start, wherever that is.
LEMMA ForwardAhead ==
  ASSUME NEW a \in Int, NEW beg \in Int, NEW end \in Int, NEW imu \in Seq(Int),
         \A i \in 1 .. Len(imu) : imu[i] <= end
  PROVE  LET m == Forward(<<a>> \o imu, beg, end)
         IN  /\ m \in Seq([from : Int, to : Int])
             /\ \A i \in 1 .. Len(m) : m[i].to >= beg
             /\ imu = <<>> => m = <<>>
<1> DEFINE v == <<a>> \o imu
           n == Len(imu)
           Rec == [tail : Int, step : [from : Int, to : Int]]
           pairs == [i \in 1 .. Len(v) - 1 |->
                       [tail |-> v[i + 1], step |-> Interval(v, i, beg, end)]]
           W == {p \in Range(pairs) : p.tail >= beg}
           kept == Select(pairs, W)
           m == Forward(v, beg, end)
<1>1. n \in Nat /\ Len(v) = n + 1 /\ \A i \in 1 .. n : v[i] \in Int /\ v[i + 1] = imu[i] /\ imu[i] \in Int
  OBVIOUS
<1>2. Len(v) - 1 = n
  BY <1>1
<1>3. m = [i \in 1 .. Len(kept) |-> kept[i].step]
  BY DEF Forward
<1>10. \A i \in 1 .. n : imu[i] <= end
  OBVIOUS
<1>11. imu = <<>> => n = 0
  OBVIOUS
<1> HIDE DEF v, n, m
<1>4. ASSUME NEW i \in 1 .. n  PROVE /\ Interval(v, i, beg, end) \in [from : Int, to : Int]
                                     /\ Interval(v, i, beg, end).to >= v[i + 1]
  BY <1>1, <1>10, SMTT(30) DEF Interval
<1>5. pairs \in Seq(Rec) /\ Len(pairs) = n
  <2>1. pairs = [i \in 1 .. n |-> [tail |-> v[i + 1], step |-> Interval(v, i, beg, end)]]
    BY <1>2
  <2>2. \A i \in 1 .. n : [tail |-> v[i + 1], step |-> Interval(v, i, beg, end)] \in Rec
    BY <1>1, <1>4
  <2> HIDE DEF Rec
  <2>3. pairs \in [1 .. n -> Rec]
    BY <2>1, <2>2
  <2> HIDE DEF pairs
  <2> QED  BY <1>1, <2>3
<1>6. \A i \in 1 .. n : pairs[i].tail = v[i + 1] /\ pairs[i].step = Interval(v, i, beg, end)
  BY <1>1, <1>2
<1>7. \A p \in W : p.tail >= beg
  OBVIOUS
<1> HIDE DEF pairs, W, Rec
<1>8. kept \in Seq(Rec) /\ Selected(kept, pairs, n, W)
  BY <1>5, SelectFacts
<1> HIDE DEF kept
<1>9. PICK at \in [1 .. Len(kept) -> 1 .. n] : \A i \in 1 .. Len(kept) : kept[i] = pairs[at[i]] /\ kept[i] \in W
  BY <1>8 DEF Selected
<1>12. \A i \in 1 .. Len(kept) : kept[i].step \in [from : Int, to : Int]
  <2>1. \A i \in 1 .. Len(kept) : kept[i] \in Rec
    BY <1>8
  <2> QED  BY <2>1 DEF Rec
<1>13. m \in Seq([from : Int, to : Int]) /\ Len(m) = Len(kept)
  <2> DEFINE R == [from : Int, to : Int]
  <2>1. Len(kept) \in Nat
    BY <1>8
  <2>2. \A i \in 1 .. Len(kept) : kept[i].step \in R
    BY <1>12
  <2> HIDE DEF R
  <2>3. m \in [1 .. Len(kept) -> R]
    BY <1>3, <2>2
  <2>4. m \in Seq(R) /\ Len(m) = Len(kept)
    BY <2>1, <2>3
  <2> QED  BY <2>4 DEF R
<1>14. ASSUME NEW i \in 1 .. Len(m)  PROVE m[i].to >= beg
  <2>1. i \in 1 .. Len(kept) /\ m[i] = kept[i].step
    BY <1>3, <1>13
  <2>2. at[i] \in 1 .. n /\ kept[i] = pairs[at[i]] /\ kept[i].tail >= beg
    BY <1>7, <1>9, <2>1
  <2>3. m[i] = Interval(v, at[i], beg, end) /\ v[at[i] + 1] >= beg
    BY <1>6, <2>1, <2>2
  <2>4. Interval(v, at[i], beg, end).to >= v[at[i] + 1] /\ Interval(v, at[i], beg, end) \in [from : Int, to : Int] /\ v[at[i] + 1] \in Int
    BY <1>1, <1>4, <2>2
  <2> QED  BY <2>3, <2>4
<1>15. ASSUME imu = <<>>  PROVE m = <<>>
  <2>1. n = 0
    BY <1>11, <1>15
  <2>2. Len(kept) = 0
    <3> SUFFICES ASSUME Len(kept) # 0  PROVE FALSE
      OBVIOUS
    <3>1. 1 \in 1 .. Len(kept)
      BY <1>8
    <3>2. at[1] \in 1 .. n
      BY <1>9, <3>1
    <3> QED  BY <2>1, <3>2
  <2> QED  BY <1>13, <2>2
<1> QED  BY <1>13, <1>14, <1>15 DEF m, v

\* The points b + 1 to at are later than off, those up to b are not.
Splits(c, at, off, b) ==
  /\ Taken(at, c, off) = b + 1 .. at
  /\ \A j \in 1 .. b : c[j] <= off
  /\ \A j \in b + 1 .. at : c[j] > off
  /\ After(at, Taken(at, c, off)) = IF b = 0 THEN 1 ELSE b

LEMMA TakenIs ==
  ASSUME NEW c \in Seq(Nat), \A i, j \in 1 .. Len(c) : i < j => c[i] <= c[j],
         NEW at \in 1 .. Len(c), NEW off \in Int
  PROVE  \E b \in 0 .. at : Splits(c, at, off, b)
<1>1. Len(c) \in Nat /\ \A i \in 1 .. Len(c) : c[i] \in Nat
  OBVIOUS
<1>2. \A i, j \in 1 .. Len(c) : i < j => c[i] <= c[j]
  OBVIOUS
<1> DEFINE B == {b \in 0 .. at : \A j \in b + 1 .. at : c[j] > off}
           T == Taken(at, c, off)
<1>3. B \in SUBSET Nat /\ at \in B
  <2>1. at + 1 .. at = {}
    BY <1>1
  <2> QED  BY <1>1, <2>1
<1>4. PICK b \in B : \A k \in B : b <= k
  <2> HIDE DEF B
  <2> QED  BY <1>3, Least
<1>5. b \in 0 .. at /\ \A j \in b + 1 .. at : c[j] > off
  OBVIOUS
<1>6. ASSUME b # 0  PROVE c[b] <= off
  <2>1. b - 1 \in 0 .. at /\ ~(b <= b - 1) /\ (b - 1) + 1 = b
    BY <1>1, <1>5, <1>6
  <2>2. b - 1 \notin B
    <3> HIDE DEF B
    <3> QED  BY <1>4, <2>1
  <2>3. PICK j \in b .. at : ~(c[j] > off)
    BY <2>1, <2>2
  <2>4. j \notin b + 1 .. at
    BY <1>5, <2>3
  <2>5. j = b
    BY <1>1, <1>5, <2>4
  <2>6. b \in 1 .. Len(c)
    BY <1>1, <1>5, <1>6
  <2> QED  BY <1>1, <2>3, <2>5, <2>6
<1> HIDE DEF B
<1>7. ASSUME NEW j \in 1 .. b  PROVE c[j] <= off
  <2>1. b # 0 /\ j \in 1 .. Len(c) /\ b \in 1 .. Len(c) /\ (j = b \/ j < b)
    BY <1>1, <1>5
  <2>2. c[j] <= c[b]
    BY <1>1, <1>2, <2>1
  <2>3. c[b] <= off
    BY <1>6, <2>1
  <2> QED  BY <1>1, <2>1, <2>2, <2>3
<1>8. T = b + 1 .. at
  <2>1. ASSUME NEW j \in 1 .. at  PROVE (\A k \in j .. at : c[k] > off) <=> j \in b + 1 .. at
    <3>1. ASSUME \A k \in j .. at : c[k] > off  PROVE j > b
      <4> SUFFICES ASSUME j <= b  PROVE FALSE
        BY <1>1, <1>5
      <4>1. b # 0 /\ b \in j .. at /\ b \in 1 .. Len(c)
        BY <1>1, <1>5
      <4>2. c[b] > off /\ c[b] <= off
        BY <1>6, <3>1, <4>1
      <4> QED  BY <1>1, <4>1, <4>2
    <3>2. ASSUME j \in b + 1 .. at, NEW k \in j .. at  PROVE c[k] > off
      <4>1. k \in b + 1 .. at
        BY <1>1, <1>5, <3>2
      <4> QED  BY <1>5, <4>1
    <3>3. j > b => j \in b + 1 .. at
      BY <1>1, <1>5
    <3> QED  BY <3>1, <3>2, <3>3
  <2>2. T = {j \in 1 .. at : \A k \in j .. at : c[k] > off}
    BY DEF Taken
  <2>3. \A j \in b + 1 .. at : j \in 1 .. at
    BY <1>1, <1>5
  <2> HIDE DEF T
  <2> QED  BY <2>1, <2>2, <2>3
<1>9. After(at, T) = IF b = 0 THEN 1 ELSE b
  <2>1. 1 \in T <=> b = 0
    BY <1>1, <1>5, <1>8
  <2>2. \A m, n \in Int : Cardinality(m .. n) = IF m > n THEN 0 ELSE n - m + 1
    BY FS_Interval
  <2>3. b + 1 \in Int /\ at \in Int
    BY <1>1, <1>5
  <2>4. Cardinality(b + 1 .. at) = IF b + 1 > at THEN 0 ELSE at - (b + 1) + 1
    BY <2>2, <2>3
  <2>5. Cardinality(T) = at - b
    BY <1>1, <1>5, <1>8, <2>4
  <2> HIDE DEF T
  <2>6. After(at, T) = IF 1 \in T THEN 1 ELSE at - Cardinality(T)
    BY DEF After
  <2>7. at - (at - b) = b
    BY <1>1, <1>5
  <2> QED  BY <2>1, <2>5, <2>6, <2>7
<1> QED  BY <1>5, <1>7, <1>8, <1>9 DEF Splits

\* The backward loop, round by round; round i is at pose Len(poses) - i.
LEMMA BackwardSteps ==
  ASSUME NEW poses \in Seq(Int), Len(poses) >= 1, NEW c \in Seq(Nat), Len(c) >= 1
  PROVE  LET n == Len(poses)
             m == Len(c)
         IN  \E at, hd :
               /\ at \in [1 .. n -> Int] /\ hd \in [1 .. n -> [1 .. m -> SUBSET (1 .. n)]]
               /\ at[n] = m /\ hd[n] = [j \in 1 .. m |-> {}]
               /\ \A k \in 1 .. n - 1 :
                    /\ at[k] = After(at[k + 1], Taken(at[k + 1], c, poses[k]))
                    /\ hd[k] = [j \in 1 .. m |->
                          hd[k + 1][j] \cup (IF j \in Taken(at[k + 1], c, poses[k]) THEN {k} ELSE {})]
               /\ Backward(poses, c) = hd[1]
<1> DEFINE n == Len(poses)
           m == Len(c)
           N == 1 .. n
           H == [1 .. m -> SUBSET N]
           S == [at : Int, heads : H]
           a == [at |-> m, heads |-> [j \in 1 .. m |-> {}]]
           New(k, s) == [at |-> After(s.at, Taken(s.at, c, poses[k])),
                         heads |-> [j \in 1 .. m |->
                            s.heads[j] \cup (IF j \in Taken(s.at, c, poses[k]) THEN {k} ELSE {})]]
           G == [p \in (1 .. n - 1) \X S |-> New(n - p[1], p[2])]
           back[k \in 1 .. n] ==
             IF k = n THEN [at |-> Len(c), heads |-> [j \in 1 .. Len(c) |-> {}]]
             ELSE LET later == back[k + 1]
                      taken == Taken(later.at, c, poses[k])
                  IN  [at |-> After(later.at, taken),
                       heads |-> [j \in 1 .. Len(c) |->
                                    later.heads[j] \cup (IF j \in taken THEN {k} ELSE {})]]
<1>1. Backward(poses, c) = back[1].heads
  BY DEF Backward
<1>2. n \in Nat /\ n >= 1 /\ m \in Nat /\ n - 1 \in Nat
  OBVIOUS
<1>4. a \in S
  <2>1. [j \in 1 .. m |-> {}] \in H /\ m \in Int
    BY <1>2
  <2> HIDE DEF H, m
  <2> QED  BY <2>1
<1>5. ASSUME NEW at \in Int, NEW off  PROVE After(at, Taken(at, c, off)) \in Int
  <2>1. \A x, y \in Int : IsFiniteSet(x .. y)
    BY FS_Interval
  <2>2. IsFiniteSet(1 .. at)
    BY <2>1
  <2>3. Taken(at, c, off) \subseteq 1 .. at
    BY DEF Taken
  <2>4. Cardinality(Taken(at, c, off)) \in Nat
    BY <2>2, <2>3, FS_Subset, FS_CardinalityType
  <2> QED  BY <2>4 DEF After
<1>6. ASSUME NEW k \in N, NEW s \in S  PROVE New(k, s) \in S
  <2> DEFINE T == Taken(s.at, c, poses[k])
  <2>1. s.at \in Int /\ s.heads \in H
    OBVIOUS
  <2>2. After(s.at, T) \in Int
    BY <1>5, <2>1
  <2>3. [j \in 1 .. m |-> s.heads[j] \cup (IF j \in T THEN {k} ELSE {})] \in H
    <3> HIDE DEF T, m, N
    <3> QED  BY <2>1
  <2> HIDE DEF T, H, m
  <2> QED  BY <2>2, <2>3 DEF T
<1> HIDE DEF H
<1>7. \A p \in (1 .. n - 1) \X S : p[1] \in 1 .. n - 1 /\ p[2] \in S
  <2> HIDE DEF S, n
  <2> QED  OBVIOUS
<1>8. G \in [(1 .. n - 1) \X S -> S]
  <2>1. ASSUME NEW p \in (1 .. n - 1) \X S  PROVE New(n - p[1], p[2]) \in S
    <3>1. p[1] \in 1 .. n - 1 /\ p[2] \in S
      BY <1>7
    <3>2. n - p[1] \in N
      BY <1>2, <3>1
    <3> HIDE DEF New, N, S
    <3> QED  BY <1>6, <3>1, <3>2
  <2> HIDE DEF New, S
  <2> QED  BY <2>1
<1>9. ASSUME NEW i \in 1 .. n - 1, NEW s \in S  PROVE G[<<i, s>>] = New(n - i, s)
  <2> HIDE DEF New, S, n
  <2> QED  OBVIOUS
<1> HIDE DEF G
<1>10. PICK f : Loop(f, S, a, n - 1, G)
  <2> HIDE DEF S, a, n
  <2> QED  BY <1>2, <1>4, <1>8, RecursionOn
<1> DEFINE g == [k \in 1 .. n |-> f[n - k]]
<1>11. f \in [0 .. n - 1 -> S] /\ f[0] = a /\ \A i \in 1 .. n - 1 : f[i] = G[<<i, f[i - 1]>>]
  BY <1>10 DEF Loop
<1>12. g \in [1 .. n -> S] /\ g[n] = a
  <2>1. \A k \in 1 .. n : n - k \in 0 .. n - 1
    BY <1>2
  <2>2. n \in 1 .. n /\ n - n = 0
    BY <1>2
  <2> HIDE DEF S, a, n
  <2> QED  BY <1>11, <2>1, <2>2
<1>13. ASSUME NEW k \in 1 .. n - 1  PROVE g[k] = New(k, g[k + 1])
  <2>1. /\ n - k \in 1 .. n - 1 /\ n - (n - k) = k /\ (n - k) - 1 = n - (k + 1)
        /\ k \in 1 .. n /\ k + 1 \in 1 .. n /\ (n - k) - 1 \in 0 .. n - 1
    BY <1>2
  <2>2. g[k] = f[n - k] /\ g[k + 1] = f[n - (k + 1)]
    BY <2>1
  <2>3. f[n - k] = G[<<n - k, f[(n - k) - 1]>>] /\ f[(n - k) - 1] \in S
    <3> HIDE DEF S, a, n
    <3> QED  BY <1>11, <2>1
  <2>4. G[<<n - k, f[(n - k) - 1]>>] = New(n - (n - k), f[(n - k) - 1])
    <3> HIDE DEF S, New, n
    <3> QED  BY <1>9, <2>1, <2>3
  <2> HIDE DEF g, New, S, n
  <2> QED  BY <2>1, <2>2, <2>3, <2>4
<1>14. g = [k \in 1 .. n |-> IF k = n THEN [at |-> Len(c), heads |-> [j \in 1 .. Len(c) |-> {}]]
             ELSE LET later == g[k + 1]
                      taken == Taken(later.at, c, poses[k])
                  IN  [at |-> After(later.at, taken),
                       heads |-> [j \in 1 .. Len(c) |->
                                    later.heads[j] \cup (IF j \in taken THEN {k} ELSE {})]]]
  <2>1. \A k \in 1 .. n : k # n => k \in 1 .. n - 1
    BY <1>2
  <2>2. g = [k \in 1 .. n |-> IF k = n THEN a ELSE New(k, g[k + 1])]
    <3>1. \A k \in 1 .. n : g[k] = IF k = n THEN a ELSE New(k, g[k + 1])
      <4> HIDE DEF g, New, S, n, a
      <4> QED  BY <1>12, <1>13, <2>1
    <3>2. g = [k \in 1 .. n |-> g[k]]
      BY SMTT(30)
    <3> HIDE DEF g, New, a, n
    <3> QED  BY <3>1, <3>2
  <2> HIDE DEF g
  <2> QED  BY <2>2
<1>15. back = [k \in 1 .. n |-> IF k = n THEN [at |-> Len(c), heads |-> [j \in 1 .. Len(c) |-> {}]]
             ELSE LET later == back[k + 1]
                      taken == Taken(later.at, c, poses[k])
                  IN  [at |-> After(later.at, taken),
                       heads |-> [j \in 1 .. Len(c) |->
                                    later.heads[j] \cup (IF j \in taken THEN {k} ELSE {})]]]
  <2> HIDE DEF g
  <2> QED  BY <1>14
<1> HIDE DEF back
<1>16. back[n] = a /\ \A k \in 1 .. n - 1 : back[k] = New(k, back[k + 1])
  <2>1. n \in 1 .. n /\ \A k \in 1 .. n - 1 : k \in 1 .. n /\ k # n
    BY <1>2
  <2> HIDE DEF n
  <2> QED  BY <1>15, <2>1
<1> DEFINE at == [k \in 1 .. n |-> back[k].at]
           hd == [k \in 1 .. n |-> back[k].heads]
<1>17. ASSUME NEW k \in 1 .. n  PROVE back[k] \in S
  <2> DEFINE Good == {i \in Nat : i <= n - 1 => back[n - i] \in S}
  <2>1. 0 \in Good
    <3>1. n - 0 = n
      BY <1>2
    <3> HIDE DEF n, S, a
    <3> QED  BY <1>4, <1>16, <3>1
  <2>2. ASSUME NEW i \in Nat, i \in Good  PROVE i + 1 \in Good
    <3> SUFFICES ASSUME i + 1 <= n - 1  PROVE back[n - (i + 1)] \in S
      OBVIOUS
    <3>1. n - (i + 1) \in 1 .. n - 1 /\ (n - (i + 1)) + 1 = n - i /\ i <= n - 1 /\ n - (i + 1) \in N
      BY <1>2
    <3>2. back[n - i] \in S
      BY <2>2, <3>1
    <3>3. New(n - (i + 1), back[n - i]) \in S
      <4> HIDE DEF New, S, N, n
      <4> QED  BY <1>6, <3>1, <3>2
    <3> HIDE DEF New, S, n
    <3> QED  BY <1>16, <3>1, <3>3
  <2> HIDE DEF Good
  <2>3. Nat \subseteq Good
    BY <2>1, <2>2, SetInduction
  <2>4. n - k \in Nat /\ n - k <= n - 1 /\ n - (n - k) = k
    BY <1>2
  <2>5. n - k \in Good
    BY <2>3, <2>4
  <2> HIDE DEF S, n
  <2> QED  BY <2>4, <2>5 DEF Good
<1>18. at \in [1 .. n -> Int] /\ hd \in [1 .. n -> H]
  <2> HIDE DEF n
  <2> QED  BY <1>17
<1>19. at[n] = m /\ hd[n] = [j \in 1 .. m |-> {}]
  <2>1. n \in 1 .. n
    BY <1>2
  <2>2. back[n].at = m /\ back[n].heads = [j \in 1 .. m |-> {}]
    BY <1>16
  <2> HIDE DEF m, n
  <2> QED  BY <2>1, <2>2
<1>20. ASSUME NEW k \in 1 .. n - 1
       PROVE  /\ at[k] = After(at[k + 1], Taken(at[k + 1], c, poses[k]))
              /\ hd[k] = [j \in 1 .. m |->
                   hd[k + 1][j] \cup (IF j \in Taken(at[k + 1], c, poses[k]) THEN {k} ELSE {})]
  <2>1. k \in 1 .. n /\ k + 1 \in 1 .. n
    BY <1>2
  <2>2. at[k] = back[k].at /\ at[k + 1] = back[k + 1].at /\ hd[k] = back[k].heads /\ hd[k + 1] = back[k + 1].heads
    BY <2>1
  <2>3. back[k] = New(k, back[k + 1])
    <3> HIDE DEF New
    <3> QED  BY <1>16
  <2> HIDE DEF at, hd, n, m
  <2> QED  BY <2>2, <2>3
<1>21. Backward(poses, c) = hd[1]
  <2>1. 1 \in 1 .. n
    BY <1>2
  <2> QED  BY <1>1, <2>1
<1> HIDE DEF at, hd
<1> QED  BY <1>18, <1>19, <1>20, <1>21 DEF H

\* The first point is moved from every pose before it; each of the others from the
\* last pose of those before it, or not at all when there is none.
MovedFrom(h, j, c, poses, k) ==
  \/ h[j] = {} /\ \A i \in k .. Len(poses) - 1 : c[j] <= poses[i]
  \/ \E x \in k .. Len(poses) - 1 :
       h[j] = {x} /\ c[j] > poses[x] /\ \A i \in x + 1 .. Len(poses) - 1 : c[j] <= poses[i]

LEMMA BackwardIs ==
  ASSUME NEW poses \in Seq(Int), Len(poses) >= 1,
         NEW c \in Seq(Nat), Len(c) >= 1, \A i, j \in 1 .. Len(c) : i < j => c[i] <= c[j]
  PROVE  LET h == Backward(poses, c)
         IN  /\ h[1] = {i \in 1 .. Len(poses) - 1 : c[1] > poses[i]}
             /\ \A j \in 2 .. Len(c) : MovedFrom(h, j, c, poses, 1)
<1> DEFINE n == Len(poses)
           m == Len(c)
<1>1. n \in Nat /\ n >= 1 /\ m \in Nat /\ m >= 1
  OBVIOUS
<1>2. /\ \A i \in 1 .. n : poses[i] \in Int
      /\ \A j \in 1 .. m : c[j] \in Nat
      /\ \A i, j \in 1 .. m : i < j => c[i] <= c[j]
  OBVIOUS
<1>3. PICK at, hd :
        /\ at \in [1 .. n -> Int] /\ hd \in [1 .. n -> [1 .. m -> SUBSET (1 .. n)]]
        /\ at[n] = m /\ hd[n] = [j \in 1 .. m |-> {}]
        /\ \A k \in 1 .. n - 1 :
             /\ at[k] = After(at[k + 1], Taken(at[k + 1], c, poses[k]))
             /\ hd[k] = [j \in 1 .. m |->
                   hd[k + 1][j] \cup (IF j \in Taken(at[k + 1], c, poses[k]) THEN {k} ELSE {})]
        /\ Backward(poses, c) = hd[1]
  BY <1>1, BackwardSteps
<1> HIDE DEF n, m
<1> DEFINE Ahead(k) == {i \in k .. n - 1 : c[1] > poses[i]}
           Later(j, k) == hd[k][j] = {} /\ \A i \in k .. n - 1 : c[j] <= poses[i]
           Met(j, k) == \E x \in k .. n - 1 :
                          /\ hd[k][j] = {x} /\ c[j] > poses[x]
                          /\ \A i \in x + 1 .. n - 1 : c[j] <= poses[i]
           P(k) == /\ at[k] \in 1 .. m
                   /\ \A j \in 2 .. m : j <= at[k] => Later(j, k)
                   /\ \A j \in 2 .. m : j > at[k] => Met(j, k)
                   /\ hd[k][1] = Ahead(k)
           Good == {i \in Nat : i <= n - 1 => P(n - i)}
<1>4. 0 \in Good
  <2>1. n - 0 = n /\ at[n] = m /\ m \in 1 .. m /\ 1 \in 1 .. m /\ n .. n - 1 = {}
    BY <1>1, <1>3
  <2>2. \A j \in 1 .. m : hd[n][j] = {}
    BY <1>3
  <2>3. \A j \in 2 .. m : j \in 1 .. m /\ ~(j > m)
    BY <1>1
  <2>4. Ahead(n) = {}
    BY <2>1
  <2>6. \A j \in 2 .. m : Later(j, n)
    BY <2>1, <2>2, <2>3
  <2> HIDE DEF Ahead, Later, Met
  <2>5. P(n)
    BY <2>1, <2>2, <2>3, <2>4, <2>6
  <2> HIDE DEF P
  <2> QED  BY <2>1, <2>5
<1>5. ASSUME NEW k \in 1 .. n - 1, P(k + 1)  PROVE P(k)
  <2> DEFINE a == at[k + 1]
             T == Taken(a, c, poses[k])
  <2>1. a \in 1 .. m /\ k \in 1 .. n /\ poses[k] \in Int /\ k \in Nat
    BY <1>1, <1>2, <1>5
  <2>2. /\ \A j \in 2 .. m : j <= a => Later(j, k + 1)
        /\ \A j \in 2 .. m : j > a => Met(j, k + 1)
        /\ hd[k + 1][1] = Ahead(k + 1)
    BY <1>5
  <2>3. /\ at[k] = After(a, T)
        /\ \A j \in 1 .. m : hd[k][j] = hd[k + 1][j] \cup (IF j \in T THEN {k} ELSE {})
    <3>1. at[k] = After(a, T)
      BY <1>3
    <3>2. hd[k] = [j \in 1 .. m |-> hd[k + 1][j] \cup (IF j \in T THEN {k} ELSE {})]
      BY <1>3
    <3> HIDE DEF T
    <3> QED  BY <3>1, <3>2
  <2> HIDE DEF a
  <2>4. PICK b \in 0 .. a :
           /\ T = b + 1 .. a
           /\ \A j \in 1 .. b : c[j] <= poses[k]
           /\ \A j \in b + 1 .. a : c[j] > poses[k]
           /\ After(a, T) = IF b = 0 THEN 1 ELSE b
    <3>1. a \in 1 .. Len(c)
      BY <2>1 DEF m
    <3>2. PICK b \in 0 .. a : Splits(c, a, poses[k], b)
      BY <2>1, <3>1, TakenIs
    <3> QED  BY <3>2 DEF Splits
  <2> HIDE DEF T, Ahead, Later, Met
  <2>5. at[k] = IF b = 0 THEN 1 ELSE b
    BY <2>3, <2>4
  <2>6. at[k] \in 1 .. m /\ b \in Nat /\ b <= a
    BY <1>1, <2>1, <2>5
  <2>11. k .. n - 1 = (k + 1 .. n - 1) \cup {k}
    BY <1>1
  <2>7. ASSUME NEW j \in 2 .. m, j <= at[k]  PROVE Later(j, k)
    <3>1. j <= b /\ j <= a /\ j \in 1 .. m /\ j \in 1 .. b
      BY <1>1, <2>1, <2>5, <2>6, <2>7
    <3>2. j \notin T /\ c[j] <= poses[k]
      BY <2>1, <2>4, <2>6, <3>1
    <3>3. hd[k + 1][j] = {} /\ \A i \in k + 1 .. n - 1 : c[j] <= poses[i]
      BY <2>2, <3>1 DEF Later
    <3>4. hd[k][j] = {}
      BY <2>3, <3>1, <3>2, <3>3
    <3> QED  BY <2>11, <3>2, <3>3, <3>4 DEF Later
  <2>8. ASSUME NEW j \in 2 .. m, j > at[k]  PROVE Met(j, k)
    <3>1. j > b /\ j \in 1 .. m
      BY <1>1, <2>5, <2>6, <2>8
    <3>2. CASE j <= a
      <4>1. j \in T /\ c[j] > poses[k]
        BY <2>1, <2>4, <2>6, <3>1, <3>2
      <4>2. hd[k + 1][j] = {} /\ \A i \in k + 1 .. n - 1 : c[j] <= poses[i]
        BY <2>2, <3>2 DEF Later
      <4>3. hd[k][j] = {k}
        BY <2>3, <3>1, <4>1, <4>2
      <4> QED  BY <2>11, <4>1, <4>2, <4>3 DEF Met
    <3>3. CASE j > a
      <4>1. j \notin T
        BY <2>1, <2>4, <2>6, <3>1, <3>3
      <4>2. PICK x \in k + 1 .. n - 1 :
              /\ hd[k + 1][j] = {x} /\ c[j] > poses[x]
              /\ \A i \in x + 1 .. n - 1 : c[j] <= poses[i]
        BY <2>2, <3>3 DEF Met
      <4>3. hd[k][j] = {x} /\ x \in k .. n - 1
        BY <2>3, <2>11, <3>1, <4>1, <4>2
      <4> QED  BY <4>2, <4>3 DEF Met
    <3>4. j <= a \/ j > a
      BY <1>1, <2>1, <3>1
    <3> QED  BY <3>2, <3>3, <3>4
  <2>9. hd[k][1] = Ahead(k)
    <3>1. 1 \in T <=> b = 0
      BY <2>1, <2>4, <2>6
    <3>2. b = 0 <=> c[1] > poses[k]
      <4>1. c[1] \in Nat /\ 1 \in 1 .. m
        BY <1>1, <1>2
      <4>2. ASSUME b = 0  PROVE c[1] > poses[k]
        <5>1. 1 \in b + 1 .. a
          BY <2>1, <4>2
        <5> QED  BY <2>4, <5>1
      <4>3. ASSUME b # 0  PROVE c[1] <= poses[k]
        <5>1. 1 \in 1 .. b
          BY <2>6, <4>3
        <5> QED  BY <2>4, <5>1
      <4> QED  BY <2>1, <4>1, <4>2, <4>3
    <3>3. Ahead(k) = Ahead(k + 1) \cup (IF c[1] > poses[k] THEN {k} ELSE {})
      <4>1. k .. n - 1 = (k + 1 .. n - 1) \cup {k}
        BY <1>1
      <4> QED  BY <4>1 DEF Ahead
    <3>4. 1 \in 1 .. m
      BY <1>1
    <3> QED  BY <2>2, <2>3, <3>1, <3>2, <3>3, <3>4
  <2> QED  BY <2>6, <2>7, <2>8, <2>9
<1>6. ASSUME NEW i \in Nat, i \in Good  PROVE i + 1 \in Good
  <2> HIDE DEF P
  <2> SUFFICES ASSUME i + 1 <= n - 1  PROVE P(n - (i + 1))
    BY DEF Good
  <2>1. n - (i + 1) \in 1 .. n - 1 /\ (n - (i + 1)) + 1 = n - i /\ i <= n - 1
    BY <1>1
  <2>2. P(n - i)
    BY <1>6, <2>1
  <2>3. P((n - (i + 1)) + 1)
    BY <2>1, <2>2
  <2> QED  BY <1>5, <2>1, <2>3
<1> HIDE DEF Good
<1>7. Nat \subseteq Good
  BY <1>4, <1>6, SetInduction
<1>8. P(1)
  <2>1. n - 1 \in Nat /\ n - (n - 1) = 1
    BY <1>1
  <2>2. n - 1 \in Good
    BY <1>7, <2>1
  <2> HIDE DEF P
  <2> QED  BY <2>1, <2>2 DEF Good
<1>9. hd[1][1] = Ahead(1)
  BY <1>8
<1>11. \A j \in 2 .. m : Later(j, 1) \/ Met(j, 1)
  <2>1. \A j \in 2 .. m : j <= at[1] \/ j > at[1]
    BY <1>1, <1>8
  <2> HIDE DEF Later, Met
  <2> QED  BY <1>8, <2>1
<1>10. Backward(poses, c) = hd[1]
  BY <1>3
<1>12. \A j \in 2 .. m : MovedFrom(hd[1], j, c, poses, 1)
  BY <1>11 DEF n, MovedFrom
<1> HIDE DEF P, Later, Met
<1> QED  BY <1>9, <1>10, <1>12 DEF n, m

\* The intervals that a package's samples give.
Tiled(s, imu, a, beg, end) ==
  /\ s \in Seq([from : Int, to : Int]) /\ Len(s) = Len(imu)
  /\ \A i \in 1 .. Len(s) - 1 : s[i].to = imu[i]
  /\ imu # <<>> => \/ Tiles(s, beg, end)
                   \/ Len(imu) = 1 /\ a < beg /\ Tiles(s, beg, imu[1])

\* From a state no later than the start, over samples behind it.
LEMMA ForwardTiles ==
  ASSUME NEW a \in Int, NEW beg \in Int, NEW end \in Int, a <= beg, NEW imu \in Seq(Int),
         \A i \in 1 .. Len(imu) : beg < imu[i] /\ imu[i] <= end,
         \A i \in 1 .. Len(imu) - 1 : imu[i] < imu[i + 1]
  PROVE  Tiled(Forward(<<a>> \o imu, beg, end), imu, a, beg, end)
<1> DEFINE v == <<a>> \o imu
           n == Len(imu)
           s == Forward(v, beg, end)
           R == [from : Int, to : Int]
<1>1. /\ n \in Nat /\ Len(v) = n + 1 /\ v[1] = a /\ (imu # <<>> => n >= 1)
      /\ \A i \in 1 .. n : v[i] \in Int /\ v[i + 1] = imu[i] /\ imu[i] \in Int
      /\ \A i \in 2 .. n : v[i] = imu[i - 1]
  OBVIOUS
<1>2. /\ \A i \in 1 .. n : beg < imu[i] /\ imu[i] <= end
      /\ \A i \in 1 .. n - 1 : imu[i] < imu[i + 1]
  OBVIOUS
<1>3. s = [i \in 1 .. n |-> Interval(v, i, beg, end)]
  <2>1. \A i \in 1 .. Len(imu) : imu[i] >= beg
    BY <1>1, <1>2
  <2> QED  BY <2>1, ForwardIs
<1> HIDE DEF v, n, s
<1>4. ASSUME NEW i \in 1 .. n  PROVE Interval(v, i, beg, end) \in R
  BY <1>1 DEF Interval
<1>5. s \in Seq(R) /\ Len(s) = n
  <2> HIDE DEF R
  <2>1. s \in [1 .. n -> R]
    BY <1>3, <1>4
  <2> QED  BY <1>1, <2>1
<1>6. ASSUME NEW i \in 2 .. n
      PROVE  s[i].from = imu[i - 1] /\ s[i].to = IF i = n THEN end ELSE imu[i]
  <2>1. i \in 1 .. n /\ i - 1 \in 1 .. n /\ v[i] = imu[i - 1] /\ v[i + 1] = imu[i] /\ Len(v) - 1 = n
    BY <1>1
  <2>2. ~(v[i] < beg)
    BY <1>1, <1>2, <2>1, SMTT(30)
  <2>3. s[i] = Interval(v, i, beg, end)
    BY <1>3, <2>1
  <2> QED  BY <2>1, <2>2, <2>3 DEF Interval
<1>7. ASSUME n >= 1
      PROVE  s[1].from = beg /\ s[1].to = IF n = 1 /\ a = beg THEN end ELSE imu[1]
  <2>1. 1 \in 1 .. n /\ v[2] = imu[1] /\ Len(v) - 1 = n /\ v[1] = a /\ 1 + 1 = 2
    BY <1>1, <1>7
  <2>2. s[1] = Interval(v, 1, beg, end)
    BY <1>3, <2>1
  <2>3. CASE a = beg
    <3>1. ~(v[1] < beg)
      BY <2>1, <2>3
    <3>2. s[1] = IF 1 # n THEN [from |-> v[1], to |-> v[2]] ELSE [from |-> v[1], to |-> end]
      BY <2>1, <2>2, <3>1 DEF Interval
    <3> QED  BY <2>1, <2>3, <3>2
  <2>4. CASE a < beg
    <3>1. v[1] < beg /\ a # beg
      BY <2>1, <2>4
    <3>2. s[1] = [from |-> beg, to |-> v[2]]
      BY <2>1, <2>2, <3>1 DEF Interval
    <3> QED  BY <2>1, <3>1, <3>2
  <2> QED  BY <2>3, <2>4
<1>8. ASSUME NEW i \in 1 .. n - 1  PROVE s[i].to = imu[i]
  <2>1. n # 1 /\ n >= 1 /\ i # n /\ (i = 1 \/ i \in 2 .. n)
    BY <1>1
  <2>2. CASE i = 1
    BY <1>7, <2>1, <2>2
  <2>3. CASE i \in 2 .. n
    BY <1>6, <2>1, <2>3
  <2> QED  BY <2>1, <2>2, <2>3
<1>9. ASSUME n >= 1  PROVE Tiles(s, beg, end) \/ (n = 1 /\ a < beg /\ Tiles(s, beg, imu[1]))
  <2> DEFINE to == IF n = 1 /\ a < beg THEN imu[1] ELSE end
  <2>1. s # <<>> /\ s[1].from = beg /\ Last(s) = s[n]
    BY <1>1, <1>5, <1>7, <1>9 DEF Last
  <2>2. s[n].to = to
    <3>1. CASE n = 1
      BY <1>7, <1>9, <3>1
    <3>2. CASE n # 1
      <4>1. n \in 2 .. n
        BY <1>1, <1>9, <3>2
      <4> QED  BY <1>6, <3>2, <4>1
    <3> QED  BY <3>1, <3>2
  <2>3. ASSUME NEW i \in 1 .. n - 1  PROVE s[i].to = s[i + 1].from
    <3>1. i + 1 \in 2 .. n /\ (i + 1) - 1 = i
      BY <1>1
    <3> QED  BY <1>6, <1>8, <3>1
  <2>4. ASSUME NEW i \in 1 .. n  PROVE s[i].from <= s[i].to
    <3>1. CASE i = 1
      <4>1. beg < imu[1] /\ imu[1] <= end /\ imu[1] \in Int
        BY <1>1, <1>2, <1>9
      <4>2. s[1].from = beg /\ s[1].to = IF n = 1 /\ a = beg THEN end ELSE imu[1]
        BY <1>7, <1>9
      <4> QED  BY <3>1, <4>1, <4>2
    <3>2. CASE i # 1
      <4>1. i \in 2 .. n /\ i - 1 \in 1 .. n - 1 /\ i - 1 \in 1 .. n /\ (i - 1) + 1 = i
        BY <1>1, <3>2
      <4>2. imu[i - 1] < imu[i] /\ imu[i] <= end /\ imu[i] \in Int /\ imu[i - 1] \in Int
        BY <1>1, <1>2, <4>1
      <4>3. s[i].from = imu[i - 1] /\ s[i].to = IF i = n THEN end ELSE imu[i]
        BY <1>6, <4>1
      <4> QED  BY <4>2, <4>3
    <3> QED  BY <3>1, <3>2
  <2> HIDE DEF to
  <2>5. Tiles(s, beg, to)
    BY <1>5, <2>1, <2>2, <2>3, <2>4 DEF Tiles
  <2> QED  BY <2>5 DEF to
<1>10. imu # <<>> => Tiles(s, beg, end) \/ (n = 1 /\ a < beg /\ Tiles(s, beg, imu[1]))
  BY <1>1, <1>9
<1>11. \A i \in 1 .. Len(s) - 1 : s[i].to = imu[i]
  BY <1>5, <1>8
<1>12. s \in Seq([from : Int, to : Int]) /\ Len(s) = Len(imu)
  BY <1>5 DEF n
<1>13. imu # <<>> => Tiles(s, beg, end) \/ (Len(imu) = 1 /\ a < beg /\ Tiles(s, beg, imu[1]))
  BY <1>10 DEF n
<1>14. Tiled(s, imu, a, beg, end)
  BY <1>11, <1>12, <1>13 DEF Tiled
<1> QED  BY <1>14 DEF s, v

\* The points of a package that was propagated, ip the poses left from before.
LEMMA MovedFacts ==
  ASSUME NEW ip \in Seq(Nat), NEW beg \in Int,
         NEW imu \in Seq(Int), \A i \in 1 .. Len(imu) : beg < imu[i],
         \A i \in 1 .. Len(imu) - 1 : imu[i] < imu[i + 1],
         NEW s \in Seq([from : Int, to : Int]), Len(s) = Len(imu), s # <<>>,
         \A i \in 1 .. Len(s) - 1 : s[i].to = imu[i],
         NEW c \in Seq(Nat), c # <<>>, \A i \in 1 .. Len(c) - 1 : c[i] <= c[i + 1]
  PROVE  MovedBy(Backward(Append(ip, 0) \o [i \in 1 .. Len(s) |-> s[i].to - beg], c), c,
               s, beg, Len(ip) + 1)
<1> DEFINE k == Len(s)
           tail == [i \in 1 .. k |-> s[i].to - beg]
           l == Len(ip) + 1
           poses == Append(ip, 0) \o tail
           h == Backward(poses, c)
           n == Len(poses)
           m == Len(c)
<1>1. /\ k \in Nat /\ k >= 1 /\ l \in Nat /\ l >= 1 /\ m \in Nat /\ m >= 1
      /\ \A j \in 1 .. m : c[j] \in Nat
  BY SMTT(30)
<1>2. \A i \in 1 .. k : s[i].to \in Int
  <2> DEFINE R == [from : Int, to : Int]
  <2>1. \A i \in 1 .. k : s[i] \in R
    <3>1. s \in Seq(R)
      OBVIOUS
    <3> HIDE DEF R
    <3> QED  BY <3>1
  <2> QED  BY <2>1
<1>3. /\ \A i \in 1 .. k - 1 : s[i].to = imu[i] /\ beg < imu[i] /\ imu[i] \in Int
      /\ \A i, j \in 1 .. k - 1 : i < j => imu[i] < imu[j]
  <2>1. imu \in Seq(Int) /\ \A i, j \in 1 .. Len(imu) : i < j => imu[i] < imu[j]
    BY SortedIs
  <2>2. \A i \in 1 .. k - 1 : i \in 1 .. Len(imu)
    BY <1>1
  <2>3. \A i \in 1 .. k - 1 : s[i].to = imu[i]
    OBVIOUS
  <2>4. \A i \in 1 .. Len(imu) : beg < imu[i] /\ imu[i] \in Int
    OBVIOUS
  <2> HIDE DEF k
  <2> QED  BY <2>1, <2>2, <2>3, <2>4
<1>4. \A i, j \in 1 .. m : i < j => c[i] <= c[j]
  <2>1. c \in Seq(Int)
    OBVIOUS
  <2> QED  BY <2>1, RisenIs
<1> HIDE DEF k, m
<1>5. tail \in Seq(Int) /\ Len(tail) = k /\ \A i \in 1 .. k : tail[i] = s[i].to - beg
  <2>1. tail \in [1 .. k -> Int]
    BY <1>2, SMTT(30)
  <2>2. tail \in Seq(Int) /\ Len(tail) = k
    BY <1>1, <2>1
  <2> QED  BY <2>2
<1> HIDE DEF tail
<1>6. /\ Append(ip, 0) \in Seq(Int) /\ Len(Append(ip, 0)) = l /\ Append(ip, 0)[l] = 0
      /\ \A i \in 1 .. l - 1 : Append(ip, 0)[i] \in Nat
  BY SMTT(30)
<1>7. /\ poses \in Seq(Int) /\ n = l + k
      /\ \A i \in 1 .. l : poses[i] = Append(ip, 0)[i]
      /\ \A i \in 1 .. k : poses[l + i] = tail[i]
  <2> DEFINE p == Append(ip, 0)
  <2>1. p \in Seq(Int) /\ Len(p) = l
    BY <1>6
  <2> HIDE DEF p, l
  <2>2. /\ p \o tail \in Seq(Int) /\ Len(p \o tail) = l + k
        /\ \A i \in 1 .. l + k : (p \o tail)[i] = IF i <= l THEN p[i] ELSE tail[i - l]
    <3>1. /\ p \o tail \in Seq(Int) /\ Len(p \o tail) = Len(p) + Len(tail)
          /\ \A i \in 1 .. Len(p) + Len(tail) :
               (p \o tail)[i] = IF i <= Len(p) THEN p[i] ELSE tail[i - Len(p)]
      <4>1. p \in Seq(Int) /\ tail \in Seq(Int)
        BY <1>5, <2>1
      <4> HIDE DEF p, poses
      <4> QED  BY <4>1, ConcatProperties
    <3> QED  BY <1>5, <2>1, <3>1
  <2>3. \A i \in 1 .. l : i \in 1 .. l + k /\ i <= l
    BY <1>1
  <2>4. \A i \in 1 .. k : l + i \in 1 .. l + k /\ ~(l + i <= l) /\ (l + i) - l = i
    BY <1>1
  <2> QED  BY <2>2, <2>3, <2>4 DEF p
<1>8. poses[l] = 0 /\ l \in 1 .. n - 1
  BY <1>1, <1>6, <1>7
<1>9. \A i \in 1 .. n - 1 : poses[i] \in Nat
  <2> SUFFICES ASSUME NEW i \in 1 .. n - 1  PROVE poses[i] \in Nat
    OBVIOUS
  <2> HIDE DEF poses, n, l
  <2>0. i \in 1 .. n - 1
    OBVIOUS
  <2>1. CASE i <= l
    <3>1. i \in 1 .. l /\ (i = l \/ i \in 1 .. l - 1)
      BY <1>1, <1>7, <2>1
    <3>2. CASE i = l
      BY <1>8, <3>2
    <3>3. CASE i \in 1 .. l - 1
      <4>1. Append(ip, 0)[i] \in Nat /\ poses[i] = Append(ip, 0)[i]
        BY <1>6, <1>7, <3>1, <3>3
      <4> QED  BY <4>1
    <3> QED  BY <3>1, <3>2, <3>3
  <2>2. CASE i > l
    <3>1. i - l \in 1 .. k - 1 /\ i - l \in 1 .. k /\ l + (i - l) = i
      <4>1. n = l + k
        BY <1>7
      <4> QED  BY <1>1, <2>0, <2>2, <4>1
    <3>2. poses[i] = s[i - l].to - beg /\ s[i - l].to = imu[i - l]
      BY <1>3, <1>5, <1>7, <3>1
    <3>3. beg < imu[i - l] /\ imu[i - l] \in Int
      BY <1>3, <3>1
    <3> QED  BY <3>2, <3>3, SMTT(30)
  <2> QED  BY <1>1, <2>1, <2>2
<1> HIDE DEF poses, n, l
<1>10. /\ h[1] = {i \in 1 .. n - 1 : c[1] > poses[i]}
       /\ \A j \in 2 .. m : MovedFrom(h, j, c, poses, 1)
  <2>1. /\ Len(poses) >= 1 /\ Len(c) >= 1
        /\ \A i, j \in 1 .. Len(c) : i < j => c[i] <= c[j]
    BY <1>1, <1>4, <1>7 DEF n, m
  <2>2. /\ h[1] = {i \in 1 .. Len(poses) - 1 : c[1] > poses[i]}
        /\ \A j \in 2 .. Len(c) : MovedFrom(h, j, c, poses, 1)
    BY <1>7, <2>1, BackwardIs
  <2> HIDE DEF h
  <2> QED  BY <2>2 DEF n, m
<1> HIDE DEF h
<1> DEFINE own == l .. l + k - 1
           At(i) == PoseAt(i, l, s, beg)
           Before(x) == {i \in own : At(i) < x}
<1>11. ASSUME NEW i \in own
       PROVE  i \in 1 .. n - 1 /\ At(i) = poses[i] /\ poses[i] \in Nat
  <2>1. i \in 1 .. n - 1
    BY <1>1, <1>7
  <2>2. CASE i = l
    BY <1>8, <1>9, <2>1, <2>2 DEF PoseAt
  <2>3. CASE i # l
    <3>1. i - l \in 1 .. k /\ l + (i - l) = i
      BY <1>1, <2>3
    <3>2. poses[i] = s[i - l].to - beg
      BY <1>5, <1>7, <3>1
    <3> QED  BY <1>9, <2>1, <2>3, <3>2 DEF PoseAt
  <2> QED  BY <2>2, <2>3
<1>12. ASSUME NEW i \in own, NEW j \in own, i < j  PROVE At(i) <= At(j)
  <2>1. j - l \in 1 .. k - 1 /\ j # l /\ i \in Int /\ j \in Int
    BY <1>1, <1>12
  <2>2. At(j) = imu[j - l] - beg /\ beg < imu[j - l] /\ imu[j - l] \in Int
    BY <1>3, <2>1 DEF PoseAt
  <2>3. CASE i = l
    <3>1. At(i) = 0
      BY <2>3 DEF PoseAt
    <3> QED  BY <2>2, <3>1
  <2>4. CASE i # l
    <3>1. i - l \in 1 .. k - 1 /\ i - l < j - l
      BY <1>1, <1>12, <2>1, <2>4
    <3>2. At(i) = imu[i - l] - beg /\ imu[i - l] \in Int
      BY <1>3, <2>4, <3>1 DEF PoseAt
    <3>3. imu[i - l] < imu[j - l]
      BY <1>3, <2>1, <3>1
    <3>4. ASSUME NEW x \in Int, NEW y \in Int, x < y  PROVE x - beg <= y - beg
      BY <3>4
    <3>5. imu[i - l] - beg <= imu[j - l] - beg
      BY <2>2, <3>2, <3>3, <3>4
    <3> QED  BY <2>2, <3>2, <3>5
  <2> QED  BY <2>3, <2>4
<1>13. l \in own /\ At(l) = 0
  BY <1>1 DEF PoseAt
<1> HIDE DEF own, At
<1>14. h[1] \cap own = Before(c[1])
  <2>1. ASSUME NEW i \in own  PROVE i \in h[1] <=> At(i) < c[1]
    <3>1. i \in 1 .. n - 1 /\ At(i) = poses[i] /\ poses[i] \in Nat /\ c[1] \in Nat
      BY <1>1, <1>11
    <3> QED  BY <1>10, <3>1
  <2> QED  BY <2>1
<1>15. c[1] = 0 => h[1] = {}
  <2> SUFFICES ASSUME c[1] = 0, NEW i \in 1 .. n - 1  PROVE ~(c[1] > poses[i])
    BY <1>10
  <2>1. poses[i] \in Nat
    BY <1>9
  <2> QED  BY <2>1
<1>16. ASSUME NEW j \in 2 .. m, c[j] = 0  PROVE h[j] = {}
  <2>1. ASSUME NEW x \in 1 .. n - 1  PROVE ~(c[j] > poses[x])
    <3>1. poses[x] \in Nat
      BY <1>9
    <3> QED  BY <1>16, <3>1
  <2> QED  BY <1>10, <2>1 DEF MovedFrom, n
<1>17. ASSUME NEW j \in 2 .. m, c[j] > 0
       PROVE  \E x \in Before(c[j]) : h[j] = {x} /\ \A e \in Before(c[j]) : At(e) <= At(x)
  <2>1. c[j] \in Nat
    BY <1>1
  <2>2. ~(\A i \in 1 .. n - 1 : c[j] <= poses[i])
    BY <1>8, <1>17, <2>1
  <2>3. PICK x \in 1 .. n - 1 : /\ h[j] = {x} /\ c[j] > poses[x]
                               /\ \A i \in x + 1 .. n - 1 : c[j] <= poses[i]
    BY <1>10, <2>2 DEF MovedFrom, n
  <2>4. x \in Int /\ x >= l
    <3> SUFFICES ASSUME x < l  PROVE FALSE
      BY <1>1
    <3>1. l \in x + 1 .. n - 1
      BY <1>1, <1>8
    <3>2. c[j] <= 0
      BY <1>8, <2>3, <3>1
    <3> QED  BY <1>17, <2>1, <3>2
  <2>5. x \in own
    BY <1>1, <1>7, <2>4 DEF own
  <2>6. At(x) = poses[x] /\ poses[x] \in Nat
    BY <1>11, <2>5
  <2>7. x \in Before(c[j])
    BY <2>1, <2>3, <2>5, <2>6
  <2>8. ASSUME NEW e \in Before(c[j])  PROVE At(e) <= At(x)
    <3>1. e \in own /\ At(e) < c[j] /\ e \in 1 .. n - 1 /\ At(e) = poses[e] /\ poses[e] \in Nat
      BY <1>11
    <3>2. e \in Int /\ ~(e \in x + 1 .. n - 1)
      BY <2>1, <2>3, <3>1
    <3>3. e < x \/ e = x
      BY <2>4, <3>1, <3>2
    <3>4. CASE e < x
      BY <1>12, <2>5, <3>1, <3>4
    <3>5. CASE e = x
      BY <2>6, <3>5
    <3> QED  BY <3>3, <3>4, <3>5
  <2> QED  BY <2>3, <2>7, <2>8
<1>18. ASSUME NEW j \in 1 .. m
       PROVE  /\ c[j] = 0 => h[j] = {}
              /\ j > 1 /\ c[j] > 0 =>
                   \E x \in Before(c[j]) :
                     h[j] = {x} /\ \A e \in Before(c[j]) : At(e) <= At(x)
              /\ j = 1 => h[j] \cap own = Before(c[j])
  <2>1. CASE j = 1
    BY <1>14, <1>15, <2>1
  <2>2. CASE j # 1
    <3>1. j \in 2 .. m
      BY <1>1, <2>2
    <3> HIDE DEF Before
    <3> QED  BY <1>16, <1>17, <2>2, <3>1
  <2> QED  BY <2>1, <2>2
<1>19. MovedBy(h, c, s, beg, l)
  <2> QED  BY <1>18 DEF m, own, At, k, MovedBy
<1> QED  BY <1>19 DEF h, poses, l, tail, k

-----------------------------------------------------------------------------

\* From the first propagated package on, the start of a package is the end of the one
\* before; with a camera that package is an image's.
PropInv ==
  /\ imaging \in BOOLEAN /\ imu_need_init \in BOOLEAN /\ propagated \in BOOLEAN
  /\ pkg.end \in Nat /\ last_imu \in Int /\ last_imu <= pkg.end /\ last_prop_end_time \in Int
  /\ IMUpose \in Seq(Nat)
  /\ propagated => ~imu_need_init /\ last_prop_end_time = pkg.end
  /\ imaging /\ ~imu_need_init /\ pkg.kind # "LIO" => propagated

LEMMA PropInvInit ==
  ASSUME PropAssumption, PropInit  PROVE PropInv
<1>1. pkg.end = 0 /\ <<>> \in Seq(Nat)
  BY DEF PropInit
<1>2. last_prop_end_time \in Int
  BY DEF PropInit, PropAssumption
<1>3. /\ imaging \in BOOLEAN /\ imu_need_init = TRUE /\ propagated = FALSE /\ last_imu = 0
      /\ IMUpose = <<>>
  BY DEF PropInit
<1>4. pkg.end \in Nat /\ last_imu \in Int /\ last_imu <= pkg.end
  BY <1>1, <1>3
<1>5. IMUpose \in Seq(Nat) /\ imu_need_init \in BOOLEAN /\ propagated \in BOOLEAN
  BY <1>1, <1>3
<1> QED  BY <1>2, <1>3, <1>4, <1>5 DEF PropInv

\* What a package of points gives Process2.
LioInput(end, imu, c) ==
  /\ end \in Int /\ pkg.end < end
  /\ imu \in Seq(Int) /\ (\A i \in 1 .. Len(imu) : pkg.end < imu[i] /\ imu[i] <= end)
  /\ \A i \in 1 .. Len(imu) - 1 : imu[i] < imu[i + 1]
  /\ c \in Seq(Nat) /\ \A i \in 1 .. Len(c) - 1 : c[i] <= c[i + 1]

LioPkg(end, imu, c) ==
  [kind |-> "LIO", beg |-> pkg.end, end |-> end, imu |-> imu, points |-> c]

LEMMA LioIs ==
  ASSUME PropAssumption, PropInv, LioPackage
  PROVE  /\ imaging => pkg.kind # "LIO"
         /\ \E end, imu, c : LioInput(end, imu, c) /\ Process2(LioPkg(end, imu, c))
<1> DEFINE top(end) == IF imaging THEN MaxEnd ELSE end - pkg.end - 1
<1>1. PICK end \in pkg.end + 1 .. MaxEnd :
         \E imu \in Ascending(pkg.end + 1 .. end, MaxSamples) :
           \E c \in Rising(0 .. top(end), MaxScanPoints) : Process2(LioPkg(end, imu, c))
  BY DEF LioPackage, LioPkg
<1>2. pkg.end \in Nat
  BY DEF PropInv
<1>3. end \in Int /\ pkg.end < end /\ top(end) \in Nat
  BY <1>2 DEF PropAssumption
<1> HIDE DEF top
<1>4. PICK imu \in Ascending(pkg.end + 1 .. end, MaxSamples) :
         \E c \in Rising(0 .. top(end), MaxScanPoints) : Process2(LioPkg(end, imu, c))
  BY <1>1
<1>5. PICK c \in Rising(0 .. top(end), MaxScanPoints) : Process2(LioPkg(end, imu, c))
  BY <1>4
<1>6. imu \in Seq(pkg.end + 1 .. end) /\ \A i \in 1 .. Len(imu) - 1 : imu[i] < imu[i + 1]
  BY AscendingIs
<1>7. c \in Seq(0 .. top(end)) /\ \A i \in 1 .. Len(c) - 1 : c[i] <= c[i + 1]
  BY RisingIs
<1>8. imu \in Seq(Int) /\ (\A i \in 1 .. Len(imu) : pkg.end < imu[i] /\ imu[i] <= end)
  BY <1>2, <1>3, <1>6
<1>9. c \in Seq(Nat)
  BY <1>3, <1>7
<1>10. LioInput(end, imu, c)
  BY <1>3, <1>6, <1>7, <1>8, <1>9 DEF LioInput
<1> QED  BY <1>5, <1>10 DEF LioPackage

\* The step of a package of points that is propagated.
LEMMA LioPropagated ==
  ASSUME PropInv, ~imu_need_init, NEW end, NEW imu, NEW c, LioInput(end, imu, c),
         Process2(LioPkg(end, imu, c))
  PROVE  LET beg == last_prop_end_time
             moves == Forward(<<last_imu>> \o imu, beg, end)
             poses == Append(IMUpose, 0) \o [i \in 1 .. Len(moves) |-> moves[i].to - beg]
         IN  /\ pkg' = LioPkg(end, imu, c) /\ steps' = moves
             /\ c # <<>> => heads' = Backward(poses, c) /\ IMUpose' = <<>>
             /\ c = <<>> => IMUpose' = poses
             /\ last_imu' = Last(<<last_imu>> \o imu)
             /\ last_prop_end_time' = end /\ propagated' = TRUE
             /\ imu_need_init' = imu_need_init /\ imaging' = imaging
<1> DEFINE p == LioPkg(end, imu, c)
<1>1. p.kind = "LIO" /\ p.imu = imu /\ p.points = c /\ p.end = end
  BY DEF LioPkg
<1>2. UndistortPcl(p) /\ pkg' = p /\ imu_need_init' = imu_need_init /\ imaging' = imaging
  BY DEF Process2
<1> HIDE DEF p
<1>3. /\ steps' = Forward(<<last_imu>> \o imu, last_prop_end_time, end)
      /\ last_imu' = Last(<<last_imu>> \o imu)
      /\ last_prop_end_time' = end /\ propagated' = TRUE
  BY <1>1, <1>2 DEF UndistortPcl
<1> DEFINE moves == Forward(<<last_imu>> \o imu, last_prop_end_time, end)
           poses == Append(IMUpose, 0) \o [i \in 1 .. Len(moves) |-> moves[i].to - last_prop_end_time]
<1>4. IF c # <<>> THEN heads' = Backward(poses, c) /\ IMUpose' = <<>>
                  ELSE heads' = [j \in 1 .. Len(c) |-> {}] /\ IMUpose' = poses
  BY <1>1, <1>2 DEF UndistortPcl
<1> HIDE DEF moves, poses
<1>5. /\ c # <<>> => heads' = Backward(poses, c) /\ IMUpose' = <<>>
      /\ c = <<>> => IMUpose' = poses
  BY <1>4
<1> QED  BY <1>2, <1>3, <1>5 DEF p, moves, poses

\* The last sample is in the package, and the poses are behind its start.
LEMMA LastIs ==
  ASSUME NEW a \in Int, NEW end \in Int, a <= end, NEW imu \in Seq(Int),
         \A i \in 1 .. Len(imu) : imu[i] <= end
  PROVE  Last(<<a>> \o imu) \in Int /\ Last(<<a>> \o imu) <= end
<1> DEFINE v == <<a>> \o imu
           n == Len(imu)
<1>1. n \in Nat /\ Len(v) = n + 1 /\ v[1] = a /\ \A i \in 1 .. n : v[i + 1] = imu[i] /\ imu[i] \in Int
  OBVIOUS
<1>2. \A i \in 1 .. n : imu[i] <= end
  OBVIOUS
<1>3. Last(v) = v[n + 1]
  BY <1>1 DEF Last
<1> HIDE DEF v, n
<1>4. ASSUME n = 0  PROVE Last(v) \in Int /\ Last(v) <= end
  BY <1>1, <1>3, <1>4
<1>5. ASSUME n # 0  PROVE Last(v) \in Int /\ Last(v) <= end
  <2>1. n \in 1 .. n
    BY <1>1, <1>5
  <2> QED  BY <1>1, <1>2, <1>3, <2>1
<1> QED  BY <1>4, <1>5 DEF v

LEMMA PosesAre ==
  ASSUME NEW ip \in Seq(Nat), NEW beg \in Int,
         NEW m \in Seq([from : Int, to : Int]), \A i \in 1 .. Len(m) : m[i].to >= beg
  PROVE  ip \o [i \in 1 .. Len(m) |-> m[i].to - beg] \in Seq(Nat)
<1> DEFINE R == [from : Int, to : Int]
           tail == [i \in 1 .. Len(m) |-> m[i].to - beg]
<1>1. \A i \in 1 .. Len(m) : m[i] \in R
  <2>1. m \in Seq(R)
    OBVIOUS
  <2> HIDE DEF R
  <2> QED  BY <2>1
<1>2. \A i \in 1 .. Len(m) : m[i].to - beg \in Nat
  BY <1>1
<1>3. Len(m) \in Nat
  OBVIOUS
<1>4. tail \in [1 .. Len(m) -> Nat]
  BY <1>2
<1> HIDE DEF tail
<1>5. tail \in Seq(Nat)
  <2> DEFINE n == Len(m)
  <2>1. n \in Nat /\ tail \in [1 .. n -> Nat]
    BY <1>3, <1>4
  <2> HIDE DEF n
  <2> QED  BY <2>1
<1> QED  BY <1>5 DEF tail

LEMMA PropInvInitialising ==
  ASSUME PropInv, imu_need_init, NEW p, Process2(p), p.end \in Nat, pkg.end <= p.end,
         p.imu \in Seq(Int), \A i \in 1 .. Len(p.imu) : p.imu[i] <= p.end,
         p.kind = "LIO" \/ p.imu = <<>>
  PROVE  PropInv'
<1>1. /\ pkg' = p /\ imaging' = imaging /\ last_prop_end_time' = last_prop_end_time
      /\ propagated' = propagated
      /\ IF p.imu = <<>> THEN UNCHANGED <<imu_need_init, init_iter_num, last_imu, IMUpose>>
                         ELSE ImuInit(p.imu)
  BY DEF Process2
<1>2. /\ imaging \in BOOLEAN /\ imu_need_init \in BOOLEAN /\ propagated = FALSE
      /\ pkg.end \in Nat /\ last_imu \in Int /\ last_imu <= pkg.end
      /\ last_prop_end_time \in Int /\ IMUpose \in Seq(Nat)
  BY DEF PropInv
<1>3. /\ imu_need_init' \in BOOLEAN /\ IMUpose' \in Seq(Nat)
      /\ last_imu' \in Int /\ last_imu' <= p.end
      /\ p.imu = <<>> => imu_need_init' = TRUE
  <2>1. CASE p.imu = <<>>
    BY <1>1, <1>2, <2>1
  <2>2. CASE p.imu # <<>>
    <3>1. /\ last_imu' = Last(p.imu)
          /\ imu_need_init' = (init_iter_num' <= MAX_INI_COUNT)
          /\ IMUpose' = IF init_iter_num = 1 THEN <<>> ELSE IMUpose
      BY <1>1, <2>2 DEF ImuInit
    <3>2. Last(p.imu) = p.imu[Len(p.imu)] /\ Len(p.imu) \in 1 .. Len(p.imu)
      BY <2>2 DEF Last
    <3>3. p.imu[Len(p.imu)] \in Int /\ p.imu[Len(p.imu)] <= p.end
      BY <3>2
    <3>4. imu_need_init' \in BOOLEAN
      BY <3>1
    <3>5. <<>> \in Seq(Nat)
      OBVIOUS
    <3> QED  BY <1>2, <2>2, <3>1, <3>2, <3>3, <3>4, <3>5
  <2> QED  BY <2>1, <2>2
<1>4. pkg'.end = p.end /\ pkg'.kind = p.kind
  BY <1>1
<1>5. imaging' /\ ~imu_need_init' /\ pkg'.kind # "LIO" => propagated'
  BY <1>3, <1>4
<1> QED  BY <1>1, <1>2, <1>3, <1>4, <1>5 DEF PropInv

LEMMA PropInvLio ==
  ASSUME PropAssumption, PropInv, LioPackage  PROVE PropInv'
<1>1. PICK end, imu, c : LioInput(end, imu, c) /\ Process2(LioPkg(end, imu, c))
  BY LioIs
<1>2. /\ imaging \in BOOLEAN /\ imu_need_init \in BOOLEAN
      /\ pkg.end \in Nat /\ last_imu \in Int /\ last_imu <= pkg.end
      /\ last_prop_end_time \in Int /\ IMUpose \in Seq(Nat)
  BY DEF PropInv
<1>3. /\ end \in Nat /\ pkg.end <= end /\ imu \in Seq(Int)
      /\ \A i \in 1 .. Len(imu) : imu[i] <= end
  BY <1>1, <1>2 DEF LioInput
<1>4. CASE imu_need_init
  <2> DEFINE p == LioPkg(end, imu, c)
  <2>1. p.end = end /\ p.imu = imu /\ p.kind = "LIO"
    BY DEF LioPkg
  <2>2. Process2(p)
    BY <1>1
  <2> HIDE DEF p
  <2> QED  BY <1>3, <1>4, <2>1, <2>2, PropInvInitialising
<1>5. CASE ~imu_need_init
  <2> DEFINE beg == last_prop_end_time
             moves == Forward(<<last_imu>> \o imu, beg, end)
             tail == [i \in 1 .. Len(moves) |-> moves[i].to - beg]
             poses == Append(IMUpose, 0) \o tail
  <2>1. /\ pkg' = LioPkg(end, imu, c)
        /\ c # <<>> => IMUpose' = <<>>
        /\ c = <<>> => IMUpose' = poses
        /\ last_imu' = Last(<<last_imu>> \o imu)
        /\ last_prop_end_time' = end /\ propagated' = TRUE
        /\ imu_need_init' = imu_need_init /\ imaging' = imaging
    BY <1>1, <1>5, LioPropagated
  <2>2. moves \in Seq([from : Int, to : Int]) /\ \A i \in 1 .. Len(moves) : moves[i].to >= beg
    <3>1. end \in Int
      BY <1>3
    <3> HIDE DEF tail, poses
    <3> QED  BY <1>2, <1>3, <3>1, ForwardAhead
  <2>3. Append(IMUpose, 0) \in Seq(Nat)
    BY <1>2
  <2> HIDE DEF moves
  <2>4. poses \in Seq(Nat)
    BY <1>2, <2>2, <2>3, PosesAre
  <2>5. Last(<<last_imu>> \o imu) \in Int /\ Last(<<last_imu>> \o imu) <= end
    <3>1. last_imu <= end
      BY <1>2, <1>3
    <3> QED  BY <1>2, <1>3, <3>1, LastIs
  <2> HIDE DEF poses
  <2>6. IMUpose' \in Seq(Nat)
    <3>1. <<>> \in Seq(Nat)
      OBVIOUS
    <3> QED  BY <2>1, <2>4, <3>1
  <2>7. pkg'.end = end /\ pkg'.kind = "LIO"
    BY <2>1 DEF LioPkg
  <2> QED  BY <1>2, <1>3, <1>5, <2>1, <2>5, <2>6, <2>7 DEF PropInv
<1> QED  BY <1>2, <1>4, <1>5

LEMMA PropInvVio ==
  ASSUME PropInv, VioPackage  PROVE PropInv'
<1> DEFINE p == [kind |-> "VIO", beg |-> pkg.end, end |-> pkg.end, imu |-> <<>>, points |-> <<>>]
<1>1. p.end = pkg.end /\ p.imu = <<>> /\ p.kind = "VIO" /\ p.points = <<>>
  OBVIOUS
<1>2. Process2(p) /\ imaging
  BY DEF VioPackage
<1>3. /\ imaging \in BOOLEAN /\ imu_need_init \in BOOLEAN
      /\ pkg.end \in Nat /\ last_imu \in Int /\ last_imu <= pkg.end
      /\ last_prop_end_time \in Int /\ IMUpose \in Seq(Nat)
  BY DEF PropInv
<1>4. <<>> \in Seq(Int) /\ Len(<<>>) = 0 /\ 1 .. 0 = {}
  OBVIOUS
<1> HIDE DEF p
<1>5. CASE imu_need_init
  <2>1. \A i \in 1 .. Len(p.imu) : p.imu[i] <= p.end
    BY <1>1, <1>4
  <2>2. p.end \in Nat /\ pkg.end <= p.end /\ p.imu \in Seq(Int)
    BY <1>1, <1>3, <1>4
  <2> QED  BY <1>1, <1>2, <1>5, <2>1, <2>2, PropInvInitialising
<1>6. CASE ~imu_need_init
  <2>1. UndistortPcl(p) /\ pkg' = p /\ imu_need_init' = imu_need_init /\ imaging' = imaging
    BY <1>2, <1>6 DEF Process2
  <2> DEFINE moves == Forward(<<last_imu>> \o <<>>, last_prop_end_time, pkg.end)
             poses == IMUpose \o [i \in 1 .. Len(moves) |-> moves[i].to - last_prop_end_time]
  <2>2. /\ IMUpose' = poses /\ last_imu' = Last(<<last_imu>> \o <<>>)
        /\ last_prop_end_time' = pkg.end /\ propagated' = TRUE
    BY <1>1, <2>1 DEF UndistortPcl
  <2>3. /\ moves \in Seq([from : Int, to : Int])
        /\ \A i \in 1 .. Len(moves) : moves[i].to >= last_prop_end_time
    <3> DEFINE e == <<>>
    <3>1. e \in Seq(Int) /\ \A i \in 1 .. Len(e) : e[i] <= pkg.end
      BY <1>4
    <3>2. moves = Forward(<<last_imu>> \o e, last_prop_end_time, pkg.end)
      OBVIOUS
    <3> HIDE DEF e, moves
    <3>3. pkg.end \in Int
      BY <1>3
    <3> QED  BY <1>3, <3>1, <3>2, <3>3, ForwardAhead
  <2> HIDE DEF moves
  <2>4. poses \in Seq(Nat)
    BY <1>3, <2>3, PosesAre
  <2>5. Last(<<last_imu>> \o <<>>) = last_imu
    BY DEF Last
  <2> HIDE DEF poses
  <2>6. pkg'.end = pkg.end /\ pkg'.kind = "VIO"
    BY <1>1, <2>1
  <2> QED  BY <1>3, <1>6, <2>1, <2>2, <2>4, <2>5, <2>6 DEF PropInv
<1> QED  BY <1>3, <1>5, <1>6

THEOREM PropInvHolds ==
  ASSUME PropAssumption  PROVE PropSpec => []PropInv
<1>1. PropInit => PropInv
  BY PropInvInit
<1>2. PropInv /\ [PropNext]_propVars => PropInv'
  <2> SUFFICES ASSUME PropInv, [PropNext]_propVars  PROVE PropInv'
    OBVIOUS
  <2>1. CASE LioPackage
    BY <2>1, PropInvLio
  <2>2. CASE VioPackage
    BY <2>2, PropInvVio
  <2>3. CASE UNCHANGED propVars
    BY <2>3 DEF PropInv, propVars
  <2> QED  BY <2>1, <2>2, <2>3 DEF PropNext
<1> QED  BY <1>1, <1>2, PTL DEF PropSpec

-----------------------------------------------------------------------------

\* The first start is an image's.
THEOREM StartKnownHolds ==
  ASSUME PropAssumption  PROVE PropSpec => StartKnown
<1> DEFINE Step == imaging /\ pkg'.kind = "LIO" /\ ~imu_need_init
                     => propagated /\ last_prop_end_time = pkg'.beg
<1>1. PropInv /\ [PropNext]_propVars => [Step]_propVars
  <2> SUFFICES ASSUME PropInv, PropNext, imaging, pkg'.kind = "LIO", ~imu_need_init
               PROVE  propagated /\ last_prop_end_time = pkg'.beg
    OBVIOUS
  <2>1. CASE LioPackage
    <3>1. PICK end, imu, c : Process2(LioPkg(end, imu, c))
      BY <2>1, LioIs
    <3>2. pkg' = LioPkg(end, imu, c)
      BY <3>1 DEF Process2
    <3>3. pkg'.beg = pkg.end
      BY <3>2 DEF LioPkg
    <3>4. pkg.kind # "LIO"
      BY <2>1, LioIs
    <3>5. propagated /\ last_prop_end_time = pkg.end
      BY <3>4 DEF PropInv
    <3> QED  BY <3>3, <3>5
  <2>2. CASE VioPackage
    <3>1. pkg' = [kind |-> "VIO", beg |-> pkg.end, end |-> pkg.end, imu |-> <<>>, points |-> <<>>]
      BY <2>2 DEF VioPackage, Process2
    <3> QED  BY <3>1
  <2> QED  BY <2>1, <2>2 DEF PropNext
<1> HIDE DEF Step
<1>2. PropSpec => [][Step]_propVars
  BY <1>1, PropInvHolds, PTL DEF PropSpec
<1> QED  BY <1>2 DEF Step, StartKnown

\* A package of points that was propagated: where its intervals lie.
LEMMA LioTiles ==
  ASSUME PropInv, propagated, NEW end, NEW imu, NEW c, LioInput(end, imu, c),
         Process2(LioPkg(end, imu, c))
  PROVE  /\ pkg' = LioPkg(end, imu, c) /\ last_prop_end_time = pkg.end
         /\ c # <<>> => heads' = Backward(Append(IMUpose, 0)
                          \o [i \in 1 .. Len(steps') |-> steps'[i].to - pkg.end], c)
         /\ Tiled(steps', imu, last_imu, pkg.end, end)
<1>1. /\ ~imu_need_init /\ last_prop_end_time = pkg.end /\ pkg.end \in Nat
      /\ last_imu \in Int /\ last_imu <= pkg.end
  BY DEF PropInv
<1> DEFINE moves == Forward(<<last_imu>> \o imu, last_prop_end_time, end)
<1>2. /\ pkg' = LioPkg(end, imu, c) /\ steps' = moves
      /\ c # <<>> => heads' = Backward(Append(IMUpose, 0)
                       \o [i \in 1 .. Len(moves) |-> moves[i].to - last_prop_end_time], c)
  BY <1>1, LioPropagated
<1>3. /\ end \in Int /\ imu \in Seq(Int)
      /\ \A i \in 1 .. Len(imu) : pkg.end < imu[i] /\ imu[i] <= end
      /\ \A i \in 1 .. Len(imu) - 1 : imu[i] < imu[i + 1]
  BY DEF LioInput
<1> DEFINE s == Forward(<<last_imu>> \o imu, pkg.end, end)
<1>4. Tiled(s, imu, last_imu, pkg.end, end)
  <2>1. pkg.end \in Int
    BY <1>1
  <2> QED  BY <1>1, <1>3, <2>1, ForwardTiles
<1>5. moves = s
  BY <1>1
<1> HIDE DEF moves, s
<1>6. steps' = s
  BY <1>2, <1>5
<1> QED  BY <1>1, <1>2, <1>4, <1>5, <1>6

\* No instant of a package of points is left out or counted twice.
THEOREM CoveredHolds ==
  ASSUME PropAssumption  PROVE PropSpec => Covered
<1> DEFINE Step == (pkg'.kind = "LIO" /\ propagated) =>
             \/ Tiles(steps', pkg'.beg, pkg'.end)
             \/ /\ Len(pkg'.imu) = 1 /\ last_imu < pkg'.beg
                /\ Tiles(steps', pkg'.beg, pkg'.imu[1])
             \/ pkg'.imu = <<>> /\ steps' = <<>>
<1>1. PropInv /\ [PropNext]_propVars => [Step]_propVars
  <2> SUFFICES ASSUME PropInv, PropNext, pkg'.kind = "LIO", propagated  PROVE Step
    OBVIOUS
  <2>1. CASE LioPackage
    <3>1. PICK end, imu, c : LioInput(end, imu, c) /\ Process2(LioPkg(end, imu, c))
      BY <2>1, LioIs
    <3>2. /\ pkg' = LioPkg(end, imu, c) /\ steps' \in Seq([from : Int, to : Int])
          /\ Len(steps') = Len(imu)
          /\ imu # <<>> => \/ Tiles(steps', pkg.end, end)
                           \/ Len(imu) = 1 /\ last_imu < pkg.end /\ Tiles(steps', pkg.end, imu[1])
      BY <3>1, LioTiles DEF Tiled
    <3>3. pkg'.beg = pkg.end /\ pkg'.end = end /\ pkg'.imu = imu
      BY <3>2 DEF LioPkg
    <3>4. CASE imu = <<>>
      <4>1. steps' = <<>>
        BY <3>2, <3>4
      <4> QED  BY <3>3, <3>4, <4>1
    <3>5. CASE imu # <<>>
      BY <3>2, <3>3, <3>5
    <3> QED  BY <3>4, <3>5
  <2>2. CASE VioPackage
    <3>1. pkg' = [kind |-> "VIO", beg |-> pkg.end, end |-> pkg.end, imu |-> <<>>, points |-> <<>>]
      BY <2>2 DEF VioPackage, Process2
    <3> QED  BY <3>1
  <2> QED  BY <2>1, <2>2 DEF PropNext
<1> HIDE DEF Step
<1>2. PropSpec => [][Step]_propVars
  BY <1>1, PropInvHolds, PTL DEF PropSpec
<1> QED  BY <1>2 DEF Step, Covered

\* A point but the first is moved once, from the latest pose before it; the first from
\* every pose before it.
THEOREM MovedOnceHolds ==
  ASSUME PropAssumption  PROVE PropSpec => MovedOnce
<1>1. PropInv /\ [PropNext]_propVars => [MovedStep]_propVars
  <2> SUFFICES ASSUME PropInv, PropNext, pkg'.kind = "LIO", propagated, pkg'.imu # <<>>
               PROVE  MovedBy(heads', pkg'.points, steps', pkg'.beg, Len(IMUpose) + 1)
    BY DEF MovedStep
  <2>1. CASE LioPackage
    <3>1. PICK end, imu, c : LioInput(end, imu, c) /\ Process2(LioPkg(end, imu, c))
      BY <2>1, LioIs
    <3> DEFINE s == steps'
               h == Backward(Append(IMUpose, 0) \o [i \in 1 .. Len(s) |-> s[i].to - pkg.end], c)
    <3>2. /\ pkg' = LioPkg(end, imu, c) /\ s \in Seq([from : Int, to : Int])
          /\ Len(s) = Len(imu) /\ (\A i \in 1 .. Len(s) - 1 : s[i].to = imu[i])
          /\ c # <<>> => heads' = h
      BY <3>1, LioTiles, ZenonT(40) DEF Tiled
    <3>3. pkg'.beg = pkg.end /\ pkg'.imu = imu /\ pkg'.points = c
      BY <3>2 DEF LioPkg
    <3>4. /\ imu \in Seq(Int) /\ (\A i \in 1 .. Len(imu) : pkg.end < imu[i])
          /\ \A i \in 1 .. Len(imu) - 1 : imu[i] < imu[i + 1]
          /\ c \in Seq(Nat) /\ \A i \in 1 .. Len(c) - 1 : c[i] <= c[i + 1]
      BY <3>1 DEF LioInput
    <3>5. pkg.end \in Int /\ IMUpose \in Seq(Nat)
      BY DEF PropInv
    <3>6. CASE c = <<>>
      <4>1. 1 .. Len(pkg'.points) = {}
        BY <3>3, <3>6
      <4> QED  BY <4>1 DEF MovedBy
    <3>7. CASE c # <<>>
      <4>1. s # <<>>
        BY <3>2, <3>3, <3>4
      <4> HIDE DEF s
      <4>2. MovedBy(h, c, s, pkg.end, Len(IMUpose) + 1)
        BY <3>2, <3>4, <3>5, <3>7, <4>1, MovedFacts
      <4>3. heads' = h
        BY <3>2, <3>7
      <4> QED  BY <3>3, <4>2, <4>3 DEF s
    <3> QED  BY <3>6, <3>7
  <2>2. CASE VioPackage
    <3>1. pkg' = [kind |-> "VIO", beg |-> pkg.end, end |-> pkg.end, imu |-> <<>>, points |-> <<>>]
      BY <2>2 DEF VioPackage, Process2
    <3> QED  BY <3>1
  <2> QED  BY <2>1, <2>2 DEF PropNext
<1> QED  BY <1>1, PropInvHolds, PTL DEF PropSpec, MovedOnce

\* The three together.
THEOREM MotionConsistentHolds ==
  ASSUME PropAssumption  PROVE PropSpec => MotionConsistent
BY StartKnownHolds, CoveredHolds, MovedOnceHolds DEF MotionConsistent
=============================================================================
