-------------------------- MODULE LivoSyncProofs --------------------------
(***************************************************************************)
(* LivoSync for any scan starts, lengths, tolerances and bounds: the order *)
(* of the IMU samples, the image of a package of points, and, when scans   *)
(* come in order, the times of the points and the stream of packages.      *)
(***************************************************************************)
EXTENDS LivoSync, PreprocessProofs

\* A queue of stamps in order, none after t.
OrderedUpTo(q, t) ==
  /\ \A i, j \in 1 .. Len(q) : i < j => q[i] <= q[j]
  /\ \A i \in 1 .. Len(q) : q[i] <= t

\* The last stamp taken in bounds the queue, which is what keeps a repaired sample,
\* stored right after it, in order.
SInv ==
  /\ imu_buffer \in Seq(Times) /\ img_time_buffer \in Seq(Times)
  /\ last_timestamp_imu \in {-1} \cup Times
  /\ OrderedUpTo(imu_buffer, last_timestamp_imu)
  /\ VioAtCut

LEMMA TimesAreNat == Times \subseteq Nat /\ MaxTime \in Nat /\ Jitter \in Nat
BY SyncAssumption DEF Times

-----------------------------------------------------------------------------
(* Queues. *)

LEMMA FrontUpToRange ==
  ASSUME NEW q \in Seq(Times), NEW t  PROVE FrontUpTo(q, t) \in 0 .. Len(q)
<1> DEFINE S == {i \in 1 .. Len(q) : \A j \in 1 .. i : q[j] <= t}
<1>1. Len(q) \in Nat
  BY LenProperties
<1>2. IsFiniteSet(1 .. Len(q)) /\ Cardinality(1 .. Len(q)) = Len(q)
  BY <1>1, FS_Interval
<1>3. Cardinality(S) <= Len(q) /\ IsFiniteSet(S)
  BY <1>2, FS_Subset
<1>4. Cardinality(S) \in Nat
  BY <1>3, FS_CardinalityType
<1> QED  BY <1>1, <1>3, <1>4 DEF FrontUpTo

\* What is left of a queue in order is in order.
LEMMA DropKeepsOrder ==
  ASSUME NEW q \in Seq(Times), NEW k \in 0 .. Len(q), NEW t, OrderedUpTo(q, t)
  PROVE  Drop(q, k) \in Seq(Times) /\ OrderedUpTo(Drop(q, k), t)
<1>1. Len(q) \in Nat
  BY LenProperties
<1>2. /\ Drop(q, k) \in Seq(Times) /\ Len(Drop(q, k)) = Len(q) - k
      /\ \A i \in 1 .. Len(q) - k : Drop(q, k)[i] = q[k + i]
  <2>1. Drop(q, k) = SubSeq(q, k + 1, Len(q))
    BY DEF Drop
  <2>2. \A i \in 1 .. Len(q) - k : i \in 1 .. Len(q) /\ k + i \in 1 .. Len(q)
    BY <1>1
  <2> QED  BY <1>1, <2>1, <2>2
<1>3. \A i \in 1 .. Len(q) - k : k + i \in 1 .. Len(q)
  BY <1>1
<1>4. \A i, j \in 1 .. Len(q) - k : i < j => k + i < k + j
  BY <1>1
<1> QED  BY <1>2, <1>3, <1>4 DEF OrderedUpTo

\* A stamp not before the last one goes at the end of a queue in order.
LEMMA AcceptKeepsOrder ==
  ASSUME NEW q \in Seq(Times), NEW s \in Nat, s >= 1, ImuAccept(s, q),
         \A i \in 1 .. Len(q) : q[i] <= s,
         \A i, j \in 1 .. Len(q) : i < j => q[i] <= q[j]
  PROVE  /\ imu_buffer' \in Seq(Times) /\ last_timestamp_imu' \in {-1} \cup Times
         /\ OrderedUpTo(imu_buffer', last_timestamp_imu')
<1>1. s \in Times
  BY TimesAreNat DEF ImuAccept, Times
<1>2. imu_buffer' = Append(q, s) /\ last_timestamp_imu' = s
  BY DEF ImuAccept
<1>3. /\ Append(q, s) \in Seq(Times) /\ Len(Append(q, s)) = Len(q) + 1
      /\ \A i \in 1 .. Len(q) : Append(q, s)[i] = q[i]
      /\ Append(q, s)[Len(q) + 1] = s
  BY <1>1, AppendProperties
<1>4. Len(q) \in Nat
  BY LenProperties
<1>5. \A i \in 1 .. Len(q) + 1 : i \in 1 .. Len(q) \/ i = Len(q) + 1
  BY <1>4
<1>6. ASSUME NEW i \in 1 .. Len(q) + 1  PROVE Append(q, s)[i] <= s
  BY <1>3, <1>5
<1>7. ASSUME NEW i \in 1 .. Len(q) + 1, NEW j \in 1 .. Len(q) + 1, i < j
      PROVE  Append(q, s)[i] <= Append(q, s)[j]
  <2>1. i \in 1 .. Len(q)
    BY <1>4, <1>7
  <2>2. CASE j = Len(q) + 1
    BY <1>3, <1>6, <2>2
  <2>3. CASE j \in 1 .. Len(q)
    BY <1>3, <1>7, <2>1, <2>3
  <2> QED  BY <1>5, <2>2, <2>3
<1> QED  BY <1>1, <1>2, <1>3, <1>6, <1>7 DEF OrderedUpTo

-----------------------------------------------------------------------------
(* The invariant. *)

LEMMA SyncInit == Init => SInv
BY DEF Init, SInv, OrderedUpTo, VioAtCut

LEMMA ImuCbkKeeps == ASSUME SInv, NEW s \in Times, ImuCbk(s)  PROVE SInv'
<1> DEFINE late == last_timestamp_imu - s
<1>1. /\ s \in Nat /\ s >= 1 /\ last_timestamp_imu \in {-1} \cup Nat
      /\ imu_buffer \in Seq(Times) /\ OrderedUpTo(imu_buffer, last_timestamp_imu)
      /\ \A i \in 1 .. Len(imu_buffer) : imu_buffer[i] \in Nat
  <2>1. s \in Nat /\ s >= 1
    BY TimesAreNat DEF Times
  <2> QED  BY <2>1, TimesAreNat, ElementOfSeq DEF SInv
<1>2. UNCHANGED <<slam_mode, lio_vio_flg, img_time_buffer, pkg>>
  BY DEF ImuCbk, imgVars, syncVars
<1>3. VioAtCut' /\ img_time_buffer' \in Seq(Times)
  BY <1>2 DEF SInv, VioAtCut, Capture
<1>4. /\ imu_buffer' \in Seq(Times) /\ last_timestamp_imu' \in {-1} \cup Times
      /\ OrderedUpTo(imu_buffer', last_timestamp_imu')
  <2>1. CASE late <= 0 /\ ImuAccept(s, imu_buffer)
    <3>1. last_timestamp_imu <= s
      BY <1>1, <2>1
    <3>2. \A i \in 1 .. Len(imu_buffer) : imu_buffer[i] <= s
      BY <1>1, <3>1 DEF OrderedUpTo
    <3> QED  BY <1>1, <2>1, <3>2, AcceptKeepsOrder DEF OrderedUpTo
  <2>2. CASE last_timestamp_imu > 0 /\ ImuAccept(last_timestamp_imu + 1, imu_buffer)
    <3>1. last_timestamp_imu + 1 \in Nat /\ last_timestamp_imu + 1 >= 1
      BY <1>1, <2>2
    <3>2. \A i \in 1 .. Len(imu_buffer) : imu_buffer[i] <= last_timestamp_imu + 1
      BY <1>1 DEF OrderedUpTo
    <3> QED  BY <1>1, <2>2, <3>1, <3>2, AcceptKeepsOrder DEF OrderedUpTo
  <2>3. CASE ImuRestart(s)
    <3>1. ImuAccept(s, <<>>)
      BY <2>3 DEF ImuRestart
    <3>2. <<>> \in Seq(Times) /\ Len(<<>>) = 0
      BY EmptySeq
    <3>3. \A i \in 1 .. Len(<<>>) : FALSE
      BY <3>2
    <3> QED  BY <1>1, <3>1, <3>2, <3>3, AcceptKeepsOrder
  <2>4. CASE UNCHANGED <<imu_buffer, last_timestamp_imu>>
    BY <2>4 DEF SInv
  <2> QED  BY <2>1, <2>2, <2>3, <2>4 DEF ImuCbk
<1> QED  BY <1>3, <1>4 DEF SInv

LEMMA ImgCbkKeeps == ASSUME SInv, NEW s \in Times, ImgCbk(s)  PROVE SInv'
<1>1. /\ img_time_buffer' = Append(img_time_buffer, s)
      /\ UNCHANGED <<slam_mode, lio_vio_flg, pkg, imu_buffer, last_timestamp_imu>>
  BY DEF ImgCbk, imuVars, syncVars
<1>2. img_time_buffer' \in Seq(Times) /\ img_time_buffer' # <<>>
  BY <1>1, AppendProperties DEF SInv
<1>3. img_time_buffer # <<>> => Head(img_time_buffer') = Head(img_time_buffer)
  BY <1>1 DEF SInv
<1> QED  BY <1>1, <1>2, <1>3 DEF SInv, VioAtCut, Capture

\* A package of points is cut for the image at the front, which stays there.
LEMMA CutLioKeeps == ASSUME SInv, CutLio  PROVE SInv'
<1>1. /\ img_time_buffer # <<>> /\ UNCHANGED <<img_time_buffer, last_timestamp_imu>>
      /\ pkg'.end = Capture
      /\ \E t : imu_buffer' = Drop(imu_buffer, FrontUpTo(imu_buffer, t))
  BY DEF CutLio, Ready, imgVars
<1>2. PICK t : imu_buffer' = Drop(imu_buffer, FrontUpTo(imu_buffer, t))
  BY <1>1
<1>3. imu_buffer' \in Seq(Times) /\ OrderedUpTo(imu_buffer', last_timestamp_imu)
  BY <1>2, FrontUpToRange, DropKeepsOrder DEF SInv
<1> QED  BY <1>1, <1>3 DEF SInv, VioAtCut, Capture

LEMMA WholeScanKeeps == ASSUME SInv, WholeScan  PROVE SInv'
<1>1. /\ slam_mode = "ONLY_LIO" /\ UNCHANGED <<slam_mode, img_time_buffer, last_timestamp_imu>>
      /\ \E t : imu_buffer' = Drop(imu_buffer, FrontUpTo(imu_buffer, t))
  BY DEF WholeScan, imgVars
<1>2. PICK t : imu_buffer' = Drop(imu_buffer, FrontUpTo(imu_buffer, t))
  BY <1>1
<1>3. imu_buffer' \in Seq(Times) /\ OrderedUpTo(imu_buffer', last_timestamp_imu)
  BY <1>2, FrontUpToRange, DropKeepsOrder DEF SInv
<1> QED  BY <1>1, <1>3 DEF SInv, VioAtCut

\* An image leaves the buffer thrown away, or with its own package: in both cases
\* no package of points waits for one.
LEMMA ImageLeaves == ASSUME SInv, ThrowImage \/ CutVio  PROVE SInv'
<1>1. /\ img_time_buffer' = Tail(img_time_buffer) /\ img_time_buffer # <<>>
      /\ lio_vio_flg' # "LIO" /\ UNCHANGED <<imu_buffer, last_timestamp_imu>>
  BY DEF ThrowImage, Thrown, CutVio, AfterVio, Ready, imuVars
<1>2. img_time_buffer' \in Seq(Times)
  BY <1>1, HeadTailProperties DEF SInv
<1> QED  BY <1>1, <1>2 DEF SInv, VioAtCut

LEMMA SyncNext == SInv /\ [Next]_vars => SInv'
<1> SUFFICES ASSUME SInv, [Next]_vars  PROVE SInv'
  OBVIOUS
<1>1. CASE UNCHANGED <<slam_mode, imu_buffer, last_timestamp_imu, img_time_buffer, lio_vio_flg, pkg>>
  BY <1>1 DEF SInv, OrderedUpTo, VioAtCut, Capture
<1>2. ASSUME NEW h \in ScanStarts, NEW n \in ScanSizes, LivoxPclCbk(h, n)  PROVE SInv'
  BY <1>1, <1>2 DEF LivoxPclCbk, imuVars, imgVars, syncVars
<1>3. CASE LoopbackTimeout
  BY <1>1, <1>3 DEF LoopbackTimeout, imgVars, syncVars
<1>4. CASE SyncPackages
  <2>1. CASE SyncWaits
    BY <1>1, <2>1 DEF SyncWaits, imuVars, imgVars
  <2> QED  BY <1>4, <2>1, ImageLeaves, CutLioKeeps, WholeScanKeeps DEF SyncPackages
<1>5. CASE UNCHANGED vars
  BY <1>1, <1>5 DEF vars, imuVars, imgVars, syncVars
<1> QED  BY <1>2, <1>3, <1>4, <1>5, ImuCbkKeeps, ImgCbkKeeps DEF Next

LEMMA SyncInvariant == Spec => []SInv
BY SyncInit, SyncNext, PTL DEF Spec

-----------------------------------------------------------------------------
(* The theorems. *)

\* Whatever order the IMU samples arrive in, whatever is dropped, repaired or taken
\* for a restart of the sensor, they wait in time order.
THEOREM ImuSortedHolds == Spec => []ImuSorted
<1>1. SInv => ImuSorted
  BY DEF SInv, OrderedUpTo, ImuSorted
<1> QED  BY <1>1, SyncInvariant, PTL

\* When the turn of an image comes, it is the one the points were cut for.
THEOREM VioAtCutHolds == Spec => []VioAtCut
<1>1. SInv => VioAtCut
  BY DEF SInv
<1> QED  BY <1>1, SyncInvariant, PTL

-----------------------------------------------------------------------------
(* Queues in order: what a loop takes off, what it leaves, what it keeps. *)

\* The part of a queue in order that a loop takes off.
LEMMA FrontIs ==
  ASSUME NEW q \in Seq(Int), NEW t \in Int,
         \A i, j \in 1 .. Len(q) : i < j => q[i] <= q[j]
  PROVE  /\ FrontUpTo(q, t) \in 0 .. Len(q)
         /\ \A i \in 1 .. Len(q) : i <= FrontUpTo(q, t) <=> q[i] <= t
<1> DEFINE S == {i \in 1 .. Len(q) : \A j \in 1 .. i : q[j] <= t}
<1>1. Len(q) \in Nat /\ \A i \in 1 .. Len(q) : q[i] \in Int
  BY LenProperties
<1>2. \A i \in 1 .. Len(q) : i \in S <=> q[i] <= t
  <2>1. ASSUME NEW i \in 1 .. Len(q), q[i] <= t, NEW j \in 1 .. i  PROVE q[j] <= t
    <3>1. j \in 1 .. Len(q) /\ (j = i \/ j < i)
      BY <1>1, <2>1
    <3>2. q[j] <= q[i]
      BY <1>1, <3>1
    <3> QED  BY <1>1, <2>1, <3>1, <3>2
  <2>2. \A i \in 1 .. Len(q) : i \in 1 .. i
    BY <1>1
  <2> QED  BY <2>1, <2>2
<1>3. \E k \in 0 .. Len(q) : S = 1 .. k
  <2> DEFINE T == {n \in Nat : n >= 1 /\ n \notin S}
  <2>1. Len(q) + 1 \in T
    BY <1>1
  <2>2. PICK n \in T : \A m \in T : n <= m
    <3>1. T \in SUBSET Nat /\ T # {}
      BY <2>1
    <3> HIDE DEF T
    <3> QED  BY <3>1, Least
  <2>3. n - 1 \in 0 .. Len(q)
    BY <1>1, <2>1, <2>2
  <2>4. \A i \in 1 .. n - 1 : i \in S
    <3>1. ASSUME NEW i \in 1 .. n - 1, i \notin S  PROVE FALSE
      <4>1. i \in T /\ i < n
        BY <2>2, <2>3, <3>1
      <4> QED  BY <2>2, <2>3, <4>1
    <3> QED  BY <3>1
  <2>5. ASSUME NEW i \in S  PROVE i \in 1 .. n - 1
    <3>1. i # n /\ i \in 1 .. Len(q)
      BY <2>2
    <3>2. ASSUME i > n  PROVE FALSE
      <4>1. n \in 1 .. i /\ n \in 1 .. Len(q)
        BY <1>1, <2>2, <2>3, <3>1, <3>2
      <4>2. q[n] <= t
        BY <4>1
      <4>3. n \in S
        BY <1>2, <4>1, <4>2
      <4> QED  BY <2>2, <4>3
    <3> QED  BY <1>1, <2>2, <2>3, <3>1, <3>2
  <2> QED  BY <2>3, <2>4, <2>5
<1>4. PICK k \in 0 .. Len(q) : S = 1 .. k
  BY <1>3
<1>5. Cardinality(1 .. k) = k
  <2>1. \A a, b \in Int : Cardinality(a .. b) = IF a > b THEN 0 ELSE b - a + 1
    BY FS_Interval
  <2>2. 1 \in Int /\ k \in Int /\ k >= 0
    BY <1>1, <1>4
  <2> QED  BY <2>1, <2>2
<1>6. FrontUpTo(q, t) = k
  BY <1>4, <1>5 DEF FrontUpTo
<1> HIDE DEF S
<1>7. \A i \in 1 .. Len(q) : i <= k <=> i \in S
  BY <1>1, <1>4
<1> QED  BY <1>2, <1>4, <1>6, <1>7

LEMMA DropIs ==
  ASSUME NEW S, NEW q \in Seq(S), NEW k \in 0 .. Len(q)
  PROVE  /\ Drop(q, k) \in Seq(S) /\ Len(Drop(q, k)) = Len(q) - k
         /\ \A i \in 1 .. Len(q) - k : k + i \in 1 .. Len(q) /\ Drop(q, k)[i] = q[k + i]
<1>1. Len(q) \in Nat
  BY LenProperties
<1>2. Drop(q, k) = SubSeq(q, k + 1, Len(q))
  BY DEF Drop
<1>3. \A i \in 1 .. Len(q) - k : i \in 1 .. Len(q) /\ k + i \in 1 .. Len(q)
  BY <1>1
<1> QED  BY <1>1, <1>2, <1>3

\* What stays of a set of elements.
ItemsOf(q) == {q[i] : i \in 1 .. Len(q)}

LEMMA DropOver ==
  ASSUME NEW q \in Seq(Int), NEW t \in Int,
         \A i, j \in 1 .. Len(q) : i < j => q[i] <= q[j]
  PROVE  ItemsOf(Drop(q, FrontUpTo(q, t))) = {s \in ItemsOf(q) : s > t}
<1> DEFINE k == FrontUpTo(q, t)
<1>1. k \in 0 .. Len(q) /\ \A i \in 1 .. Len(q) : i <= k <=> q[i] <= t
  BY FrontIs
<1>2. Len(q) \in Nat /\ \A i \in 1 .. Len(q) : q[i] \in Int
  BY LenProperties
<1> HIDE DEF k
<1>3. /\ Len(Drop(q, k)) = Len(q) - k
      /\ \A i \in 1 .. Len(q) - k : k + i \in 1 .. Len(q) /\ Drop(q, k)[i] = q[k + i]
  BY <1>1, DropIs
<1>4. ASSUME NEW i \in 1 .. Len(q) - k  PROVE Drop(q, k)[i] \in {s \in ItemsOf(q) : s > t}
  <2>1. k + i \in 1 .. Len(q) /\ ~ (k + i <= k)
    BY <1>1, <1>2, <1>3
  <2>2. q[k + i] \in Int /\ ~ (q[k + i] <= t)
    BY <1>1, <1>2, <2>1
  <2> QED  BY <1>3, <2>1, <2>2 DEF ItemsOf
<1>5. ASSUME NEW i \in 1 .. Len(q), q[i] > t
      PROVE  \E j \in 1 .. Len(q) - k : Drop(q, k)[j] = q[i]
  <2>1. ~ (i <= k)
    BY <1>1, <1>2, <1>5
  <2>2. i - k \in 1 .. Len(q) - k /\ k + (i - k) = i
    BY <1>1, <1>2, <2>1
  <2> QED  BY <1>3, <2>2
<1>6. ASSUME NEW x \in ItemsOf(Drop(q, k))  PROVE x \in {s \in ItemsOf(q) : s > t}
  <2>1. PICK i \in 1 .. Len(q) - k : x = Drop(q, k)[i]
    BY <1>3, <1>6 DEF ItemsOf
  <2> QED  BY <1>4, <2>1
<1>7. ASSUME NEW x \in ItemsOf(q), x > t  PROVE x \in ItemsOf(Drop(q, k))
  <2>1. PICK i \in 1 .. Len(q) : x = q[i]
    BY <1>7 DEF ItemsOf
  <2>2. PICK j \in 1 .. Len(q) - k : Drop(q, k)[j] = x
    BY <1>5, <1>7, <2>1
  <2> QED  BY <1>3, <2>2 DEF ItemsOf
<1>8. ItemsOf(Drop(q, k)) = {s \in ItemsOf(q) : s > t}
  BY <1>6, <1>7
<1> QED  BY <1>8 DEF k

\* Select leaves out nothing that is wanted.
LEMMA SelectItems ==
  ASSUME NEW S, NEW q \in Seq(S), NEW T
  PROVE  /\ Select(q, T) \in Seq(S)
         /\ \A x : x \in ItemsOf(Select(q, T)) <=> x \in ItemsOf(q) /\ x \in T
<1>1. PICK taken :
         /\ Select(q, T) = taken[Len(q)] /\ taken[0] = <<>>
         /\ \A i \in 1 .. Len(q) :
              taken[i] = IF q[i] \in T THEN Append(taken[i - 1], q[i]) ELSE taken[i - 1]
  BY SelectSteps
<1>2. Len(q) \in Nat /\ \A i \in 1 .. Len(q) : q[i] \in S
  OBVIOUS
<1> DEFINE Holds(n) == /\ taken[n] \in Seq(S)
                       /\ \A x : (\E i \in 1 .. Len(taken[n]) : taken[n][i] = x)
                                  <=> (\E i \in 1 .. n : q[i] = x) /\ x \in T
           Good == {n \in Nat : n <= Len(q) => Holds(n)}
<1>3. 0 \in Good
  <2>1. taken[0] = <<>> /\ <<>> \in Seq(S) /\ Len(<<>>) = 0 /\ 1 .. 0 = {}
    BY <1>1
  <2> QED  BY <2>1
<1>4. ASSUME NEW n \in Nat, n \in Good  PROVE n + 1 \in Good
  <2> SUFFICES ASSUME n + 1 <= Len(q)  PROVE Holds(n + 1)
    OBVIOUS
  <2> DEFINE r == taken[n]
             y == q[n + 1]
  <2>1. r \in Seq(S) /\ \A x : (\E i \in 1 .. Len(r) : r[i] = x)
                                  <=> (\E i \in 1 .. n : q[i] = x) /\ x \in T
    BY <1>2, <1>4
  <2>2. n + 1 \in 1 .. Len(q) /\ (n + 1) - 1 = n
    BY <1>2
  <2>3. taken[n + 1] = (IF y \in T THEN Append(r, y) ELSE r) /\ y \in S
    BY <1>1, <1>2, <2>2
  <2>4. \A x : (\E i \in 1 .. n + 1 : q[i] = x) <=> (\E i \in 1 .. n : q[i] = x) \/ x = y
    <3>1. \A i : i \in 1 .. n + 1 <=> i \in 1 .. n \/ i = n + 1
      OBVIOUS
    <3> QED  BY <3>1
  <2> HIDE DEF r, y
  <2>5. CASE y \in T
    <3>1. taken[n + 1] = Append(r, y)
      BY <2>3, <2>5
    <3>2. /\ Append(r, y) \in Seq(S) /\ Len(Append(r, y)) = Len(r) + 1 /\ Len(r) \in Nat
          /\ \A i \in 1 .. Len(r) : Append(r, y)[i] = r[i]
          /\ Append(r, y)[Len(r) + 1] = y
      BY <2>1, <2>3, AppendProperties
    <3>3. \A i : i \in 1 .. Len(r) + 1 <=> i \in 1 .. Len(r) \/ i = Len(r) + 1
      BY <3>2
    <3>4. \A x : (\E i \in 1 .. Len(r) + 1 : Append(r, y)[i] = x)
                     <=> (\E i \in 1 .. Len(r) : r[i] = x) \/ x = y
      BY <3>2, <3>3
    <3>5. taken[n + 1] \in Seq(S)
      BY <3>1, <3>2
    <3>6. \A x : (\E i \in 1 .. Len(taken[n + 1]) : taken[n + 1][i] = x)
                     <=> (\E i \in 1 .. Len(r) : r[i] = x) \/ x = y
      BY <3>1, <3>2, <3>4
    <3>7. \A x : (\E i \in 1 .. n + 1 : q[i] = x) /\ x \in T
                     <=> ((\E i \in 1 .. n : q[i] = x) /\ x \in T) \/ x = y
      BY <2>4, <2>5
    <3> QED  BY <2>1, <3>5, <3>6, <3>7
  <2>6. CASE y \notin T
    <3>1. taken[n + 1] = r
      BY <2>3, <2>6
    <3> QED  BY <2>1, <2>4, <2>6, <3>1
  <2> QED  BY <2>5, <2>6
<1> HIDE DEF Good
<1>5. Len(q) \in Good
  BY <1>2, <1>3, <1>4, SetInduction
<1>6. Holds(Len(q))
  BY <1>2, <1>5 DEF Good
<1> DEFINE r == Select(q, T)
<1>7. /\ r \in Seq(S)
      /\ \A x : (\E i \in 1 .. Len(r) : r[i] = x)
                 <=> (\E i \in 1 .. Len(q) : q[i] = x) /\ x \in T
  BY <1>1, <1>6
<1> HIDE DEF r
<1>8. \A x : x \in ItemsOf(r) <=> (\E i \in 1 .. Len(r) : r[i] = x)
  BY DEF ItemsOf
<1>9. \A x : x \in ItemsOf(q) <=> (\E i \in 1 .. Len(q) : q[i] = x)
  BY DEF ItemsOf
<1>10. r \in Seq(S) /\ \A x : x \in ItemsOf(r) <=> x \in ItemsOf(q) /\ x \in T
  BY <1>7, <1>8, <1>9
<1> QED  BY <1>10 DEF r

\* A loop that pops the front and takes what is after b misses nothing.
LEMMA TakenIs ==
  ASSUME NEW q \in Seq(Int), NEW t \in Int, NEW W,
         \A i, j \in 1 .. Len(q) : i < j => q[i] <= q[j]
  PROVE  ItemsOf(Select(SubSeq(q, 1, FrontUpTo(q, t)), W)) = {s \in ItemsOf(q) : s <= t /\ s \in W}
<1> DEFINE k == FrontUpTo(q, t)
           head == SubSeq(q, 1, k)
<1>1. k \in 0 .. Len(q) /\ \A i \in 1 .. Len(q) : i <= k <=> q[i] <= t
  BY FrontIs
<1>2. Len(q) \in Nat /\ \A i \in 1 .. Len(q) : q[i] \in Int
  BY LenProperties
<1> HIDE DEF k
<1>3. head \in Seq(Int) /\ Len(head) = k /\ \A i \in 1 .. k : i \in 1 .. Len(q) /\ head[i] = q[i]
  BY <1>1, <1>2
<1> HIDE DEF head
<1>4. \A x : x \in ItemsOf(Select(head, W)) <=> x \in ItemsOf(head) /\ x \in W
  BY <1>3, SelectItems
<1>5. ASSUME NEW i \in 1 .. k  PROVE head[i] \in ItemsOf(q) /\ head[i] <= t
  BY <1>1, <1>2, <1>3 DEF ItemsOf
<1>6. ASSUME NEW i \in 1 .. Len(q), q[i] <= t  PROVE q[i] \in ItemsOf(head)
  <2>1. i \in 1 .. k /\ head[i] = q[i]
    BY <1>1, <1>2, <1>3, <1>6
  <2> QED  BY <1>3, <2>1 DEF ItemsOf
<1>7. ItemsOf(head) = {s \in ItemsOf(q) : s <= t}
  <2>1. ASSUME NEW x \in ItemsOf(head)  PROVE x \in ItemsOf(q) /\ x <= t
    <3>1. PICK i \in 1 .. k : x = head[i]
      BY <1>3, <2>1 DEF ItemsOf
    <3> QED  BY <1>5, <3>1
  <2>2. ASSUME NEW x \in ItemsOf(q), x <= t  PROVE x \in ItemsOf(head)
    <3>1. PICK i \in 1 .. Len(q) : x = q[i]
      BY <2>2 DEF ItemsOf
    <3> QED  BY <1>6, <2>2, <3>1
  <2> QED  BY <2>1, <2>2
<1> QED  BY <1>4, <1>7 DEF head, k


-----------------------------------------------------------------------------
(* The invariant of the whole front end, when scans come in order. *)

RawScan == [h : ScanStarts, n : 1 .. ScanLen]

\* The header times are those of the clouds, and ascend.
QueuesInOrder(raw, hdr, top) ==
  /\ raw \in Seq(RawScan) /\ hdr \in Seq(ScanStarts) /\ Len(hdr) = Len(raw)
  /\ \A i \in 1 .. Len(raw) : raw[i].h = hdr[i] /\ hdr[i] <= top
  /\ \A i, j \in 1 .. Len(raw) : i < j => hdr[i] < hdr[j]

ScansInv ==
  /\ QueuesInOrder(lid_raw_data_buffer, lid_header_time_buffer, last_timestamp_lidar)
  /\ last_timestamp_lidar \in {-1} \cup ScanStarts
  /\ loop_backs = 0

\* The latched scan is still at the front of both buffers.
FrontScan(raw, hdr) == [h |-> Head(raw).h, n |-> Head(raw).n, header |-> Head(hdr)]
LatchInv ==
  lidar_pushed => /\ slam_mode = "ONLY_LIO" /\ lid_raw_data_buffer # <<>>
                  /\ lidar = FrontScan(lid_raw_data_buffer, lid_header_time_buffer)

NewestInv == imu_buffer # <<>> => Back(imu_buffer) = last_timestamp_imu

\* The images ascend, and those whose turn has not come are later than the last cut.
ImagesUpTo(q, t) ==
  /\ \A i \in 1 .. Len(q) : q[i] <= t
  /\ \A i, j \in 1 .. Len(q) : i < j => q[i] < q[j]
ImagesInv ==
  /\ last_timestamp_img \in {-1} \cup Times /\ ImagesUpTo(img_time_buffer, last_timestamp_img)
  /\ slam_mode = "LIVO" =>
       /\ pkg.end <= last_timestamp_img
       /\ lio_vio_flg # "LIO" => \A i \in 1 .. Len(img_time_buffer) : pkg.end < img_time_buffer[i]

\* The time of the estimator is set with the first scan at the front, and at the last
\* cut once the filter has started.
CutsInv ==
  /\ slam_mode \in Modes
  /\ pkg.end \in {-1} \cup Times /\ last_lio_update_time \in {-1} \cup Times
  /\ pkg.end # -1 =>
       /\ last_timestamp_lidar # -1 /\ pkg.end < last_timestamp_lidar + ScanLen
       /\ last_lio_update_time # -1 /\ last_lio_update_time <= pkg.end
  /\ pkg.end = -1 /\ last_lio_update_time # -1 =>
       lid_raw_data_buffer # <<>> /\ last_lio_update_time = Head(lid_header_time_buffer)
  /\ slam_mode = "LIVO" /\ ~imu_need_init /\ lio_vio_flg # "LIO" =>
       pkg.end # -1 /\ last_lio_update_time = pkg.end
  /\ slam_mode = "ONLY_LIO" =>
       \A i \in 1 .. Len(lid_header_time_buffer) : pkg.end < lid_header_time_buffer[i]

\* Left-over points are counted from the last cut, and are older than every scan that
\* waits or can still come.
Leftover(left, end, hdr, top) ==
  \A p \in left :
    /\ p.t \in Int /\ p.c \in Int /\ p.t = end + p.c
    /\ end <= p.t /\ p.t < end + ScanLen /\ p.t < top + ScanLen
    /\ \A i \in 1 .. Len(hdr) : p.t < hdr[i]
LeftInv ==
  pcl_proc_next # {} =>
    /\ slam_mode = "LIVO" /\ pkg.end # -1
    /\ Leftover(pcl_proc_next, pkg.end, lid_header_time_buffer, last_timestamp_lidar)

FrontInv == ScansInv /\ LatchInv /\ NewestInv /\ ImagesInv /\ CutsInv /\ LeftInv

LEMMA Constants ==
  /\ ScanStarts \subseteq Nat /\ ScanLen \in Nat \ {0} /\ ImgGap \in Nat \ {0} /\ MaxTime \in Nat
  /\ \A h \in ScanStarts : h \in Times /\ h \in Nat /\ h >= 1 /\ h + ScanLen - 1 \in Times
  /\ \A g, h \in ScanStarts : g < h => g + ScanLen <= h
  /\ \A t \in Times : t \in Nat /\ t >= 1
BY SyncAssumption DEF Times

LEMMA TailIsDrop == ASSUME NEW S, NEW q \in Seq(S), q # <<>>  PROVE Tail(q) = Drop(q, 1) /\ 1 \in 0 .. Len(q)
<1>1. Len(q) \in Nat /\ Len(q) # 0
  BY EmptySeq
<1>2. Tail(q) = SubSeq(q, 2, Len(q))
  BY <1>1
<1> QED  BY <1>1, <1>2 DEF Drop

LEMMA HeadIs == ASSUME NEW S, NEW q \in Seq(S), q # <<>>  PROVE Head(q) = q[1] /\ 1 \in 1 .. Len(q) /\ Len(q) \in 1 .. Len(q)
<1>1. Len(q) \in Nat /\ Len(q) # 0
  BY EmptySeq
<1> QED  BY <1>1

LEMMA InOrderAppend ==
  ASSUME NEW raw, NEW hdr, NEW top \in {-1} \cup ScanStarts, QueuesInOrder(raw, hdr, top),
         NEW h \in ScanStarts, NEW n \in 1 .. ScanLen, h > top
  PROVE  QueuesInOrder(Append(raw, [h |-> h, n |-> n]), Append(hdr, h), h)
<1> DEFINE new == [h |-> h, n |-> n]
<1>1. /\ raw \in Seq(RawScan) /\ hdr \in Seq(ScanStarts) /\ Len(hdr) = Len(raw) /\ Len(raw) \in Nat
      /\ new \in RawScan /\ new.h = h
  BY DEF QueuesInOrder, RawScan
<1> HIDE DEF new
<1>2. /\ Append(raw, new) \in Seq(RawScan) /\ Len(Append(raw, new)) = Len(raw) + 1
      /\ \A i \in 1 .. Len(raw) : Append(raw, new)[i] = raw[i]
      /\ Append(raw, new)[Len(raw) + 1] = new
  BY <1>1, AppendProperties
<1>3. /\ Append(hdr, h) \in Seq(ScanStarts) /\ Len(Append(hdr, h)) = Len(raw) + 1
      /\ \A i \in 1 .. Len(raw) : Append(hdr, h)[i] = hdr[i]
      /\ Append(hdr, h)[Len(raw) + 1] = h
  BY <1>1, AppendProperties
<1>4. \A i \in 1 .. Len(raw) + 1 : i \in 1 .. Len(raw) \/ i = Len(raw) + 1
  BY <1>1
<1>5. \A i \in 1 .. Len(raw) : raw[i].h = hdr[i] /\ hdr[i] < h /\ hdr[i] \in ScanStarts
  <2>1. \A i \in 1 .. Len(raw) : hdr[i] \in ScanStarts /\ hdr[i] <= top /\ raw[i].h = hdr[i]
    BY <1>1 DEF QueuesInOrder
  <2>2. h \in Int /\ \A i \in 1 .. Len(raw) : hdr[i] \in Int
    <3>1. \A g \in ScanStarts : g \in Int
      BY Constants
    <3> QED  BY <2>1, <3>1
  <2>3. top \in Int
    <3>1. CASE top = -1
      BY <3>1
    <3>2. CASE top \in ScanStarts
      BY <3>2, Constants
    <3> QED  BY <3>1, <3>2
  <2> QED  BY <2>1, <2>2, <2>3
<1>6. ASSUME NEW i \in 1 .. Len(raw) + 1
      PROVE  Append(raw, new)[i].h = Append(hdr, h)[i] /\ Append(hdr, h)[i] <= h
  <2>1. CASE i \in 1 .. Len(raw)
    <3>1. hdr[i] \in Nat /\ h \in Nat
      BY <1>5, <2>1, Constants
    <3> QED  BY <1>2, <1>3, <1>5, <2>1, <3>1
  <2>2. CASE i = Len(raw) + 1
    BY <1>1, <1>2, <1>3, <2>2, Constants
  <2> QED  BY <1>4, <2>1, <2>2
<1>7. ASSUME NEW i \in 1 .. Len(raw) + 1, NEW j \in 1 .. Len(raw) + 1, i < j
      PROVE  Append(hdr, h)[i] < Append(hdr, h)[j]
  <2>1. i \in 1 .. Len(raw)
    BY <1>1, <1>7
  <2>2. CASE j \in 1 .. Len(raw)
    BY <1>3, <1>7, <2>1, <2>2 DEF QueuesInOrder
  <2>3. CASE j = Len(raw) + 1
    BY <1>3, <1>5, <2>1, <2>3
  <2> QED  BY <1>4, <2>2, <2>3
<1> QED  BY <1>2, <1>3, <1>6, <1>7 DEF QueuesInOrder, new

LEMMA InOrderDrop ==
  ASSUME NEW raw, NEW hdr, NEW top, QueuesInOrder(raw, hdr, top), NEW k \in 0 .. Len(raw)
  PROVE  QueuesInOrder(Drop(raw, k), Drop(hdr, k), top)
<1>1. /\ raw \in Seq(RawScan) /\ hdr \in Seq(ScanStarts) /\ Len(hdr) = Len(raw) /\ Len(raw) \in Nat
      /\ k \in 0 .. Len(hdr)
  BY DEF QueuesInOrder
<1>2. /\ Drop(raw, k) \in Seq(RawScan) /\ Len(Drop(raw, k)) = Len(raw) - k
      /\ \A i \in 1 .. Len(raw) - k : k + i \in 1 .. Len(raw) /\ Drop(raw, k)[i] = raw[k + i]
  BY <1>1, DropIs
<1>3. /\ Drop(hdr, k) \in Seq(ScanStarts) /\ Len(Drop(hdr, k)) = Len(raw) - k
      /\ \A i \in 1 .. Len(raw) - k : k + i \in 1 .. Len(raw) /\ Drop(hdr, k)[i] = hdr[k + i]
  <2>1. /\ Drop(hdr, k) \in Seq(ScanStarts) /\ Len(Drop(hdr, k)) = Len(hdr) - k
        /\ \A i \in 1 .. Len(hdr) - k : k + i \in 1 .. Len(hdr) /\ Drop(hdr, k)[i] = hdr[k + i]
    BY <1>1, DropIs
  <2> QED  BY <1>1, <2>1
<1>4. \A i, j \in 1 .. Len(raw) - k : i < j => k + i < k + j
  BY <1>1
<1>5. \A i \in 1 .. Len(raw) - k : Drop(raw, k)[i].h = Drop(hdr, k)[i] /\ Drop(hdr, k)[i] <= top
  BY <1>2, <1>3 DEF QueuesInOrder
<1>6. \A i, j \in 1 .. Len(raw) - k : i < j => Drop(hdr, k)[i] < Drop(hdr, k)[j]
  BY <1>3, <1>4 DEF QueuesInOrder
<1> QED  BY <1>2, <1>3, <1>5, <1>6 DEF QueuesInOrder

LEMMA ImagesAppend ==
  ASSUME NEW q \in Seq(Times), NEW t \in {-1} \cup Times, ImagesUpTo(q, t), NEW s \in Times, s > t
  PROVE  ImagesUpTo(Append(q, s), s)
<1>1. /\ Len(Append(q, s)) = Len(q) + 1 /\ Len(q) \in Nat
      /\ \A i \in 1 .. Len(q) : Append(q, s)[i] = q[i]
      /\ Append(q, s)[Len(q) + 1] = s
  BY AppendProperties, LenProperties
<1>2. \A i \in 1 .. Len(q) : q[i] \in Times /\ q[i] <= t
  BY DEF ImagesUpTo
<1>3. \A i \in 1 .. Len(q) : q[i] < s
  BY <1>2, Constants
<1>4. \A i \in 1 .. Len(q) + 1 : i \in 1 .. Len(q) \/ i = Len(q) + 1
  BY <1>1
<1>5. ASSUME NEW i \in 1 .. Len(q) + 1  PROVE Append(q, s)[i] <= s
  <2>1. CASE i \in 1 .. Len(q)
    BY <1>1, <1>2, <1>3, <2>1, Constants
  <2>2. CASE i = Len(q) + 1
    BY <1>1, <2>2, Constants
  <2> QED  BY <1>4, <2>1, <2>2
<1>6. ASSUME NEW i \in 1 .. Len(q) + 1, NEW j \in 1 .. Len(q) + 1, i < j
      PROVE  Append(q, s)[i] < Append(q, s)[j]
  <2>1. i \in 1 .. Len(q)
    BY <1>1, <1>6
  <2>2. CASE j \in 1 .. Len(q)
    BY <1>1, <1>6, <2>1, <2>2 DEF ImagesUpTo
  <2>3. CASE j = Len(q) + 1
    BY <1>1, <1>3, <2>1, <2>3
  <2> QED  BY <1>4, <2>2, <2>3
<1> QED  BY <1>1, <1>5, <1>6 DEF ImagesUpTo

\* The images behind the first one are later than it.
LEMMA ImagesTail ==
  ASSUME NEW q \in Seq(Times), q # <<>>, NEW t, ImagesUpTo(q, t)
  PROVE  /\ ImagesUpTo(Tail(q), t) /\ Tail(q) \in Seq(Times)
         /\ \A i \in 1 .. Len(Tail(q)) : Head(q) < Tail(q)[i]
         /\ \A i \in 1 .. Len(Tail(q)) : i + 1 \in 1 .. Len(q) /\ Tail(q)[i] = q[i + 1]
<1>1. /\ Tail(q) \in Seq(Times) /\ Len(Tail(q)) = Len(q) - 1
      /\ \A i \in 1 .. Len(q) - 1 : 1 + i \in 1 .. Len(q) /\ Tail(q)[i] = q[1 + i]
  BY TailIsDrop, DropIs
<1>2. Head(q) = q[1] /\ 1 \in 1 .. Len(q) /\ Len(q) \in Nat
  BY HeadIs
<1>3. \A i, j \in 1 .. Len(q) - 1 : i < j => 1 + i < 1 + j
  BY <1>2
<1>4. \A i \in 1 .. Len(q) - 1 : 1 < 1 + i /\ i + 1 = 1 + i
  BY <1>2
<1>5. \A i \in 1 .. Len(q) - 1 : Tail(q)[i] <= t /\ Head(q) < Tail(q)[i] /\ i + 1 \in 1 .. Len(q) /\ Tail(q)[i] = q[i + 1]
  BY <1>1, <1>2, <1>4 DEF ImagesUpTo
<1>6. \A i, j \in 1 .. Len(q) - 1 : i < j => Tail(q)[i] < Tail(q)[j]
  BY <1>1, <1>3 DEF ImagesUpTo
<1> QED  BY <1>1, <1>5, <1>6 DEF ImagesUpTo

LEMMA LeftoverReceives ==
  ASSUME NEW left, NEW end \in Int, NEW hdr \in Seq(ScanStarts), NEW top \in ScanStarts, NEW h \in ScanStarts,
         h > top, Leftover(left, end, hdr, top)
  PROVE  Leftover(left, end, Append(hdr, h), h)
<1>1. top + ScanLen <= h /\ top \in Nat /\ h \in Nat /\ ScanLen \in Nat
  BY Constants
<1>2. /\ Len(Append(hdr, h)) = Len(hdr) + 1 /\ Len(hdr) \in Nat
      /\ \A i \in 1 .. Len(hdr) : Append(hdr, h)[i] = hdr[i]
      /\ Append(hdr, h)[Len(hdr) + 1] = h
  BY AppendProperties, LenProperties
<1>3. ASSUME NEW p \in left, NEW i \in 1 .. Len(hdr) + 1  PROVE p.t < Append(hdr, h)[i]
  <2>1. p.t \in Int /\ p.t < top + ScanLen /\ \A j \in 1 .. Len(hdr) : p.t < hdr[j]
    BY DEF Leftover
  <2>2. CASE i \in 1 .. Len(hdr)
    BY <1>2, <2>1, <2>2
  <2>3. CASE i = Len(hdr) + 1
    BY <1>1, <1>2, <2>1, <2>3
  <2> QED  BY <1>2, <2>2, <2>3
<1>4. \A p \in left : p.t \in Int /\ p.c \in Int /\ p.t = end + p.c /\ end <= p.t /\ p.t < end + ScanLen /\ p.t < h + ScanLen
  <2>1. \A p \in left : p.t \in Int /\ p.c \in Int /\ p.t = end + p.c /\ end <= p.t /\ p.t < end + ScanLen /\ p.t < top + ScanLen
    BY DEF Leftover
  <2> QED  BY <1>1, <2>1
<1> QED  BY <1>2, <1>3, <1>4 DEF Leftover

LEMMA AppendHead ==
  ASSUME NEW S, NEW q \in Seq(S), NEW e \in S
  PROVE  Append(q, e) # <<>> /\ (q # <<>> => Head(Append(q, e)) = Head(q))
<1>1. /\ Append(q, e) \in Seq(S) /\ Len(Append(q, e)) = Len(q) + 1 /\ Len(q) \in Nat
      /\ \A i \in 1 .. Len(q) : Append(q, e)[i] = q[i]
  BY AppendProperties, LenProperties
<1> DEFINE r == Append(q, e)
<1> HIDE DEF r
<1>2. r # <<>>
  BY <1>1, EmptySeq DEF r
<1>3. ASSUME q # <<>>  PROVE Head(r) = Head(q)
  <2>1. Head(q) = q[1] /\ 1 \in 1 .. Len(q)
    BY <1>3, HeadIs
  <2>2. Head(r) = r[1]
    <3>1. r \in Seq(S)
      BY <1>1 DEF r
    <3> QED  BY <1>2, <3>1, HeadIs
  <2>3. r[1] = q[1]
    BY <1>1, <2>1 DEF r
  <2> QED  BY <2>1, <2>2, <2>3
<1> QED  BY <1>2, <1>3 DEF r

LEMMA Known ==
  ASSUME SInv, FrontInv
  PROVE  /\ lid_raw_data_buffer \in Seq(RawScan) /\ lid_header_time_buffer \in Seq(ScanStarts)
         /\ Len(lid_header_time_buffer) = Len(lid_raw_data_buffer) /\ Len(lid_raw_data_buffer) \in Nat
         /\ lid_raw_data_buffer # <<>> <=> lid_header_time_buffer # <<>>
         /\ last_timestamp_lidar \in Int /\ last_timestamp_img \in Int /\ last_timestamp_imu \in Int
         /\ pkg.end \in Int /\ last_lio_update_time \in Int
         /\ pkg.end # -1 => pkg.end \in Times /\ pkg.end >= 1
         /\ last_lio_update_time # -1 => last_lio_update_time \in Times /\ last_lio_update_time >= 1
         /\ last_timestamp_lidar # -1 => last_timestamp_lidar \in ScanStarts
         /\ slam_mode \in {"LIVO", "ONLY_LIO"}
<1>1. /\ lid_raw_data_buffer \in Seq(RawScan) /\ lid_header_time_buffer \in Seq(ScanStarts)
      /\ Len(lid_header_time_buffer) = Len(lid_raw_data_buffer) /\ Len(lid_raw_data_buffer) \in Nat
  BY LenProperties DEF FrontInv, ScansInv, QueuesInOrder
<1>2. lid_raw_data_buffer # <<>> <=> lid_header_time_buffer # <<>>
  <2>1. lid_raw_data_buffer = <<>> <=> Len(lid_raw_data_buffer) = 0
    BY <1>1, EmptySeq
  <2>2. lid_header_time_buffer = <<>> <=> Len(lid_header_time_buffer) = 0
    BY <1>1, EmptySeq
  <2> QED  BY <1>1, <2>1, <2>2
<1>3. \A t \in {-1} \cup Times : t \in Int /\ (t # -1 => t \in Times /\ t >= 1)
  BY Constants
<1>4. \A t \in {-1} \cup ScanStarts : t \in Int /\ (t # -1 => t \in ScanStarts)
  BY Constants
<1>5. /\ last_timestamp_img \in {-1} \cup Times /\ last_timestamp_imu \in {-1} \cup Times
      /\ pkg.end \in {-1} \cup Times /\ last_lio_update_time \in {-1} \cup Times
      /\ last_timestamp_lidar \in {-1} \cup ScanStarts /\ slam_mode \in Modes
  BY DEF SInv, FrontInv, ScansInv, ImagesInv, CutsInv
<1>6. slam_mode \in {"LIVO", "ONLY_LIO"}
  BY <1>5, SyncAssumption
<1> QED  BY <1>1, <1>2, <1>3, <1>4, <1>5, <1>6

LEMMA FrontInit == Init => FrontInv
<1> SUFFICES ASSUME Init  PROVE FrontInv
  OBVIOUS
<1>1. \A S : <<>> \in Seq(S) /\ Len(<<>>) = 0 /\ 1 .. Len(<<>>) = {}
  OBVIOUS
<1>2. ScansInv
  BY <1>1 DEF Init, ScansInv, QueuesInOrder
<1>3. LatchInv /\ NewestInv /\ LeftInv
  BY DEF Init, LatchInv, NewestInv, LeftInv
<1>4. ImagesInv
  BY <1>1 DEF Init, ImagesInv, ImagesUpTo
<1>5. CutsInv
  BY <1>1 DEF Init, CutsInv
<1> QED  BY <1>2, <1>3, <1>4, <1>5 DEF FrontInv

LEMMA LidarKeepsFront ==
  ASSUME SInv, FrontInv, MaxLoopBacks = 0,
         NEW h \in ScanStarts, NEW n \in 0 .. ScanLen, LivoxPclCbk(h, n)
  PROVE  FrontInv'
<1>1. UNCHANGED <<slam_mode, imu_buffer, last_timestamp_imu, img_time_buffer, last_timestamp_img,
                  lidar_pushed, lidar, lio_vio_flg, last_lio_update_time, pcl_proc_next, imu_need_init, pkg>>
  BY DEF LivoxPclCbk, imuVars, imgVars, syncVars
<1>2. loop_backs = 0
  BY DEF FrontInv, ScansInv
<1>3. ~ (h < last_timestamp_lidar) /\ h > last_timestamp_lidar /\ loop_backs' = loop_backs
  BY <1>2 DEF LivoxPclCbk
<1>4. h \in Nat /\ h >= 1 /\ ScanLen \in Nat /\ ScanLen >= 1
  BY Constants
<1>5. CASE n = 0
  <2>1. UNCHANGED <<lid_raw_data_buffer, lid_header_time_buffer, last_timestamp_lidar>>
    BY <1>3, <1>5 DEF LivoxPclCbk
  <2> QED  BY <1>1, <1>3, <2>1 DEF FrontInv, ScansInv, LatchInv, NewestInv, ImagesInv, CutsInv, LeftInv
<1>6. CASE n # 0
  <2>1. /\ lid_raw_data_buffer' = Append(lid_raw_data_buffer, [h |-> h, n |-> n])
        /\ lid_header_time_buffer' = Append(lid_header_time_buffer, h) /\ last_timestamp_lidar' = h
    BY <1>3, <1>6 DEF LivoxPclCbk
  <2>2. n \in 1 .. ScanLen /\ [h |-> h, n |-> n] \in RawScan
    BY <1>4, <1>6 DEF RawScan
  <2>3. pkg.end # -1 => pkg.end < h
    <3>1. ASSUME pkg.end # -1  PROVE pkg.end < h
      <4>1. /\ last_timestamp_lidar \in ScanStarts /\ pkg.end < last_timestamp_lidar + ScanLen
            /\ pkg.end \in Int
        BY <3>1, Known DEF FrontInv, CutsInv
      <4>2. last_timestamp_lidar + ScanLen <= h /\ last_timestamp_lidar \in Nat
        BY <1>3, <4>1, Constants
      <4> QED  BY <1>4, <4>1, <4>2
    <3> QED  BY <3>1
  <2>4. pkg.end < h /\ pkg.end \in Int
    BY <1>4, <2>3, Known
  <2>5. ScansInv'
    <3>1. QueuesInOrder(lid_raw_data_buffer, lid_header_time_buffer, last_timestamp_lidar)
          /\ last_timestamp_lidar \in {-1} \cup ScanStarts
      BY DEF FrontInv, ScansInv
    <3>2. QueuesInOrder(lid_raw_data_buffer', lid_header_time_buffer', last_timestamp_lidar')
      BY <1>3, <2>1, <2>2, <3>1, InOrderAppend
    <3> QED  BY <1>2, <1>3, <2>1, <3>2 DEF ScansInv
  <2>6. /\ lid_raw_data_buffer # <<>> =>
             /\ Head(lid_raw_data_buffer') = Head(lid_raw_data_buffer)
             /\ Head(lid_header_time_buffer') = Head(lid_header_time_buffer)
        /\ lid_raw_data_buffer' # <<>>
    BY <2>1, <2>2, Known, AppendHead
  <2>7. LatchInv'
    BY <1>1, <2>6 DEF FrontInv, LatchInv, FrontScan
  <2>8. NewestInv' /\ ImagesInv'
    BY <1>1 DEF FrontInv, NewestInv, ImagesInv
  <2>9. CutsInv'
    <3>1. pkg.end # -1 => h # -1 /\ pkg.end < h + ScanLen
      BY <1>4, <2>4
    <3>2. pkg.end = -1 /\ last_lio_update_time # -1 =>
            lid_raw_data_buffer' # <<>> /\ last_lio_update_time = Head(lid_header_time_buffer')
      BY <2>6 DEF FrontInv, CutsInv
    <3>3. slam_mode = "ONLY_LIO" =>
            \A i \in 1 .. Len(lid_header_time_buffer') : pkg.end < lid_header_time_buffer'[i]
      <4>1. /\ Len(lid_header_time_buffer') = Len(lid_header_time_buffer) + 1
            /\ \A i \in 1 .. Len(lid_header_time_buffer) : lid_header_time_buffer'[i] = lid_header_time_buffer[i]
            /\ lid_header_time_buffer'[Len(lid_header_time_buffer) + 1] = h
        BY <2>1, Known, AppendProperties
      <4>2. \A i \in 1 .. Len(lid_header_time_buffer) + 1 :
              i \in 1 .. Len(lid_header_time_buffer) \/ i = Len(lid_header_time_buffer) + 1
        BY Known
      <4>3. slam_mode = "ONLY_LIO" =>
              \A i \in 1 .. Len(lid_header_time_buffer) : pkg.end < lid_header_time_buffer[i]
        BY DEF FrontInv, CutsInv
      <4> QED  BY <2>4, <4>1, <4>2, <4>3
    <3> QED  BY <1>1, <2>1, <3>1, <3>2, <3>3 DEF FrontInv, CutsInv
  <2>10. LeftInv'
    <3>1. ASSUME pcl_proc_next # {}
          PROVE  Leftover(pcl_proc_next, pkg.end, lid_header_time_buffer', last_timestamp_lidar')
      <4>1. /\ pkg.end # -1
            /\ Leftover(pcl_proc_next, pkg.end, lid_header_time_buffer, last_timestamp_lidar)
        BY <3>1 DEF FrontInv, LeftInv
      <4>2. last_timestamp_lidar \in ScanStarts /\ lid_header_time_buffer \in Seq(ScanStarts)
        BY <4>1, Known DEF FrontInv, CutsInv
      <4> QED  BY <1>3, <2>1, <2>4, <4>1, <4>2, LeftoverReceives
    <3> QED  BY <1>1, <3>1 DEF FrontInv, LeftInv
  <2> QED  BY <2>5, <2>7, <2>8, <2>9, <2>10 DEF FrontInv
<1> QED  BY <1>5, <1>6

LEMMA ImuKeepsFront ==
  ASSUME SInv, FrontInv, NEW s \in Times, ImuCbk(s)
  PROVE  FrontInv'
<1>1. UNCHANGED <<slam_mode, lid_raw_data_buffer, lid_header_time_buffer, last_timestamp_lidar, loop_backs,
                  img_time_buffer, last_timestamp_img, lidar_pushed, lidar, lio_vio_flg,
                  last_lio_update_time, pcl_proc_next, imu_need_init, pkg>>
  BY DEF ImuCbk, lidarVars, imgVars, syncVars
<1>2. NewestInv'
  <2>1. ASSUME NEW t \in Int, NEW q \in Seq(Times), ImuAccept(t, q), t >= 1  PROVE NewestInv'
    <3>1. imu_buffer' = Append(q, t) /\ last_timestamp_imu' = t /\ t \in Times
      BY <2>1, TimesAreNat DEF ImuAccept, Times
    <3>2. Len(Append(q, t)) = Len(q) + 1 /\ Append(q, t)[Len(q) + 1] = t
      BY <3>1, AppendProperties
    <3> QED  BY <3>1, <3>2 DEF NewestInv, Back
  <2>2. s \in Int /\ s >= 1 /\ imu_buffer \in Seq(Times) /\ <<>> \in Seq(Times)
    BY Constants, EmptySeq DEF SInv
  <2>3. CASE ImuAccept(s, imu_buffer)
    BY <2>1, <2>2, <2>3
  <2>4. CASE last_timestamp_imu > 0 /\ ImuAccept(last_timestamp_imu + 1, imu_buffer)
    <3>1. last_timestamp_imu + 1 \in Int /\ last_timestamp_imu + 1 >= 1
      BY <2>4, Known
    <3> QED  BY <2>1, <2>2, <2>4, <3>1
  <2>5. CASE ImuRestart(s)
    BY <2>1, <2>2, <2>5 DEF ImuRestart
  <2>6. CASE UNCHANGED <<imu_buffer, last_timestamp_imu>>
    BY <2>6 DEF FrontInv, NewestInv, Back
  <2> QED  BY <2>3, <2>4, <2>5, <2>6 DEF ImuCbk
<1>3. ScansInv' /\ LatchInv' /\ ImagesInv' /\ CutsInv' /\ LeftInv'
  BY <1>1 DEF FrontInv, ScansInv, LatchInv, ImagesInv, CutsInv, LeftInv
<1> QED  BY <1>2, <1>3 DEF FrontInv

LEMMA ImgKeepsFront ==
  ASSUME SInv, FrontInv, NEW s \in Times, ImgCbk(s)
  PROVE  FrontInv'
<1>1. /\ UNCHANGED <<slam_mode, lid_raw_data_buffer, lid_header_time_buffer, last_timestamp_lidar, loop_backs,
                  imu_buffer, last_timestamp_imu, lidar_pushed, lidar, lio_vio_flg,
                  last_lio_update_time, pcl_proc_next, imu_need_init, pkg>>
      /\ img_time_buffer' = Append(img_time_buffer, s) /\ last_timestamp_img' = s
      /\ s - last_timestamp_img >= ImgGap
  BY DEF ImgCbk, lidarVars, imuVars, syncVars
<1>2. /\ last_timestamp_img \in {-1} \cup Times /\ last_timestamp_img \in Int /\ img_time_buffer \in Seq(Times)
      /\ ImagesUpTo(img_time_buffer, last_timestamp_img) /\ s \in Nat
  BY Known, Constants DEF FrontInv, ImagesInv, SInv
<1>3. s > last_timestamp_img
  BY <1>1, <1>2, Constants
<1>4. ImagesInv'
  <2>1. ImagesUpTo(img_time_buffer', last_timestamp_img')
    BY <1>1, <1>2, <1>3, ImagesAppend
  <2>2. slam_mode = "LIVO" => pkg.end < s
    BY <1>2, <1>3, Known DEF FrontInv, ImagesInv
  <2>3. /\ Len(img_time_buffer') = Len(img_time_buffer) + 1 /\ Len(img_time_buffer) \in Nat
        /\ \A i \in 1 .. Len(img_time_buffer) : img_time_buffer'[i] = img_time_buffer[i]
        /\ img_time_buffer'[Len(img_time_buffer) + 1] = s
    BY <1>1, <1>2, AppendProperties, LenProperties
  <2>4. \A i \in 1 .. Len(img_time_buffer) + 1 : i \in 1 .. Len(img_time_buffer) \/ i = Len(img_time_buffer) + 1
    BY <2>3
  <2>5. slam_mode = "LIVO" /\ lio_vio_flg # "LIO" =>
          \A i \in 1 .. Len(img_time_buffer) : pkg.end < img_time_buffer[i]
    BY DEF FrontInv, ImagesInv
  <2>6. slam_mode = "LIVO" /\ lio_vio_flg # "LIO" =>
          \A i \in 1 .. Len(img_time_buffer') : pkg.end < img_time_buffer'[i]
    BY <2>2, <2>3, <2>4, <2>5
  <2>7. slam_mode = "LIVO" => pkg.end <= s
    BY <1>2, <2>2, Known
  <2> QED  BY <1>1, <2>1, <2>6, <2>7 DEF ImagesInv
<1>5. ScansInv' /\ LatchInv' /\ NewestInv' /\ CutsInv' /\ LeftInv'
  BY <1>1 DEF FrontInv, ScansInv, LatchInv, NewestInv, Back, CutsInv, LeftInv
<1> QED  BY <1>4, <1>5 DEF FrontInv

LEMMA BaseIs ==
  ASSUME SInv, FrontInv, lid_raw_data_buffer # <<>>
  PROVE  /\ Base \in Times /\ Base \in Nat /\ Base >= 1
         /\ pkg.end # -1 => Base = last_lio_update_time /\ Base <= pkg.end
         /\ pkg.end = -1 => Base = Head(lid_header_time_buffer)
         /\ last_lio_update_time # -1 => Base = last_lio_update_time
         /\ lid_header_time_buffer # <<>> /\ 1 \in 1 .. Len(lid_header_time_buffer)
         /\ Head(lid_header_time_buffer) = lid_header_time_buffer[1]
         /\ Head(lid_header_time_buffer) \in ScanStarts
<1>1. lid_header_time_buffer # <<>> /\ lid_header_time_buffer \in Seq(ScanStarts)
  BY Known
<1>2. /\ Head(lid_header_time_buffer) = lid_header_time_buffer[1] /\ 1 \in 1 .. Len(lid_header_time_buffer)
      /\ Head(lid_header_time_buffer) \in ScanStarts
  BY <1>1, HeadIs
<1>3. CASE last_lio_update_time = -1
  <2>1. Base = Head(lid_header_time_buffer) /\ pkg.end = -1
    BY <1>3 DEF Base, FrontInv, CutsInv
  <2> QED  BY <1>1, <1>2, <1>3, <2>1, Constants
<1>4. CASE last_lio_update_time # -1
  <2>1. Base = last_lio_update_time /\ last_lio_update_time \in Times
    BY <1>4, Known DEF Base
  <2>2. /\ pkg.end # -1 => last_lio_update_time <= pkg.end
        /\ pkg.end = -1 => last_lio_update_time = Head(lid_header_time_buffer)
    BY <1>4 DEF FrontInv, CutsInv
  <2> QED  BY <1>1, <1>2, <2>1, <2>2, Constants
<1> QED  BY <1>3, <1>4

LEMMA ThrowKeepsFront ==
  ASSUME SInv, FrontInv, ThrowImage
  PROVE  FrontInv'
<1>1. /\ UNCHANGED <<slam_mode, lid_raw_data_buffer, lid_header_time_buffer, last_timestamp_lidar, loop_backs,
                     imu_buffer, last_timestamp_imu, last_timestamp_img, lidar_pushed, lidar, lio_vio_flg,
                     pcl_proc_next, imu_need_init, pkg>>
      /\ img_time_buffer' = Tail(img_time_buffer) /\ last_lio_update_time' = Base
      /\ lid_raw_data_buffer # <<>> /\ img_time_buffer # <<>>
  BY DEF ThrowImage, Thrown, Ready, lidarVars, imuVars
<1>2. /\ img_time_buffer \in Seq(Times) /\ ImagesUpTo(img_time_buffer, last_timestamp_img)
  BY DEF SInv, FrontInv, ImagesInv
<1>3. /\ ImagesUpTo(Tail(img_time_buffer), last_timestamp_img)
      /\ \A i \in 1 .. Len(Tail(img_time_buffer)) :
           i + 1 \in 1 .. Len(img_time_buffer) /\ Tail(img_time_buffer)[i] = img_time_buffer[i + 1]
  BY <1>1, <1>2, ImagesTail
<1>4. ImagesInv'
  <2>1. slam_mode = "LIVO" /\ lio_vio_flg # "LIO" =>
          \A i \in 1 .. Len(img_time_buffer) : pkg.end < img_time_buffer[i]
    BY DEF FrontInv, ImagesInv
  <2>2. slam_mode = "LIVO" /\ lio_vio_flg # "LIO" =>
          \A i \in 1 .. Len(img_time_buffer') : pkg.end < img_time_buffer'[i]
    BY <1>1, <1>3, <2>1
  <2> QED  BY <1>1, <1>3, <2>2 DEF FrontInv, ImagesInv
<1>5. CutsInv'
  <2>1. /\ Base \in {-1} \cup Times /\ (pkg.end # -1 => Base # -1 /\ Base <= pkg.end)
        /\ (pkg.end = -1 => Base = Head(lid_header_time_buffer))
        /\ (last_lio_update_time # -1 => Base = last_lio_update_time)
    BY <1>1, BaseIs
  <2>2. slam_mode = "LIVO" /\ ~imu_need_init /\ lio_vio_flg # "LIO" => pkg.end # -1 /\ Base = pkg.end
    BY <2>1 DEF FrontInv, CutsInv
  <2> QED  BY <1>1, <2>1, <2>2 DEF FrontInv, CutsInv
<1>6. ScansInv' /\ LatchInv' /\ NewestInv' /\ LeftInv'
  BY <1>1 DEF FrontInv, ScansInv, LatchInv, NewestInv, Back, LeftInv
<1> QED  BY <1>4, <1>5, <1>6 DEF FrontInv

LEMMA InHandIs ==
  ASSUME SInv, FrontInv
  PROVE  InHand = FrontScan(lid_raw_data_buffer, lid_header_time_buffer)
BY DEF FrontInv, LatchInv, InHand, FrontScan

LEMMA WaitsKeepFront ==
  ASSUME SInv, FrontInv, SyncWaits
  PROVE  FrontInv'
<1>1. /\ UNCHANGED <<slam_mode, lid_raw_data_buffer, lid_header_time_buffer, last_timestamp_lidar, loop_backs,
                     imu_buffer, last_timestamp_imu, img_time_buffer, last_timestamp_img, lio_vio_flg,
                     pcl_proc_next, imu_need_init, pkg>>
      /\ last_lio_update_time' = Base /\ lid_raw_data_buffer # <<>>
  BY DEF SyncWaits, Ready, lidarVars, imuVars, imgVars
<1>2. CutsInv'
  <2>1. /\ Base \in {-1} \cup Times /\ (pkg.end # -1 => Base # -1 /\ Base <= pkg.end)
        /\ (pkg.end = -1 => Base = Head(lid_header_time_buffer))
        /\ (last_lio_update_time # -1 => Base = last_lio_update_time)
    BY <1>1, BaseIs
  <2>2. slam_mode = "LIVO" /\ ~imu_need_init /\ lio_vio_flg # "LIO" => pkg.end # -1 /\ Base = pkg.end
    BY <2>1 DEF FrontInv, CutsInv
  <2> QED  BY <1>1, <2>1, <2>2 DEF FrontInv, CutsInv
<1>3. LatchInv'
  <2>1. CASE slam_mode = "ONLY_LIO" /\ Usable
    <3>1. lidar' = InHand
      BY <2>1 DEF SyncWaits
    <3> QED  BY <1>1, <2>1, <3>1, InHandIs DEF LatchInv
  <2>2. CASE ~ (slam_mode = "ONLY_LIO" /\ Usable)
    <3>1. UNCHANGED <<lidar_pushed, lidar>>
      BY <2>2 DEF SyncWaits
    <3> QED  BY <1>1, <3>1 DEF FrontInv, LatchInv
  <2> QED  BY <2>1, <2>2
<1>4. ScansInv' /\ NewestInv' /\ ImagesInv' /\ LeftInv'
  BY <1>1 DEF FrontInv, ScansInv, ImagesInv, NewestInv, Back, LeftInv
<1> QED  BY <1>2, <1>3, <1>4 DEF FrontInv

LEMMA VioKeepsFront ==
  ASSUME SInv, FrontInv, CutVio
  PROVE  FrontInv'
<1>1. /\ UNCHANGED <<slam_mode, lid_raw_data_buffer, lid_header_time_buffer, last_timestamp_lidar, loop_backs,
                     imu_buffer, last_timestamp_imu, last_timestamp_img, lidar, pcl_proc_next>>
      /\ img_time_buffer' = Tail(img_time_buffer) /\ lidar_pushed' = FALSE
      /\ lid_raw_data_buffer # <<>> /\ img_time_buffer # <<>>
      /\ slam_mode = "LIVO" /\ lio_vio_flg = "LIO" /\ lio_vio_flg' # "LIO"
      /\ pkg'.end = Capture
  BY DEF CutVio, AfterVio, Ready, lidarVars, imuVars
<1>2. Capture = pkg.end /\ pkg'.end = pkg.end
  BY <1>1 DEF SInv, VioAtCut
<1>3. /\ img_time_buffer \in Seq(Times) /\ ImagesUpTo(img_time_buffer, last_timestamp_img)
  BY DEF SInv, FrontInv, ImagesInv
<1>4. pkg.end # -1 /\ pkg.end \in Times
  <2>1. Head(img_time_buffer) = img_time_buffer[1] /\ 1 \in 1 .. Len(img_time_buffer)
    BY <1>1, <1>3, HeadIs
  <2>2. Head(img_time_buffer) \in Times
    BY <1>3, <2>1
  <2> QED  BY <1>2, <2>2, Constants DEF Capture
<1>5. /\ ImagesUpTo(Tail(img_time_buffer), last_timestamp_img)
      /\ \A i \in 1 .. Len(Tail(img_time_buffer)) : Head(img_time_buffer) < Tail(img_time_buffer)[i]
  BY <1>1, <1>3, ImagesTail
<1>6. ImagesInv'
  <2>1. \A i \in 1 .. Len(img_time_buffer') : pkg'.end < img_time_buffer'[i]
    BY <1>1, <1>2, <1>5 DEF Capture
  <2> QED  BY <1>1, <1>2, <1>5, <2>1 DEF FrontInv, ImagesInv
<1>7. CutsInv'
  <2>1. Base = last_lio_update_time /\ Base <= pkg.end /\ Base # -1 /\ Base \in {-1} \cup Times
    BY <1>1, <1>4, BaseIs
  <2>2. /\ imu_need_init => last_lio_update_time' = Base /\ imu_need_init'
        /\ ~imu_need_init => last_lio_update_time' = pkg.end
    <3>1. ProcessImu([kind |-> "VIO", beg |-> last_lio_update_time, end |-> Capture,
                      points |-> {}, imu |-> {}], <<>>)
      BY DEF CutVio
    <3> QED  BY <1>2, <3>1 DEF ProcessImu
  <2>3. /\ last_lio_update_time' \in {-1} \cup Times /\ last_lio_update_time' # -1
        /\ last_lio_update_time' <= pkg.end
    <3>1. pkg.end <= pkg.end
      BY Known
    <3> QED  BY <1>4, <2>1, <2>2, <3>1
  <2>4. ~imu_need_init' => last_lio_update_time' = pkg.end
    BY <2>2
  <2> QED  BY <1>1, <1>2, <1>4, <2>3, <2>4 DEF FrontInv, CutsInv
<1>8. LeftInv'
  BY <1>1, <1>2 DEF FrontInv, LeftInv
<1>9. ScansInv' /\ LatchInv' /\ NewestInv'
  BY <1>1 DEF FrontInv, ScansInv, LatchInv, NewestInv, Back
<1> QED  BY <1>6, <1>7, <1>8, <1>9 DEF FrontInv

-----------------------------------------------------------------------------
(* A cut of the scans. *)

\* The true times of a waiting scan.
TimesOf(i) == {lid_raw_data_buffer[i].h + o : o \in 0 .. lid_raw_data_buffer[i].n - 1}

ScansUpTo(t) == FrontUpTo(lid_header_time_buffer, t)
PointsUpTo(k, base) == UNION {PointsOf(i, base) : i \in 1 .. k}

LEMMA ScanPoint ==
  ASSUME SInv, FrontInv, NEW i \in 1 .. Len(lid_raw_data_buffer), NEW base \in Int
  PROVE  /\ \A p \in PointsOf(i, base) :
              p.t \in TimesOf(i) /\ p.c \in Int /\ p.t = base + p.c
         /\ \A t \in TimesOf(i) : \E p \in PointsOf(i, base) : p.t = t
         /\ \A t \in TimesOf(i) :
              t \in Times /\ lid_header_time_buffer[i] <= t /\ t < lid_header_time_buffer[i] + ScanLen
         /\ lid_header_time_buffer[i] \in ScanStarts
<1>1. /\ lid_raw_data_buffer[i] \in RawScan /\ lid_header_time_buffer[i] \in ScanStarts
      /\ lid_raw_data_buffer[i].h = lid_header_time_buffer[i]
  BY DEF FrontInv, ScansInv, QueuesInOrder
<1> DEFINE h == lid_header_time_buffer[i]
           n == lid_raw_data_buffer[i].n
<1>2. h \in Nat /\ h >= 1 /\ n \in 1 .. ScanLen /\ ScanLen \in Nat /\ h + ScanLen - 1 \in Times
      /\ lid_raw_data_buffer[i].h = h
  BY <1>1, Constants DEF RawScan
<1>3. \A o \in 0 .. n - 1 : h + o \in Times /\ h <= h + o /\ h + o < h + ScanLen
  <2>1. ASSUME NEW o \in 0 .. n - 1
        PROVE  h + o \in Nat /\ h + o >= 1 /\ h <= h + o /\ h + o < h + ScanLen /\ h + o <= h + ScanLen - 1
    BY <1>2
  <2>2. h + ScanLen - 1 <= MaxTime /\ MaxTime \in Nat
    BY <1>2, Constants DEF Times
  <2> HIDE DEF h, n
  <2>3. ASSUME NEW o \in 0 .. n - 1  PROVE h + o <= MaxTime
    BY <1>2, <2>1, <2>2
  <2> QED  BY <2>1, <2>3 DEF Times
<1>4. /\ PointsOf(i, base) = {[t |-> h + o, c |-> o + h - base] : o \in 0 .. n - 1}
      /\ TimesOf(i) = {h + o : o \in 0 .. n - 1}
  BY <1>2 DEF PointsOf, TimesOf
<1> HIDE DEF h, n
<1>5. \A o \in 0 .. n - 1 : o + h - base \in Int /\ h + o = base + (o + h - base)
  BY <1>2
<1>6. \A p \in PointsOf(i, base) : p.t \in TimesOf(i) /\ p.c \in Int /\ p.t = base + p.c
  BY <1>4, <1>5
<1>7. \A t \in TimesOf(i) : \E p \in PointsOf(i, base) : p.t = t
  <2>1. ASSUME NEW o \in 0 .. n - 1  PROVE \E p \in PointsOf(i, base) : p.t = h + o
    <3>1. [t |-> h + o, c |-> o + h - base] \in PointsOf(i, base)
      BY <1>4
    <3> QED  BY <3>1
  <2> QED  BY <1>4, <2>1
<1>8. \A t \in TimesOf(i) : t \in Times /\ h <= t /\ t < h + ScanLen
  BY <1>3, <1>4
<1> QED  BY <1>1, <1>6, <1>7, <1>8 DEF h

\* Scans at the front are those that have begun by t.
LEMMA ScansUpToIs ==
  ASSUME SInv, FrontInv, NEW t \in Int
  PROVE  /\ ScansUpTo(t) \in 0 .. Len(lid_raw_data_buffer)
         /\ \A i \in 1 .. Len(lid_raw_data_buffer) :
              /\ i <= ScansUpTo(t) <=> lid_header_time_buffer[i] <= t
              /\ lid_header_time_buffer[i] \in Int
<1>1. /\ lid_header_time_buffer \in Seq(ScanStarts)
      /\ Len(lid_header_time_buffer) = Len(lid_raw_data_buffer) /\ Len(lid_raw_data_buffer) \in Nat
      /\ \A i, j \in 1 .. Len(lid_raw_data_buffer) : i < j =>
           lid_header_time_buffer[i] < lid_header_time_buffer[j]
  BY Known DEF FrontInv, ScansInv, QueuesInOrder
<1>2. \A g \in ScanStarts : g \in Int
  BY Constants
<1>3. lid_header_time_buffer \in Seq(Int) /\ \A i \in 1 .. Len(lid_raw_data_buffer) : lid_header_time_buffer[i] \in Int
  BY <1>1, <1>2
<1>4. \A i, j \in 1 .. Len(lid_header_time_buffer) : i < j => lid_header_time_buffer[i] <= lid_header_time_buffer[j]
  BY <1>1, <1>3
<1> QED  BY <1>1, <1>3, <1>4, FrontIs DEF ScansUpTo

\* A point of a scan is older than the scans after it.
LEMMA ScansApart ==
  ASSUME SInv, FrontInv, NEW i \in 1 .. Len(lid_raw_data_buffer), NEW j \in 1 .. Len(lid_raw_data_buffer),
         i < j, NEW t \in TimesOf(i)
  PROVE  t < lid_header_time_buffer[j]
<1>1. lid_header_time_buffer[i] < lid_header_time_buffer[j]
  BY DEF FrontInv, ScansInv, QueuesInOrder
<1>2. /\ t \in Times /\ t < lid_header_time_buffer[i] + ScanLen
      /\ lid_header_time_buffer[i] \in ScanStarts /\ lid_header_time_buffer[j] \in ScanStarts
  <2>1. 0 \in Int
    OBVIOUS
  <2> QED  BY <2>1, ScanPoint
<1>3. lid_header_time_buffer[i] + ScanLen <= lid_header_time_buffer[j]
  BY <1>1, <1>2, Constants
<1>4. /\ t \in Int /\ lid_header_time_buffer[i] \in Int /\ lid_header_time_buffer[j] \in Int /\ ScanLen \in Int
  <2>1. t \in Nat /\ ScanLen \in Nat
    BY <1>2, Constants
  <2>2. lid_header_time_buffer[i] \in Nat /\ lid_header_time_buffer[j] \in Nat
    BY <1>2, Constants
  <2> QED  BY <2>1, <2>2
<1> QED  BY <1>2, <1>3, <1>4

LEMMA CapturedIs ==
  ASSUME SInv, FrontInv, img_time_buffer # <<>>
  PROVE  /\ Capture \in Times /\ Capture \in Nat /\ Capture >= 1 /\ Capture <= last_timestamp_img
         /\ slam_mode = "LIVO" /\ lio_vio_flg # "LIO" => pkg.end < Capture
<1>1. /\ img_time_buffer \in Seq(Times) /\ ImagesUpTo(img_time_buffer, last_timestamp_img)
  BY DEF SInv, FrontInv, ImagesInv
<1>2. Head(img_time_buffer) = img_time_buffer[1] /\ 1 \in 1 .. Len(img_time_buffer)
  BY <1>1, HeadIs
<1>3. Capture \in Times /\ Capture <= last_timestamp_img
  BY <1>1, <1>2 DEF Capture, ImagesUpTo
<1>4. slam_mode = "LIVO" /\ lio_vio_flg # "LIO" => pkg.end < Capture
  BY <1>2 DEF Capture, FrontInv, ImagesInv
<1> QED  BY <1>3, <1>4, Constants

\* What a package of points cut by an image is made of.
CurUpTo(k, end) == {p \in PointsUpTo(k, Base) : p.c + Base < end}
RestUpTo(k, end) == {p \in PointsUpTo(k, NextBase(end)) : p.c + NextBase(end) >= end}
SamplesUpTo(t) == Select(SubSeq(imu_buffer, 1, FrontUpTo(imu_buffer, t)), {s \in Times : s > Base})

LEMMA CutLioIs ==
  ASSUME SInv, FrontInv, CutLio
  PROVE  /\ slam_mode = "LIVO" /\ lio_vio_flg # "LIO" /\ lio_vio_flg' = "LIO"
         /\ lid_raw_data_buffer # <<>> /\ imu_buffer # <<>> /\ img_time_buffer # <<>>
         /\ Base < Capture /\ Capture <= LidNewest /\ Capture <= Back(imu_buffer)
         /\ imu_buffer' = Drop(imu_buffer, FrontUpTo(imu_buffer, Capture))
         /\ lid_raw_data_buffer' = Drop(lid_raw_data_buffer, ScansUpTo(Capture))
         /\ lid_header_time_buffer' = Drop(lid_header_time_buffer, ScansUpTo(Capture))
         /\ pcl_proc_next' = RestUpTo(ScansUpTo(Capture), Capture)
         /\ pkg' = [kind |-> "LIO", beg |-> Base, end |-> Capture,
                    points |-> pcl_proc_next \cup CurUpTo(ScansUpTo(Capture), Capture),
                    imu |-> ItemsOf(SamplesUpTo(Capture))]
         /\ imu_need_init => last_lio_update_time' = Base
         /\ ~imu_need_init => last_lio_update_time' = Capture /\ imu_need_init' = imu_need_init
         /\ UNCHANGED <<slam_mode, last_timestamp_lidar, last_timestamp_imu, img_time_buffer,
                        last_timestamp_img, loop_backs, lidar_pushed, lidar>>
<1>1. /\ slam_mode = "LIVO" /\ lio_vio_flg # "LIO" /\ lio_vio_flg' = "LIO"
      /\ lid_raw_data_buffer # <<>> /\ imu_buffer # <<>> /\ img_time_buffer # <<>>
      /\ ~TooOld /\ ~Waits
  BY DEF CutLio, Ready
<1>2. SubSeq(lid_header_time_buffer, 1, Len(lid_raw_data_buffer)) = lid_header_time_buffer
  <2>1. lid_header_time_buffer \in Seq(ScanStarts) /\ Len(lid_header_time_buffer) = Len(lid_raw_data_buffer)
    BY Known
  <2> QED  BY <2>1
<1>3. Base < Capture /\ Capture <= LidNewest /\ Capture <= Back(imu_buffer)
  <2>1. Capture \in Int /\ Base \in Int
    BY <1>1, CapturedIs, BaseIs
  <2>2. LidNewest \in Int
    <3>1. /\ lid_raw_data_buffer \in Seq(RawScan) /\ lid_header_time_buffer \in Seq(ScanStarts)
          /\ lid_header_time_buffer # <<>>
      BY <1>1, Known
    <3>2. Back(lid_raw_data_buffer) \in RawScan
      BY <1>1, <3>1, HeadIs DEF Back
    <3>3. Back(lid_header_time_buffer) \in ScanStarts
      BY <3>1, HeadIs DEF Back
    <3>4. Back(lid_raw_data_buffer).n \in Int
      BY <3>2 DEF RawScan
    <3>5. Back(lid_header_time_buffer) \in Int
      <4>1. Back(lid_header_time_buffer) \in Nat
        BY <3>3, Constants
      <4> QED  BY <4>1
    <3> QED  BY <3>4, <3>5 DEF LidNewest
  <2>3. Back(imu_buffer) \in Int
    <3>1. imu_buffer \in Seq(Times)
      BY DEF SInv
    <3>2. Back(imu_buffer) \in Times
      BY <1>1, <3>1, HeadIs DEF Back
    <3> QED  BY <3>2, Constants
  <2> QED  BY <1>1, <2>1, <2>2, <2>3 DEF TooOld, Waits
<1>4. /\ imu_buffer' = Drop(imu_buffer, FrontUpTo(imu_buffer, Capture))
      /\ lid_raw_data_buffer' = Drop(lid_raw_data_buffer, ScansUpTo(Capture))
      /\ lid_header_time_buffer' = Drop(lid_header_time_buffer, ScansUpTo(Capture))
  BY <1>2 DEF CutLio, ScansUpTo
<1>5. pcl_proc_next' = RestUpTo(ScansUpTo(Capture), Capture)
  BY <1>2 DEF CutLio, ScansUpTo, RestUpTo, PointsUpTo
<1>6. /\ pkg' = [kind |-> "LIO", beg |-> Base, end |-> Capture,
                 points |-> pcl_proc_next \cup CurUpTo(ScansUpTo(Capture), Capture),
                 imu |-> ItemsOf(SamplesUpTo(Capture))]
  BY <1>2 DEF CutLio, ScansUpTo, CurUpTo, PointsUpTo, SamplesUpTo, ItemsOf
<1>7. \E p, taken : p.end = Capture /\ ProcessImu(p, taken)
  <2>1. ProcessImu(pkg', SamplesUpTo(Capture))
    BY <1>2 DEF CutLio, ScansUpTo, SamplesUpTo
  <2> QED  BY <1>6, <2>1
<1>8. /\ imu_need_init => last_lio_update_time' = Base
      /\ ~imu_need_init => last_lio_update_time' = Capture /\ imu_need_init' = imu_need_init
  BY <1>7 DEF ProcessImu
<1>9. UNCHANGED <<slam_mode, last_timestamp_lidar, last_timestamp_imu, img_time_buffer,
                        last_timestamp_img, loop_backs, lidar_pushed, lidar>>
  BY DEF CutLio, imgVars
<1> QED  BY <1>1, <1>3, <1>4, <1>5, <1>6, <1>8, <1>9

\* The newest sample stays when anything does.
LEMMA NewestStays ==
  ASSUME SInv, FrontInv, NEW t \in Int, imu_buffer' = Drop(imu_buffer, FrontUpTo(imu_buffer, t)),
         last_timestamp_imu' = last_timestamp_imu
  PROVE  NewestInv'
<1>1. imu_buffer \in Seq(Times) /\ Len(imu_buffer) \in Nat
  BY LenProperties DEF SInv
<1>2. FrontUpTo(imu_buffer, t) \in 0 .. Len(imu_buffer)
  BY <1>1, FrontUpToRange
<1> DEFINE k == FrontUpTo(imu_buffer, t)
<1> HIDE DEF k
<1>3. /\ Drop(imu_buffer, k) \in Seq(Times) /\ Len(Drop(imu_buffer, k)) = Len(imu_buffer) - k
      /\ \A i \in 1 .. Len(imu_buffer) - k : Drop(imu_buffer, k)[i] = imu_buffer[k + i]
  BY <1>1, <1>2, DropIs DEF k
<1>4. ASSUME Drop(imu_buffer, k) # <<>>
      PROVE  imu_buffer # <<>> /\ Back(Drop(imu_buffer, k)) = Back(imu_buffer)
  <2>1. Len(imu_buffer) - k \in 1 .. Len(imu_buffer) - k
    BY <1>3, <1>4, HeadIs
  <2>2. k + (Len(imu_buffer) - k) = Len(imu_buffer) /\ Len(imu_buffer) # 0
    BY <1>1, <1>2, <2>1 DEF k
  <2> QED  BY <1>1, <1>3, <2>1, <2>2, EmptySeq DEF Back
<1> QED  BY <1>4 DEF FrontInv, NewestInv, k

LEMMA CutKeepsFront ==
  ASSUME SInv, FrontInv, CutLio
  PROVE  FrontInv'
<1> DEFINE k == ScansUpTo(Capture)
<1>1. Capture \in Times /\ Capture \in Int /\ Capture >= 1 /\ Capture <= last_timestamp_img
  BY CutLioIs, CapturedIs
<1>2. /\ k \in 0 .. Len(lid_raw_data_buffer)
      /\ \A i \in 1 .. Len(lid_raw_data_buffer) :
           (i <= k <=> lid_header_time_buffer[i] <= Capture) /\ lid_header_time_buffer[i] \in Int
  BY <1>1, ScansUpToIs
<1> HIDE DEF k
<1>3. ScansInv'
  <2>1. QueuesInOrder(lid_raw_data_buffer, lid_header_time_buffer, last_timestamp_lidar)
    BY DEF FrontInv, ScansInv
  <2>2. QueuesInOrder(Drop(lid_raw_data_buffer, k), Drop(lid_header_time_buffer, k), last_timestamp_lidar)
    BY <1>2, <2>1, InOrderDrop
  <2> QED  BY <2>2, CutLioIs DEF FrontInv, ScansInv, k
<1>4. LatchInv'
  <2>1. ~lidar_pushed
    BY CutLioIs DEF FrontInv, LatchInv
  <2> QED  BY <2>1, CutLioIs DEF LatchInv
<1>5. NewestInv'
  BY <1>1, CutLioIs, NewestStays
<1>6. ImagesInv'
  <2>1. pkg'.end = Capture /\ lio_vio_flg' = "LIO"
    BY CutLioIs
  <2> QED  BY <1>1, <2>1, CutLioIs DEF FrontInv, ImagesInv
<1>7. last_timestamp_lidar \in ScanStarts /\ last_timestamp_lidar # -1 /\ Capture < last_timestamp_lidar + ScanLen
  <2>1. /\ lid_raw_data_buffer \in Seq(RawScan) /\ lid_header_time_buffer \in Seq(ScanStarts)
        /\ lid_raw_data_buffer # <<>> /\ lid_header_time_buffer # <<>>
        /\ Len(lid_header_time_buffer) = Len(lid_raw_data_buffer)
    BY CutLioIs, Known
  <2>2. Len(lid_raw_data_buffer) \in 1 .. Len(lid_raw_data_buffer)
    BY <2>1, HeadIs
  <2>3. Back(lid_raw_data_buffer) \in RawScan /\ Back(lid_header_time_buffer) \in ScanStarts
    BY <2>1, <2>2 DEF Back
  <2>4. Back(lid_header_time_buffer) <= last_timestamp_lidar
    BY <2>1, <2>2 DEF FrontInv, ScansInv, QueuesInOrder, Back
  <2>5. /\ Back(lid_raw_data_buffer).n \in 1 .. ScanLen /\ Back(lid_header_time_buffer) \in Nat
        /\ Back(lid_header_time_buffer) >= 1
    BY <2>3, Constants DEF RawScan
  <2>6. Capture <= Back(lid_header_time_buffer) + Back(lid_raw_data_buffer).n - 1
    BY CutLioIs DEF LidNewest
  <2>7. last_timestamp_lidar \in Int /\ ScanLen \in Nat
    BY Known, Constants
  <2>8. last_timestamp_lidar # -1 /\ Capture < last_timestamp_lidar + ScanLen
    BY <1>1, <2>4, <2>5, <2>6, <2>7
  <2> QED  BY <2>8, Known
<1>8. CutsInv'
  <2>1. Base \in Times /\ Base \in Nat /\ Base >= 1 /\ Base < Capture
    BY CutLioIs, BaseIs
  <2>2. last_lio_update_time' \in {-1} \cup Times /\ last_lio_update_time' # -1 /\ last_lio_update_time' <= Capture
    <3>1. CASE imu_need_init
      <4>1. last_lio_update_time' = Base
        BY <3>1, CutLioIs
      <4>2. Base # -1 /\ Base <= Capture
        BY <1>1, <2>1
      <4> QED  BY <2>1, <4>1, <4>2
    <3>2. CASE ~imu_need_init
      <4>1. last_lio_update_time' = Capture
        BY <3>2, CutLioIs
      <4>2. Capture # -1 /\ Capture <= Capture
        BY <1>1
      <4> QED  BY <1>1, <4>1, <4>2
    <3> QED  BY <3>1, <3>2
  <2>3. pkg'.end = Capture /\ Capture # -1 /\ lio_vio_flg' = "LIO" /\ slam_mode' = "LIVO"
        /\ last_timestamp_lidar' = last_timestamp_lidar
    BY <1>1, CutLioIs
  <2>4. slam_mode' \in Modes
    BY CutLioIs DEF FrontInv, CutsInv
  <2> QED  BY <1>1, <1>7, <2>2, <2>3, <2>4 DEF CutsInv
<1>9. LeftInv'
  <2>1. /\ lid_header_time_buffer' = Drop(lid_header_time_buffer, k)
        /\ Len(Drop(lid_header_time_buffer, k)) = Len(lid_raw_data_buffer) - k
        /\ \A j \in 1 .. Len(lid_raw_data_buffer) - k :
             k + j \in 1 .. Len(lid_raw_data_buffer) /\ Drop(lid_header_time_buffer, k)[j] = lid_header_time_buffer[k + j]
    <3>1. lid_header_time_buffer \in Seq(ScanStarts) /\ k \in 0 .. Len(lid_header_time_buffer)
          /\ Len(lid_header_time_buffer) = Len(lid_raw_data_buffer)
      BY <1>2, Known
    <3>2. /\ Len(Drop(lid_header_time_buffer, k)) = Len(lid_header_time_buffer) - k
          /\ \A i \in 1 .. Len(lid_header_time_buffer) - k :
               k + i \in 1 .. Len(lid_header_time_buffer) /\ Drop(lid_header_time_buffer, k)[i] = lid_header_time_buffer[k + i]
      BY <3>1, DropIs
    <3> QED  BY <3>1, <3>2, CutLioIs DEF k
  <2>2. ASSUME NEW p \in RestUpTo(k, Capture)
        PROVE  /\ p.t \in Int /\ p.c \in Int /\ p.t = Capture + p.c
               /\ Capture <= p.t /\ p.t < Capture + ScanLen /\ p.t < last_timestamp_lidar + ScanLen
               /\ \A j \in 1 .. Len(lid_raw_data_buffer) - k : p.t < lid_header_time_buffer[k + j]
    <3>1. PICK i \in 1 .. k : p \in PointsOf(i, Capture)
      BY <2>2 DEF RestUpTo, PointsUpTo, NextBase
    <3>2. i \in 1 .. Len(lid_raw_data_buffer) /\ i <= k
      BY <1>2, Known
    <3>3. /\ p.t \in TimesOf(i) /\ p.c \in Int /\ p.t = Capture + p.c
          /\ p.t \in Times /\ p.t < lid_header_time_buffer[i] + ScanLen
          /\ lid_header_time_buffer[i] \in ScanStarts
      BY <1>1, <3>1, <3>2, ScanPoint
    <3>4. p.c + Capture >= Capture
      BY <2>2 DEF RestUpTo, NextBase
    <3>5. lid_header_time_buffer[i] <= Capture /\ lid_header_time_buffer[i] <= last_timestamp_lidar
      BY <1>2, <3>2 DEF FrontInv, ScansInv, QueuesInOrder
    <3>6. /\ lid_header_time_buffer[i] \in Nat /\ last_timestamp_lidar \in Int /\ ScanLen \in Nat /\ p.t \in Nat
      BY <3>3, Known, Constants
    <3>7. Capture <= p.t /\ p.t < Capture + ScanLen /\ p.t < last_timestamp_lidar + ScanLen
      BY <1>1, <3>3, <3>4, <3>5, <3>6
    <3>8. ASSUME NEW j \in 1 .. Len(lid_raw_data_buffer) - k  PROVE p.t < lid_header_time_buffer[k + j]
      <4>1. k + j \in 1 .. Len(lid_raw_data_buffer) /\ i < k + j
        BY <1>2, <2>1, <3>2
      <4> QED  BY <3>2, <3>3, <4>1, ScansApart
    <3> QED  BY <3>3, <3>6, <3>7, <3>8
  <2>3. \A j \in 1 .. Len(lid_header_time_buffer') :
          j \in 1 .. Len(lid_raw_data_buffer) - k /\ lid_header_time_buffer'[j] = lid_header_time_buffer[k + j]
    BY <2>1
  <2>4. /\ pcl_proc_next' = RestUpTo(k, Capture) /\ pkg'.end = Capture
        /\ slam_mode' = "LIVO" /\ last_timestamp_lidar' = last_timestamp_lidar
    BY CutLioIs DEF k
  <2>5. Leftover(pcl_proc_next', pkg'.end, lid_header_time_buffer', last_timestamp_lidar')
    BY <2>2, <2>3, <2>4 DEF Leftover
  <2>6. pkg'.end # -1
    BY <1>1, <2>4
  <2> QED  BY <2>4, <2>5, <2>6 DEF LeftInv
<1> QED  BY <1>3, <1>4, <1>5, <1>6, <1>8, <1>9 DEF FrontInv

LEMMA WholeScanIs ==
  ASSUME SInv, FrontInv, WholeScan
  PROVE  /\ slam_mode = "ONLY_LIO" /\ lid_raw_data_buffer # <<>> /\ imu_buffer # <<>>
         /\ last_timestamp_imu >= ScanEnd
         /\ ScanEnd = lid_header_time_buffer[1] + lid_raw_data_buffer[1].n - 1
         /\ InHand.h = lid_raw_data_buffer[1].h /\ InHand.n = lid_raw_data_buffer[1].n
         /\ 1 \in 1 .. Len(lid_raw_data_buffer)
         /\ imu_buffer' = Drop(imu_buffer, FrontUpTo(imu_buffer, ScanEnd))
         /\ lid_raw_data_buffer' = Drop(lid_raw_data_buffer, 1)
         /\ lid_header_time_buffer' = Drop(lid_header_time_buffer, 1)
         /\ lidar_pushed' = FALSE
         /\ pkg' = [kind |-> "LIO", beg |-> Base, end |-> ScanEnd,
                    points |-> {[t |-> InHand.h + o, c |-> o] : o \in 0 .. InHand.n - 1},
                    imu |-> {SubSeq(imu_buffer, 1, FrontUpTo(imu_buffer, ScanEnd))[i] :
                               i \in 1 .. FrontUpTo(imu_buffer, ScanEnd)}]
         /\ last_lio_update_time' \in {Base, ScanEnd}
         /\ UNCHANGED <<slam_mode, last_timestamp_lidar, last_timestamp_imu, img_time_buffer,
                        last_timestamp_img, loop_backs, pcl_proc_next>>
<1>1. /\ slam_mode = "ONLY_LIO" /\ lid_raw_data_buffer # <<>> /\ imu_buffer # <<>>
      /\ last_timestamp_imu >= ScanEnd
      /\ imu_buffer' = Drop(imu_buffer, FrontUpTo(imu_buffer, ScanEnd))
      /\ lid_raw_data_buffer' = Tail(lid_raw_data_buffer)
      /\ lid_header_time_buffer' = Tail(lid_header_time_buffer)
      /\ lidar_pushed' = FALSE
      /\ pkg' = [kind |-> "LIO", beg |-> Base, end |-> ScanEnd,
                 points |-> {[t |-> InHand.h + o, c |-> o] : o \in 0 .. InHand.n - 1},
                 imu |-> {SubSeq(imu_buffer, 1, FrontUpTo(imu_buffer, ScanEnd))[i] :
                            i \in 1 .. FrontUpTo(imu_buffer, ScanEnd)}]
      /\ UNCHANGED <<slam_mode, last_timestamp_lidar, last_timestamp_imu, img_time_buffer,
                     last_timestamp_img, loop_backs, pcl_proc_next>>
  BY DEF WholeScan, Ready, imgVars
<1>2. /\ lid_raw_data_buffer \in Seq(RawScan) /\ lid_header_time_buffer \in Seq(ScanStarts)
      /\ lid_header_time_buffer # <<>>
  BY <1>1, Known
<1>3. /\ lid_raw_data_buffer' = Drop(lid_raw_data_buffer, 1)
      /\ lid_header_time_buffer' = Drop(lid_header_time_buffer, 1)
  <2>1. lid_raw_data_buffer' = Drop(lid_raw_data_buffer, 1)
    BY <1>1, <1>2, TailIsDrop
  <2>2. lid_header_time_buffer' = Drop(lid_header_time_buffer, 1)
    BY <1>1, <1>2, TailIsDrop
  <2> QED  BY <2>1, <2>2
<1>4. /\ Head(lid_raw_data_buffer) = lid_raw_data_buffer[1] /\ 1 \in 1 .. Len(lid_raw_data_buffer)
      /\ Head(lid_header_time_buffer) = lid_header_time_buffer[1]
  BY <1>1, <1>2, HeadIs
<1>5. /\ InHand.h = lid_raw_data_buffer[1].h /\ InHand.n = lid_raw_data_buffer[1].n
      /\ InHand.header = lid_header_time_buffer[1]
  BY <1>4, InHandIs DEF FrontScan
<1>6. ScanEnd = lid_header_time_buffer[1] + lid_raw_data_buffer[1].n - 1
  BY <1>5 DEF ScanEnd
<1>7. \E p, taken : p.end = ScanEnd /\ ProcessImu(p, taken)
  <2>1. ProcessImu(pkg', SubSeq(imu_buffer, 1, FrontUpTo(imu_buffer, ScanEnd)))
    BY DEF WholeScan
  <2> QED  BY <1>1, <2>1
<1>8. last_lio_update_time' \in {Base, ScanEnd}
  BY <1>7 DEF ProcessImu
<1> QED  BY <1>1, <1>3, <1>4, <1>5, <1>6, <1>8

\* The first scan, and what is known of its times.
LEMMA FirstScan ==
  ASSUME SInv, FrontInv, lid_raw_data_buffer # <<>>
  PROVE  /\ lid_raw_data_buffer[1].h = lid_header_time_buffer[1]
         /\ lid_raw_data_buffer[1].n \in 1 .. ScanLen /\ lid_raw_data_buffer[1].n \in Nat
         /\ lid_header_time_buffer[1] \in ScanStarts /\ lid_header_time_buffer[1] \in Nat
         /\ lid_header_time_buffer[1] >= 1
         /\ lid_header_time_buffer[1] + lid_raw_data_buffer[1].n - 1 \in Times
         /\ lid_header_time_buffer[1] <= last_timestamp_lidar
         /\ slam_mode = "ONLY_LIO" => pkg.end < lid_header_time_buffer[1]
<1>1. 1 \in 1 .. Len(lid_raw_data_buffer) /\ 1 \in 1 .. Len(lid_header_time_buffer)
  BY Known, HeadIs
<1>2. lid_raw_data_buffer[1] \in RawScan /\ lid_header_time_buffer[1] \in ScanStarts
  BY <1>1, Known
<1>3. lid_raw_data_buffer[1].h = lid_header_time_buffer[1] /\ lid_header_time_buffer[1] <= last_timestamp_lidar
  BY <1>1 DEF FrontInv, ScansInv, QueuesInOrder
<1>4. slam_mode = "ONLY_LIO" => pkg.end < lid_header_time_buffer[1]
  BY <1>1 DEF FrontInv, CutsInv
<1>5. lid_raw_data_buffer[1].n \in 1 .. ScanLen /\ lid_raw_data_buffer[1].n \in Nat
  BY <1>2 DEF RawScan
<1>6. lid_header_time_buffer[1] \in Nat /\ lid_header_time_buffer[1] >= 1
  BY <1>2, Constants
<1>7. lid_header_time_buffer[1] + lid_raw_data_buffer[1].n - 1 \in Times
  <2>1. ScanLen \in Nat /\ MaxTime \in Nat
    BY Constants
  <2>2. lid_header_time_buffer[1] + ScanLen - 1 <= MaxTime
    <3>1. lid_header_time_buffer[1] + ScanLen - 1 \in Times
      BY <1>2, Constants
    <3> QED  BY <3>1 DEF Times
  <2> QED  BY <1>5, <1>6, <2>1, <2>2 DEF Times
<1> QED  BY <1>2, <1>3, <1>4, <1>5, <1>6, <1>7

LEMMA WholeKeepsFront ==
  ASSUME SInv, FrontInv, WholeScan
  PROVE  FrontInv'
<1> DEFINE first == lid_header_time_buffer[1]
           n == lid_raw_data_buffer[1].n
           end == first + n - 1
<1>1. ScanEnd = end /\ pkg'.end = end /\ slam_mode = "ONLY_LIO" /\ slam_mode' = "ONLY_LIO"
  BY WholeScanIs
<1>2. /\ n \in 1 .. ScanLen /\ n \in Nat /\ first \in ScanStarts /\ first \in Nat /\ first >= 1
      /\ end \in Times /\ first <= last_timestamp_lidar
      /\ last_timestamp_lidar \in Int /\ ScanLen \in Nat
  BY WholeScanIs, FirstScan, Known, Constants
<1>3. ScansInv'
  <2>1. QueuesInOrder(lid_raw_data_buffer, lid_header_time_buffer, last_timestamp_lidar)
    BY DEF FrontInv, ScansInv
  <2>2. 1 \in 0 .. Len(lid_raw_data_buffer)
    BY WholeScanIs
  <2>3. QueuesInOrder(Drop(lid_raw_data_buffer, 1), Drop(lid_header_time_buffer, 1), last_timestamp_lidar)
    BY <2>1, <2>2, InOrderDrop
  <2> QED  BY <2>3, WholeScanIs DEF FrontInv, ScansInv
<1>4. LatchInv'
  BY WholeScanIs DEF LatchInv
<1>5. NewestInv'
  <2>1. ScanEnd \in Int
    BY <1>1, <1>2
  <2> QED  BY <2>1, WholeScanIs, NewestStays
<1>6. ImagesInv'
  <2>1. UNCHANGED <<img_time_buffer, last_timestamp_img>>
    BY WholeScanIs
  <2> QED  BY <1>1, <2>1 DEF FrontInv, ImagesInv
<1>7. LeftInv'
  <2>1. pcl_proc_next = {} /\ pcl_proc_next' = {}
    BY <1>1, WholeScanIs DEF FrontInv, LeftInv
  <2> QED  BY <2>1 DEF LeftInv
<1>8. CutsInv'
  <2>1. Base \in Times /\ Base \in Nat /\ Base >= 1 /\ Base <= end
    <3>1. Base \in Times /\ Base \in Nat /\ Base >= 1
      BY WholeScanIs, BaseIs
    <3>2. CASE pkg.end = -1
      <4>1. Base = first
        BY <3>2, WholeScanIs, BaseIs
      <4> QED  BY <1>2, <3>1, <4>1
    <3>3. CASE pkg.end # -1
      <4>1. Base <= pkg.end /\ pkg.end < first /\ pkg.end \in Int
        BY <1>1, <3>3, WholeScanIs, BaseIs, FirstScan, Known
      <4> QED  BY <1>2, <3>1, <4>1
    <3> QED  BY <3>2, <3>3
  <2>2. end \in Nat /\ end >= 1
    BY <1>2
  <2>3. last_lio_update_time' \in {Base, end}
    BY <1>1, WholeScanIs
  <2>4. last_lio_update_time' \in {-1} \cup Times /\ last_lio_update_time' # -1 /\ last_lio_update_time' <= end
    <3>1. Base # -1 /\ end # -1 /\ end <= end
      BY <2>1, <2>2
    <3> HIDE DEF end
    <3> QED  BY <1>2, <2>1, <2>3, <3>1
  <2>5. last_timestamp_lidar' # -1 /\ end < last_timestamp_lidar' + ScanLen
    BY <1>2, WholeScanIs
  <2>6. \A i \in 1 .. Len(lid_header_time_buffer') : end < lid_header_time_buffer'[i]
    <3>1. /\ lid_header_time_buffer' = Drop(lid_header_time_buffer, 1)
          /\ Len(Drop(lid_header_time_buffer, 1)) = Len(lid_raw_data_buffer) - 1
          /\ \A j \in 1 .. Len(lid_raw_data_buffer) - 1 :
               1 + j \in 1 .. Len(lid_raw_data_buffer)
                 /\ Drop(lid_header_time_buffer, 1)[j] = lid_header_time_buffer[1 + j]
      <4>1. lid_header_time_buffer \in Seq(ScanStarts) /\ 1 \in 0 .. Len(lid_header_time_buffer)
            /\ Len(lid_header_time_buffer) = Len(lid_raw_data_buffer)
        BY WholeScanIs, Known
      <4>2. /\ Len(Drop(lid_header_time_buffer, 1)) = Len(lid_header_time_buffer) - 1
            /\ \A i \in 1 .. Len(lid_header_time_buffer) - 1 :
                 1 + i \in 1 .. Len(lid_header_time_buffer)
                   /\ Drop(lid_header_time_buffer, 1)[i] = lid_header_time_buffer[1 + i]
        BY <4>1, DropIs
      <4> QED  BY <4>1, <4>2, WholeScanIs
    <3>2. ASSUME NEW j \in 1 .. Len(lid_raw_data_buffer) - 1  PROVE end < lid_header_time_buffer[1 + j]
      <4>1. 1 + j \in 1 .. Len(lid_raw_data_buffer) /\ 1 < 1 + j /\ 1 \in 1 .. Len(lid_raw_data_buffer)
        BY <3>1, WholeScanIs
      <4>2. end \in TimesOf(1)
        <5>1. n - 1 \in 0 .. n - 1 /\ lid_raw_data_buffer[1].h = first /\ end = first + (n - 1)
          BY <1>2, WholeScanIs, FirstScan
        <5> QED  BY <5>1 DEF TimesOf
      <4> HIDE DEF end
      <4> QED  BY <4>1, <4>2, ScansApart
    <3> QED  BY <3>1, <3>2
  <2>7. slam_mode' \in Modes /\ end \in {-1} \cup Times
    BY <1>2, WholeScanIs DEF FrontInv, CutsInv
  <2> HIDE DEF end
  <2> QED  BY <1>1, <2>4, <2>5, <2>6, <2>7, <2>2 DEF CutsInv
<1> QED  BY <1>3, <1>4, <1>5, <1>6, <1>7, <1>8 DEF FrontInv

LEMMA FrontNext == MaxLoopBacks = 0 /\ SInv /\ FrontInv /\ [Next]_vars => FrontInv'
<1> SUFFICES ASSUME MaxLoopBacks = 0, SInv, FrontInv, [Next]_vars  PROVE FrontInv'
  OBVIOUS
<1>1. CASE UNCHANGED <<slam_mode, lid_raw_data_buffer, lid_header_time_buffer, last_timestamp_lidar, loop_backs,
                       imu_buffer, last_timestamp_imu, img_time_buffer, last_timestamp_img,
                       lidar_pushed, lidar, lio_vio_flg, last_lio_update_time, pcl_proc_next, imu_need_init, pkg>>
  BY <1>1 DEF FrontInv, ScansInv, LatchInv, NewestInv, Back, ImagesInv, CutsInv, LeftInv
<1>2. CASE LoopbackTimeout
  BY <1>1, <1>2 DEF LoopbackTimeout, lidarVars, imgVars, syncVars
<1>3. CASE SyncPackages
  BY <1>3, ThrowKeepsFront, CutKeepsFront, VioKeepsFront, WholeKeepsFront, WaitsKeepFront DEF SyncPackages
<1>4. CASE UNCHANGED vars
  BY <1>1, <1>4 DEF vars, lidarVars, imuVars, imgVars, syncVars
<1> QED  BY <1>2, <1>3, <1>4, SyncAssumption, LidarKeepsFront, ImuKeepsFront, ImgKeepsFront DEF Next

LEMMA FrontInvariant == ASSUME MaxLoopBacks = 0  PROVE Spec => [](SInv /\ FrontInv)
<1>1. MaxLoopBacks = 0
  OBVIOUS
<1>2. Init => SInv /\ FrontInv
  BY SyncInit, FrontInit
<1>3. SInv /\ FrontInv /\ [Next]_vars => (SInv /\ FrontInv)'
  BY <1>1, SyncNext, FrontNext
<1> QED  BY <1>2, <1>3, PTL DEF Spec

LEMMA CutLioTimes ==
  ASSUME SInv, FrontInv, CutLio, ~imu_need_init
  PROVE  FromLastEnd
<1>1. pkg.end # -1 /\ last_lio_update_time = pkg.end
  BY CutLioIs DEF FrontInv, CutsInv
<1>2. Base = pkg.end /\ pkg'.beg = Base /\ Base \in Int
  BY <1>1, CutLioIs, BaseIs
<1>3. ASSUME NEW p \in pcl_proc_next  PROVE p.t = Base + p.c
  BY <1>2, <1>3 DEF FrontInv, LeftInv, Leftover
<1>4. ASSUME NEW p \in CurUpTo(ScansUpTo(Capture), Capture)  PROVE p.t = Base + p.c
  <2>1. PICK i \in 1 .. ScansUpTo(Capture) : p \in PointsOf(i, Base)
    BY <1>4 DEF CurUpTo, PointsUpTo
  <2>2. ScansUpTo(Capture) \in 0 .. Len(lid_raw_data_buffer) /\ Len(lid_raw_data_buffer) \in Nat
    <3>1. Capture \in Int
      BY CutLioIs, CapturedIs
    <3> QED  BY <3>1, ScansUpToIs, Known
  <2>3. i \in 1 .. Len(lid_raw_data_buffer)
    BY <2>1, <2>2
  <2> QED  BY <1>2, <2>1, <2>3, ScanPoint
<1> QED  BY <1>2, <1>3, <1>4, CutLioIs DEF FromLastEnd

LEMMA WholeScanTimes ==
  ASSUME SInv, FrontInv, WholeScan
  PROVE  FromHeader
<1> DEFINE first == lid_header_time_buffer[1]
           n == lid_raw_data_buffer[1].n
<1>1. /\ slam_mode = "ONLY_LIO" /\ lid_raw_data_buffer # <<>>
      /\ pkg'.points = {[t |-> InHand.h + o, c |-> o] : o \in 0 .. InHand.n - 1}
      /\ pkg'.end = first + n - 1 /\ InHand.n = n
      /\ InHand.h = lid_raw_data_buffer[1].h
  BY WholeScanIs
<1>2. /\ InHand.h = first /\ n \in Nat /\ n >= 1
      /\ first \in ScanStarts /\ first \in Nat /\ pkg.end < first
  BY <1>1, FirstScan
<1> HIDE DEF first, n
<1>3. ASSUME NEW p \in pkg'.points
      PROVE  p.t = first + p.c /\ p.t <= pkg'.end
  <2>1. PICK o \in 0 .. n - 1 : p = [t |-> first + o, c |-> o]
    BY <1>1, <1>2, <1>3
  <2>2. p.t = first + o /\ p.c = o
    BY <2>1
  <2> QED  BY <1>1, <1>2, <2>2
<1>4. \E p \in pkg'.points : p.t = pkg'.end
  <2>1. n - 1 \in 0 .. n - 1 /\ first + (n - 1) = first + n - 1
    BY <1>2
  <2>2. [t |-> first + (n - 1), c |-> n - 1] \in pkg'.points
    BY <1>1, <1>2, <2>1
  <2> QED  BY <1>1, <2>1, <2>2
<1> QED  BY <1>2, <1>3, <1>4 DEF FromHeader

LEMMA TimesStep == SInv /\ FrontInv /\ [Next]_vars => [CutAt]_vars
<1> SUFFICES ASSUME SInv, FrontInv, Next, pkg' # pkg, pkg'.kind = "LIO", ~imu_need_init
             PROVE  IF slam_mode = "LIVO" THEN FromLastEnd ELSE FromHeader
  BY DEF CutAt
<1>1. CASE \E h \in ScanStarts, n \in ScanSizes : LivoxPclCbk(h, n)
  BY <1>1 DEF LivoxPclCbk, syncVars
<1>2. CASE (\E s \in Times : ImuCbk(s)) \/ (\E s \in Times : ImgCbk(s)) \/ LoopbackTimeout
  BY <1>2 DEF ImuCbk, ImgCbk, LoopbackTimeout, syncVars
<1>3. CASE ThrowImage \/ SyncWaits
  BY <1>3 DEF ThrowImage, SyncWaits
<1>4. CASE CutVio
  BY <1>4 DEF CutVio
<1>5. CASE WholeScan
  BY <1>5, WholeScanTimes, WholeScanIs
<1>6. CASE CutLio
  BY <1>6, CutLioTimes DEF CutLio
<1> QED  BY <1>1, <1>2, <1>3, <1>4, <1>5, <1>6 DEF Next, SyncPackages

\* For every start and length of the scans, as long as they come in order: with a
\* camera a package of points that is undistorted begins where the last package ended,
\* and the curvature of each of its points, the left-over ones too, counts from there;
\* without one it counts from the scan's header, which lies behind that end.
THEOREM PointTimesHolds == ASSUME MaxLoopBacks = 0  PROVE Spec => PointTimes
<1>1. Spec => [](SInv /\ FrontInv)
  BY FrontInvariant
<1> QED  BY <1>1, TimesStep, PTL DEF Spec, PointTimes

-----------------------------------------------------------------------------
(* The stream of packages. *)

LeftTimes == {p.t : p \in pcl_proc_next}

LEMMA WaitingIs ==
  \A x : x \in WaitingPoints <=>
           x \in LeftTimes \/ \E i \in 1 .. Len(lid_raw_data_buffer) : x \in TimesOf(i)
BY DEF WaitingPoints, LeftTimes, TimesOf

\* Points may arrive, and samples in any way, while nothing is delivered.
LEMMA Receives ==
  ASSUME UNCHANGED <<slam_mode, pcl_proc_next, lio_vio_flg, pkg>>,
         NEW new \in SUBSET {t \in Times : t >= pkg.end}, WaitingPoints' = WaitingPoints \cup new,
         imu_buffer' \in Seq(Times)
  PROVE  Stream!Receive
<1>1. {imu_buffer'[i] : i \in 1 .. Len(imu_buffer')} \in SUBSET Times
  OBVIOUS
<1> QED  BY <1>1 DEF Stream!Receive

LEMMA LidarReceives ==
  ASSUME SInv, FrontInv, SInv', MaxLoopBacks = 0,
         NEW h \in ScanStarts, NEW n \in 0 .. ScanLen, LivoxPclCbk(h, n)
  PROVE  Stream!Receive
<1>1. UNCHANGED <<slam_mode, pcl_proc_next, lio_vio_flg, pkg, imu_buffer>>
  BY DEF LivoxPclCbk, imuVars, syncVars
<1>2. imu_buffer' \in Seq(Times)
  BY DEF SInv
<1>3. ~ (h < last_timestamp_lidar) /\ h > last_timestamp_lidar
  BY DEF LivoxPclCbk, FrontInv, ScansInv
<1>4. CASE n = 0
  <2>1. lid_raw_data_buffer' = lid_raw_data_buffer
    BY <1>3, <1>4 DEF LivoxPclCbk
  <2>2. WaitingPoints' = WaitingPoints \cup {}
    BY <1>1, <2>1 DEF WaitingPoints
  <2>3. {} \in SUBSET {t \in Times : t >= pkg.end}
    OBVIOUS
  <2> QED  BY <1>1, <1>2, <2>2, <2>3, Receives
<1>5. CASE n # 0
  <2> DEFINE e == [h |-> h, n |-> n]
             new == {h + o : o \in 0 .. n - 1}
  <2>1. lid_raw_data_buffer' = Append(lid_raw_data_buffer, e)
    BY <1>3, <1>5 DEF LivoxPclCbk
  <2>2. e \in RawScan /\ n \in 1 .. ScanLen /\ e.h = h /\ e.n = n
    BY <1>5, Constants DEF RawScan
  <2>3. h \in Nat /\ h >= 1 /\ ScanLen \in Nat /\ MaxTime \in Nat /\ h + ScanLen - 1 \in Times
    BY Constants
  <2>4. pkg.end < h /\ pkg.end \in Int
    <3>1. CASE pkg.end = -1
      BY <2>3, <3>1
    <3>2. CASE pkg.end # -1
      <4>1. last_timestamp_lidar \in ScanStarts /\ pkg.end < last_timestamp_lidar + ScanLen /\ pkg.end \in Int
        BY <3>2, Known DEF FrontInv, CutsInv
      <4>2. last_timestamp_lidar + ScanLen <= h /\ last_timestamp_lidar \in Nat
        BY <1>3, <4>1, Constants
      <4> QED  BY <2>3, <4>1, <4>2
    <3> QED  BY <3>1, <3>2
  <2>5. new \in SUBSET {t \in Times : t >= pkg.end}
    <3>1. h + ScanLen - 1 <= MaxTime
      BY <2>3 DEF Times
    <3>2. ASSUME NEW o \in 0 .. n - 1  PROVE h + o \in Times /\ h + o >= pkg.end
      BY <2>2, <2>3, <2>4, <3>1 DEF Times
    <3> QED  BY <3>2
  <2> HIDE DEF e
  <2>6. /\ Len(lid_raw_data_buffer') = Len(lid_raw_data_buffer) + 1 /\ Len(lid_raw_data_buffer) \in Nat
        /\ \A i \in 1 .. Len(lid_raw_data_buffer) : lid_raw_data_buffer'[i] = lid_raw_data_buffer[i]
        /\ lid_raw_data_buffer'[Len(lid_raw_data_buffer) + 1] = e
    BY <2>1, <2>2, Known, AppendProperties
  <2>7. WaitingPoints' = WaitingPoints \cup new
    <3> DEFINE At(i) == {lid_raw_data_buffer[i].h + o : o \in 0 .. lid_raw_data_buffer[i].n - 1}
               Then(i) == {lid_raw_data_buffer'[i].h + o : o \in 0 .. lid_raw_data_buffer'[i].n - 1}
    <3>1. \A i \in 1 .. Len(lid_raw_data_buffer) : Then(i) = At(i)
      BY <2>6
    <3>2. Then(Len(lid_raw_data_buffer) + 1) = new
      BY <2>2, <2>6
    <3>3. /\ \A x : x \in WaitingPoints' <=>
                      x \in LeftTimes \/ \E i \in 1 .. Len(lid_raw_data_buffer) + 1 : x \in Then(i)
          /\ \A x : x \in WaitingPoints <=>
                      x \in LeftTimes \/ \E i \in 1 .. Len(lid_raw_data_buffer) : x \in At(i)
      BY <1>1, <2>6 DEF WaitingPoints, LeftTimes
    <3>4. \A i : i \in 1 .. Len(lid_raw_data_buffer) + 1 <=>
                   i \in 1 .. Len(lid_raw_data_buffer) \/ i = Len(lid_raw_data_buffer) + 1
      BY <2>6
    <3> HIDE DEF new, At, Then
    <3>5. \A x : x \in WaitingPoints' <=> x \in WaitingPoints \/ x \in new
      BY <3>1, <3>2, <3>3, <3>4
    <3> QED  BY <3>5
  <2> HIDE DEF new
  <2> QED  BY <1>1, <1>2, <2>5, <2>7, Receives
<1> QED  BY <1>4, <1>5

LEMMA ImuReceives == ASSUME SInv', NEW s \in Times, ImuCbk(s)  PROVE Stream!Receive
<1>1. UNCHANGED <<slam_mode, pcl_proc_next, lio_vio_flg, pkg, lid_raw_data_buffer>>
  BY DEF ImuCbk, lidarVars, syncVars
<1>2. imu_buffer' \in Seq(Times) /\ WaitingPoints' = WaitingPoints \cup {}
  BY <1>1 DEF SInv, WaitingPoints
<1> QED  BY <1>1, <1>2, Receives

LEMMA StreamStutters ==
  ASSUME UNCHANGED <<slam_mode, lid_raw_data_buffer, pcl_proc_next, imu_buffer, lio_vio_flg, pkg>>
  PROVE  UNCHANGED Stream!vars
BY DEF Stream!vars, WaitingPoints

\* The IMU samples, as the stream sees them.
LEMMA ImuIsInt ==
  ASSUME SInv
  PROVE  /\ imu_buffer \in Seq(Int)
         /\ \A i, j \in 1 .. Len(imu_buffer) : i < j => imu_buffer[i] <= imu_buffer[j]
<1>1. imu_buffer \in Seq(Times) /\ \A t \in Times : t \in Int
  BY Constants DEF SInv
<1>2. imu_buffer \in Seq(Int)
  BY <1>1
<1> QED  BY <1>2 DEF SInv, OrderedUpTo

LEMMA NewestIsIn ==
  ASSUME SInv, FrontInv, imu_buffer # <<>>
  PROVE  Back(imu_buffer) \in ItemsOf(imu_buffer) /\ Back(imu_buffer) = last_timestamp_imu
<1>1. Len(imu_buffer) \in 1 .. Len(imu_buffer)
  BY ImuIsInt, HeadIs
<1> QED  BY <1>1 DEF ItemsOf, Back, FrontInv, NewestInv

\* What waits after a cut: the rest of the scans that were cut, and the other scans.
LEMMA WaitingAfter ==
  ASSUME SInv, FrontInv, NEW k \in 0 .. Len(lid_raw_data_buffer),
         lid_raw_data_buffer' = Drop(lid_raw_data_buffer, k), NEW rest,
         {p.t : p \in pcl_proc_next'} = rest
  PROVE  \A x : x \in WaitingPoints' <=>
                  x \in rest \/ \E i \in 1 .. Len(lid_raw_data_buffer) : k < i /\ x \in TimesOf(i)
<1>1. Len(lid_raw_data_buffer) \in Nat /\ lid_raw_data_buffer \in Seq(RawScan)
  BY Known
<1>2. /\ Len(lid_raw_data_buffer') = Len(lid_raw_data_buffer) - k
      /\ \A i \in 1 .. Len(lid_raw_data_buffer) - k :
           k + i \in 1 .. Len(lid_raw_data_buffer) /\ lid_raw_data_buffer'[i] = lid_raw_data_buffer[k + i]
  BY <1>1, DropIs
<1> DEFINE Then(i) == {lid_raw_data_buffer'[i].h + o : o \in 0 .. lid_raw_data_buffer'[i].n - 1}
<1>3. \A x : x \in WaitingPoints' <=>
               x \in rest \/ \E i \in 1 .. Len(lid_raw_data_buffer) - k : x \in Then(i)
  <2>1. \A x : x \in WaitingPoints' <=>
                 x \in {p.t : p \in pcl_proc_next'} \/ \E i \in 1 .. Len(lid_raw_data_buffer') : x \in Then(i)
    BY DEF WaitingPoints
  <2> HIDE DEF Then
  <2> QED  BY <1>2, <2>1
<1>4. \A i \in 1 .. Len(lid_raw_data_buffer) - k : Then(i) = TimesOf(k + i)
  BY <1>2 DEF TimesOf
<1> HIDE DEF Then
<1>5. \A i \in 1 .. Len(lid_raw_data_buffer) - k : k + i \in 1 .. Len(lid_raw_data_buffer) /\ k < k + i
  BY <1>1
<1>6. \A i \in 1 .. Len(lid_raw_data_buffer) : k < i => i - k \in 1 .. Len(lid_raw_data_buffer) - k /\ k + (i - k) = i
  BY <1>1
<1>7. ASSUME NEW x, NEW i \in 1 .. Len(lid_raw_data_buffer) - k, x \in Then(i)
      PROVE  \E j \in 1 .. Len(lid_raw_data_buffer) : k < j /\ x \in TimesOf(j)
  BY <1>4, <1>5, <1>7
<1>8. ASSUME NEW x, NEW i \in 1 .. Len(lid_raw_data_buffer), k < i, x \in TimesOf(i)
      PROVE  \E j \in 1 .. Len(lid_raw_data_buffer) - k : x \in Then(j)
  <2>1. i - k \in 1 .. Len(lid_raw_data_buffer) - k /\ k + (i - k) = i
    BY <1>6, <1>8
  <2>2. Then(i - k) = TimesOf(i)
    BY <1>4, <2>1
  <2> QED  BY <1>8, <2>1, <2>2
<1> QED  BY <1>3, <1>7, <1>8

\* The points of a cut, by their times.
CutTimes(k, end) == {x \in UNION {TimesOf(i) : i \in 1 .. k} : x < end}
RestTimes(k, end) == {x \in UNION {TimesOf(i) : i \in 1 .. k} : x >= end}

LEMMA CutPoints ==
  ASSUME SInv, FrontInv, CutLio
  PROVE  /\ {p.t : p \in pkg'.points} = LeftTimes \cup CutTimes(ScansUpTo(Capture), Capture)
         /\ {p.t : p \in pcl_proc_next'} = RestTimes(ScansUpTo(Capture), Capture)
<1> DEFINE k == ScansUpTo(Capture)
<1>1. /\ k \in 0 .. Len(lid_raw_data_buffer) /\ Len(lid_raw_data_buffer) \in Nat /\ Capture \in Int
      /\ Base \in Int
  <2>1. Capture \in Int /\ Base \in Int
    BY CutLioIs, CapturedIs, BaseIs
  <2> QED  BY <2>1, ScansUpToIs, Known
<1> HIDE DEF k
<1>2. \A i \in 1 .. k : i \in 1 .. Len(lid_raw_data_buffer)
  BY <1>1
<1>3. ASSUME NEW b \in Int
      PROVE  /\ \A p \in PointsUpTo(k, b) : p.t \in UNION {TimesOf(i) : i \in 1 .. k} /\ p.t = p.c + b
             /\ \A x \in UNION {TimesOf(i) : i \in 1 .. k} : \E p \in PointsUpTo(k, b) : p.t = x
  <2>1. ASSUME NEW p \in PointsUpTo(k, b)
        PROVE  p.t \in UNION {TimesOf(i) : i \in 1 .. k} /\ p.t = p.c + b
    <3>1. PICK i \in 1 .. k : p \in PointsOf(i, b)
      BY <2>1 DEF PointsUpTo
    <3>2. p.t \in TimesOf(i) /\ p.c \in Int /\ p.t = b + p.c
      BY <1>2, <1>3, <3>1, ScanPoint
    <3> QED  BY <1>3, <3>1, <3>2
  <2>2. ASSUME NEW x \in UNION {TimesOf(i) : i \in 1 .. k}
        PROVE  \E p \in PointsUpTo(k, b) : p.t = x
    <3>1. PICK i \in 1 .. k : x \in TimesOf(i)
      BY <2>2
    <3>2. PICK p \in PointsOf(i, b) : p.t = x
      BY <1>2, <1>3, <3>1, ScanPoint
    <3>3. p \in PointsUpTo(k, b)
      BY <3>2 DEF PointsUpTo
    <3> QED  BY <3>2, <3>3
  <2> QED  BY <2>1, <2>2
<1> DEFINE U == UNION {TimesOf(i) : i \in 1 .. k}
<1>4. /\ \A p \in PointsUpTo(k, Base) : p.t \in U /\ p.t = p.c + Base
      /\ \A x \in U : \E p \in PointsUpTo(k, Base) : p.t = x
  BY <1>1, <1>3
<1>5. /\ \A p \in PointsUpTo(k, Capture) : p.t \in U /\ p.t = p.c + Capture
      /\ \A x \in U : \E p \in PointsUpTo(k, Capture) : p.t = x
  BY <1>1, <1>3
<1>6. CutTimes(k, Capture) = {x \in U : x < Capture} /\ RestTimes(k, Capture) = {x \in U : x >= Capture}
  BY DEF CutTimes, RestTimes
<1> HIDE DEF U
<1>7. {p.t : p \in CurUpTo(k, Capture)} = CutTimes(k, Capture)
  BY <1>4, <1>6 DEF CurUpTo
<1>8. {p.t : p \in RestUpTo(k, Capture)} = RestTimes(k, Capture)
  BY <1>5, <1>6 DEF RestUpTo, NextBase
<1>9. /\ pkg'.points = pcl_proc_next \cup CurUpTo(k, Capture) /\ pcl_proc_next' = RestUpTo(k, Capture)
  BY CutLioIs DEF k
<1>10. {p.t : p \in pkg'.points} = LeftTimes \cup CutTimes(k, Capture)
  BY <1>7, <1>9 DEF LeftTimes
<1> QED  BY <1>8, <1>9, <1>10 DEF k

\* A cut takes every point before its end, and the left-over ones, and no other.
LEMMA CutLioDelivers ==
  ASSUME SInv, FrontInv, CutLio
  PROVE  /\ {t \in WaitingPoints : t < Capture} \subseteq {p.t : p \in pkg'.points}
         /\ LeftTimes \subseteq {p.t : p \in pkg'.points}
         /\ {p.t : p \in pkg'.points} \subseteq LeftTimes \cup {t \in WaitingPoints : t <= Capture}
         /\ WaitingPoints' = WaitingPoints \ {p.t : p \in pkg'.points}
         /\ {p.t : p \in pcl_proc_next'} \subseteq {t \in WaitingPoints' : t < Capture + ScanLen}
<1> DEFINE k == ScansUpTo(Capture)
           N == Len(lid_raw_data_buffer)
           scan == {p.t : p \in pkg'.points}
<1>1. /\ k \in 0 .. N /\ N \in Nat /\ Capture \in Int /\ ScanLen \in Nat
      /\ \A i \in 1 .. N : (i <= k <=> lid_header_time_buffer[i] <= Capture) /\ lid_header_time_buffer[i] \in Int
  <2>1. Capture \in Int
    BY CutLioIs, CapturedIs
  <2> QED  BY <2>1, ScansUpToIs, Known, Constants
<1>2. scan = LeftTimes \cup CutTimes(k, Capture) /\ {p.t : p \in pcl_proc_next'} = RestTimes(k, Capture)
  BY CutPoints
<1>3. lid_raw_data_buffer' = Drop(lid_raw_data_buffer, k)
  BY CutLioIs
<1> HIDE DEF k, scan
<1>4. \A i \in 1 .. N : \A x \in TimesOf(i) :
        x \in Int /\ lid_header_time_buffer[i] <= x /\ x < lid_header_time_buffer[i] + ScanLen
  <2>1. ASSUME NEW i \in 1 .. N, NEW x \in TimesOf(i)
        PROVE  x \in Times /\ lid_header_time_buffer[i] <= x /\ x < lid_header_time_buffer[i] + ScanLen
    <3>1. 0 \in Int
      OBVIOUS
    <3> QED  BY <3>1, ScanPoint
  <2> QED  BY <2>1, Constants
<1>5. \A x \in LeftTimes : x \in Int /\ \A i \in 1 .. N : x < lid_header_time_buffer[i]
  <2>1. ASSUME NEW p \in pcl_proc_next  PROVE p.t \in Int /\ \A i \in 1 .. N : p.t < lid_header_time_buffer[i]
    BY <2>1, Known DEF FrontInv, LeftInv, Leftover
  <2> QED  BY <2>1 DEF LeftTimes
<1>6. \A x : x \in CutTimes(k, Capture) <=> x < Capture /\ \E i \in 1 .. N : i <= k /\ x \in TimesOf(i)
  <2>1. \A i : i \in 1 .. k <=> i \in 1 .. N /\ i <= k
    BY <1>1
  <2> QED  BY <2>1 DEF CutTimes
<1>7. \A x : x \in RestTimes(k, Capture) <=> x >= Capture /\ \E i \in 1 .. N : i <= k /\ x \in TimesOf(i)
  <2>1. \A i : i \in 1 .. k <=> i \in 1 .. N /\ i <= k
    BY <1>1
  <2> QED  BY <2>1 DEF RestTimes
<1>8. \A x : x \in WaitingPoints <=> x \in LeftTimes \/ \E i \in 1 .. N : x \in TimesOf(i)
  BY WaitingIs
<1>9. \A x : x \in WaitingPoints' <=>
               x \in RestTimes(k, Capture) \/ \E i \in 1 .. N : k < i /\ x \in TimesOf(i)
  BY <1>1, <1>2, <1>3, WaitingAfter
<1> HIDE DEF N
<1>10. ASSUME NEW x \in WaitingPoints, x < Capture  PROVE x \in scan
  <2>1. CASE x \in LeftTimes
    BY <1>2, <2>1
  <2>2. ASSUME NEW i \in 1 .. N, x \in TimesOf(i)  PROVE x \in scan
    <3>1. i <= k
      BY <1>1, <1>4, <1>10, <2>2
    <3> QED  BY <1>2, <1>6, <1>10, <2>2, <3>1
  <2> QED  BY <1>8, <1>10, <2>1, <2>2
<1>11. ASSUME NEW x \in scan  PROVE x \in LeftTimes \/ (x \in WaitingPoints /\ x <= Capture)
  <2>1. CASE x \in CutTimes(k, Capture)
    <3>1. PICK i \in 1 .. N : i <= k /\ x \in TimesOf(i) /\ x < Capture
      BY <1>6, <2>1
    <3>2. x \in Int
      BY <1>4, <3>1
    <3> QED  BY <1>1, <1>8, <3>1, <3>2
  <2> QED  BY <1>2, <1>11, <2>1
<1>12. ASSUME NEW x \in WaitingPoints'  PROVE x \in WaitingPoints /\ x \notin scan
  <2>1. PICK i \in 1 .. N : x \in TimesOf(i) /\ (k < i \/ x >= Capture)
    BY <1>7, <1>9, <1>12
  <2>2. x \in Int /\ lid_header_time_buffer[i] <= x /\ lid_header_time_buffer[i] \in Int
    BY <1>1, <1>4, <2>1
  <2>3. x \notin LeftTimes
    BY <1>5, <2>1, <2>2
  <2>4. x >= Capture
    <3>1. CASE k < i
      <4>1. ~ (i <= k)
        BY <1>1, <3>1
      <4>2. ~ (lid_header_time_buffer[i] <= Capture)
        BY <1>1, <4>1
      <4> QED  BY <1>1, <2>2, <4>2
    <3> QED  BY <2>1, <3>1
  <2>5. ~ (x < Capture)
    BY <1>1, <2>2, <2>4
  <2> QED  BY <1>2, <1>6, <1>8, <2>1, <2>3, <2>5
<1>13. ASSUME NEW x \in WaitingPoints, x \notin scan  PROVE x \in WaitingPoints'
  <2>1. x \notin LeftTimes
    BY <1>2, <1>13
  <2>2. PICK i \in 1 .. N : x \in TimesOf(i)
    BY <1>8, <1>13, <2>1
  <2>3. CASE i <= k
    <3>1. ~ (x < Capture) /\ x \in Int
      BY <1>2, <1>4, <1>6, <1>13, <2>2, <2>3
    <3>2. x >= Capture
      BY <1>1, <3>1
    <3> QED  BY <1>7, <1>9, <2>2, <2>3, <3>2
  <2>4. CASE ~ (i <= k)
    <3>1. k < i
      BY <1>1, <2>4
    <3> QED  BY <1>9, <2>2, <3>1
  <2> QED  BY <2>3, <2>4
<1>14. ASSUME NEW x \in RestTimes(k, Capture)  PROVE x \in WaitingPoints' /\ x < Capture + ScanLen
  <2>1. PICK i \in 1 .. N : i <= k /\ x \in TimesOf(i)
    BY <1>7, <1>14
  <2>2. x \in Int /\ x < lid_header_time_buffer[i] + ScanLen /\ lid_header_time_buffer[i] <= Capture
        /\ lid_header_time_buffer[i] \in Int
    BY <1>1, <1>4, <2>1
  <2>3. x < Capture + ScanLen
    BY <1>1, <2>2
  <2> QED  BY <1>9, <1>14, <2>3
<1>15. scan \subseteq LeftTimes \cup {t \in WaitingPoints : t <= Capture}
  BY <1>11
<1>16. WaitingPoints' = WaitingPoints \ scan
  BY <1>12, <1>13
<1> QED  BY <1>2, <1>10, <1>14, <1>15, <1>16 DEF scan

Samples == {imu_buffer[i] : i \in 1 .. Len(imu_buffer)}

LEMMA CutLioSamples ==
  ASSUME SInv, FrontInv, CutLio
  PROVE  /\ \E s \in Samples : s >= Capture
         /\ pkg'.imu = {s \in Samples : s <= Capture /\ s > Base}
         /\ Samples' = {s \in Samples : s > Capture}
<1>1. Capture \in Int /\ imu_buffer # <<>> /\ Capture <= Back(imu_buffer)
  BY CutLioIs, CapturedIs
<1>2. \E s \in Samples : s >= Capture
  <2>1. Back(imu_buffer) \in Samples /\ Back(imu_buffer) = last_timestamp_imu /\ last_timestamp_imu \in Int
    BY <1>1, NewestIsIn, Known DEF Samples, ItemsOf
  <2>2. Back(imu_buffer) >= Capture
    BY <1>1, <2>1
  <2> QED  BY <2>1, <2>2
<1>3. pkg'.imu = {s \in ItemsOf(imu_buffer) : s <= Capture /\ s \in {t \in Times : t > Base}}
  <2>1. pkg'.imu = ItemsOf(Select(SubSeq(imu_buffer, 1, FrontUpTo(imu_buffer, Capture)), {t \in Times : t > Base}))
    BY CutLioIs DEF SamplesUpTo
  <2> DEFINE W == {t \in Times : t > Base}
  <2> HIDE DEF W
  <2>2. ItemsOf(Select(SubSeq(imu_buffer, 1, FrontUpTo(imu_buffer, Capture)), W))
          = {s \in ItemsOf(imu_buffer) : s <= Capture /\ s \in W}
    BY <1>1, ImuIsInt, TakenIs
  <2> QED  BY <2>1, <2>2 DEF W
<1>4. ItemsOf(imu_buffer) = Samples /\ \A s \in Samples : s \in Times
  BY DEF ItemsOf, Samples, SInv
<1>5. Samples' = {s \in Samples : s > Capture}
  <2>1. ItemsOf(Drop(imu_buffer, FrontUpTo(imu_buffer, Capture))) = {s \in ItemsOf(imu_buffer) : s > Capture}
    BY <1>1, ImuIsInt, DropOver
  <2>2. Samples' = ItemsOf(Drop(imu_buffer, FrontUpTo(imu_buffer, Capture)))
    BY CutLioIs DEF Samples, ItemsOf
  <2> QED  BY <1>4, <2>1, <2>2
<1>6. pkg'.imu = {s \in Samples : s <= Capture /\ s > Base}
  BY <1>3, <1>4
<1> QED  BY <1>2, <1>5, <1>6

\* What the sample of a package must reach back to.
LEMMA BaseReachesBack ==
  ASSUME SInv, FrontInv, CutLio, NEW s \in Int, pkg.end < s,
         pkg.end = -1 => \E t \in {p.t : p \in pkg'.points} : t < s
  PROVE  s > Base
<1>1. /\ Base \in Nat /\ pkg.end \in Int
      /\ pkg.end # -1 => Base <= pkg.end
      /\ pkg.end = -1 => Base = lid_header_time_buffer[1]
  BY CutLioIs, BaseIs, Known
<1>2. CASE pkg.end # -1
  BY <1>1, <1>2
<1>3. CASE pkg.end = -1
  <2>1. PICK t \in {p.t : p \in pkg'.points} : t < s
    BY <1>3
  <2>2. LeftTimes = {}
    BY <1>3 DEF FrontInv, LeftInv, LeftTimes
  <2>3. t \in CutTimes(ScansUpTo(Capture), Capture)
    BY <2>1, <2>2, CutPoints
  <2>4. PICK i \in 1 .. ScansUpTo(Capture) : t \in TimesOf(i)
    BY <2>3 DEF CutTimes
  <2>5. i \in 1 .. Len(lid_raw_data_buffer) /\ Len(lid_raw_data_buffer) \in Nat
    <3>1. Capture \in Int
      BY CutLioIs, CapturedIs
    <3> QED  BY <2>4, <3>1, ScansUpToIs, Known
  <2>6. t \in Times /\ lid_header_time_buffer[i] <= t /\ lid_header_time_buffer[i] \in ScanStarts
    <3>1. 0 \in Int
      OBVIOUS
    <3> QED  BY <2>4, <2>5, <3>1, ScanPoint
  <2>7. t \in Nat /\ lid_header_time_buffer[i] \in Nat
    BY <2>6, Constants
  <2>8. lid_header_time_buffer[1] <= lid_header_time_buffer[i]
    <3>1. CASE i = 1
      BY <2>7, <3>1
    <3>2. CASE i # 1
      <4>1. 1 \in 1 .. Len(lid_raw_data_buffer) /\ 1 < i
        BY <2>5, <3>2
      <4>2. lid_header_time_buffer[1] < lid_header_time_buffer[i]
        BY <2>5, <4>1 DEF FrontInv, ScansInv, QueuesInOrder
      <4> QED  BY <1>1, <1>3, <2>7, <4>2
    <3> QED  BY <3>1, <3>2
  <2> QED  BY <1>1, <1>3, <2>1, <2>6, <2>7, <2>8
<1> QED  BY <1>2, <1>3

LEMMA CutLioStreams ==
  ASSUME SInv, FrontInv, CutLio, NEW end \in Times, end = Capture
  PROVE  Stream!Scan(end)
<1> DEFINE cut == pkg.end
           scan == {p.t : p \in pkg'.points}
<1>1. /\ slam_mode = "LIVO" /\ slam_mode' = slam_mode /\ lio_vio_flg # "LIO" /\ lio_vio_flg' = "LIO"
      /\ pkg'.end = Capture /\ pkg'.kind = "LIO" /\ Capture \in Times /\ Capture > pkg.end
  <2>1. /\ slam_mode = "LIVO" /\ slam_mode' = slam_mode /\ lio_vio_flg # "LIO" /\ lio_vio_flg' = "LIO"
        /\ pkg'.end = Capture /\ pkg'.kind = "LIO" /\ img_time_buffer # <<>>
    BY CutLioIs
  <2>2. Capture \in Times /\ Capture \in Int /\ pkg.end < Capture /\ pkg.end \in Int
    BY <2>1, CapturedIs, Known
  <2> QED  BY <2>1, <2>2
<1>2. /\ {t \in WaitingPoints : t < Capture} \subseteq scan
      /\ LeftTimes \subseteq scan
      /\ scan \subseteq LeftTimes \cup {t \in WaitingPoints : t <= Capture}
      /\ WaitingPoints' = WaitingPoints \ scan
      /\ {p.t : p \in pcl_proc_next'} \subseteq {t \in WaitingPoints' : t < Capture + ScanLen}
  BY CutLioDelivers
<1>3. /\ \E s \in Samples : s >= Capture
      /\ pkg'.imu = {s \in Samples : s <= Capture /\ s > Base}
      /\ Samples' = {s \in Samples : s > Capture}
  BY CutLioSamples
<1>4. ASSUME NEW s \in Samples, cut < s, s <= Capture, cut = -1 => \E t \in scan : t < s
      PROVE  s \in pkg'.imu
  <2>1. s \in Int
    BY Constants DEF Samples, SInv
  <2>2. s > Base
    BY <1>4, <2>1, BaseReachesBack
  <2> QED  BY <1>3, <1>4, <2>2
<1> HIDE DEF cut, scan
<1>5. /\ (slam_mode = "LIVO")' = (slam_mode = "LIVO")
      /\ (IF slam_mode = "LIVO" /\ lio_vio_flg = "LIO" THEN "image" ELSE "scan") = "scan"
      /\ (IF slam_mode = "LIVO" /\ lio_vio_flg = "LIO" THEN "image" ELSE "scan")' = "image"
  BY <1>1
<1>6. scan = {p.t : p \in pkg.points}' /\ LeftTimes = {p.t : p \in pcl_proc_next}
      /\ Samples = {imu_buffer[i] : i \in 1 .. Len(imu_buffer)} /\ cut = pkg.end
  BY DEF scan, LeftTimes, Samples, cut
<1>7. pkg'.imu \subseteq {s \in Samples : s <= Capture}
  BY <1>3
<1> QED  BY <1>1, <1>2, <1>3, <1>4, <1>5, <1>6, <1>7 DEF Stream!Scan, Stream!NoCut, Samples

LEMMA CutVioStreams ==
  ASSUME SInv, FrontInv, CutVio
  PROVE  Stream!Image
<1>1. /\ UNCHANGED <<slam_mode, lid_raw_data_buffer, imu_buffer, pcl_proc_next>>
      /\ slam_mode = "LIVO" /\ lio_vio_flg = "LIO" /\ lio_vio_flg' = "VIO"
      /\ pkg' = [kind |-> "VIO", beg |-> last_lio_update_time, end |-> Capture, points |-> {}, imu |-> {}]
  BY DEF CutVio, AfterVio, lidarVars, imuVars
<1>2. Capture = pkg.end
  BY <1>1 DEF SInv, VioAtCut
<1>3. pkg'.end = pkg.end /\ pkg'.kind = "VIO" /\ pkg'.points = {} /\ pkg'.imu = {}
  BY <1>1, <1>2
<1>4. WaitingPoints' = WaitingPoints
  BY <1>1 DEF WaitingPoints
<1> QED  BY <1>1, <1>3, <1>4 DEF Stream!Image

\* Without a camera a package is the first scan, whole.
LEMMA WholeScanDelivers ==
  ASSUME SInv, FrontInv, WholeScan
  PROVE  /\ {p.t : p \in pkg'.points} = TimesOf(1) /\ LeftTimes = {} /\ {p.t : p \in pcl_proc_next'} = {}
         /\ {t \in WaitingPoints : t < ScanEnd} \subseteq TimesOf(1)
         /\ TimesOf(1) \subseteq {t \in WaitingPoints : t <= ScanEnd}
         /\ WaitingPoints' = WaitingPoints \ TimesOf(1)
<1> DEFINE N == Len(lid_raw_data_buffer)
<1>1. /\ slam_mode = "ONLY_LIO" /\ lid_raw_data_buffer # <<>> /\ 1 \in 1 .. N /\ N \in Nat
      /\ ScanEnd = lid_header_time_buffer[1] + lid_raw_data_buffer[1].n - 1
      /\ InHand.h = lid_raw_data_buffer[1].h /\ InHand.n = lid_raw_data_buffer[1].n
      /\ lid_raw_data_buffer' = Drop(lid_raw_data_buffer, 1) /\ pcl_proc_next' = pcl_proc_next
      /\ pkg'.points = {[t |-> InHand.h + o, c |-> o] : o \in 0 .. InHand.n - 1}
  BY WholeScanIs, Known
<1>2. /\ lid_raw_data_buffer[1].h = lid_header_time_buffer[1] /\ lid_header_time_buffer[1] \in Nat
      /\ lid_raw_data_buffer[1].n \in Nat /\ lid_raw_data_buffer[1].n >= 1
  BY <1>1, FirstScan
<1>3. {p.t : p \in pkg'.points} = TimesOf(1)
  <2> DEFINE h == lid_raw_data_buffer[1].h
             n == lid_raw_data_buffer[1].n
  <2>1. pkg'.points = {[t |-> h + o, c |-> o] : o \in 0 .. n - 1} /\ TimesOf(1) = {h + o : o \in 0 .. n - 1}
    BY <1>1 DEF TimesOf
  <2> HIDE DEF h, n
  <2>2. ASSUME NEW p \in pkg'.points  PROVE p.t \in TimesOf(1)
    <3>1. PICK o \in 0 .. n - 1 : p = [t |-> h + o, c |-> o]
      BY <2>1, <2>2
    <3> QED  BY <2>1, <3>1
  <2>3. ASSUME NEW o \in 0 .. n - 1  PROVE \E p \in pkg'.points : p.t = h + o
    <3>1. [t |-> h + o, c |-> o] \in pkg'.points
      BY <2>1
    <3> QED  BY <3>1
  <2>4. \A x \in TimesOf(1) : \E p \in pkg'.points : p.t = x
    BY <2>1, <2>3
  <2> QED  BY <2>2, <2>4
<1>4. pcl_proc_next = {} /\ LeftTimes = {} /\ {p.t : p \in pcl_proc_next'} = {}
  <2>1. pcl_proc_next = {}
    BY <1>1 DEF FrontInv, LeftInv
  <2> QED  BY <1>1, <2>1 DEF LeftTimes
<1>5. \A x \in TimesOf(1) : x \in Int /\ x <= ScanEnd
  BY <1>1, <1>2 DEF TimesOf
<1>6. ScanEnd \in TimesOf(1)
  <2>1. /\ lid_raw_data_buffer[1].n - 1 \in 0 .. lid_raw_data_buffer[1].n - 1
        /\ ScanEnd = lid_raw_data_buffer[1].h + (lid_raw_data_buffer[1].n - 1)
    BY <1>1, <1>2
  <2> QED  BY <2>1 DEF TimesOf
<1>7. ASSUME NEW i \in 1 .. N, 1 < i, NEW x \in TimesOf(i)  PROVE ScanEnd < x /\ x \in Int /\ x \notin TimesOf(1)
  <2>1. ScanEnd < lid_header_time_buffer[i]
    BY <1>1, <1>6, <1>7, ScansApart
  <2>2. x \in Times /\ lid_header_time_buffer[i] <= x /\ lid_header_time_buffer[i] \in ScanStarts
    <3>1. 0 \in Int
      OBVIOUS
    <3> QED  BY <3>1, ScanPoint
  <2>3. x \in Nat /\ lid_header_time_buffer[i] \in Nat /\ ScanEnd \in Int
    BY <1>5, <1>6, <2>2, Constants
  <2>4. ScanEnd < x
    BY <2>1, <2>2, <2>3
  <2> QED  BY <1>5, <2>3, <2>4
<1>8. \A x : x \in WaitingPoints <=> \E i \in 1 .. N : x \in TimesOf(i)
  BY <1>4, WaitingIs
<1>9. \A x : x \in WaitingPoints' <=> \E i \in 1 .. N : 1 < i /\ x \in TimesOf(i)
  <2>1. \A x : x \in WaitingPoints' <=> x \in {} \/ \E i \in 1 .. N : 1 < i /\ x \in TimesOf(i)
    <3>1. 1 \in 0 .. N
      BY <1>1
    <3> QED  BY <1>1, <1>4, <3>1, WaitingAfter
  <2> QED  BY <2>1
<1>10. ASSUME NEW x, NEW i \in 1 .. N, x \in TimesOf(i), ~ (1 < i)  PROVE x \in TimesOf(1)
  <2>1. i = 1
    BY <1>1, <1>10
  <2> QED  BY <1>10, <2>1
<1> HIDE DEF N
<1>11. ASSUME NEW x \in WaitingPoints, x < ScanEnd  PROVE x \in TimesOf(1)
  <2>1. PICK i \in 1 .. N : x \in TimesOf(i)
    BY <1>8, <1>11
  <2>2. ~ (1 < i)
    <3>1. ASSUME 1 < i  PROVE FALSE
      <4>1. ScanEnd < x /\ x \in Int /\ ScanEnd \in Int
        BY <1>5, <1>6, <1>7, <2>1, <3>1
      <4> QED  BY <1>11, <4>1
    <3> QED  BY <3>1
  <2> QED  BY <1>10, <2>1, <2>2
<1>12. \A x \in TimesOf(1) : x \in WaitingPoints /\ x <= ScanEnd
  BY <1>1, <1>5, <1>8
<1>13. \A x : x \in WaitingPoints' <=> x \in WaitingPoints /\ x \notin TimesOf(1)
  BY <1>7, <1>8, <1>9, <1>10
<1> QED  BY <1>3, <1>4, <1>11, <1>12, <1>13

LEMMA WholeScanSamples ==
  ASSUME SInv, FrontInv, WholeScan
  PROVE  /\ \E s \in Samples : s >= ScanEnd
         /\ pkg'.imu = {s \in Samples : s <= ScanEnd}
         /\ Samples' = {s \in Samples : s > ScanEnd}
<1>1. ScanEnd \in Int /\ imu_buffer # <<>> /\ last_timestamp_imu >= ScanEnd
  <2>1. ScanEnd \in Times
    BY WholeScanIs, FirstScan
  <2> QED  BY <2>1, WholeScanIs, Constants
<1>2. \E s \in Samples : s >= ScanEnd
  <2>1. Back(imu_buffer) \in Samples /\ Back(imu_buffer) = last_timestamp_imu
    BY <1>1, NewestIsIn DEF Samples, ItemsOf
  <2> QED  BY <1>1, <2>1
<1> DEFINE k == FrontUpTo(imu_buffer, ScanEnd)
<1>3. k \in 0 .. Len(imu_buffer) /\ \A i \in 1 .. Len(imu_buffer) : i <= k <=> imu_buffer[i] <= ScanEnd
  BY <1>1, ImuIsInt, FrontIs
<1>4. pkg'.imu = {SubSeq(imu_buffer, 1, k)[i] : i \in 1 .. k}
  <2> DEFINE X == {SubSeq(imu_buffer, 1, k)[i] : i \in 1 .. k}
             P == {[t |-> InHand.h + o, c |-> o] : o \in 0 .. InHand.n - 1}
  <2>1. pkg' = [kind |-> "LIO", beg |-> Base, end |-> ScanEnd, points |-> P, imu |-> X]
    BY WholeScanIs
  <2> HIDE DEF X, P
  <2>2. pkg'.imu = X
    BY <2>1
  <2> QED  BY <2>2 DEF X
<1>5. Samples' = {s \in Samples : s > ScanEnd}
  <2>1. ItemsOf(Drop(imu_buffer, FrontUpTo(imu_buffer, ScanEnd))) = {s \in ItemsOf(imu_buffer) : s > ScanEnd}
    BY <1>1, ImuIsInt, DropOver
  <2>2. Samples' = ItemsOf(Drop(imu_buffer, FrontUpTo(imu_buffer, ScanEnd)))
    BY WholeScanIs DEF Samples, ItemsOf
  <2>3. ItemsOf(imu_buffer) = Samples
    BY DEF ItemsOf, Samples
  <2> QED  BY <2>1, <2>2, <2>3
<1> HIDE DEF k
<1>6. Len(imu_buffer) \in Nat /\ \A i \in 1 .. k : i \in 1 .. Len(imu_buffer) /\ i <= k /\ SubSeq(imu_buffer, 1, k)[i] = imu_buffer[i]
  <2>1. imu_buffer \in Seq(Int) /\ Len(imu_buffer) \in Nat
    BY ImuIsInt, LenProperties
  <2> QED  BY <1>3, <2>1
<1>7. pkg'.imu = {s \in Samples : s <= ScanEnd}
  <2>1. ASSUME NEW i \in 1 .. k  PROVE SubSeq(imu_buffer, 1, k)[i] \in {s \in Samples : s <= ScanEnd}
    BY <1>3, <1>6 DEF Samples
  <2>2. ASSUME NEW i \in 1 .. Len(imu_buffer), imu_buffer[i] <= ScanEnd
        PROVE  imu_buffer[i] \in {SubSeq(imu_buffer, 1, k)[j] : j \in 1 .. k}
    <3>1. i \in 1 .. k
      BY <1>3, <1>6, <2>2
    <3> QED  BY <1>6, <3>1
  <2> QED  BY <1>4, <2>1, <2>2 DEF Samples
<1> QED  BY <1>2, <1>5, <1>7

LEMMA WholeScanStreams ==
  ASSUME SInv, FrontInv, WholeScan, NEW end \in Times, end = ScanEnd
  PROVE  Stream!Scan(end)
<1>1. /\ slam_mode = "ONLY_LIO" /\ slam_mode' = slam_mode /\ lid_raw_data_buffer # <<>>
      /\ pkg'.end = ScanEnd /\ pkg'.kind = "LIO"
  BY WholeScanIs
<1>2. ScanEnd \in Times /\ ScanEnd > pkg.end
  <2>1. /\ ScanEnd = lid_header_time_buffer[1] + lid_raw_data_buffer[1].n - 1
        /\ ScanEnd \in Times /\ pkg.end < lid_header_time_buffer[1]
        /\ lid_raw_data_buffer[1].n \in 1 .. ScanLen /\ lid_header_time_buffer[1] \in Nat
    BY <1>1, WholeScanIs, FirstScan
  <2> QED  BY <2>1, Known, Constants, SMTT(20)
<1> DEFINE scan == {p.t : p \in pkg'.points}
<1>3. /\ scan = TimesOf(1) /\ LeftTimes = {} /\ {p.t : p \in pcl_proc_next'} = {}
      /\ {t \in WaitingPoints : t < ScanEnd} \subseteq scan
      /\ scan \subseteq {t \in WaitingPoints : t <= ScanEnd}
      /\ WaitingPoints' = WaitingPoints \ scan
  BY WholeScanDelivers
<1>4. /\ \E s \in Samples : s >= ScanEnd
      /\ pkg'.imu = {s \in Samples : s <= ScanEnd}
      /\ Samples' = {s \in Samples : s > ScanEnd}
  BY WholeScanSamples
<1> HIDE DEF scan
<1>5. LeftTimes \subseteq scan /\ scan \subseteq LeftTimes \cup {t \in WaitingPoints : t <= ScanEnd}
      /\ {p.t : p \in pcl_proc_next'} \subseteq {t \in WaitingPoints' : t < ScanEnd + ScanLen}
  BY <1>3
<1>6. /\ (slam_mode = "LIVO") = FALSE /\ (slam_mode = "LIVO")' = FALSE
      /\ (IF slam_mode = "LIVO" /\ lio_vio_flg = "LIO" THEN "image" ELSE "scan") = "scan"
      /\ (IF slam_mode = "LIVO" /\ lio_vio_flg = "LIO" THEN "image" ELSE "scan")' = "scan"
  BY <1>1
<1>7. scan = {p.t : p \in pkg.points}' /\ LeftTimes = {p.t : p \in pcl_proc_next}
      /\ Samples = {imu_buffer[i] : i \in 1 .. Len(imu_buffer)}
  BY DEF scan, LeftTimes, Samples
<1>8. pkg'.imu \subseteq {s \in Samples : s <= ScanEnd}
      /\ \A s \in Samples : s <= ScanEnd => s \in pkg'.imu
  BY <1>4
<1> QED  BY <1>1, <1>2, <1>3, <1>4, <1>5, <1>6, <1>7, <1>8 DEF Stream!Scan, Stream!NoCut, Samples

LEMMA StreamStep == MaxLoopBacks = 0 /\ SInv /\ FrontInv /\ SInv' /\ [Next]_vars => [Stream!Next]_(Stream!vars)
<1> SUFFICES ASSUME MaxLoopBacks = 0, SInv, FrontInv, SInv', [Next]_vars
             PROVE  Stream!Next \/ UNCHANGED Stream!vars
  OBVIOUS
<1>1. CASE UNCHANGED <<slam_mode, lid_raw_data_buffer, pcl_proc_next, imu_buffer, lio_vio_flg, pkg>>
  BY <1>1, StreamStutters
<1>2. ASSUME NEW h \in ScanStarts, NEW n \in ScanSizes, LivoxPclCbk(h, n)  PROVE Stream!Next
  BY <1>2, SyncAssumption, LidarReceives DEF Stream!Next
<1>3. ASSUME NEW s \in Times, ImuCbk(s)  PROVE Stream!Next
  BY <1>3, ImuReceives DEF Stream!Next
<1>4. CASE (\E s \in Times : ImgCbk(s)) \/ LoopbackTimeout \/ ThrowImage \/ SyncWaits \/ UNCHANGED vars
  BY <1>1, <1>4 DEF ImgCbk, LoopbackTimeout, ThrowImage, SyncWaits, vars, lidarVars, imuVars, syncVars
<1>5. CASE CutLio
  <2>1. PICK end \in Times : end = Capture
    BY <1>5, CutLioIs, CapturedIs
  <2>2. Stream!Scan(end)
    BY <1>5, <2>1, CutLioStreams
  <2> QED  BY <2>2 DEF Stream!Next
<1>6. CASE CutVio
  BY <1>6, CutVioStreams DEF Stream!Next
<1>7. CASE WholeScan
  <2>1. PICK end \in Times : end = ScanEnd
    BY <1>7, WholeScanIs, FirstScan
  <2>2. Stream!Scan(end)
    BY <1>7, <2>1, WholeScanStreams
  <2> QED  BY <2>2 DEF Stream!Next
<1> QED  BY <1>2, <1>3, <1>4, <1>5, <1>6, <1>7 DEF Next, SyncPackages

LEMMA StreamInit == Init => Stream!Init
<1> SUFFICES ASSUME Init  PROVE Stream!Init
  OBVIOUS
<1>1. Len(<<>>) = 0 /\ 1 .. 0 = {}
  OBVIOUS
<1>2. WaitingPoints = {}
  BY <1>1 DEF Init, WaitingPoints
<1>3. {imu_buffer[i] : i \in 1 .. Len(imu_buffer)} = {}
  BY <1>1 DEF Init
<1>4. {p.t : p \in pcl_proc_next} = {} /\ {p.t : p \in pkg.points} = {}
  BY DEF Init
<1>5. pkg.kind = "none" /\ pkg.end = -1 /\ pkg.imu = {} /\ lio_vio_flg = "WAIT"
  BY DEF Init
<1> QED  BY <1>2, <1>3, <1>4, <1>5 DEF Stream!Init, Stream!NoCut

\* As long as the scans come in order, what the estimator gets is a stream of
\* packages without gaps, whatever the three sensors lose, repeat and delay and
\* whatever the lengths of the scans and the images' gaps.
THEOREM ImplementsStreamHolds == ASSUME MaxLoopBacks = 0  PROVE Spec => ImplementsStream
<1>1. MaxLoopBacks = 0
  OBVIOUS
<1>2. Spec => [](SInv /\ FrontInv)
  BY FrontInvariant
<1>3. SInv /\ FrontInv /\ (SInv /\ FrontInv)' /\ [Next]_vars => [Stream!Next]_(Stream!vars)
  BY <1>1, StreamStep
<1> QED  BY <1>2, <1>3, StreamInit, PTL DEF Spec, ImplementsStream, Stream!Spec
=============================================================================
