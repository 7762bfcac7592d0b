------------------------- MODULE LivoxDriverProofs -------------------------
(***************************************************************************)
(* LivoxDriver for any number of LiDARs, any settings, any ring size and   *)
(* any width of its indices; LivoxFramer for any packets and frames, with  *)
(* what avia_handler makes of their times.                                 *)
(***************************************************************************)
EXTENDS LivoxDriver, LivoxFramer, PreprocessProofs

-----------------------------------------------------------------------------
(* Arithmetic of indices that wrap around. *)

\* An index difference modulo Word, without the modulus.
LEMMA Difference ==
  ASSUME NEW w \in 0 .. Word - 1, NEW r \in 0 .. Word - 1
  PROVE  (w - r) % Word = IF w >= r THEN w - r ELSE w - r + Word
BY DriverAssumption

\* A successor modulo Word, without the modulus.
LEMMA Successor ==
  ASSUME NEW w \in 0 .. Word - 1
  PROVE  (w + 1) % Word = IF w = Word - 1 THEN 0 ELSE w + 1
BY DriverAssumption

\* Division with remainder, as far as it is needed here.
LEMMA Division ==
  ASSUME NEW a \in Nat, NEW d \in Nat \ {0}
  PROVE  \E q \in Nat : a = d * q + (a % d)
<1>1. a = d * (a \div d) + (a % d) /\ a \div d \in Nat
  OBVIOUS
<1> QED  BY <1>1

\* A proper multiple of Size does not fit below it.
LEMMA NoMultipleBelow ==
  ASSUME NEW d \in Nat \ {0}, NEW q \in Int
  PROVE  d * q \notin 1 .. d - 1
<1>1. CASE q <= 0
  BY <1>1
<1>2. CASE q >= 1
  BY <1>2
<1> QED  BY <1>1, <1>2

\* Indices that differ by less than a whole ring name different slots.
LEMMA DifferentSlots ==
  ASSUME NEW w \in 0 .. Word - 1, NEW r \in 0 .. Word - 1,
         (w - r) % Word \in 1 .. Size - 1
  PROVE  w % Size # r % Size
<1> SUFFICES ASSUME w % Size = r % Size  PROVE FALSE
  OBVIOUS
<1> Size \in Nat \ {0} /\ Word \in Nat /\ w \in Nat /\ r \in Nat
  BY DriverAssumption
<1>1. PICK i \in Nat : w = Size * i + (w % Size)
  BY Division
<1>2. PICK j \in Nat : r = Size * j + (r % Size)
  BY Division
<1>3. PICK k \in Nat : Word = Size * k + 0
  BY Division, DriverAssumption
<1>4. r % Size \in Nat
  OBVIOUS
<1>5. w - r = Size * (i - j) /\ w - r + Word = Size * (i - j + k)
  BY <1>1, <1>2, <1>3, <1>4
<1>6. Size * (i - j) \in 1 .. Size - 1 \/ Size * (i - j + k) \in 1 .. Size - 1
  BY <1>5, Difference
<1>7. i - j \in Int /\ i - j + k \in Int
  OBVIOUS
<1> QED  BY <1>6, <1>7, NoMultipleBelow

-----------------------------------------------------------------------------
(* Configuration. *)

\* Every LiDAR has an index of its own, and index_cache_ says which are taken.
TableInv ==
  /\ Config!TypeOK
  /\ \A i \in Lidars : i \in known <=> \E h \in DOMAIN map_index_ : map_index_[h] = i
  /\ \A h, k \in DOMAIN map_index_ : map_index_[h] = map_index_[k] => h = k

Silent(h) == \A s \in Settings : in_flight[h][s] = 0

\* The settings of h were never sent, or each is still to be confirmed or was.
Accounted(h) ==
  Silent(h) \/ asked[map_index_[h]] \subseteq set_bits[map_index_[h]] \cup confirmed[h]

\* Before the SDK calls, and of a LiDAR without an index, nothing is on its way.
RequestInv ==
  /\ start # "done" => /\ \A h \in Network : Silent(h)
                       /\ \A i \in Lidars : connect_state[i] = "Off"
  /\ \A h \in Network \ DOMAIN map_index_ : Silent(h)
  /\ \A h \in DOMAIN map_index_ : Accounted(h)
  /\ SamplingIsConfigured

ConfigInv == TableInv /\ RequestInv

LEMMA ConfigInit == ASSUME Config!Init  PROVE ConfigInv
<1> USE DriverAssumption
<1>1. DOMAIN map_index_ = {} /\ map_index_ \in [{} -> Lidars] /\ known = {}
  BY DEF Config!Init
<1>2. TableInv
  BY <1>1 DEF TableInv, Config!TypeOK, Config!Init
<1>3. RequestInv
  BY <1>1 DEF RequestInv, Silent, SamplingIsConfigured, Config!SamplingIsConfigured, Config!Init
<1> QED  BY <1>2, <1>3 DEF ConfigInv

\* An index given to h: its old one, or one that nobody had.
LEMMA IndexGiven ==
  ASSUME TableInv, NEW h \in Network, NEW i \in Lidars, Config!GetFreeIndex(h, i)
  PROVE  /\ DOMAIN map_index_' = DOMAIN map_index_ \cup {h}
         /\ map_index_'[h] = i
         /\ \A k \in DOMAIN map_index_ : map_index_'[k] = map_index_[k]
         /\ map_index_' \in [DOMAIN map_index_' -> Lidars]
         /\ DOMAIN map_index_' \subseteq Network
         /\ known' = known \cup {i}
         /\ \A j \in Lidars : j \in known' <=> \E k \in DOMAIN map_index_' : map_index_'[k] = j
         /\ \A j, k \in DOMAIN map_index_' : map_index_'[j] = map_index_'[k] => j = k
<1> DEFINE D == DOMAIN map_index_
<1>1. /\ map_index_ \in [D -> Lidars] /\ D \subseteq Network
      /\ \A j \in Lidars : j \in known <=> \E k \in D : map_index_[k] = j
      /\ \A j, k \in D : map_index_[j] = map_index_[k] => j = k
  BY DEF TableInv, Config!TypeOK
<1>2. /\ known' = known \cup {i}
      /\ map_index_' = [k \in D \cup {h} |-> IF k = h THEN i ELSE map_index_[k]]
  BY DEF Config!GetFreeIndex
<1>3. IF h \in D THEN i = map_index_[h] ELSE i \notin known
  BY DEF Config!GetFreeIndex, Config!IsFreeIndex
<1>4. DOMAIN map_index_' = D \cup {h} /\ map_index_'[h] = i
  BY <1>2
<1>5. \A k \in D : map_index_'[k] = map_index_[k]
  BY <1>2, <1>3
<1>6. \A k \in D \cup {h} : map_index_'[k] \in Lidars
  BY <1>1, <1>4, <1>5
<1>7. \A j \in Lidars : j \in known' <=> \E k \in D \cup {h} : map_index_'[k] = j
  BY <1>1, <1>2, <1>4, <1>5
<1>8. ASSUME NEW j \in D \cup {h}, NEW k \in D \cup {h}, map_index_'[j] = map_index_'[k]
      PROVE  j = k
  <2>1. CASE h \in D
    BY <1>1, <1>5, <1>8, <2>1
  <2>2. CASE h \notin D
    <3>1. \A l \in D : map_index_'[l] # i
      BY <1>1, <1>3, <1>5, <2>2
    <3> QED  BY <1>1, <1>4, <1>5, <1>8, <2>2, <3>1
  <2> QED  BY <2>1, <2>2
<1>9. map_index_' \in [D \cup {h} -> Lidars]
  BY <1>2, <1>4, <1>6
<1> QED  BY <1>1, <1>2, <1>4, <1>5, <1>7, <1>8, <1>9

\* Each step of InitLdsLidar: nothing is on its way yet.
LEMMA InitLdsLidarKeeps ==
  ASSUME ConfigInv, Config!InitLdsLidar
  PROVE  ConfigInv'
<1>1. /\ start # "done" /\ (\A h \in Network : Silent(h))
      /\ \A i \in Lidars : connect_state[i] = "Off"
  BY DEF ConfigInv, RequestInv, Config!InitLdsLidar, Config!ParseSummaryConfig,
         Config!FillDevice, Config!SetCallbacks
<1>2. UNCHANGED <<lidar_configs, set_bits, connect_state, in_flight, confirmed>>
  BY DEF Config!InitLdsLidar, Config!ParseSummaryConfig, Config!FillDevice,
         Config!SetCallbacks, Config!requestVars, Config!tableVars
<1>3. TableInv'
  <2>1. CASE Config!ParseSummaryConfig \/ Config!SetCallbacks
    <3>1. /\ UNCHANGED <<entry, map_index_, known, asked>>
          /\ start' \in {"parse", "fill", "done", "failed"}
      BY <2>1 DEF Config!ParseSummaryConfig, Config!SetCallbacks, Config!tableVars
    <3> QED  BY <1>2, <3>1 DEF ConfigInv, TableInv, Config!TypeOK
  <2>2. CASE Config!FillDevice
    <3> DEFINE c == lidar_configs[entry + 1]
    <3>1. /\ entry < Len(lidar_configs) /\ entry' = entry + 1 /\ UNCHANGED start
          /\ \/ /\ c.ip # NoAddress
                /\ \E i \in Lidars : /\ Config!GetFreeIndex(c.ip, i)
                                     /\ asked' = [asked EXCEPT ![i] = c.asked]
             \/ UNCHANGED <<map_index_, known, asked>>
      BY <2>2 DEF Config!FillDevice, Config!IsUserConfig, Config!tableVars
    <3>2. Len(lidar_configs) \in Nat /\ entry \in 0 .. Len(lidar_configs)
      BY DriverAssumption DEF ConfigInv, TableInv, Config!TypeOK
    <3>3. entry' \in 0 .. Len(lidar_configs) /\ entry + 1 \in 1 .. Len(lidar_configs)
      BY <3>1, <3>2
    <3>4. c.ip \in Network \cup {NoAddress} /\ c.asked \subseteq Settings
      BY <3>3, DriverAssumption DEF ConfigInv, TableInv, Config!TypeOK
    <3> HIDE DEF c
    <3>5. CASE UNCHANGED <<map_index_, known, asked>>
      BY <1>2, <3>1, <3>3, <3>5 DEF ConfigInv, TableInv, Config!TypeOK
    <3>6. CASE ~UNCHANGED <<map_index_, known, asked>>
      <4>1. PICK i \in Lidars : /\ Config!GetFreeIndex(c.ip, i)
                                /\ asked' = [asked EXCEPT ![i] = c.asked]
        BY <3>1, <3>6
      <4>2. c.ip \in Network
        BY <3>1, <3>4, <3>6
      <4>3. /\ map_index_' \in [DOMAIN map_index_' -> Lidars]
            /\ DOMAIN map_index_' \subseteq Network
            /\ known' = known \cup {i}
            /\ \A j \in Lidars : j \in known' <=> \E k \in DOMAIN map_index_' : map_index_'[k] = j
            /\ \A j, k \in DOMAIN map_index_' : map_index_'[j] = map_index_'[k] => j = k
        BY <4>1, <4>2, IndexGiven DEF ConfigInv
      <4>4. asked' \in [Lidars -> SUBSET Settings]
        BY <3>4, <4>1 DEF ConfigInv, TableInv, Config!TypeOK
      <4>5. Config!TypeOK'
        BY <1>2, <3>1, <3>3, <4>3, <4>4 DEF ConfigInv, TableInv, Config!TypeOK
      <4> QED  BY <4>3, <4>5 DEF TableInv
    <3> QED  BY <3>5, <3>6
  <2> QED  BY <2>1, <2>2 DEF Config!InitLdsLidar
<1>4. (\A h \in Network : Silent(h))' /\ (\A i \in Lidars : connect_state[i] = "Off")'
  BY <1>1, <1>2 DEF Silent
<1>5. RequestInv'
  <2>1. DOMAIN map_index_' \subseteq Network
    BY <1>3 DEF TableInv, Config!TypeOK
  <2> QED  BY <1>4, <2>1 DEF RequestInv, Accounted, SamplingIsConfigured,
                             Config!SamplingIsConfigured
<1> QED  BY <1>3, <1>5 DEF ConfigInv

\* The first report of a LiDAR that is not in the table.
LEMMA NewDeviceKeeps ==
  ASSUME ConfigInv, NEW m \in Network, m \notin DOMAIN map_index_,
         NEW n \in Lidars, Config!GetFreeIndex(m, n), start = "done",
         UNCHANGED <<lidar_configs, start, entry, asked,
                     set_bits, connect_state, in_flight, confirmed>>
  PROVE  ConfigInv'
<1>1. TableInv
  BY DEF ConfigInv
<1>2. /\ DOMAIN map_index_' = DOMAIN map_index_ \cup {m}
      /\ \A k \in DOMAIN map_index_ : map_index_'[k] = map_index_[k]
      /\ map_index_' \in [DOMAIN map_index_' -> Lidars]
      /\ DOMAIN map_index_' \subseteq Network
      /\ known' = known \cup {n}
      /\ \A j \in Lidars : j \in known' <=> \E k \in DOMAIN map_index_' : map_index_'[k] = j
      /\ \A j, k \in DOMAIN map_index_' : map_index_'[j] = map_index_'[k] => j = k
  BY <1>1, IndexGiven
<1>3. TableInv'
  BY <1>1, <1>2 DEF TableInv, Config!TypeOK
<1>4. (\A h \in Network \ DOMAIN map_index_ : Silent(h))'
  BY <1>2 DEF ConfigInv, RequestInv, Silent
<1>5. (\A h \in DOMAIN map_index_ : Accounted(h))'
  <2> SUFFICES ASSUME NEW h \in DOMAIN map_index_'  PROVE Accounted(h)'
    OBVIOUS
  <2>1. CASE h = m
    BY <2>1 DEF ConfigInv, RequestInv, Accounted, Silent
  <2>2. CASE h \in DOMAIN map_index_
    BY <1>2, <2>2 DEF ConfigInv, RequestInv, Accounted, Silent
  <2> QED  BY <1>2, <2>1, <2>2
<1>6. SamplingIsConfigured'
  <2>1. \A i \in Lidars : connect_state[i] = "Sampling" =>
          \E h \in DOMAIN map_index_ : map_index_[h] = i /\ asked[i] \subseteq confirmed[h]
    BY DEF ConfigInv, RequestInv, SamplingIsConfigured, Config!SamplingIsConfigured
  <2>2. \A i \in Lidars : connect_state'[i] = "Sampling" =>
          \E h \in DOMAIN map_index_' : map_index_'[h] = i /\ asked'[i] \subseteq confirmed'[h]
    BY <1>2, <2>1
  <2> QED  BY <2>2 DEF SamplingIsConfigured, Config!SamplingIsConfigured
<1> QED  BY <1>3, <1>4, <1>5, <1>6 DEF ConfigInv, RequestInv

\* What a handler does to the LiDAR with an index that it is about: the setting may
\* have been confirmed, and if no bit is left, all asked for have been.
LEMMA HandlerKeeps ==
  ASSUME ConfigInv, NEW m \in DOMAIN map_index_, start = "done",
         NEW bits \in SUBSET Settings, NEW c \in SUBSET Settings,
         Config!SetBits(m, bits),
         UNCHANGED <<lidar_configs, start, entry, map_index_, known, asked>>,
         in_flight' \in [Network -> [Settings -> 0 .. MaxInFlight]],
         \A h \in Network \ {m} : in_flight'[h] = in_flight[h],
         confirmed' = [confirmed EXCEPT ![m] = @ \cup c],
         asked[map_index_[m]] \subseteq bits \cup confirmed[m] \cup c
  PROVE  ConfigInv'
<1> DEFINE n == map_index_[m]
<1>1. /\ TableInv /\ RequestInv /\ m \in Network /\ n \in Lidars
      /\ DOMAIN map_index_ \subseteq Network /\ map_index_ \in [DOMAIN map_index_ -> Lidars]
      /\ set_bits \in [Lidars -> SUBSET Settings]
      /\ connect_state \in [Lidars -> {"Off", "Sampling"}]
      /\ confirmed \in [Network -> SUBSET Settings]
  BY DEF ConfigInv, TableInv, Config!TypeOK
<1>2. \A h \in DOMAIN map_index_ \ {m} : map_index_[h] # n
  BY <1>1 DEF TableInv
<1>3. /\ set_bits' = [set_bits EXCEPT ![n] = bits]
      /\ connect_state' =
           [connect_state EXCEPT ![n] = IF bits = {} THEN "Sampling" ELSE connect_state[n]]
  BY DEF Config!SetBits, Config!Sampled, Config!GetIndex
<1> HIDE DEF n
<1>4. /\ set_bits' \in [Lidars -> SUBSET Settings]
      /\ connect_state' \in [Lidars -> {"Off", "Sampling"}]
      /\ confirmed' \in [Network -> SUBSET Settings]
  BY <1>1, <1>3
<1>5. TableInv'
  BY <1>1, <1>4 DEF TableInv, Config!TypeOK
<1>6. (\A h \in Network \ DOMAIN map_index_ : Silent(h))'
  BY <1>1 DEF RequestInv, Silent
<1>7. /\ set_bits'[n] = bits /\ confirmed'[m] = confirmed[m] \cup c
      /\ \A h \in DOMAIN map_index_ \ {m} :
           set_bits'[map_index_[h]] = set_bits[map_index_[h]] /\ confirmed'[h] = confirmed[h]
  BY <1>1, <1>2, <1>3
<1>8. (\A h \in DOMAIN map_index_ : Accounted(h))'
  <2> SUFFICES ASSUME NEW h \in DOMAIN map_index_  PROVE Accounted(h)'
    OBVIOUS
  <2>1. CASE h = m
    BY <1>7, <2>1 DEF Accounted, n
  <2>2. CASE h # m
    BY <1>1, <1>7, <2>2 DEF RequestInv, Accounted, Silent
  <2> QED  BY <2>1, <2>2
<1>9. SamplingIsConfigured'
  <2> SUFFICES ASSUME NEW i \in Lidars, connect_state'[i] = "Sampling"
               PROVE  \E h \in DOMAIN map_index_ :
                        map_index_[h] = i /\ asked[i] \subseteq confirmed'[h]
    BY DEF SamplingIsConfigured, Config!SamplingIsConfigured
  <2>1. CASE i = n /\ bits = {}
    BY <1>7, <2>1 DEF n
  <2>2. CASE ~(i = n /\ bits = {})
    <3>1. connect_state[i] = "Sampling"
      BY <1>1, <1>3, <2>2
    <3>2. PICK h \in DOMAIN map_index_ : map_index_[h] = i /\ asked[i] \subseteq confirmed[h]
      BY <1>1, <3>1 DEF RequestInv, SamplingIsConfigured, Config!SamplingIsConfigured
    <3>3. confirmed[h] \subseteq confirmed'[h]
      BY <1>1, <1>7
    <3> QED  BY <3>2, <3>3
  <2> QED  BY <2>1, <2>2
<1> QED  BY <1>5, <1>6, <1>8, <1>9 DEF ConfigInv, RequestInv

\* A report of a LiDAR leaves every setting it asks for in set_bits.
LEMMA InfoChangeKeeps ==
  ASSUME ConfigInv, NEW m \in Network, Config!InfoChange(m)
  PROVE  ConfigInv'
<1>1. CASE m \notin DOMAIN map_index_
  <2>1. PICK n \in Lidars : Config!GetFreeIndex(m, n)
    BY <1>1 DEF Config!InfoChange
  <2>2. start = "done" /\ UNCHANGED <<lidar_configs, start, entry, asked,
                                      set_bits, connect_state, in_flight, confirmed>>
    BY <1>1 DEF Config!InfoChange, Config!requestVars
  <2> QED  BY <1>1, <2>1, <2>2, NewDeviceKeeps
<1>2. CASE m \in DOMAIN map_index_
  <2> DEFINE n    == map_index_[m]
             sent == asked[n]
             bits == set_bits[n] \cup sent
  <2>1. /\ \A s \in sent : in_flight[m][s] < MaxInFlight
        /\ Config!SetBits(m, bits)
        /\ in_flight' = [in_flight EXCEPT ![m] =
                           [s \in Settings |-> IF s \in sent THEN @[s] + 1 ELSE @[s]]]
        /\ UNCHANGED <<lidar_configs, start, entry, map_index_, known, asked, confirmed>>
        /\ start = "done"
    BY <1>2 DEF Config!InfoChange, Config!ToSend, Config!GetIndex, Config!tableVars
  <2>2. /\ n \in Lidars /\ sent \subseteq Settings /\ bits \in SUBSET Settings
        /\ in_flight \in [Network -> [Settings -> 0 .. MaxInFlight]]
        /\ confirmed \in [Network -> SUBSET Settings]
    BY <1>2 DEF ConfigInv, TableInv, Config!TypeOK
  <2>3. sent \subseteq bits
    OBVIOUS
  <2> HIDE DEF sent, bits
  <2>4. in_flight' \in [Network -> [Settings -> 0 .. MaxInFlight]]
    <3>1. \A s \in Settings : (IF s \in sent THEN in_flight[m][s] + 1 ELSE in_flight[m][s])
                              \in 0 .. MaxInFlight
      BY <2>1, <2>2, DriverAssumption
    <3>2. [s \in Settings |-> IF s \in sent THEN in_flight[m][s] + 1 ELSE in_flight[m][s]]
            \in [Settings -> 0 .. MaxInFlight]
      BY <3>1
    <3> QED  BY <2>1, <2>2, <3>2
  <2>5. \A h \in Network \ {m} : in_flight'[h] = in_flight[h]
    BY <2>1, <2>2
  <2>6. confirmed' = [confirmed EXCEPT ![m] = @ \cup {}]
    BY <2>1, <2>2
  <2>7. asked[map_index_[m]] \subseteq bits \cup confirmed[m] \cup {}
    BY <2>3 DEF sent
  <2>8. {} \in SUBSET Settings /\ Config!SetBits(m, bits) /\ bits \in SUBSET Settings
    BY <2>1, <2>2
  <2>9. start = "done" /\ UNCHANGED <<lidar_configs, start, entry, map_index_, known, asked>>
    BY <2>1
  <2> QED  BY <1>2, <2>4, <2>5, <2>6, <2>7, <2>8, <2>9, HandlerKeeps
<1> QED  BY <1>1, <1>2

\* An answer takes one request away; it comes from a LiDAR with an index.
LEMMA AnswerTakes ==
  ASSUME ConfigInv, NEW m \in Network, NEW s \in Settings, Config!Answer(m, s)
  PROVE  /\ start = "done" /\ m \in DOMAIN map_index_
         /\ asked[map_index_[m]] \subseteq set_bits[map_index_[m]] \cup confirmed[m]
         /\ in_flight' \in [Network -> [Settings -> 0 .. MaxInFlight]]
         /\ \A h \in Network \ {m} : in_flight'[h] = in_flight[h]
         /\ UNCHANGED <<lidar_configs, start, entry, map_index_, known, asked>>
<1>1. /\ in_flight[m][s] > 0
      /\ in_flight' = [in_flight EXCEPT ![m][s] = @ - 1]
      /\ UNCHANGED <<lidar_configs, start, entry, map_index_, known, asked>>
  BY DEF Config!Answer, Config!tableVars
<1>2. in_flight \in [Network -> [Settings -> 0 .. MaxInFlight]]
  BY DEF ConfigInv, TableInv, Config!TypeOK
<1>3. ~Silent(m)
  BY <1>1, <1>2 DEF Silent
<1>4. start = "done" /\ m \in DOMAIN map_index_
  BY <1>3 DEF ConfigInv, RequestInv
<1>5. asked[map_index_[m]] \subseteq set_bits[map_index_[m]] \cup confirmed[m]
  BY <1>3, <1>4 DEF ConfigInv, RequestInv, Accounted
<1>6. in_flight[m][s] - 1 \in 0 .. MaxInFlight
  BY <1>1, <1>2, DriverAssumption
<1>7. in_flight' \in [Network -> [Settings -> 0 .. MaxInFlight]]
  BY <1>1, <1>2, <1>6
<1>8. \A h \in Network \ {m} : in_flight'[h] = in_flight[h]
  BY <1>1, <1>2
<1> QED  BY <1>1, <1>4, <1>5, <1>7, <1>8

\* A confirmation that leaves no bit is the last of all settings asked for.
LEMMA SucceedKeeps ==
  ASSUME ConfigInv, NEW m \in Network, NEW s \in Settings, Config!Succeed(m, s)
  PROVE  ConfigInv'
<1>1. Config!Answer(m, s)
  BY DEF Config!Succeed
<1>2. /\ start = "done" /\ m \in DOMAIN map_index_
      /\ asked[map_index_[m]] \subseteq set_bits[map_index_[m]] \cup confirmed[m]
      /\ in_flight' \in [Network -> [Settings -> 0 .. MaxInFlight]]
      /\ \A h \in Network \ {m} : in_flight'[h] = in_flight[h]
      /\ UNCHANGED <<lidar_configs, start, entry, map_index_, known, asked>>
  BY <1>1, AnswerTakes
<1> DEFINE old  == set_bits[map_index_[m]]
           bits == old \ {s}
<1>3. Config!SetBits(m, bits) /\ confirmed' = [confirmed EXCEPT ![m] = @ \cup {s}]
  BY DEF Config!Succeed, Config!Cleared, Config!GetIndex
<1>4. old \subseteq Settings
  BY <1>2 DEF ConfigInv, TableInv, Config!TypeOK
<1>5. asked[map_index_[m]] \subseteq bits \cup confirmed[m] \cup {s}
  BY <1>2
<1>6. bits \in SUBSET Settings /\ {s} \in SUBSET Settings
  BY <1>4
<1> HIDE DEF bits
<1> QED  BY <1>2, <1>3, <1>5, <1>6, HandlerKeeps

\* An error changes nothing but the number of requests.
LEMMA FailKeeps ==
  ASSUME ConfigInv, NEW m \in Network, NEW s \in Settings, Config!Fail(m, s)
  PROVE  ConfigInv'
<1>1. Config!Answer(m, s) /\ UNCHANGED <<set_bits, connect_state, confirmed>>
  BY DEF Config!Fail
<1>2. /\ start = "done" /\ m \in DOMAIN map_index_
      /\ asked[map_index_[m]] \subseteq set_bits[map_index_[m]] \cup confirmed[m]
      /\ in_flight' \in [Network -> [Settings -> 0 .. MaxInFlight]]
      /\ \A h \in Network \ {m} : in_flight'[h] = in_flight[h]
      /\ UNCHANGED <<lidar_configs, start, entry, map_index_, known, asked>>
  BY <1>1, AnswerTakes
<1>3. TableInv'
  BY <1>1, <1>2 DEF ConfigInv, TableInv, Config!TypeOK
<1>4. (\A h \in Network \ DOMAIN map_index_ : Silent(h))'
  BY <1>2 DEF ConfigInv, RequestInv, Silent
<1>5. (\A h \in DOMAIN map_index_ : Accounted(h))'
  <2>1. DOMAIN map_index_ \subseteq Network
    BY DEF ConfigInv, TableInv, Config!TypeOK
  <2> SUFFICES ASSUME NEW h \in DOMAIN map_index_  PROVE Accounted(h)'
    BY <1>2
  <2>2. CASE h = m
    BY <1>1, <1>2, <2>2 DEF Accounted
  <2>3. CASE h # m
    BY <1>1, <1>2, <2>1, <2>3 DEF ConfigInv, RequestInv, Accounted, Silent
  <2> QED  BY <2>2, <2>3
<1>6. SamplingIsConfigured'
  BY <1>1, <1>2 DEF ConfigInv, RequestInv, SamplingIsConfigured, Config!SamplingIsConfigured
<1> QED  BY <1>2, <1>3, <1>4, <1>5, <1>6 DEF ConfigInv, RequestInv

\* The data path writes nothing of the configuration.
LEMMA ConfigStutters == ASSUME ConfigInv, UNCHANGED configVars  PROVE ConfigInv'
<1> USE DEF configVars
<1>1. TableInv'
  BY DEF ConfigInv, TableInv, Config!TypeOK
<1>2. RequestInv'
  BY DEF ConfigInv, RequestInv, Silent, Accounted, SamplingIsConfigured,
         Config!SamplingIsConfigured
<1> QED  BY <1>1, <1>2 DEF ConfigInv

LEMMA ConfigAlways == Spec => []ConfigInv
<1>1. Init => ConfigInv
  BY ConfigInit DEF Init
<1>2. ConfigInv /\ [Next]_vars => ConfigInv'
  <2> SUFFICES ASSUME ConfigInv, [Next]_vars  PROVE ConfigInv'
    OBVIOUS
  <2>1. CASE UNCHANGED configVars
    BY <2>1, ConfigStutters
  <2>2. CASE Config!InitLdsLidar
    BY <2>2, InitLdsLidarKeeps
  <2>3. CASE Config!Callback
    BY <2>3, InfoChangeKeeps, SucceedKeeps, FailKeeps DEF Config!Callback
  <2> QED  BY <2>1, <2>2, <2>3 DEF Next, Starting, Configuring, Moving, vars
<1> QED  BY <1>1, <1>2, PTL DEF Spec

\* For all LiDARs and settings: no data is published of a LiDAR that has not
\* confirmed every setting asked for (livox_lidar_callback.cpp).
THEOREM SamplingIsConfiguredHolds == Spec => []SamplingIsConfigured
<1>1. ConfigInv => SamplingIsConfigured
  BY DEF ConfigInv, RequestInv
<1> QED  BY <1>1, ConfigAlways, PTL

-----------------------------------------------------------------------------
(* The ring. *)

\* Types.  A thread that is about to signal has seen a count of 0, and only it
\* raises that count; a thread at a ring's slots has found the ring made.
RingType ==
  /\ rd_idx \in [Lidars -> 0 .. Word - 1] /\ wr_idx \in [Lidars -> 0 .. Word - 1]
  /\ storage_packet \in
       [Lidars -> {<<>>} \cup [0 .. Size - 1 -> Frames \cup {NULL}]]
  /\ imu_data \subseteq Lidars
  /\ pcd_semaphore \in {0, 1} /\ imu_semaphore \in {0, 1}
  /\ producer \in [at : {"idle", "write", "advance", "check", "count", "signal", "ended"},
                   lidar : Lidars, frame : Frames \cup {NULL}]
  /\ sdk \in [at : {"idle", "count", "signal"}, lidar : Lidars]
  /\ pcd \in [at : {"top", "wait", "poll", "drain", "pop", "ended"},
              lidar : Lidars, frame : Frames \cup {NULL}]
  /\ imu \in [at : {"top", "wait", "poll", "ended"}, lidar : Lidars]
  /\ node \in Ring!Stages
  /\ out \in [Lidars -> Frames \cup {NULL}]
  /\ producer.at = "signal" => pcd_semaphore = 0
  /\ sdk.at = "signal" => imu_semaphore = 0
  /\ producer.at = "write" => storage_packet[producer.lidar] # <<>>
  /\ pcd.at \in {"drain", "pop"} => storage_packet[pcd.lidar] # <<>>

\* The producer has found room and not used it, the pcd thread has taken a frame
\* and not given its slot back: what each has seen of the other's index is old,
\* but the other can only have moved to its advantage.
RingInv ==
  /\ RingType
  /\ \A l \in Lidars : Ring!UsedSize(l) \in 0 .. Size
  /\ producer.at \in {"write", "advance"} => Ring!UsedSize(producer.lidar) < Size
  /\ pcd.at = "pop" => Ring!UsedSize(pcd.lidar) > 0

LEMMA RingIsSafe == ASSUME RingInv  PROVE SlotIsSafe
<1> SUFFICES ASSUME producer.at \in {"write", "advance"}, pcd.at = "pop",
                    producer.lidar = pcd.lidar
             PROVE  wr_idx[producer.lidar] % Size # rd_idx[pcd.lidar] % Size
  BY DEF SlotIsSafe
<1>1. pcd.lidar \in Lidars
  BY DEF RingInv, RingType
<1>2. Ring!UsedSize(pcd.lidar) \in 1 .. Size - 1
  BY <1>1, DriverAssumption DEF RingInv, RingType
<1>3. wr_idx[pcd.lidar] \in 0 .. Word - 1 /\ rd_idx[pcd.lidar] \in 0 .. Word - 1
  BY <1>1 DEF RingInv, RingType
<1> QED  BY <1>2, <1>3, DifferentSlots DEF Ring!UsedSize

LEMMA RingInit == ASSUME Ring!Init  PROVE RingInv
<1>1. Size \in Nat \ {0} /\ Word \in Nat /\ Word > Size /\ 1 \in Lidars
  BY DriverAssumption DEF Lidars
<1>2. rd_idx = [l \in Lidars |-> 0] /\ wr_idx = [l \in Lidars |-> 0]
  BY DEF Ring!Init, Ring!Lidars, Lidars
<1>3. (0 - 0) % Word = 0
  BY <1>1, Difference
<1>4. \A l \in Lidars : Ring!UsedSize(l) = 0
  BY <1>2, <1>3 DEF Ring!UsedSize
<1>5. RingType
  BY <1>1, <1>2 DEF Ring!Init, Ring!Lidars, Lidars, RingType, Ring!Stages
<1>6. producer.at = "idle" /\ pcd.at = "top"
  BY DEF Ring!Init
<1> QED  BY <1>1, <1>4, <1>5, <1>6 DEF RingInv

\* Storing a frame moves wr_idx of one LiDAR by one.
LEMMA UsedAfterAdvance ==
  ASSUME RingInv, NEW m \in Lidars, wr_idx' = [wr_idx EXCEPT ![m] = (@ + 1) % Word],
         rd_idx' = rd_idx, Ring!UsedSize(m) < Size
  PROVE  /\ wr_idx' \in [Lidars -> 0 .. Word - 1]
         /\ Ring!UsedSize(m)' = Ring!UsedSize(m) + 1
         /\ \A l \in Lidars \ {m} : Ring!UsedSize(l)' = Ring!UsedSize(l)
<1> Size \in Nat \ {0} /\ Word \in Nat /\ Word > Size
  BY DriverAssumption
<1> DEFINE w == wr_idx[m]  r == rd_idx[m]  n == (w + 1) % Word
<1>1. w \in 0 .. Word - 1 /\ r \in 0 .. Word - 1
  BY DEF RingInv, RingType
<1>2. n = IF w = Word - 1 THEN 0 ELSE w + 1
  BY <1>1, Successor
<1>3. n \in 0 .. Word - 1
  BY <1>1, <1>2
<1>4. wr_idx' \in [Lidars -> 0 .. Word - 1]
  BY <1>3 DEF RingInv, RingType
<1>5. wr_idx'[m] = n
  BY DEF RingInv, RingType
<1>6. (n - r) % Word = ((w - r) % Word) + 1
  <2> HIDE DEF w, r, n
  <2>1. (n - r) % Word = IF n >= r THEN n - r ELSE n - r + Word
    BY <1>1, <1>3, Difference
  <2>2. (w - r) % Word = IF w >= r THEN w - r ELSE w - r + Word
    BY <1>1, Difference
  <2>3. (w - r) % Word < Size
    BY DEF Ring!UsedSize, w, r
  <2> QED  BY <1>1, <1>2, <2>1, <2>2, <2>3
<1> QED  BY <1>4, <1>5, <1>6 DEF Ring!UsedSize, RingInv, RingType

\* Taking one off moves rd_idx of one LiDAR by one.
LEMMA UsedAfterPop ==
  ASSUME RingInv, NEW m \in Lidars, rd_idx' = [rd_idx EXCEPT ![m] = (@ + 1) % Word],
         wr_idx' = wr_idx, Ring!UsedSize(m) > 0
  PROVE  /\ rd_idx' \in [Lidars -> 0 .. Word - 1]
         /\ Ring!UsedSize(m)' = Ring!UsedSize(m) - 1
         /\ \A l \in Lidars \ {m} : Ring!UsedSize(l)' = Ring!UsedSize(l)
<1> Size \in Nat \ {0} /\ Word \in Nat /\ Word > Size
  BY DriverAssumption
<1> DEFINE w == wr_idx[m]  r == rd_idx[m]  n == (r + 1) % Word
<1>1. w \in 0 .. Word - 1 /\ r \in 0 .. Word - 1
  BY DEF RingInv, RingType
<1>2. n = IF r = Word - 1 THEN 0 ELSE r + 1
  BY <1>1, Successor
<1>3. n \in 0 .. Word - 1
  BY <1>1, <1>2
<1>4. rd_idx' \in [Lidars -> 0 .. Word - 1]
  BY <1>3 DEF RingInv, RingType
<1>5. rd_idx'[m] = n
  BY DEF RingInv, RingType
<1>6. (w - n) % Word = ((w - r) % Word) - 1
  <2> HIDE DEF w, r, n
  <2>1. (w - n) % Word = IF w >= n THEN w - n ELSE w - n + Word
    BY <1>1, <1>3, Difference
  <2>2. (w - r) % Word = IF w >= r THEN w - r ELSE w - r + Word
    BY <1>1, Difference
  <2>3. (w - r) % Word > 0
    BY DEF Ring!UsedSize, w, r
  <2> QED  BY <1>1, <1>2, <2>1, <2>2, <2>3
<1> QED  BY <1>4, <1>5, <1>6 DEF Ring!UsedSize, RingInv, RingType

\* Only an index that moves changes the number of used slots.
LEMMA UsedUnchanged ==
  ASSUME UNCHANGED <<rd_idx, wr_idx>>
  PROVE  \A l : Ring!UsedSize(l)' = Ring!UsedSize(l)
BY DEF Ring!UsedSize

\* The step of a thread that has nothing to do with the slots of a ring.
LEMMA NeitherEndMoves ==
  ASSUME RingInv, RingType', UNCHANGED <<rd_idx, wr_idx>>,
         producer' = producer \/ producer'.at \notin {"write", "advance"},
         pcd' = pcd \/ pcd'.at # "pop"
  PROVE  RingInv'
<1>1. \A l \in Lidars : Ring!UsedSize(l)' = Ring!UsedSize(l)
  BY UsedUnchanged
<1>2. producer.lidar \in Lidars /\ pcd.lidar \in Lidars
  BY DEF RingInv, RingType
<1>3. (\A l \in Lidars : Ring!UsedSize(l) \in 0 .. Size)'
  BY <1>1, DriverAssumption DEF RingInv
<1>4. (producer.at \in {"write", "advance"} => Ring!UsedSize(producer.lidar) < Size)'
  BY <1>1, <1>2 DEF RingInv
<1>5. (pcd.at = "pop" => Ring!UsedSize(pcd.lidar) > 0)'
  BY <1>1, <1>2 DEF RingInv
<1> QED  BY <1>3, <1>4, <1>5 DEF RingInv

LEMMA OfferKeeps ==
  ASSUME RingInv, NEW m \in Lidars, NEW f \in Frames, Ring!Offer(m, f)
  PROVE  RingInv'
<1> DEFINE room == [at |-> "write", lidar |-> m, frame |-> f]
           full == [at |-> "count", lidar |-> m, frame |-> NULL]
<1>1. /\ producer' = IF Ring!IsFull(m) THEN full ELSE room
      /\ storage_packet' = [storage_packet EXCEPT ![m] =
                              IF @ = <<>> THEN Ring!FreshRing ELSE @]
      /\ UNCHANGED <<rd_idx, wr_idx, imu_data, imu_semaphore, pcd_semaphore,
                     sdk, pcd, imu, node, out>>
  BY DEF Ring!Offer, Ring!WhenFull, Ring!imuVars
<1>2. Ring!FreshRing \in [0 .. Size - 1 -> Frames \cup {NULL}] /\ Ring!FreshRing # <<>>
  <2>1. Ring!FreshRing \in [0 .. Size - 1 -> Frames \cup {NULL}]
    BY DEF Ring!FreshRing
  <2>2. 0 \in DOMAIN Ring!FreshRing /\ 0 \notin DOMAIN <<>>
    BY DriverAssumption DEF Ring!FreshRing
  <2> QED  BY <2>1, <2>2
<1>3. storage_packet' \in [Lidars -> {<<>>} \cup [0 .. Size - 1 -> Frames \cup {NULL}]]
  BY <1>1, <1>2 DEF RingInv, RingType
<1>4. storage_packet'[m] # <<>> /\ \A l \in Lidars \ {m} : storage_packet'[l] = storage_packet[l]
  BY <1>1, <1>2 DEF RingInv, RingType
<1>5. RingType'
  BY <1>1, <1>3, <1>4 DEF RingInv, RingType
<1>6. CASE Ring!IsFull(m)
  BY <1>1, <1>5, <1>6, NeitherEndMoves
<1>7. CASE ~Ring!IsFull(m)
  <2>1. \A l \in Lidars : Ring!UsedSize(l)' = Ring!UsedSize(l)
    BY <1>1, UsedUnchanged
  <2>2. Ring!UsedSize(m) < Size
    BY <1>7, DriverAssumption DEF Ring!IsFull, RingInv
  <2>3. pcd.lidar \in Lidars
    BY DEF RingInv, RingType
  <2> QED  BY <1>1, <1>5, <1>7, <2>1, <2>2, <2>3 DEF RingInv
<1> QED  BY <1>6, <1>7

\* After Offer the slot is written and the index moved on by the producer alone.
LEMMA WriteKeeps == ASSUME RingInv, Ring!Write  PROVE RingInv'
<1> DEFINE m == producer.lidar  i == Ring!Slot(wr_idx[m])
<1>1. /\ producer.at = "write"
      /\ producer' = [producer EXCEPT !.at = "advance"]
      /\ storage_packet' = [storage_packet EXCEPT ![m][i] = producer.frame]
      /\ UNCHANGED <<rd_idx, wr_idx, imu_data, imu_semaphore, pcd_semaphore,
                     sdk, pcd, imu, node, out>>
  BY DEF Ring!Write, Ring!Goto, Ring!imuVars
<1>2. m \in Lidars /\ producer.frame \in Frames \cup {NULL} /\ pcd.lidar \in Lidars
  BY DEF RingInv, RingType
<1>3. storage_packet[m] \in [0 .. Size - 1 -> Frames \cup {NULL}]
  BY <1>1, <1>2 DEF RingInv, RingType
<1>4. storage_packet' = [storage_packet EXCEPT ![m] =
                           [storage_packet[m] EXCEPT ![i] = producer.frame]]
  BY <1>1
<1> DEFINE ring == [storage_packet[m] EXCEPT ![i] = producer.frame]
<1>5. ring \in [0 .. Size - 1 -> Frames \cup {NULL}] /\ ring # <<>>
  <2>1. ring \in [0 .. Size - 1 -> Frames \cup {NULL}]
    BY <1>2, <1>3
  <2>2. 0 \in DOMAIN ring /\ 0 \notin DOMAIN <<>>
    BY <2>1, DriverAssumption
  <2> QED  BY <2>1, <2>2
<1>6. /\ storage_packet' \in [Lidars -> {<<>>} \cup [0 .. Size - 1 -> Frames \cup {NULL}]]
      /\ storage_packet'[m] # <<>>
      /\ \A l \in Lidars \ {m} : storage_packet'[l] = storage_packet[l]
  <2> HIDE DEF ring
  <2>1. storage_packet' = [storage_packet EXCEPT ![m] = ring]
    BY <1>4 DEF ring
  <2> QED  BY <1>2, <1>5, <2>1 DEF RingInv, RingType
<1>7. RingType'
  BY <1>1, <1>2, <1>6 DEF RingInv, RingType
<1>8. \A l \in Lidars : Ring!UsedSize(l)' = Ring!UsedSize(l)
  BY <1>1, UsedUnchanged
<1> QED  BY <1>1, <1>2, <1>7, <1>8, SMTT(20) DEF RingInv, RingType

LEMMA AdvanceKeeps == ASSUME RingInv, Ring!Advance  PROVE RingInv'
<1> PICK m \in Lidars : m = producer.lidar
  BY DEF RingInv, RingType
<1>1. /\ producer.at = "advance"
      /\ producer' = [producer EXCEPT !.at = "check"]
      /\ wr_idx' = [wr_idx EXCEPT ![m] = (@ + 1) % Word]
      /\ UNCHANGED <<storage_packet, rd_idx, imu_data, imu_semaphore, pcd_semaphore,
                     sdk, pcd, imu, node, out>>
  BY DEF Ring!Advance, Ring!Goto, Ring!imuVars
<1>2. pcd.lidar \in Lidars
  BY DEF RingInv, RingType
<1>3. Ring!UsedSize(m) < Size
  BY <1>1 DEF RingInv
<1>4. /\ wr_idx' \in [Lidars -> 0 .. Word - 1]
      /\ Ring!UsedSize(m)' = Ring!UsedSize(m) + 1
      /\ \A l \in Lidars \ {m} : Ring!UsedSize(l)' = Ring!UsedSize(l)
  BY <1>1, <1>2, <1>3, UsedAfterAdvance
<1>5. RingType'
  BY <1>1, <1>2, <1>4 DEF RingInv, RingType
<1>6. (\A l \in Lidars : Ring!UsedSize(l) \in 0 .. Size)'
  BY <1>2, <1>3, <1>4, DriverAssumption DEF RingInv
<1>7. producer'.at = "check"
  BY <1>1 DEF RingInv, RingType
<1>8. (pcd.at = "pop" => Ring!UsedSize(pcd.lidar) > 0)'
  BY <1>1, <1>2, <1>4, DriverAssumption DEF RingInv
<1> QED  BY <1>5, <1>6, <1>7, <1>8 DEF RingInv

\* Waking the pcd thread: away from the slots.
LEMMA WakingKeeps ==
  ASSUME RingInv, Ring!Check \/ Ring!Count \/ Ring!Signal \/ Ring!ProducerEnds
  PROVE  RingInv'
<1> DEFINE rest == [at |-> "idle", lidar |-> 1, frame |-> NULL]
<1>1. rest \in [at : {"idle"}, lidar : Lidars, frame : {NULL}]
  BY DriverAssumption DEF Lidars
<1>2. /\ \/ producer' = rest
         \/ producer' = [producer EXCEPT !.at = "count"]
         \/ producer' = [producer EXCEPT !.at = "signal"] /\ pcd_semaphore <= 0
         \/ producer' = [producer EXCEPT !.at = "ended"]
      /\ \/ pcd_semaphore' = pcd_semaphore
         \/ producer.at = "signal" /\ producer' = rest /\ pcd_semaphore' = pcd_semaphore + 1
      /\ UNCHANGED <<storage_packet, rd_idx, wr_idx, imu_data, imu_semaphore,
                     sdk, pcd, imu, node, out>>
  <2> USE DEF Ring!Rest, Ring!Goto, Ring!ringVars, Ring!imuVars
  <2>1. CASE Ring!Check
    BY <2>1 DEF Ring!Check
  <2>2. CASE Ring!Count
    <3>1. Ring!Awake(pcd_semaphore) \/ pcd_semaphore <= 0
      BY DEF Ring!Awake, RingInv, RingType
    <3> QED  BY <2>2, <3>1 DEF Ring!Count
  <2>3. CASE Ring!Signal
    BY <2>3 DEF Ring!Signal
  <2>4. CASE Ring!ProducerEnds
    BY <2>4 DEF Ring!ProducerEnds
  <2> QED  BY <2>1, <2>2, <2>3, <2>4
<1>3. /\ producer' \in [at : {"idle", "count", "signal", "ended"}, lidar : Lidars,
                        frame : Frames \cup {NULL}]
      /\ producer'.at = "signal" => pcd_semaphore' = 0
      /\ pcd_semaphore' \in {0, 1}
  <2> HIDE DEF rest
  <2>1. producer' \in [at : {"idle", "count", "signal", "ended"}, lidar : Lidars,
                       frame : Frames \cup {NULL}]
    BY <1>1, <1>2 DEF RingInv, RingType
  <2>2. rest.at = "idle"
    BY <1>1
  <2>3. CASE pcd_semaphore' = pcd_semaphore
    <3>1. producer'.at = "signal" => pcd_semaphore <= 0
      BY <1>2, <2>2 DEF RingInv, RingType
    <3> QED  BY <2>1, <2>3, <3>1 DEF RingInv, RingType
  <2>4. CASE /\ producer.at = "signal" /\ producer' = rest
             /\ pcd_semaphore' = pcd_semaphore + 1
    <3>1. pcd_semaphore' = 1
      BY <2>4 DEF RingInv, RingType
    <3> QED  BY <2>1, <2>2, <2>4, <3>1
  <2> QED  BY <1>2, <2>3, <2>4
<1>4. RingType'
  BY <1>2, <1>3 DEF RingInv, RingType
<1> QED  BY <1>2, <1>3, <1>4, NeitherEndMoves

LEMMA SdkKeeps ==
  ASSUME RingInv, NEW m \in Lidars, Ring!ImuArrives(m) \/ Ring!SdkStep
  PROVE  RingInv'
<1> DEFINE rest == [at |-> "idle", lidar |-> 1]
<1>1. rest \in [at : {"idle"}, lidar : Lidars] /\ rest.at = "idle"
  BY DriverAssumption DEF Lidars
<1>2. /\ UNCHANGED <<storage_packet, rd_idx, wr_idx, pcd_semaphore,
                     producer, pcd, imu, node, out>>
      /\ \/ /\ sdk' = rest \/ sdk' = [at |-> "count", lidar |-> m]
            /\ UNCHANGED imu_semaphore
         \/ /\ sdk' = [sdk EXCEPT !.at = "signal"] /\ imu_semaphore <= 0
            /\ UNCHANGED imu_semaphore
         \/ sdk.at = "signal" /\ sdk' = rest /\ imu_semaphore' = imu_semaphore + 1
      /\ imu_data' = imu_data \/ imu_data' = imu_data \cup {m}
  <2> USE DEF Ring!ringVars, Ring!imuVars
  <2>1. CASE Ring!ImuArrives(m)
    BY <2>1 DEF Ring!ImuArrives
  <2>2. CASE Ring!ImuCount
    <3>1. Ring!Awake(imu_semaphore) \/ imu_semaphore <= 0
      BY DEF Ring!Awake, RingInv, RingType
    <3> QED  BY <2>2, <3>1 DEF Ring!ImuCount
  <2>3. CASE Ring!ImuSignal
    BY <2>3 DEF Ring!ImuSignal
  <2> QED  BY <2>1, <2>2, <2>3 DEF Ring!SdkStep
<1>3. /\ sdk' \in [at : {"idle", "count", "signal"}, lidar : Lidars]
      /\ sdk'.at = "signal" => imu_semaphore' = 0
      /\ imu_semaphore' \in {0, 1}
  <2>1. sdk' \in [at : {"idle", "count", "signal"}, lidar : Lidars]
    <3>1. [sdk EXCEPT !.at = "signal"] \in [at : {"signal"}, lidar : Lidars]
      BY DEF RingInv, RingType
    <3>2. [at |-> "count", lidar |-> m] \in [at : {"count"}, lidar : Lidars]
      OBVIOUS
    <3> HIDE DEF rest
    <3>3. CASE sdk' = rest
      BY <1>1, <3>3
    <3> QED  BY <1>2, <3>1, <3>2, <3>3
  <2> HIDE DEF rest
  <2>2. CASE imu_semaphore' = imu_semaphore
    <3>1. sdk'.at = "signal" => imu_semaphore <= 0
      BY <1>1, <1>2, <2>2, SMTT(20) DEF RingInv, RingType
    <3> QED  BY <2>1, <2>2, <3>1 DEF RingInv, RingType
  <2>3. CASE sdk.at = "signal" /\ sdk' = rest /\ imu_semaphore' = imu_semaphore + 1
    <3>1. imu_semaphore' = 1
      BY <2>3 DEF RingInv, RingType
    <3> QED  BY <1>1, <2>1, <2>3, <3>1
  <2> QED  BY <1>2, <2>2, <2>3
<1>4. RingType'
  BY <1>2, <1>3, SMTT(20) DEF RingInv, RingType
<1> QED  BY <1>2, <1>4, NeitherEndMoves

\* The next LiDAR of a poll thread is one of the slots.
LEMMA NextLidarType ==
  ASSUME NEW m \in Lidars  PROVE m # LidarCount => m + 1 \in Lidars
BY DriverAssumption DEF Lidars

\* Between the top of the thread and the ring it is about to empty.
LEMMA PollingKeeps ==
  ASSUME RingInv, Ring!PcdTop \/ Ring!PcdWait \/ Ring!PcdPoll
  PROVE  RingInv'
<1>1. /\ UNCHANGED <<storage_packet, rd_idx, wr_idx, imu_data, imu_semaphore,
                     producer, sdk, imu, node, out>>
      /\ \/ pcd_semaphore' = pcd_semaphore
         \/ pcd_semaphore > 0 /\ pcd_semaphore' = pcd_semaphore - 1
      /\ \/ \E place \in {"top", "wait", "poll", "ended"} : pcd' = [pcd EXCEPT !.at = place]
         \/ pcd' = [pcd EXCEPT !.at = "drain"] /\ storage_packet[pcd.lidar] # <<>>
         \/ pcd' = [pcd EXCEPT !.at = "top", !.lidar = 1]
         \/ pcd.lidar # LidarCount /\ pcd' = [pcd EXCEPT !.lidar = @ + 1] /\ pcd.at = "poll"
  <2> USE DEF Ring!ringVars, Ring!imuVars
  <2>1. CASE Ring!PcdTop
    BY <2>1 DEF Ring!PcdTop
  <2>2. CASE Ring!PcdWait
    BY <2>2 DEF Ring!PcdWait
  <2>3. CASE Ring!PcdPoll
    BY <2>3 DEF Ring!PcdPoll, Ring!NextLidar
  <2> QED  BY <2>1, <2>2, <2>3
<1>2. 1 \in Lidars /\ pcd.lidar \in Lidars
  BY DriverAssumption DEF RingInv, RingType, Lidars
<1>3. /\ pcd' \in [at : {"top", "wait", "poll", "drain", "ended"}, lidar : Lidars,
                   frame : Frames \cup {NULL}]
      /\ pcd'.at = "drain" => storage_packet[pcd'.lidar] # <<>>
  BY <1>1, <1>2, NextLidarType DEF RingInv, RingType
<1>4. /\ pcd_semaphore' \in {0, 1}
      /\ pcd_semaphore = 0 => pcd_semaphore' = 0
  BY <1>1 DEF RingInv, RingType
<1>5. RingType'
  BY <1>1, <1>3, <1>4 DEF RingInv, RingType
<1> QED  BY <1>1, <1>3, <1>5, NeitherEndMoves

\* A frame is copied out of its slot before rd_idx gives the slot back.
LEMMA DrainKeeps == ASSUME RingInv, Ring!PcdDrain  PROVE RingInv'
<1> PICK m \in Lidars : m = pcd.lidar
  BY DEF RingInv, RingType
<1>1. /\ pcd.at = "drain"
      /\ UNCHANGED <<storage_packet, rd_idx, wr_idx, imu_data, imu_semaphore,
                     pcd_semaphore, producer, sdk, imu, node, out>>
  BY DEF Ring!PcdDrain, Ring!ringVars, Ring!imuVars
<1>2. CASE Ring!IsEmpty(m)
  <2>1. pcd' = [pcd EXCEPT !.at = "poll"]
    BY <1>2 DEF Ring!PcdDrain
  <2>2. RingType' /\ pcd'.at # "pop"
    BY <1>1, <2>1 DEF RingInv, RingType
  <2> QED  BY <1>1, <2>2, NeitherEndMoves
<1>3. CASE ~Ring!IsEmpty(m)
  <2> DEFINE taken == storage_packet[m][Ring!PopSlot(m)]
  <2>1. pcd' = [pcd EXCEPT !.at = "pop", !.frame = taken]
    BY <1>3 DEF Ring!PcdDrain
  <2>2. storage_packet[m] \in [0 .. Size - 1 -> Frames \cup {NULL}]
    BY <1>1 DEF RingInv, RingType
  <2>3. Ring!PopSlot(m) \in 0 .. Size - 1
    <3>1. rd_idx[m] \in Nat
      BY DEF RingInv, RingType
    <3> QED  BY <3>1, DriverAssumption DEF Ring!PopSlot, Ring!Slot
  <2>4. taken \in Frames \cup {NULL}
    BY <2>2, <2>3
  <2>5. RingType'
    <3> HIDE DEF taken
    <3> QED  BY <1>1, <2>1, <2>4 DEF RingInv, RingType
  <2>6. Ring!UsedSize(m) > 0
    <3>1. rd_idx[m] \in 0 .. Word - 1 /\ wr_idx[m] \in 0 .. Word - 1
      BY DEF RingInv, RingType
    <3>2. rd_idx[m] # wr_idx[m]
      BY <1>3 DEF Ring!IsEmpty
    <3>3. (wr_idx[m] - rd_idx[m]) % Word # 0
      <4> DEFINE w == wr_idx[m]  r == rd_idx[m]
      <4> HIDE DEF w, r
      <4>1. (w - r) % Word = IF w >= r THEN w - r ELSE w - r + Word
        BY <3>1, Difference DEF w, r
      <4>2. w \in 0 .. Word - 1 /\ r \in 0 .. Word - 1 /\ w # r
        BY <3>1, <3>2 DEF w, r
      <4>3. (w - r) % Word # 0
        BY <4>1, <4>2, DriverAssumption
      <4> QED  BY <4>3 DEF w, r
    <3>4. Ring!UsedSize(m) \in 0 .. Size
      BY DEF RingInv
    <3> QED  BY <3>3, <3>4, DriverAssumption DEF Ring!UsedSize
  <2>7. \A l \in Lidars : Ring!UsedSize(l)' = Ring!UsedSize(l)
    BY <1>1, UsedUnchanged
  <2>8. pcd'.lidar = m /\ producer.lidar \in Lidars
    BY <2>1 DEF RingInv, RingType
  <2> QED  BY <1>1, <2>5, <2>6, <2>7, <2>8 DEF RingInv
<1> QED  BY <1>2, <1>3

LEMMA PopKeeps == ASSUME RingInv, Ring!PcdPop  PROVE RingInv'
<1> PICK m \in Lidars : m = pcd.lidar
  BY DEF RingInv, RingType
<1>1. /\ pcd.at = "pop"
      /\ rd_idx' = [rd_idx EXCEPT ![m] = (@ + 1) % Word]
      /\ out' = [out EXCEPT ![m] = pcd.frame]
      /\ pcd' = [pcd EXCEPT !.at = "drain", !.frame = NULL]
      /\ UNCHANGED <<storage_packet, wr_idx, imu_data, imu_semaphore,
                     pcd_semaphore, producer, sdk, imu, node>>
  BY DEF Ring!PcdPop, Ring!imuVars
<1>2. Ring!UsedSize(m) > 0
  BY <1>1 DEF RingInv
<1>3. /\ rd_idx' \in [Lidars -> 0 .. Word - 1]
      /\ Ring!UsedSize(m)' = Ring!UsedSize(m) - 1
      /\ \A l \in Lidars \ {m} : Ring!UsedSize(l)' = Ring!UsedSize(l)
  BY <1>1, <1>2, UsedAfterPop
<1>4. RingType' /\ pcd'.at = "drain"
  BY <1>1, <1>3 DEF RingInv, RingType
<1>5. (\A l \in Lidars : Ring!UsedSize(l) \in 0 .. Size)'
  <2> SUFFICES ASSUME NEW l \in Lidars  PROVE Ring!UsedSize(l)' \in 0 .. Size
    OBVIOUS
  <2> QED  BY <1>2, <1>3, DriverAssumption DEF RingInv
<1>6. producer.lidar \in Lidars /\ \A l \in Lidars : Ring!UsedSize(l) \in Nat
  BY DriverAssumption DEF RingInv, RingType
<1>7. (producer.at \in {"write", "advance"} => Ring!UsedSize(producer.lidar) < Size)'
  BY <1>1, <1>3, <1>6, DriverAssumption DEF RingInv
<1> QED  BY <1>4, <1>5, <1>7 DEF RingInv

\* The IMU thread and the life of the node touch no ring.
LEMMA ImuKeeps == ASSUME RingInv, Ring!ImuStep  PROVE RingInv'
<1>1. /\ UNCHANGED <<storage_packet, rd_idx, wr_idx, pcd_semaphore,
                     producer, sdk, pcd, node, out>>
      /\ \/ imu_semaphore' = imu_semaphore
         \/ imu_semaphore > 0 /\ imu_semaphore' = imu_semaphore - 1
      /\ imu_data' \subseteq imu_data
      /\ \/ imu' = imu
         \/ \E place \in {"top", "wait", "poll", "ended"} : imu' = [imu EXCEPT !.at = place]
         \/ imu' = [imu EXCEPT !.at = "top", !.lidar = 1]
         \/ imu.lidar # LidarCount /\ imu' = [imu EXCEPT !.lidar = @ + 1]
  <2> USE DEF Ring!ringVars, Ring!imuVars
  <2>1. CASE Ring!ImuTop
    BY <2>1 DEF Ring!ImuTop
  <2>2. CASE Ring!ImuWait
    BY <2>2 DEF Ring!ImuWait
  <2>3. CASE Ring!ImuPublish
    BY <2>3 DEF Ring!ImuPublish
  <2>4. CASE Ring!ImuNext
    BY <2>4 DEF Ring!ImuNext, Ring!NextLidar
  <2> QED  BY <2>1, <2>2, <2>3, <2>4 DEF Ring!ImuStep
<1>2. 1 \in Lidars /\ imu.lidar \in Lidars
  BY DriverAssumption DEF RingInv, RingType, Lidars
<1>3. imu' \in [at : {"top", "wait", "poll", "ended"}, lidar : Lidars]
  BY <1>1, <1>2, NextLidarType DEF RingInv, RingType
<1>4. imu_semaphore' \in {0, 1} /\ (imu_semaphore = 0 => imu_semaphore' = 0)
  BY <1>1 DEF RingInv, RingType
<1>5. RingType'
  BY <1>1, <1>3, <1>4 DEF RingInv, RingType
<1> QED  BY <1>1, <1>5, NeitherEndMoves

LEMMA NodeKeeps == ASSUME RingInv, Ring!RequestExit \/ Ring!NodeStep  PROVE RingInv'
<1>1. /\ UNCHANGED <<storage_packet, rd_idx, wr_idx, imu_data, imu_semaphore,
                     pcd_semaphore, producer, sdk, pcd, imu, out>>
      /\ node' \in Ring!Stages
  BY DEF Ring!RequestExit, Ring!NodeStep, Ring!SetSignal, Ring!Join, Ring!SdkUninit,
         Ring!Quit, Ring!JoinProducer, Ring!Stage, Ring!Stages, Ring!ringVars, Ring!imuVars
<1>2. RingType'
  BY <1>1 DEF RingInv, RingType
<1> QED  BY <1>1, <1>2, NeitherEndMoves

LEMMA RingStutters == ASSUME RingInv, UNCHANGED ringVars  PROVE RingInv'
<1>1. UNCHANGED <<storage_packet, rd_idx, wr_idx, imu_data, imu_semaphore,
                  pcd_semaphore, producer, sdk, pcd, imu, node, out>>
  BY DEF ringVars
<1>2. RingType'
  BY <1>1 DEF RingInv, RingType
<1> QED  BY <1>1, <1>2, NeitherEndMoves

LEMMA RingAlways == Spec => []RingInv
<1>1. Init => RingInv
  BY RingInit DEF Init
<1>2. RingInv /\ [Next]_vars => RingInv'
  <2> SUFFICES ASSUME RingInv, [Next]_vars  PROVE RingInv'
    OBVIOUS
  <2>1. CASE UNCHANGED ringVars
    BY <2>1, RingStutters
  <2>2. CASE Ring!Next
    <3>1. CASE \E l \in Lidars : Ring!ImuArrives(l) \/ \E f \in Frames : Ring!Offer(l, f)
      BY <3>1, SdkKeeps, OfferKeeps
    <3>2. CASE Ring!ProducerStep
      BY <3>2, WriteKeeps, AdvanceKeeps, WakingKeeps DEF Ring!ProducerStep
    <3>3. CASE Ring!SdkStep
      <4>1. 1 \in Lidars
        BY DriverAssumption DEF Lidars
      <4> QED  BY <3>3, <4>1, SdkKeeps
    <3>4. CASE Ring!PcdStep
      BY <3>4, PollingKeeps, DrainKeeps, PopKeeps DEF Ring!PcdStep
    <3>5. CASE Ring!ImuStep
      BY <3>5, ImuKeeps
    <3>6. CASE Ring!RequestExit \/ Ring!NodeStep
      BY <3>6, NodeKeeps
    <3> QED  BY <2>2, <3>1, <3>2, <3>3, <3>4, <3>5, <3>6
             DEF Ring!Next, Ring!Lidars, Lidars
  <2> QED  BY <2>1, <2>2 DEF Next, Starting, Configuring, Moving, vars
<1> QED  BY <1>1, <1>2, PTL DEF Spec

\* For every number of LiDARs, ring size and width of the indices: the producer never
\* writes the slot that is being read (ldq.cpp, without a lock).
THEOREM SlotIsSafeHolds == Spec => []SlotIsSafe
<1>1. RingInv => SlotIsSafe
  BY RingIsSafe
<1> QED  BY <1>1, RingAlways, PTL

\* Type correctness; in particular the semaphores never count beyond one, although
\* Signal is decided on a count read outside their mutex (lds.cpp).
THEOREM DriverTypeCorrect == Spec => []TypeOK
<1>1. ConfigInv /\ RingInv => TypeOK
  BY DEF ConfigInv, TableInv, RingInv, RingType, TypeOK, ThreadOK
<1> QED  BY <1>1, ConfigAlways, RingAlways, PTL

-----------------------------------------------------------------------------
(* The ring is a FIFO. *)

\* Indices a whole word apart name the same slot.
LEMMA WordApart ==
  ASSUME NEW a \in Nat  PROVE (a + Word) % Size = a % Size
<1> Size \in Nat \ {0} /\ Word \in Nat
  BY DriverAssumption
<1> DEFINE b == a + Word  x == a % Size  y == b % Size
<1>1. b \in Nat /\ b = a + Word
  OBVIOUS
<1> HIDE DEF b
<1>2. x \in 0 .. Size - 1 /\ y \in 0 .. Size - 1
  BY <1>1
<1>3. PICK i \in Nat : a = Size * i + x
  BY Division
<1>4. PICK j \in Nat : b = Size * j + y
  BY <1>1, Division
<1> PICK k \in Nat : Word = Size * k + 0
  BY Division, DriverAssumption
<1> HIDE DEF x, y
<1>5. y - x = Size * (i + k - j) /\ x - y = Size * (j - i - k)
  BY <1>1, <1>2, <1>3, <1>4
<1>6. y - x \notin 1 .. Size - 1 /\ x - y \notin 1 .. Size - 1
  <2>1. i + k - j \in Int /\ j - i - k \in Int
    OBVIOUS
  <2> QED  BY <1>5, <2>1, NoMultipleBelow
<1>7. x = y
  BY <1>2, <1>6
<1> QED  BY <1>7 DEF x, y, b

\* The used slots end where the producer writes.
LEMMA SlotBehind ==
  ASSUME NEW w \in 0 .. Word - 1, NEW r \in 0 .. Word - 1
  PROVE  (r + ((w - r) % Word)) % Size = w % Size
<1>1. Word \in Nat
  BY DriverAssumption
<1>2. CASE w >= r
  BY <1>1, <1>2, Difference
<1>3. CASE w < r
  <2>1. (w - r) % Word = w - r + Word
    BY <1>3, Difference
  <2>2. w \in Nat /\ r \in Nat
    OBVIOUS
  <2>3. r + (w - r + Word) = w + Word
    BY <1>1, <2>2
  <2>4. (w + Word) % Size = w % Size
    BY <2>2, WordApart
  <2>5. r + ((w - r) % Word) = w + Word
    BY <2>1, <2>3, Zenon
  <2> QED  BY <2>4, <2>5, Zenon
<1> QED  BY <1>1, <1>2, <1>3

\* While there is room, none of the used slots is the one the producer writes.
LEMMA SlotAhead ==
  ASSUME NEW w \in 0 .. Word - 1, NEW r \in 0 .. Word - 1,
         (w - r) % Word \in 0 .. Size - 1, NEW i \in 1 .. (w - r) % Word
  PROVE  (r + i - 1) % Size # w % Size
<1> Size \in Nat \ {0} /\ Word \in Nat /\ Word > Size
  BY DriverAssumption
<1> DEFINE n == (w - r) % Word
           v == r + i - 1
<1>1. n = (IF w >= r THEN w - r ELSE w - r + Word) /\ n \in 0 .. Size - 1 /\ i \in 1 .. n
  BY Difference
<1> HIDE DEF n
<1>2. v \in Nat
  BY <1>1
<1>3. CASE v < Word
  <2>1. v \in 0 .. Word - 1
    BY <1>2, <1>3
  <2>2. (w - v) % Word = IF w >= v THEN w - v ELSE w - v + Word
    BY <2>1, Difference
  <2>3. (w - v) % Word \in 1 .. Size - 1
    BY <1>1, <2>1, <2>2
  <2> QED  BY <2>1, <2>3, DifferentSlots
<1>4. CASE v >= Word
  <2>1. PICK u \in 0 .. Word - 1 : v = u + Word
    <3>1. v - Word \in 0 .. Word - 1 /\ v = (v - Word) + Word
      BY <1>1, <1>2, <1>4
    <3> QED  BY <3>1
  <2>2. v % Size = u % Size
    <3>1. u \in Nat
      OBVIOUS
    <3> QED  BY <2>1, <3>1, WordApart
  <2>3. (w - u) % Word = IF w >= u THEN w - u ELSE w - u + Word
    BY <2>1, Difference
  <2>4. (w - u) % Word \in 1 .. Size - 1
    BY <1>1, <2>1, <2>3
  <2>5. w % Size # u % Size
    BY <2>1, <2>4, DifferentSlots
  <2> QED  BY <2>2, <2>5
<1> QED  BY <1>2, <1>3, <1>4

\* What a thread has done at its end of the ring and the indices do not show yet.
FifoInv ==
  /\ \A l \in Lidars : storage_packet[l] = <<>> => Ring!UsedSize(l) = 0
  /\ producer.at \in {"write", "advance"} =>
       producer.frame \in Frames /\ storage_packet[producer.lidar] # <<>>
  /\ producer.at = "advance" =>
       storage_packet[producer.lidar][wr_idx[producer.lidar] % Size] = producer.frame
  /\ pcd.at = "pop" =>
       pcd.frame = storage_packet[pcd.lidar][rd_idx[pcd.lidar] % Size]

\* n slots of a ring from r on.
Window(ring, r, n) == [i \in 1 .. n |-> ring[(r + i - 1) % Size]]

\* They are a sequence of frames.
LEMMA WindowIsSeq ==
  ASSUME NEW ring, NEW r \in Nat, NEW n \in Nat,
         n # 0 => ring \in [0 .. Size - 1 -> Frames \cup {NULL}]
  PROVE  /\ Window(ring, r, n) \in Seq(Frames \cup {NULL})
         /\ Len(Window(ring, r, n)) = n
         /\ \A i \in 1 .. n : Window(ring, r, n)[i] = ring[(r + i - 1) % Size]
<1> DEFINE q == Window(ring, r, n)
<1>1. ASSUME NEW i \in 1 .. n  PROVE ring[(r + i - 1) % Size] \in Frames \cup {NULL}
  <2>1. ring \in [0 .. Size - 1 -> Frames \cup {NULL}] /\ Size \in Nat \ {0}
    BY DriverAssumption
  <2>2. (r + i - 1) % Size \in 0 .. Size - 1
    BY <2>1
  <2> QED  BY <2>1, <2>2
<1>2. q \in [1 .. n -> Frames \cup {NULL}]
  BY <1>1 DEF Window
<1>3. q \in Seq(Frames \cup {NULL})
  BY <1>2, SeqDef
<1>4. Len(q) = n
  BY <1>2, <1>3, LenProperties
<1> QED  BY <1>3, <1>4 DEF Window

LEMMA StoredIsSeq ==
  ASSUME RingInv, FifoInv, NEW l \in Lidars
  PROVE  /\ Stored(l) \in Seq(Frames \cup {NULL})
         /\ Len(Stored(l)) = Ring!UsedSize(l)
         /\ \A i \in 1 .. Ring!UsedSize(l) :
              Stored(l)[i] = storage_packet[l][(rd_idx[l] + i - 1) % Size]
<1>1. Ring!UsedSize(l) \in Nat /\ rd_idx[l] \in Nat
  BY DriverAssumption DEF RingInv, RingType
<1>2. Ring!UsedSize(l) # 0 => storage_packet[l] \in [0 .. Size - 1 -> Frames \cup {NULL}]
  BY DEF FifoInv, RingInv, RingType
<1>3. Stored(l) = Window(storage_packet[l], rd_idx[l], Ring!UsedSize(l))
  BY DEF Stored, Window
<1> DEFINE ring == storage_packet[l]  r == rd_idx[l]  n == Ring!UsedSize(l)
<1> HIDE DEF ring, r, n
<1>4. /\ Window(ring, r, n) \in Seq(Frames \cup {NULL})
      /\ Len(Window(ring, r, n)) = n
      /\ \A i \in 1 .. n : Window(ring, r, n)[i] = ring[(r + i - 1) % Size]
  <2>1. r \in Nat /\ n \in Nat
    BY <1>1 DEF r, n
  <2>2. n # 0 => ring \in [0 .. Size - 1 -> Frames \cup {NULL}]
    BY <1>2 DEF ring, n
  <2> QED  BY <2>1, <2>2, WindowIsSeq
<1> QED  BY <1>3, <1>4 DEF ring, r, n

\* A step that leaves both ends of every ring where they are.
LEMMA EndsStay ==
  ASSUME RingInv, FifoInv, UNCHANGED <<storage_packet, rd_idx, wr_idx, out>>,
         producer' = producer \/ producer'.at \notin {"write", "advance"},
         pcd' = pcd \/ pcd'.at # "pop"
  PROVE  FifoInv' /\ UNCHANGED Fifo!vars
<1>1. \A l : Ring!UsedSize(l)' = Ring!UsedSize(l)
  BY UsedUnchanged
<1>2. FifoInv'
  BY <1>1 DEF FifoInv
<1>3. \A l \in Lidars : Stored(l)' = Stored(l)
  BY <1>1 DEF Stored
<1> QED  BY <1>2, <1>3 DEF Fifo!vars

LEMMA FifoInit == ASSUME Ring!Init, RingInv  PROVE FifoInv /\ Fifo!Init
<1>1. rd_idx = [l \in Lidars |-> 0] /\ wr_idx = [l \in Lidars |-> 0]
  BY DEF Ring!Init, Ring!Lidars, Lidars
<1>2. (0 - 0) % Word = 0
  <2>1. 0 \in 0 .. Word - 1
    BY DriverAssumption
  <2> QED  BY <2>1, Difference
<1>3. \A l \in Lidars : Ring!UsedSize(l) = 0
  BY <1>1, <1>2 DEF Ring!UsedSize
<1>4. producer.at = "idle" /\ pcd.at = "top"
  BY DEF Ring!Init
<1>5. FifoInv
  BY <1>3, <1>4 DEF FifoInv
<1>6. \A l \in Lidars : Stored(l) = <<>>
  <2> SUFFICES ASSUME NEW l \in Lidars  PROVE Stored(l) = <<>>
    OBVIOUS
  <2>1. Stored(l) \in Seq(Frames \cup {NULL}) /\ Len(Stored(l)) = 0
    BY <1>3, <1>5, StoredIsSeq
  <2> QED  BY <2>1, EmptySeq
<1>7. out = [l \in Lidars |-> NULL]
  BY DEF Ring!Init, Ring!Lidars, Lidars
<1> QED  BY <1>5, <1>6, <1>7 DEF Fifo!Init

\* A ring that is made has held nothing before.
LEMMA OfferMaps ==
  ASSUME RingInv, FifoInv, NEW m \in Lidars, NEW f \in Frames, Ring!Offer(m, f)
  PROVE  FifoInv' /\ UNCHANGED Fifo!vars
<1> DEFINE room == [at |-> "write", lidar |-> m, frame |-> f]
           full == [at |-> "count", lidar |-> m, frame |-> NULL]
<1>1. /\ producer' = IF Ring!IsFull(m) THEN full ELSE room
      /\ storage_packet' = [storage_packet EXCEPT ![m] =
                              IF @ = <<>> THEN Ring!FreshRing ELSE @]
      /\ UNCHANGED <<rd_idx, wr_idx, pcd, out>>
  BY DEF Ring!Offer, Ring!WhenFull, Ring!imuVars
<1>2. Ring!FreshRing # <<>>
  <2>1. 0 \in DOMAIN Ring!FreshRing /\ 0 \notin DOMAIN <<>>
    BY DriverAssumption DEF Ring!FreshRing
  <2> QED  BY <2>1
<1>3. \A l \in Lidars : /\ storage_packet[l] # <<>> => storage_packet'[l] = storage_packet[l]
                        /\ storage_packet'[l] = <<>> => storage_packet[l] = <<>>
  BY <1>1, <1>2 DEF RingInv, RingType
<1>4. storage_packet'[m] # <<>>
  BY <1>1, <1>2 DEF RingInv, RingType
<1>5. \A l : Ring!UsedSize(l)' = Ring!UsedSize(l)
  BY <1>1, UsedUnchanged
<1>6. pcd.at = "pop" => pcd.lidar \in Lidars /\ storage_packet[pcd.lidar] # <<>>
  BY DEF RingInv, RingType
<1>7. /\ producer'.at \in {"write", "advance"} =>
           producer'.frame \in Frames /\ storage_packet'[producer'.lidar] # <<>>
      /\ producer'.at # "advance"
  BY <1>1, <1>4
<1>8. FifoInv'
  <2>1. (\A l \in Lidars : storage_packet[l] = <<>> => Ring!UsedSize(l) = 0)'
    BY <1>3, <1>5 DEF FifoInv
  <2>2. (pcd.at = "pop" => pcd.frame = storage_packet[pcd.lidar][rd_idx[pcd.lidar] % Size])'
    BY <1>1, <1>3, <1>6 DEF FifoInv
  <2> QED  BY <1>7, <2>1, <2>2 DEF FifoInv
<1>9. ASSUME NEW l \in Lidars  PROVE Stored(l)' = Stored(l)
  <2>1. CASE storage_packet[l] # <<>>
    BY <1>1, <1>3, <1>5, <2>1 DEF Stored
  <2>2. CASE storage_packet[l] = <<>>
    <3>1. Ring!UsedSize(l) = 0 /\ Ring!UsedSize(l)' = 0
      BY <1>5, <2>2 DEF FifoInv
    <3> QED  BY <3>1 DEF Stored
  <2> QED  BY <2>1, <2>2
<1> QED  BY <1>1, <1>8, <1>9 DEF Fifo!vars

\* Writing a slot that holds no waiting frame.
LEMMA WriteMaps ==
  ASSUME RingInv, FifoInv, Ring!Write  PROVE FifoInv' /\ UNCHANGED Fifo!vars
<1> DEFINE m == producer.lidar  slot == wr_idx[m] % Size
<1>1. /\ producer.at = "write"
      /\ producer' = [producer EXCEPT !.at = "advance"]
      /\ storage_packet' = [storage_packet EXCEPT ![m][slot] = producer.frame]
      /\ UNCHANGED <<rd_idx, wr_idx, pcd, out>>
  BY DEF Ring!Write, Ring!Goto, Ring!Slot
<1>2. m \in Lidars /\ producer.frame \in Frames /\ pcd.lidar \in Lidars
  BY <1>1 DEF RingInv, RingType, FifoInv
<1>3. storage_packet[m] \in [0 .. Size - 1 -> Frames \cup {NULL}]
  BY <1>1, <1>2 DEF RingInv, RingType
<1>4. wr_idx[m] \in 0 .. Word - 1 /\ rd_idx[m] \in 0 .. Word - 1
  BY <1>2 DEF RingInv, RingType
<1>5. Size \in Nat \ {0} /\ Word \in Nat /\ slot \in 0 .. Size - 1
  BY <1>4, DriverAssumption
<1>6. Ring!UsedSize(m) \in 0 .. Size - 1
  BY <1>1, <1>2, <1>5 DEF RingInv
<1> HIDE DEF m, slot
<1>7. /\ \A l \in Lidars \ {m} : storage_packet'[l] = storage_packet[l]
      /\ \A i \in 0 .. Size - 1 : i # slot => storage_packet'[m][i] = storage_packet[m][i]
      /\ storage_packet'[m][slot] = producer.frame
      /\ 0 \in DOMAIN storage_packet'[m]
  <2>1. storage_packet' = [storage_packet EXCEPT ![m] =
                             [storage_packet[m] EXCEPT ![slot] = producer.frame]]
    BY <1>1
  <2>2. storage_packet'[m] = [storage_packet[m] EXCEPT ![slot] = producer.frame]
    BY <1>2, <2>1 DEF RingInv, RingType
  <2>3. \A l \in Lidars \ {m} : storage_packet'[l] = storage_packet[l]
    BY <1>2, <2>1 DEF RingInv, RingType
  <2> QED  BY <1>3, <1>5, <2>2, <2>3
<1>8. storage_packet'[m] # <<>>
  BY <1>7
<1>9. \A l : Ring!UsedSize(l)' = Ring!UsedSize(l)
  BY <1>1, UsedUnchanged
<1>10. producer'.lidar = m /\ producer'.frame = producer.frame /\ producer'.at = "advance"
  BY <1>1 DEF RingInv, RingType, m
<1>11. FifoInv'
  <2>1. (\A l \in Lidars : storage_packet[l] = <<>> => Ring!UsedSize(l) = 0)'
    BY <1>7, <1>8, <1>9 DEF FifoInv
  <2>2. (pcd.at = "pop" => pcd.frame = storage_packet[pcd.lidar][rd_idx[pcd.lidar] % Size])'
    <3> SUFFICES ASSUME pcd.at = "pop"
                 PROVE  pcd.frame = storage_packet'[pcd.lidar][rd_idx[pcd.lidar] % Size]
      BY <1>1
    <3>1. pcd.frame = storage_packet[pcd.lidar][rd_idx[pcd.lidar] % Size]
      BY DEF FifoInv
    <3>2. CASE pcd.lidar = m
      <4>1. rd_idx[m] % Size # slot
        BY <1>1, <3>2, RingIsSafe DEF SlotIsSafe, m, slot
      <4>2. rd_idx[m] % Size \in 0 .. Size - 1
        BY <1>4, <1>5
      <4> QED  BY <1>7, <3>1, <3>2, <4>1, <4>2
    <3>3. CASE pcd.lidar # m
      BY <1>2, <1>7, <3>1, <3>3
    <3> QED  BY <3>2, <3>3
  <2>3. storage_packet'[m][wr_idx'[m] % Size] = producer.frame
    BY <1>1, <1>7 DEF slot
  <2> QED  BY <1>2, <1>8, <1>10, <2>1, <2>2, <2>3 DEF FifoInv
<1>12. ASSUME NEW l \in Lidars  PROVE Stored(l)' = Stored(l)
  <2>1. CASE l # m
    BY <1>1, <1>7, <1>9, <2>1 DEF Stored
  <2>2. CASE l = m
    <3>1. ASSUME NEW i \in 1 .. Ring!UsedSize(m)
          PROVE  storage_packet'[m][(rd_idx[m] + i - 1) % Size]
                   = storage_packet[m][(rd_idx[m] + i - 1) % Size]
      <4>1. (rd_idx[m] + i - 1) % Size # slot
        BY <1>4, <1>6, SlotAhead DEF Ring!UsedSize, slot
      <4>2. (rd_idx[m] + i - 1) % Size \in 0 .. Size - 1
        BY <1>4, <1>5, <1>6
      <4> QED  BY <1>7, <4>1, <4>2
    <3> QED  BY <1>1, <1>9, <2>2, <3>1 DEF Stored
  <2> QED  BY <2>1, <2>2
<1> QED  BY <1>1, <1>11, <1>12 DEF Fifo!vars

\* The index moves on: the frame is stored.
LEMMA AdvanceMaps ==
  ASSUME RingInv, FifoInv, Ring!Advance  PROVE FifoInv' /\ Fifo!Next
<1> PICK m \in Lidars : m = producer.lidar
  BY DEF RingInv, RingType
<1>1. /\ producer.at = "advance"
      /\ producer' = [producer EXCEPT !.at = "check"]
      /\ wr_idx' = [wr_idx EXCEPT ![m] = (@ + 1) % Word]
      /\ UNCHANGED <<storage_packet, rd_idx, pcd, out>>
  BY DEF Ring!Advance, Ring!Goto, Ring!imuVars
<1>2. /\ storage_packet[m] # <<>>
      /\ producer.frame \in Frames
      /\ storage_packet[m][wr_idx[m] % Size] = producer.frame
  BY <1>1 DEF FifoInv
<1>3. Ring!UsedSize(m) < Size /\ Ring!UsedSize(m) \in Nat
  BY <1>1, DriverAssumption DEF RingInv
<1>4. /\ Ring!UsedSize(m)' = Ring!UsedSize(m) + 1
      /\ \A l \in Lidars \ {m} : Ring!UsedSize(l)' = Ring!UsedSize(l)
  BY <1>1, <1>3, UsedAfterAdvance
<1>5. FifoInv'
  <2>1. (\A l \in Lidars : storage_packet[l] = <<>> => Ring!UsedSize(l) = 0)'
    BY <1>1, <1>2, <1>4 DEF FifoInv
  <2>2. producer'.at = "check"
    BY <1>1 DEF RingInv, RingType
  <2> QED  BY <1>1, <2>1, <2>2 DEF FifoInv
<1>6. \A l \in Lidars \ {m} : Stored(l)' = Stored(l)
  BY <1>1, <1>4 DEF Stored
<1>7. Stored(m)' = Append(Stored(m), producer.frame)
  <2> DEFINE S == Frames \cup {NULL}
             old == Stored(m)
             new == Stored(m)'
             n == Ring!UsedSize(m)
  <2>1. /\ old \in Seq(S) /\ Len(old) = n
        /\ \A i \in 1 .. n : old[i] = storage_packet[m][(rd_idx[m] + i - 1) % Size]
    BY StoredIsSeq
  <2>3. /\ new \in Seq(S) /\ Len(new) = n + 1
        /\ \A i \in 1 .. n + 1 : new[i] = storage_packet[m][(rd_idx[m] + i - 1) % Size]
    <3>1. new = Window(storage_packet[m], rd_idx[m], n + 1)
      BY <1>1, <1>4 DEF Stored, Window
    <3>2. n + 1 \in Nat /\ rd_idx[m] \in Nat
      BY <1>3 DEF RingInv, RingType
    <3>3. storage_packet[m] \in [0 .. Size - 1 -> Frames \cup {NULL}]
      BY <1>2 DEF RingInv, RingType
    <3> DEFINE ring == storage_packet[m]  r == rd_idx[m]  k == n + 1
    <3>4. ring \in [0 .. Size - 1 -> Frames \cup {NULL}] /\ r \in Nat /\ k \in Nat
      BY <3>2, <3>3
    <3> HIDE DEF ring, r, k
    <3>5. /\ Window(ring, r, k) \in Seq(Frames \cup {NULL})
          /\ Len(Window(ring, r, k)) = k
          /\ \A i \in 1 .. k : Window(ring, r, k)[i] = ring[(r + i - 1) % Size]
      BY <3>4, WindowIsSeq
    <3> QED  BY <3>1, <3>5 DEF ring, r, k
  <2>4. (rd_idx[m] + (n + 1) - 1) % Size = wr_idx[m] % Size
    <3>1. wr_idx[m] \in 0 .. Word - 1 /\ rd_idx[m] \in 0 .. Word - 1
      BY DEF RingInv, RingType
    <3>2. (rd_idx[m] + n) % Size = wr_idx[m] % Size
      BY <3>1, SlotBehind DEF Ring!UsedSize
    <3>3. rd_idx[m] + (n + 1) - 1 = rd_idx[m] + n
      BY <1>3, <3>1
    <3> QED  BY <3>2, <3>3, Zenon
  <2> HIDE DEF S, old, new, n
  <2>5. n \in Nat
    BY <1>3 DEF n
  <2>6. new[n + 1] = producer.frame
    <3>1. n + 1 \in 1 .. n + 1
      BY <2>5
    <3>2. new[n + 1] = storage_packet[m][(rd_idx[m] + (n + 1) - 1) % Size]
      BY <2>3, <3>1, Zenon
    <3> QED  BY <1>2, <2>4, <3>2, Zenon
  <2>7. \A i \in 1 .. n : new[i] = old[i]
    <3>1. \A i \in 1 .. n : i \in 1 .. n + 1
      BY <2>5
    <3> QED  BY <2>1, <2>3, <3>1, Zenon
  <2> DEFINE longer == Append(old, producer.frame)
  <2>8. /\ longer \in Seq(S) /\ Len(longer) = n + 1
        /\ \A i \in 1 .. n : longer[i] = old[i]
        /\ longer[n + 1] = producer.frame
    <3>1. producer.frame \in S
      BY <1>2 DEF S
    <3> QED  BY <2>1, <3>1, AppendProperties
  <2>9. \A i \in 1 .. Len(new) : new[i] = longer[i]
    <3> HIDE DEF longer
    <3>1. \A i \in 1 .. n + 1 : i \in 1 .. n \/ i = n + 1
      BY <2>5
    <3> QED  BY <2>3, <2>6, <2>7, <2>8, <3>1, Zenon
  <2>10. new = longer
    <3> HIDE DEF longer
    <3> QED  BY <2>3, <2>8, <2>9, SeqEqual
  <2> QED  BY <2>10 DEF old, new
<1>8. Fifo!Store(m, producer.frame)
  <2>1. Len(Stored(m)) < Size
    BY <1>3, StoredIsSeq
  <2>2. [l \in Lidars |-> Stored(l)]' =
          [[l \in Lidars |-> Stored(l)] EXCEPT ![m] = Append(Stored(m), producer.frame)]
    BY <1>6, <1>7
  <2> QED  BY <1>1, <2>1, <2>2 DEF Fifo!Store
<1> QED  BY <1>2, <1>5, <1>8 DEF Fifo!Next

\* The oldest frame is copied out; its slot is given back later.
LEMMA DrainMaps ==
  ASSUME RingInv, FifoInv, Ring!PcdDrain  PROVE FifoInv' /\ UNCHANGED Fifo!vars
<1> PICK m \in Lidars : m = pcd.lidar
  BY DEF RingInv, RingType
<1>1. UNCHANGED <<storage_packet, rd_idx, wr_idx, producer, out>>
  BY DEF Ring!PcdDrain, Ring!ringVars
<1>2. CASE Ring!IsEmpty(m)
  <2>1. pcd' = [pcd EXCEPT !.at = "poll"]
    BY <1>2 DEF Ring!PcdDrain
  <2>2. pcd'.at # "pop"
    BY <2>1 DEF RingInv, RingType
  <2> QED  BY <1>1, <2>2, EndsStay
<1>3. CASE ~Ring!IsEmpty(m)
  <2> DEFINE taken == storage_packet[m][rd_idx[m] % Size]
  <2>1. pcd' = [pcd EXCEPT !.at = "pop", !.frame = taken]
    BY <1>3 DEF Ring!PcdDrain, Ring!PopSlot, Ring!Slot
  <2>2. pcd'.lidar = m /\ pcd'.frame = taken
    <3> HIDE DEF taken
    <3> QED  BY <2>1 DEF RingInv, RingType
  <2>3. \A l : Ring!UsedSize(l)' = Ring!UsedSize(l)
    BY <1>1, UsedUnchanged
  <2>4. FifoInv'
    BY <1>1, <2>2, <2>3 DEF FifoInv
  <2>5. \A l \in Lidars : Stored(l)' = Stored(l)
    BY <1>1, <2>3 DEF Stored
  <2> QED  BY <1>1, <2>4, <2>5 DEF Fifo!vars
<1> QED  BY <1>2, <1>3

\* The slot is given back: the frame is published.
LEMMA PopMaps ==
  ASSUME RingInv, FifoInv, Ring!PcdPop  PROVE FifoInv' /\ Fifo!Next
<1> PICK m \in Lidars : m = pcd.lidar
  BY DEF RingInv, RingType
<1>1. /\ pcd.at = "pop"
      /\ rd_idx' = [rd_idx EXCEPT ![m] = (@ + 1) % Word]
      /\ out' = [out EXCEPT ![m] = pcd.frame]
      /\ pcd' = [pcd EXCEPT !.at = "drain", !.frame = NULL]
      /\ UNCHANGED <<storage_packet, wr_idx, producer>>
  BY DEF Ring!PcdPop
<1>2. Ring!UsedSize(m) > 0 /\ Ring!UsedSize(m) \in Nat
  BY <1>1, DriverAssumption DEF RingInv
<1>3. /\ Ring!UsedSize(m)' = Ring!UsedSize(m) - 1
      /\ \A l \in Lidars \ {m} : Ring!UsedSize(l)' = Ring!UsedSize(l)
  BY <1>1, <1>2, UsedAfterPop
<1>4. pcd.frame = storage_packet[m][rd_idx[m] % Size]
  BY <1>1 DEF FifoInv
<1>5. FifoInv'
  <2>1. (\A l \in Lidars : storage_packet[l] = <<>> => Ring!UsedSize(l) = 0)'
    BY <1>1, <1>2, <1>3 DEF FifoInv
  <2>2. pcd'.at = "drain"
    BY <1>1 DEF RingInv, RingType
  <2> QED  BY <1>1, <2>1, <2>2 DEF FifoInv
<1>6. \A l \in Lidars \ {m} : rd_idx'[l] = rd_idx[l]
  BY <1>1 DEF RingInv, RingType
<1>7. \A l \in Lidars \ {m} : Stored(l)' = Stored(l)
  BY <1>1, <1>3, <1>6 DEF Stored
<1> DEFINE S == Frames \cup {NULL}
           old == Stored(m)
           new == Stored(m)'
           n == Ring!UsedSize(m)
<1>8. /\ old \in Seq(S) /\ Len(old) = n
      /\ \A i \in 1 .. n : old[i] = storage_packet[m][(rd_idx[m] + i - 1) % Size]
  BY StoredIsSeq
<1>10. /\ new \in Seq(S) /\ Len(new) = n - 1
       /\ \A i \in 1 .. n - 1 : new[i] = storage_packet[m][(rd_idx'[m] + i - 1) % Size]
  <2>1. new = Window(storage_packet[m], rd_idx'[m], n - 1)
    BY <1>1, <1>3 DEF Stored, Window
  <2>2. n - 1 \in Nat
    BY <1>2
  <2>3. rd_idx'[m] \in Nat
    <3>1. rd_idx' \in [Lidars -> 0 .. Word - 1]
      BY <1>1, <1>2, UsedAfterPop
    <3> QED  BY <3>1
  <2>4. storage_packet[m] \in [0 .. Size - 1 -> Frames \cup {NULL}]
    BY <1>1 DEF RingInv, RingType
  <2> DEFINE ring == storage_packet[m]  r == rd_idx'[m]  k == n - 1
  <2>5. ring \in [0 .. Size - 1 -> Frames \cup {NULL}] /\ r \in Nat /\ k \in Nat
    BY <2>2, <2>3, <2>4
  <2> HIDE DEF ring, r, k
  <2>6. /\ Window(ring, r, k) \in Seq(Frames \cup {NULL})
        /\ Len(Window(ring, r, k)) = k
        /\ \A i \in 1 .. k : Window(ring, r, k)[i] = ring[(r + i - 1) % Size]
    BY <2>5, WindowIsSeq
  <2> QED  BY <2>1, <2>6 DEF ring, r, k
<1>11. rd_idx[m] \in 0 .. Word - 1 /\ rd_idx'[m] = (rd_idx[m] + 1) % Word
  BY <1>1 DEF RingInv, RingType
<1>12. ASSUME NEW i \in Nat \ {0}
       PROVE  (rd_idx'[m] + i - 1) % Size = (rd_idx[m] + i) % Size
  <2>1. rd_idx'[m] = IF rd_idx[m] = Word - 1 THEN 0 ELSE rd_idx[m] + 1
    BY <1>11, Successor
  <2>2. CASE rd_idx[m] # Word - 1
    <3>1. rd_idx'[m] + i - 1 = rd_idx[m] + i
      BY <1>11, <2>1, <2>2, DriverAssumption
    <3> QED  BY <3>1, Zenon
  <2>3. CASE rd_idx[m] = Word - 1
    <3>1. i - 1 \in Nat /\ rd_idx'[m] + i - 1 = i - 1
      BY <2>1, <2>3
    <3>2. rd_idx[m] + i = (i - 1) + Word
      BY <2>3, DriverAssumption
    <3>3. ((i - 1) + Word) % Size = (i - 1) % Size
      BY <3>1, WordApart
    <3> QED  BY <3>1, <3>2, <3>3, Zenon
  <2> QED  BY <2>2, <2>3
<1> HIDE DEF S, old, new, n
<1>13. n \in Nat /\ n > 0
  BY <1>2 DEF n
<1>14. old # <<>> /\ Head(old) = pcd.frame
  <2>1. 1 \in 1 .. n /\ rd_idx[m] + 1 - 1 = rd_idx[m]
    BY <1>11, <1>13, DriverAssumption
  <2>2. old[1] = pcd.frame
    BY <1>4, <1>8, <2>1, Zenon
  <2>3. old # <<>>
    BY <1>8, <1>13
  <2> QED  BY <1>8, <2>2, <2>3
<1>15. new = Tail(old)
  <2>1. /\ Tail(old) \in Seq(S) /\ Len(Tail(old)) = n - 1
        /\ \A i \in 1 .. n - 1 : Tail(old)[i] = old[i + 1]
    BY <1>8, <1>14, HeadTailProperties
  <2>2. ASSUME NEW i \in 1 .. n - 1  PROVE new[i] = Tail(old)[i]
    <3>1. i + 1 \in 1 .. n /\ i \in Nat \ {0} /\ rd_idx[m] + (i + 1) - 1 = rd_idx[m] + i
      BY <1>11, <1>13, DriverAssumption
    <3>2. old[i + 1] = storage_packet[m][(rd_idx[m] + (i + 1) - 1) % Size]
      BY <1>8, <3>1, Zenon
    <3>3. new[i] = storage_packet[m][(rd_idx'[m] + i - 1) % Size]
      BY <1>10
    <3>4. Tail(old)[i] = old[i + 1]
      BY <2>1
    <3> QED  BY <1>12, <3>1, <3>2, <3>3, <3>4, Zenon
  <2> QED  BY <1>10, <2>1, <2>2, SeqEqual
<1>16. Fifo!Publish(m)
  <2>1. [l \in Lidars |-> Stored(l)]' =
          [[l \in Lidars |-> Stored(l)] EXCEPT ![m] = Tail(Stored(m))]
    BY <1>7, <1>15 DEF old, new
  <2>2. Stored(m) # <<>> /\ pcd.frame = Head(Stored(m))
    BY <1>14 DEF old
  <2> QED  BY <1>1, <2>1, <2>2 DEF Fifo!Publish
<1> QED  BY <1>5, <1>16 DEF Fifo!Next

\* Every other step leaves the rings alone, and no thread comes to a slot by it.
LEMMA OthersMap ==
  ASSUME RingInv, FifoInv,
         \/ \E l \in Lidars : Ring!ImuArrives(l)
         \/ Ring!Check \/ Ring!Count \/ Ring!Signal \/ Ring!ProducerEnds
         \/ Ring!SdkStep
         \/ Ring!PcdTop \/ Ring!PcdWait \/ Ring!PcdPoll
         \/ Ring!ImuStep \/ Ring!RequestExit \/ Ring!NodeStep
         \/ UNCHANGED ringVars
  PROVE  FifoInv' /\ UNCHANGED Fifo!vars
<1> USE DEF Ring!ringVars, Ring!imuVars
<1>1. CASE Ring!Check \/ Ring!Count \/ Ring!Signal \/ Ring!ProducerEnds
  <2>1. /\ UNCHANGED <<storage_packet, rd_idx, wr_idx, pcd, out>>
        /\ \/ producer' = [at |-> "idle", lidar |-> 1, frame |-> NULL]
           \/ \E place \in {"count", "signal", "ended"} :
                producer' = [producer EXCEPT !.at = place]
    BY <1>1 DEF Ring!Check, Ring!Count, Ring!Signal, Ring!ProducerEnds, Ring!Rest, Ring!Goto
  <2>2. producer'.at \notin {"write", "advance"}
    BY <2>1 DEF RingInv, RingType
  <2> QED  BY <2>1, <2>2, EndsStay
<1>2. CASE Ring!PcdTop \/ Ring!PcdWait \/ Ring!PcdPoll
  <2>1. /\ UNCHANGED <<storage_packet, rd_idx, wr_idx, producer, out>>
        /\ \/ \E place \in {"wait", "poll", "drain", "ended"} :
                pcd' = [pcd EXCEPT !.at = place]
           \/ pcd.at = "poll" /\ pcd' = Ring!NextLidar(pcd)
    BY <1>2 DEF Ring!PcdTop, Ring!PcdWait, Ring!PcdPoll
  <2>2. pcd'.at # "pop"
    BY <2>1 DEF RingInv, RingType, Ring!NextLidar
  <2> QED  BY <2>1, <2>2, EndsStay
<1>3. CASE (\E l \in Lidars : Ring!ImuArrives(l)) \/ Ring!SdkStep \/ Ring!ImuStep
  <2>1. UNCHANGED <<storage_packet, rd_idx, wr_idx, producer, pcd, out>>
    BY <1>3 DEF Ring!ImuArrives, Ring!SdkStep, Ring!ImuCount, Ring!ImuSignal, Ring!ImuStep,
                Ring!ImuTop, Ring!ImuWait, Ring!ImuPublish, Ring!ImuNext
  <2> QED  BY <2>1, EndsStay
<1>4. CASE Ring!RequestExit \/ Ring!NodeStep \/ UNCHANGED ringVars
  <2>1. UNCHANGED <<storage_packet, rd_idx, wr_idx, producer, pcd, out>>
    BY <1>4 DEF Ring!RequestExit, Ring!NodeStep, Ring!SetSignal, Ring!Join, Ring!SdkUninit,
                Ring!Quit, Ring!JoinProducer, Ring!Stage, ringVars
  <2> QED  BY <2>1, EndsStay
<1> QED  BY <1>1, <1>2, <1>3, <1>4

LEMMA StepMaps ==
  ASSUME RingInv, FifoInv, [Next]_vars
  PROVE  FifoInv' /\ [Fifo!Next]_(Fifo!vars)
<1>1. CASE UNCHANGED ringVars
  BY <1>1, OthersMap
<1>2. CASE Ring!Next
  <2>1. CASE \E l \in Lidars, f \in Frames : Ring!Offer(l, f)
    BY <2>1, OfferMaps
  <2>2. CASE Ring!Write
    BY <2>2, WriteMaps
  <2>3. CASE Ring!Advance
    BY <2>3, AdvanceMaps
  <2>4. CASE Ring!PcdDrain
    BY <2>4, DrainMaps
  <2>5. CASE Ring!PcdPop
    BY <2>5, PopMaps
  <2>6. CASE \/ \E l \in Lidars : Ring!ImuArrives(l)
             \/ Ring!Check \/ Ring!Count \/ Ring!Signal \/ Ring!ProducerEnds
             \/ Ring!SdkStep
             \/ Ring!PcdTop \/ Ring!PcdWait \/ Ring!PcdPoll
             \/ Ring!ImuStep \/ Ring!RequestExit \/ Ring!NodeStep
    BY <2>6, OthersMap
  <2> QED  BY <1>2, <2>1, <2>2, <2>3, <2>4, <2>5, <2>6
           DEF Ring!Next, Ring!ProducerStep, Ring!PcdStep, Ring!Lidars, Lidars
<1> QED  BY <1>1, <1>2 DEF Next, Starting, Configuring, Moving, vars

\* For every number of LiDARs, ring size and width of the indices: each ring is a
\* bounded FIFO of whole frames, once each and in order (ldq.cpp, lds.cpp, lddc.cpp).
THEOREM ImplementsFifoHolds == Spec => ImplementsFifo
<1>1. Init => RingInv /\ FifoInv /\ Fifo!Init
  BY RingInit, FifoInit DEF Init
<1>2. RingInv /\ FifoInv /\ [Next]_vars => FifoInv' /\ [Fifo!Next]_(Fifo!vars)
  BY StepMaps
<1> QED  BY <1>1, <1>2, RingAlways, PTL DEF Spec, ImplementsFifo, Fifo!Spec

-----------------------------------------------------------------------------
(* Frames: the arithmetic of intervals. *)

\* The rate of frames is 100 Hz or less (driver_node), so an interval is longer than a
\* millisecond.  Of the packets nothing is assumed but that their fields are unsigned.
FramerAssumption ==
  /\ MsUnits \in Nat \ {0} /\ publish_interval_ms \in Nat \ {0, 1}
  /\ PacketPoints \in Nat \ {0} /\ OffsetWord \in Nat \ {0}
  /\ \A h \in Handles : Stamps[h] \subseteq Nat
  /\ Spacings \subseteq Nat

LEMMA Scaled ==
  ASSUME NEW x \in Nat, NEW y \in Nat, x <= y, NEW z \in Nat
  PROVE  x * z \in Nat /\ y * z \in Nat /\ x * z <= y * z
<1>1. x * z \in Nat /\ y * z \in Nat /\ (y - x) * z \in Nat
  <2>1. \A a, b \in Nat : a * b \in Nat
    OBVIOUS
  <2> QED  BY <2>1
<1>2. y * z = x * z + (y - x) * z
  OBVIOUS
<1> QED  BY <1>1, <1>2

LEMMA DivisionIs ==
  ASSUME NEW d \in Nat \ {0}, NEW q \in Nat, NEW r \in 0 .. d - 1, NEW a, a = q * d + r
  PROVE  a \in Nat /\ a \div d = q /\ a % d = r
<1>1. q * d \in Nat /\ a \in Nat
  BY Scaled
<1> DEFINE p == a \div d
           s == a % d
<1>2. p \in Nat /\ s \in 0 .. d - 1 /\ a = d * p + s
  BY <1>1
<1> HIDE DEF p, s
<1>3. ~(p < q)
  <2> SUFFICES ASSUME p < q  PROVE FALSE
    OBVIOUS
  <2>1. p + 1 <= q /\ p + 1 \in Nat
    BY <1>2
  <2>2. (p + 1) * d <= q * d
    BY <2>1, Scaled
  <2>3. (p + 1) * d = d * p + d
    BY <1>2
  <2> QED  BY <1>1, <1>2, <2>2, <2>3
<1>4. ~(q < p)
  <2> SUFFICES ASSUME q < p  PROVE FALSE
    OBVIOUS
  <2>1. q + 1 <= p /\ q + 1 \in Nat
    BY <1>2
  <2>2. (q + 1) * d <= p * d
    BY <1>2, <2>1, Scaled
  <2>3. (q + 1) * d = q * d + d /\ p * d = d * p
    BY <1>2
  <2> QED  BY <1>1, <1>2, <2>2, <2>3
<1>5. p = q
  BY <1>2, <1>3, <1>4
<1>6. d * p = q * d
  BY <1>2, <1>5
<1>7. s = r
  BY <1>1, <1>2, <1>6
<1> QED  BY <1>1, <1>5, <1>7 DEF p, s

\* Position i of a sequence made of blocks of d.
LEMMA BlockOf ==
  ASSUME NEW d \in Nat \ {0}, NEW k \in Nat, NEW i \in 1 .. k * d
  PROVE  (i - 1) \div d \in 0 .. k - 1
<1>1. k * d \in Nat
  BY Scaled
<1> DEFINE a == i - 1
           q == a \div d
           r == a % d
<1>2. a \in Nat /\ a < k * d
  BY <1>1
<1>3. q \in Nat /\ r \in Nat /\ a = d * q + r
  BY <1>2
<1> HIDE DEF q, r, a
<1>4. ~(k <= q)
  <2> SUFFICES ASSUME k <= q  PROVE FALSE
    OBVIOUS
  <2>1. k * d <= q * d
    BY <1>3, Scaled
  <2>2. q * d = d * q /\ d * q \in Nat
    BY <1>3
  <2> QED  BY <1>1, <1>2, <1>3, <2>1, <2>2
<1> QED  BY <1>3, <1>4 DEF q, a

\* In the block behind the first k.
LEMMA BlockBehind ==
  ASSUME NEW d \in Nat \ {0}, NEW k \in Nat, NEW j \in 1 .. d
  PROVE  ((k * d + j) - 1) \div d = k
<1>1. k * d \in Nat /\ j - 1 \in 0 .. d - 1 /\ (k * d + j) - 1 = k * d + (j - 1)
  BY Scaled
<1> QED  BY <1>1, DivisionIs

-----------------------------------------------------------------------------

LEMMA FunctionSeq ==
  ASSUME NEW n \in Nat, NEW S, NEW f \in [1 .. n -> S]
  PROVE  f \in Seq(S) /\ Len(f) = n
OBVIOUS

\* Each of the first k packets, with all its points.
Expands(s, k) == s = [i \in 1 .. k * PacketPoints |-> ((i - 1) \div PacketPoints) + 1]

\* The points of a further packet.
LEMMA ExpandsMore ==
  ASSUME FramerAssumption, NEW k \in Nat,
         NEW s, Expands(s, k), NEW t, t = [i \in 1 .. PacketPoints |-> k + 1]
  PROVE  Expands(s \o t, k + 1)
<1> DEFINE d == PacketPoints
           n == k * d
<1>1. d \in Nat \ {0} /\ n \in Nat /\ (k + 1) * d = n + d
  BY Scaled DEF FramerAssumption
<1>2. \A i \in 1 .. n : ((i - 1) \div d) + 1 \in Nat
  <2> SUFFICES ASSUME NEW i \in 1 .. n  PROVE ((i - 1) \div d) + 1 \in Nat
    OBVIOUS
  <2>1. (i - 1) \div d \in 0 .. k - 1
    BY <1>1, BlockOf
  <2> QED  BY <2>1
<1>3. s = [i \in 1 .. n |-> ((i - 1) \div d) + 1]
  BY DEF Expands
<1> HIDE DEF n, d
<1>4. s \in Seq(Nat) /\ Len(s) = n /\ \A i \in 1 .. n : s[i] = ((i - 1) \div d) + 1
  <2>1. s \in [1 .. n -> Nat]
    BY <1>2, <1>3
  <2>2. s \in Seq(Nat) /\ Len(s) = n
    BY <1>1, <2>1, FunctionSeq
  <2> QED  BY <1>3, <2>2
<1>5. t \in Seq(Nat) /\ Len(t) = d /\ \A i \in 1 .. d : t[i] = k + 1
  <2>1. t = [i \in 1 .. d |-> k + 1] /\ k + 1 \in Nat /\ d \in Nat
    BY <1>1 DEF d
  <2>2. t \in [1 .. d -> Nat]
    BY <2>1
  <2>3. t \in Seq(Nat) /\ Len(t) = d
    BY <2>1, <2>2, FunctionSeq
  <2> QED  BY <2>1, <2>3
<1> DEFINE u == s \o t
<1>6. u \in Seq(Nat) /\ Len(u) = n + d
      /\ \A i \in 1 .. n + d : u[i] = IF i <= n THEN s[i] ELSE t[i - n]
  <2>1. s \in Seq(Nat) /\ t \in Seq(Nat) /\ Len(s) = n /\ Len(t) = d
    BY <1>4, <1>5
  <2>2. u \in Seq(Nat) /\ Len(u) = Len(s) + Len(t)
        /\ \A i \in 1 .. Len(s) + Len(t) : u[i] = IF i <= Len(s) THEN s[i] ELSE t[i - Len(s)]
    BY <2>1, ConcatProperties
  <2> QED  BY <2>1, <2>2
<1> HIDE DEF u
<1>7. ASSUME NEW i \in 1 .. n + d  PROVE u[i] = ((i - 1) \div d) + 1
  <2>1. CASE i <= n
    <3>1. i \in 1 .. n
      BY <1>1, <2>1
    <3> QED  BY <1>4, <1>6, <2>1, <3>1
  <2>2. CASE i > n
    <3>1. i - n \in 1 .. d /\ i = n + (i - n) /\ ~(i <= n)
      BY <1>1, <2>2
    <3>2. ((k * d + (i - n)) - 1) \div d = k
      BY <1>1, <3>1, BlockBehind
    <3>3. (i - 1) \div d = k
      BY <3>1, <3>2 DEF n
    <3> QED  BY <1>5, <1>6, <3>1, <3>3
  <2>3. i <= n \/ i > n
    BY <1>1
  <2> QED  BY <2>1, <2>2, <2>3
<1>8. u = [i \in 1 .. n + d |-> ((i - 1) \div d) + 1]
  <2>1. u = [i \in 1 .. n + d |-> u[i]]
    BY <1>1, <1>6
  <2> QED  BY <1>7, <2>1
<1>9. Expands(u, k + 1)
  BY <1>1, <1>8 DEF Expands, d
<1> QED  BY <1>9 DEF u

-----------------------------------------------------------------------------
(* Clouds. *)

Collectable == [packet : Nat \ {0}, synced : BOOLEAN, offset_time : Nat]
Packet == [handle : Handles, packet : Nat \ {0}, synced : BOOLEAN, spacing : Nat,
           time_stamp : Nat]

LEMMA FieldTypes ==
  /\ \A r \in Packet : /\ r.handle \in Handles /\ r.packet \in Nat \ {0} /\ r.synced \in BOOLEAN
                       /\ r.time_stamp \in Nat /\ r.spacing \in Nat
  /\ \A r \in Collectable : r.packet \in Nat \ {0} /\ r.synced \in BOOLEAN /\ r.offset_time \in Nat
BY DEF Packet, Collectable

LEMMA PointsAre ==
  ASSUME FramerAssumption, NEW pkt \in Packet
  PROVE  /\ PointsOf(pkt) \in Seq(Collectable) /\ Len(PointsOf(pkt)) = PacketPoints
         /\ \A i \in 1 .. PacketPoints :
              /\ PointsOf(pkt)[i].packet = pkt.packet /\ PointsOf(pkt)[i].synced = pkt.synced
              /\ PointsOf(pkt)[i].offset_time = pkt.time_stamp + (i - 1) * pkt.spacing
              /\ PointsOf(pkt)[i].offset_time >= pkt.time_stamp
         /\ PointsOf(pkt)[1].offset_time = pkt.time_stamp
         /\ Packets(PointsOf(pkt)) = [i \in 1 .. PacketPoints |-> pkt.packet]
<1> DEFINE d == PacketPoints
           f == PointsOf(pkt)
<1>1. d \in Nat \ {0} /\ pkt.spacing \in Nat
  BY FieldTypes DEF FramerAssumption
<1>2. pkt.packet \in Nat \ {0} /\ pkt.synced \in BOOLEAN /\ pkt.time_stamp \in Nat
  BY DEF Packet
<1>3. \A i \in 1 .. d : (i - 1) * pkt.spacing \in Nat
  <2> SUFFICES ASSUME NEW i \in 1 .. d  PROVE (i - 1) * pkt.spacing \in Nat
    OBVIOUS
  <2>1. i - 1 \in Nat
    BY <1>1
  <2> QED  BY <1>1, <2>1, Scaled
<1>4. f = [i \in 1 .. d |-> [packet |-> pkt.packet, synced |-> pkt.synced,
                             offset_time |-> pkt.time_stamp + (i - 1) * pkt.spacing]]
  BY DEF PointsOf
<1> HIDE DEF d, f
<1>5. \A i \in 1 .. d : f[i] \in Collectable
  BY <1>2, <1>3, <1>4 DEF Collectable
<1>6. f \in Seq(Collectable) /\ Len(f) = d
  <2>1. f \in [1 .. d -> Collectable]
    BY <1>4, <1>5
  <2> QED  BY <1>1, <2>1
<1>7. \A i \in 1 .. d : /\ f[i].packet = pkt.packet /\ f[i].synced = pkt.synced
                         /\ f[i].offset_time = pkt.time_stamp + (i - 1) * pkt.spacing
  BY <1>4
<1>8. \A i \in 1 .. d : f[i].offset_time >= pkt.time_stamp
  BY <1>2, <1>3, <1>7
<1>9. f[1].offset_time = pkt.time_stamp
  <2>1. 1 \in 1 .. d /\ (1 - 1) * pkt.spacing = 0
    BY <1>1
  <2> QED  BY <1>2, <1>7, <2>1
<1>10. Packets(f) = [i \in 1 .. d |-> pkt.packet]
  BY <1>6, <1>7 DEF Packets
<1> QED  BY <1>6, <1>7, <1>8, <1>9, <1>10 DEF d, f

LEMMA PacketsAre ==
  ASSUME NEW c \in Seq(Collectable)
  PROVE  Packets(c) \in Seq(Nat) /\ Len(Packets(c)) = Len(c)
         /\ \A i \in 1 .. Len(c) : Packets(c)[i] = c[i].packet
<1> DEFINE n == Len(c)
           p == [i \in 1 .. n |-> c[i].packet]
<1>1. n \in Nat /\ \A i \in 1 .. n : c[i] \in Collectable
  OBVIOUS
<1>2. \A i \in 1 .. n : c[i].packet \in Nat
  BY <1>1, FieldTypes
<1> HIDE DEF n
<1>3. p \in [1 .. n -> Nat] /\ \A i \in 1 .. n : p[i] = c[i].packet
  BY <1>2
<1> HIDE DEF p
<1>4. p \in Seq(Nat) /\ Len(p) = n
  BY <1>1, <1>3, FunctionSeq
<1> QED  BY <1>3, <1>4 DEF p, n, Packets

LEMMA PacketsConcat ==
  ASSUME NEW c \in Seq(Collectable), NEW f \in Seq(Collectable)
  PROVE  Packets(c \o f) = Packets(c) \o Packets(f)
<1> DEFINE u == c \o f
           n == Len(c)
           d == Len(f)
           pu == Packets(u)
           pc == Packets(c)
           pf == Packets(f)
           v == pc \o pf
<1>1. n \in Nat /\ d \in Nat
  OBVIOUS
<1>2. u \in Seq(Collectable) /\ Len(u) = n + d
      /\ \A i \in 1 .. n + d : u[i] = IF i <= n THEN c[i] ELSE f[i - n]
  BY ConcatProperties
<1>3. pc \in Seq(Nat) /\ Len(pc) = n /\ \A i \in 1 .. n : pc[i] = c[i].packet
  BY PacketsAre
<1>4. pf \in Seq(Nat) /\ Len(pf) = d /\ \A i \in 1 .. d : pf[i] = f[i].packet
  BY PacketsAre
<1>5. v \in Seq(Nat) /\ Len(v) = Len(pc) + Len(pf)
      /\ \A i \in 1 .. Len(pc) + Len(pf) : v[i] = IF i <= Len(pc) THEN pc[i] ELSE pf[i - Len(pc)]
  <2> HIDE DEF pc, pf
  <2> QED  BY <1>3, <1>4, ConcatProperties
<1> HIDE DEF u, n, d
<1>6. pu \in Seq(Nat) /\ Len(pu) = n + d /\ \A i \in 1 .. n + d : pu[i] = u[i].packet
  BY <1>2, PacketsAre
<1> HIDE DEF pu, pc, pf, v
<1>7. ASSUME NEW i \in 1 .. n + d  PROVE pu[i] = v[i]
  <2>1. CASE i <= n
    <3>1. i \in 1 .. n
      BY <1>1, <2>1
    <3> QED  BY <1>2, <1>3, <1>4, <1>5, <1>6, <2>1, <3>1
  <2>2. CASE ~(i <= n)
    <3>1. i - n \in 1 .. d
      BY <1>1, <2>2
    <3> QED  BY <1>2, <1>3, <1>4, <1>5, <1>6, <2>2, <3>1
  <2> QED  BY <2>1, <2>2
<1>8. Len(v) = n + d
  BY <1>3, <1>4, <1>5
<1>9. pu = v
  BY <1>5, <1>6, <1>7, <1>8, SeqEqual
<1> QED  BY <1>9 DEF pu, v, pc, pf, u

\* A cloud with the points of a packet behind it.
LEMMA CollectedIs ==
  ASSUME FramerAssumption, NEW c \in Seq(Collectable), NEW pkt \in Packet
  PROVE  LET u == c \o PointsOf(pkt)
         IN  /\ u \in Seq(Collectable) /\ Len(u) = Len(c) + PacketPoints /\ u # <<>>
             /\ \A i \in 1 .. Len(c) : u[i] = c[i]
             /\ \A j \in 1 .. PacketPoints : u[Len(c) + j] = PointsOf(pkt)[j]
             /\ Packets(u) = Packets(c) \o Packets(PointsOf(pkt))
<1> DEFINE f == PointsOf(pkt)
           u == c \o f
           d == PacketPoints
           n == Len(c)
<1>1. f \in Seq(Collectable) /\ Len(f) = d /\ d \in Nat \ {0} /\ n \in Nat
  BY PointsAre DEF FramerAssumption
<1> HIDE DEF f, d
<1>2. u \in Seq(Collectable) /\ Len(u) = n + d
      /\ \A i \in 1 .. n + d : u[i] = IF i <= n THEN c[i] ELSE f[i - n]
  BY <1>1
<1>0. Packets(u) = Packets(c) \o Packets(f)
  BY <1>1, PacketsConcat
<1> HIDE DEF u, n
<1>3. \A i \in 1 .. n : u[i] = c[i] /\ i \in 1 .. n + d
  BY <1>1, <1>2
<1>4. \A j \in 1 .. d : u[n + j] = f[j] /\ n + j \in 1 .. n + d
  <2> SUFFICES ASSUME NEW j \in 1 .. d  PROVE u[n + j] = f[j] /\ n + j \in 1 .. n + d
    OBVIOUS
  <2>1. n + j \in 1 .. n + d /\ ~(n + j <= n) /\ (n + j) - n = j
    BY <1>1
  <2> QED  BY <1>2, <2>1
<1>5. u # <<>>
  BY <1>1, <1>2
<1> QED  BY <1>0, <1>2, <1>3, <1>4, <1>5 DEF u, f, d, n

-----------------------------------------------------------------------------
(* The message of a frame. *)

\* Of the points that have the host's time, none is before the first one.
FromFirst(f) ==
  ~f[1].synced =>
    \A i \in 1 .. Len(f) : ~f[i].synced => f[i].offset_time >= f[1].offset_time

\* What TimesArrive says of one frame.
Arrives(f) ==
  OneClock(f) /\ (f[1].synced => Forward(f)) =>
    /\ AviaTimes(CustomMsg(f))
    /\ \A i \in 1 .. Len(f) :
         f[i].offset_time - BaseTime(f) < OffsetWord =>
           BaseTime(f) + CustomMsg(f)[i].t = f[i].offset_time

LEMMA ArrivesIs ==
  ASSUME FramerAssumption, AviaAssumption, NEW f \in Seq(Collectable), f # <<>>, FromFirst(f)
  PROVE  Arrives(f)
<1> SUFFICES ASSUME OneClock(f), f[1].synced => Forward(f)
             PROVE  /\ AviaTimes(CustomMsg(f))
                    /\ \A i \in 1 .. Len(f) :
                         f[i].offset_time - BaseTime(f) < OffsetWord =>
                           BaseTime(f) + CustomMsg(f)[i].t = f[i].offset_time
  BY DEF Arrives
<1> DEFINE n == Len(f)
           b == BaseTime(f)
           m == CustomMsg(f)
           Since(i) == f[i].offset_time - b
<1>1. n \in Nat /\ \A i \in 1 .. n : f[i] \in Collectable
  OBVIOUS
<1>2. \A i \in 1 .. n : f[i].offset_time \in Nat /\ b \in Nat /\ Since(i) \in Nat
  <2>1. b = f[1].offset_time /\ 1 \in 1 .. n
    BY DEF BaseTime
  <2>2. \A r \in Collectable : r.offset_time \in Nat
    BY DEF Collectable
  <2>3. \A i \in 1 .. n : f[i].offset_time \in Nat
    BY <1>1, <2>2
  <2>4. \A i \in 1 .. n : f[i].offset_time >= f[1].offset_time
    <3>1. CASE f[1].synced
      <4>1. \A i \in 1 .. n : BaseTime(f) <= f[i].offset_time
        BY <3>1 DEF Forward
      <4> QED  BY <2>1, <2>3, <4>1
    <3>2. CASE ~f[1].synced
      BY <3>2 DEF OneClock, FromFirst
    <3> QED  BY <3>1, <3>2
  <2> HIDE DEF n
  <2> QED  BY <2>1, <2>3, <2>4
<1>3. OffsetWord \in Nat \ {0}
  BY DEF FramerAssumption
<1>4. m = [i \in 1 .. n |-> [line |-> 0, far |-> TRUE, t |-> (Since(i) % OffsetWord)]]
  BY DEF CustomMsg
<1> HIDE DEF b, m, n
<1>5. \A i \in 1 .. n : (Since(i) % OffsetWord) \in Nat
  BY <1>2, <1>3
<1>6. IsMessage(m)
  <2> DEFINE R == [line : Int, t : Nat, far : BOOLEAN]
  <2>1. \A i \in 1 .. n : m[i] \in R
    BY <1>4, <1>5
  <2> HIDE DEF R
  <2>2. m \in [1 .. n -> R]
    BY <1>4, <2>1
  <2>3. m \in Seq(R)
    BY <1>1, <2>2
  <2> QED  BY <2>3 DEF R, IsMessage
<1>7. AviaTimes(m)
  BY <1>6, AviaTimesHolds
<1>8. ASSUME NEW i \in 1 .. n, Since(i) < OffsetWord
      PROVE  b + m[i].t = f[i].offset_time
  <2>1. m[i].t = (Since(i) % OffsetWord)
    BY <1>4
  <2> DEFINE s == Since(i)
  <2>2. s \in Nat /\ s < OffsetWord /\ b \in Nat /\ f[i].offset_time \in Nat
    BY <1>2, <1>8
  <2>3. s = 0 * OffsetWord + s /\ s \in 0 .. OffsetWord - 1
    BY <1>3, <2>2
  <2>4. (s % OffsetWord) = s
    <3> HIDE DEF s
    <3>1. 0 \in Nat /\ s = 0 * OffsetWord + s /\ s \in 0 .. OffsetWord - 1
      BY <2>3
    <3> DEFINE r == s
    <3>2. r \in 0 .. OffsetWord - 1 /\ s = 0 * OffsetWord + r
      BY <3>1
    <3> HIDE DEF r
    <3>3. (s % OffsetWord) = r
      BY <1>3, <3>1, <3>2, DivisionIs, Zenon
    <3> QED  BY <3>3 DEF r
  <2> QED  BY <2>1, <2>2, <2>4
<1> QED  BY <1>7, <1>8 DEF n, b, m

\* How many of the first i packets of a queue are of a LiDAR.
Those(q, h, i) == {j \in 1 .. i : q[j].handle = h}
Count(q, h, i) == Cardinality(Those(q, h, i))
One(q, h, i) == IF q[i].handle = h THEN 1 ELSE 0

LEMMA CountNext ==
  ASSUME NEW q, NEW h, NEW i \in Nat
  PROVE  /\ IsFiniteSet(Those(q, h, i)) /\ Count(q, h, i) \in Nat /\ Count(q, h, 0) = 0
         /\ Count(q, h, i + 1) = Count(q, h, i) + One(q, h, i + 1)
<1>1. \A m \in Nat : IsFiniteSet(Those(q, h, m))
  <2> SUFFICES ASSUME NEW m \in Nat  PROVE IsFiniteSet(Those(q, h, m))
    OBVIOUS
  <2>1. \A a, b \in Int : IsFiniteSet(a .. b)
    BY FS_Interval
  <2>2. IsFiniteSet(1 .. m) /\ Those(q, h, m) \subseteq 1 .. m
    BY <2>1 DEF Those
  <2> QED  BY <2>2, FS_Subset
<1>2. IsFiniteSet(Those(q, h, i)) /\ Count(q, h, i) \in Nat
  BY <1>1, FS_CardinalityType DEF Count
<1>3. Count(q, h, 0) = 0
  <2>1. Those(q, h, 0) = {}
    <3>1. 1 .. 0 = {}
      OBVIOUS
    <3> QED  BY <3>1 DEF Those
  <2> QED  BY <2>1, FS_EmptySet DEF Count
<1>4. Count(q, h, i + 1) = Count(q, h, i) + One(q, h, i + 1)
  <2>1. 1 .. i + 1 = (1 .. i) \cup {i + 1} /\ i + 1 \notin 1 .. i
    OBVIOUS
  <2>2. CASE q[i + 1].handle = h
    <3>1. Those(q, h, i + 1) = Those(q, h, i) \cup {i + 1} /\ i + 1 \notin Those(q, h, i)
      BY <2>1, <2>2 DEF Those
    <3>2. Cardinality(Those(q, h, i) \cup {i + 1}) = Cardinality(Those(q, h, i)) + 1
      BY <1>2, <3>1, FS_AddElement
    <3> QED  BY <2>2, <3>1, <3>2 DEF Count, One
  <2>3. CASE q[i + 1].handle # h
    <3>1. Those(q, h, i + 1) = Those(q, h, i)
      BY <2>1, <2>3 DEF Those
    <3> QED  BY <1>2, <2>3, <3>1 DEF Count, One
  <2> QED  BY <2>2, <2>3
<1> QED  BY <1>2, <1>3, <1>4

LEMMA CountUpTo ==
  ASSUME NEW q, NEW h, NEW k \in Nat, NEW i \in 1 .. k
  PROVE  /\ Count(q, h, i) <= Count(q, h, k) /\ Count(q, h, i) \in Nat /\ Count(q, h, k) \in Nat
         /\ q[i].handle = h => Count(q, h, i) >= 1
<1>1. i \in Nat /\ i - 1 \in Nat /\ (i - 1) + 1 = i
  OBVIOUS
<1>2. Count(q, h, i) \in Nat /\ Count(q, h, k) \in Nat /\ Count(q, h, i - 1) \in Nat
      /\ IsFiniteSet(Those(q, h, k))
  BY <1>1, CountNext
<1>3. Count(q, h, i) <= Count(q, h, k)
  <2>1. Those(q, h, i) \subseteq Those(q, h, k)
    BY DEF Those
  <2> QED  BY <1>2, <2>1, FS_Subset DEF Count
<1>4. ASSUME q[i].handle = h  PROVE Count(q, h, i) >= 1
  <2>1. Count(q, h, i) = Count(q, h, i - 1) + One(q, h, i)
    <3>1. Count(q, h, (i - 1) + 1) = Count(q, h, i - 1) + One(q, h, (i - 1) + 1)
      BY <1>1, CountNext
    <3> QED  BY <1>1, <3>1
  <2> QED  BY <1>2, <1>4, <2>1 DEF One
<1> QED  BY <1>2, <1>3, <1>4

LEMMA CountAppend ==
  ASSUME NEW S, NEW q \in Seq(S), NEW x \in S, NEW h, NEW i \in 0 .. Len(q)
  PROVE  /\ Count(Append(q, x), h, i) = Count(q, h, i)
         /\ Count(Append(q, x), h, Len(q) + 1)
              = Count(q, h, Len(q)) + (IF x.handle = h THEN 1 ELSE 0)
<1> DEFINE n == Len(q)
           r == Append(q, x)
<1>1. n \in Nat /\ \A j \in 1 .. n : r[j] = q[j] /\ r[n + 1] = x
  OBVIOUS
<1>2. r[n + 1] = x
  OBVIOUS
<1> HIDE DEF n, r
<1>3. \A k \in 0 .. n : Count(r, h, k) = Count(q, h, k)
  <2> SUFFICES ASSUME NEW k \in 0 .. n  PROVE Count(r, h, k) = Count(q, h, k)
    OBVIOUS
  <2>1. \A j \in 1 .. k : j \in 1 .. n
    BY <1>1
  <2>2. Those(r, h, k) = Those(q, h, k)
    BY <1>1, <2>1 DEF Those
  <2> QED  BY <2>2 DEF Count
<1>4. Count(r, h, n + 1) = Count(r, h, n) + One(r, h, n + 1)
  BY <1>1, CountNext
<1>5. n \in 0 .. n /\ i \in 0 .. n
  BY <1>1 DEF n
<1> QED  BY <1>2, <1>3, <1>4, <1>5 DEF n, r, One

LEMMA CountTail ==
  ASSUME NEW S, NEW q \in Seq(S), q # <<>>, NEW h, NEW i \in 0 .. Len(q) - 1
  PROVE  Count(Tail(q), h, i) = Count(q, h, i + 1) - One(q, h, 1)
<1> DEFINE n == Len(q) - 1
           t == Tail(q)
           Good == {k \in Nat : k <= n => Count(t, h, k) = Count(q, h, k + 1) - One(q, h, 1)}
<1>1. n \in Nat /\ \A j \in 1 .. n : t[j] = q[j + 1]
  OBVIOUS
<1> HIDE DEF n, t
<1>0. One(q, h, 1) \in Nat
  BY DEF One
<1>2. \A k \in Nat : Count(q, h, k) \in Nat /\ Count(t, h, k) \in Nat
  BY CountNext
<1>3. 0 \in Good
  <2>1. Count(q, h, 0 + 1) = Count(q, h, 0) + One(q, h, 0 + 1) /\ Count(q, h, 0) = 0
        /\ Count(t, h, 0) = 0
    <3>1. 0 \in Nat
      OBVIOUS
    <3> QED  BY <3>1, CountNext
  <2> DEFINE o == One(q, h, 1)
  <2>2. o \in Nat /\ 0 + 1 = 1
    BY <1>0
  <2>3. Count(q, h, 1) = 0 + o
    BY <2>1, <2>2
  <2> HIDE DEF o
  <2>4. Count(t, h, 0) = Count(q, h, 0 + 1) - o
    BY <2>1, <2>2, <2>3
  <2> QED  BY <2>4 DEF o
<1>4. ASSUME NEW k \in Nat, k \in Good  PROVE k + 1 \in Good
  <2> SUFFICES ASSUME k + 1 <= n
               PROVE  Count(t, h, k + 1) = Count(q, h, (k + 1) + 1) - One(q, h, 1)
    OBVIOUS
  <2>1. Count(t, h, k) = Count(q, h, k + 1) - One(q, h, 1)
    BY <1>1, <1>4
  <2>2. Count(t, h, k + 1) = Count(t, h, k) + One(t, h, k + 1)
    BY CountNext
  <2>3. k + 1 \in Nat /\ Count(q, h, (k + 1) + 1) = Count(q, h, k + 1) + One(q, h, (k + 1) + 1)
    <3>1. k + 1 \in Nat
      OBVIOUS
    <3> QED  BY <3>1, CountNext
  <2>4. One(t, h, k + 1) = One(q, h, (k + 1) + 1) /\ One(t, h, k + 1) \in Nat
    <3>1. k + 1 \in 1 .. n
      BY <1>1
    <3> QED  BY <1>1, <3>1 DEF One
  <2>5. Count(q, h, k + 1) \in Nat
    BY <1>2, <2>3
  <2> DEFINE o == One(q, h, 1)
             b == One(t, h, k + 1)
             c == Count(q, h, k + 1)
             e == Count(t, h, k + 1)
             f == Count(q, h, (k + 1) + 1)
  <2>6. o \in Nat /\ b \in Nat /\ c \in Nat /\ e = (c - o) + b /\ f = c + b
    BY <1>0, <1>2, <2>1, <2>2, <2>3, <2>4, <2>5
  <2> HIDE DEF o, b, c, e, f
  <2>7. e = f - o
    BY <2>6
  <2> QED  BY <2>7 DEF o, e, f
<1> HIDE DEF Good
<1>5. i \in Nat /\ i \in Good /\ i <= n
  BY <1>3, <1>4, SetInduction DEF n
<1> QED  BY <1>5 DEF Good, n, t

FrameTypes ==
  /\ now \in Nat /\ last_pub_time \in Nat /\ last_pub_time <= HostTime
  /\ arrived \in [Handles -> Nat]
  /\ is_timestamp_sync \in BOOLEAN /\ raw_packet_queue \in Seq(Packet)
  /\ points_clouds \in [Handles -> Seq(Collectable)]
  /\ points \in [Handles -> Seq(Collectable)]
  /\ published \in [Handles -> Seq(Collectable)] /\ frame \subseteq Handles

\* The points of a LiDAR when the next packet has been collected.
Collected(h) ==
  IF h = Head(raw_packet_queue).handle
  THEN points_clouds[h] \o PointsOf(Head(raw_packet_queue))
  ELSE points_clouds[h]

\* RawDataProcess, with the LiDARs in due published.
CutOf(due) ==
  /\ points_clouds' = [h \in Handles |-> IF h \in due THEN <<>> ELSE Collected(h)]
  /\ points' = [h \in Handles |-> IF h \in due THEN Collected(h) ELSE points[h]]
  /\ published' = [h \in Handles |->
       IF h \in due THEN published[h] \o Collected(h) ELSE published[h]]
  /\ frame' = {h \in due : Collected(h) # <<>>}
  /\ LET h == Head(raw_packet_queue).handle
     IN  is_timestamp_sync => due = IF DueByLidar(Collected(h)) THEN {h} ELSE {}

LEMMA HeadIs ==
  ASSUME FrameTypes, raw_packet_queue # <<>>
  PROVE  /\ Head(raw_packet_queue) \in Packet /\ Head(raw_packet_queue).handle \in Handles
         /\ Head(raw_packet_queue) = raw_packet_queue[1]
         /\ Tail(raw_packet_queue) \in Seq(Packet)
         /\ Len(raw_packet_queue) \in Nat \ {0}
         /\ Len(Tail(raw_packet_queue)) = Len(raw_packet_queue) - 1
         /\ \A i \in 1 .. Len(raw_packet_queue) - 1 :
              Tail(raw_packet_queue)[i] = raw_packet_queue[i + 1]
<1> DEFINE Q == raw_packet_queue
<1>1. Q \in Seq(Packet) /\ Q # <<>>
  BY DEF FrameTypes
<1>2. \A r \in Packet : r.handle \in Handles
  BY DEF Packet
<1> HIDE DEF Q
<1>3. Head(Q) \in Packet /\ Head(Q) = Q[1] /\ Tail(Q) \in Seq(Packet) /\ Len(Q) \in Nat \ {0}
      /\ Len(Tail(Q)) = Len(Q) - 1 /\ \A i \in 1 .. Len(Q) - 1 : Tail(Q)[i] = Q[i + 1]
  BY <1>1
<1> QED  BY <1>2, <1>3 DEF Q

LEMMA CollectedTypes ==
  ASSUME FramerAssumption, FrameTypes, raw_packet_queue # <<>>, NEW h \in Handles
  PROVE  Collected(h) \in Seq(Collectable) /\ points_clouds[h] \in Seq(Collectable)
<1>1. points_clouds[h] \in Seq(Collectable)
  BY DEF FrameTypes
<1>2. Head(raw_packet_queue) \in Packet
  BY HeadIs
<1>3. points_clouds[h] \o PointsOf(Head(raw_packet_queue)) \in Seq(Collectable)
  BY <1>1, <1>2, CollectedIs
<1>4. Collected(h) \in Seq(Collectable)
  BY <1>1, <1>3 DEF Collected
<1> QED  BY <1>1, <1>4

LEMMA RawSteps ==
  ASSUME FramerAssumption, FrameTypes, RawDataProcess
  PROVE  /\ raw_packet_queue # <<>> /\ raw_packet_queue' = Tail(raw_packet_queue)
         /\ UNCHANGED <<now, arrived, clocks, is_timestamp_sync>>
         /\ last_pub_time' \in Nat /\ last_pub_time' <= HostTime
         /\ \E due \in SUBSET Handles : CutOf(due)
<1> DEFINE pkt == Head(raw_packet_queue)
           hd == pkt.handle
           clouds == [points_clouds EXCEPT ![hd] = @ \o PointsOf(pkt)]
<1>1. raw_packet_queue # <<>> /\ raw_packet_queue' = Tail(raw_packet_queue)
      /\ UNCHANGED <<now, arrived, clocks, is_timestamp_sync>>
  BY DEF RawDataProcess
<1>2. hd \in Handles
  BY <1>1, HeadIs
<1>3. /\ is_timestamp_sync =>
           /\ IF DueByLidar(clouds[hd]) THEN Cut({hd}, clouds) ELSE NoCut(clouds)
           /\ UNCHANGED <<first, last_pub_time>>
      /\ ~is_timestamp_sync =>
           /\ IF DueByHost THEN Cut(Handles, clouds) ELSE NoCut(clouds)
           /\ last_pub_time' = IF first THEN HostTime
                               ELSE IF DueByHost THEN last_pub_time + publish_interval
                               ELSE last_pub_time
  BY DEF RawDataProcess
<1>4. points_clouds \in [Handles -> Seq(Collectable)] /\ points \in [Handles -> Seq(Collectable)]
      /\ published \in [Handles -> Seq(Collectable)] /\ is_timestamp_sync \in BOOLEAN
      /\ now \in Nat /\ last_pub_time \in Nat /\ last_pub_time <= HostTime
  BY DEF FrameTypes
<1>5. \A h \in Handles : clouds[h] = Collected(h)
  BY <1>4 DEF Collected
<1>6. clouds = [h \in Handles |-> Collected(h)]
  <2>1. clouds = [h \in Handles |-> clouds[h]]
    BY <1>4
  <2> QED  BY <1>5, <2>1
<1> HIDE DEF clouds
<1>7. ASSUME NEW due \in SUBSET Handles, Cut(due, clouds)
      PROVE  /\ points_clouds' = [h \in Handles |-> IF h \in due THEN <<>> ELSE Collected(h)]
             /\ points' = [h \in Handles |-> IF h \in due THEN Collected(h) ELSE points[h]]
             /\ published' = [h \in Handles |->
                  IF h \in due THEN published[h] \o Collected(h) ELSE published[h]]
             /\ frame' = {h \in due : Collected(h) # <<>>}
  <2>1. /\ frame' = {h \in due : clouds[h] # <<>>}
        /\ points' = [h \in Handles |-> IF h \in due THEN clouds[h] ELSE points[h]]
        /\ points_clouds' = [h \in Handles |-> IF h \in due THEN <<>> ELSE clouds[h]]
        /\ published' = [h \in Handles |-> published[h] \o
             (IF h \in due THEN clouds[h] ELSE <<>>)]
    BY <1>7 DEF Cut, LeftEmpty
  <2>2. \A h \in Handles : published[h] \o
             (IF h \in due THEN clouds[h] ELSE <<>>)
          = IF h \in due THEN published[h] \o Collected(h) ELSE published[h]
    <3> SUFFICES ASSUME NEW h \in Handles
                 PROVE  published[h] \o (IF h \in due THEN clouds[h] ELSE <<>>)
                          = IF h \in due THEN published[h] \o Collected(h)
                            ELSE published[h]
      OBVIOUS
    <3>1. published[h] \o <<>> = published[h]
      <4>1. published[h] \in Seq(Collectable)
        BY <1>4
      <4> QED  BY <4>1, ConcatEmptySeq
    <3> QED  BY <1>5, <3>1
  <2>3. published' = [h \in Handles |->
             IF h \in due THEN published[h] \o Collected(h) ELSE published[h]]
    BY <2>1, <2>2
  <2>4. \A h \in due : clouds[h] = Collected(h)
    BY <1>5, <1>7
  <2> QED  BY <1>5, <2>1, <2>3, <2>4
<1>8. ASSUME NoCut(clouds)
      PROVE  /\ points_clouds' = [h \in Handles |-> IF h \in {} THEN <<>> ELSE Collected(h)]
             /\ points' = [h \in Handles |-> IF h \in {} THEN Collected(h) ELSE points[h]]
             /\ published' = [h \in Handles |->
                  IF h \in {} THEN published[h] \o Collected(h) ELSE published[h]]
             /\ frame' = {h \in {} : Collected(h) # <<>>}
  <2>1. frame' = {} /\ points_clouds' = clouds /\ points' = points /\ published' = published
    BY <1>8 DEF NoCut
  <2>2. points = [h \in Handles |-> points[h]] /\ published = [h \in Handles |-> published[h]]
    BY <1>4
  <2> QED  BY <1>6, <2>1, <2>2
<1>9. ASSUME is_timestamp_sync  PROVE \E due \in SUBSET Handles : CutOf(due)
  <2>1. CASE DueByLidar(Collected(hd))
    <3>1. {hd} \in SUBSET Handles /\ Cut({hd}, clouds)
      BY <1>2, <1>3, <1>5, <1>9, <2>1
    <3> HIDE DEF hd, pkt
    <3>2. CutOf({hd})
      BY <1>7, <2>1, <3>1 DEF CutOf, hd, pkt
    <3> QED  BY <3>1, <3>2
  <2>2. CASE ~DueByLidar(Collected(hd))
    <3>1. NoCut(clouds)
      BY <1>2, <1>3, <1>5, <1>9, <2>2
    <3>2. CutOf({})
      BY <1>8, <2>2, <3>1 DEF CutOf
    <3> QED  BY <3>2
  <2> QED  BY <2>1, <2>2
<1>10. ASSUME ~is_timestamp_sync  PROVE \E due \in SUBSET Handles : CutOf(due)
  <2>1. CASE DueByHost
    <3>1. Cut(Handles, clouds) /\ Handles \in SUBSET Handles
      BY <1>3, <1>10, <2>1
    <3>2. CutOf(Handles)
      BY <1>7, <1>10, <3>1 DEF CutOf
    <3> QED  BY <3>1, <3>2
  <2>2. CASE ~DueByHost
    <3>1. NoCut(clouds)
      BY <1>3, <1>10, <2>2
    <3>2. CutOf({})
      BY <1>8, <1>10, <3>1 DEF CutOf
    <3> QED  BY <3>2
  <2> QED  BY <2>1, <2>2
<1>11. last_pub_time' \in Nat /\ last_pub_time' <= HostTime
  <2>1. HostTime \in Nat
    BY <1>4, Scaled DEF HostTime, FramerAssumption
  <2>2. publish_interval \in Nat
    BY Scaled DEF publish_interval, FramerAssumption
  <2>3. CASE DueByHost /\ ~is_timestamp_sync
    <3>1. last_pub_time' = last_pub_time + publish_interval /\ HostTime - last_pub_time >= publish_interval
      BY <1>3, <2>3 DEF DueByHost
    <3> QED  BY <1>4, <2>1, <2>2, <3>1
  <2>4. CASE ~DueByHost /\ ~is_timestamp_sync
    <3>1. last_pub_time' \in {HostTime, last_pub_time}
      BY <1>3, <2>4
    <3> QED  BY <1>4, <2>1, <3>1
  <2>5. CASE is_timestamp_sync
    BY <1>3, <1>4, <2>5
  <2> QED  BY <2>3, <2>4, <2>5
<1> QED  BY <1>1, <1>9, <1>10, <1>11

LEMMA TypesInit ==
  ASSUME FramerAssumption, FramerInit  PROVE FrameTypes
<1>1. HostTime = 0
  BY DEF FramerInit, HostTime, FramerAssumption
<1>2. <<>> \in Seq(Collectable) /\ <<>> \in Seq(Packet)
  OBVIOUS
<1>3. arrived \in [Handles -> Nat] /\ published \in [Handles -> Seq(Collectable)]
  BY <1>2 DEF FramerInit
<1>4. points_clouds \in [Handles -> Seq(Collectable)] /\ points \in [Handles -> Seq(Collectable)]
  BY <1>2 DEF FramerInit
<1>5. now \in Nat /\ last_pub_time \in Nat /\ last_pub_time <= HostTime
  BY <1>1 DEF FramerInit
<1>6. is_timestamp_sync \in BOOLEAN /\ raw_packet_queue \in Seq(Packet) /\ frame \subseteq Handles
  BY <1>2 DEF FramerInit
<1> QED  BY <1>3, <1>4, <1>5, <1>6 DEF FrameTypes

LEMMA TypesNext ==
  ASSUME FramerAssumption, FrameTypes, [FramerNext]_framerVars
  PROVE  FrameTypes'
<1>1. now \in Nat /\ MsUnits \in Nat /\ HostTime \in Nat
  BY Scaled DEF FrameTypes, FramerAssumption, HostTime
<1>2. CASE Tick
  <2>1. now' = now + 1 /\ now' \in Nat
    BY <1>1, <1>2 DEF Tick
  <2>2. HostTime <= HostTime' /\ HostTime' \in Nat
    <3>1. now <= now + 1 /\ now + 1 \in Nat
      BY <1>1
    <3>2. now * MsUnits <= (now + 1) * MsUnits /\ (now + 1) * MsUnits \in Nat
      BY <1>1, <3>1, Scaled
    <3> QED  BY <2>1, <3>2 DEF HostTime
  <2>3. UNCHANGED <<arrived, is_timestamp_sync, raw_packet_queue, points_clouds,
                    points, frame, last_pub_time, published>>
    BY <1>2 DEF Tick
  <2>4. last_pub_time' <= HostTime'
    <3>1. last_pub_time \in Nat /\ last_pub_time <= HostTime
      BY DEF FrameTypes
    <3> QED  BY <1>1, <2>2, <2>3, <3>1
  <2> QED  BY <2>1, <2>3, <2>4 DEF FrameTypes
<1>3. ASSUME NEW h \in Handles, NEW synced \in BOOLEAN, NEW stamp \in Stamps[h],
             NEW spacing \in Spacings, OnPointCloud(h, synced, stamp, spacing)
      PROVE  FrameTypes'
  <2> DEFINE n == arrived[h] + 1
             pkt == [handle |-> h, packet |-> n, synced |-> synced, spacing |-> spacing,
                     time_stamp |-> IF synced THEN stamp ELSE HostTime]
  <2>1. n \in Nat \ {0} /\ arrived \in [Handles -> Nat]
    BY DEF FrameTypes
  <2>2. /\ arrived' = [arrived EXCEPT ![h] = n] /\ is_timestamp_sync' = synced
        /\ raw_packet_queue' = Append(raw_packet_queue, pkt)
        /\ UNCHANGED <<now, points_clouds, points, frame, last_pub_time, published>>
    BY <1>3 DEF OnPointCloud
  <2> HIDE DEF n
  <2>3. pkt \in Packet
    <3>1. stamp \in Nat /\ spacing \in Nat
      BY DEF FramerAssumption
    <3> QED  BY <1>1, <2>1, <3>1 DEF Packet
  <2> HIDE DEF pkt
  <2>4. raw_packet_queue' \in Seq(Packet)
    BY <2>2, <2>3 DEF FrameTypes
  <2>5. arrived' \in [Handles -> Nat]
    BY <2>1, <2>2
  <2> QED  BY <2>2, <2>4, <2>5 DEF FrameTypes, HostTime
<1>4. ASSUME NEW synced \in BOOLEAN, OnImu(synced)  PROVE FrameTypes'
  BY <1>4 DEF OnImu, FrameTypes, HostTime
<1>6. CASE RawDataProcess
  <2>1. PICK due \in SUBSET Handles : CutOf(due)
    BY <1>6, RawSteps
  <2>2. /\ raw_packet_queue # <<>> /\ raw_packet_queue' = Tail(raw_packet_queue)
        /\ UNCHANGED <<now, arrived, is_timestamp_sync>>
        /\ last_pub_time' \in Nat /\ last_pub_time' <= HostTime'
    BY <1>6, RawSteps DEF HostTime
  <2>3. raw_packet_queue' \in Seq(Packet)
    BY <2>2, HeadIs
  <2>4. \A h \in Handles : Collected(h) \in Seq(Collectable)
    BY <2>2, CollectedTypes
  <2>5. points_clouds' \in [Handles -> Seq(Collectable)]
    <3>1. <<>> \in Seq(Collectable)
      OBVIOUS
    <3> QED  BY <2>1, <2>4, <3>1 DEF CutOf
  <2>6. points' \in [Handles -> Seq(Collectable)]
    BY <2>1, <2>4 DEF CutOf, FrameTypes
  <2>7. published' \in [Handles -> Seq(Collectable)]
    <3>1. \A h \in Handles : published[h] \in Seq(Collectable)
                             /\ published[h] \o Collected(h) \in Seq(Collectable)
      <4> SUFFICES ASSUME NEW h \in Handles
                   PROVE  published[h] \in Seq(Collectable)
                          /\ published[h] \o Collected(h) \in Seq(Collectable)
        OBVIOUS
      <4>1. published[h] \in Seq(Collectable) /\ Collected(h) \in Seq(Collectable)
        BY <2>4 DEF FrameTypes
      <4> QED  BY <4>1, ConcatProperties
    <3> QED  BY <2>1, <3>1 DEF CutOf
  <2>8. frame' \subseteq Handles
    BY <2>1 DEF CutOf
  <2> QED  BY <2>2, <2>3, <2>5, <2>6, <2>7, <2>8 DEF FrameTypes
<1>7. CASE UNCHANGED framerVars
  BY <1>7 DEF framerVars, FrameTypes, HostTime
<1> QED  BY <1>2, <1>3, <1>4, <1>6, <1>7 DEF FramerNext

-----------------------------------------------------------------------------
(* Points are published once. *)

\* How many packets of a LiDAR have been taken off the queue.
Waits(h) == Count(raw_packet_queue, h, Len(raw_packet_queue))
Done(h) == arrived[h] - Waits(h)

\* The points are those of the packets taken off, and the queue has the others, in the
\* order in which they came.
OnceInv ==
  /\ \A h \in Handles :
       /\ Done(h) \in Nat
       /\ Expands(Packets(published[h]) \o Packets(points_clouds[h]), Done(h))
  /\ \A h \in Handles, i \in 1 .. Len(raw_packet_queue) :
       raw_packet_queue[i].handle = h =>
         raw_packet_queue[i].packet = Done(h) + Count(raw_packet_queue, h, i)

LEMMA OncePoints ==
  ASSUME FrameTypes, OnceInv  PROVE PointsOnce
<1>1. \A h \in Handles : Cardinality(Waiting(h)) = Waits(h)
  BY DEF Waiting, Waits, Count, Those
<1> QED  BY <1>1 DEF PointsOnce, OnceInv, Expands, Done

LEMMA OnceInit ==
  ASSUME FramerAssumption, FramerInit  PROVE OnceInv
<1>1. raw_packet_queue = <<>> /\ Len(raw_packet_queue) = 0
      /\ \A h \in Handles : arrived[h] = 0 /\ published[h] = <<>> /\ points_clouds[h] = <<>>
  BY DEF FramerInit
<1>2. ASSUME NEW h \in Handles
      PROVE  /\ Done(h) = 0
             /\ Expands(Packets(published[h]) \o Packets(points_clouds[h]), Done(h))
  <2>1. Waits(h) = 0
    BY <1>1, CountNext DEF Waits
  <2>2. Done(h) = 0
    BY <1>1, <2>1 DEF Done
  <2>3. Packets(points_clouds[h]) = <<>> /\ Packets(published[h]) = <<>>
    BY <1>1 DEF Packets
  <2>4. Packets(published[h]) \o Packets(points_clouds[h]) = <<>>
    BY <2>3
  <2>5. 0 * PacketPoints = 0
    BY DEF FramerAssumption
  <2>6. Expands(<<>>, 0)
    BY <2>5 DEF Expands
  <2> QED  BY <2>2, <2>4, <2>6
<1> QED  BY <1>1, <1>2 DEF OnceInv

LEMMA OnceNext ==
  ASSUME FramerAssumption, FrameTypes, OnceInv, [FramerNext]_framerVars
  PROVE  OnceInv'
<1> DEFINE Q == raw_packet_queue
<1>0. Q \in Seq(Packet) /\ Len(Q) \in Nat /\ arrived \in [Handles -> Nat]
      /\ \A i \in 1 .. Len(Q) : Q[i] \in Packet /\ Q[i].handle \in Handles
  <2>1. \A r \in Packet : r.handle \in Handles
    BY DEF Packet
  <2> QED  BY <2>1 DEF FrameTypes
<1>1. ASSUME UNCHANGED <<arrived, raw_packet_queue, points_clouds, published>>
      PROVE  OnceInv'
  BY <1>1 DEF OnceInv, Done, Waits
<1>2. CASE Tick
  BY <1>1, <1>2 DEF Tick
<1>3. ASSUME NEW h \in Handles, NEW synced \in BOOLEAN, NEW stamp \in Stamps[h],
             NEW spacing \in Spacings, OnPointCloud(h, synced, stamp, spacing)
      PROVE  OnceInv'
  <2> DEFINE n == arrived[h] + 1
             pkt == [handle |-> h, packet |-> n, synced |-> synced, spacing |-> spacing,
                     time_stamp |-> IF synced THEN stamp ELSE HostTime]
             L == Len(Q)
  <2>1. /\ Q' = Append(Q, pkt) /\ arrived' = [arrived EXCEPT ![h] = n]
        /\ points_clouds' = points_clouds /\ published' = published
    BY <1>3 DEF OnPointCloud
  <2>2. Q' \in Seq(Packet) /\ pkt.handle = h /\ pkt.packet = n /\ n \in Nat
    <3>1. FrameTypes'
      BY <1>3, TypesNext DEF FramerNext
    <3>2. n \in Nat
      BY <1>0
    <3> QED  BY <3>1, <3>2 DEF FrameTypes
  <2>3. pkt \in Packet /\ Len(Q') = L + 1 /\ Q'[L + 1] = pkt /\ \A i \in 1 .. L : Q'[i] = Q[i]
    <3> HIDE DEF Q, pkt
    <3>1. Len(Q') = L + 1 /\ Q'[L + 1] = pkt /\ \A i \in 1 .. L : Q'[i] = Q[i]
      BY <1>0, <2>1
    <3>2. L + 1 \in 1 .. Len(Q')
      BY <1>0, <3>1
    <3>3. Q'[L + 1] \in Packet
      BY <2>2, <3>2
    <3> QED  BY <3>1, <3>3
  <2>4. \A g \in Handles : arrived'[g] = arrived[g] + (IF h = g THEN 1 ELSE 0)
    BY <1>0, <2>1
  <2> HIDE DEF n, pkt
  <2>5. \A g, i : i \in 0 .. L => Count(Q', g, i) = Count(Q, g, i)
    BY <1>0, <2>1, <2>3, CountAppend
  <2>6. \A g : Count(Q', g, L + 1) = Count(Q, g, L) + (IF h = g THEN 1 ELSE 0)
    <3>1. L \in 0 .. L
      BY <1>0
    <3> QED  BY <1>0, <2>1, <2>2, <2>3, <3>1, CountAppend
  <2>7. \A g \in Handles : Done(g)' = Done(g)
    <3> SUFFICES ASSUME NEW g \in Handles  PROVE Done(g)' = Done(g)
      OBVIOUS
    <3> DEFINE b == IF h = g THEN 1 ELSE 0
               a == arrived[g]
               w == Waits(g)
    <3>1. Waits(g)' = w + b
      BY <2>3, <2>6 DEF Waits
    <3>2. w \in Nat /\ a \in Nat /\ b \in Nat
      BY <1>0, CountNext DEF Waits
    <3>3. Done(g) = a - w /\ Done(g)' = (a + b) - (w + b)
      BY <2>4, <3>1 DEF Done
    <3> HIDE DEF a, w, b
    <3> QED  BY <3>2, <3>3
  <2>8. ASSUME NEW g \in Handles
        PROVE  Done(g)' \in Nat
               /\ Expands(Packets(published[g]) \o Packets(points_clouds[g]), Done(g))'
    <3> DEFINE all == Packets(published[g]) \o Packets(points_clouds[g])
    <3>1. Done(g) \in Nat /\ Expands(all, Done(g))
      BY DEF OnceInv
    <3>2. all' = all
      BY <2>1 DEF Packets
    <3> HIDE DEF all
    <3>3. Expands(all', Done(g)')
      BY <2>7, <3>1, <3>2
    <3> QED  BY <2>7, <3>1, <3>3 DEF all
  <2>9. ASSUME NEW g \in Handles, NEW i \in 1 .. Len(Q'), Q'[i].handle = g
        PROVE  Q'[i].packet = Done(g)' + Count(Q', g, i)
    <3>1. CASE i <= L
      <4>1. i \in 1 .. L /\ i \in 0 .. L
        BY <1>0, <3>1
      <4>2. Q[i].packet = Done(g) + Count(Q, g, i) /\ Q'[i] = Q[i]
        BY <1>0, <2>3, <2>9, <4>1 DEF OnceInv
      <4>3. Count(Q', g, i) = Count(Q, g, i) /\ Done(g)' = Done(g)
        BY <2>5, <2>7, <4>1
      <4> QED  BY <4>2, <4>3
    <3>2. CASE i = L + 1
      <4>1. Q'[i] = pkt /\ g = h /\ Q'[i].packet = n
        BY <2>2, <2>3, <2>9, <3>2
      <4>2. Count(Q', h, i) = Waits(h) + 1 /\ Done(h)' = Done(h)
        BY <2>6, <2>7, <3>2 DEF Waits
      <4>3. Waits(h) \in Nat /\ arrived[h] \in Nat
        BY <1>0, CountNext DEF Waits
      <4>4. Done(h)' + Count(Q', h, i) = n
        BY <4>2, <4>3 DEF Done, n
      <4> QED  BY <4>1, <4>4
    <3>3. i <= L \/ i = L + 1
      BY <1>0, <2>3
    <3> QED  BY <3>1, <3>2, <3>3
  <2> QED  BY <2>8, <2>9 DEF OnceInv, Q
<1>4. ASSUME NEW synced \in BOOLEAN, OnImu(synced)  PROVE OnceInv'
  BY <1>1, <1>4 DEF OnImu
<1>5. CASE RawDataProcess
  <2> DEFINE pkt == Head(Q)
             h == pkt.handle
             L == Len(Q)
  <2>1. PICK due \in SUBSET Handles : CutOf(due)
    BY <1>5, RawSteps
  <2>2. Q # <<>> /\ Q' = Tail(Q) /\ arrived' = arrived
    BY <1>5, RawSteps
  <2>3. pkt \in Packet /\ h \in Handles /\ pkt = Q[1] /\ L \in Nat \ {0} /\ Len(Q') = L - 1
        /\ \A i \in 1 .. L - 1 : Q'[i] = Q[i + 1]
    BY <2>2, HeadIs
  <2>4. \A g, i : i \in 0 .. L - 1 => Count(Q', g, i) = Count(Q, g, i + 1) - One(Q, g, 1)
    BY <1>0, <2>2, CountTail
  <2>5. \A g : One(Q, g, 1) = (IF g = h THEN 1 ELSE 0) /\ One(Q, g, 1) \in Nat
    BY <2>3 DEF One
  <2> HIDE DEF Q, pkt, L, h
  <2>6. \A g \in Handles : Done(g)' = Done(g) + One(Q, g, 1)
    <3> SUFFICES ASSUME NEW g \in Handles  PROVE Done(g)' = Done(g) + One(Q, g, 1)
      OBVIOUS
    <3>1. L - 1 \in 0 .. L - 1 /\ (L - 1) + 1 = L
      BY <2>3
    <3>2. Waits(g)' = Waits(g) - One(Q, g, 1)
      BY <2>3, <2>4, <3>1 DEF Waits, Q, L
    <3>3. Waits(g) \in Nat /\ arrived[g] \in Nat /\ One(Q, g, 1) \in Nat
      BY <1>0, <2>5, CountNext DEF Waits, Q
    <3> QED  BY <2>2, <3>2, <3>3 DEF Done
  <2>7. ASSUME NEW i \in 1 .. L, NEW g \in Handles, Q[i].handle = g
        PROVE  Q[i].packet = Done(g) + Count(Q, g, i) /\ Done(g) \in Nat /\ Count(Q, g, i) \in Nat
    <3>1. i \in 1 .. Len(Q) /\ i \in Nat
      BY <1>0, <2>7 DEF L
    <3>2. Q[i].packet = Done(g) + Count(Q, g, i) /\ Done(g) \in Nat
      BY <2>7, <3>1 DEF OnceInv, Q
    <3> QED  BY <3>1, <3>2, CountNext
  <2>8. pkt.packet = Done(h) + 1
    <3>1. 1 \in 1 .. L /\ Q[1].handle = h /\ Q[1].packet = pkt.packet
      BY <2>3 DEF h
    <3>2. Count(Q, h, 1) = 1
      <4>1. 0 \in Nat
        OBVIOUS
      <4>2. Count(Q, h, 0 + 1) = Count(Q, h, 0) + One(Q, h, 0 + 1) /\ Count(Q, h, 0) = 0
        BY <4>1, CountNext
      <4>3. One(Q, h, 1) = 1
        BY <2>5
      <4> QED  BY <4>2, <4>3
    <3> QED  BY <2>3, <2>7, <3>1, <3>2
  <2>9. ASSUME NEW g \in Handles
        PROVE  Done(g)' \in Nat
               /\ Expands(Packets(published[g]) \o Packets(points_clouds[g]), Done(g))'
    <3> DEFINE c == points_clouds[g]
               p == published[g]
               u == Collected(g)
    <3>1. Done(g) \in Nat /\ Expands(Packets(p) \o Packets(c), Done(g))
      BY DEF OnceInv
    <3>2. u \in Seq(Collectable) /\ c \in Seq(Collectable) /\ p \in Seq(Collectable)
      BY <2>2, CollectedTypes DEF Q, FrameTypes
    <3>3. Packets(u) \in Seq(Nat) /\ Packets(p) \in Seq(Nat) /\ Packets(c) \in Seq(Nat)
      <4> HIDE DEF u, c, p
      <4> QED  BY <3>2, PacketsAre
    <3>4. (Packets(published[g]) \o Packets(points_clouds[g]))' = Packets(p) \o Packets(u)
      <4>1. CASE g \in due
        <5>1. published'[g] = p \o u /\ points_clouds'[g] = <<>>
          BY <2>1, <4>1 DEF CutOf
        <5>2. Packets(points_clouds[g])' = <<>>
          BY <5>1 DEF Packets
        <5>3. Packets(published[g])' = Packets(p \o u)
          BY <5>1 DEF Packets
        <5>4. Packets(p \o u) = Packets(p) \o Packets(u)
          <6> HIDE DEF p, u
          <6> QED  BY <3>2, PacketsConcat
        <5> HIDE DEF p, u
        <5>5. (Packets(p) \o Packets(u)) \o <<>> = Packets(p) \o Packets(u)
          <6>1. Packets(p) \o Packets(u) \in Seq(Nat)
            BY <3>3, ConcatProperties
          <6> QED  BY <6>1, ConcatEmptySeq
        <5> QED  BY <5>2, <5>3, <5>4, <5>5
      <4>2. CASE g \notin due
        <5>1. published'[g] = p /\ points_clouds'[g] = u
          BY <2>1, <4>2 DEF CutOf
        <5>2. Packets(points_clouds[g])' = Packets(u) /\ Packets(published[g])' = Packets(p)
          BY <5>1 DEF Packets
        <5> QED  BY <5>2
      <4> QED  BY <4>1, <4>2
    <3>5. Expands(Packets(p) \o Packets(u), Done(g) + One(Q, g, 1))
      <4>1. CASE g = h
        <5> DEFINE t == Packets(PointsOf(pkt))
                   a == Packets(c)
                   b == Packets(p)
        <5>1. u = c \o PointsOf(pkt)
          BY <4>1 DEF Collected, h, pkt, Q
        <5>2. Packets(u) = a \o t
          <6> HIDE DEF c, u
          <6> QED  BY <2>3, <3>2, <5>1, CollectedIs
        <5>3. t = [i \in 1 .. PacketPoints |-> Done(g) + 1] /\ t \in Seq(Nat)
          <6>1. t = [i \in 1 .. PacketPoints |-> pkt.packet]
            BY <2>3, PointsAre
          <6>2. PointsOf(pkt) \in Seq(Collectable)
            BY <2>3, PointsAre
          <6>3. t \in Seq(Nat)
            BY <6>2, PacketsAre
          <6> QED  BY <2>8, <4>1, <6>1, <6>3
        <5>4. b \in Seq(Nat) /\ a \in Seq(Nat) /\ Expands(b \o a, Done(g))
          BY <3>1, <3>3
        <5> HIDE DEF t, a, b
        <5>5. Expands((b \o a) \o t, Done(g) + 1)
          BY <3>1, <5>3, <5>4, ExpandsMore
        <5>6. (b \o a) \o t = b \o (a \o t)
          <6>1. b \in Seq(Nat) /\ a \in Seq(Nat) /\ t \in Seq(Nat)
            BY <5>3, <5>4
          <6> QED  BY <6>1, ConcatAssociative
        <5>7. One(Q, g, 1) = 1
          BY <2>5, <4>1
        <5> QED  BY <5>2, <5>5, <5>6, <5>7 DEF b
      <4>2. CASE g # h
        <5>1. u = c
          BY <4>2 DEF Collected, h, pkt, Q
        <5>2. One(Q, g, 1) = 0 /\ Done(g) + 0 = Done(g)
          BY <2>5, <3>1, <4>2
        <5> QED  BY <3>1, <5>1, <5>2
      <4> QED  BY <4>1, <4>2
    <3>6. Done(g)' = Done(g) + One(Q, g, 1) /\ Done(g)' \in Nat
      BY <2>5, <2>6, <3>1
    <3> HIDE DEF p, u
    <3>7. Expands((Packets(published[g]) \o Packets(points_clouds[g]))', Done(g)')
      BY <3>4, <3>5, <3>6
    <3> QED  BY <3>6, <3>7
  <2>10. ASSUME NEW g \in Handles, NEW i \in 1 .. Len(Q'), Q'[i].handle = g
         PROVE  Q'[i].packet = Done(g)' + Count(Q', g, i)
    <3>1. i \in 1 .. L - 1 /\ i + 1 \in 1 .. L /\ i \in 0 .. L - 1
      BY <2>3
    <3>2. Q'[i] = Q[i + 1] /\ Q[i + 1].handle = g
      BY <2>3, <2>10, <3>1
    <3>3. Q[i + 1].packet = Done(g) + Count(Q, g, i + 1) /\ Done(g) \in Nat
          /\ Count(Q, g, i + 1) \in Nat
      BY <2>7, <3>1, <3>2
    <3>4. Count(Q', g, i) = Count(Q, g, i + 1) - One(Q, g, 1) /\ One(Q, g, 1) \in Nat
      BY <2>4, <2>5, <3>1
    <3>5. Done(g)' = Done(g) + One(Q, g, 1)
      BY <2>6
    <3>6. Done(g)' + Count(Q', g, i) = Done(g) + Count(Q, g, i + 1)
      BY <3>3, <3>4, <3>5
    <3> QED  BY <3>2, <3>3, <3>6
  <2> QED  BY <2>9, <2>10 DEF OnceInv, Q
<1>6. CASE UNCHANGED framerVars
  BY <1>1, <1>6 DEF framerVars
<1> QED  BY <1>2, <1>3, <1>4, <1>5, <1>6 DEF FramerNext

-----------------------------------------------------------------------------
(* Stamps of the host. *)

\* They are not ahead of its clock, and in order.
HostStamped(q, host) ==
  /\ \A i \in 1 .. Len(q) : ~q[i].synced => q[i].time_stamp <= host
  /\ \A i, j \in 1 .. Len(q) :
       i < j /\ ~q[i].synced /\ ~q[j].synced => q[i].time_stamp <= q[j].time_stamp

\* The packets in a queue are behind a cloud that begins with such a stamp.
CloudAhead(c, q, host) ==
  /\ FromFirst(c)
  /\ c # <<>> /\ ~c[1].synced =>
       /\ c[1].offset_time <= host
       /\ \A i \in 1 .. Len(q) : ~q[i].synced => c[1].offset_time <= q[i].time_stamp

StampsInv ==
  /\ HostStamped(raw_packet_queue, HostTime)
  /\ \A h \in Handles :
       /\ CloudAhead(points_clouds[h], raw_packet_queue, HostTime)
       /\ h \in frame => points[h] # <<>> /\ FromFirst(points[h])

LEMMA EmptyCloud ==
  ASSUME NEW q, NEW host  PROVE CloudAhead(<<>>, q, host)
<1>1. 1 .. Len(<<>>) = {}
  OBVIOUS
<1> QED  BY <1>1 DEF CloudAhead, FromFirst

LEMMA FirstPoint ==
  ASSUME NEW c \in Seq(Collectable), c # <<>>
  PROVE  1 \in 1 .. Len(c) /\ c[1].offset_time \in Nat /\ c[1].synced \in BOOLEAN
<1>1. 1 \in 1 .. Len(c) /\ c[1] \in Collectable
  OBVIOUS
<1> QED  BY <1>1, FieldTypes

\* Time goes on.
LEMMA StampedLater ==
  ASSUME NEW q \in Seq(Packet), NEW host \in Nat, NEW after \in Nat, host <= after
  PROVE  /\ HostStamped(q, host) => HostStamped(q, after)
         /\ \A c \in Seq(Collectable) : CloudAhead(c, q, host) => CloudAhead(c, q, after)
<1>1. \A i \in 1 .. Len(q) : q[i].time_stamp \in Nat
  <2>1. \A i \in 1 .. Len(q) : q[i] \in Packet
    OBVIOUS
  <2> QED  BY <2>1, FieldTypes
<1>2. ASSUME HostStamped(q, host)  PROVE HostStamped(q, after)
  BY <1>1, <1>2 DEF HostStamped
<1>3. ASSUME NEW c \in Seq(Collectable), CloudAhead(c, q, host)  PROVE CloudAhead(c, q, after)
  <2>1. c # <<>> => c[1].offset_time \in Nat
    BY FirstPoint
  <2> QED  BY <1>3, <2>1 DEF CloudAhead
<1> QED  BY <1>2, <1>3

\* A packet comes.
LEMMA StampedArrival ==
  ASSUME NEW q \in Seq(Packet), NEW host \in Nat, NEW x \in Packet,
         ~x.synced => x.time_stamp = host, HostStamped(q, host)
  PROVE  /\ HostStamped(Append(q, x), host)
         /\ \A c \in Seq(Collectable) : CloudAhead(c, q, host) => CloudAhead(c, Append(q, x), host)
<1> DEFINE r == Append(q, x)
           n == Len(q)
<1>1. n \in Nat /\ Len(r) = n + 1 /\ r[n + 1] = x /\ \A i \in 1 .. n : r[i] = q[i]
  OBVIOUS
<1> HIDE DEF r, n
<1>2. \A i \in 1 .. n + 1 : i \in 1 .. n \/ i = n + 1
  BY <1>1
<1>3. HostStamped(r, host)
  <2>1. ASSUME NEW i \in 1 .. Len(r), ~r[i].synced  PROVE r[i].time_stamp <= host
    <3>1. CASE i \in 1 .. n
      BY <1>1, <2>1, <3>1 DEF HostStamped, n
    <3>2. CASE i = n + 1
      BY <1>1, <2>1, <3>2
    <3> QED  BY <1>1, <1>2, <3>1, <3>2
  <2>2. ASSUME NEW i \in 1 .. Len(r), NEW j \in 1 .. Len(r), i < j, ~r[i].synced, ~r[j].synced
        PROVE  r[i].time_stamp <= r[j].time_stamp
    <3>1. i \in 1 .. n /\ r[i] = q[i]
      <4>1. i \in 1 .. n
        BY <1>1, <2>2
      <4> QED  BY <1>1, <4>1
    <3>2. CASE j \in 1 .. n
      BY <1>1, <2>2, <3>1, <3>2 DEF HostStamped, n
    <3>3. CASE j = n + 1
      BY <1>1, <2>1, <2>2, <3>3
    <3> QED  BY <1>1, <1>2, <3>2, <3>3
  <2> QED  BY <2>1, <2>2 DEF HostStamped
<1>4. ASSUME NEW c \in Seq(Collectable), CloudAhead(c, q, host)  PROVE CloudAhead(c, r, host)
  <2>1. ASSUME c # <<>>, ~c[1].synced, NEW i \in 1 .. Len(r), ~r[i].synced
        PROVE  c[1].offset_time <= r[i].time_stamp
    <3>1. CASE i \in 1 .. n
      BY <1>1, <1>4, <2>1, <3>1 DEF CloudAhead, n
    <3>2. CASE i = n + 1
      BY <1>1, <1>4, <2>1, <3>2 DEF CloudAhead
    <3> QED  BY <1>1, <1>2, <3>1, <3>2
  <2> QED  BY <1>4, <2>1 DEF CloudAhead
<1> QED  BY <1>3, <1>4 DEF r

\* The first packet of the queue is taken off, and collected by one LiDAR's cloud.
LEMMA StampedTaken ==
  ASSUME FramerAssumption, NEW q \in Seq(Packet), q # <<>>, NEW host \in Nat,
         HostStamped(q, host)
  PROVE  /\ HostStamped(Tail(q), host)
         /\ \A c \in Seq(Collectable) : CloudAhead(c, q, host) =>
              /\ CloudAhead(c, Tail(q), host)
              /\ CloudAhead(c \o PointsOf(q[1]), Tail(q), host)
<1> DEFINE t == Tail(q)
           n == Len(q) - 1
           d == PacketPoints
           x == q[1]
           f == PointsOf(x)
<1>1. n \in Nat /\ Len(t) = n /\ Len(q) = n + 1 /\ x \in Packet
      /\ \A i \in 1 .. n : t[i] = q[i + 1]
  OBVIOUS
<1> HIDE DEF t, n
<1>2. \A i \in 1 .. n : i + 1 \in 1 .. Len(q) /\ 1 \in 1 .. Len(q) /\ 1 < i + 1
  BY <1>1
<1>3. HostStamped(t, host)
  <2>1. \A i, j \in 1 .. n : i < j => i + 1 < j + 1
    BY <1>1
  <2> QED  BY <1>1, <1>2, <2>1 DEF HostStamped
<1>4. ASSUME NEW c \in Seq(Collectable), CloudAhead(c, q, host)  PROVE CloudAhead(c, t, host)
  BY <1>1, <1>2, <1>4 DEF CloudAhead
<1>5. /\ \A i \in 1 .. d : /\ f[i].synced = x.synced
                            /\ f[i].offset_time >= x.time_stamp /\ f[i].offset_time \in Nat
      /\ f[1].offset_time = x.time_stamp
  <2> HIDE DEF x
  <2>1. /\ \A i \in 1 .. PacketPoints :
              /\ PointsOf(x)[i].synced = x.synced
              /\ PointsOf(x)[i].offset_time >= x.time_stamp
        /\ PointsOf(x)[1].offset_time = x.time_stamp /\ PointsOf(x) \in Seq(Collectable)
        /\ Len(PointsOf(x)) = PacketPoints
    BY <1>1, PointsAre
  <2>2. \A i \in 1 .. PacketPoints : PointsOf(x)[i] \in Collectable
    BY <2>1
  <2> QED  BY <2>1, <2>2, FieldTypes
<1>6. x.synced \in BOOLEAN /\ x.time_stamp \in Nat /\ d \in Nat \ {0} /\ 1 \in 1 .. Len(q) /\ 1 \in 1 .. d
  BY <1>1, FieldTypes DEF FramerAssumption
<1>7. ASSUME NEW c \in Seq(Collectable), CloudAhead(c, q, host)
      PROVE  CloudAhead(c \o f, t, host)
  <2> DEFINE u == c \o f
             k == Len(c)
  <2>1. /\ u \in Seq(Collectable) /\ Len(u) = k + d /\ u # <<>> /\ k \in Nat
        /\ \A i \in 1 .. k : u[i] = c[i]
        /\ \A j \in 1 .. d : u[k + j] = f[j]
    <3> HIDE DEF x
    <3>1. x \in Packet /\ Len(c) \in Nat
      BY <1>1
    <3> QED  BY <3>1, CollectedIs
  <2> HIDE DEF u, k, f, x, d
  <2>2. \A l \in 1 .. Len(u) : l \in 1 .. k \/ (l - k \in 1 .. d /\ l = k + (l - k))
    BY <1>6, <2>1
  <2> SUFFICES ASSUME ~u[1].synced
               PROVE  /\ \A l \in 1 .. Len(u) : ~u[l].synced => u[l].offset_time >= u[1].offset_time
                      /\ u[1].offset_time <= host
                      /\ \A i \in 1 .. Len(t) : ~t[i].synced => u[1].offset_time <= t[i].time_stamp
    BY <2>1 DEF CloudAhead, FromFirst, u, f
  <2>3. CASE c = <<>>
    <3>1. k = 0 /\ \A i \in 1 .. d : 0 + i = i
      BY <1>6, <2>3 DEF k
    <3>2. Len(u) = d /\ \A i \in 1 .. d : u[i] = f[i]
      <4>1. \A i \in 1 .. d : u[0 + i] = f[i]
        BY <2>1, <3>1
      <4> QED  BY <2>1, <1>6, <3>1, <4>1
    <3>3. u[1].offset_time = x.time_stamp /\ ~x.synced
      BY <1>5, <1>6, <3>2
    <3>4. x.time_stamp <= host
      BY <1>6, <3>3 DEF HostStamped, x
    <3>5. \A i \in 1 .. Len(t) : ~t[i].synced => x.time_stamp <= t[i].time_stamp
      BY <1>1, <1>2, <3>3 DEF HostStamped, x
    <3> QED  BY <1>5, <3>2, <3>3, <3>4, <3>5
  <2>4. CASE c # <<>>
    <3>1. 1 \in 1 .. k /\ c[1].offset_time \in Nat
      BY <2>4, FirstPoint DEF k
    <3>2. u[1] = c[1] /\ ~c[1].synced
      BY <2>1, <3>1
    <3>3. /\ c[1].offset_time <= host
          /\ \A i \in 1 .. Len(q) : ~q[i].synced => c[1].offset_time <= q[i].time_stamp
          /\ \A i \in 1 .. k : ~c[i].synced => c[i].offset_time >= c[1].offset_time
      BY <1>7, <2>4, <3>2 DEF CloudAhead, FromFirst, k
    <3>4. \A i \in 1 .. Len(t) : ~t[i].synced => c[1].offset_time <= t[i].time_stamp
      BY <1>1, <1>2, <3>3
    <3>5. ASSUME NEW l \in 1 .. Len(u), ~u[l].synced  PROVE u[l].offset_time >= c[1].offset_time
      <4>1. CASE l \in 1 .. k
        BY <2>1, <3>3, <3>5, <4>1
      <4>2. CASE l - k \in 1 .. d /\ l = k + (l - k)
        <5>1. u[l] = f[l - k]
          BY <2>1, <4>2
        <5> DEFINE o == u[l].offset_time
        <5>2. ~x.synced /\ o >= x.time_stamp /\ o \in Nat
          BY <1>5, <3>5, <4>2, <5>1
        <5> HIDE DEF o
        <5>3. c[1].offset_time <= x.time_stamp
          BY <1>6, <3>3, <5>2 DEF x
        <5>4. o >= c[1].offset_time
          BY <1>6, <3>1, <5>2, <5>3
        <5> QED  BY <5>4 DEF o
      <4> QED  BY <2>2, <4>1, <4>2
    <3> QED  BY <3>2, <3>3, <3>4, <3>5
  <2> QED  BY <2>3, <2>4
<1> QED  BY <1>3, <1>4, <1>7 DEF t, f, x

LEMMA StampsInit ==
  ASSUME FramerInit  PROVE StampsInv
<1>1. raw_packet_queue = <<>> /\ frame = {} /\ \A h \in Handles : points_clouds[h] = <<>>
  BY DEF FramerInit
<1>2. 1 .. Len(<<>>) = {}
  OBVIOUS
<1>3. HostStamped(<<>>, HostTime)
  BY <1>2 DEF HostStamped
<1> QED  BY <1>1, <1>3, EmptyCloud DEF StampsInv

LEMMA StampsNext ==
  ASSUME FramerAssumption, FrameTypes, StampsInv, [FramerNext]_framerVars
  PROVE  StampsInv'
<1> DEFINE Q == raw_packet_queue
<1>0. /\ FrameTypes' /\ Q \in Seq(Packet) /\ points_clouds \in [Handles -> Seq(Collectable)]
      /\ HostTime \in Nat /\ HostTime' \in Nat
  <2>1. FrameTypes'
    BY TypesNext
  <2>2. MsUnits \in Nat /\ now \in Nat /\ now' \in Nat
    BY <2>1 DEF FrameTypes, FramerAssumption
  <2>3. HostTime \in Nat /\ HostTime' \in Nat
    <3>1. \A x \in Nat : x * MsUnits \in Nat
      <4> SUFFICES ASSUME NEW x \in Nat  PROVE x * MsUnits \in Nat
        OBVIOUS
      <4>1. x <= x
        OBVIOUS
      <4> QED  BY <2>2, <4>1, Scaled
    <3> QED  BY <2>2, <3>1 DEF HostTime
  <2> QED  BY <2>1, <2>3 DEF FrameTypes
<1>1. /\ HostStamped(Q, HostTime)
      /\ \A h \in Handles :
           /\ points_clouds[h] \in Seq(Collectable) /\ CloudAhead(points_clouds[h], Q, HostTime)
           /\ h \in frame => points[h] # <<>> /\ FromFirst(points[h])
  BY <1>0 DEF StampsInv
<1> HIDE DEF Q
<1>2. CASE Tick
  <2>1. now' = now + 1 /\ now \in Nat /\ MsUnits \in Nat
        /\ UNCHANGED <<raw_packet_queue, points_clouds, points, frame>>
    BY <1>2 DEF Tick, FrameTypes, FramerAssumption
  <2>2. now <= now + 1 /\ now + 1 \in Nat
    BY <2>1
  <2>3. HostTime <= HostTime'
    BY <2>1, <2>2, Scaled DEF HostTime
  <2>4. HostStamped(Q, HostTime')
    BY <1>0, <1>1, <2>3, StampedLater
  <2>5. \A h \in Handles : CloudAhead(points_clouds[h], Q, HostTime')
    BY <1>0, <1>1, <2>3, StampedLater
  <2> QED  BY <1>1, <2>1, <2>4, <2>5 DEF StampsInv, Q
<1>3. ASSUME NEW g \in Handles, NEW synced \in BOOLEAN, NEW stamp \in Stamps[g],
             NEW spacing \in Spacings, OnPointCloud(g, synced, stamp, spacing)
      PROVE  StampsInv'
  <2> DEFINE x == [handle |-> g, packet |-> arrived[g] + 1, synced |-> synced,
                   spacing |-> spacing, time_stamp |-> IF synced THEN stamp ELSE HostTime]
  <2>1. Q' = Append(Q, x) /\ UNCHANGED <<now, points_clouds, points, frame>>
    BY <1>3 DEF OnPointCloud, Q
  <2>2. ~x.synced => x.time_stamp = HostTime
    OBVIOUS
  <2>3. Q' \in Seq(Packet)
    BY <1>0 DEF FrameTypes, Q
  <2> HIDE DEF x
  <2>4. x \in Packet
    <3> DEFINE r == Append(Q, x)
    <3>1. Len(r) \in 1 .. Len(r) /\ r[Len(r)] = x /\ r \in Seq(Packet)
      BY <1>0, <2>1, <2>3
    <3> HIDE DEF r
    <3> QED  BY <3>1
  <2>5. HostStamped(Append(Q, x), HostTime)
    BY <1>0, <1>1, <2>2, <2>4, StampedArrival
  <2>6. \A h \in Handles : CloudAhead(points_clouds[h], Append(Q, x), HostTime)
    BY <1>0, <1>1, <2>2, <2>4, StampedArrival
  <2>7. HostTime' = HostTime /\ points_clouds' = points_clouds /\ points' = points /\ frame' = frame
    BY <2>1 DEF HostTime
  <2> QED  BY <1>1, <2>1, <2>5, <2>6, <2>7 DEF StampsInv, Q
<1>4. ASSUME NEW synced \in BOOLEAN, OnImu(synced)  PROVE StampsInv'
  <2>1. UNCHANGED <<now, raw_packet_queue, points_clouds, points, frame>>
    BY <1>4 DEF OnImu
  <2> QED  BY <2>1 DEF StampsInv, HostTime
<1>5. CASE RawDataProcess
  <2>1. PICK due \in SUBSET Handles : CutOf(due)
    BY <1>5, RawSteps
  <2>2. Q # <<>> /\ Q' = Tail(Q) /\ HostTime' = HostTime
    BY <1>5, RawSteps DEF Q, HostTime
  <2>3. Head(Q) = Q[1]
    BY <2>2, HeadIs DEF Q
  <2>4. HostStamped(Tail(Q), HostTime)
    BY <1>0, <1>1, <2>2, StampedTaken
  <2>5. ASSUME NEW h \in Handles  PROVE CloudAhead(Collected(h), Tail(Q), HostTime)
    <3>1. /\ CloudAhead(points_clouds[h], Tail(Q), HostTime)
          /\ CloudAhead(points_clouds[h] \o PointsOf(Q[1]), Tail(Q), HostTime)
      BY <1>0, <1>1, <2>2, StampedTaken
    <3>2. Collected(h) = IF h = Q[1].handle THEN points_clouds[h] \o PointsOf(Q[1])
                         ELSE points_clouds[h]
      BY <2>3 DEF Collected, Q
    <3> QED  BY <3>1, <3>2
  <2>6. ASSUME NEW h \in Handles  PROVE CloudAhead(points_clouds'[h], Tail(Q), HostTime)
    <3>1. points_clouds'[h] = <<>> \/ points_clouds'[h] = Collected(h)
      BY <2>1 DEF CutOf
    <3> QED  BY <2>5, <3>1, EmptyCloud
  <2>7. ASSUME NEW h \in Handles, h \in frame'
        PROVE  points'[h] # <<>> /\ FromFirst(points'[h])
    <3>1. h \in due /\ points'[h] = Collected(h) /\ Collected(h) # <<>>
      BY <2>1, <2>7 DEF CutOf
    <3>2. FromFirst(Collected(h))
      BY <2>5 DEF CloudAhead
    <3> QED  BY <3>1, <3>2
  <2> QED  BY <2>2, <2>4, <2>6, <2>7 DEF StampsInv, Q
<1>6. CASE UNCHANGED framerVars
  BY <1>6 DEF framerVars, StampsInv, HostTime
<1> QED  BY <1>2, <1>3, <1>4, <1>5, <1>6 DEF FramerNext

\* What a frame's times are.
LEMMA StampsArrive ==
  ASSUME FramerAssumption, AviaAssumption, FrameTypes, StampsInv  PROVE TimesArrive
<1> SUFFICES ASSUME NEW h \in frame  PROVE Arrives(points[h])
  BY DEF TimesArrive, Arrives
<1>1. points[h] \in Seq(Collectable) /\ points[h] # <<>> /\ FromFirst(points[h])
  BY DEF FrameTypes, StampsInv
<1> QED  BY <1>1, ArrivesIs

-----------------------------------------------------------------------------
(* Intervals. *)

\* A time that ends an interval of the LiDAR's clock.
Boundary(time) == (Ms(time) % publish_interval_ms) = 0 /\ Ms(time) # 0

\* The points of whole packets, of which none made the cloud due.
Whole(c) == \E m \in Nat : Len(c) = m * PacketPoints
Early(c) ==
  \A k \in Nat \ {0} : k * PacketPoints <= Len(c) =>
    ~Due(c[1].offset_time, c[k * PacketPoints].offset_time)

\* What WholeIntervals says of a frame that ends the points published.
WholeFrame(f, p) ==
  LET base == BaseTime(f)
      end == RecentTime(f)
      n == Len(p) - Len(f)
      before == p[n].offset_time
  IN  base <= end =>
        /\ end - base >= publish_interval_tolerance
        /\ Regular(f, base, MsUnits) => Ms(end) - Ms(base) < 2 * publish_interval_ms
        /\ (n > 0 /\ before <= base /\ Regular(f, before, MsUnits - (base - before)))
             => Ms(end) = Ms(before) + publish_interval_ms

IntervalInv ==
  FALSE \notin clocks =>
    /\ raw_packet_queue # <<>> => is_timestamp_sync
    /\ \A h \in Handles :
         /\ Whole(points_clouds[h]) /\ Early(points_clouds[h])
         /\ published[h] # <<>> => Boundary(published[h][Len(published[h])].offset_time)
         /\ h \in frame => WholeFrame(points[h], published[h])

LEMMA IntervalWhole ==
  ASSUME FrameTypes, IntervalInv  PROVE WholeIntervals
<1>1. clocks = {TRUE} => FALSE \notin clocks
  OBVIOUS
<1>2. frame \subseteq Handles
  BY DEF FrameTypes
<1> QED  BY <1>1, <1>2 DEF IntervalInv, WholeIntervals, WholeFrame

\* In which millisecond a time is.
LEMMA MsIs ==
  ASSUME FramerAssumption, NEW x \in Nat
  PROVE  Ms(x) \in Nat /\ \A q \in Nat : (x < q * MsUnits <=> Ms(x) < q)
<1> DEFINE d == MsUnits
           m == x \div d
           r == x % d
<1>1. d \in Nat \ {0}
  BY DEF FramerAssumption
<1>2. m \in Nat /\ r \in 0 .. d - 1 /\ x = d * m + r
  BY <1>1
<1> HIDE DEF m, r, d
<1>3. ASSUME NEW q \in Nat, m < q  PROVE x < q * d
  <2>1. m + 1 \in Nat /\ m + 1 <= q
    BY <1>2, <1>3
  <2>2. (m + 1) * d <= q * d /\ (m + 1) * d \in Nat /\ q * d \in Nat
    BY <1>1, <2>1, Scaled
  <2>3. (m + 1) * d = d * m + d
    BY <1>1, <1>2
  <2> QED  BY <1>1, <1>2, <2>2, <2>3
<1>4. ASSUME NEW q \in Nat, ~(m < q)  PROVE ~(x < q * d)
  <2>1. q <= m
    BY <1>2, <1>4
  <2>2. q * d <= m * d /\ m * d \in Nat /\ q * d \in Nat
    BY <1>1, <1>2, <2>1, Scaled
  <2>3. m * d = d * m
    BY <1>1, <1>2
  <2> QED  BY <1>1, <1>2, <2>2, <2>3
<1>5. \A q \in Nat : (x < q * d <=> m < q)
  BY <1>3, <1>4
<1> QED  BY <1>2, <1>5 DEF Ms, m, d

LEMMA MultipleOf ==
  ASSUME NEW d \in Nat \ {0}, NEW q \in Nat
  PROVE  q * d \in Nat /\ ((q * d) % d) = 0
<1>1. q * d \in Nat
  BY Scaled
<1> DEFINE a == q * d
           r == 0
<1>2. a = q * d + r /\ r \in 0 .. d - 1
  BY <1>1
<1> HIDE DEF a, r
<1>3. (a % d) = r
  BY <1>2, DivisionIs, SMTT(30)
<1> QED  BY <1>1, <1>3 DEF a, r

\* Two multiples are as far apart as that at least, and so is the next one.
LEMMA Multiples ==
  ASSUME NEW d \in Nat \ {0}, NEW x \in Nat, (x % d) = 0
  PROVE  /\ ((x + d) % d) = 0
         /\ \A y \in Nat : (y % d) = 0 /\ x < y => x + d <= y
<1> DEFINE q == x \div d
<1>1. q \in Nat /\ x = q * d
  <2>1. x = d * (x \div d) + (x % d) /\ x \div d \in Nat
    OBVIOUS
  <2> QED  BY <2>1
<1> HIDE DEF q
<1>2. x + d = (q + 1) * d /\ q + 1 \in Nat
  BY <1>1
<1>3. ((x + d) % d) = 0
  BY <1>2, MultipleOf
<1>4. ASSUME NEW y \in Nat, (y % d) = 0, x < y  PROVE x + d <= y
  <2> DEFINE p == y \div d
  <2>1. p \in Nat /\ y = p * d
    <3>1. y = d * (y \div d) + (y % d) /\ y \div d \in Nat
      OBVIOUS
    <3> QED  BY <1>4, <3>1
  <2> HIDE DEF p
  <2>2. ~(p <= q)
    <3> SUFFICES ASSUME p <= q  PROVE FALSE
      OBVIOUS
    <3>1. p * d <= q * d /\ p * d \in Nat /\ q * d \in Nat
      BY <1>1, <2>1, Scaled
    <3> QED  BY <1>1, <1>4, <2>1, <3>1
  <2>3. q + 1 <= p
    BY <1>1, <2>1, <2>2
  <2>4. (q + 1) * d <= p * d
    BY <1>2, <2>1, <2>3, Scaled
  <2> QED  BY <1>2, <2>1, <2>4
<1> QED  BY <1>3, <1>4

\* A multiple behind the next d.
LEMMA MultipleBehind ==
  ASSUME NEW d \in Nat \ {0}, NEW b \in Nat
  PROVE  \E x \in Nat : (x % d) = 0 /\ b + d <= x /\ x < b + 2 * d
<1> DEFINE q == b \div d
           r == b % d
           x == IF r = 0 THEN (q + 1) * d ELSE (q + 2) * d
<1>1. q \in Nat /\ r \in 0 .. d - 1 /\ b = d * q + r
  OBVIOUS
<1> HIDE DEF q, r
<1>2. q + 1 \in Nat /\ q + 2 \in Nat /\ (q + 1) * d = d * q + d /\ (q + 2) * d = d * q + 2 * d
  BY <1>1
<1>3. x \in Nat /\ (x % d) = 0
  BY <1>2, MultipleOf
<1>4. b + d <= x /\ x < b + 2 * d
  <2> DEFINE m == d * q
             e == 2 * d
  <2>1. m \in Int /\ e = d + d /\ b = m + r /\ x = IF r = 0 THEN m + d ELSE m + e
    BY <1>1, <1>2
  <2> HIDE DEF m, x, e
  <2> QED  BY <1>1, <2>1 DEF e
<1> QED  BY <1>3, <1>4

\* Times that begin before one and end at or behind it step over it somewhere.
LEMMA Crossing ==
  ASSUME NEW K \in Nat, NEW e \in [0 .. K -> Int], NEW x \in Int, e[0] < x, x <= e[K]
  PROVE  \E k \in 0 .. K - 1 : e[k] < x /\ x <= e[k + 1]
<1> SUFFICES ASSUME \A k \in 0 .. K - 1 : ~(e[k] < x /\ x <= e[k + 1])  PROVE FALSE
  OBVIOUS
<1> DEFINE Good == {k \in Nat : k <= K => e[k] < x}
<1>1. 0 \in Good
  OBVIOUS
<1>2. ASSUME NEW k \in Nat, k \in Good  PROVE k + 1 \in Good
  <2> SUFFICES ASSUME k + 1 <= K  PROVE e[k + 1] < x
    OBVIOUS
  <2>1. k \in 0 .. K - 1 /\ k <= K /\ k + 1 \in 0 .. K
    OBVIOUS
  <2>2. e[k] < x /\ e[k + 1] \in Int
    BY <1>2, <2>1
  <2> QED  BY <2>1, <2>2
<1>3. K \in Good
  <2> HIDE DEF Good
  <2> QED  BY <1>1, <1>2, SetInduction
<1>4. K \in 0 .. K
  OBVIOUS
<1>5. e[K] \in Int
  BY <1>4
<1> QED  BY <1>3, <1>5

LEMMA EmptyIsEarly ==
  ASSUME FramerAssumption  PROVE Whole(<<>>) /\ Early(<<>>)
<1>1. PacketPoints \in Nat \ {0} /\ Len(<<>>) = 0 /\ 0 * PacketPoints = 0
  BY DEF FramerAssumption
<1>2. \A k \in Nat \ {0} : ~(k * PacketPoints <= 0)
  <2> SUFFICES ASSUME NEW k \in Nat \ {0}  PROVE ~(k * PacketPoints <= 0)
    OBVIOUS
  <2>1. 1 * PacketPoints <= k * PacketPoints /\ k * PacketPoints \in Nat
    <3>1. 1 <= k /\ 1 \in Nat
      OBVIOUS
    <3> QED  BY <1>1, <3>1, Scaled
  <2> QED  BY <1>1, <2>1
<1> QED  BY <1>1, <1>2 DEF Whole, Early

\* The tolerance, in milliseconds.
LEMMA ToleranceIs ==
  ASSUME FramerAssumption
  PROVE  publish_interval_tolerance = (publish_interval_ms - 1) * MsUnits
         /\ publish_interval_ms - 1 \in Nat \ {0}
<1>1. publish_interval_ms \in Nat \ {0, 1} /\ MsUnits \in Nat \ {0}
  BY DEF FramerAssumption
<1> QED  BY <1>1 DEF publish_interval_tolerance, publish_interval

\* A cloud is due at the first end of a packet in the last millisecond of an interval
\* when that has lasted long enough.
LEMMA DueIn ==
  ASSUME FramerAssumption, NEW base \in Nat, NEW e \in Nat, NEW m \in Nat,
         (m % publish_interval_ms) = 0, m # 0, m * MsUnits <= e, e < (m + 1) * MsUnits,
         e - base >= publish_interval_tolerance
  PROVE  Ms(e) = m /\ Due(base, e)
<1>1. Ms(e) \in Nat /\ \A q \in Nat : (e < q * MsUnits <=> Ms(e) < q)
  BY MsIs
<1>2. m + 1 \in Nat /\ m * MsUnits \in Nat
  BY Scaled DEF FramerAssumption
<1>3. ~(Ms(e) < m) /\ Ms(e) < m + 1
  BY <1>1, <1>2
<1>4. Ms(e) = m
  BY <1>1, <1>3
<1> QED  BY <1>4 DEF Due

\* The frame that the timer cuts: m packets that did not make it due, and one that did,
\* behind p.
LEMMA CutIsWhole ==
  ASSUME FramerAssumption, NEW u \in Seq(Collectable), NEW m \in Nat,
         Len(u) = (m + 1) * PacketPoints,
         \A k \in 1 .. m : ~Due(u[1].offset_time, u[k * PacketPoints].offset_time),
         Due(BaseTime(u), RecentTime(u)),
         NEW p \in Seq(Collectable), p # <<>> => Boundary(p[Len(p)].offset_time)
  PROVE  WholeFrame(u, p \o u)
<1> DEFINE d == PacketPoints
           I == publish_interval_ms
           U == MsUnits
           K == m + 1
           base == BaseTime(u)
           end == RecentTime(u)
           n == Len(p \o u) - Len(u)
           before == (p \o u)[n].offset_time
           T(i) == u[i].offset_time
<1>1. d \in Nat \ {0} /\ I \in Nat \ {0, 1} /\ U \in Nat \ {0} /\ K \in Nat \ {0}
  BY DEF FramerAssumption
<1>2. Len(u) \in Nat /\ Len(p) \in Nat /\ \A i \in 1 .. Len(u) : T(i) \in Nat
  <2>1. Len(u) \in Nat /\ Len(p) \in Nat /\ \A i \in 1 .. Len(u) : u[i] \in Collectable
    OBVIOUS
  <2> QED  BY <2>1, FieldTypes
<1>3. \A k \in 1 .. K : k * d \in 1 .. Len(u)
  <2> SUFFICES ASSUME NEW k \in 1 .. K  PROVE k * d \in 1 .. Len(u)
    OBVIOUS
  <2>1. k \in Nat /\ k <= K /\ 1 <= k /\ K \in Nat /\ d \in Nat
    BY <1>1
  <2>2. k * d <= K * d /\ 1 * d <= k * d /\ k * d \in Nat /\ K * d \in Nat
    BY <2>1, Scaled
  <2>3. 1 * d = d
    BY <1>1
  <2> QED  BY <1>1, <2>2, <2>3
<1>4. Len(u) \div d = K /\ Len(u) = K * d
  <2> DEFINE a == Len(u)
             r == 0
  <2>1. a = K * d + r /\ r \in 0 .. d - 1
    BY <1>1, <1>2
  <2> HIDE DEF a, r, K, d
  <2>2. d \in Nat \ {0} /\ K \in Nat
    BY <1>1
  <2>3. a \div d = K
    BY <2>1, <2>2, DivisionIs, Zenon
  <2>4. a = K * d
    <3>1. r = 0
      BY DEF r
    <3>2. K * d \in Nat
      BY <2>2, Scaled
    <3> QED  BY <2>1, <3>1, <3>2
  <2> QED  BY <2>3, <2>4 DEF a
<1>5. base = T(1) /\ end = T(K * d) /\ base \in Nat /\ end \in Nat
  <2>1. K * d \in 1 .. Len(u) /\ 1 \in 1 .. Len(u) /\ u # <<>>
    <3>1. K \in 1 .. K
      BY <1>1
    <3>2. K * d \in 1 .. Len(u)
      BY <1>3, <3>1
    <3> QED  BY <1>2, <3>2
  <2>2. base = T(1) /\ end = T(Len(u))
    BY <2>1 DEF BaseTime, RecentTime
  <2> HIDE DEF T
  <2> QED  BY <1>2, <1>4, <2>1, <2>2
<1>6. n = Len(p) /\ (n > 0 => before = p[n].offset_time /\ before \in Nat /\ Boundary(before))
  <2> DEFINE v == p \o u
  <2>1. Len(v) = Len(p) + Len(u) /\ \A i \in 1 .. Len(p) : v[i] = p[i]
    OBVIOUS
  <2>2. n = Len(p)
    <3>1. n = Len(v) - Len(u)
      OBVIOUS
    <3> HIDE DEF v, n
    <3> QED  BY <1>2, <2>1, <3>1
  <2> HIDE DEF v
  <2>3. ASSUME n > 0
        PROVE  before = p[n].offset_time /\ before \in Nat /\ Boundary(before)
    <3>1. n \in 1 .. Len(p) /\ p # <<>>
      BY <1>2, <2>2, <2>3
    <3>2. before = p[n].offset_time
      BY <2>1, <3>1 DEF v
    <3>3. p[n] \in Collectable
      BY <3>1
    <3> QED  BY <2>2, <3>1, <3>2, <3>3, FieldTypes
  <2> QED  BY <2>2, <2>3
<1>7. /\ (Ms(end) % I) = 0 /\ Ms(end) # 0
      /\ \/ end < base
         \/ end - base >= publish_interval_tolerance
  BY DEF Due
<1>8. \A k \in 1 .. m : ~Due(base, T(k * d))
  BY <1>5
<1>9. \A x \in Nat : Ms(x) \in Nat /\ \A q \in Nat : (x < q * U <=> Ms(x) < q)
  BY MsIs
<1>10. publish_interval_tolerance = (I - 1) * U /\ I - 1 \in Nat \ {0}
  BY ToleranceIs
<1>11. \A q \in Nat : q * U \in Nat /\ (q + 1) * U = q * U + U
  <2> SUFFICES ASSUME NEW q \in Nat  PROVE q * U \in Nat /\ (q + 1) * U = q * U + U
    OBVIOUS
  <2>1. q * U \in Nat
    BY <1>1, Scaled
  <2> QED  BY <1>1, <2>1
<1>12. \A a, b \in Nat : a <= b => a * U <= b * U
  BY <1>1, Scaled
<1>13. \A a \in Nat : (a + I) * U = (a + 1) * U + (I - 1) * U /\ a + I \in Nat /\ a + 1 \in Nat
  <2> SUFFICES ASSUME NEW a \in Nat
               PROVE  (a + I) * U = (a + 1) * U + (I - 1) * U /\ a + I \in Nat /\ a + 1 \in Nat
    OBVIOUS
  <2>1. a + 1 \in Nat /\ I - 1 \in Nat /\ a + I = (a + 1) + (I - 1)
    BY <1>1
  <2>2. \A x, y \in Nat : (x + y) * U = x * U + y * U
    BY <1>1
  <2> QED  BY <1>1, <2>1, <2>2
<1> HIDE DEF d, I, U, K, n, T, base, end, before
<1> SUFFICES ASSUME base <= end
             PROVE  /\ end - base >= publish_interval_tolerance
                    /\ Regular(u, base, U) => Ms(end) - Ms(base) < 2 * I
                    /\ (n > 0 /\ before <= base /\ Regular(u, before, U - (base - before)))
                         => Ms(end) = Ms(before) + I
  BY DEF WholeFrame, base, end, n, before, U, I
<1>14. end - base >= publish_interval_tolerance
  BY <1>5, <1>7
\* Where the ends of the packets, behind an earlier time, step over a millisecond.
<1>15. ASSUME NEW from \in Nat, NEW apart \in Int, Regular(u, from, apart), NEW x \in Nat,
              from < x, x <= end
       PROVE  \/ T(1 * d) >= x /\ T(1 * d) - from <= apart
              \/ \E k \in 1 .. m : T(k * d) < x /\ T((k + 1) * d) >= x
                                  /\ T((k + 1) * d) - T(k * d) <= apart
  <2> DEFINE e == [k \in 0 .. K |-> End(u, from, k)]
  <2>1. \A k \in 1 .. K : End(u, from, k) = T(k * d) /\ T(k * d) \in Nat
    BY <1>2, <1>3 DEF End, T, d
  <2>2. End(u, from, 0) = from
    BY DEF End
  <2>3. \A k \in 0 .. K : k = 0 \/ k \in 1 .. K
    BY <1>1
  <2>4. e \in [0 .. K -> Int] /\ \A k \in 0 .. K : e[k] = End(u, from, k)
    BY <2>1, <2>2, <2>3
  <2>5. \A k \in 1 .. K : End(u, from, k) - End(u, from, k - 1) <= apart
    <3>1. \A k \in 1 .. Len(u) \div PacketPoints : End(u, from, k) - End(u, from, k - 1) <= apart
      BY <1>15 DEF Regular
    <3>2. Len(u) \div PacketPoints = K
      BY <1>4 DEF d
    <3> QED  BY <3>1, <3>2
  <2> HIDE DEF e
  <2>6. 0 \in 0 .. K /\ K \in 0 .. K /\ K \in 1 .. K
    BY <1>1
  <2>7. e[0] < x /\ x <= e[K]
    BY <1>5, <1>15, <2>1, <2>2, <2>4, <2>6
  <2>8. PICK k \in 0 .. K - 1 : e[k] < x /\ x <= e[k + 1]
    <3>1. K \in Nat /\ x \in Int
      BY <1>1
    <3>2. e \in [0 .. K -> Int]
      BY <2>4
    <3> QED  BY <2>7, <3>1, <3>2, Crossing
  <2>9. k + 1 \in 1 .. K /\ k \in 0 .. K /\ k + 1 \in 0 .. K /\ (k + 1) - 1 = k
    BY <1>1, <2>8
  <2>10. e[k + 1] = T((k + 1) * d) /\ T((k + 1) * d) \in Nat
    BY <2>1, <2>4, <2>9
  <2>11. T((k + 1) * d) - e[k] <= apart
    BY <2>1, <2>4, <2>5, <2>9
  <2>12. CASE k = 0
    <3>1. k + 1 = 1 /\ e[k] = from
      BY <2>2, <2>4, <2>6, <2>12
    <3> QED  BY <2>8, <2>10, <2>11, <3>1
  <2>13. CASE k # 0
    <3>1. k \in 1 .. m /\ k \in 1 .. K
      BY <2>8, <2>13 DEF K
    <3>2. e[k] = T(k * d)
      BY <2>1, <2>4, <2>9, <3>1
    <3> QED  BY <2>8, <2>10, <2>11, <3>1, <3>2
  <2> QED  BY <2>12, <2>13
<1>16. \A k \in 1 .. K : T(k * d) \in Nat
  BY <1>2, <1>3
<1>17. \A k \in 1 .. m : k \in 1 .. K /\ k + 1 \in 1 .. K /\ (k + 1 \in 1 .. m \/ k + 1 = K)
  BY DEF K
<1>18. ASSUME Regular(u, base, U)  PROVE Ms(end) - Ms(base) < 2 * I
  <2> DEFINE b == Ms(base)
  <2>1. b \in Nat /\ Ms(end) \in Nat /\ base < (b + 1) * U
    BY <1>5, <1>9
  <2> HIDE DEF b
  <2> SUFFICES ASSUME ~(Ms(end) < b + 2 * I)  PROVE FALSE
    BY <1>1, <2>1 DEF b
  <2>2. PICK x \in Nat : (x % I) = 0 /\ b + I <= x /\ x < b + 2 * I
    BY <1>1, <2>1, MultipleBehind
  <2>3. x # 0 /\ x + 1 \in Nat /\ b + 1 <= x /\ b + 1 \in Nat /\ b + I \in Nat /\ x + 1 <= Ms(end)
    <3> DEFINE w == 2 * I
    <3>1. w \in Nat /\ ~(Ms(end) < b + w) /\ x < b + w
      BY <1>1, <2>2
    <3> HIDE DEF w
    <3> QED  BY <1>1, <2>1, <2>2, <3>1
  <2> DEFINE xU == x * U
             yU == (x + 1) * U
             tol == (I - 1) * U
             bU == (b + 1) * U
  <2>4. xU \in Nat /\ yU = xU + U /\ bU + tol <= xU /\ bU \in Nat /\ tol \in Nat
        /\ tol = publish_interval_tolerance /\ base < bU
    <3>1. xU \in Nat /\ yU = xU + U
      BY <1>11
    <3>2. (b + I) * U = bU + tol
      BY <1>13, <2>1
    <3>3. (b + I) * U <= xU
      BY <1>12, <2>2, <2>3
    <3>4. bU \in Nat
      BY <1>11, <2>3
    <3>5. tol \in Nat /\ tol = publish_interval_tolerance
      BY <1>10, <1>11
    <3> QED  BY <2>1, <3>1, <3>2, <3>3, <3>4, <3>5
  <2>5. yU <= end
    <3>1. ~(end < yU)
      BY <1>5, <1>9, <2>1, <2>3
    <3> HIDE DEF xU, yU, tol, bU
    <3> QED  BY <1>1, <1>5, <2>4, <3>1
  <2>6. base < xU /\ xU <= end
    <3> HIDE DEF xU, yU, tol, bU
    <3> QED  BY <1>1, <1>5, <2>4, <2>5
  <2>7. ASSUME NEW k \in 1 .. K, xU <= T(k * d), T(k * d) < yU  PROVE FALSE
    <3> DEFINE t == T(k * d)
    <3>1. t \in Nat /\ xU <= t /\ t < yU
      BY <1>16, <2>7
    <3> HIDE DEF t
    <3>2. t - base >= publish_interval_tolerance
      <4> HIDE DEF xU, yU, tol, bU
      <4> QED  BY <1>5, <2>4, <3>1
    <3>3. Ms(t) = x /\ Due(base, t)
      BY <1>5, <2>2, <2>3, <3>1, <3>2, DueIn DEF U, I
    <3>4. k # K
      BY <1>5, <2>3, <3>3 DEF t
    <3>5. k \in 1 .. m
      BY <3>4 DEF K
    <3> QED  BY <1>8, <3>3, <3>5 DEF t
  <2> HIDE DEF xU, yU, tol, bU
  <2>8. CASE T(1 * d) >= xU /\ T(1 * d) - base <= U
    <3> DEFINE t == T(1 * d)
    <3>1. 1 \in 1 .. K
      BY <1>1
    <3>2. t \in Nat /\ t >= xU /\ t - base <= U
      BY <1>16, <2>8, <3>1
    <3> HIDE DEF t
    <3>3. t < yU /\ xU <= t
      BY <1>1, <1>5, <2>4, <2>6, <3>2
    <3> QED  BY <2>7, <3>1, <3>3 DEF t
  <2>9. CASE \E k \in 1 .. m : T(k * d) < xU /\ T((k + 1) * d) >= xU
                              /\ T((k + 1) * d) - T(k * d) <= U
    <3>1. PICK k \in 1 .. m : T(k * d) < xU /\ T((k + 1) * d) >= xU
                              /\ T((k + 1) * d) - T(k * d) <= U
      BY <2>9
    <3> DEFINE t == T(k * d)
               v == T((k + 1) * d)
    <3>2. k + 1 \in 1 .. K /\ t \in Nat /\ v \in Nat /\ t < xU /\ v >= xU /\ v - t <= U
      BY <1>16, <1>17, <3>1
    <3> HIDE DEF t, v
    <3>3. v < yU /\ xU <= v
      BY <1>1, <2>4, <3>2
    <3> QED  BY <2>7, <3>2, <3>3 DEF v
  <2>10. base \in Nat /\ U \in Int /\ xU \in Nat
    BY <1>1, <1>5, <2>4
  <2>11. \/ T(1 * d) >= xU /\ T(1 * d) - base <= U
         \/ \E k \in 1 .. m : T(k * d) < xU /\ T((k + 1) * d) >= xU
                             /\ T((k + 1) * d) - T(k * d) <= U
    BY <1>15, <1>18, <2>6, <2>10
  <2> QED  BY <2>8, <2>9, <2>11
<1>19. ASSUME n > 0, before <= base, Regular(u, before, U - (base - before))
       PROVE  Ms(end) = Ms(before) + I
  <2> DEFINE a == Ms(before)
             w == Ms(end)
             x == (a + I) * U
             y == ((a + I) + 1) * U
             apart == U - (base - before)
             tol == (I - 1) * U
             aU == a * U
             bU == (a + 1) * U
  <2>1. before \in Nat /\ (a % I) = 0 /\ a \in Nat /\ w \in Nat
    BY <1>5, <1>6, <1>9, <1>19 DEF Boundary, I
  <2>2. before < bU /\ aU <= before /\ bU = aU + U /\ aU \in Nat
    <3>1. ~(before < aU) /\ before < bU
      <4>1. a < a + 1 /\ ~(a < a) /\ a + 1 \in Nat
        BY <2>1
      <4> QED  BY <1>9, <2>1, <4>1
    <3>2. bU = aU + U /\ aU \in Nat
      BY <1>11, <2>1
    <3> HIDE DEF aU, bU, a
    <3> QED  BY <1>1, <2>1, <3>1, <3>2
  <2>3. /\ x \in Nat /\ y = x + U /\ x = bU + tol /\ tol \in Nat
        /\ bU \in Nat /\ U <= tol
    <3>1. 1 * U = U /\ 1 <= I - 1 /\ I - 1 \in Nat
      BY <1>1
    <3>2. 1 * U <= (I - 1) * U
      BY <1>12, <3>1
    <3> QED  BY <1>11, <1>13, <2>1, <3>1, <3>2
  <2>4. (w % I) = 0 /\ w # 0 /\ base <= end /\ end - base >= tol /\ before <= base
        /\ tol = publish_interval_tolerance
    BY <1>7, <1>10, <1>14, <1>19
  <2> HIDE DEF a, w, x, y, tol, aU, bU
  <2>5. a < w
    <3> SUFFICES ASSUME ~(a < w)  PROVE FALSE
      OBVIOUS
    <3>1. w < a + 1 /\ a + 1 \in Nat
      BY <2>1
    <3>2. end < bU
      BY <1>5, <1>9, <3>1 DEF w, bU
    <3> QED  BY <1>1, <1>5, <2>1, <2>2, <2>3, <2>4, <3>2
  <2>6. a + I <= w /\ ((a + I) % I) = 0
    BY <1>1, <2>1, <2>4, <2>5, Multiples
  <2> SUFFICES ASSUME a + I < w  PROVE FALSE
    BY <1>1, <2>1, <2>6 DEF a, w
  <2>7. y <= end
    <3>1. (a + I) + 1 \in Nat /\ ~(w < (a + I) + 1)
      BY <1>1, <2>1
    <3>2. ~(end < y)
      BY <1>5, <1>9, <3>1 DEF w, y
    <3> QED  BY <1>1, <1>5, <2>3, <3>2
  <2>8. before < y /\ y \in Nat /\ apart \in Int
    BY <1>1, <1>5, <2>1, <2>2, <2>3
  <2>9. CASE T(1 * d) >= y /\ T(1 * d) - before <= apart
    <3>1. 1 \in 1 .. K
      BY <1>1
    <3>2. T(1 * d) \in Nat
      BY <1>16, <3>1
    <3> DEFINE t == T(1 * d)
    <3>3. t \in Nat /\ t >= y /\ t <= before + U
      <4>1. before \in Nat /\ base \in Nat /\ before <= base /\ U \in Nat
        BY <1>1, <1>5, <2>1, <2>4
      <4> QED  BY <2>9, <3>2, <4>1
    <3> HIDE DEF t
    <3> QED  BY <1>1, <2>1, <2>2, <2>3, <3>3
  <2>10. CASE \E k \in 1 .. m : T(k * d) < y /\ T((k + 1) * d) >= y
                              /\ T((k + 1) * d) - T(k * d) <= apart
    <3>1. PICK k \in 1 .. m : T(k * d) < y /\ T((k + 1) * d) >= y
                              /\ T((k + 1) * d) - T(k * d) <= apart
      BY <2>10
    <3> DEFINE t == T(k * d)
               v == T((k + 1) * d)
    <3>2. t \in Nat /\ v \in Nat /\ t < y /\ v >= y /\ v - t <= apart
      BY <1>16, <1>17, <3>1
    <3> HIDE DEF t, v
    <3>3. t >= x + (base - before)
      BY <1>1, <1>5, <2>1, <2>3, <3>2
    <3>4. x <= t /\ t - base >= tol
      <4>1. before \in Nat /\ base \in Nat /\ before <= base /\ before < bU
        BY <1>5, <2>1, <2>2, <2>4
      <4>2. x \in Nat /\ x = bU + tol /\ bU \in Nat /\ tol \in Nat /\ t \in Nat
        BY <2>3, <3>2
      <4> QED  BY <3>3, <4>1, <4>2
    <3>5. a + I \in Nat /\ a + I # 0
      BY <1>1, <2>1
    <3>6. Due(base, t)
      <4>1. t - base >= publish_interval_tolerance
        BY <2>4, <3>4
      <4> QED  BY <1>5, <2>6, <3>2, <3>4, <3>5, <4>1, DueIn DEF x, y, U, I
    <3> QED  BY <1>8, <3>6 DEF t
  <2> QED  BY <1>15, <1>19, <2>1, <2>7, <2>8, <2>9, <2>10
<1> QED  BY <1>14, <1>18, <1>19

LEMMA IntervalInit ==
  ASSUME FramerAssumption, FramerInit  PROVE IntervalInv
<1>1. raw_packet_queue = <<>> /\ frame = {}
      /\ \A h \in Handles : points_clouds[h] = <<>> /\ published[h] = <<>>
  BY DEF FramerInit
<1>2. Whole(<<>>) /\ Early(<<>>)
  BY EmptyIsEarly
<1> QED  BY <1>1, <1>2 DEF IntervalInv

LEMMA IntervalNext ==
  ASSUME FramerAssumption, FrameTypes, IntervalInv, [FramerNext]_framerVars
  PROVE  IntervalInv'
<1> DEFINE Q == raw_packet_queue
<1>0. Q \in Seq(Packet) /\ Len(Q) \in Nat /\ points_clouds \in [Handles -> Seq(Collectable)]
      /\ published \in [Handles -> Seq(Collectable)]
  BY DEF FrameTypes
<1> SUFFICES ASSUME FALSE \notin clocks'
             PROVE  /\ Q' # <<>> => is_timestamp_sync'
                    /\ \A h \in Handles :
                         /\ Whole(points_clouds'[h]) /\ Early(points_clouds'[h])
                         /\ published'[h] # <<>> =>
                              Boundary(published'[h][Len(published'[h])].offset_time)
                         /\ h \in frame' => WholeFrame(points'[h], published'[h])
  BY DEF IntervalInv
<1>1. /\ Q # <<>> => is_timestamp_sync
      /\ \A h \in Handles :
           /\ Whole(points_clouds[h]) /\ Early(points_clouds[h])
           /\ published[h] # <<>> => Boundary(published[h][Len(published[h])].offset_time)
           /\ h \in frame => WholeFrame(points[h], published[h])
  <2>1. clocks \subseteq clocks'
    BY RawSteps DEF FramerNext, framerVars, Tick, OnPointCloud, OnImu
  <2> QED  BY <2>1 DEF IntervalInv
<1>2. CASE UNCHANGED <<is_timestamp_sync, raw_packet_queue, points_clouds, points, frame, published>>
  BY <1>1, <1>2
<1>3. CASE Tick
  BY <1>2, <1>3 DEF Tick
<1>4. ASSUME NEW g \in Handles, NEW synced \in BOOLEAN, NEW stamp \in Stamps[g],
             NEW spacing \in Spacings, OnPointCloud(g, synced, stamp, spacing)
      PROVE  is_timestamp_sync' /\ UNCHANGED <<points_clouds, points, frame, published>>
  BY <1>4 DEF OnPointCloud
<1>5. ASSUME NEW synced \in BOOLEAN, OnImu(synced)
      PROVE  is_timestamp_sync'
             /\ UNCHANGED <<raw_packet_queue, points_clouds, points, frame, published>>
  BY <1>5 DEF OnImu
<1>6. CASE RawDataProcess
  <2> DEFINE pkt == Head(Q)
             g == pkt.handle
             c == points_clouds[g]
             u == c \o PointsOf(pkt)
  <2>1. Q # <<>> /\ Q' = Tail(Q) /\ is_timestamp_sync' = is_timestamp_sync
    BY <1>6, RawSteps
  <2>2. pkt \in Packet /\ g \in Handles
    BY <2>1, HeadIs
  <2>3. PICK due \in SUBSET Handles : CutOf(due)
    BY <1>6, RawSteps
  <2>4. is_timestamp_sync /\ is_timestamp_sync'
    BY <1>1, <2>1
  <2>5. /\ c \in Seq(Collectable) /\ Whole(c) /\ Early(c) /\ published[g] \in Seq(Collectable)
        /\ (published[g] # <<>> => Boundary(published[g][Len(published[g])].offset_time))
    BY <1>0, <1>1, <2>2
  <2>6. Collected(g) = u /\ \A h \in Handles : h # g => Collected(h) = points_clouds[h]
    BY DEF Collected
  <2>7. due = IF DueByLidar(u) THEN {g} ELSE {}
    BY <2>3, <2>4, <2>6 DEF CutOf
  <2> HIDE DEF g, pkt, c, Q
  <2>8. /\ u \in Seq(Collectable) /\ Len(u) = Len(c) + PacketPoints /\ u # <<>>
        /\ \A i \in 1 .. Len(c) : u[i] = c[i]
    BY <2>2, <2>5, CollectedIs
  <2>9. PICK m \in Nat : Len(c) = m * PacketPoints
    BY <2>5 DEF Whole
  <2>10. Len(u) = (m + 1) * PacketPoints /\ m + 1 \in Nat /\ PacketPoints \in Nat \ {0}
    <3>1. PacketPoints \in Nat \ {0}
      BY DEF FramerAssumption
    <3> QED  BY <2>8, <2>9, <3>1
  <2> HIDE DEF u
  <2>11. \A k \in 1 .. m : ~Due(u[1].offset_time, u[k * PacketPoints].offset_time)
    <3> SUFFICES ASSUME NEW k \in 1 .. m
                 PROVE  ~Due(u[1].offset_time, u[k * PacketPoints].offset_time)
      OBVIOUS
    <3>1. k \in Nat \ {0} /\ k <= m /\ 1 <= k /\ 1 \in Nat
      OBVIOUS
    <3>2. k * PacketPoints <= m * PacketPoints /\ 1 * PacketPoints <= k * PacketPoints
          /\ k * PacketPoints \in Nat /\ m * PacketPoints \in Nat
      BY <2>10, <3>1, Scaled
    <3>3. k * PacketPoints \in 1 .. Len(c) /\ 1 \in 1 .. Len(c)
      <4> DEFINE x == k * PacketPoints
                 y == m * PacketPoints
      <4>1. x \in Nat /\ y \in Nat /\ x <= y /\ PacketPoints <= x /\ Len(c) = y
        BY <2>9, <2>10, <3>2
      <4> HIDE DEF x, y
      <4>2. x \in 1 .. Len(c) /\ 1 \in 1 .. Len(c)
        BY <2>10, <4>1
      <4> QED  BY <4>2 DEF x
    <3>4. ~Due(c[1].offset_time, c[k * PacketPoints].offset_time)
      BY <2>5, <2>9, <3>1, <3>2 DEF Early
    <3> QED  BY <2>8, <3>3, <3>4
  <2>12. ASSUME NEW h \in Handles, h # g
         PROVE  /\ Whole(points_clouds'[h]) /\ Early(points_clouds'[h])
                /\ published'[h] # <<>> =>
                     Boundary(published'[h][Len(published'[h])].offset_time)
                /\ h \notin frame'
    <3>1. h \notin due
      BY <2>7, <2>12
    <3>2. points_clouds'[h] = points_clouds[h] /\ published'[h] = published[h] /\ h \notin frame'
      BY <2>3, <2>6, <2>12, <3>1 DEF CutOf
    <3> QED  BY <1>1, <3>2
  <2>13. CASE ~DueByLidar(u)
    <3>1. due = {}
      BY <2>7, <2>13
    <3>2. points_clouds'[g] = u /\ published'[g] = published[g] /\ g \notin frame'
      BY <2>2, <2>3, <2>6, <3>1 DEF CutOf
    <3>3. Whole(u)
      BY <2>10 DEF Whole
    <3>4. Early(u)
      <4> SUFFICES ASSUME NEW k \in Nat \ {0}, k * PacketPoints <= Len(u)
                   PROVE  ~Due(u[1].offset_time, u[k * PacketPoints].offset_time)
        BY DEF Early
      <4>1. CASE k <= m
        <5>1. k \in 1 .. m
          BY <4>1
        <5> QED  BY <2>11, <5>1
      <4>2. CASE k = m + 1
        <5>1. k * PacketPoints = Len(u)
          BY <2>10, <4>2
        <5> QED  BY <2>8, <2>13, <5>1 DEF DueByLidar, BaseTime, RecentTime
      <4>3. ~(m + 2 <= k)
        <5> SUFFICES ASSUME m + 2 <= k  PROVE FALSE
          OBVIOUS
        <5>1. (m + 2) * PacketPoints <= k * PacketPoints /\ k * PacketPoints \in Nat
          BY <2>10, Scaled
        <5>2. (m + 2) * PacketPoints = (m + 1) * PacketPoints + PacketPoints
              /\ (m + 1) * PacketPoints \in Nat
          <6>1. (m + 1) * PacketPoints \in Nat
            BY <2>10, Scaled
          <6> QED  BY <2>10, <6>1
        <5> QED  BY <2>10, <5>1, <5>2
      <4> QED  BY <4>1, <4>2, <4>3
    <3>5. /\ Whole(points_clouds'[g]) /\ Early(points_clouds'[g])
          /\ published'[g] # <<>> => Boundary(published'[g][Len(published'[g])].offset_time)
          /\ g \notin frame'
      BY <2>5, <3>2, <3>3, <3>4
    <3> QED  BY <2>4, <2>12, <3>5 DEF Q
  <2>14. CASE DueByLidar(u)
    <3>1. due = {g}
      BY <2>7, <2>14
    <3>2. points_clouds'[g] = <<>> /\ published'[g] = published[g] \o u /\ points'[g] = u
      BY <2>2, <2>3, <2>6, <3>1 DEF CutOf
    <3>3. WholeFrame(u, published[g] \o u)
      BY <2>5, <2>8, <2>10, <2>11, <2>14, CutIsWhole DEF DueByLidar
    <3>4. Boundary(published'[g][Len(published'[g])].offset_time)
      <4> DEFINE p == published[g]
                 v == p \o u
      <4>1. v[Len(v)] = u[Len(u)]
        <5>1. p \in Seq(Collectable) /\ Len(p) \in Nat /\ Len(u) \in Nat \ {0}
          BY <2>5, <2>8
        <5> HIDE DEF p
        <5>2. Len(v) = Len(p) + Len(u)
              /\ \A i \in 1 .. Len(p) + Len(u) : v[i] = IF i <= Len(p) THEN p[i] ELSE u[i - Len(p)]
          BY <2>8, <5>1, ConcatProperties
        <5> HIDE DEF v
        <5>3. Len(v) \in 1 .. Len(p) + Len(u) /\ ~(Len(v) <= Len(p)) /\ Len(v) - Len(p) = Len(u)
          BY <5>1, <5>2
        <5> QED  BY <5>2, <5>3
      <4>2. published'[g] = v
        BY <3>2
      <4> HIDE DEF v
      <4> QED  BY <2>8, <2>14, <4>1, <4>2 DEF DueByLidar, Due, RecentTime, Boundary
    <3>5. Whole(<<>>) /\ Early(<<>>)
      BY EmptyIsEarly
    <3>6. /\ Whole(points_clouds'[g]) /\ Early(points_clouds'[g])
          /\ WholeFrame(points'[g], published'[g])
      BY <3>2, <3>3, <3>5
    <3> QED  BY <2>4, <2>12, <3>4, <3>6 DEF Q
  <2> QED  BY <2>13, <2>14
<1>7. CASE UNCHANGED framerVars
  BY <1>2, <1>7 DEF framerVars
<1> QED  BY <1>1, <1>2, <1>3, <1>4, <1>5, <1>6, <1>7 DEF FramerNext

-----------------------------------------------------------------------------

FramerInv == FrameTypes /\ OnceInv /\ StampsInv /\ IntervalInv

\* Every point that comes is published once and in order, by whichever clock; the
\* timer of the host never runs ahead; a frame cut by the LiDARs' clock lasts an
\* interval but for the tolerance, and no interval is skipped or divided when the packets
\* come regularly; and the times of a message are those of its points: for any number of
\* LiDARs, any length of packets and frames, and any stamps and spacings on the wire.
THEOREM FramesTrueHolds ==
  ASSUME FramerAssumption, AviaAssumption
  PROVE  (FramerInit /\ [][FramerNext]_framerVars) => []FramesTrue
<1>1. FramerInit => FramerInv
  BY TypesInit, OnceInit, StampsInit, IntervalInit DEF FramerInv
<1>2. FramerInv /\ [FramerNext]_framerVars => FramerInv'
  BY TypesNext, OnceNext, StampsNext, IntervalNext DEF FramerInv
<1>3. FramerInv => FramesTrue
  <2> SUFFICES ASSUME FramerInv  PROVE FramesTrue
    OBVIOUS
  <2>1. PointsOnce
    BY OncePoints DEF FramerInv
  <2>2. HostPace
    BY DEF FramerInv, FrameTypes, HostPace
  <2>3. WholeIntervals
    BY IntervalWhole DEF FramerInv
  <2>4. TimesArrive
    BY StampsArrive DEF FramerInv
  <2> QED  BY <2>1, <2>2, <2>3, <2>4 DEF FramesTrue
<1> QED  BY <1>1, <1>2, <1>3, PTL
=============================================================================
