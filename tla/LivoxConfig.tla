---------------------------- MODULE LivoxConfig ----------------------------
(***************************************************************************)
(* The table of the LiDARs and their settings (lds_lidar.cpp,              *)
(* cache_index.cpp, livox_lidar_callback.cpp).  InitLdsLidar reads the     *)
(* file and gives every LiDAR in it an index; then the SDK reports what it *)
(* finds.  The settings of a LiDAR are sent to it when it is reported, each *)
(* by a request of its own that is answered some time later, in any order, *)
(* by a callback; data of the LiDAR is published once no bit of set_bits   *)
(* is left.                                                                *)
(*                                                                         *)
(* A handler holds config_mutex_ while it touches set_bits and is one      *)
(* action.  A request that times out is sent again by its callback and     *)
(* stays in flight: no step.  The work mode, the install attitude and the  *)
(* IMU switch are requests too, but nothing in this driver waits for them. *)
(***************************************************************************)
EXTENDS Integers, Sequences

CONSTANTS
  Network,      \* the LiDARs of the network, by address
  NoAddress,    \* no entry "ip"
  Lidars,       \* the indices of lidars_, kMaxSourceLidar of them
  Settings,     \* kConfigDataType, kConfigScanPattern, kConfigBlindSpot, ...
  ConfigFiles,  \* "lidar_configs": sequences of [ip, asked]
  MaxInFlight   \* requests of one setting the model lets be on their way

VARIABLES
  lidar_configs,  \* the file the driver is started with
  start,          \* how far InitLdsLidar is
  entry,          \* entries of the file InitLivoxLidar is through with
  map_index_,     \* [handles with an index -> their index]
  known,          \* index_cache_: the indices given out
  asked,          \* by index: the settings of livox_config that are not -1
  set_bits,       \* by index: settings sent and not yet confirmed
  connect_state,  \* by index: "Off" | "Sampling"
  in_flight,      \* number of requests on their way, by LiDAR and setting
  confirmed       \* history: settings the LiDAR has ever confirmed

tableVars   == <<map_index_, known, asked>>
requestVars == <<set_bits, connect_state, in_flight, confirmed>>
vars == <<lidar_configs, start, entry, tableVars, requestVars>>

\* The devices are zeroed memory, in which no setting is -1.
Init ==
  /\ lidar_configs \in ConfigFiles /\ start = "parse" /\ entry = 0
  /\ map_index_ = [h \in {} |-> 0] /\ known = {}
  /\ asked = [l \in Lidars |-> Settings]
  /\ set_bits = [l \in Lidars |-> {}]
  /\ connect_state = [l \in Lidars |-> "Off"]
  /\ in_flight = [h \in Network |-> [s \in Settings |-> 0]]
  /\ confirmed = [h \in Network |-> {}]

-----------------------------------------------------------------------------
(* cache_index.cpp *)

\* The index of h, its old one or the first that is free.
IsFreeIndex(h, i) ==
  IF h \in DOMAIN map_index_ THEN i = map_index_[h]
  ELSE i \notin known /\ \A j \in Lidars \ known : i <= j

\* Neither is there.
NoFreeIndex(h) == h \notin DOMAIN map_index_ /\ known = Lidars

GetFreeIndex(h, i) ==
  /\ IsFreeIndex(h, i)
  /\ known' = known \cup {i}
  /\ map_index_' = [k \in DOMAIN map_index_ \cup {h} |-> IF k = h THEN i ELSE map_index_[k]]

\* GetLidarDevice
GetIndex(h) == map_index_[h]

-----------------------------------------------------------------------------
(* InitLdsLidar *)

\* The file cannot be read or names another type of LiDAR, or the SDK does not start:
\* the node goes on without data.
ParseSummaryConfig ==
  /\ start = "parse" /\ start' \in {"fill", "failed"}
  /\ UNCHANGED <<lidar_configs, entry, tableVars, requestVars>>

\* ParseUserConfigs: an entry without an address is skipped; a setting an entry does
\* not name becomes -1 and is not asked for.
IsUserConfig(config) == config.ip # NoAddress

\* InitLivoxLidar skips an entry that finds the table full; a second entry of a LiDAR
\* replaces the first.
FillDevice ==
  /\ start = "fill" /\ entry < Len(lidar_configs) /\ entry' = entry + 1
  /\ LET config == lidar_configs[entry + 1]
     IN  \/ /\ IsUserConfig(config)
            /\ \E i \in Lidars : /\ GetFreeIndex(config.ip, i)
                                 /\ asked' = [asked EXCEPT ![i] = config.asked]
         \/ /\ ~IsUserConfig(config) \/ NoFreeIndex(config.ip)
            /\ UNCHANGED tableVars
  /\ UNCHANGED <<lidar_configs, start, requestVars>>

\* SetLivoxLidarInfoChangeCallback, SetLidarPubHandle, Start: from now on the SDK calls.
SetCallbacks ==
  /\ start = "fill" /\ entry = Len(lidar_configs) /\ start' = "done"
  /\ UNCHANGED <<lidar_configs, entry, tableVars, requestVars>>

InitLdsLidar == ParseSummaryConfig \/ FillDevice \/ SetCallbacks

-----------------------------------------------------------------------------
(* livox_lidar_callback.cpp *)

\* The settings a report of h sends.
ToSendNew(h) == asked[GetIndex(h)] \ set_bits[GetIndex(h)]  \* fault: not those once asked for
ToSend(h) == asked[GetIndex(h)]

\* set_bits is empty: the LiDAR is configured.
SampledAtOnce(h, bits) == "Sampling"  \* fault: sent is as good as confirmed
Sampled(h, bits) == IF bits = {} THEN "Sampling" ELSE connect_state[GetIndex(h)]

SetBits(h, bits) ==
  /\ set_bits' = [set_bits EXCEPT ![GetIndex(h)] = bits]
  /\ connect_state' = [connect_state EXCEPT ![GetIndex(h)] = Sampled(h, bits)]

\* LidarInfoChangeCallback: the first report of a LiDAR that is not in the table only
\* gives it an index, if there is one; every other one sends the settings, confirmed
\* or not.
InfoChange(h) ==
  /\ start = "done"
  /\ \/ /\ h \notin DOMAIN map_index_
        /\ \E i \in Lidars : GetFreeIndex(h, i)
        /\ UNCHANGED <<asked, requestVars>>
     \/ /\ h \in DOMAIN map_index_
        /\ \A s \in ToSend(h) : in_flight[h][s] < MaxInFlight
        /\ SetBits(h, set_bits[GetIndex(h)] \cup ToSend(h))
        /\ in_flight' = [in_flight EXCEPT ![h] =
                           [s \in Settings |-> IF s \in ToSend(h) THEN @[s] + 1 ELSE @[s]]]
        /\ UNCHANGED <<tableVars, confirmed>>
  /\ UNCHANGED <<lidar_configs, start, entry>>

\* set_bits after setting s was confirmed.
Cleared(bits, s) == bits \ {s}

Answer(h, s) ==
  /\ in_flight[h][s] > 0
  /\ in_flight' = [in_flight EXCEPT ![h][s] = @ - 1]
  /\ UNCHANGED <<lidar_configs, start, entry, tableVars>>

\* SetDataTypeCallback, SetPatternModeCallback, ... with status success.
Succeed(h, s) ==
  /\ Answer(h, s)
  /\ SetBits(h, Cleared(set_bits[GetIndex(h)], s))
  /\ confirmed' = [confirmed EXCEPT ![h] = @ \cup {s}]

\* The same with any other error: a line of output, and nobody asks again.
Fail(h, s) ==
  /\ Answer(h, s)
  /\ UNCHANGED <<set_bits, connect_state, confirmed>>

Callback ==
  \E h \in Network :
    \/ InfoChange(h)
    \/ \E s \in Settings : Succeed(h, s) \/ Fail(h, s)

-----------------------------------------------------------------------------
\* The configuration's part of the driver's type invariant.
TypeOK ==
  /\ lidar_configs \in ConfigFiles
  /\ start \in {"parse", "fill", "done", "failed"} /\ entry \in 0 .. Len(lidar_configs)
  /\ DOMAIN map_index_ \subseteq Network
  /\ map_index_ \in [DOMAIN map_index_ -> Lidars]
  /\ known \subseteq Lidars
  /\ asked \in [Lidars -> SUBSET Settings]
  /\ set_bits \in [Lidars -> SUBSET Settings]
  /\ connect_state \in [Lidars -> {"Off", "Sampling"}]
  /\ in_flight \in [Network -> [Settings -> 0 .. MaxInFlight]]
  /\ confirmed \in [Network -> SUBSET Settings]

\* No data is published of a LiDAR that has not confirmed every setting asked for,
\* whatever the order of answers, errors and repeated reports; the answers of one
\* LiDAR never let through the data of another.
SamplingIsConfigured ==
  \A i \in Lidars :
    connect_state[i] = "Sampling" =>
      \E h \in DOMAIN map_index_ : map_index_[h] = i /\ asked[i] \subseteq confirmed[h]
=============================================================================
