---------------------------- MODULE SessionProofs ---------------------------
(****************************************************************************)
(* A scan and what the operator is told of it: ScanSession for any number of*)
(* scans, of start requests and of stop requests at a time, SensorStatus    *)
(* for any sensors, time-outs and bounds.                                   *)
(****************************************************************************)
EXTENDS ScanSession, SensorStatus, FiniteSetTheorems, TLAPS

-----------------------------------------------------------------------------
(* The inductive invariant. *)

\* What holds whatever the controllers do: scans start in order, and a mapper only
\* after its script got to the launch.
Basics ==
  /\ TypeOK
  /\ controller = "remote" => Orderly
  /\ \A m, n \in Scans : m < n /\ n \in Started => m \in Started
  /\ \A n \in Scans : script[n] \in {"none", "setup", "ready"} => mapper[n] = "none"

\* One request at a time,
OneStart == starting \in {0, 1} /\ (starting = 1 => status = "idle")
OneStop ==
  /\ \A j, k \in Stops : stopper[j] # "none" /\ stopper[k] # "none" => j = k
  /\ \A k \in Stops :
       /\ stopper[k] = "found" => status = "recording"
       /\ AtWork(k) => status = "stopping"
       /\ stopper[k] \in {"wait", "last wait"} => waits[k] = scan_proc
       /\ stopper[k] \in {"drop", "mark"} => Alive = {}
\* and no script but the one in hand, which is the last.
LastScript ==
  /\ \A n \in Alive : n = scan_proc /\ \A m \in Started : m <= n
  /\ status = "idle" => Alive = {}
Alone == OneStart /\ OneStop /\ LastScript

\* No two mappers but by a clean slate that did not happen; a script that had its own
\* has no mapper beside it, and the saved map of its own is the file as long as it has
\* not archived it.
OneMapper ==
  /\ \A m, n \in Mapping : m < n => n \in skipped
  /\ \A n \in Scans \ skipped :
       /\ script[n] = "ready" => Mapping = {}
       /\ script[n] \in {"launch", "post"} =>
            /\ Mapping \subseteq {n}
            /\ mapper[n] = "saved" => pcd = [scan |-> n, whole |-> TRUE]

SInv == Basics /\ (Orderly => Alone /\ OneMapper)

LEMMA SessionInitOK == Init => SInv
<1> SUFFICES ASSUME Init  PROVE SInv
  OBVIOUS
<1> USE DEF Init, NoFile, Started, Alive, Mapping
<1>1. overlapped \in BOOLEAN /\ raced \in BOOLEAN /\ gave_up \in BOOLEAN
  OBVIOUS
<1>2. TypeOK
  BY <1>1, SessionAssumption DEF TypeOK, Scans, Stops
<1>3. Basics
  BY <1>2 DEF Basics, Orderly
<1>4. Alone /\ OneMapper
  BY DEF Alone, OneStart, OneStop, LastScript, OneMapper, AtWork
<1> QED  BY <1>3, <1>4 DEF SInv

-----------------------------------------------------------------------------
(* Every step keeps it. *)

\* A step that launches no mapper, takes no script to the launch, and leaves or
\* completes the file of a saved map keeps OneMapper; a script that skips its clean
\* slate is not looked at.
LEMMA OneMapperKept ==
  ASSUME OneMapper, Mapping' \subseteq Mapping, skipped \subseteq skipped',
         \A n \in Scans \ skipped' :
           /\ script'[n] = "ready" => script[n] = "ready"
           /\ script'[n] \in {"launch", "post"} =>
                /\ script[n] \in {"launch", "post"}
                /\ mapper'[n] = "saved" =>
                     \/ mapper[n] = "saved" /\ pcd' = pcd
                     \/ pcd' = [scan |-> n, whole |-> TRUE]
  PROVE  OneMapper'
<1>1. \A m, n \in Mapping' : m < n => n \in skipped'
  BY DEF OneMapper
<1>2. ASSUME NEW n \in Scans \ skipped'
      PROVE  /\ script'[n] = "ready" => Mapping' = {}
             /\ script'[n] \in {"launch", "post"} =>
                  /\ Mapping' \subseteq {n}
                  /\ mapper'[n] = "saved" => pcd' = [scan |-> n, whole |-> TRUE]
  BY <1>2 DEF OneMapper
<1> QED  BY <1>1, <1>2 DEF OneMapper

\* A step that moves no script and no mapper and leaves the file keeps OneMapper.
LEMMA OneMapperUnmoved ==
  ASSUME OneMapper, UNCHANGED scanState  PROVE OneMapper'
BY DEF OneMapper, Mapping, scanState

\* pkill -9 leaves no mapper, pkill -2 no other one.
LEMMA Kills ==
  ASSUME TypeOK
  PROVE  /\ CleanSlate \in [Scans -> {"none", "saved", "gone"}]
         /\ \A n \in Scans : mapper[n] = "none" => CleanSlate[n] = "none"
         /\ Interrupted \in
              [Scans -> {"none", "running", "asked", "writing", "saved", "gone"}]
         /\ \A n \in Scans :
              /\ mapper[n] = "none" => Interrupted[n] = "none"
              /\ Interrupted[n] = "saved" <=> mapper[n] = "saved"
              /\ Interrupted[n] \in {"running", "asked", "writing"} => n \in Mapping
BY DEF TypeOK, CleanSlate, Interrupted, Mapping

\* A step of a script that is alive leaves the scans in order and the controllers
\* alone.
LEMMA AloneKept ==
  ASSUME Alone, UNCHANGED <<status, scan_proc, starting, stopper, waits>>,
         Started' = Started, Alive' \subseteq Alive
  PROVE  Alone'
BY DEF Alone, OneStart, OneStop, LastScript, AtWork

\* The script.
LEMMA SetUpKeeps == ASSUME SInv, NEW n \in Scans, SetUp(n)  PROVE SInv'
<1>1. /\ script[n] = "setup" /\ script' = [script EXCEPT ![n] = script'[n]]
      /\ script'[n] \in {"ready", "done"}
      /\ \/ mapper' = CleanSlate /\ skipped' = skipped
         \/ script'[n] = "ready" /\ mapper' = mapper /\ skipped' = skipped \cup {n}
         \/ script'[n] = "done" /\ mapper' = mapper /\ skipped' = skipped
      /\ UNCHANGED <<controller, ctlVars, pcd, archive>>
  BY DEF SetUp, Goes, SInv, Basics, TypeOK
<1>2. UNCHANGED <<status, scan_proc, starting, stopper, waits, overlapped, raced, gave_up>>
  BY <1>1 DEF ctlVars
<1>3. /\ mapper' \in [Scans -> {"none", "running", "asked", "writing", "saved", "gone"}]
      /\ \A m \in Scans : mapper[m] = "none" => mapper'[m] = "none"
  <2>1. TypeOK
    BY DEF SInv, Basics
  <2>2. CASE mapper' = CleanSlate
    BY <2>1, <2>2, Kills
  <2>3. CASE mapper' = mapper
    BY <2>1, <2>3 DEF TypeOK
  <2> QED  BY <1>1, <2>2, <2>3
<1>4. \A m \in Scans : m # n => script'[m] = script[m]
  BY <1>1 DEF SInv, Basics, TypeOK
<1>5. Started' = Started /\ Alive' \subseteq Alive
  BY <1>1, <1>4 DEF Started, Alive
<1>6. TypeOK'
  <2>1. skipped' \subseteq Scans
    <3>1. skipped \subseteq Scans
      BY DEF SInv, Basics, TypeOK
    <3>2. skipped' = skipped \/ skipped' = skipped \cup {n}
      BY <1>1
    <3> QED  BY <3>1, <3>2
  <2>2. script' \in [Scans -> {"none", "setup", "ready", "launch", "post", "done"}]
    BY <1>1 DEF SInv, Basics, TypeOK
  <2> QED  BY <1>1, <1>2, <1>3, <1>5, <2>1, <2>2 DEF SInv, Basics, TypeOK
<1>7. Basics'
  BY <1>1, <1>2, <1>3, <1>4, <1>5, <1>6, ZenonT(40) DEF SInv, Basics, Orderly
<1>8. ASSUME Orderly'  PROVE Alone' /\ OneMapper'
  <2>1. Alone /\ OneMapper
    BY <1>2, <1>8 DEF SInv, Orderly
  <2>2. Alone'
    BY <1>2, <1>5, <2>1, AloneKept
  <2>3. CASE mapper' = CleanSlate
    <3>1. Mapping' = {}
      BY <2>3, Kills DEF SInv, Basics, Mapping
    <3>2. \A m \in Scans : script'[m] \in {"launch", "post"} => FALSE
      <4>1. n \in Alive /\ \A m \in Scans : m # n => m \notin Alive
        BY <1>1, <2>1 DEF Alone, OneStart, OneStop, LastScript, Alive, Started
      <4> QED  BY <1>1, <1>4, <4>1 DEF Alive, Started
    <3> QED  BY <2>2, <3>1, <3>2 DEF OneMapper
  <2>4. CASE mapper' = mapper /\ (script'[n] = "done" \/ skipped' = skipped \cup {n})
    <3>1. Mapping' \subseteq Mapping /\ skipped \subseteq skipped'
      BY <1>1, <2>4 DEF Mapping
    <3>2. \A m \in Scans \ skipped' : m # n \/ script'[n] = "done"
      BY <2>4
    <3>3. OneMapper'
      BY <1>1, <1>4, <2>1, <2>4, <3>1, <3>2, OneMapperKept
    <3> QED  BY <2>2, <3>3
  <2> QED  BY <1>1, <2>3, <2>4
<1> QED  BY <1>7, <1>8 DEF SInv

LEMMA LaunchKeeps == ASSUME SInv, NEW n \in Scans, Launch(n)  PROVE SInv'
<1>1. /\ script[n] = "ready" /\ script' = [script EXCEPT ![n] = "launch"]
      /\ mapper' = [mapper EXCEPT ![n] = "running"]
      /\ UNCHANGED <<controller, ctlVars, pcd, archive, skipped>>
  BY DEF Launch, Goes
<1>2. UNCHANGED <<status, scan_proc, starting, stopper, waits, overlapped, raced, gave_up>>
  BY <1>1 DEF ctlVars
<1>3. /\ script'[n] = "launch" /\ mapper'[n] = "running"
      /\ \A m \in Scans : m # n => script'[m] = script[m] /\ mapper'[m] = mapper[m]
  BY <1>1 DEF SInv, Basics, TypeOK
<1>4. Started' = Started /\ Alive' = Alive
  BY <1>1, <1>3 DEF Started, Alive
<1>5. TypeOK'
  BY <1>1, <1>2, <1>4 DEF SInv, Basics, TypeOK
<1>6. Basics'
  BY <1>1, <1>2, <1>3, <1>4, <1>5 DEF SInv, Basics, Orderly
<1>7. ASSUME Orderly'  PROVE Alone' /\ OneMapper'
  <2>1. Alone /\ OneMapper
    BY <1>2, <1>7 DEF SInv, Orderly
  <2>2. Alone'
    BY <1>2, <1>4, <2>1, AloneKept
  <2>3. Mapping' = Mapping \cup {n}
    BY <1>3 DEF Mapping
  <2>4. n \in Alive /\ \A m \in Started : m <= n
    BY <1>1, <2>1 DEF Alone, OneStart, OneStop, LastScript, Alive, Started
  <2>5. \A m \in Scans : script'[m] \in {"ready", "launch", "post"} => m = n
    <3>1. \A m \in Scans : m # n => m \notin Alive
      BY <2>1, <2>4 DEF Alone, OneStart, OneStop, LastScript
    <3> QED  BY <1>3, <3>1 DEF Alive, Started
  <2>6. Mapping \subseteq Started
    BY DEF SInv, Basics, Mapping, Started
  <2>7. n \notin skipped => Mapping = {}
    BY <1>1, <2>1 DEF OneMapper
  <2>8. ASSUME NEW m \in Mapping', NEW o \in Mapping', m < o  PROVE o \in skipped'
    <3>1. CASE m \in Mapping /\ o \in Mapping
      BY <1>1, <2>1, <2>8, <3>1 DEF OneMapper
    <3>2. CASE o = n /\ m \in Mapping
      BY <1>1, <2>7, <3>2
    <3>3. CASE m = n
      <4>1. o <= n /\ o \in Int /\ n \in Int
        BY <2>3, <2>4, <2>6 DEF Started, Scans
      <4> QED  BY <2>8, <3>3, <4>1
    <3> QED  BY <2>3, <3>1, <3>2, <3>3
  <2>9. OneMapper'
    BY <1>1, <1>3, <2>3, <2>5, <2>7, <2>8 DEF OneMapper
  <2> QED  BY <2>2, <2>9
<1> QED  BY <1>6, <1>7 DEF SInv

LEMMA ScriptEndKeeps ==
  ASSUME SInv, NEW n \in Scans, LaunchReturns(n) \/ Archive(n)  PROVE SInv'
<1>1. PICK from, to \in {"launch", "post", "done"} :
        /\ from # "done" /\ to \in {"post", "done"}
        /\ script[n] = from /\ script' = [script EXCEPT ![n] = to]
  BY DEF LaunchReturns, Archive, Goes
<1>2. UNCHANGED <<controller, status, scan_proc, starting, stopper, waits, overlapped, raced,
                  gave_up, mapper, pcd, skipped>>
  BY DEF LaunchReturns, Archive, ctlVars
<1>3. archive' = archive \/ archive' = [archive EXCEPT ![n] = pcd]
  BY DEF LaunchReturns, Archive
<1>4. /\ script'[n] = to
      /\ \A m \in Scans : m # n => script'[m] = script[m]
  BY <1>1 DEF SInv, Basics, TypeOK
<1>5. Started' = Started /\ Alive' \subseteq Alive
  BY <1>1, <1>4 DEF Started, Alive
<1>6. TypeOK'
  <2>1. archive' \in [Scans -> [scan : 0 .. MaxScans, whole : BOOLEAN]]
    BY <1>3 DEF SInv, Basics, TypeOK
  <2> QED  BY <1>1, <1>2, <1>5, <2>1 DEF SInv, Basics, TypeOK
<1>7. Basics'
  BY <1>1, <1>2, <1>4, <1>5, <1>6 DEF SInv, Basics, Orderly
<1>8. ASSUME Orderly'  PROVE Alone' /\ OneMapper'
  <2>1. Alone /\ OneMapper
    BY <1>2, <1>8 DEF SInv, Orderly
  <2>2. Alone'
    BY <1>2, <1>5, <2>1, AloneKept
  <2>3. OneMapper'
    BY <1>1, <1>2, <1>4, <2>1, OneMapperKept DEF Mapping
  <2> QED  BY <2>2, <2>3
<1> QED  BY <1>7, <1>8 DEF SInv


\* The mapper.
LEMMA MapperStopsKeeps == ASSUME SInv, NEW n \in Scans, MapperStops(n)  PROVE SInv'
<1>1. /\ mapper[n] \in {"asked", "writing"} /\ mapper'[n] \in {"writing", "saved", "gone"}
      /\ mapper' = [mapper EXCEPT ![n] = mapper'[n]]
      /\ mapper'[n] = "saved" => pcd' = [scan |-> n, whole |-> TRUE]
      /\ \/ pcd' = pcd
         \/ pcd' = [scan |-> n, whole |-> TRUE] \/ pcd' = [scan |-> n, whole |-> FALSE]
      /\ UNCHANGED <<controller, ctlVars, script, archive, skipped>>
  BY DEF MapperStops, SInv, Basics, TypeOK
<1>2. UNCHANGED <<status, scan_proc, starting, stopper, waits, overlapped, raced, gave_up>>
  BY <1>1 DEF ctlVars
<1>3. \A m \in Scans : m # n => mapper'[m] = mapper[m]
  BY <1>1 DEF SInv, Basics, TypeOK
<1>4. n \in Mapping /\ n \in Started
  BY <1>1 DEF SInv, Basics, Mapping, Started
<1>5. Started' = Started /\ Alive' = Alive /\ Mapping' \subseteq Mapping
  BY <1>1, <1>3, <1>4 DEF Started, Alive, Mapping
<1>6. pcd' \in [scan : 0 .. MaxScans, whole : BOOLEAN]
  <2>1. n \in 0 .. MaxScans
    BY SessionAssumption DEF Scans
  <2>2. CASE pcd' = pcd
    BY <2>2 DEF SInv, Basics, TypeOK
  <2>3. ASSUME NEW w \in BOOLEAN, pcd' = [scan |-> n, whole |-> w]
        PROVE  pcd' \in [scan : 0 .. MaxScans, whole : BOOLEAN]
    BY <2>1, <2>3
  <2> QED  BY <1>1, <2>2, <2>3
<1>7. TypeOK'
  <2>1. mapper' \in [Scans -> {"none", "running", "asked", "writing", "saved", "gone"}]
    BY <1>1 DEF SInv, Basics, TypeOK
  <2> QED  BY <1>1, <1>2, <1>5, <1>6, <2>1 DEF SInv, Basics, TypeOK
<1>8. Basics'
  BY <1>1, <1>2, <1>3, <1>4, <1>5, <1>7 DEF SInv, Basics, Orderly
<1>9. ASSUME Orderly'  PROVE Alone' /\ OneMapper'
  <2>1. Alone /\ OneMapper
    BY <1>2, <1>9 DEF SInv, Orderly
  <2>2. Alone'
    BY <1>2, <1>5, <2>1, AloneKept
  <2>3. \A m \in Scans \ skipped :
          script'[m] \in {"launch", "post"} /\ mapper'[m] = "saved"
            => pcd' = [scan |-> m, whole |-> TRUE]
    <3> SUFFICES ASSUME NEW m \in Scans \ skipped, script'[m] \in {"launch", "post"},
                        mapper'[m] = "saved"
                 PROVE  pcd' = [scan |-> m, whole |-> TRUE]
      OBVIOUS
    <3>1. n = m
      BY <1>1, <1>4, <2>1 DEF OneMapper
    <3> QED  BY <1>1, <3>1
  <2>4. OneMapper'
    BY <1>1, <1>5, <2>1, <2>3, OneMapperKept
  <2> QED  BY <2>2, <2>4
<1> QED  BY <1>8, <1>9 DEF SInv

\* No script gets further than the launch, but from there; no mapper comes up.
ScriptsGoOn ==
  /\ script' \in [Scans -> {"none", "setup", "ready", "launch", "post", "done"}]
  /\ \A n \in Scans :
       /\ script'[n] = "none" <=> script[n] = "none"
       /\ script[n] = "done" => script'[n] = "done"
       /\ script'[n] \in {"none", "setup", "ready", "launch"} => script[n] = script'[n]
       /\ script'[n] = "post" => script[n] \in {"launch", "post"}
MappersStop ==
  /\ mapper' \in [Scans -> {"none", "running", "asked", "writing", "saved", "gone"}]
  /\ \A n \in Scans :
       /\ mapper[n] = "none" => mapper'[n] = "none"
       /\ mapper'[n] = "saved" => mapper[n] = "saved"
       /\ mapper'[n] \in {"running", "asked", "writing"} => n \in Mapping

\* The threads of the stop requests go on, and wait for scripts that were started.
StopsGoOn ==
  /\ stopper' \in [Stops -> {"none", "found", "nodes", "interrupt", "wait", "last wait",
                             "drop", "mark"}]
  /\ waits' \in [Stops -> 0 .. MaxScans]
  /\ \A k \in Stops :
       /\ stopper[k] = "none" <=> stopper'[k] = "none"
       /\ stopper[k] = "found" <=> stopper'[k] = "found"
       /\ stopper'[k] \in {"wait", "last wait"} =>
            \/ stopper[k] \in {"wait", "last wait"} /\ waits'[k] = waits[k]
            \/ waits'[k] \in Started /\ waits'[k] = scan_proc
       /\ stopper'[k] \in {"drop", "mark"} =>
            stopper[k] \in {"drop", "mark"} \/ scan_proc = 0

LEMMA InterruptKeeps ==
  ASSUME SInv, UNCHANGED <<controller, status, scan_proc, starting, overlapped, raced,
                           gave_up, pcd, archive, skipped>>,
         ScriptsGoOn, MappersStop, StopsGoOn
  PROVE  SInv'
<1>1. Started' = Started /\ Alive' \subseteq Alive /\ Mapping' \subseteq Mapping
  BY DEF ScriptsGoOn, MappersStop, Started, Alive, Mapping
<1>2. TypeOK'
  <2>1. \A k \in Stops : stopper'[k] \in {"wait", "last wait"} => waits'[k] \in Started'
    BY <1>1 DEF StopsGoOn, SInv, Basics, TypeOK
  <2> QED  BY <1>1, <2>1 DEF StopsGoOn, ScriptsGoOn, MappersStop, SInv, Basics, TypeOK
<1>3. Basics'
  BY <1>1, <1>2 DEF ScriptsGoOn, MappersStop, SInv, Basics, Orderly
<1>4. ASSUME Orderly'  PROVE Alone' /\ OneMapper'
  <2>1. Alone /\ OneMapper
    BY <1>4 DEF SInv, Orderly
  <2>2. scan_proc = 0 => Alive = {}
    <3>1. 0 \notin Scans /\ Alive \subseteq Scans /\ Alive \subseteq {scan_proc}
      BY <2>1 DEF Alone, LastScript, Alive, Started, Scans
    <3> QED  BY <3>1
  <2>3. ASSUME NEW k \in Stops
        PROVE  /\ stopper'[k] = "found" => status' = "recording"
               /\ AtWork(k)' => status' = "stopping"
               /\ stopper'[k] \in {"wait", "last wait"} => waits'[k] = scan_proc'
               /\ stopper'[k] \in {"drop", "mark"} => Alive' = {}
    BY <1>1, <2>1, <2>2 DEF StopsGoOn, Alone, OneStart, OneStop, LastScript, AtWork
  <2>4. Alone'
    BY <1>1, <2>1, <2>3 DEF StopsGoOn, Alone, OneStart, OneStop, LastScript
  <2>5. OneMapper'
    BY <1>1, <2>1, OneMapperKept DEF ScriptsGoOn, MappersStop
  <2> QED  BY <2>4, <2>5
<1> QED  BY <1>3, <1>4 DEF SInv

\* pkill -2, or nothing.
LEMMA AskedToStop ==
  ASSUME TypeOK, mapper' \in {mapper, Interrupted}  PROVE MappersStop
<1>1. CASE mapper' = Interrupted
  BY <1>1, Kills DEF MappersStop
<1>2. CASE mapper' = mapper
  BY <1>2 DEF TypeOK, Mapping, MappersStop
<1> QED  BY <1>1, <1>2

LEMMA ScriptsStay == ASSUME TypeOK, script' = script  PROVE ScriptsGoOn
BY DEF TypeOK, ScriptsGoOn

LEMMA StopsStay == ASSUME TypeOK, UNCHANGED <<stopper, waits>>  PROVE StopsGoOn
BY DEF TypeOK, StopsGoOn

LEMMA EmergencyKeeps == ASSUME SInv, NEW n \in Scans, EmergencyStop(n)  PROVE SInv'
<1>1. /\ UNCHANGED <<controller, ctlVars, script, pcd, archive, skipped>>
      /\ mapper' = Interrupted
  BY DEF EmergencyStop
<1>2. TypeOK
  BY DEF SInv, Basics
<1> QED  BY <1>1, <1>2, AskedToStop, ScriptsStay, StopsStay, InterruptKeeps DEF ctlVars

LEMMA StopNodesKeeps == ASSUME SInv, NEW k \in Stops, StopNodes(k)  PROVE SInv'
<1>1. /\ UNCHANGED <<controller, status, scan_proc, starting, waits, overlapped, raced,
                     gave_up, script, pcd, archive, skipped>>
      /\ mapper' \in {mapper, Interrupted}
      /\ stopper[k] = "nodes" /\ stopper' = [stopper EXCEPT ![k] = "interrupt"]
  BY DEF StopNodes, At
<1>2. TypeOK
  BY DEF SInv, Basics
<1>3. StopsGoOn
  BY <1>1, <1>2 DEF TypeOK, StopsGoOn
<1> QED  BY <1>1, <1>2, <1>3, AskedToStop, ScriptsStay, InterruptKeeps

LEMMA StopScriptKeeps == ASSUME SInv, NEW k \in Stops, StopScript(k)  PROVE SInv'
<1>1. UNCHANGED <<controller, status, scan_proc, starting, overlapped, raced, gave_up, pcd,
                  archive, skipped>>
  BY DEF StopScript
<1>2. TypeOK
  BY DEF SInv, Basics
<1>3. CASE scan_proc = 0
  <2>1. /\ UNCHANGED <<script, mapper, waits>> /\ stopper[k] \in {"interrupt", "wait"}
        /\ \E to \in {"mark", "drop"} : stopper' = [stopper EXCEPT ![k] = to]
    BY <1>3 DEF StopScript, At
  <2>2. StopsGoOn
    BY <1>2, <1>3, <2>1 DEF TypeOK, StopsGoOn
  <2> QED  BY <1>1, <1>2, <2>1, <2>2, AskedToStop, ScriptsStay, InterruptKeeps
<1>4. CASE scan_proc # 0
  <2>1. /\ Signal(scan_proc) /\ waits' = [waits EXCEPT ![k] = scan_proc]
        /\ stopper[k] \in {"interrupt", "wait"}
        /\ \E to \in {"wait", "last wait"} : stopper' = [stopper EXCEPT ![k] = to]
    BY <1>4 DEF StopScript, At
  <2>2. scan_proc \in Started /\ scan_proc \in Scans /\ scan_proc \in 0 .. MaxScans
    <3>1. scan_proc \in Started
      BY <1>2, <1>4 DEF TypeOK
    <3>2. scan_proc \in 1 .. MaxScans
      BY <3>1 DEF Started, Scans
    <3> QED  BY <3>1, <3>2, SessionAssumption DEF Scans
  <2>3. StopsGoOn
    BY <1>2, <2>1, <2>2 DEF TypeOK, StopsGoOn
  <2>4. MappersStop
    BY <1>2, <2>1, AskedToStop DEF Signal
  <2>5. ScriptsGoOn
    <3>1. PICK at \in AfterSignal(scan_proc) : script' = [script EXCEPT ![scan_proc] = at]
      BY <2>1 DEF Signal
    <3>2. script[scan_proc] # "none"
      BY <2>2 DEF Started
    <3>3. at = "done" \/ (at = "post" /\ script[scan_proc] \in {"launch", "post"})
            \/ (at = script[scan_proc] /\ at \notin {"done", "launch"})
      BY <1>2, <2>2 DEF AfterSignal, TypeOK
    <3>4. \A n \in Scans : script'[n] = IF n = scan_proc THEN at ELSE script[n]
      BY <1>2, <2>2, <3>1 DEF TypeOK
    <3>5. script' \in [Scans -> {"none", "setup", "ready", "launch", "post", "done"}]
      BY <1>2, <2>2, <3>1, <3>3 DEF TypeOK
    <3> QED  BY <1>2, <2>2, <3>2, <3>3, <3>4, <3>5 DEF TypeOK, ScriptsGoOn
  <2> QED  BY <1>1, <2>3, <2>4, <2>5, InterruptKeeps
<1> QED  BY <1>3, <1>4


\* The controllers, but for the signals.
LEMMA StartRequestKeeps == ASSUME SInv, StartRequest  PROVE SInv'
<1>1. /\ status = "idle" /\ starting < MaxStarts
      /\ controller = "remote" => starting = 0
      /\ starting' = starting + 1
      /\ UNCHANGED <<controller, status, scan_proc, stopper, waits, raced, gave_up, scanState>>
  BY DEF StartRequest
<1>2. overlapped' \in BOOLEAN /\ (overlapped' => overlapped \/ starting > 0)
      /\ (overlapped => overlapped') /\ (starting > 0 => overlapped')
  BY DEF StartRequest, SInv, Basics, TypeOK
<1>3. starting \in Nat /\ starting' \in 0 .. MaxStarts
  <2>1. starting \in 0 .. MaxStarts
    BY DEF SInv, Basics, TypeOK
  <2>2. starting < MaxStarts /\ starting' = starting + 1
    BY <1>1
  <2> QED  BY <2>1, <2>2, SessionAssumption
<1>4. Started' = Started /\ Alive' = Alive
  BY <1>1 DEF Started, Alive, scanState
<1>5. TypeOK'
  BY <1>1, <1>2, <1>3, <1>4 DEF SInv, Basics, TypeOK, scanState
<1>6. controller' = "remote" => Orderly'
  BY <1>1, <1>2, <1>3 DEF SInv, Basics, Orderly
<1>7. Basics'
  BY <1>1, <1>4, <1>5, <1>6 DEF SInv, Basics, scanState
<1>8. ASSUME Orderly'  PROVE Alone' /\ OneMapper'
  <2>1. Alone /\ OneMapper /\ starting = 0
    BY <1>1, <1>2, <1>3, <1>8 DEF SInv, Orderly
  <2>2. OneStart'
    BY <1>1, <2>1 DEF OneStart
  <2>3. OneStop'
    BY <1>1, <1>4, <2>1 DEF Alone, OneStop, AtWork
  <2>4. LastScript'
    BY <1>1, <1>4, <2>1 DEF Alone, LastScript
  <2> QED  BY <1>1, <2>1, <2>2, <2>3, <2>4, OneMapperUnmoved DEF Alone
<1> QED  BY <1>7, <1>8 DEF SInv

LEMMA StartScriptKeeps == ASSUME SInv, NEW n \in Scans, StartScript(n)  PROVE SInv'
<1>1. /\ starting > 0 /\ starting' = starting - 1
      /\ n \notin Started /\ \A m \in Scans : m < n => m \in Started
      /\ script' = [script EXCEPT ![n] = "setup"]
      /\ scan_proc' = n /\ status' = "recording"
      /\ UNCHANGED <<controller, stopper, waits, overlapped, raced, gave_up, mapper, pcd,
                     archive, skipped>>
  BY DEF StartScript
<1>2. /\ script[n] = "none" /\ script'[n] = "setup"
      /\ \A m \in Scans : m # n => script'[m] = script[m]
  BY <1>1 DEF SInv, Basics, TypeOK, Started
<1>3. Started' = Started \cup {n} /\ Alive' = Alive \cup {n}
  BY <1>2 DEF Started, Alive
<1>4. TypeOK'
  <2>1. starting' \in 0 .. MaxStarts
    <3>1. starting \in 0 .. MaxStarts
      BY DEF SInv, Basics, TypeOK
    <3>2. starting > 0 /\ starting' = starting - 1
      BY <1>1
    <3> QED  BY <3>1, <3>2, SessionAssumption
  <2>2. script' \in [Scans -> {"none", "setup", "ready", "launch", "post", "done"}]
    BY <1>1 DEF SInv, Basics, TypeOK
  <2>3. \A k \in Stops : stopper'[k] \in {"wait", "last wait"} => waits'[k] \in Started'
    BY <1>1, <1>3 DEF SInv, Basics, TypeOK
  <2> QED  BY <1>1, <1>3, <2>1, <2>2, <2>3 DEF SInv, Basics, TypeOK
<1>5. Basics'
  BY <1>1, <1>2, <1>3, <1>4 DEF SInv, Basics, Orderly, Scans
<1>6. ASSUME Orderly'  PROVE Alone' /\ OneMapper'
  <2>1. Alone /\ OneMapper
    BY <1>1, <1>6 DEF SInv, Orderly
  <2>2. starting = 1 /\ status = "idle" /\ Alive = {}
    <3>1. starting > 0
      BY <1>1
    <3>2. starting = 1 /\ status = "idle"
      BY <2>1, <3>1 DEF Alone, OneStart
    <3> QED  BY <2>1, <3>2 DEF Alone, LastScript
  <2>3. \A k \in Stops : stopper[k] = "none"
    BY <2>1, <2>2 DEF Alone, OneStart, OneStop, LastScript, AtWork
  <2>4. \A m \in Started' : m <= n
    BY <1>1, <1>3 DEF SInv, Basics, Started, Scans
  <2>5. Alone'
    <3>1. OneStart'
      BY <1>1, <2>2 DEF OneStart
    <3>2. OneStop'
      BY <1>1, <2>3 DEF OneStop, AtWork
    <3>3. LastScript'
      BY <1>1, <1>3, <2>2, <2>4 DEF LastScript
    <3> QED  BY <3>1, <3>2, <3>3 DEF Alone
  <2>6. OneMapper'
    BY <1>1, <1>2, <2>1, OneMapperKept DEF Mapping
  <2> QED  BY <2>5, <2>6
<1> QED  BY <1>5, <1>6 DEF SInv

LEMMA StopRequestKeeps == ASSUME SInv, NEW k \in Stops, StopRequest(k)  PROVE SInv'
<1>1. /\ status = "recording" /\ stopper[k] = "none"
      /\ stopper' = [stopper EXCEPT ![k] = "found"]
      /\ controller = "remote" => \A j \in Stops : stopper[j] = "none"
      /\ raced' \in BOOLEAN /\ (raced' <=> raced \/ \E j \in Stops : stopper[j] # "none")
      /\ UNCHANGED <<controller, status, scan_proc, starting, waits, overlapped, gave_up,
                     scanState>>
  BY DEF StopRequest, At, SInv, Basics, TypeOK
<1>2. Started' = Started /\ Alive' = Alive
  BY <1>1 DEF Started, Alive, scanState
<1>3. TypeOK'
  BY <1>1, <1>2 DEF SInv, Basics, TypeOK, scanState
<1>4. Basics'
  BY <1>1, <1>2, <1>3 DEF SInv, Basics, Orderly, scanState
<1>5. ASSUME Orderly'  PROVE Alone' /\ OneMapper'
  <2>1. Alone /\ OneMapper /\ \A j \in Stops : stopper[j] = "none"
    BY <1>1, <1>5 DEF SInv, Orderly
  <2>2. \A j \in Stops : stopper'[j] = IF j = k THEN "found" ELSE "none"
    BY <1>1, <2>1 DEF SInv, Basics, TypeOK
  <2>3. Alone'
    <3>1. OneStart'
      BY <1>1, <2>1 DEF Alone, OneStart
    <3>2. OneStop'
      <4>1. status' = "recording" /\ \A j \in Stops : stopper'[j] # "none" => j = k
        BY <1>1, <2>2
      <4> QED  BY <2>2, <4>1 DEF OneStop, AtWork
    <3>3. LastScript'
      BY <1>1, <1>2, <2>1 DEF Alone, LastScript
    <3> QED  BY <3>1, <3>2, <3>3 DEF Alone
  <2> QED  BY <1>1, <2>1, <2>3, OneMapperUnmoved
<1> QED  BY <1>4, <1>5 DEF SInv

LEMMA AcceptStopKeeps == ASSUME SInv, NEW k \in Stops, AcceptStop(k)  PROVE SInv'
<1>1. PICK to \in {"nodes", "interrupt"} :
        /\ stopper[k] = "found" /\ stopper' = [stopper EXCEPT ![k] = to]
  BY DEF AcceptStop, At
<1>2. /\ status' = "stopping"
      /\ UNCHANGED <<controller, scan_proc, starting, waits, overlapped, raced, gave_up,
                     scanState>>
  BY DEF AcceptStop
<1>3. Started' = Started /\ Alive' = Alive
  BY <1>2 DEF Started, Alive, scanState
<1>4. TypeOK'
  BY <1>1, <1>2, <1>3 DEF SInv, Basics, TypeOK, scanState
<1>5. Basics'
  BY <1>2, <1>3, <1>4 DEF SInv, Basics, Orderly, scanState
<1>6. ASSUME Orderly'  PROVE Alone' /\ OneMapper'
  <2>1. Alone /\ OneMapper /\ \A j \in Stops : j # k => stopper[j] = "none"
    BY <1>1, <1>2, <1>6 DEF SInv, Orderly, Alone, OneStart, OneStop, LastScript
  <2>2. \A j \in Stops : stopper'[j] = IF j = k THEN to ELSE "none"
    BY <1>1, <2>1 DEF SInv, Basics, TypeOK
  <2>3. status = "recording" /\ starting = 0
    BY <1>1, <2>1 DEF Alone, OneStart, OneStop, LastScript
  <2>4. Alone'
    <3>1. OneStart'
      BY <1>2, <2>3 DEF Alone, OneStart
    <3>2. OneStop'
      <4>1. /\ status' = "stopping" /\ to \in {"nodes", "interrupt"}
            /\ \A j \in Stops : stopper'[j] # "none" => j = k
        BY <1>1, <1>2, <2>2
      <4> QED  BY <2>2, <4>1 DEF OneStop, AtWork
    <3>3. LastScript'
      BY <1>2, <1>3, <2>1 DEF Alone, LastScript
    <3> QED  BY <3>1, <3>2, <3>3 DEF Alone
  <2> QED  BY <1>2, <2>1, <2>4, OneMapperUnmoved
<1> QED  BY <1>5, <1>6 DEF SInv

LEMMA DropScriptKeeps == ASSUME SInv, NEW k \in Stops, DropScript(k)  PROVE SInv'
<1>1. /\ stopper[k] \in {"wait", "last wait", "drop"}
      /\ stopper' = [stopper EXCEPT ![k] = "mark"] /\ scan_proc' = 0
      /\ UNCHANGED <<controller, status, starting, waits, overlapped, raced, scanState>>
  BY DEF DropScript, Ended, GivesUp
<1>2. /\ gave_up' \in BOOLEAN /\ (gave_up => gave_up')
      /\ controller = "remote" => gave_up' = gave_up
      /\ stopper[k] = "drop" \/ script[waits[k]] = "done" \/ gave_up'
  BY DEF DropScript, Ended, GivesUp, SInv, Basics, TypeOK
<1>3. Started' = Started /\ Alive' = Alive
  BY <1>1 DEF Started, Alive, scanState
<1>4. TypeOK'
  BY <1>1, <1>2, <1>3 DEF SInv, Basics, TypeOK, scanState
<1>5. controller' = "remote" => Orderly'
  BY <1>1, <1>2 DEF SInv, Basics, Orderly
<1>6. Basics'
  BY <1>1, <1>3, <1>4, <1>5 DEF SInv, Basics, scanState
<1>7. ASSUME Orderly'  PROVE Alone' /\ OneMapper'
  <2>1. Alone /\ OneMapper
    BY <1>1, <1>2, <1>7 DEF SInv, Orderly
  <2>2. Alive = {}
    <3>1. CASE stopper[k] = "drop"
      BY <2>1, <3>1 DEF Alone, OneStart, OneStop, LastScript
    <3>2. CASE script[waits[k]] = "done" /\ stopper[k] \in {"wait", "last wait"}
      BY <2>1, <3>2 DEF Alone, OneStart, OneStop, LastScript, Alive
    <3> QED  BY <1>1, <1>2, <1>7, <3>1, <3>2 DEF Orderly
  <2>3. \A j \in Stops : stopper'[j] = IF j = k THEN "mark" ELSE "none"
    BY <1>1, <2>1 DEF Alone, OneStart, OneStop, LastScript, SInv, Basics, TypeOK
  <2>4. status = "stopping"
    BY <1>1, <2>1 DEF Alone, OneStart, OneStop, LastScript, AtWork
  <2>5. Alone'
    <3>1. OneStart'
      BY <1>1, <2>1 DEF Alone, OneStart
    <3>2. OneStop'
      <4>1. /\ status' = "stopping" /\ Alive' = {}
            /\ \A j \in Stops : stopper'[j] # "none" => j = k
        BY <1>1, <1>3, <2>2, <2>3, <2>4
      <4> QED  BY <2>3, <4>1 DEF OneStop, AtWork
    <3>3. LastScript'
      BY <1>1, <1>3, <2>2 DEF Alone, LastScript
    <3> QED  BY <3>1, <3>2, <3>3 DEF Alone
  <2> QED  BY <1>1, <2>1, <2>5, OneMapperUnmoved
<1> QED  BY <1>6, <1>7 DEF SInv

LEMMA MarkIdleKeeps == ASSUME SInv, NEW k \in Stops, MarkIdle(k)  PROVE SInv'
<1>1. /\ stopper[k] = "mark" /\ stopper' = [stopper EXCEPT ![k] = "none"]
      /\ status' = "idle"
      /\ UNCHANGED <<controller, scan_proc, starting, waits, overlapped, raced, gave_up,
                     scanState>>
  BY DEF MarkIdle, At
<1>2. Started' = Started /\ Alive' = Alive
  BY <1>1 DEF Started, Alive, scanState
<1>3. TypeOK'
  BY <1>1, <1>2 DEF SInv, Basics, TypeOK, scanState
<1>4. Basics'
  BY <1>1, <1>2, <1>3 DEF SInv, Basics, Orderly, scanState
<1>5. ASSUME Orderly'  PROVE Alone' /\ OneMapper'
  <2>1. Alone /\ OneMapper
    BY <1>1, <1>5 DEF SInv, Orderly
  <2>2. Alive = {}
    BY <1>1, <2>1 DEF Alone, OneStart, OneStop, LastScript
  <2>3. \A j \in Stops : stopper'[j] = "none"
    BY <1>1, <2>1 DEF Alone, OneStart, OneStop, LastScript, SInv, Basics, TypeOK
  <2>4. Alone'
    BY <1>1, <1>2, <2>1, <2>2, <2>3 DEF Alone, OneStart, OneStop, LastScript, AtWork
  <2> QED  BY <1>1, <2>1, <2>4, OneMapperUnmoved
<1> QED  BY <1>4, <1>5 DEF SInv

LEMMA SessionNextOK == SInv /\ [Next]_vars => SInv'
<1> SUFFICES ASSUME SInv, [Next]_vars  PROVE SInv'
  OBVIOUS
<1>1. ASSUME NEW n \in Scans, SetUp(n) \/ Launch(n) \/ LaunchReturns(n) \/ Archive(n)
      PROVE  SInv'
  BY <1>1, SetUpKeeps, LaunchKeeps, ScriptEndKeeps
<1>2. ASSUME NEW n \in Scans, MapperStops(n) \/ EmergencyStop(n)  PROVE SInv'
  BY <1>2, MapperStopsKeeps, EmergencyKeeps
<1>3. ASSUME NEW n \in Scans, StartScript(n)  PROVE SInv'
  BY <1>3, StartScriptKeeps
<1>4. CASE StartRequest
  BY <1>4, StartRequestKeeps
<1>5. ASSUME NEW k \in Stops, StopRequest(k) \/ AcceptStop(k) \/ StopNodes(k)  PROVE SInv'
  BY <1>5, StopRequestKeeps, AcceptStopKeeps, StopNodesKeeps
<1>6. ASSUME NEW k \in Stops, StopScript(k) \/ DropScript(k) \/ MarkIdle(k)  PROVE SInv'
  BY <1>6, StopScriptKeeps, DropScriptKeeps, MarkIdleKeeps
<1>7. CASE UNCHANGED vars
  <2> USE <1>7 DEF vars, ctlVars
  <2>1. Started' = Started /\ Alive' = Alive
    BY DEF Started, Alive, scanState
  <2>2. TypeOK'
    BY <2>1 DEF SInv, Basics, TypeOK, scanState
  <2>3. Basics' /\ (Orderly' <=> Orderly)
    BY <2>1, <2>2 DEF SInv, Basics, Orderly, scanState
  <2>4. Alone => Alone'
    BY <2>1, AloneKept
  <2>5. OneMapper => OneMapper'
    BY OneMapperUnmoved
  <2> QED  BY <2>3, <2>4, <2>5 DEF SInv
<1> QED  BY <1>1, <1>2, <1>3, <1>4, <1>5, <1>6, <1>7 DEF Next

LEMMA SessionInvariant == Spec => []SInv
BY SessionInitOK, SessionNextOK, PTL DEF Spec

-----------------------------------------------------------------------------
(* The properties. *)

\* Every variable has its type, and a stop waits for a script that was started.
THEOREM SessionTypeCorrect == Spec => []TypeOK
<1>1. SInv => TypeOK
  BY DEF SInv, Basics
<1> QED  BY <1>1, SessionInvariant, PTL

\* For any number of scans and of requests at a time: while no two start requests and
\* no two stop requests have overlapped and no stop has given up on a script, there is
\* one script, and two mappers only where the later one's script went on without its
\* clean slate; the remote never overlaps or gives up.
THEOREM ScriptsApartHolds == Spec => []ScriptsApart
<1>1. SInv => ScriptsApart
  <2> SUFFICES ASSUME SInv, Orderly
               PROVE  /\ Cardinality(Alive) <= 1
                      /\ \A m, n \in Mapping : m < n => n \in skipped
    BY DEF SInv, Basics, ScriptsApart
  <2>1. Alive \subseteq {scan_proc}
    BY DEF SInv, Alone, OneStart, OneStop, LastScript
  <2>2. IsFiniteSet({scan_proc}) /\ Cardinality({scan_proc}) = 1
    BY FS_Singleton
  <2>3. Cardinality(Alive) \in Nat /\ Cardinality(Alive) <= Cardinality({scan_proc})
    BY <2>1, <2>2, FS_Subset, FS_CardinalityType
  <2> QED  BY <2>2, <2>3 DEF SInv, OneMapper
<1> QED  BY <1>1, SessionInvariant, PTL

\* For any number of scans: a scan that had its clean slate is not archived with a file
\* that the mapper of another scan is writing, and with its own map, whole, once its
\* mapper is through.
THEOREM ArchiveOwnHolds == Spec => ArchiveOwn
<1>1. SInv /\ [Next]_vars =>
        [\A n \in Scans :
           (script[n] = "post" /\ archive'[n] # archive[n] /\ Orderly /\ n \notin skipped) =>
             /\ archive'[n].scan \notin Mapping \ {n}
             /\ mapper[n] = "saved" => archive'[n] = [scan |-> n, whole |-> TRUE]]_vars
  <2> SUFFICES ASSUME SInv, [Next]_vars, NEW n \in Scans,
                      script[n] = "post", archive'[n] # archive[n],
                      Orderly, n \notin skipped
               PROVE  /\ archive'[n].scan \notin Mapping \ {n}
                      /\ mapper[n] = "saved" =>
                           archive'[n] = [scan |-> n, whole |-> TRUE]
    OBVIOUS
  <2>1. PICK m \in Scans : Archive(m)
    BY DEF Next, vars, scanState, SetUp, Launch, LaunchReturns, MapperStops, EmergencyStop,
           StartRequest, StopRequest, AcceptStop, StopNodes, StopScript, DropScript, MarkIdle,
           StartScript
  <2>2. archive' = [archive EXCEPT ![m] = pcd]
    BY <2>1 DEF Archive
  <2>3. m = n /\ archive'[n] = pcd
    BY <2>2 DEF SInv, Basics, TypeOK
  <2>4. OneMapper
    BY DEF SInv
  <2>5. Mapping \subseteq {n} /\ (mapper[n] = "saved" => pcd = [scan |-> n, whole |-> TRUE])
    BY <2>4 DEF OneMapper
  <2> QED  BY <2>3, <2>5
<1> QED  BY <1>1, SessionInvariant, PTL DEF Spec, ArchiveOwn

-----------------------------------------------------------------------------
StatusAssumption ==
  /\ Timeout \in [Sensors -> Nat \ {0}]
  /\ {InitTime, StaleAfter, Grace, MaxStall, MaxAge} \subseteq Nat
  /\ NULL \notin Nat \cup [ok : BOOLEAN, takes : Nat]

-----------------------------------------------------------------------------
(* The inductive invariant. *)

Ages ==
  /\ recording \in BOOLEAN /\ monitor \in BOOLEAN
  /\ dur \in 0 .. MaxAge /\ uptime \in 0 .. MaxAge /\ initialised \in 0 .. MaxAge
  /\ seen \in [Sensors -> (0 .. MaxAge) \cup {NULL}]
  /\ silent \in [Sensors -> 0 .. MaxAge]
  /\ queued \subseteq Sensors
  /\ pass \in [ok : BOOLEAN, takes : 0 .. MaxStall] \cup {NULL}
  /\ file \in [ok : BOOLEAN, age : 0 .. MaxAge]

\* The monitor hears of a message at the latest after the pass it came in.
Heard ==
  /\ \A s \in Sensors : seen[s] # NULL => silent[s] <= seen[s] + MaxStall
  /\ \A s \in queued : pass # NULL /\ silent[s] <= pass.takes
  /\ ~monitor => pass = NULL

\* Each sensor sent something within its time-out and x ticks, or the monitor is
\* younger than y.
Fine(sil, up, x, y) == (\A s \in Sensors : sil[s] < Timeout[s] + x) \/ up < InitTime + y

\* A verdict was true when it was made, one message ago.
Verdict == pass # NULL /\ pass.ok => Fine(silent, uptime, MaxStall + pass.takes, pass.takes)

\* What the file says was a verdict, or what it was initialised with.
Told ==
  recording /\ file.ok =>
    Fine(silent, uptime, 2 * MaxStall + file.age, MaxStall + file.age) \/ initialised <= file.age

StatusInv == Ages /\ Heard /\ Verdict /\ Told

\* The assumption, constant by constant.
LEMMA Bounds ==
  ASSUME StatusAssumption
  PROVE  /\ \A s \in Sensors : Timeout[s] \in Nat \ {0}
         /\ InitTime \in Nat /\ StaleAfter \in Nat /\ Grace \in Nat
         /\ MaxStall \in Nat /\ MaxAge \in Nat /\ NULL \notin Nat
         /\ NULL \notin [ok : BOOLEAN, takes : Nat]
BY DEF StatusAssumption

\* Fine in numbers that may be primed.
LEMMA FineKept ==
  ASSUME StatusAssumption, Ages, Ages', NEW x \in Nat, NEW y \in Nat,
         NEW d \in Nat, Fine(silent, uptime, x, y),
         \A s \in Sensors : silent'[s] <= silent[s] + d,
         uptime' <= uptime + d
  PROVE  Fine(silent', uptime', x + d, y + d)
<1> USE Bounds
<1>1. CASE \A s \in Sensors : silent[s] < Timeout[s] + x
  <2>1. ASSUME NEW s \in Sensors  PROVE silent'[s] < Timeout[s] + (x + d)
    <3>1. silent[s] \in Nat /\ silent'[s] \in Nat /\ Timeout[s] \in Nat
      BY DEF Ages
    <3> QED  BY <1>1, <3>1
  <2> QED  BY <2>1 DEF Fine
<1>2. CASE uptime < InitTime + y
  <2>1. uptime \in Nat /\ uptime' \in Nat
    BY DEF Ages
  <2>2. uptime' < InitTime + (y + d)
    BY <1>2, <2>1
  <2> QED  BY <2>2 DEF Fine
<1> QED  BY <1>1, <1>2 DEF Fine

LEMMA StatusInitOK == ASSUME StatusAssumption, StatusInit  PROVE StatusInv
<1> USE Bounds DEF StatusInit
<1>1. Ages
  <2>1. seen \in [Sensors -> (0 .. MaxAge) \cup {NULL}] /\ silent \in [Sensors -> 0 .. MaxAge]
    OBVIOUS
  <2>2. file \in [ok : BOOLEAN, age : 0 .. MaxAge]
    OBVIOUS
  <2>3. recording \in BOOLEAN /\ monitor \in BOOLEAN /\ queued \subseteq Sensors
        /\ pass \in [ok : BOOLEAN, takes : 0 .. MaxStall] \cup {NULL}
    BY Zenon
  <2>4. dur \in 0 .. MaxAge /\ uptime \in 0 .. MaxAge /\ initialised \in 0 .. MaxAge
    OBVIOUS
  <2> QED  BY <2>1, <2>2, <2>3, <2>4 DEF Ages
<1>2. Heard /\ Verdict /\ Told
  BY DEF Heard, Verdict, Told
<1> QED  BY <1>1, <1>2 DEF StatusInv

-----------------------------------------------------------------------------
(* Every step keeps it. *)

\* A step in which nothing grows older, the verdict under way stays or is dropped,
\* and the file is not told anything new.
LEMMA QuietStep ==
  ASSUME StatusAssumption, StatusInv, Ages',
         \A s \in Sensors : silent'[s] <= silent[s],
         uptime' <= uptime, initialised' <= initialised,
         pass' = pass \/ pass' = NULL,
         recording' /\ file'.ok => recording /\ file.ok /\ file'.age = file.age
  PROVE  Verdict' /\ Told'
<1> USE Bounds DEF StatusInv
<1>1. Verdict'
  <2> SUFFICES ASSUME pass' # NULL, pass'.ok
               PROVE  Fine(silent', uptime', MaxStall + pass'.takes, pass'.takes)
    BY DEF Verdict
  <2>1. pass' = pass /\ pass.takes \in Nat
    BY DEF Ages
  <2>2. Fine(silent, uptime, MaxStall + pass.takes, pass.takes)
    BY <2>1 DEF Verdict
  <2>3. /\ MaxStall + pass.takes \in Nat
        /\ \A s \in Sensors : silent'[s] <= silent[s] + 0
        /\ uptime' <= uptime + 0
    BY <2>1 DEF Ages
  <2>4. Fine(silent', uptime', (MaxStall + pass.takes) + 0, pass.takes + 0)
    BY <2>1, <2>2, <2>3, FineKept
  <2> QED  BY <2>1, <2>4
<1>2. Told'
  <2> SUFFICES ASSUME recording', file'.ok, ~(initialised' <= file'.age)
               PROVE  Fine(silent', uptime', 2 * MaxStall + file'.age, MaxStall + file'.age)
    BY DEF Told
  <2>1. recording /\ file.ok /\ file'.age = file.age /\ file.age \in Nat
    BY DEF Ages
  <2>2. Fine(silent, uptime, 2 * MaxStall + file.age, MaxStall + file.age)
    BY <2>1 DEF Told, Ages
  <2>3. /\ 2 * MaxStall + file.age \in Nat /\ MaxStall + file.age \in Nat
        /\ \A s \in Sensors : silent'[s] <= silent[s] + 0
        /\ uptime' <= uptime + 0
    BY <2>1 DEF Ages
  <2>4. Fine(silent', uptime', (2 * MaxStall + file.age) + 0, (MaxStall + file.age) + 0)
    BY <2>2, <2>3, FineKept
  <2>5. (2 * MaxStall + file.age) + 0 = 2 * MaxStall + file'.age
        /\ (MaxStall + file.age) + 0 = MaxStall + file'.age
    BY <2>1
  <2> QED  BY <2>4, <2>5
<1> QED  BY <1>1, <1>2

\* A wider margin.
LEMMA FineMore ==
  ASSUME StatusAssumption, Ages, NEW x \in Nat, NEW y \in Nat, NEW x2 \in Nat, NEW y2 \in Nat,
         Fine(silent, uptime, x, y), x <= x2, y <= y2
  PROVE  Fine(silent, uptime, x2, y2)
<1> USE Bounds
<1>1. CASE \A s \in Sensors : silent[s] < Timeout[s] + x
  <2>1. ASSUME NEW s \in Sensors  PROVE silent[s] < Timeout[s] + x2
    <3>1. silent[s] \in Nat /\ Timeout[s] \in Nat
      BY DEF Ages
    <3> QED  BY <1>1, <3>1
  <2> QED  BY <2>1 DEF Fine
<1>2. CASE uptime < InitTime + y
  <2>1. uptime \in Nat
    BY DEF Ages
  <2>2. uptime < InitTime + y2
    BY <1>2, <2>1
  <2> QED  BY <2>2 DEF Fine
<1> QED  BY <1>1, <1>2 DEF Fine

\* A tick, for one age.
LEMMA OlderAge ==
  ASSUME StatusAssumption, NEW a \in 0 .. MaxAge
  PROVE  /\ Older(a) \in 0 .. MaxAge /\ a <= Older(a) /\ Older(a) <= a + 1
         /\ a < MaxAge => Older(a) = a + 1
BY Bounds DEF Older

LEMMA TickKeeps == ASSUME StatusAssumption, StatusInv, Tick  PROVE StatusInv'
<1> USE Bounds DEF StatusInv
<1>1. /\ pass = NULL => pass' = NULL
      /\ pass # NULL => /\ pass.takes < MaxStall
                        /\ pass' = [pass EXCEPT !.takes = @ + 1]
      /\ dur' = Older(dur) /\ uptime' = Older(uptime) /\ initialised' = Older(initialised)
      /\ seen' = [s \in Sensors |-> Older(seen[s])]
      /\ silent' = [s \in Sensors |-> Older(silent[s])]
      /\ file' = [file EXCEPT !.age = Older(@)]
      /\ UNCHANGED <<recording, launcher, monitor, queued>>
  BY DEF Tick
<1>2. \A s \in Sensors :
        /\ silent'[s] \in 0 .. MaxAge /\ silent'[s] <= silent[s] + 1
        /\ seen[s] = NULL => seen'[s] = NULL
        /\ seen[s] # NULL => /\ seen'[s] \in 0 .. MaxAge
                             /\ seen[s] < MaxAge => seen'[s] = seen[s] + 1
                             /\ seen[s] = MaxAge => seen'[s] = MaxAge
  <2> SUFFICES ASSUME NEW s \in Sensors
               PROVE  /\ silent'[s] \in 0 .. MaxAge /\ silent'[s] <= silent[s] + 1
                      /\ seen[s] = NULL => seen'[s] = NULL
                      /\ seen[s] # NULL =>
                           /\ seen'[s] \in 0 .. MaxAge
                           /\ seen[s] < MaxAge => seen'[s] = seen[s] + 1
                           /\ seen[s] = MaxAge => seen'[s] = MaxAge
    OBVIOUS
  <2>1. silent[s] \in 0 .. MaxAge /\ (seen[s] = NULL \/ seen[s] \in 0 .. MaxAge)
    BY DEF Ages
  <2>2. silent'[s] = Older(silent[s]) /\ seen'[s] = Older(seen[s])
    BY <1>1
  <2>3. seen[s] = NULL => seen'[s] = NULL
    BY <2>2 DEF Older
  <2>4. seen[s] = MaxAge => seen'[s] = MaxAge
    BY <2>2 DEF Older
  <2> QED  BY <2>1, <2>2, <2>3, <2>4, OlderAge
<1>3. /\ uptime' \in 0 .. MaxAge /\ uptime' <= uptime + 1
      /\ initialised' \in 0 .. MaxAge /\ initialised' <= initialised + 1
      /\ dur' \in 0 .. MaxAge
  BY <1>1, OlderAge DEF Ages
<1>4. /\ file' = [ok |-> file.ok, age |-> file'.age]
      /\ file.ok \in BOOLEAN /\ file.age \in 0 .. MaxAge /\ file'.age \in 0 .. MaxAge
      /\ file.age < MaxAge => file'.age = file.age + 1
      /\ file.age = MaxAge => file'.age = MaxAge
  <2>1. file.ok \in BOOLEAN /\ file.age \in 0 .. MaxAge
    BY DEF Ages
  <2>2. file'.age = Older(file.age) /\ file' = [ok |-> file.ok, age |-> file'.age]
    BY <1>1 DEF Ages
  <2>3. file.age = MaxAge => file'.age = MaxAge
    BY <2>2 DEF Older
  <2> QED  BY <2>1, <2>2, <2>3, OlderAge
<1>5. pass # NULL => /\ pass.ok \in BOOLEAN /\ pass.takes \in 0 .. MaxStall
                     /\ pass.takes < MaxStall
                     /\ pass' = [ok |-> pass.ok, takes |-> pass.takes + 1]
  BY <1>1 DEF Ages
<1>6. Ages'
  <2>1. seen' \in [Sensors -> (0 .. MaxAge) \cup {NULL}] /\ silent' \in [Sensors -> 0 .. MaxAge]
    <3>1. \A s \in Sensors : Older(seen[s]) \in (0 .. MaxAge) \cup {NULL}
                             /\ Older(silent[s]) \in 0 .. MaxAge
      BY <1>1, <1>2 DEF Ages
    <3> QED  BY <1>1, <3>1
  <2>2. file' \in [ok : BOOLEAN, age : 0 .. MaxAge]
    BY <1>4
  <2>3. pass' \in [ok : BOOLEAN, takes : 0 .. MaxStall] \cup {NULL}
    BY <1>1, <1>5
  <2>4. recording' \in BOOLEAN /\ monitor' \in BOOLEAN /\ queued' \subseteq Sensors
    BY <1>1 DEF Ages
  <2> QED  BY <1>3, <2>1, <2>2, <2>3, <2>4 DEF Ages
<1>7. Heard'
  <2>1. ASSUME NEW s \in Sensors, seen'[s] # NULL  PROVE silent'[s] <= seen'[s] + MaxStall
    <3>1. silent[s] <= seen[s] + MaxStall /\ seen[s] \in 0 .. MaxAge
          /\ silent[s] \in 0 .. MaxAge
      BY <1>2, <2>1 DEF Heard, Ages
    <3>2. CASE seen[s] < MaxAge
      BY <1>2, <3>1, <3>2
    <3>3. CASE seen[s] = MaxAge
      BY <1>2, <3>1, <3>3
    <3> QED  BY <3>1, <3>2, <3>3
  <2>2. ASSUME NEW s \in queued'  PROVE pass' # NULL /\ silent'[s] <= pass'.takes
    <3>1. s \in queued /\ s \in Sensors /\ pass # NULL /\ silent[s] <= pass.takes
      BY <1>1, <2>2 DEF Heard, Ages
    <3>2. pass'.takes = pass.takes + 1 /\ silent[s] \in Nat /\ silent'[s] \in Nat
          /\ pass.takes \in Nat
      BY <1>2, <1>5, <3>1 DEF Ages
    <3>3. silent'[s] <= pass'.takes
      BY <1>2, <3>1, <3>2
    <3>4. pass' # NULL
      <4>1. pass' \in [ok : BOOLEAN, takes : Nat]
        BY <1>5, <3>1
      <4> QED  BY <4>1
    <3> QED  BY <3>3, <3>4
  <2>3. ~monitor' => pass' = NULL
    BY <1>1 DEF Heard
  <2> QED  BY <2>1, <2>2, <2>3 DEF Heard
<1>8. Verdict'
  <2> SUFFICES ASSUME pass' # NULL, pass'.ok
               PROVE  Fine(silent', uptime', MaxStall + pass'.takes, pass'.takes)
    BY DEF Verdict
  <2>1. pass # NULL /\ pass.ok /\ pass.takes \in Nat /\ pass'.takes = pass.takes + 1
    BY <1>1, <1>5
  <2>2. Fine(silent, uptime, MaxStall + pass.takes, pass.takes)
    BY <2>1 DEF Verdict
  <2>3. MaxStall + pass.takes \in Nat
    BY <2>1
  <2>4. Fine(silent', uptime', (MaxStall + pass.takes) + 1, pass.takes + 1)
    BY <1>2, <1>3, <1>6, <2>1, <2>2, <2>3, FineKept
  <2>5. (MaxStall + pass.takes) + 1 = MaxStall + pass'.takes
    BY <2>1
  <2> QED  BY <2>1, <2>4, <2>5
<1>9. Told'
  <2> SUFFICES ASSUME recording', file'.ok, ~(initialised' <= file'.age)
               PROVE  Fine(silent', uptime', 2 * MaxStall + file'.age, MaxStall + file'.age)
    BY DEF Told
  <2>1. recording /\ file.ok /\ file.age \in Nat /\ initialised \in 0 .. MaxAge
    BY <1>1, <1>4 DEF Ages
  <2>2. file.age < MaxAge
    BY <1>3, <1>4, <2>1
  <2>3. file'.age = file.age + 1 /\ ~(initialised <= file.age)
    BY <1>3, <1>4, <2>1, <2>2
  <2>4. Fine(silent, uptime, 2 * MaxStall + file.age, MaxStall + file.age)
    BY <2>1, <2>3 DEF Told
  <2>5. 2 * MaxStall + file.age \in Nat /\ MaxStall + file.age \in Nat
    BY <2>1
  <2>6. Fine(silent', uptime', (2 * MaxStall + file.age) + 1, (MaxStall + file.age) + 1)
    BY <1>2, <1>3, <1>6, <2>4, <2>5, FineKept
  <2>7. (2 * MaxStall + file.age) + 1 = 2 * MaxStall + file'.age
        /\ (MaxStall + file.age) + 1 = MaxStall + file'.age
    BY <2>1, <2>3
  <2> QED  BY <2>6, <2>7
<1> QED  BY <1>6, <1>7, <1>8, <1>9

LEMMA MessageKeeps ==
  ASSUME StatusAssumption, StatusInv, NEW s \in Sensors, Message(s)  PROVE StatusInv'
<1> USE Bounds DEF StatusInv
<1>1. /\ silent' = [silent EXCEPT ![s] = 0]
      /\ seen' = [seen EXCEPT ![s] = 0] \/ seen' = seen
      /\ seen' # seen => pass = NULL
      /\ queued' = queued \/ (pass # NULL /\ queued' = queued \cup {s})
      /\ UNCHANGED <<recording, dur, launcher, initialised, monitor, uptime, pass, file>>
  BY DEF Message, scanVars
<1>2. \A t \in Sensors : /\ silent'[t] = IF t = s THEN 0 ELSE silent[t]
                         /\ silent[t] \in Nat /\ silent'[t] <= silent[t]
                         /\ seen'[t] = seen[t] \/ (t = s /\ seen'[t] = 0)
  BY <1>1 DEF Ages
<1>3. Ages'
  BY <1>1 DEF Ages
<1>4. Heard'
  <2>1. ASSUME NEW t \in Sensors, seen'[t] # NULL  PROVE silent'[t] <= seen'[t] + MaxStall
    <3>1. CASE t = s
      BY <1>2, <1>3, <2>1, <3>1 DEF Ages
    <3>2. CASE t # s
      BY <1>2, <2>1, <3>2 DEF Heard
    <3> QED  BY <3>1, <3>2
  <2>2. ASSUME NEW t \in queued'  PROVE pass' # NULL /\ silent'[t] <= pass'.takes
    <3>1. t \in Sensors /\ pass # NULL /\ pass' = pass
      BY <1>1, <2>2 DEF Heard, Ages
    <3>2. pass.takes \in Nat
      BY <3>1 DEF Ages
    <3>3. CASE t = s
      BY <1>2, <3>1, <3>2, <3>3
    <3>4. CASE t # s
      BY <1>1, <1>2, <2>2, <3>1, <3>4 DEF Heard
    <3> QED  BY <3>1, <3>3, <3>4
  <2>3. ~monitor' => pass' = NULL
    BY <1>1 DEF Heard
  <2> QED  BY <2>1, <2>2, <2>3 DEF Heard
<1>5. uptime' <= uptime /\ initialised' <= initialised
  BY <1>1 DEF Ages
<1>6. Verdict' /\ Told'
  BY <1>1, <1>2, <1>3, <1>5, QuietStep
<1> QED  BY <1>3, <1>4, <1>6

\* A timer's verdict allows each sensor its time-out from when it was heard of.
LEMMA StartPassKeeps ==
  ASSUME StatusAssumption, StatusInv, NEW trouble \in BOOLEAN, StartPass(trouble)
  PROVE  StatusInv'
<1> USE Bounds DEF StatusInv
<1>1. /\ pass = NULL /\ monitor
      /\ UNCHANGED <<recording, dur, launcher, initialised, monitor, uptime, seen, queued,
                     file, silent>>
  BY DEF StartPass, scanVars
<1> DEFINE ok == is_init \/ (~trouble /\ \A s \in Sensors : Ok(s))
<1>2. pass' = [ok |-> ok, takes |-> 0] /\ ok \in BOOLEAN
  BY DEF StartPass
<1> HIDE DEF ok
<1>3. pass' \in [ok : BOOLEAN, takes : 0 .. MaxStall]
  BY <1>2
<1>4. Ages'
  BY <1>1, <1>3 DEF Ages
<1>5. Heard'
  <2>1. queued = {}
    BY <1>1 DEF Heard
  <2> QED  BY <1>1, <2>1 DEF Heard
<1>6. Verdict'
  <2> SUFFICES ASSUME ok  PROVE Fine(silent, uptime, MaxStall + 0, 0)
    BY <1>1, <1>2 DEF Verdict
  <2>1. CASE is_init
    BY <2>1 DEF is_init, Fine, Ages
  <2>2. CASE \A s \in Sensors : Ok(s)
    <3>1. ASSUME NEW s \in Sensors  PROVE silent[s] < Timeout[s] + (MaxStall + 0)
      <4>1. seen[s] # NULL /\ seen[s] < Timeout[s]
        BY <2>2 DEF Ok
      <4>2. silent[s] <= seen[s] + MaxStall /\ silent[s] \in Nat /\ seen[s] \in Nat
        BY <4>1 DEF Heard, Ages
      <4> QED  BY <4>1, <4>2
    <3> QED  BY <3>1 DEF Fine
  <2> QED  BY <2>1, <2>2 DEF ok
<1>7. Told'
  BY <1>1 DEF Told
<1> QED  BY <1>4, <1>5, <1>6, <1>7

LEMMA FinishPassKeeps == ASSUME StatusAssumption, StatusInv, FinishPass  PROVE StatusInv'
<1> USE Bounds DEF StatusInv
<1>1. /\ pass # NULL /\ pass' = NULL /\ file' = [ok |-> pass.ok, age |-> 0]
      /\ seen' = [s \in Sensors |-> IF s \in queued THEN 0 ELSE seen[s]] /\ queued' = {}
      /\ UNCHANGED <<recording, dur, launcher, initialised, monitor, uptime, silent>>
  BY DEF FinishPass, Written, scanVars
<1>2. pass.ok \in BOOLEAN /\ pass.takes \in 0 .. MaxStall
  BY <1>1 DEF Ages
<1>3. Ages'
  <2>1. seen' \in [Sensors -> (0 .. MaxAge) \cup {NULL}]
    BY <1>1 DEF Ages
  <2>2. file' \in [ok : BOOLEAN, age : 0 .. MaxAge]
    BY <1>1, <1>2
  <2> QED  BY <1>1, <2>1, <2>2 DEF Ages
<1>4. Heard'
  <2>1. ASSUME NEW s \in Sensors, seen'[s] # NULL  PROVE silent'[s] <= seen'[s] + MaxStall
    <3>1. CASE s \in queued
      <4>1. silent[s] <= pass.takes /\ silent[s] \in Nat
        BY <3>1 DEF Heard, Ages
      <4>2. seen'[s] = 0 /\ silent'[s] = silent[s]
        BY <1>1, <3>1
      <4> QED  BY <1>2, <4>1, <4>2
    <3>2. CASE s \notin queued
      BY <1>1, <2>1, <3>2 DEF Heard
    <3> QED  BY <3>1, <3>2
  <2> QED  BY <1>1, <2>1 DEF Heard
<1>5. Verdict'
  BY <1>1 DEF Verdict
<1>6. Told'
  <2> SUFFICES ASSUME pass.ok
               PROVE  Fine(silent, uptime, 2 * MaxStall + 0, MaxStall + 0)
    BY <1>1 DEF Told
  <2>1. Fine(silent, uptime, MaxStall + pass.takes, pass.takes)
    BY <1>1 DEF Verdict
  <2>2. /\ MaxStall + pass.takes \in Nat /\ pass.takes \in Nat
        /\ 2 * MaxStall + 0 \in Nat /\ MaxStall + 0 \in Nat
        /\ MaxStall + pass.takes <= 2 * MaxStall + 0 /\ pass.takes <= MaxStall + 0
    BY <1>2
  <2> QED  BY <2>1, <2>2, FineMore
<1> QED  BY <1>3, <1>4, <1>5, <1>6

\* The steps of the scan and the monitor's end.
LEMMA ScanKeeps ==
  ASSUME StatusAssumption, StatusInv,
         \/ Die \/ StartScan
         \/ \E l \in Launchers : KillStale(l) \/ InitialiseFile(l) \/ LaunchNodes(l)
         \/ \E l \in Launchers : WriteIdle(l) \/ ScriptEnds(l)
         \/ \E goes_on, kept \in BOOLEAN : StopScan(goes_on, kept)
         \/ UNCHANGED statusVars
  PROVE  StatusInv'
<1> USE Bounds DEF StatusInv, Gone, scanVars, monitorVars
<1>1. /\ \/ UNCHANGED <<pass, queued, monitor>>
         \/ UNCHANGED <<pass, queued>> /\ monitor' = TRUE
         \/ monitor' = FALSE /\ pass' = NULL /\ queued' = {}
      /\ recording' = recording \/ recording' = TRUE \/ recording' = FALSE
      /\ silent' = silent
      /\ seen' = seen \/ seen' = [s \in Sensors |-> NULL]
  BY DEF Die, StartScan, KillStale, InitialiseFile, LaunchNodes, WriteIdle, ScriptEnds,
         StopScan, statusVars
<1>2. /\ uptime' = uptime \/ uptime' = 0
      /\ dur' = dur \/ dur' = 0
      /\ \/ initialised' = initialised
         \/ initialised' = 0 /\ file' = [ok |-> TRUE, age |-> 0]
      /\ file' = file \/ file' = [ok |-> TRUE, age |-> 0]
      /\ file' # file => initialised' = 0 \/ ~recording'
      /\ recording' => recording \/ initialised' = 0
  BY DEF Die, StartScan, KillStale, InitialiseFile, LaunchNodes, WriteIdle, ScriptEnds,
         StopScan, statusVars, Written
<1>3. Ages'
  <2>1. seen' \in [Sensors -> (0 .. MaxAge) \cup {NULL}]
    BY <1>1 DEF Ages
  <2>2. file' \in [ok : BOOLEAN, age : 0 .. MaxAge]
    <3>1. [ok |-> TRUE, age |-> 0] \in [ok : BOOLEAN, age : 0 .. MaxAge]
      OBVIOUS
    <3> QED  BY <1>2, <3>1 DEF Ages
  <2>3. uptime' \in 0 .. MaxAge /\ dur' \in 0 .. MaxAge /\ initialised' \in 0 .. MaxAge
    BY <1>2 DEF Ages
  <2>4. monitor' \in BOOLEAN /\ recording' \in BOOLEAN /\ queued' \subseteq Sensors
        /\ pass' \in [ok : BOOLEAN, takes : 0 .. MaxStall] \cup {NULL}
        /\ silent' \in [Sensors -> 0 .. MaxAge]
    BY <1>1 DEF Ages
  <2> QED  BY <2>1, <2>2, <2>3, <2>4 DEF Ages
<1>4. Heard'
  <2>1. \A s \in Sensors : seen'[s] # NULL => silent'[s] <= seen'[s] + MaxStall
    BY <1>1 DEF Heard
  <2>2. ~monitor' => pass' = NULL
    BY <1>1 DEF Heard
  <2>3. \A s \in queued' : pass' # NULL /\ silent'[s] <= pass'.takes
    BY <1>1 DEF Heard
  <2> QED  BY <2>1, <2>2, <2>3 DEF Heard
<1>5. Verdict'
  <2>1. CASE pass' = NULL
    BY <2>1 DEF Verdict
  <2>2. CASE pass' # NULL /\ pass' = pass
    <3> SUFFICES ASSUME pass.ok
                 PROVE  Fine(silent', uptime', MaxStall + pass.takes, pass.takes)
      BY <2>2 DEF Verdict
    <3>1. Fine(silent, uptime, MaxStall + pass.takes, pass.takes)
      BY <2>2 DEF Verdict
    <3>2. pass.takes \in Nat /\ MaxStall + pass.takes \in Nat
      BY <2>2 DEF Ages
    <3>3. (\A s \in Sensors : silent'[s] <= silent[s] + 0) /\ uptime' <= uptime + 0
      BY <1>1, <1>2 DEF Ages
    <3>4. Fine(silent', uptime', (MaxStall + pass.takes) + 0, pass.takes + 0)
      BY <1>3, <3>1, <3>2, <3>3, FineKept
    <3> QED  BY <3>2, <3>4
  <2> QED  BY <1>1, <2>1, <2>2
<1>6. Told'
  <2> SUFFICES ASSUME recording', file'.ok, ~(initialised' <= file'.age)
               PROVE  Fine(silent', uptime', 2 * MaxStall + file'.age, MaxStall + file'.age)
    BY DEF Told
  <2>1. initialised' # 0
    BY <1>3 DEF Ages
  <2>2. recording /\ file' = file /\ initialised' = initialised
    BY <1>2, <2>1
  <2>3. file.age \in Nat /\ 2 * MaxStall + file.age \in Nat /\ MaxStall + file.age \in Nat
    BY DEF Ages
  <2>4. Fine(silent, uptime, 2 * MaxStall + file.age, MaxStall + file.age)
    BY <2>2 DEF Told
  <2>5. (\A s \in Sensors : silent'[s] <= silent[s] + 0) /\ uptime' <= uptime + 0
    BY <1>1, <1>2 DEF Ages
  <2>6. Fine(silent', uptime', (2 * MaxStall + file.age) + 0, (MaxStall + file.age) + 0)
    BY <1>3, <2>3, <2>4, <2>5, FineKept
  <2> QED  BY <2>2, <2>3, <2>6
<1> QED  BY <1>3, <1>4, <1>5, <1>6

LEMMA StatusNextOK == ASSUME StatusAssumption  PROVE StatusInv /\ [StatusNext]_statusVars => StatusInv'
<1> SUFFICES ASSUME StatusInv, [StatusNext]_statusVars  PROVE StatusInv'
  OBVIOUS
<1> QED  BY TickKeeps, MessageKeeps, StartPassKeeps, FinishPassKeeps, ScanKeeps DEF StatusNext

-----------------------------------------------------------------------------
(* The property. *)

\* Whatever the sensors, the time-outs, the length of a stall and the ages the page
\* accepts: the page does not go on showing sensors as fine that are not.
THEOREM ShownIsTrueHolds == ASSUME StatusAssumption  PROVE StatusSpec => []ShownIsTrue
<1>1. StatusInit => StatusInv
  BY StatusInitOK
<1>2. StatusInv /\ [StatusNext]_statusVars => StatusInv'
  BY StatusNextOK
<1>3. StatusInv => ShownIsTrue
  <2> SUFFICES ASSUME StatusInv, recording, dur > Grace, ShownFine
               PROVE  \/ \A s \in Sensors : silent[s] < Timeout[s] + 2 * MaxStall + StaleAfter
                      \/ uptime < InitTime + MaxStall + StaleAfter
                      \/ initialised <= StaleAfter
    BY DEF ShownIsTrue
  <2> USE Bounds DEF StatusInv
  <2>1. file.ok /\ file.age <= StaleAfter /\ file.age \in Nat
        /\ initialised \in Nat /\ uptime \in Nat
    BY DEF ShownFine, Overdue, Ages
  <2>2. Fine(silent, uptime, 2 * MaxStall + file.age, MaxStall + file.age)
          \/ initialised <= file.age
    BY <2>1 DEF Told
  <2>3. CASE initialised <= file.age
    BY <2>1, <2>3
  <2>4. CASE \A s \in Sensors : silent[s] < Timeout[s] + (2 * MaxStall + file.age)
    <3>1. ASSUME NEW s \in Sensors  PROVE silent[s] < Timeout[s] + 2 * MaxStall + StaleAfter
      <4>1. silent[s] \in Nat /\ Timeout[s] \in Nat
        BY DEF Ages
      <4> QED  BY <2>1, <2>4, <4>1
    <3> QED  BY <3>1
  <2>5. CASE uptime < InitTime + (MaxStall + file.age)
    BY <2>1, <2>5
  <2> QED  BY <2>2, <2>3, <2>4, <2>5 DEF Fine
<1> QED  BY <1>1, <1>2, <1>3, PTL DEF StatusSpec
=============================================================================
