---------------------------- MODULE ScanSession ----------------------------
(***************************************************************************)
(* Scan sessions: a controller (web_scan_controller.py, whose requests are  *)
(* threads, or remote_scan_controller.py, one loop) starts and stops the    *)
(* script run_corridor_scan.sh, which launches the nodes in a container and *)
(* in the end archives the map that the mapper writes when it is stopped.   *)
(*                                                                          *)
(* Scans have numbers.  The nodes stand for one, the mapper.  Bags, sounds  *)
(* and the status page are left out.  Time passes as it likes: any wait may *)
(* time out.                                                                *)
(***************************************************************************)
EXTENDS Integers, FiniteSets

CONSTANTS
  MaxScans,    \* bound: scripts started
  MaxStarts,   \* bound: start requests handled at the same time
  MaxStops     \* bound: stop requests handled at the same time

ASSUME SessionAssumption == {MaxScans, MaxStarts, MaxStops} \subseteq Nat

Scans == 1 .. MaxScans
Stops == 1 .. MaxStops

VARIABLES
  controller,  \* "web" | "remote"
  status,      \* scan_status; of the remote: whether scan_proc is None
  scan_proc,   \* the script in hand, or 0
  starting,    \* start requests that have found the status idle
  stopper,     \* per thread of a stop request: where it is
  waits,       \* per thread of a stop request: the script it waits for
  script,      \* per scan: "none" | "setup" | "ready" | "launch" | "post" | "done"
  mapper,      \* per scan: "none" | "running" | "asked" | "writing" | "saved" | "gone"
  pcd,         \* all_downsampled_points.pcd: the scan it is of, and whether whole
  archive,     \* per scan: its file in the scans directory
  skipped,     \* history: the scans whose clean slate did not happen
  overlapped,  \* history: two start requests have been handled at the same time
  raced,       \* history: two stop requests have been handled at the same time
  gave_up      \* history: a stop request has let go of a script that was not done

scanState == <<script, mapper, pcd, archive, skipped>>
ctlVars == <<status, scan_proc, starting, stopper, waits, overlapped, raced, gave_up>>
vars == <<controller, ctlVars, scanState>>

NoFile == [scan |-> 0, whole |-> FALSE]

Init ==
  /\ controller \in {"web", "remote"}
  /\ status = "idle" /\ scan_proc = 0 /\ starting = 0
  /\ stopper = [k \in Stops |-> "none"] /\ waits = [k \in Stops |-> 0]
  /\ script = [n \in Scans |-> "none"] /\ mapper = [n \in Scans |-> "none"]
  /\ pcd = NoFile /\ archive = [n \in Scans |-> NoFile]
  /\ skipped = {} /\ overlapped = FALSE /\ raced = FALSE /\ gave_up = FALSE

Started == {n \in Scans : script[n] # "none"}
Alive == {n \in Started : script[n] # "done"}
Mapping == {n \in Scans : mapper[n] \in {"running", "asked", "writing"}}

-----------------------------------------------------------------------------
(* The script. *)

\* pkill -9, before anything is launched.
NothingKilled == mapper  \* fault: the old nodes are left alone
CleanSlate == [n \in Scans |-> IF n \in Mapping THEN "gone" ELSE mapper[n]]

\* pkill -2: the mappers are asked to stop.
Interrupted == [n \in Scans |-> IF mapper[n] = "running" THEN "asked" ELSE mapper[n]]

Goes(n, from, to) == script[n] = from /\ script' = [script EXCEPT ![n] = to]

\* A container that cannot be started ends the script; a clean slate that fails or
\* is cut short by a signal does not.
SetUp(n) ==
  /\ \/ Goes(n, "setup", "ready") /\ mapper' = CleanSlate /\ UNCHANGED skipped
     \/ Goes(n, "setup", "ready") /\ UNCHANGED mapper /\ skipped' = skipped \cup {n}
     \/ Goes(n, "setup", "done") /\ UNCHANGED <<mapper, skipped>>
  /\ UNCHANGED <<controller, ctlVars, pcd, archive>>

Launch(n) ==
  /\ Goes(n, "ready", "launch") /\ mapper' = [mapper EXCEPT ![n] = "running"]
  /\ UNCHANGED <<controller, ctlVars, pcd, archive, skipped>>

AtWork(k) == stopper[k] \notin {"none", "found"}

\* The launch in the container ends when the nodes have; without the mapper alone it
\* goes on.
LaunchReturns(n) ==
  /\ Goes(n, "launch", "post") /\ mapper[n] \in {"saved", "gone"}
  /\ n = scan_proc => \E k \in Stops : AtWork(k)
  /\ UNCHANGED <<controller, ctlVars, mapper, pcd, archive, skipped>>

\* The archive is whatever the mapper's file is; nothing waits for the mapper.
Archive(n) ==
  /\ Goes(n, "post", "done") /\ archive' = [archive EXCEPT ![n] = pcd]
  /\ UNCHANGED <<controller, ctlVars, mapper, pcd, skipped>>

\* cleanup_and_exit, which does not exit and whose own command may fail.  The signal
\* goes to the command in the foreground too: one that is not guarded ends the
\* script, a guarded one is skipped, and in the set-up that may be the clean slate.
\* While the nodes run that is the guarded client of the launch.
AfterSignal(n) ==
  CASE script[n] = "done" -> {"done"}
    [] script[n] = "launch" -> {"post"}
    [] OTHER -> {script[n], "done"}

Signal(n) ==
  /\ \E at \in AfterSignal(n) : script' = [script EXCEPT ![n] = at]
  /\ mapper' \in IF script[n] = "done" THEN {mapper} ELSE {mapper, Interrupted}

-----------------------------------------------------------------------------
(* The mapper, stopped by a signal: savePCD at the end of run(). *)

\* There may be nothing to save, and the launch loses patience with nodes.
MapperStops(n) ==
  /\ \/ /\ mapper[n] = "asked"
        /\ mapper' = [mapper EXCEPT ![n] = "writing"] /\ pcd' = [scan |-> n, whole |-> FALSE]
     \/ /\ mapper[n] = "writing"
        /\ mapper' = [mapper EXCEPT ![n] = "saved"] /\ pcd' = [scan |-> n, whole |-> TRUE]
     \/ /\ mapper[n] \in {"asked", "writing"}
        /\ mapper' = [mapper EXCEPT ![n] = "gone"] /\ UNCHANGED pcd
  /\ UNCHANGED <<controller, ctlVars, script, archive, skipped>>

\* The health monitor stops what mappers there are when memory runs out.
EmergencyStop(n) ==
  /\ script[n] = "launch" /\ mapper[n] = "running"
  /\ mapper' = Interrupted
  /\ UNCHANGED <<controller, ctlVars, script, pcd, archive, skipped>>

-----------------------------------------------------------------------------
(* The controllers. *)

\* A start request checks the status, sounds the beep, and only then starts the
\* script and changes the status.  The remote handles one key after the other.
StartRequest ==
  /\ status = "idle" /\ starting < MaxStarts
  /\ controller = "remote" => starting = 0
  /\ starting' = starting + 1
  /\ overlapped' = (overlapped \/ starting > 0)
  /\ UNCHANGED <<controller, status, scan_proc, stopper, waits, raced, gave_up, scanState>>

StartScript(n) ==
  /\ starting > 0 /\ starting' = starting - 1
  /\ n \notin Started /\ \A m \in Scans : m < n => m \in Started
  /\ script' = [script EXCEPT ![n] = "setup"]
  /\ scan_proc' = n /\ status' = "recording"
  /\ UNCHANGED <<controller, stopper, waits, overlapped, raced, gave_up, mapper, pcd, archive,
                 skipped>>

At(k, from, to) == stopper[k] = from /\ stopper' = [stopper EXCEPT ![k] = to]

\* A stop request checks the status, and changes it in a step of its own.
StopRequest(k) ==
  /\ status = "recording" /\ At(k, "none", "found")
  /\ controller = "remote" => \A j \in Stops : stopper[j] = "none"
  /\ raced' = (raced \/ \E j \in Stops : stopper[j] # "none")
  /\ UNCHANGED <<controller, status, scan_proc, starting, waits, overlapped, gave_up,
                 scanState>>

AcceptStop(k) ==
  /\ At(k, "found", IF controller = "web" THEN "nodes" ELSE "interrupt")
  /\ status' = "stopping"
  /\ UNCHANGED <<controller, scan_proc, starting, waits, overlapped, raced, gave_up,
                 scanState>>

\* The web's own pkill in the container, whose failure is not looked at.
StopNodes(k) ==
  /\ At(k, "nodes", "interrupt")
  /\ mapper' \in {mapper, Interrupted}
  /\ UNCHANGED <<controller, status, scan_proc, starting, waits, overlapped, raced, gave_up,
                 script, pcd, archive, skipped>>

\* SIGINT to the script in hand, and after the first time-out SIGTERM, which it traps
\* alike; the signal and the start of the wait are one step.  Another thread may have
\* let go of the script: then nothing is signalled, and no longer waited for.
StopScript(k) ==
  /\ \/ /\ scan_proc # 0 /\ Signal(scan_proc)
        /\ waits' = [waits EXCEPT ![k] = scan_proc]
        /\ \/ At(k, "interrupt", "wait")
           \/ At(k, "wait", "last wait") /\ script[waits[k]] # "done"
     \/ /\ scan_proc = 0 /\ UNCHANGED <<script, mapper, waits>>
        /\ \/ At(k, "interrupt", "mark")
           \/ At(k, "wait", "drop") /\ script[waits[k]] # "done"
  /\ UNCHANGED <<controller, status, scan_proc, starting, overlapped, raced, gave_up, pcd,
                 archive, skipped>>

\* The web waits twice for a time, the remote the second time without end.
EndedAnyway(k) == stopper[k] \in {"wait", "last wait"}  \* fault: the script is not waited for
Ended(k) == stopper[k] \in {"wait", "last wait"} /\ script[waits[k]] = "done"
GivesUp(k) == controller = "web" /\ stopper[k] = "last wait" /\ script[waits[k]] # "done"

\* scan_proc = None, whatever script that is by now.
DropScript(k) ==
  /\ Ended(k) \/ GivesUp(k) \/ stopper[k] = "drop"
  /\ gave_up' = (gave_up \/ GivesUp(k))
  /\ stopper' = [stopper EXCEPT ![k] = "mark"] /\ scan_proc' = 0
  /\ UNCHANGED <<controller, status, starting, waits, overlapped, raced, scanState>>

\* The status goes back to idle, whatever it is by now.
MarkIdle(k) ==
  /\ At(k, "mark", "none") /\ status' = "idle"
  /\ UNCHANGED <<controller, scan_proc, starting, waits, overlapped, raced, gave_up,
                 scanState>>

Next ==
  \/ \E n \in Scans : SetUp(n) \/ Launch(n) \/ LaunchReturns(n) \/ Archive(n)
  \/ \E n \in Scans : MapperStops(n) \/ EmergencyStop(n)
  \/ StartRequest
  \/ \E n \in Scans : StartScript(n)
  \/ \E k \in Stops : StopRequest(k) \/ AcceptStop(k) \/ StopNodes(k)
  \/ \E k \in Stops : StopScript(k) \/ DropScript(k) \/ MarkIdle(k)

Spec == Init /\ [][Next]_vars

-----------------------------------------------------------------------------

TypeOK ==
  /\ controller \in {"web", "remote"} /\ status \in {"idle", "recording", "stopping"}
  /\ scan_proc \in Started \cup {0} /\ starting \in 0 .. MaxStarts
  /\ stopper \in [Stops -> {"none", "found", "nodes", "interrupt", "wait", "last wait",
                            "drop", "mark"}]
  /\ waits \in [Stops -> 0 .. MaxScans]
  /\ \A k \in Stops : stopper[k] \in {"wait", "last wait"} => waits[k] \in Started
  /\ script \in [Scans -> {"none", "setup", "ready", "launch", "post", "done"}]
  /\ mapper \in [Scans -> {"none", "running", "asked", "writing", "saved", "gone"}]
  /\ pcd \in [scan : 0 .. MaxScans, whole : BOOLEAN]
  /\ archive \in [Scans -> [scan : 0 .. MaxScans, whole : BOOLEAN]]
  /\ skipped \subseteq Scans
  /\ overlapped \in BOOLEAN /\ raced \in BOOLEAN /\ gave_up \in BOOLEAN

\* No two start requests and no two stop requests of the web have overlapped, and no
\* stop has let go of a script that was not done.
Orderly == ~overlapped /\ ~raced /\ ~gave_up

\* Two scripts are alive together only when the web has not been orderly, which the
\* remote always is; short of that, mappers of two scans are in the container
\* together only when the script of the later one went on without its clean slate.
ScriptsApart ==
  /\ controller = "remote" => Orderly
  /\ Orderly =>
       /\ Cardinality(Alive) <= 1
       /\ \A m, n \in Mapping : m < n => n \in skipped

\* A scan that had its clean slate, with an orderly controller, is not archived with
\* a file on which the mapper of another scan is still at work; and if its own mapper
\* is through, the archive is its own map, whole.  A mapper that is slower than its
\* script leaves an earlier map or a part of its own in its place.
ArchiveOwn ==
  [][\A n \in Scans :
       (script[n] = "post" /\ archive'[n] # archive[n] /\ Orderly /\ n \notin skipped) =>
         /\ archive'[n].scan \notin Mapping \ {n}
         /\ mapper[n] = "saved" => archive'[n] = [scan |-> n, whole |-> TRUE]]_vars
=============================================================================
