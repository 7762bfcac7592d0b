---------------------------- MODULE SensorStatus ----------------------------
(***************************************************************************)
(* What the operator is told of the sensors during a scan: the health       *)
(* monitor among the nodes (health_monitor.cpp) judges them twice a second  *)
(* and writes a status file, the controller and the script write it too     *)
(* when a scan starts, and the page (web_scan_controller.py) shows it.      *)
(*                                                                          *)
(* Time passes in ticks.  The monitor is one thread; a pass of its timer    *)
(* may be held up between the judgement and the file, by the sync it calls  *)
(* when memory is short, and messages that come meanwhile are heard of      *)
(* after it.  It may hang or die.  The measurements of the host are one     *)
(* verdict.                                                                 *)
(***************************************************************************)
EXTENDS Integers

CONSTANTS
  Sensors,
  Timeout,     \* [Sensors -> Nat \ {0}]: 3 s, for the IMU 2 s
  InitTime,    \* 7 s
  StaleAfter,  \* 3.5 s
  Grace,       \* 6 s
  MaxStall,    \* bound: ticks a pass of the timer takes
  MaxAge,      \* bound: ages are counted up to here
  NULL

VARIABLES
  recording,   \* scan_status = "recording"
  dur,         \* the time since then
  launcher,    \* per script: "none" | "started" | "killed" | "written" | "launched"
  monitor,     \* is there a health monitor
  uptime,      \* since the last one was started
  seen,        \* per sensor: since the monitor heard of it, or NULL
  queued,      \* sensors with a message the monitor has not taken yet
  pass,        \* a pass of the timer: its verdict and how long it takes, or NULL
  file,        \* .sensor_status.json: alert_level = "ok", and its age
  silent,      \* history, per sensor: since it sent anything
  initialised  \* history: since a controller or a script wrote the file

scanVars == <<recording, dur, launcher, initialised>>
monitorVars == <<monitor, uptime, seen, queued, pass>>
statusVars == <<scanVars, monitorVars, file, silent>>

\* The script of the scan, and one that a stop has let go of.
Launchers == {"current", "old"}

Written(ok) == [ok |-> ok, age |-> 0]

StatusInit ==
  /\ recording = FALSE /\ dur = 0 /\ initialised = MaxAge
  /\ launcher = [l \in Launchers |-> "none"]
  /\ monitor = FALSE /\ uptime = MaxAge /\ seen = [s \in Sensors |-> NULL]
  /\ queued = {} /\ pass = NULL
  /\ file = [ok |-> TRUE, age |-> MaxAge] /\ silent = [s \in Sensors |-> MaxAge]

Older(age) == IF age = NULL \/ age = MaxAge THEN age ELSE age + 1

Tick ==
  /\ pass # NULL => pass.takes < MaxStall
  /\ dur' = Older(dur) /\ uptime' = Older(uptime) /\ initialised' = Older(initialised)
  /\ seen' = [s \in Sensors |-> Older(seen[s])]
  /\ silent' = [s \in Sensors |-> Older(silent[s])]
  /\ file' = [file EXCEPT !.age = Older(@)]
  /\ pass' = IF pass = NULL THEN NULL ELSE [pass EXCEPT !.takes = @ + 1]
  /\ UNCHANGED <<recording, launcher, monitor, queued>>

-----------------------------------------------------------------------------
(* The monitor. *)

Message(s) ==
  /\ silent' = [silent EXCEPT ![s] = 0]
  /\ seen' = IF monitor /\ pass = NULL THEN [seen EXCEPT ![s] = 0] ELSE seen
  /\ queued' = IF monitor /\ pass # NULL THEN queued \cup {s} ELSE queued
  /\ UNCHANGED <<scanVars, monitor, uptime, pass, file>>

is_init == uptime < InitTime

Ok(s) == seen[s] # NULL /\ seen[s] < Timeout[s]

\* update_health up to the calls of the system; trouble of the host counts like that
\* of a sensor.  While the links come up everything is fine.
StartPass(trouble) ==
  /\ monitor /\ pass = NULL
  /\ pass' = [ok |-> is_init \/ (~trouble /\ \A s \in Sensors : Ok(s)), takes |-> 0]
  /\ UNCHANGED <<scanVars, monitor, uptime, seen, queued, file, silent>>

\* The file, stamped with the time at which it is written and renamed into place.
FinishPass ==
  /\ pass # NULL /\ pass' = NULL /\ file' = Written(pass.ok)
  /\ seen' = [s \in Sensors |-> IF s \in queued THEN 0 ELSE seen[s]] /\ queued' = {}
  /\ UNCHANGED <<scanVars, monitor, uptime, silent>>

Gone == monitor' = FALSE /\ pass' = NULL /\ queued' = {}

Die == monitor /\ Gone /\ UNCHANGED <<scanVars, uptime, seen, file, silent>>

-----------------------------------------------------------------------------
(* The scan. *)

Step(l, from, to) == launcher[l] = from /\ launcher' = [launcher EXCEPT ![l] = to]

StartScan ==
  /\ ~recording /\ Step("current", "none", "started")
  /\ recording' = TRUE /\ dur' = 0
  /\ file' = Written(TRUE) /\ initialised' = 0
  /\ UNCHANGED <<monitorVars, silent>>

\* The clean slate, which may find a monitor of the scan before, and may fail.
KillStale(l) ==
  /\ Step(l, "started", "killed")
  /\ Gone \/ UNCHANGED <<monitor, pass, queued>>
  /\ UNCHANGED <<recording, dur, initialised, uptime, seen, file, silent>>

InitialiseFile(l) ==
  /\ Step(l, "killed", "written")
  /\ file' = Written(TRUE) /\ initialised' = 0
  /\ UNCHANGED <<recording, dur, monitorVars, silent>>

\* Bound: one monitor at a time; one that was left over has ended by now.
LaunchNodes(l) ==
  /\ Step(l, "written", "launched") /\ ~monitor
  /\ monitor' = TRUE /\ uptime' = 0 /\ seen' = [s \in Sensors |-> NULL]
  /\ UNCHANGED <<recording, dur, initialised, queued, pass, file, silent>>

\* The trap of a script, at any time after the signal, or the end of a second stop
\* request that was handled beside the first: the file says idle, and ok.
WriteIdle(l) ==
  /\ launcher[l] # "none"
  /\ file' = Written(TRUE) /\ initialised' = 0
  /\ UNCHANGED <<recording, dur, launcher, monitorVars, silent>>

ScriptEnds(l) ==
  /\ launcher[l] # "none" /\ launcher' = [launcher EXCEPT ![l] = "none"]
  /\ UNCHANGED <<recording, dur, initialised, monitorVars, file, silent>>

\* The stop, wherever the script is.  It may let go of a script that goes on, and of
\* nodes that have not ended.  Bound: one script is let go of at a time.
StopScan(goes_on, kept) ==
  /\ recording /\ recording' = FALSE
  /\ goes_on => launcher["old"] = "none"
  /\ launcher' = [current |-> "none",
                  old |-> launcher[IF goes_on THEN "current" ELSE "old"]]
  /\ IF kept THEN UNCHANGED <<monitor, pass, queued>> ELSE Gone
  /\ file' = Written(TRUE)
  /\ UNCHANGED <<dur, initialised, uptime, seen, silent>>

StatusNext ==
  \/ Tick
  \/ \E s \in Sensors : Message(s)
  \/ \E trouble \in BOOLEAN : StartPass(trouble)
  \/ FinishPass
  \/ Die
  \/ StartScan
  \/ \E l \in Launchers : KillStale(l) \/ InitialiseFile(l) \/ LaunchNodes(l)
  \/ \E l \in Launchers : WriteIdle(l) \/ ScriptEnds(l)
  \/ \E goes_on, kept \in BOOLEAN : StopScan(goes_on, kept)

StatusSpec == StatusInit /\ [][StatusNext]_statusVars

-----------------------------------------------------------------------------
(* The page. *)

\* A file that is not renewed during a scan is an error of its own.
NeverOverdue == FALSE  \* fault: the age is not looked at
Overdue == recording /\ dur > Grace /\ file.age > StaleAfter

ShownFine == file.ok /\ ~Overdue

\* The page of a scan that is under way does not go on showing sensors as fine that
\* are not: each of them sent something within its time-out, the two passes the
\* message and the verdict may have been held up in, and the time the file may be
\* old; or the monitor is so young that the links may still be coming up; or the file
\* was written, within the time it may be old, by a controller or a script, which
\* write that all is well.
ShownIsTrue ==
  recording /\ dur > Grace /\ ShownFine =>
    \/ \A s \in Sensors : silent[s] < Timeout[s] + 2 * MaxStall + StaleAfter
    \/ uptime < InitTime + MaxStall + StaleAfter
    \/ initialised <= StaleAfter
=============================================================================
