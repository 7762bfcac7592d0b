--------------------------- MODULE FlightManager ---------------------------
(***************************************************************************)
(* zav_flight_manager.py: the node between the pilot's keyboard, the       *)
(* planner (/zav/goal_pose, /zav/cmd_vel) and PX4.                         *)
(*                                                                         *)
(* The node is single threaded: main() alternates rclpy.spin_once (one     *)
(* subscription callback or the 50 Hz timer) with one key read, so a       *)
(* handler is one action.  Only the T key sleeps in the middle of its      *)
(* handler, between its two vehicle commands; it is two actions.           *)
(*                                                                         *)
(* PX4, the planner and the pilot are open: any sample, goal or key may    *)
(* come at any time.  Altitudes are in decimetres, so that the code's      *)
(* thresholds 0.3, 0.5, 1.8 and 2.0 m are 3, 5, 18 and 20.  A timer is the *)
(* fact that it has run out, which may become true at any moment.          *)
(***************************************************************************)
EXTENDS Integers, Sequences, StickRamp

CONSTANTS
  Axes,        \* the velocity axes: a subset of AllAxes with "vz" and "yaw"
  MaxPlus,     \* [Axes -> Nat]: full deflection towards the plus key
  MaxMinus,    \* [Axes -> Nat]: full deflection towards the minus key
  Accel,       \* [Axes -> Nat]: accel_* per unit of time
  Decel,       \* [Axes -> Nat]: decel_* per unit of time
  DtSteps,     \* the lengths a control period may have after the clamp of dt
  Alts,        \* altitudes a position sample may report, in decimetres
  Positions,   \* horizontal positions of the local frame
  Origin,      \* the position (0, 0) the node starts with
  Headings,    \* headings of the vehicle
  North,       \* heading 0.0
  NavStates,   \* nav_state values of VehicleStatus; "OFFBOARD" is 14
  Keys,        \* the keys the pilot may type in the terminal
  Masks,       \* key sets the Win32 reader may see held down together
  WithReader,  \* is powershell.exe there, i.e. is Win32MultiKeyReader started
  NULL         \* None, and NaN in a setpoint field

AllAxes == {"vx", "vy", "vz", "yaw"}
\* The VehicleCommands the node sends: arm, disarm, forced disarm, two modes.
Commands == {"ARM", "DISARM", "KILL", "SET_OFFBOARD", "NAV_LAND"}
CommandKeys == {"T", "1", "2", "L", "SPACE", "E", "Q"}
PlusKey  == [a \in AllAxes |-> CASE a = "vx" -> "UP"   [] a = "vy" -> "RIGHT"
                                 [] a = "vz" -> "S"    [] a = "yaw" -> "D"]
MinusKey == [a \in AllAxes |-> CASE a = "vx" -> "DOWN" [] a = "vy" -> "LEFT"
                                 [] a = "vz" -> "W"    [] a = "yaw" -> "A"]
StickKeys == {PlusKey[a] : a \in AllAxes} \cup {MinusKey[a] : a \in AllAxes}

ASSUME AxesAssumption ==
  /\ Axes \subseteq AllAxes
  /\ "vz" \in Axes /\ "yaw" \in Axes
  /\ MaxPlus \in [Axes -> Nat \ {0}] /\ MaxMinus \in [Axes -> Nat \ {0}]
  /\ Accel \in [Axes -> Nat \ {0}]   /\ Decel \in [Axes -> Nat \ {0}]
  /\ DtSteps \subseteq Nat \ {0}

ASSUME WorldAssumption ==
  /\ Alts \subseteq Int /\ 0 \in Alts
  /\ Origin \in Positions /\ NULL \notin Positions
  /\ North \in Headings   /\ NULL \notin Headings
  /\ NULL \notin Commands
  /\ "OFFBOARD" \in NavStates
  /\ Keys \subseteq CommandKeys \cup StickKeys
  /\ Masks \subseteq SUBSET (StickKeys \cup {"SPACE"})
  /\ WithReader \in BOOLEAN

VARIABLES
  pc,            \* "loop" | "arming" (inside the T handler's sleep) | "exited"
  flight_mode,   \* "MANUAL" | "OFFBOARD_TRAJ"
  is_armed, nav_state,                  \* last VehicleStatus
  is_flying, is_taking_off,
  takeoff_late,  \* more than 8 s since takeoff_start_time
  takeoff_pos,   \* takeoff_x, takeoff_y
  pose,          \* current_alt, current_x and current_y, current_yaw
  yaw_initialized, target_yaw, was_turning_yaw,
  hold,          \* hold_x and hold_y, height -hold_z, hold_yaw
  des, cmd,      \* des_* and cmd_* of every axis
  held,          \* axes whose *_release_time has not passed
  goal,          \* ext_goal_pose
  vel_fresh,     \* an ext_cmd_vel is there and younger than 0.5 s
  reader,        \* Win32 reader process: "none" | "starting" | "alive" | "dead"
  pressed,       \* the keys held down on the Windows keyboard
  key_mask, multi_active,
  sp,            \* setpoint published by the last step
  sent,          \* vehicle command published by the last step
  brake_pos,     \* history: where Space braked, until another command arrives
  landing,       \* history: L or E typed since the last position sample
  offered        \* history: the goals received since the last 1 or Spacebar

pilotVars  == <<reader, pressed, key_mask, multi_active>>
statusVars == <<is_armed, nav_state>>
flagVars   == <<is_flying, is_taking_off, takeoff_late, takeoff_pos>>
yawVars    == <<yaw_initialized, target_yaw, was_turning_yaw>>
stickVars  == <<des, cmd, held>>
planVars   == <<goal, vel_fresh, hold>>
histVars   == <<brake_pos, landing, offered>>
vars == <<pc, flight_mode, statusVars, flagVars, pose, yawVars, stickVars,
          planVars, pilotVars, sp, sent, histVars>>

Zero == [a \in Axes |-> 0]

\* What a step publishes on /fmu/in/trajectory_setpoint, NULL where the field is
\* NaN or not used; "frame" is the heading that turned body velocity into NED.
NoSetpoint == [kind |-> "none", pos |-> NULL, height |-> NULL, yaw |-> NULL,
               frame |-> NULL]
PositionSetpoint(kind, p, h, y) ==
  [kind |-> kind, pos |-> p, height |-> h, yaw |-> y, frame |-> NULL]
VelocitySetpoint(kind, y, psi) ==
  [kind |-> kind, pos |-> NULL, height |-> NULL, yaw |-> y, frame |-> psi]

Silent == sp' = NoSetpoint /\ sent' = NULL
Send(c) == sp' = NoSetpoint /\ sent' = c

-----------------------------------------------------------------------------
Init ==
  /\ pc = "loop" /\ flight_mode = "MANUAL"
  /\ is_armed = FALSE
  /\ nav_state \in NavStates \ {"OFFBOARD"}
  /\ is_flying = FALSE /\ is_taking_off = FALSE /\ takeoff_late = FALSE
  /\ takeoff_pos = Origin
  /\ pose = [alt |-> 0, pos |-> Origin, yaw |-> North]
  /\ yaw_initialized = FALSE /\ target_yaw = North /\ was_turning_yaw = FALSE
  /\ hold = [pos |-> Origin, height |-> 20, yaw |-> North]
  /\ des = Zero /\ cmd = Zero /\ held = {}
  /\ goal = NULL /\ vel_fresh = FALSE
  /\ reader = IF WithReader THEN "starting" ELSE "none"
  /\ pressed = {} /\ key_mask = {} /\ multi_active = FALSE
  /\ sp = NoSetpoint /\ sent = NULL
  /\ brake_pos = NULL /\ landing = FALSE /\ offered = {}

-----------------------------------------------------------------------------
(* Subscription callbacks. *)

\* _status_cb
StatusCb(armed, nav) ==
  /\ pc = "loop"
  /\ is_armed' = armed /\ nav_state' = nav
  /\ Silent
  /\ UNCHANGED <<pc, flight_mode, flagVars, pose, yawVars, stickVars, planVars,
                 pilotVars, histVars>>

\* A sample above 0.5 m of a vehicle that is not known to fly.
AirborneLate(alt) == alt >= 18 /\ ~is_taking_off /\ ~is_flying  \* fault: 1.8 m
Airborne(alt) == alt > 5 /\ ~is_taking_off /\ ~is_flying

\* _pos_cb: the first sample seeds target_yaw; an airborne one raises is_flying.
\* Nothing lowers is_flying again when the altitude drops.
PosCb(alt, p, y) ==
  LET airborne == Airborne(alt)
  IN  /\ pc = "loop"
      /\ pose' = [alt |-> alt, pos |-> p, yaw |-> y]
      /\ yaw_initialized' = TRUE
      /\ is_flying' = (is_flying \/ airborne)
      /\ target_yaw' = IF airborne \/ ~yaw_initialized THEN y ELSE target_yaw
      /\ landing' = FALSE
      /\ Silent
      /\ UNCHANGED <<pc, flight_mode, statusVars, is_taking_off, takeoff_late,
                     takeoff_pos, was_turning_yaw, stickVars, planVars,
                     pilotVars, brake_pos, offered>>

\* _on_goal_pose: stored in every mode, without an age that is ever read.
GoalCb(p) ==
  /\ pc = "loop"
  /\ goal' = p /\ brake_pos' = NULL /\ offered' = offered \cup {p}
  /\ Silent
  /\ UNCHANGED <<pc, flight_mode, statusVars, flagVars, pose, yawVars,
                 stickVars, vel_fresh, hold, pilotVars, landing>>

\* _on_cmd_vel
VelCb ==
  /\ pc = "loop"
  /\ vel_fresh' = TRUE /\ brake_pos' = NULL
  /\ Silent
  /\ UNCHANGED <<pc, flight_mode, statusVars, flagVars, pose, yawVars,
                 stickVars, goal, hold, pilotVars, landing, offered>>

-----------------------------------------------------------------------------
(* _control_loop, the 50 Hz timer. *)

\* poll_latest: an alive reader prints the mask every 20 ms and the newest line
\* counts; a reader that has not started, has died or was never there leaves
\* key_mask and active as they are.
PollLatest ==
  IF reader = "alive"
  THEN key_mask' = pressed /\ multi_active' = TRUE
  ELSE UNCHANGED <<key_mask, multi_active>>

\* OFFBOARD_TRAJ: relay the goal, else a fresh velocity, else hold.
RelaySetpoint ==
  IF goal # NULL THEN PositionSetpoint("goal", goal, NULL, NULL)
  ELSE IF vel_fresh THEN VelocitySetpoint("vel", NULL, pose.yaw)
  ELSE PositionSetpoint("hold", hold.pos, hold.height, hold.yaw)

OffboardLoop ==
  /\ pc = "loop" /\ flight_mode = "OFFBOARD_TRAJ"
  /\ PollLatest
  /\ sp' = RelaySetpoint /\ sent' = NULL
  /\ UNCHANGED <<pc, flight_mode, statusVars, flagVars, pose, yawVars,
                 stickVars, planVars, reader, pressed, histVars>>

TakeoffDoneByAltitude == pose.alt >= 18  \* fault: no 8 s limit
TakeoffDone == pose.alt >= 18 \/ takeoff_late

\* MANUAL, climbing to 2 m above the take-off point.
ClimbLoop ==
  /\ pc = "loop" /\ flight_mode = "MANUAL"
  /\ is_taking_off /\ ~TakeoffDone
  /\ PollLatest
  /\ sp' = PositionSetpoint("takeoff", takeoff_pos, 20,
                            IF yaw_initialized THEN target_yaw ELSE NULL)
  /\ sent' = NULL
  /\ UNCHANGED <<pc, flight_mode, statusVars, flagVars, pose, yawVars,
                 stickVars, planVars, reader, pressed, histVars>>

\* _update_multi_key_targets without its Spacebar branch.
Demand(a, mask) ==
  AxisDemand(PlusKey[a] \in mask, MinusKey[a] \in mask, MaxPlus[a], MaxMinus[a])

\* A held W asks PX4 for the offboard mode again whenever it is not in it.
WantsOffboard(mask) ==
  "SPACE" \notin mask /\ "W" \in mask /\ "S" \notin mask /\ is_armed /\ nav_state # "OFFBOARD"

\* The stick targets of one period: what the reader sees, or, without a reader,
\* what the axes whose release timer still runs had before ("base").
TargetsLatched(active, mask, base) ==  \* fault: the release timers do nothing
  IF active
  THEN IF "SPACE" \in mask THEN Zero ELSE [a \in Axes |-> Demand(a, mask)]
  ELSE base
Targets(active, mask, base) ==
  IF active
  THEN IF "SPACE" \in mask THEN Zero ELSE [a \in Axes |-> Demand(a, mask)]
  ELSE [a \in Axes |-> IF a \in held THEN base[a] ELSE 0]

RampedAtOnce(from, to, dt) == to  \* fault: the limiter is bypassed
Ramped(from, to, dt) ==
  [a \in Axes |-> RampValue(from[a], to[a], Accel[a], Decel[a], dt)]

\* The heading lock: while the yaw stick turns, target_yaw runs a little ahead
\* of the vehicle and the setpoint leaves yaw free; the first period without
\* yaw rate locks the current heading.
TurnHeading(locked) ==
  IF cmd'["yaw"] # 0
  THEN /\ was_turning_yaw' = TRUE
       /\ target_yaw' \in Headings
  ELSE /\ was_turning_yaw' = FALSE
       /\ target_yaw' = IF was_turning_yaw THEN pose.yaw ELSE locked

ManualSetpoint ==
  LET psi == IF yaw_initialized THEN target_yaw' ELSE pose.yaw
  IN  IF was_turning_yaw'
      THEN VelocitySetpoint("manual", NULL, pose.yaw)
      ELSE VelocitySetpoint("manual",
                            IF yaw_initialized THEN target_yaw' ELSE NULL, psi)

\* The stick path of one period: the end of a climb, the targets, the ramp, the
\* heading lock and the setpoint.
StickLoop(dt) ==
  LET arrived == is_taking_off
      brake   == multi_active' /\ "SPACE" \in key_mask'
      desBase == IF arrived THEN Zero ELSE des
      cmdBase == IF arrived \/ brake THEN Zero ELSE cmd
  IN  /\ pc = "loop" /\ flight_mode = "MANUAL"
      /\ is_taking_off => TakeoffDone
      /\ PollLatest
      /\ is_taking_off' = FALSE
      /\ is_flying' = (is_flying \/ arrived)
      /\ des' = Targets(multi_active', key_mask', desBase)
      /\ cmd' = Ramped(cmdBase, des', dt)
      /\ TurnHeading(IF arrived \/ brake THEN pose.yaw ELSE target_yaw)
      /\ sp' = ManualSetpoint
      /\ UNCHANGED <<pc, flight_mode, statusVars, takeoff_late, takeoff_pos,
                     pose, yaw_initialized, held, planVars, reader, pressed,
                     histVars>>

ManualLoop(dt) ==
  /\ StickLoop(dt)
  /\ sent' = IF multi_active' /\ WantsOffboard(key_mask') THEN "SET_OFFBOARD" ELSE NULL

-----------------------------------------------------------------------------
(* update_teleop: one key read from the terminal. *)

CentreSticks == des' = Zero /\ cmd' = Zero

\* T, up to its sleep: arm.
KeyTakeoff ==
  /\ pc = "loop" /\ pc' = "arming"
  /\ takeoff_pos' = pose.pos
  /\ target_yaw' = pose.yaw /\ yaw_initialized' = TRUE
  /\ CentreSticks
  /\ Send("ARM")
  /\ brake_pos' = NULL
  /\ UNCHANGED <<flight_mode, statusVars, is_flying, is_taking_off,
                 takeoff_late, pose, was_turning_yaw, held, planVars, pilotVars,
                 landing, offered>>

\* T, after its sleep: ask for the offboard mode and start the take-off.  The
\* flight mode of the node stays what it was.
TakeoffStart ==
  /\ pc = "arming" /\ pc' = "loop"
  /\ Send("SET_OFFBOARD")
  /\ is_taking_off' = TRUE /\ is_flying' = TRUE /\ takeoff_late' = FALSE
  /\ UNCHANGED <<flight_mode, statusVars, takeoff_pos, pose, yawVars,
                 stickVars, planVars, pilotVars, histVars>>

\* 1: back to the pilot.
KeyManual ==
  /\ pc = "loop"
  /\ flight_mode' = "MANUAL" /\ goal' = NULL
  /\ brake_pos' = NULL /\ offered' = {}
  /\ Silent
  /\ UNCHANGED <<pc, statusVars, flagVars, pose, yawVars, stickVars, vel_fresh,
                 hold, pilotVars, landing>>

HoldHeight == IF pose.alt > 3 THEN pose.alt ELSE 20

\* 2: to the planner, holding the place where the key was typed.
KeyOffboard ==
  /\ pc = "loop"
  /\ flight_mode' = "OFFBOARD_TRAJ"
  /\ CentreSticks
  /\ hold' = [pos |-> pose.pos, height |-> HoldHeight, yaw |-> pose.yaw]
  /\ brake_pos' = NULL
  /\ Silent
  /\ UNCHANGED <<pc, statusVars, flagVars, pose, yawVars, held, goal, vel_fresh,
                 pilotVars, landing, offered>>

\* L
KeyLand ==
  /\ pc = "loop"
  /\ Send("NAV_LAND")
  /\ CentreSticks
  /\ is_flying' = FALSE /\ is_taking_off' = FALSE
  /\ brake_pos' = NULL /\ landing' = TRUE
  /\ UNCHANGED <<pc, flight_mode, statusVars, takeoff_late, takeoff_pos, pose,
                 yawVars, held, planVars, pilotVars, offered>>

\* What the Spacebar does in any state.
BrakeSticks == CentreSticks /\ held' = {} /\ target_yaw' = pose.yaw
BrakeKeepsGoal == BrakeSticks /\ UNCHANGED goal  \* fault: the goal survives
Brake == BrakeSticks /\ goal' = NULL

OnGroundWhenClimbing == ~is_flying \/ is_taking_off  \* fault: "or" for "and not"
OnGround == ~is_flying /\ ~is_taking_off

\* Spacebar: the arm toggle on the ground, the brake in flight.
KeySpace ==
  /\ pc = "loop"
  /\ Brake
  /\ IF OnGround THEN Send(IF is_armed THEN "DISARM" ELSE "ARM") ELSE Silent
  /\ brake_pos' = IF OnGround THEN NULL ELSE pose.pos
  /\ offered' = {}
  /\ UNCHANGED <<pc, flight_mode, statusVars, flagVars, pose, yaw_initialized,
                 was_turning_yaw, vel_fresh, hold, pilotVars, landing>>

\* E: motors off, whatever the state.
KeyKill ==
  /\ pc = "loop"
  /\ Send("KILL")
  /\ is_flying' = FALSE /\ is_taking_off' = FALSE
  /\ landing' = TRUE
  /\ UNCHANGED <<pc, flight_mode, statusVars, takeoff_late, takeoff_pos, pose,
                 yawVars, stickVars, planVars, pilotVars, brake_pos, offered>>

LandBeforeExitClimbing ==  \* fault: the wrong flag
  IF is_taking_off THEN Send("NAV_LAND") ELSE Silent
LandBeforeExit == IF is_flying THEN Send("NAV_LAND") ELSE Silent

\* Q: land when flying, then leave the main loop.
KeyQuit ==
  /\ pc = "loop" /\ pc' = "exited"
  /\ LandBeforeExit
  /\ UNCHANGED <<flight_mode, statusVars, flagVars, pose, yawVars, stickVars,
                 planVars, pilotVars, histVars>>

FallbackAlways == ~multi_active  \* fault: the mode is not looked at
FallbackOpen == ~multi_active /\ flight_mode = "MANUAL"

\* The terminal fallback: a stick key deflects its axis and restarts the release
\* timer of the axis.  It is dead while the Win32 reader works or the planner
\* flies.
KeyStick(a, dir) ==
  /\ pc = "loop"
  /\ FallbackOpen
  /\ des' = [des EXCEPT ![a] = IF dir = 1 THEN MaxPlus[a] ELSE -MaxMinus[a]]
  /\ held' = held \cup {a}
  /\ Silent
  /\ UNCHANGED <<pc, flight_mode, statusVars, flagVars, pose, yawVars, cmd,
                 planVars, pilotVars, histVars>>

Key(k) ==
  \/ k = "T" /\ KeyTakeoff
  \/ k = "1" /\ KeyManual
  \/ k = "2" /\ KeyOffboard
  \/ k = "L" /\ KeyLand
  \/ k = "SPACE" /\ KeySpace
  \/ k = "E" /\ KeyKill
  \/ k = "Q" /\ KeyQuit
  \/ \E a \in Axes : \/ k = PlusKey[a] /\ KeyStick(a, 1)
                     \/ k = MinusKey[a] /\ KeyStick(a, -1)

-----------------------------------------------------------------------------
(* Time, the pilot's fingers, the helper process and the shell. *)

Unmoved == <<pc, flight_mode, statusVars, is_flying, is_taking_off, takeoff_pos,
             pose, yawVars, des, cmd, goal, hold, key_mask, multi_active,
             histVars>>

TakeoffTimeout ==
  /\ is_taking_off /\ ~takeoff_late /\ pc # "exited"
  /\ takeoff_late' = TRUE
  /\ Silent
  /\ UNCHANGED <<Unmoved, held, vel_fresh, reader, pressed>>

VelTimeout ==
  /\ vel_fresh /\ pc # "exited"
  /\ vel_fresh' = FALSE
  /\ Silent
  /\ UNCHANGED <<Unmoved, takeoff_late, held, reader, pressed>>

ReleaseTimeout(a) ==
  /\ a \in held /\ pc # "exited"
  /\ held' = held \ {a}
  /\ Silent
  /\ UNCHANGED <<Unmoved, takeoff_late, vel_fresh, reader, pressed>>

\* The pilot presses and releases keys of the Windows keyboard.
PressKeys(m) ==
  /\ reader \in {"alive", "dead"} /\ m # pressed /\ pc # "exited"
  /\ pressed' = m
  /\ Silent
  /\ UNCHANGED <<Unmoved, takeoff_late, held, vel_fresh, reader>>

\* powershell.exe prints its first line, or ends.
ReaderStart ==
  /\ reader = "starting" /\ pc # "exited"
  /\ reader' = "alive"
  /\ Silent
  /\ UNCHANGED <<Unmoved, takeoff_late, held, vel_fresh, pressed>>

ReaderDie ==
  /\ reader \in {"starting", "alive"} /\ pc # "exited"
  /\ reader' = "dead"
  /\ Silent
  /\ UNCHANGED <<Unmoved, takeoff_late, held, vel_fresh, pressed>>

\* SIGINT from outside the raw terminal: rclpy.ok() turns false, main() leaves
\* its loop and publishes nothing more.
Interrupt ==
  /\ pc = "loop" /\ pc' = "exited"
  /\ Silent
  /\ UNCHANGED <<flight_mode, statusVars, flagVars, pose, yawVars, stickVars,
                 planVars, pilotVars, histVars>>

ControlLoop == OffboardLoop \/ ClimbLoop \/ \E dt \in DtSteps : ManualLoop(dt)

Next ==
  \/ \E armed \in BOOLEAN, nav \in NavStates : StatusCb(armed, nav)
  \/ \E alt \in Alts, p \in Positions, y \in Headings : PosCb(alt, p, y)
  \/ \E p \in Positions : GoalCb(p)
  \/ VelCb
  \/ OffboardLoop
  \/ ClimbLoop
  \/ \E dt \in DtSteps : ManualLoop(dt)
  \/ \E k \in Keys : Key(k)
  \/ TakeoffStart
  \/ TakeoffTimeout
  \/ VelTimeout
  \/ \E a \in Axes : ReleaseTimeout(a)
  \/ \E m \in Masks : PressKeys(m)
  \/ ReaderStart
  \/ ReaderDie
  \/ Interrupt

Spec == Init /\ [][Next]_vars

\* The 50 Hz timer keeps firing, the T handler wakes from its sleep, and the
\* wall clock passes every deadline.  Nothing is assumed of PX4, of the planner
\* or of the pilot.
Fairness ==
  /\ WF_vars(ControlLoop)
  /\ WF_vars(TakeoffStart)
  /\ WF_vars(TakeoffTimeout)
  /\ \A a \in Axes : WF_vars(ReleaseTimeout(a))

FairSpec == Spec /\ Fairness

-----------------------------------------------------------------------------
(* Properties. *)

Setpoints ==
  [kind : {"none", "goal", "vel", "hold", "takeoff", "manual"},
   pos : Positions \cup {NULL}, height : Int \cup {NULL},
   yaw : Headings \cup {NULL}, frame : Headings \cup {NULL}]

\* Every variable stays in its range; in particular no sequence of stick keys,
\* ramps, brakes and take-offs commands more than a full deflection of an axis,
\* and the place to hold is never on the ground.
TypeOK ==
  /\ pc \in {"loop", "arming", "exited"}
  /\ flight_mode \in {"MANUAL", "OFFBOARD_TRAJ"}
  /\ is_armed \in BOOLEAN /\ nav_state \in NavStates
  /\ is_flying \in BOOLEAN /\ is_taking_off \in BOOLEAN
  /\ takeoff_late \in BOOLEAN /\ takeoff_pos \in Positions
  /\ pose \in [alt : Alts, pos : Positions, yaw : Headings]
  /\ yaw_initialized \in BOOLEAN /\ target_yaw \in Headings
  /\ was_turning_yaw \in BOOLEAN
  /\ hold \in [pos : Positions, height : Int, yaw : Headings] /\ hold.height > 3
  /\ des \in [Axes -> Int] /\ cmd \in [Axes -> Int]
  /\ \A a \in Axes : /\ des[a] \in -MaxMinus[a] .. MaxPlus[a]
                     /\ cmd[a] \in -MaxMinus[a] .. MaxPlus[a]
  /\ held \subseteq Axes
  /\ goal \in Positions \cup {NULL} /\ vel_fresh \in BOOLEAN
  /\ reader \in {"none", "starting", "alive", "dead"}
  /\ pressed \subseteq StickKeys \cup {"SPACE"}
  /\ key_mask \subseteq StickKeys \cup {"SPACE"}
  /\ multi_active \in BOOLEAN
  /\ sp \in Setpoints /\ sent \in Commands \cup {NULL}
  /\ brake_pos \in Positions \cup {NULL} /\ landing \in BOOLEAN
  /\ offered \subseteq Positions

\* The safety gate (module docstring, line 20; "2" locks the manual keys): while
\* the planner flies, no stick deflection is asked for or ramped, so neither a
\* held key, a late release timer nor the ramp reaches the vehicle, and the
\* sticks start from rest when the pilot takes over again.
SafetyGate ==
  flight_mode = "OFFBOARD_TRAJ" => des = Zero /\ cmd = Zero /\ sp.kind # "manual"

\* The slew-rate limiter as PX4 sees it: from one step to the next an axis is
\* stopped at once or moves by at most the deceleration (or acceleration) of the
\* longest period, and it moves towards the deflection asked for, never past it.
SlewLimited ==
  [][\A a \in Axes :
       \/ cmd'[a] = cmd[a]
       \/ cmd'[a] = 0
       \/ /\ \E dt \in DtSteps :
               Abs(cmd'[a] - cmd[a]) <= dt * (IF Accel[a] < Decel[a] THEN Decel[a]
                                              ELSE Accel[a])
          /\ \/ cmd[a] < cmd'[a] /\ cmd'[a] <= des'[a]
             \/ cmd[a] > cmd'[a] /\ cmd'[a] >= des'[a]]_vars

\* A vehicle last seen above 0.5 m is known to fly: one of the two flags that
\* keep the Spacebar from disarming is up, unless L or E was typed since that
\* sample.
AirborneIsFlagged == pose.alt > 5 => is_flying \/ is_taking_off \/ landing

\* The Spacebar never asks PX4 to disarm a vehicle last seen above 0.5 m, but in
\* the window between L or E and the next position sample.
ToggleOnGround == sent = "DISARM" => pose.alt <= 5 \/ landing

\* Q leaves no vehicle behind in the air without a landing command, but in the
\* same window.
QuitLands ==
  [][KeyQuit => pose.alt <= 5 \/ landing \/ sent' = "NAV_LAND"]_vars

\* Which planner goals may be flown: those received since the pilot's last 1 or
\* Spacebar and no other, however often 2 has entered the planner mode since and
\* whatever T, L, E and the samples did in between.  Such a goal is never lost
\* either: until the next 1 or Spacebar neither a velocity command nor the hold
\* place takes its turn.  A goal received in manual mode counts; it has no age.
GoalSinceRecall ==
  /\ sp.kind = "goal" => sp.pos \in offered
  /\ sp.kind \in {"vel", "hold"} => offered = {}

\* The brake in flight holds the place where it was typed: until the planner or
\* the pilot commands something else, a hold setpoint names that place.
BrakeInPlace == brake_pos # NULL /\ sp.kind = "hold" => sp.pos = brake_pos

\* An automatic take-off of a pilot in manual mode ends, by altitude or by its
\* 8 s limit, once the pilot leaves T alone.
TakeoffResolves ==
  <>[][~KeyTakeoff]_vars =>
    (is_taking_off ~> (~is_taking_off \/ flight_mode # "MANUAL" \/ pc = "exited"))

\* Releasing the keys brakes to a hover (module docstring, line 14): once no key
\* is typed or held and the reader, if it ever started, stays alive, the commanded
\* sticks come to rest.
ReleaseStops ==
  <>[][\A k \in Keys : ~Key(k)]_vars /\ <>[](pressed = {} /\ reader # "dead")
    => <>[](cmd = Zero \/ pc = "exited")
=============================================================================
