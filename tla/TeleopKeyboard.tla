--------------------------- MODULE TeleopKeyboard ---------------------------
(***************************************************************************)
(* teleop_keyboard.py: the flight manager's predecessor, which a pilot may *)
(* start in its place.  It has no planner mode, so that mode, goal, planner *)
(* velocity and hold place of FlightManager keep their initial values; its *)
(* Spacebar brakes but never arms or disarms, a held W does not ask PX4 for *)
(* the offboard mode again, and there is no motor stop.  The rest is what   *)
(* the manager does in MANUAL, under its names.  The teleop counts vy       *)
(* positive to the left, the manager to the right: "vy" is here the axis    *)
(* towards the right in both, which changes nothing, for full deflection    *)
(* and rates of vy are the same on either side.                             *)
(***************************************************************************)
EXTENDS FlightManager

TeleopInit == Init

TeleopStatusCb(armed, nav) == StatusCb(armed, nav)

TeleopPosCb(alt, p, y) == PosCb(alt, p, y)

\* _control_loop while a take-off climbs.
TeleopClimb == ClimbLoop

\* _control_loop otherwise: the sticks and nothing else.
TeleopLoop(dt) == StickLoop(dt) /\ sent' = NULL

TeleopControlLoop == TeleopClimb \/ \E dt \in DtSteps : TeleopLoop(dt)

\* T up to its sleep, and after it.
TeleopTakeoff == KeyTakeoff
TeleopTakeoffStart == TakeoffStart

TeleopLand == KeyLand

\* The Spacebar: the brake, on the ground as in flight.
TeleopBrake ==
  /\ pc = "loop"
  /\ BrakeSticks
  /\ Silent
  /\ UNCHANGED <<pc, flight_mode, statusVars, flagVars, pose, yaw_initialized,
                 was_turning_yaw, planVars, pilotVars, histVars>>

TeleopQuit == KeyQuit

TeleopStick(a, dir) == KeyStick(a, dir)

TeleopKey(k) ==
  \/ k = "T" /\ TeleopTakeoff
  \/ k = "L" /\ TeleopLand
  \/ k = "SPACE" /\ TeleopBrake
  \/ k = "Q" /\ TeleopQuit
  \/ \E a \in Axes : \/ k = PlusKey[a] /\ TeleopStick(a, 1)
                     \/ k = MinusKey[a] /\ TeleopStick(a, -1)

\* The Win32 reader process and the wall clock.
TeleopReader ==
  \/ ReaderStart
  \/ ReaderDie
  \/ \E m \in Masks : PressKeys(m)

TeleopTimeout ==
  \/ TakeoffTimeout
  \/ \E a \in Axes : ReleaseTimeout(a)

\* main(), and a SIGINT that ends it.
TeleopNext ==
  \/ \E armed \in BOOLEAN, nav \in NavStates : TeleopStatusCb(armed, nav)
  \/ \E alt \in Alts, p \in Positions, y \in Headings : TeleopPosCb(alt, p, y)
  \/ TeleopControlLoop
  \/ \E k \in Keys : TeleopKey(k)
  \/ TeleopTakeoffStart
  \/ TeleopReader
  \/ TeleopTimeout
  \/ Interrupt

TeleopSpec == TeleopInit /\ [][TeleopNext]_vars

\* The same timer, sleep and clock as the manager's.
TeleopFairness ==
  /\ WF_vars(TeleopControlLoop)
  /\ WF_vars(TeleopTakeoffStart)
  /\ WF_vars(TakeoffTimeout)
  /\ \A a \in Axes : WF_vars(ReleaseTimeout(a))
=============================================================================
