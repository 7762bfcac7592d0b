------------------------ MODULE FlightManagerProofs ------------------------
(***************************************************************************)
(* Proofs about FlightManager and TeleopKeyboard for every set of axes,    *)
(* deflections, rates, altitudes, positions, keys and masks.               *)
(***************************************************************************)
EXTENDS TeleopKeyboard, TLAPS

-----------------------------------------------------------------------------
(* The limiter and the key-to-stick map. *)

\* ramp_value answers with a value between where the stick is and where it is
\* asked to be: it can neither overshoot nor move away.
LEMMA RampBetween ==
  ASSUME NEW current \in Int, NEW target \in Int, NEW dt \in Nat,
         NEW accel \in Nat, NEW decel \in Nat
  PROVE  /\ RampValue(current, target, accel, decel, dt) \in Int
         /\ current <= target
              => /\ current <= RampValue(current, target, accel, decel, dt)
                 /\ RampValue(current, target, accel, decel, dt) <= target
         /\ target <= current
              => /\ target <= RampValue(current, target, accel, decel, dt)
                 /\ RampValue(current, target, accel, decel, dt) <= current
<1> DEFINE step == RampRate(current, target, accel, decel) * dt
<1>1. RampRate(current, target, accel, decel) \in Nat
  BY DEF RampRate
<1>2. step \in Nat
  BY <1>1
<1> HIDE DEF step
<1>3. RampValue(current, target, accel, decel, dt)
        = IF target > current
          THEN IF current + step < target THEN current + step ELSE target
          ELSE IF current - step > target THEN current - step ELSE target
  BY DEF RampValue, step
<1> QED
  BY <1>2, <1>3

\* One period of ramp_value moves the stick by at most the larger rate times
\* the period.
LEMMA RampStep ==
  ASSUME NEW current \in Int, NEW target \in Int, NEW dt \in Nat,
         NEW accel \in Nat, NEW decel \in Nat
  PROVE  Abs(RampValue(current, target, accel, decel, dt) - current)
           <= dt * (IF accel < decel THEN decel ELSE accel)
<1> DEFINE rate == RampRate(current, target, accel, decel)
           top  == IF accel < decel THEN decel ELSE accel
<1>1. rate \in Nat /\ top \in Nat /\ rate <= top
  BY DEF RampRate
<1> HIDE DEF rate, top
<1>2. rate * dt \in Nat /\ dt * top \in Nat /\ rate * dt <= dt * top
  BY <1>1
<1> DEFINE step == rate * dt
<1>3. RampValue(current, target, accel, decel, dt)
        = IF target > current
          THEN IF current + step < target THEN current + step ELSE target
          ELSE IF current - step > target THEN current - step ELSE target
  BY DEF RampValue, rate
<1>4. step \in Nat /\ step <= dt * top
  BY <1>2
<1> HIDE DEF step
<1>5. Abs(RampValue(current, target, accel, decel, dt) - current) <= step
  BY <1>3, <1>4 DEF Abs
<1>6. RampValue(current, target, accel, decel, dt) \in Int
  BY <1>3, <1>4
<1>7. Abs(RampValue(current, target, accel, decel, dt) - current) \in Int
  BY <1>6 DEF Abs
<1>8. Abs(RampValue(current, target, accel, decel, dt) - current) <= dt * top
  BY <1>2, <1>4, <1>5, <1>7
<1> QED
  BY <1>8 DEF top

-----------------------------------------------------------------------------
(* Type correctness. *)

\* The range of one axis.
Range1(a) == -MaxMinus[a] .. MaxPlus[a]

\* The stick part of TypeOK.
SticksOK(d, c) ==
  /\ d \in [Axes -> Int] /\ c \in [Axes -> Int]
  /\ \A a \in Axes : d[a] \in Range1(a) /\ c[a] \in Range1(a)

LEMMA RangeFacts ==
  ASSUME NEW a \in Axes
  PROVE  /\ MaxPlus[a] \in Nat \ {0} /\ MaxMinus[a] \in Nat \ {0}
         /\ Accel[a] \in Nat \ {0} /\ Decel[a] \in Nat \ {0}
         /\ 0 \in Range1(a) /\ MaxPlus[a] \in Range1(a) /\ -MaxMinus[a] \in Range1(a)
  BY AxesAssumption DEF Range1

LEMMA ZeroOK == SticksOK(Zero, Zero)
  BY RangeFacts DEF SticksOK, Zero

\* Whatever is held, in the reader or in the terminal, the targets are in range.
LEMMA TargetsOK ==
  ASSUME NEW active, NEW mask, NEW base \in [Axes -> Int],
         \A a \in Axes : base[a] \in Range1(a)
  PROVE  /\ Targets(active, mask, base) \in [Axes -> Int]
         /\ \A a \in Axes : Targets(active, mask, base)[a] \in Range1(a)
<1>1. ASSUME NEW a \in Axes PROVE Demand(a, mask) \in Range1(a) /\ Demand(a, mask) \in Int
  <2>1. Demand(a, mask) \in {MaxPlus[a], -MaxMinus[a], 0}
    BY DEF Demand, AxisDemand
  <2> QED BY <2>1, RangeFacts DEF Range1
<1>2. CASE active /\ "SPACE" \in mask
  BY <1>2, ZeroOK DEF Targets, SticksOK
<1>3. CASE active /\ "SPACE" \notin mask
  BY <1>1, <1>3 DEF Targets
<1>4. CASE ~active
  BY <1>4, RangeFacts DEF Targets
<1> QED BY <1>2, <1>3, <1>4

\* A ramp between two stick positions in range stays in range.
LEMMA RampedOK ==
  ASSUME NEW from, NEW to, SticksOK(to, from), NEW dt \in DtSteps
  PROVE  SticksOK(to, Ramped(from, to, dt))
<1>1. ASSUME NEW a \in Axes
      PROVE  Ramped(from, to, dt)[a] \in Range1(a) /\ Ramped(from, to, dt)[a] \in Int
  <2>1. /\ from[a] \in Int /\ to[a] \in Int /\ dt \in Nat
        /\ from[a] \in Range1(a) /\ to[a] \in Range1(a)
    BY AxesAssumption DEF SticksOK
  <2>2. Ramped(from, to, dt)[a] = RampValue(from[a], to[a], Accel[a], Decel[a], dt)
    BY DEF Ramped
  <2>3. /\ Ramped(from, to, dt)[a] \in Int
        /\ from[a] <= to[a] => from[a] <= Ramped(from, to, dt)[a]
                               /\ Ramped(from, to, dt)[a] <= to[a]
        /\ to[a] <= from[a] => to[a] <= Ramped(from, to, dt)[a]
                               /\ Ramped(from, to, dt)[a] <= from[a]
    <3>1. Accel[a] \in Nat /\ Decel[a] \in Nat /\ from[a] \in Int /\ to[a] \in Int /\ dt \in Nat
      BY <2>1, RangeFacts
    <3> DEFINE r == RampValue(from[a], to[a], Accel[a], Decel[a], dt)
    <3>2. /\ r \in Int
          /\ from[a] <= to[a] => from[a] <= r /\ r <= to[a]
          /\ to[a] <= from[a] => to[a] <= r /\ r <= from[a]
      BY <3>1, RampBetween
    <3>3. Ramped(from, to, dt)[a] = r
      BY <2>2
    <3> QED BY <3>2, <3>3
  <2> QED BY <2>1, <2>3, RangeFacts DEF Range1
<1>2. Ramped(from, to, dt) \in [Axes -> Int]
  <2>1. Ramped(from, to, dt)
          = [a \in Axes |-> RampValue(from[a], to[a], Accel[a], Decel[a], dt)]
    BY DEF Ramped
  <2> QED BY <1>1, <2>1
<1> QED BY <1>1, <1>2 DEF SticksOK

LEMMA InitTypeOK == Init => TypeOK
<1> SUFFICES ASSUME Init PROVE TypeOK
  OBVIOUS
<1>1. SticksOK(des, cmd)
  BY ZeroOK DEF Init
<1>2. /\ pose \in [alt : Alts, pos : Positions, yaw : Headings]
      /\ hold \in [pos : Positions, height : Int, yaw : Headings] /\ hold.height > 3
  BY WorldAssumption DEF Init
<1>3. sp \in Setpoints
  BY DEF Init, NoSetpoint, Setpoints
<1>4. reader \in {"none", "starting", "alive", "dead"}
  BY DEF Init
<1> QED
  BY <1>1, <1>2, <1>3, <1>4, WorldAssumption DEF Init, TypeOK, SticksOK, Range1

\* TypeOK without the sticks and the outputs, whose lemmas are above and below.
LEMMA TypeOKSplit ==
  ASSUME TypeOK
  PROVE  SticksOK(des, cmd)
  BY DEF TypeOK, SticksOK, Range1

LEMMA SilentOK == NoSetpoint \in Setpoints
  BY DEF NoSetpoint, Setpoints

\* One period of the stick path keeps the sticks in range.
LEMMA StickLoopSticks ==
  ASSUME TypeOK, NEW dt \in DtSteps, StickLoop(dt)
  PROVE  SticksOK(des', cmd')
<1> DEFINE brake == multi_active' /\ "SPACE" \in key_mask'
           desBase == IF is_taking_off THEN Zero ELSE des
           cmdBase == IF is_taking_off \/ brake THEN Zero ELSE cmd
<1>1. SticksOK(des, cmd) /\ SticksOK(Zero, Zero)
  BY TypeOKSplit, ZeroOK
<1>2. SticksOK(desBase, cmdBase)
  BY <1>1 DEF SticksOK
<1>3. /\ des' = Targets(multi_active', key_mask', desBase)
      /\ cmd' = Ramped(cmdBase, des', dt)
  BY DEF StickLoop
<1> HIDE DEF desBase, cmdBase
<1>4. /\ des' \in [Axes -> Int]
      /\ \A a \in Axes : des'[a] \in Range1(a)
  BY <1>2, <1>3, TargetsOK DEF SticksOK
<1>5. SticksOK(des', cmdBase)
  BY <1>2, <1>4 DEF SticksOK
<1> QED
  BY <1>3, <1>5, RampedOK

\* Reading the helper's masks keeps what is known of them.
LEMMA PollOK ==
  ASSUME TypeOK, PollLatest
  PROVE  key_mask' \subseteq StickKeys \cup {"SPACE"} /\ multi_active' \in BOOLEAN
  BY DEF TypeOK, PollLatest

LEMMA StickLoopOutput ==
  ASSUME TypeOK, NEW dt \in DtSteps, StickLoop(dt)
  PROVE  /\ was_turning_yaw' \in BOOLEAN /\ target_yaw' \in Headings
         /\ sp' \in Setpoints
         /\ key_mask' \subseteq StickKeys \cup {"SPACE"} /\ multi_active' \in BOOLEAN
<1>1. /\ pose.yaw \in Headings /\ yaw_initialized \in BOOLEAN
      /\ target_yaw \in Headings
  BY DEF TypeOK
<1>2. was_turning_yaw' \in BOOLEAN /\ target_yaw' \in Headings
  BY <1>1 DEF StickLoop, TurnHeading
<1>3. sp' \in Setpoints
  BY <1>1, <1>2 DEF StickLoop, ManualSetpoint, VelocitySetpoint, Setpoints
<1>4. key_mask' \subseteq StickKeys \cup {"SPACE"} /\ multi_active' \in BOOLEAN
  BY DEF StickLoop, PollLatest, TypeOK
<1> QED BY <1>2, <1>3, <1>4

\* With any command of the node, or none, a period of the stick path keeps TypeOK.
LEMMA StickLoopTypeOK ==
  ASSUME TypeOK, NEW dt \in DtSteps, StickLoop(dt), sent' \in Commands \cup {NULL}
  PROVE  TypeOK'
<1>1. SticksOK(des', cmd')
  BY StickLoopSticks
<1>2. /\ was_turning_yaw' \in BOOLEAN /\ target_yaw' \in Headings
      /\ sp' \in Setpoints
      /\ key_mask' \subseteq StickKeys \cup {"SPACE"} /\ multi_active' \in BOOLEAN
  BY StickLoopOutput
<1>3. /\ UNCHANGED <<pc, flight_mode, is_armed, nav_state, takeoff_late,
                     takeoff_pos, pose, yaw_initialized, held, goal, vel_fresh,
                     hold, reader, pressed, brake_pos, landing, offered>>
      /\ is_taking_off' \in BOOLEAN /\ is_flying' \in BOOLEAN
  BY DEF StickLoop, TypeOK, statusVars, planVars, histVars
<1> QED BY <1>1, <1>2, <1>3 DEF TypeOK, SticksOK, Range1

\* The variables that a brake leaves alone keep their types.
LEMMA StayTyped ==
  ASSUME TypeOK,
         UNCHANGED <<pc, flight_mode, is_armed, nav_state, is_flying, is_taking_off,
                     takeoff_late, takeoff_pos, pose, yaw_initialized,
                     was_turning_yaw, vel_fresh, hold, reader, pressed, key_mask,
                     multi_active, landing>>,
         SticksOK(des', cmd'), target_yaw' \in Headings, held' \subseteq Axes,
         goal' \in Positions \cup {NULL}, brake_pos' \in Positions \cup {NULL},
         offered' \subseteq Positions,
         sp' \in Setpoints, sent' \in Commands \cup {NULL}
  PROVE  TypeOK'
  BY DEF TypeOK, SticksOK, Range1

LEMMA SpaceTypeOK ==
  ASSUME TypeOK, KeySpace
  PROVE  TypeOK'
<1> USE DEF statusVars, flagVars, pilotVars
<1>1. SticksOK(des', cmd') /\ target_yaw' \in Headings /\ held' \subseteq Axes
  BY ZeroOK DEF KeySpace, Brake, BrakeSticks, CentreSticks, TypeOK
<1>2. /\ goal' \in Positions \cup {NULL} /\ brake_pos' \in Positions \cup {NULL}
      /\ offered' \subseteq Positions
  BY DEF KeySpace, Brake, TypeOK
<1>3. sp' \in Setpoints /\ sent' \in Commands \cup {NULL}
  BY SilentOK DEF KeySpace, Send, Silent, Commands
<1>4. UNCHANGED <<pc, flight_mode, is_armed, nav_state, is_flying, is_taking_off,
                  takeoff_late, takeoff_pos, pose, yaw_initialized,
                  was_turning_yaw, vel_fresh, hold, reader, pressed, key_mask,
                  multi_active, landing>>
  BY DEF KeySpace
<1> QED BY <1>1, <1>2, <1>3, <1>4, StayTyped

LEMMA KillTypeOK ==
  ASSUME TypeOK, KeyKill
  PROVE  TypeOK'
<1>1. sp' \in Setpoints /\ sent' \in Commands \cup {NULL}
  BY SilentOK DEF KeyKill, Send, Commands
<1>2. /\ is_flying' = FALSE /\ is_taking_off' = FALSE /\ landing' = TRUE
      /\ UNCHANGED <<pc, flight_mode, is_armed, nav_state, takeoff_late, takeoff_pos,
                     pose, yaw_initialized, target_yaw, was_turning_yaw, des, cmd,
                     held, goal, vel_fresh, hold, reader, pressed, key_mask,
                     multi_active, brake_pos, offered>>
  BY DEF KeyKill, statusVars, yawVars, stickVars, planVars, pilotVars
<1>3. SticksOK(des', cmd')
  BY <1>2 DEF TypeOK, SticksOK, Range1
<1>4. /\ pc' \in {"loop", "arming", "exited"}
      /\ flight_mode' \in {"MANUAL", "OFFBOARD_TRAJ"}
      /\ is_armed' \in BOOLEAN /\ nav_state' \in NavStates
      /\ is_flying' \in BOOLEAN /\ is_taking_off' \in BOOLEAN
      /\ takeoff_late' \in BOOLEAN /\ takeoff_pos' \in Positions
  BY <1>2 DEF TypeOK
<1>5. /\ pose' \in [alt : Alts, pos : Positions, yaw : Headings]
      /\ yaw_initialized' \in BOOLEAN /\ target_yaw' \in Headings
      /\ was_turning_yaw' \in BOOLEAN
      /\ hold' \in [pos : Positions, height : Int, yaw : Headings] /\ hold'.height > 3
  BY <1>2 DEF TypeOK
<1>6. /\ held' \subseteq Axes
      /\ goal' \in Positions \cup {NULL} /\ vel_fresh' \in BOOLEAN
      /\ reader' \in {"none", "starting", "alive", "dead"}
      /\ pressed' \subseteq StickKeys \cup {"SPACE"}
      /\ key_mask' \subseteq StickKeys \cup {"SPACE"}
      /\ multi_active' \in BOOLEAN
      /\ brake_pos' \in Positions \cup {NULL} /\ landing' \in BOOLEAN
      /\ offered' \subseteq Positions
  BY <1>2 DEF TypeOK
<1> QED BY <1>1, <1>3, <1>4, <1>5, <1>6 DEF TypeOK, SticksOK, Range1

LEMMA NextTypeOK == TypeOK /\ [Next]_vars => TypeOK'
<1> SUFFICES ASSUME TypeOK, [Next]_vars PROVE TypeOK'
  OBVIOUS
<1> USE DEF statusVars, flagVars, yawVars, stickVars, planVars, pilotVars, histVars
<1>1. ASSUME NEW armed \in BOOLEAN, NEW nav \in NavStates, StatusCb(armed, nav)
      PROVE  TypeOK'
  BY <1>1, SilentOK DEF StatusCb, TypeOK, Silent
<1>2. ASSUME NEW alt \in Alts, NEW p \in Positions, NEW y \in Headings,
             PosCb(alt, p, y)
      PROVE  TypeOK'
  <2>1. pose' \in [alt : Alts, pos : Positions, yaw : Headings]
    BY <1>2 DEF PosCb
  <2>2. is_flying' \in BOOLEAN /\ target_yaw' \in Headings
    BY <1>2 DEF PosCb, Airborne, TypeOK
  <2>3. sp' \in Setpoints /\ sent' \in Commands \cup {NULL}
    BY <1>2, SilentOK DEF PosCb, Silent
  <2>4. /\ yaw_initialized' = TRUE /\ landing' = FALSE
        /\ UNCHANGED <<pc, flight_mode, is_armed, nav_state, is_taking_off,
                       takeoff_late, takeoff_pos, was_turning_yaw, hold, des, cmd,
                       held, goal, vel_fresh, reader, pressed, key_mask,
                       multi_active, brake_pos, offered>>
    BY <1>2 DEF PosCb
  <2>5. SticksOK(des, cmd)'
    BY <2>4 DEF TypeOK, SticksOK, Range1
  <2>6. /\ pc' \in {"loop", "arming", "exited"}
        /\ flight_mode' \in {"MANUAL", "OFFBOARD_TRAJ"}
        /\ is_armed' \in BOOLEAN /\ nav_state' \in NavStates
        /\ is_taking_off' \in BOOLEAN
        /\ takeoff_late' \in BOOLEAN /\ takeoff_pos' \in Positions
    BY <2>4 DEF TypeOK
  <2>7. /\ yaw_initialized' \in BOOLEAN
        /\ was_turning_yaw' \in BOOLEAN
        /\ hold' \in [pos : Positions, height : Int, yaw : Headings]
                     /\ hold'.height > 3
    BY <2>4 DEF TypeOK
  <2>8. /\ held' \subseteq Axes
        /\ goal' \in Positions \cup {NULL} /\ vel_fresh' \in BOOLEAN
        /\ reader' \in {"none", "starting", "alive", "dead"}
    BY <2>4 DEF TypeOK
  <2>9. /\ pressed' \subseteq StickKeys \cup {"SPACE"}
        /\ key_mask' \subseteq StickKeys \cup {"SPACE"}
        /\ multi_active' \in BOOLEAN
        /\ brake_pos' \in Positions \cup {NULL}
        /\ landing' \in BOOLEAN /\ offered' \subseteq Positions
    BY <2>4 DEF TypeOK
  <2> QED BY <2>1, <2>2, <2>3, <2>5, <2>6, <2>7, <2>8, <2>9 DEF TypeOK, SticksOK, Range1
<1>3. ASSUME NEW p \in Positions, GoalCb(p) PROVE TypeOK'
  BY <1>3, SilentOK DEF GoalCb, TypeOK, Silent
<1>4. CASE VelCb
  BY <1>4, SilentOK DEF VelCb, TypeOK, Silent
<1>5. CASE OffboardLoop
  <2>1. sp' \in Setpoints
    BY <1>5 DEF OffboardLoop, RelaySetpoint, PositionSetpoint, VelocitySetpoint,
                Setpoints, TypeOK
  <2>2. key_mask' \subseteq StickKeys \cup {"SPACE"} /\ multi_active' \in BOOLEAN
    BY <1>5, PollOK DEF OffboardLoop
  <2> QED BY <1>5, <2>1, <2>2 DEF OffboardLoop, TypeOK
<1>6. CASE ClimbLoop
  <2>1. sp' \in Setpoints
    BY <1>6 DEF ClimbLoop, PositionSetpoint, Setpoints, TypeOK
  <2>2. key_mask' \subseteq StickKeys \cup {"SPACE"} /\ multi_active' \in BOOLEAN
    BY <1>6, PollOK DEF ClimbLoop
  <2> QED BY <1>6, <2>1, <2>2 DEF ClimbLoop, TypeOK
<1>7. ASSUME NEW dt \in DtSteps, ManualLoop(dt) PROVE TypeOK'
  <2>1. StickLoop(dt) /\ sent' \in Commands \cup {NULL}
    BY <1>7 DEF ManualLoop, Commands
  <2> QED BY <2>1, StickLoopTypeOK
<1>8. ASSUME NEW k \in Keys, Key(k) PROVE TypeOK'
  <2> USE ZeroOK, SilentOK DEF CentreSticks, Send, Silent, SticksOK, Range1, Commands
  <2>1. CASE KeyTakeoff
    BY <2>1 DEF KeyTakeoff, TypeOK
  <2>2. CASE KeyManual
    BY <2>2 DEF KeyManual, TypeOK
  <2>3. CASE KeyOffboard
    <3>1. pose.alt \in Int /\ pose.pos \in Positions /\ pose.yaw \in Headings
      BY WorldAssumption DEF TypeOK
    <3>2. HoldHeight \in Int /\ HoldHeight > 3
      BY <3>1 DEF HoldHeight
    <3>3. hold' = [pos |-> pose.pos, height |-> HoldHeight, yaw |-> pose.yaw]
      BY <2>3 DEF KeyOffboard
    <3>4. hold' \in [pos : Positions, height : Int, yaw : Headings] /\ hold'.height > 3
      BY <3>1, <3>2, <3>3
    <3> QED BY <2>3, <3>4 DEF KeyOffboard, TypeOK
  <2>4. CASE KeyLand
    BY <2>4, ZenonT(40) DEF KeyLand, TypeOK
  <2>5. CASE KeySpace
    BY <2>5, SpaceTypeOK
  <2>6. CASE KeyKill
    BY <2>6, KillTypeOK
  <2>7. CASE KeyQuit
    BY <2>7 DEF KeyQuit, LandBeforeExit, TypeOK
  <2>8. ASSUME NEW a \in Axes, NEW dir \in {1, -1}, KeyStick(a, dir) PROVE TypeOK'
    <3>1. des' \in [Axes -> Int] /\ \A b \in Axes : des'[b] \in Range1(b)
      BY <2>8, RangeFacts DEF KeyStick, TypeOK
    <3> QED BY <2>8, <3>1 DEF KeyStick, TypeOK
  <2> QED BY <1>8, <2>1, <2>2, <2>3, <2>4, <2>5, <2>6, <2>7, <2>8 DEF Key
<1>9. CASE TakeoffStart
  BY <1>9, SilentOK, ZenonT(40) DEF TakeoffStart, Send, Commands, TypeOK
<1>10. CASE TakeoffTimeout
  BY <1>10, SilentOK DEF TakeoffTimeout, Unmoved, Silent, TypeOK
<1>11. CASE VelTimeout
  <2>1. vel_fresh' \in BOOLEAN /\ sp' \in Setpoints /\ sent' \in Commands \cup {NULL}
    BY <1>11, SilentOK DEF VelTimeout, Silent
  <2>2. UNCHANGED <<pc, flight_mode, is_armed, nav_state, is_flying, is_taking_off,
                    takeoff_late, takeoff_pos, pose, yaw_initialized, target_yaw,
                    was_turning_yaw, hold, des, cmd, held, goal, reader, pressed,
                    key_mask, multi_active, brake_pos, landing, offered>>
    BY <1>11 DEF VelTimeout, Unmoved
  <2> QED BY <2>1, <2>2 DEF TypeOK
<1>12. ASSUME NEW a \in Axes, ReleaseTimeout(a) PROVE TypeOK'
  BY <1>12, SilentOK DEF ReleaseTimeout, Unmoved, Silent, TypeOK
<1>13. ASSUME NEW m \in Masks, PressKeys(m) PROVE TypeOK'
  BY <1>13, SilentOK, WorldAssumption DEF PressKeys, Unmoved, Silent, TypeOK
<1>14. CASE ReaderStart
  BY <1>14, SilentOK DEF ReaderStart, Unmoved, Silent, TypeOK
<1>15. CASE ReaderDie
  BY <1>15, SilentOK DEF ReaderDie, Unmoved, Silent, TypeOK
<1>16. CASE Interrupt
  BY <1>16, SilentOK DEF Interrupt, Silent, TypeOK
<1>17. CASE UNCHANGED vars
  BY <1>17 DEF vars, TypeOK
<1> QED
  BY <1>1, <1>2, <1>3, <1>4, <1>5, <1>6, <1>7, <1>8, <1>9, <1>10, <1>11, <1>12,
     <1>13, <1>14, <1>15, <1>16, <1>17 DEF Next

\* No behaviour leaves the ranges of TypeOK: the sticks stay within a full
\* deflection and the hold height above 0.3 m, whatever the pilot, the planner and
\* PX4 do.
THEOREM TypeCorrect == Spec => []TypeOK
<1>1. TypeOK /\ [Next]_vars => TypeOK'
  BY NextTypeOK
<1> QED BY InitTypeOK, <1>1, PTL DEF Spec

-----------------------------------------------------------------------------
(* The safety gate. *)

\* Inductive as it stands: every step that enters OFFBOARD_TRAJ centres the sticks,
\* and no step moves a stick while the mode lasts.
LEMMA NextSafetyGate == TypeOK /\ SafetyGate /\ [Next]_vars => SafetyGate'
<1> SUFFICES ASSUME TypeOK, SafetyGate, [Next]_vars,
                    flight_mode' = "OFFBOARD_TRAJ"
             PROVE  des' = Zero /\ cmd' = Zero /\ sp'.kind # "manual"
  BY DEF SafetyGate, Zero
<1> USE DEF SafetyGate, stickVars
<1>0. NoSetpoint.kind # "manual"
  BY DEF NoSetpoint
<1>1. ASSUME NEW armed \in BOOLEAN, NEW nav \in NavStates, StatusCb(armed, nav)
      PROVE  des' = Zero /\ cmd' = Zero /\ sp'.kind # "manual"
  BY <1>1, <1>0 DEF StatusCb, Silent
<1>2. ASSUME NEW alt \in Alts, NEW p \in Positions, NEW y \in Headings, PosCb(alt, p, y)
      PROVE  des' = Zero /\ cmd' = Zero /\ sp'.kind # "manual"
  BY <1>2, <1>0 DEF PosCb, Silent
<1>3. ASSUME NEW p \in Positions, GoalCb(p)
      PROVE  des' = Zero /\ cmd' = Zero /\ sp'.kind # "manual"
  BY <1>3, <1>0 DEF GoalCb, Silent
<1>4. CASE VelCb
  BY <1>4, <1>0 DEF VelCb, Silent
<1>5. CASE OffboardLoop
  BY <1>5 DEF OffboardLoop, RelaySetpoint, PositionSetpoint, VelocitySetpoint
<1>6. CASE ClimbLoop
  BY <1>6 DEF ClimbLoop
<1>7. ASSUME NEW dt \in DtSteps, ManualLoop(dt) PROVE FALSE
  BY <1>7 DEF ManualLoop, StickLoop
<1>8. ASSUME NEW k \in Keys, Key(k)
      PROVE  des' = Zero /\ cmd' = Zero /\ sp'.kind # "manual"
  <2> USE <1>0 DEF CentreSticks, Send, Silent
  <2>1. CASE KeyTakeoff
    BY <2>1 DEF KeyTakeoff
  <2>2. CASE KeyManual
    BY <2>2 DEF KeyManual
  <2>3. CASE KeyOffboard
    BY <2>3 DEF KeyOffboard
  <2>4. CASE KeyLand
    BY <2>4 DEF KeyLand
  <2>5. CASE KeySpace
    BY <2>5 DEF KeySpace, Brake, BrakeSticks
  <2>6. CASE KeyKill
    BY <2>6 DEF KeyKill
  <2>7. CASE KeyQuit
    BY <2>7 DEF KeyQuit, LandBeforeExit
  <2>8. ASSUME NEW a \in Axes, NEW dir \in {1, -1}, KeyStick(a, dir) PROVE FALSE
    BY <2>8 DEF KeyStick, FallbackOpen
  <2> QED BY <1>8, <2>1, <2>2, <2>3, <2>4, <2>5, <2>6, <2>7, <2>8 DEF Key
<1>9. CASE TakeoffStart
  BY <1>9, <1>0 DEF TakeoffStart, Send
<1>10. CASE TakeoffTimeout
  BY <1>10, <1>0 DEF TakeoffTimeout, Unmoved, Silent
<1>11. CASE VelTimeout
  BY <1>11, <1>0 DEF VelTimeout, Unmoved, Silent
<1>12. ASSUME NEW a \in Axes, ReleaseTimeout(a)
       PROVE  des' = Zero /\ cmd' = Zero /\ sp'.kind # "manual"
  BY <1>12, <1>0 DEF ReleaseTimeout, Unmoved, Silent
<1>13. ASSUME NEW m \in Masks, PressKeys(m)
       PROVE  des' = Zero /\ cmd' = Zero /\ sp'.kind # "manual"
  BY <1>13, <1>0 DEF PressKeys, Unmoved, Silent
<1>14. CASE ReaderStart
  BY <1>14, <1>0 DEF ReaderStart, Unmoved, Silent
<1>15. CASE ReaderDie
  BY <1>15, <1>0 DEF ReaderDie, Unmoved, Silent
<1>16. CASE Interrupt
  BY <1>16, <1>0 DEF Interrupt, Silent
<1>17. CASE UNCHANGED vars
  BY <1>17 DEF vars
<1> QED
  BY <1>1, <1>2, <1>3, <1>4, <1>5, <1>6, <1>7, <1>8, <1>9, <1>10, <1>11, <1>12,
     <1>13, <1>14, <1>15, <1>16, <1>17 DEF Next

\* While the planner flies no stick deflection is asked for, ramped or sent, for
\* every keyboard, release timer and helper process.
THEOREM SafetyGateHolds == Spec => []SafetyGate
<1>1. Init => SafetyGate
  BY DEF Init, SafetyGate
<1>2. TypeOK /\ SafetyGate /\ [Next]_vars => SafetyGate'
  BY NextSafetyGate
<1> QED BY <1>1, <1>2, TypeCorrect, PTL DEF Spec
-----------------------------------------------------------------------------
(* The flight flags, the arm toggle and Q. *)

\* AirborneIsFlagged is not inductive: ManualLoop ends a take-off by clearing
\* is_taking_off, and L clears is_flying, so what carries it through is that a
\* vehicle taking off is also marked as flying.
FlagInv ==
  /\ AirborneIsFlagged
  /\ ToggleOnGround
  /\ is_taking_off => is_flying

LEMMA NextFlagInv == TypeOK /\ FlagInv /\ [Next]_vars => FlagInv'
<1> SUFFICES ASSUME TypeOK, FlagInv, [Next]_vars PROVE FlagInv'
  OBVIOUS
<1>0. NULL # "DISARM"
  BY WorldAssumption DEF Commands
<1> USE <1>0 DEF FlagInv, AirborneIsFlagged, ToggleOnGround, flagVars, histVars
<1>1. ASSUME NEW armed \in BOOLEAN, NEW nav \in NavStates, StatusCb(armed, nav)
      PROVE  FlagInv'
  BY <1>1 DEF StatusCb, Silent
<1>2. ASSUME NEW alt \in Alts, NEW p \in Positions, NEW y \in Headings, PosCb(alt, p, y)
      PROVE  FlagInv'
  <2>1. pose'.alt = alt /\ alt \in Int /\ sent' = NULL /\ is_taking_off' = is_taking_off
        /\ is_flying' = (is_flying \/ Airborne(alt))
    BY <1>2, WorldAssumption DEF PosCb, Silent
  <2>2. pose'.alt > 5 => is_flying' \/ is_taking_off'
    BY <2>1 DEF Airborne
  <2>3. sent' = "DISARM" => pose'.alt <= 5 \/ is_flying' \/ is_taking_off'
    BY <2>1, <2>2
  <2> QED BY <1>2, <2>1, <2>2, <2>3
<1>3. ASSUME NEW p \in Positions, GoalCb(p) PROVE FlagInv'
  BY <1>3 DEF GoalCb, Silent
<1>4. CASE VelCb
  BY <1>4 DEF VelCb, Silent
<1>5. CASE OffboardLoop
  BY <1>5 DEF OffboardLoop
<1>6. CASE ClimbLoop
  BY <1>6 DEF ClimbLoop
<1>7. ASSUME NEW dt \in DtSteps, ManualLoop(dt) PROVE FlagInv'
  BY <1>7 DEF ManualLoop, StickLoop
<1>8. ASSUME NEW k \in Keys, Key(k) PROVE FlagInv'
  <2> USE DEF Send, Silent
  <2>1. CASE KeyTakeoff
    BY <2>1 DEF KeyTakeoff
  <2>2. CASE KeyManual
    BY <2>2 DEF KeyManual
  <2>3. CASE KeyOffboard
    BY <2>3 DEF KeyOffboard
  <2>4. CASE KeyLand
    BY <2>4 DEF KeyLand
  <2>5. CASE KeySpace
    <3>1. pose.alt \in Int
      BY WorldAssumption DEF TypeOK
    <3> QED BY <2>5, <3>1 DEF KeySpace, OnGround
  <2>6. CASE KeyKill
    BY <2>6 DEF KeyKill
  <2>7. CASE KeyQuit
    BY <2>7 DEF KeyQuit, LandBeforeExit
  <2>8. ASSUME NEW a \in Axes, NEW dir \in {1, -1}, KeyStick(a, dir) PROVE FlagInv'
    BY <2>8 DEF KeyStick
  <2> QED BY <1>8, <2>1, <2>2, <2>3, <2>4, <2>5, <2>6, <2>7, <2>8 DEF Key
<1>9. CASE TakeoffStart
  BY <1>9 DEF TakeoffStart, Send
<1>10. CASE TakeoffTimeout
  BY <1>10 DEF TakeoffTimeout, Unmoved, Silent
<1>11. CASE VelTimeout
  BY <1>11 DEF VelTimeout, Unmoved, Silent
<1>12. ASSUME NEW a \in Axes, ReleaseTimeout(a) PROVE FlagInv'
  BY <1>12 DEF ReleaseTimeout, Unmoved, Silent
<1>13. ASSUME NEW m \in Masks, PressKeys(m) PROVE FlagInv'
  BY <1>13 DEF PressKeys, Unmoved, Silent
<1>14. CASE ReaderStart
  BY <1>14 DEF ReaderStart, Unmoved, Silent
<1>15. CASE ReaderDie
  BY <1>15 DEF ReaderDie, Unmoved, Silent
<1>16. CASE Interrupt
  BY <1>16 DEF Interrupt, Silent
<1>17. CASE UNCHANGED vars
  BY <1>17 DEF vars
<1> QED
  BY <1>1, <1>2, <1>3, <1>4, <1>5, <1>6, <1>7, <1>8, <1>9, <1>10, <1>11, <1>12,
     <1>13, <1>14, <1>15, <1>16, <1>17 DEF Next

LEMMA FlagInvHolds == Spec => []FlagInv
<1>1. Init => FlagInv
  BY WorldAssumption DEF Init, Commands, FlagInv, AirborneIsFlagged, ToggleOnGround
<1>2. TypeOK /\ FlagInv /\ [Next]_vars => FlagInv'
  BY NextFlagInv
<1> QED BY <1>1, <1>2, TypeCorrect, PTL DEF Spec
\* A vehicle last seen above 0.5 m is marked as flying or taking off, until L or E.
THEOREM AirborneIsFlaggedHolds == Spec => []AirborneIsFlagged
<1>1. FlagInv => AirborneIsFlagged
  BY DEF FlagInv
<1> QED BY <1>1, FlagInvHolds, PTL

\* The Spacebar never disarms a vehicle last seen above 0.5 m, but after L or E.
THEOREM ToggleOnGroundHolds == Spec => []ToggleOnGround
<1>1. FlagInv => ToggleOnGround
  BY DEF FlagInv
<1> QED BY <1>1, FlagInvHolds, PTL

\* The guard of Q reads is_flying alone, which FlagInv makes enough.
LEMMA QuitSends ==
  ASSUME TypeOK, FlagInv, KeyQuit
  PROVE  pose.alt <= 5 \/ landing \/ sent' = "NAV_LAND"
<1>1. pose.alt \in Int
  BY WorldAssumption DEF TypeOK
<1>2. CASE is_flying
  BY <1>2 DEF KeyQuit, LandBeforeExit, Send
<1>3. CASE ~is_flying
  BY <1>1, <1>3 DEF FlagInv, AirborneIsFlagged
<1> QED BY <1>2, <1>3

\* Q sends the landing command for every vehicle last seen above 0.5 m, but after L
\* or E.
THEOREM QuitLandsHolds == Spec => QuitLands
<1>1. TypeOK /\ FlagInv /\ [Next]_vars
        => [KeyQuit => pose.alt <= 5 \/ landing \/ sent' = "NAV_LAND"]_vars
  BY QuitSends
<1> QED BY <1>1, TypeCorrect, FlagInvHolds, PTL DEF Spec, QuitLands

-----------------------------------------------------------------------------
(* The brake and the goal of the planner. *)

\* What is streamed depends on what is stored: a goal exactly while one that came
\* after the last 1 or Spacebar is there.
GoalInv ==
  /\ goal = NULL => offered = {}
  /\ goal # NULL => goal \in offered
  /\ GoalSinceRecall

LEMMA NextGoalInv == TypeOK /\ GoalInv /\ [Next]_vars => GoalInv'
<1> SUFFICES ASSUME TypeOK, GoalInv, [Next]_vars PROVE GoalInv'
  OBVIOUS
<1>0. NoSetpoint.kind \notin {"goal", "vel", "hold"}
  BY DEF NoSetpoint
<1> USE <1>0 DEF GoalInv, GoalSinceRecall, planVars, histVars, Silent, Send
<1>1. ASSUME NEW armed \in BOOLEAN, NEW nav \in NavStates, StatusCb(armed, nav)
      PROVE  GoalInv'
  BY <1>1 DEF StatusCb
<1>2. ASSUME NEW alt \in Alts, NEW p \in Positions, NEW y \in Headings, PosCb(alt, p, y)
      PROVE  GoalInv'
  BY <1>2 DEF PosCb
<1>3. ASSUME NEW p \in Positions, GoalCb(p) PROVE GoalInv'
  BY <1>3, WorldAssumption DEF GoalCb
<1>4. CASE VelCb
  BY <1>4 DEF VelCb
<1>5. CASE OffboardLoop
  BY <1>5 DEF OffboardLoop, RelaySetpoint, PositionSetpoint, VelocitySetpoint
<1>6. CASE ClimbLoop
  BY <1>6 DEF ClimbLoop, PositionSetpoint
<1>7. ASSUME NEW dt \in DtSteps, ManualLoop(dt) PROVE GoalInv'
  BY <1>7 DEF ManualLoop, StickLoop, ManualSetpoint, VelocitySetpoint
<1>8. ASSUME NEW k \in Keys, Key(k) PROVE GoalInv'
  <2>1. CASE KeyTakeoff
    BY <2>1 DEF KeyTakeoff
  <2>2. CASE KeyManual
    BY <2>2 DEF KeyManual
  <2>3. CASE KeyOffboard
    BY <2>3 DEF KeyOffboard
  <2>4. CASE KeyLand
    BY <2>4 DEF KeyLand
  <2>5. CASE KeySpace
    BY <2>5 DEF KeySpace, Brake, BrakeSticks
  <2>6. CASE KeyKill
    BY <2>6 DEF KeyKill
  <2>7. CASE KeyQuit
    BY <2>7 DEF KeyQuit, LandBeforeExit
  <2>8. ASSUME NEW a \in Axes, NEW dir \in {1, -1}, KeyStick(a, dir) PROVE GoalInv'
    BY <2>8 DEF KeyStick
  <2> QED BY <1>8, <2>1, <2>2, <2>3, <2>4, <2>5, <2>6, <2>7, <2>8 DEF Key
<1>9. CASE TakeoffStart
  BY <1>9 DEF TakeoffStart
<1>10. CASE TakeoffTimeout
  BY <1>10 DEF TakeoffTimeout, Unmoved
<1>11. CASE VelTimeout
  BY <1>11 DEF VelTimeout, Unmoved
<1>12. ASSUME NEW a \in Axes, ReleaseTimeout(a) PROVE GoalInv'
  BY <1>12 DEF ReleaseTimeout, Unmoved
<1>13. ASSUME NEW m \in Masks, PressKeys(m) PROVE GoalInv'
  BY <1>13 DEF PressKeys, Unmoved
<1>14. CASE ReaderStart
  BY <1>14 DEF ReaderStart, Unmoved
<1>15. CASE ReaderDie
  BY <1>15 DEF ReaderDie, Unmoved
<1>16. CASE Interrupt
  BY <1>16 DEF Interrupt
<1>17. CASE UNCHANGED vars
  BY <1>17 DEF vars
<1> QED
  BY <1>1, <1>2, <1>3, <1>4, <1>5, <1>6, <1>7, <1>8, <1>9, <1>10, <1>11, <1>12,
     <1>13, <1>14, <1>15, <1>16, <1>17 DEF Next

\* Whatever modes are entered and left, the goal that is flown came after the
\* pilot's last 1 or Spacebar, and it is not lost before the next one.
THEOREM GoalSinceRecallHolds == Spec => []GoalSinceRecall
<1>1. Init => GoalInv
  BY DEF Init, GoalInv, GoalSinceRecall, NoSetpoint
<1>2. TypeOK /\ GoalInv /\ [Next]_vars => GoalInv'
  BY NextGoalInv
<1>3. GoalInv => GoalSinceRecall
  BY DEF GoalInv, GoalSinceRecall
<1> QED BY <1>1, <1>2, <1>3, TypeCorrect, PTL DEF Spec
-----------------------------------------------------------------------------
(* The slew limit. *)

\* The period that ends a take-off starts its ramp from rest; that this is no jump
\* rests on the sticks being centred from T on, through the T handler's sleep and
\* the whole climb.
ClimbAtRest == is_taking_off \/ pc = "arming" => cmd = Zero

\* How one axis may move in a step.
SlewStep(a) ==
  \/ cmd'[a] = cmd[a]
  \/ cmd'[a] = 0
  \/ /\ \E dt \in DtSteps :
          Abs(cmd'[a] - cmd[a]) <= dt * (IF Accel[a] < Decel[a] THEN Decel[a]
                                         ELSE Accel[a])
     /\ \/ cmd[a] < cmd'[a] /\ cmd'[a] <= des'[a]
        \/ cmd[a] > cmd'[a] /\ cmd'[a] >= des'[a]

\* The steps other than ManualLoop leave cmd alone or centre it.
LEMMA CmdMoves ==
  ASSUME [Next]_vars
  PROVE  cmd' = cmd \/ cmd' = Zero \/ \E dt \in DtSteps : ManualLoop(dt)
<1> USE DEF stickVars, CentreSticks
<1>1. ASSUME NEW k \in Keys, Key(k) PROVE cmd' = cmd \/ cmd' = Zero
  BY <1>1 DEF Key, KeyTakeoff, KeyManual, KeyOffboard, KeyLand, KeySpace, Brake,
              BrakeSticks, KeyKill, KeyQuit, KeyStick
<1> QED
  BY <1>1 DEF Next, vars, Unmoved, StatusCb, PosCb, GoalCb, VelCb, OffboardLoop,
     ClimbLoop, TakeoffStart, TakeoffTimeout, VelTimeout, ReleaseTimeout, PressKeys,
     ReaderStart, ReaderDie, Interrupt

LEMMA NextClimbAtRest == ClimbAtRest /\ [Next]_vars => ClimbAtRest'
<1> SUFFICES ASSUME ClimbAtRest, [Next]_vars, is_taking_off' \/ pc' = "arming"
             PROVE  cmd' = Zero
  BY DEF ClimbAtRest, Zero
<1> USE DEF ClimbAtRest, stickVars, flagVars, CentreSticks
<1>1. ASSUME NEW dt \in DtSteps, ManualLoop(dt) PROVE FALSE
  BY <1>1 DEF ManualLoop, StickLoop
<1>2. ASSUME NEW k \in Keys, Key(k) PROVE cmd' = Zero
  BY <1>2 DEF Key, KeyTakeoff, KeyManual, KeyOffboard, KeyLand, KeySpace, Brake,
              BrakeSticks, KeyKill, KeyQuit, KeyStick
<1> QED
  BY <1>1, <1>2 DEF Next, vars, Unmoved, StatusCb, PosCb, GoalCb, VelCb, OffboardLoop,
     ClimbLoop, TakeoffStart, TakeoffTimeout, VelTimeout, ReleaseTimeout, PressKeys,
     ReaderStart, ReaderDie, Interrupt

\* A brake in the manual loop centres the stick in the same period, so the ramp it
\* runs starts and ends at rest.
LEMMA StickLoopSlew ==
  ASSUME TypeOK, ClimbAtRest, NEW dt \in DtSteps, StickLoop(dt), NEW a \in Axes
  PROVE  SlewStep(a)
<1> DEFINE brake == multi_active' /\ "SPACE" \in key_mask'
           cmdBase == IF is_taking_off \/ brake THEN Zero ELSE cmd
           r == RampValue(cmdBase[a], des'[a], Accel[a], Decel[a], dt)
<1>1. cmd'[a] = r
  BY DEF StickLoop, Ramped
<1>2. SticksOK(des, cmd) /\ SticksOK(des', cmd') /\ Zero[a] = 0
  BY TypeOKSplit, StickLoopSticks DEF Zero
<1>3. /\ cmd[a] \in Int /\ des'[a] \in Int /\ dt \in Nat
      /\ Accel[a] \in Nat /\ Decel[a] \in Nat
  BY <1>2, RangeFacts, AxesAssumption DEF SticksOK
<1>4. CASE brake
  <2>1. des' = Zero
    BY <1>4 DEF StickLoop, Targets
  <2>2. cmdBase[a] = 0 /\ des'[a] = 0
    BY <1>2, <1>4, <2>1
  <2> HIDE DEF cmdBase
  <2>3. cmdBase[a] \in Int /\ des'[a] \in Int
    BY <2>2
  <2>4. r \in Int /\ (cmdBase[a] <= des'[a] => cmdBase[a] <= r /\ r <= des'[a])
    BY <1>3, <2>3, RampBetween
  <2> HIDE DEF r
  <2>5. r = 0
    BY <2>2, <2>4
  <2> QED BY <1>1, <2>5 DEF SlewStep
<1>5. CASE ~brake
  <2>1. cmdBase[a] = cmd[a]
    BY <1>5 DEF ClimbAtRest
  <2> DEFINE q == RampValue(cmd[a], des'[a], Accel[a], Decel[a], dt)
  <2>2. cmd'[a] = q
    BY <1>1, <2>1
  <2>3. /\ q \in Int
        /\ cmd[a] <= des'[a] => cmd[a] <= q /\ q <= des'[a]
        /\ des'[a] <= cmd[a] => des'[a] <= q /\ q <= cmd[a]
    BY <1>3, RampBetween
  <2>4. Abs(q - cmd[a]) <= dt * (IF Accel[a] < Decel[a] THEN Decel[a] ELSE Accel[a])
    BY <1>3, RampStep
  <2> HIDE DEF q
  <2>5. cmd'[a] = cmd[a] \/ (cmd[a] < cmd'[a] /\ cmd'[a] <= des'[a])
                        \/ (cmd[a] > cmd'[a] /\ cmd'[a] >= des'[a])
    BY <1>3, <2>2, <2>3
  <2>6. Abs(cmd'[a] - cmd[a]) <= dt * (IF Accel[a] < Decel[a] THEN Decel[a]
                                       ELSE Accel[a])
    BY <2>2, <2>4
  <2> QED BY <2>5, <2>6 DEF SlewStep
<1> QED BY <1>4, <1>5

\* One step of the manager moves one axis within the limit.
LEMMA NextSlew ==
  ASSUME TypeOK, ClimbAtRest, [Next]_vars, NEW a \in Axes
  PROVE  SlewStep(a)
<1>1. CASE cmd' = cmd
  BY <1>1 DEF SlewStep
<1>2. CASE cmd' = Zero
  BY <1>2 DEF SlewStep, Zero
<1>3. ASSUME NEW dt \in DtSteps, ManualLoop(dt) PROVE SlewStep(a)
  BY <1>3, StickLoopSlew DEF ManualLoop
<1> QED BY <1>1, <1>2, <1>3, CmdMoves

\* No axis ever moves faster than its larger rate times one clamped period, or past
\* the deflection asked for; the only jump is to rest.
THEOREM SlewLimitedHolds == Spec => SlewLimited
<1>1. Init => ClimbAtRest
  BY DEF Init, ClimbAtRest
<1>2. TypeOK /\ ClimbAtRest /\ [Next]_vars => \A a \in Axes : SlewStep(a)
  BY NextSlew
<1>3. TypeOK /\ ClimbAtRest /\ [Next]_vars
        => [\A a \in Axes : SlewStep(a)]_vars
  BY <1>2
<1>4. Spec => [][\A a \in Axes : SlewStep(a)]_vars
  BY <1>1, <1>3, NextClimbAtRest, TypeCorrect, PTL DEF Spec
<1> QED BY <1>4 DEF SlewLimited, SlewStep

-----------------------------------------------------------------------------
(* The keyboard teleop.  Its steps are steps of the manager, but two: the stick *)
(* loop that asks for no mode, and the brake that toggles no motors.            *)

LEMMA TeleopStepKinds ==
  ASSUME [TeleopNext]_vars
  PROVE  [Next]_vars \/ TeleopBrake \/ \E dt \in DtSteps : TeleopLoop(dt)
<1>1. ASSUME NEW k \in Keys, TeleopKey(k) PROVE Next \/ TeleopBrake
  <2>1. Key(k) \/ TeleopBrake
    BY <1>1 DEF TeleopKey, TeleopTakeoff, TeleopLand, TeleopQuit, TeleopStick, Key
  <2> QED BY <2>1 DEF Next
<1>2. CASE TeleopReader \/ TeleopTimeout
  BY <1>2 DEF TeleopReader, TeleopTimeout, Next
<1>3. CASE TeleopControlLoop
  BY <1>3 DEF TeleopControlLoop, TeleopClimb, Next
<1> QED
  BY <1>1, <1>2, <1>3 DEF TeleopNext, TeleopStatusCb, TeleopPosCb, TeleopTakeoffStart,
     Next

LEMMA TeleopNextTypeOK == TypeOK /\ [TeleopNext]_vars => TypeOK'
<1> SUFFICES ASSUME TypeOK, [TeleopNext]_vars PROVE TypeOK'
  OBVIOUS
<1>1. CASE TeleopBrake
  <2> USE <1>1 DEF TeleopBrake, statusVars, flagVars, planVars, pilotVars, histVars
  <2>1. SticksOK(des', cmd') /\ target_yaw' \in Headings /\ held' \subseteq Axes
    BY ZeroOK DEF BrakeSticks, CentreSticks, TypeOK
  <2>2. /\ goal' \in Positions \cup {NULL} /\ brake_pos' \in Positions \cup {NULL}
        /\ offered' \subseteq Positions
    BY DEF TypeOK
  <2>3. sp' \in Setpoints /\ sent' \in Commands \cup {NULL}
    BY SilentOK DEF Silent
  <2> QED BY <2>1, <2>2, <2>3, StayTyped
<1>2. ASSUME NEW dt \in DtSteps, TeleopLoop(dt) PROVE TypeOK'
  BY <1>2, StickLoopTypeOK DEF TeleopLoop
<1> QED BY <1>1, <1>2, NextTypeOK, TeleopStepKinds

\* No behaviour of the teleop leaves the ranges of TypeOK either.
THEOREM TeleopTypeCorrect == TeleopSpec => []TypeOK
<1>1. TeleopInit => TypeOK
  BY InitTypeOK DEF TeleopInit
<1> QED BY <1>1, TeleopNextTypeOK, PTL DEF TeleopSpec

LEMMA TeleopNextFlagInv == TypeOK /\ FlagInv /\ [TeleopNext]_vars => FlagInv'
<1> SUFFICES ASSUME TypeOK, FlagInv, [TeleopNext]_vars PROVE FlagInv'
  OBVIOUS
<1>0. NULL # "DISARM"
  BY WorldAssumption DEF Commands
<1> USE DEF FlagInv, AirborneIsFlagged, ToggleOnGround
<1>1. CASE TeleopBrake
  BY <1>0, <1>1 DEF TeleopBrake, Silent, flagVars, histVars
<1>2. ASSUME NEW dt \in DtSteps, TeleopLoop(dt) PROVE FlagInv'
  BY <1>0, <1>2 DEF TeleopLoop, StickLoop, histVars
<1> QED BY <1>1, <1>2, NextFlagInv, TeleopStepKinds

LEMMA TeleopFlagInvHolds == TeleopSpec => []FlagInv
<1>1. TeleopInit => FlagInv
  BY WorldAssumption DEF TeleopInit, Init, Commands, FlagInv, AirborneIsFlagged,
     ToggleOnGround
<1> QED BY <1>1, TeleopNextFlagInv, TeleopTypeCorrect, PTL DEF TeleopSpec

\* Q of the teleop, too, leaves no vehicle in the air without a landing command,
\* but after L: the flag it reads is kept by the same invariant.
THEOREM TeleopQuitLands == TeleopSpec => QuitLands
<1>1. TypeOK /\ FlagInv /\ [TeleopNext]_vars
        => [KeyQuit => pose.alt <= 5 \/ landing \/ sent' = "NAV_LAND"]_vars
  BY QuitSends
<1> QED BY <1>1, TeleopTypeCorrect, TeleopFlagInvHolds, PTL DEF TeleopSpec, QuitLands

LEMMA TeleopNextClimbAtRest == ClimbAtRest /\ [TeleopNext]_vars => ClimbAtRest'
<1> SUFFICES ASSUME ClimbAtRest, [TeleopNext]_vars PROVE ClimbAtRest'
  OBVIOUS
<1>1. CASE TeleopBrake
  BY <1>1 DEF TeleopBrake, BrakeSticks, CentreSticks, ClimbAtRest, Zero
<1>2. ASSUME NEW dt \in DtSteps, TeleopLoop(dt) PROVE ClimbAtRest'
  BY <1>2 DEF TeleopLoop, StickLoop, ClimbAtRest
<1> QED BY <1>1, <1>2, NextClimbAtRest, TeleopStepKinds

\* The slew limit of the teleop's sticks, with the same argument.
THEOREM TeleopSlewLimited == TeleopSpec => SlewLimited
<1>1. TeleopInit => ClimbAtRest
  BY DEF TeleopInit, Init, ClimbAtRest
<1>2. TypeOK /\ ClimbAtRest /\ [TeleopNext]_vars => \A a \in Axes : SlewStep(a)
  <2> SUFFICES ASSUME TypeOK, ClimbAtRest, [TeleopNext]_vars, NEW a \in Axes
               PROVE  SlewStep(a)
    OBVIOUS
  <2>1. CASE TeleopBrake
    BY <2>1 DEF TeleopBrake, BrakeSticks, CentreSticks, SlewStep, Zero
  <2>2. ASSUME NEW dt \in DtSteps, TeleopLoop(dt) PROVE SlewStep(a)
    BY <2>2, StickLoopSlew DEF TeleopLoop
  <2> QED BY <2>1, <2>2, NextSlew, TeleopStepKinds
<1>3. TypeOK /\ ClimbAtRest /\ [TeleopNext]_vars
        => [\A a \in Axes : SlewStep(a)]_vars
  BY <1>2
<1>4. TeleopSpec => [][\A a \in Axes : SlewStep(a)]_vars
  BY <1>1, <1>3, TeleopNextClimbAtRest, TeleopTypeCorrect, PTL DEF TeleopSpec
<1> QED BY <1>4 DEF SlewLimited, SlewStep
=============================================================================
