----------------------------- MODULE StickRamp -----------------------------
(***************************************************************************)
(* The pure part of the manual stick path of zav_flight_manager.py: what   *)
(* the pressed keys ask of an axis, and the slew-rate limiter that turns   *)
(* the asked deflection into the commanded one.  Velocities are integers   *)
(* in a unit of the reader's choice; the code's floats add rounding only.  *)
(***************************************************************************)
EXTENDS Integers

\* Magnitude of an integer.
Abs(n) == IF n < 0 THEN -n ELSE n

\* ramp_value: the step is taken at the deceleration rate when the stick is
\* centred or reversed, at the acceleration rate otherwise, and it never passes
\* the target.
RampRate(current, target, accel, decel) ==
  IF target = 0 \/ (current < 0 /\ target > 0) \/ (current > 0 /\ target < 0)
  THEN decel
  ELSE accel

RampValue(current, target, accel, decel, dt) ==
  LET step == RampRate(current, target, accel, decel) * dt
  IN  IF target > current
      THEN IF current + step < target THEN current + step ELSE target
      ELSE IF current - step > target THEN current - step ELSE target

\* One axis of _update_multi_key_targets: two opposite keys cancel out.
AxisDemand(plus, minus, maxPlus, maxMinus) ==
  IF plus /\ ~minus THEN maxPlus
  ELSE IF minus /\ ~plus THEN -maxMinus
  ELSE 0
=============================================================================
