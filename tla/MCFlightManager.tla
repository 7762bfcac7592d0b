-------------------------- MODULE MCFlightManager --------------------------
(* TLC instances of FlightManager and TeleopKeyboard: one of the two programs *)
(* runs, and every property is asked of both.                                 *)
EXTENDS TeleopKeyboard

VARIABLE program   \* "manager" | "teleop"

\* W pulls twice as far as S pushes (3.0 against 1.5 m/s), the yaw stick once
\* each way; braking is two or three times as fast as accelerating.
MCMaxPlus  == [a \in Axes |-> 1]
MCMaxMinus == [a \in Axes |-> IF a = "vz" THEN 2 ELSE 1]
MCAccel    == [a \in Axes |-> 1]
MCDecel    == [a \in Axes |-> IF a = "vz" THEN 2 ELSE 3]

MCInit ==
  \/ program = "manager" /\ Init
  \/ program = "teleop" /\ TeleopInit

MCNext ==
  \/ program = "manager" /\ Next /\ UNCHANGED program
  \/ program = "teleop" /\ TeleopNext /\ UNCHANGED program

MCSpec == MCInit /\ [][MCNext]_<<vars, program>>

\* The fairness of the program that runs: of FlightManager, or of TeleopKeyboard.
MCFairSpec ==
  /\ MCSpec
  /\ WF_vars(IF program = "manager" THEN ControlLoop ELSE TeleopControlLoop)
  /\ WF_vars(TakeoffStart)
  /\ WF_vars(TakeoffTimeout)
  /\ \A a \in Axes : WF_vars(ReleaseTimeout(a))
=============================================================================
