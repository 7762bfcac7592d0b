--------------------------- MODULE IteratedFilter ---------------------------
(***************************************************************************)
(* The two measurement updates of the mapper's Kalman filter: with a scan   *)
(* (voxel_map.cpp, StateEstimation) and with an image (vio.cpp,             *)
(* computeJacobianAndUpdateEKF: updateState or updateStateInverse on each   *)
(* level of the image pyramid).  Each repeats "measure at the state, solve, *)
(* move the state" and at its end reduces the covariance by its last gain.  *)
(*                                                                          *)
(* A state is a number, new with every solution.  How large the error is    *)
(* there and whether the step is small are free choices.                    *)
(***************************************************************************)
EXTENDS Integers

CONSTANTS
  LioIterations, VioIterations,  \* max_iterations of either filter
  PYRAMID,                       \* patch_pyrimid_level
  Errors,                        \* mean photometric errors
  MaxUpdates                     \* bound: updates in a run

VARIABLES
  update,        \* the update under way: "none" | "lio" | "vio"
  state, old_state,
  last_error,
  gain,          \* the state G was computed at, and the level
  iter, level, rematch_num,
  inverse_composition_en,
  has_ref_patch_cache,  \* the level of the cached Jacobians, or NoLevel
  applied,       \* times the covariance was reduced in this update
  made,          \* states made in this update
  converged,     \* small steps in this update
  measured,      \* the errors measured on this level, with the states they were at
  updates        \* bound counter

filterVars == <<update, state, old_state, last_error, gain, iter, level, rematch_num,
          inverse_composition_en, has_ref_patch_cache, applied, made,
          converged, measured, updates>>

NoLevel == -1
NoError == 1000000   \* numeric_limits<float>::max()

FilterInit ==
  /\ update = "none"
  /\ state = 0 /\ old_state = state
  /\ last_error = NoError /\ measured = {}
  /\ gain = [id |-> 0, level |-> NoLevel]
  /\ iter = 0 /\ level = 0 /\ rematch_num = 0
  /\ inverse_composition_en \in BOOLEAN /\ has_ref_patch_cache = NoLevel
  /\ applied = 1 /\ made = 0 /\ converged = 0 /\ updates = 0

-----------------------------------------------------------------------------
(* StateEstimation, the update with a scan. *)

StartLio ==
  /\ update = "none" /\ updates < MaxUpdates
  /\ update' = "lio" /\ updates' = updates + 1
  /\ state' = 0 /\ made' = 0
  /\ iter' = 0 /\ rematch_num' = 0 /\ applied' = 0 /\ converged' = 0
  /\ UNCHANGED <<old_state, last_error, gain, level,
                 inverse_composition_en, has_ref_patch_cache, measured>>

\* A small step counts, and so does the last but one iteration when none was small.
Rematches(small) ==
  rematch_num + (IF small \/ (rematch_num = 0 /\ iter = LioIterations - 2) THEN 1 ELSE 0)

\* Every solution is taken; the covariance is reduced at the end.
LioIterate(small) ==
  LET ends == Rematches(small) >= 2 \/ iter = LioIterations - 1
  IN  /\ update = "lio" /\ iter < LioIterations
      /\ gain' = [id |-> state, level |-> NoLevel] /\ old_state' = state
      /\ state' = made + 1 /\ made' = made + 1
      /\ rematch_num' = Rematches(small)
      /\ converged' = converged + (IF small THEN 1 ELSE 0)
      /\ iter' = iter + 1
      /\ update' = IF ends THEN "none" ELSE "lio"
      /\ applied' = applied + (IF ends THEN 1 ELSE 0)
      /\ UNCHANGED <<last_error, level, inverse_composition_en,
                     has_ref_patch_cache, measured, updates>>

-----------------------------------------------------------------------------
(* computeJacobianAndUpdateEKF, the update with an image. *)

\* The beginning of a level: no error is known, and the Jacobians of the reference
\* patches have to be computed anew.
StartLevel(l, at) ==
  /\ level' = l /\ iter' = 0
  /\ old_state' = at /\ last_error' = NoError
  /\ measured' = {}
  /\ has_ref_patch_cache' = NoLevel

StartVio ==
  /\ update = "none" /\ updates < MaxUpdates
  /\ update' = "vio" /\ updates' = updates + 1
  /\ state' = 0 /\ made' = 0
  /\ applied' = 0 /\ converged' = 0
  /\ StartLevel(PYRAMID - 1, state')
  /\ UNCHANGED <<gain, rematch_num, inverse_composition_en>>

\* precomputeReferencePatches
Precompute ==
  has_ref_patch_cache' = IF inverse_composition_en /\ has_ref_patch_cache = NoLevel
                         THEN level ELSE has_ref_patch_cache

Measured(err) ==
  measured' = measured \cup {[err |-> err, id |-> state]}

\* updateState and updateStateInverse, where the error is no larger than the last:
\* solve at the state.
Accept(err, small) ==
  /\ update = "vio" /\ err <= last_error
  /\ Precompute /\ Measured(err)
  /\ old_state' = state /\ last_error' = err
  /\ gain' = [id |-> state, level |-> level]
  /\ state' = made + 1 /\ made' = made + 1
  /\ converged' = converged + (IF small THEN 1 ELSE 0)
  /\ iter' = iter + 1
  /\ update' = IF small \/ iter' = VioIterations THEN "level done" ELSE "vio"
  /\ UNCHANGED <<level, rematch_num, inverse_composition_en, applied,
                 updates>>

\* Where it is larger: back to the state before.
LeftThere == state  \* fault: the state stays where the error is larger
RolledBack == old_state

Reject(err) ==
  /\ update = "vio" /\ err > last_error
  /\ Precompute /\ Measured(err)
  /\ state' = RolledBack
  /\ update' = "level done"
  /\ UNCHANGED <<old_state, last_error, gain, iter, level, rematch_num,
                 inverse_composition_en, applied, made, converged, updates>>

\* The coarse levels first; after the last one the covariance is reduced, and the
\* frame gets the new pose.
NextLevel ==
  /\ update = "level done" /\ level > 0
  /\ StartLevel(level - 1, state)
  /\ update' = "vio"
  /\ UNCHANGED <<state, gain, rematch_num, inverse_composition_en,
                 applied, made, converged, updates>>

FinishVio ==
  /\ update = "level done" /\ level = 0
  /\ applied' = applied + 1
  /\ update' = "none"
  /\ UNCHANGED <<state, old_state, last_error, gain, iter, level, rematch_num,
                 inverse_composition_en, has_ref_patch_cache, made,
                 converged, measured, updates>>

FilterNext ==
  \/ StartLio
  \/ \E small \in BOOLEAN : LioIterate(small)
  \/ StartVio
  \/ \E err \in Errors, small \in BOOLEAN : Accept(err, small)
  \/ \E err \in Errors : Reject(err)
  \/ NextLevel
  \/ FinishVio

FilterSpec == FilterInit /\ [][FilterNext]_filterVars

-----------------------------------------------------------------------------

FilterTypeOK ==
  /\ update \in {"none", "lio", "vio", "level done"}
  /\ {state, old_state} \subseteq Nat
  /\ last_error \in Errors \cup {NoError}
  /\ gain \in [id : Nat, level : -1 .. PYRAMID - 1]
  /\ iter \in 0 .. LioIterations \/ iter \in 0 .. VioIterations
  /\ level \in 0 .. PYRAMID - 1 /\ rematch_num \in 0 .. 2
  /\ inverse_composition_en \in BOOLEAN
  /\ has_ref_patch_cache \in -1 .. PYRAMID - 1
  /\ {applied, made, converged, updates} \subseteq Nat
  /\ measured \subseteq [err : Errors, id : Nat]

\* The covariance is reduced once for a scan or an image, and not before the end.
AppliedOnce == applied = IF update = "none" THEN 1 ELSE 0

\* The gain is the one of old_state, and the state is the solution found there or, in
\* an image update, old_state again; on each level old_state is the best one measured.
GainOfState ==
  made > 0 =>
    /\ state \in {made, old_state}
    /\ gain.id = old_state \/ (update = "vio" /\ iter = 0)
    /\ update = "none" => gain.level \in {NoLevel, 0}
    /\ update = "level done" => gain.level = level
                                /\ [err |-> last_error, id |-> old_state] \in measured

\* A state found to have a larger error than another one of its level does not
\* survive the level.
BestKept ==
  update = "level done" =>
    \A m, o \in measured : (m.id = state \/ m.id = old_state) => m.err <= o.err

\* The cached Jacobians are those of the level.
CacheOfLevel == update \in {"vio", "level done"} => has_ref_patch_cache \in {NoLevel, level}

\* An update with a scan ends with the second small step, or out of iterations: the
\* extra rematch of the last but one iteration never ends it earlier.
EndsSettled ==
  (update = "none" /\ gain.level = NoLevel /\ updates > 0)
    => converged >= 2 \/ iter = LioIterations

FilterConsistent ==
  AppliedOnce /\ GainOfState /\ BestKept /\ CacheOfLevel /\ EndsSettled
=============================================================================
