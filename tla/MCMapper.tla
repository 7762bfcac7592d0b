------------------------------ MODULE MCMapper ------------------------------
(***************************************************************************)
(* TLC instances of the mapper around its front end.   One run checks them   *)
(* side by side: at the start one of them is chosen, and only that one      *)
(* moves.                                                                   *)
(***************************************************************************)
EXTENDS VisualMap, VoxelMap, IteratedFilter, ImuPropagation, MapperLoop, Preprocess

VARIABLE part

\* The addresses of the visual points and the cells of the grid are interchangeable.
Symmetry == Permutations(Points) \cup Permutations(Cells)

\* Two places, one on either side of zero, and a voxel on either side.
MCPlaces == {-1, 0}
MCVoxels == {-1, 0}

mapperVars == <<part, visualVars, voxelVars, filterVars, propVars, loopVars, msg>>

MapperInit ==
  /\ part \in {"visual", "voxel", "filter", "imu", "loop", "times"}
  /\ VisualInit /\ VoxelInit /\ FilterInit /\ PropInit /\ LoopInit /\ MessageInit
  /\ part # "filter" => ~inverse_composition_en
  /\ part # "imu" => ~imaging /\ last_prop_end_time = 0
  /\ part # "loop" => ~img_en /\ ~gravity_align_en /\ ~imu_prop_enable /\ running

MapperNext ==
  \/ /\ part = "visual" /\ VisualNext
     /\ UNCHANGED <<part, voxelVars, filterVars, propVars, loopVars, msg>>
  \/ /\ part = "voxel" /\ VoxelNext
     /\ UNCHANGED <<part, visualVars, filterVars, propVars, loopVars, msg>>
  \/ /\ part = "filter" /\ FilterNext
     /\ UNCHANGED <<part, visualVars, voxelVars, propVars, loopVars, msg>>
  \/ /\ part = "imu" /\ PropNext
     /\ UNCHANGED <<part, visualVars, voxelVars, filterVars, loopVars, msg>>
  \/ /\ part = "loop" /\ LoopNext
     /\ UNCHANGED <<part, visualVars, voxelVars, filterVars, propVars, msg>>
  \/ /\ part = "times" /\ MessageNext
     /\ UNCHANGED <<part, visualVars, voxelVars, filterVars, propVars, loopVars>>

MapperSpec == MapperInit /\ [][MapperNext]_mapperVars
=============================================================================
