----------------------------- MODULE VisualMap -----------------------------
(***************************************************************************)
(* The visual map of the mapper (FAST-LIVO2, vio.cpp and visual_point.cpp): *)
(* visual points kept in half-metre voxels, each with the patches (obs_) it *)
(* was seen with and one of them as its reference.  processFrame runs one   *)
(* camera frame through its stages, each of them one action here; between   *)
(* frames handleLIO may slide the map.                                      *)
(*                                                                          *)
(* Space is one axis, counted in half voxels; a visual point stands at a    *)
(* place, and a frame sees each place in one cell of its grid or not at     *)
(* all.  Patches are the numbers of the frames they were cut from.  What    *)
(* images decide (corners, photometric errors, scores, the pose between two *)
(* frames) is a free choice.                                                *)
(***************************************************************************)
EXTENDS Integers, FiniteSets

CONSTANTS
  Points,            \* addresses a VisualPoint may be allocated at
  Places,            \* places of the scene and of the platform
  Cells,             \* cells of the image grid
  NORMAL_EN, RAYCAST_EN, MAP_SLIDING_EN,   \* parameters of the launch file
  HALF_MAP,          \* half edge of the sliding cube, in voxels
  SLIDE_THRESH,      \* travel between two slides
  OBS_LIMIT, OBS_REFERENCE, OBS_CONVERGED, \* 30, 5 and 10 in the code
  MaxFrames,         \* bound: camera frames
  NULL

VARIABLES
  place,         \* of the live points, the members of feat_map; NULL: not allocated
  obs,           \* obs_: the patches; the front of the list is the newest
  ref_patch,     \* has_ref_patch_ is assigned together with it: ref_patch # NULL
  is_converged,
  submap,        \* visual_submap->voxel_points
  total_points, update_flag, map_cells,    \* of the frame (resetGrid)
  pg, view,    \* the frame's LiDAR points, and the cell of each place
  frame,         \* new_frame_->id_
  stage,         \* what processFrame does next
  last_slide_pos

pointVars == <<place, obs, ref_patch, is_converged>>
frameVars == <<submap, total_points, update_flag, map_cells, pg, view, frame>>
visualVars == <<pointVars, frameVars, stage, last_slide_pos>>

Live == {p \in Points : place[p] # NULL}

VisualInit ==
  /\ place = [p \in Points |-> NULL] /\ obs = [p \in Points |-> {}]
  /\ ref_patch = [p \in Points |-> NULL] /\ is_converged = [p \in Points |-> FALSE]
  /\ submap = {} /\ total_points = 0 /\ update_flag = {} /\ map_cells = {}
  /\ pg = {} /\ view = [x \in Places |-> NULL]
  /\ frame = 0 /\ stage = "idle" /\ last_slide_pos = NULL

-----------------------------------------------------------------------------
(* Voxels: a point is filed under one formula and looked up under another. *)

\* insertPointIntoVoxelMap: truncate after taking one off below zero.
InsertVoxel(x) == IF x < 0 THEN -((2 - x) \div 2) ELSE x \div 2

\* retrieveFromVisualSparseMap: floor, and then one off below zero.
LookupVoxel(x) == IF x < 0 THEN (x \div 2) - 1 ELSE x \div 2

\* A point with a patch that the frame sees.
Seen(p, v) == obs[p] # {} /\ v[place[p]] # NULL

\* The points of the voxels that the scan asks for.
OfScan(s, v) ==
  {p \in Live : Seen(p, v) /\ \E x \in s : LookupVoxel(x) = InsertVoxel(place[p])}

\* The points of the voxels that the rays of cells without a map point ask for, r of
\* their samples; a ray ends at the first voxel the scan has asked for.
OfRays(s, r, v) ==
  {p \in Live : /\ Seen(p, v)
                /\ \E x \in r : /\ LookupVoxel(x) = InsertVoxel(place[p])
                                /\ \A y \in s : LookupVoxel(y) # LookupVoxel(x)}

Visible(s, r, v) == OfScan(s, v) \cup OfRays(s, r, v)

\* One point a cell, the nearest.
Nearest(seen, v) ==
  {n \in SUBSET seen : /\ {v[place[p]] : p \in n} = {v[place[p]] : p \in seen}
                       /\ \A p, q \in n : p # q => v[place[p]] # v[place[q]]}

\* Those without a jump of depth around them in the image of the scan's depths.
Smooth(nearest) == SUBSET nearest

\* One patch is the reference, several are compared once, then the choice stays.
ReferenceChoices(p) ==
  IF Cardinality(obs[p]) = 1 \/ ref_patch[p] = NULL THEN obs[p] ELSE {ref_patch[p]}

\* Those whose warped reference patch is like the patch of the image.
Matching(smooth) == SUBSET smooth

\* The cells that have a map point; a new one is made in none of them.
TrackedCells(seen, tracked, v) ==  \* fault: those of the tracked points only
  {v[place[p]] : p \in tracked}
MapCells(seen, tracked, v) == {v[place[p]] : p \in seen}

-----------------------------------------------------------------------------
(* The stages of processFrame. *)

ResetGrid == total_points' = 0 /\ map_cells' = {}

\* resetGrid and retrieveFromVisualSparseMap.  Each cell with visible points keeps
\* the nearest; of these some have no jump of depth around them and get a reference
\* patch, and of these some match the image and are tracked.  An empty map returns
\* before the submap of the last frame is reset.
Retrieve(s, v) ==
  /\ stage = "idle" /\ frame < MaxFrames
  /\ stage' = "generate" /\ frame' = frame + 1
  /\ pg' = s /\ view' = v /\ update_flag' = {}
  /\ \/ /\ Live = {}
        /\ total_points' = 0 /\ map_cells' = {}
        /\ UNCHANGED <<submap, ref_patch>>
     \/ /\ Live # {}
        /\ \E r \in IF RAYCAST_EN THEN SUBSET Places ELSE {{}} :
             LET seen == Visible(s, r, v)
             IN  \E nearest \in Nearest(seen, v) : \E smooth \in Smooth(nearest) :
                      \E tracked \in Matching(smooth) :
                        /\ map_cells' = MapCells(seen, tracked, v)
                        /\ submap' = tracked
                        /\ total_points' = Cardinality(tracked)
                        /\ IF NORMAL_EN
                           THEN \E ref \in [smooth -> 1 .. MaxFrames] :
                                  /\ \A p \in smooth : ref[p] \in ReferenceChoices(p)
                                  /\ ref_patch' = [p \in Points |->
                                       IF p \in smooth THEN ref[p] ELSE ref_patch[p]]
                           ELSE UNCHANGED ref_patch
  /\ UNCHANGED <<place, obs, is_converged, last_slide_pos>>

\* computeJacobianAndUpdateEKF: the filter update moves the state, and with it the pose
\* that the frame is seen from, unless no point is tracked.
Reseen(w) == total_points = 0 => w = view

\* After it generateVisualMapPoints and insertPointIntoVoxelMap, with the new pose: in
\* a cell without a map point the best corner of the scan (or of the planes the rays
\* met) becomes a new point.  The cells with map points are still those the retrieval
\* found under the pose of before.  Bound: there are addresses left.
Generate(new, w) ==
  /\ stage = "generate" /\ stage' = "plot"
  /\ Reseen(w) /\ view' = w
  /\ new \subseteq {x \in IF RAYCAST_EN THEN Places ELSE pg :
                      w[x] # NULL /\ w[x] \notin map_cells}
  /\ \A x, y \in new : x # y => w[x] # w[y]
  /\ \E at \in [new -> Points \ Live] :
       /\ \A x, y \in new : x # y => at[x] # at[y]
       /\ LET PlaceOf(p) == CHOOSE x \in new : at[x] = p
              made == {at[x] : x \in new}
          IN  /\ place' = [p \in Points |-> IF p \in made THEN PlaceOf(p) ELSE place[p]]
              /\ obs' = [p \in Points |-> IF p \in made THEN {frame} ELSE obs[p]]
  /\ UNCHANGED <<ref_patch, is_converged, submap, total_points, update_flag, map_cells,
                 pg, frame, last_slide_pos>>

\* plotTrackedPoints goes by the length of the submap.  In the frames to plot,
\* projectPatchFromRefToCur follows, which goes by total_points.
PlotTrackedPoints(plot_flag) ==
  /\ stage = "plot" /\ stage' = IF plot_flag THEN "project" ELSE "update"
  /\ UNCHANGED <<pointVars, frameVars, last_slide_pos>>

ProjectPatchFromRefToCur ==
  /\ stage = "project" /\ stage' = "update"
  /\ UNCHANGED <<pointVars, frameVars, last_slide_pos>>

\* A point with a reference patch that will not change any more is done with.
Everyone == submap  \* fault: convergence is not looked at
Unsettled == {p \in submap : ~is_converged[p]}

\* deleteFeatureRef
RefDangles(p, deleted) == ref_patch[p]  \* fault: whatever patch is deleted
RefAfter(p, deleted) == IF deleted THEN NULL ELSE ref_patch[p]

\* updateVisualMapPoints: a converged point is left with its reference patch; any
\* other one at the limit loses the patch of the least score, be it the reference,
\* and gets one of this frame when it is seen from far enough from its oldest patch.
UpdatePoints(add) ==
  LET full == {p \in Unsettled : Cardinality(obs[p]) >= OBS_LIMIT}
  IN  /\ stage = "update" /\ stage' = "reference"
      /\ add \subseteq Unsettled
      /\ total_points = 0 => add = {}
      /\ \E least \in [IF total_points = 0 THEN {} ELSE full -> 1 .. MaxFrames] :
           LET Loses(p, f) == p \in DOMAIN least /\ least[p] = f
               Kept(p) == {f \in obs[p] : ~Loses(p, f)}
           IN  /\ \A p \in DOMAIN least : least[p] \in obs[p]
               /\ obs' = [p \in Points |->
                    IF p \in add THEN Kept(p) \cup {frame}
                    ELSE IF p \in submap /\ total_points > 0 /\ is_converged[p]
                         THEN obs[p] \cap {ref_patch[p]} ELSE Kept(p)]
               /\ ref_patch' = [p \in Points |->
                    RefAfter(p, Loses(p, ref_patch[p]))]
      /\ update_flag' = add
      /\ UNCHANGED <<place, is_converged, submap, total_points, map_cells, pg, view,
                     frame, last_slide_pos>>

\* updateReferencePatch: a point with a new patch and enough of them takes the patch
\* of the best score as its reference (none when the scores are not numbers), and
\* converges when its normal has settled.
UpdateReference ==
  LET scored == {p \in submap : /\ ~is_converged[p] /\ p \in update_flag
                                /\ Cardinality(obs[p]) > OBS_REFERENCE}
  IN  /\ stage = "reference" /\ stage' = "idle"
      /\ \E settled \in SUBSET {p \in scored : Cardinality(obs[p]) > OBS_CONVERGED} :
           is_converged' = [p \in Points |-> is_converged[p] \/ p \in settled]
      /\ \E best \in [scored -> 1 .. MaxFrames] :
           \E valid \in SUBSET scored :
             /\ \A p \in scored : best[p] \in obs[p]
             /\ ref_patch' = [p \in Points |->
                  IF p \in valid THEN best[p] ELSE ref_patch[p]]
      /\ UNCHANGED <<place, obs, frameVars, last_slide_pos>>

-----------------------------------------------------------------------------
(* mapSliding, called by handleLIO with the position of the platform. *)

Delete(gone) ==
  /\ place' = [p \in Points |-> IF p \in gone THEN NULL ELSE place[p]]
  /\ obs' = [p \in Points |-> IF p \in gone THEN {} ELSE obs[p]]
  /\ ref_patch' = [p \in Points |-> IF p \in gone THEN NULL ELSE ref_patch[p]]
  /\ is_converged' = [p \in Points |-> p \notin gone /\ is_converged[p]]

VisualSliding(pos) ==
  LET Off(p) == InsertVoxel(place[p]) - (pos \div 2)
      travel == pos - last_slide_pos
  IN  /\ MAP_SLIDING_EN /\ stage = "idle"
      /\ last_slide_pos' = pos
      /\ \/ last_slide_pos = NULL /\ UNCHANGED pointVars  \* the first call
         \/ /\ last_slide_pos # NULL
            /\ travel >= SLIDE_THRESH \/ -travel >= SLIDE_THRESH
            /\ Delete({p \in Live : Off(p) > HALF_MAP \/ -Off(p) > HALF_MAP})
      /\ UNCHANGED <<frameVars, stage>>

VisualNext ==
  \/ \E s \in SUBSET Places : \E v \in [Places -> Cells \cup {NULL}] : Retrieve(s, v)
  \/ \E new \in SUBSET Places : \E w \in [Places -> Cells \cup {NULL}] : Generate(new, w)
  \/ \E plot_flag \in BOOLEAN : PlotTrackedPoints(plot_flag)
  \/ ProjectPatchFromRefToCur
  \/ \E add \in SUBSET submap : UpdatePoints(add)
  \/ UpdateReference
  \/ \E pos \in Places : VisualSliding(pos)

VisualSpec == VisualInit /\ [][VisualNext]_visualVars

-----------------------------------------------------------------------------

VisualTypeOK ==
  /\ place \in [Points -> Places \cup {NULL}]
  /\ obs \in [Points -> SUBSET (1 .. MaxFrames)]
  /\ ref_patch \in [Points -> (1 .. MaxFrames) \cup {NULL}]
  /\ is_converged \in [Points -> BOOLEAN]
  /\ submap \subseteq Points /\ total_points \in 0 .. Cardinality(Points)
  /\ update_flag \subseteq Points /\ map_cells \subseteq Cells
  /\ pg \subseteq Places /\ view \in [Places -> Cells \cup {NULL}]
  /\ frame \in 0 .. MaxFrames
  /\ stage \in {"idle", "generate", "plot", "project", "update", "reference"}
  /\ last_slide_pos \in Places \cup {NULL}

\* The reference patch is never a deleted one, a visual point never runs out of
\* patches nor has too many, and a stage that follows the pointers of the tracked
\* points (filter, plots, updates) finds a reference patch there.
ReferenceAlive ==
  /\ \A p \in Live : /\ obs[p] # {} /\ Cardinality(obs[p]) <= OBS_LIMIT
                     /\ ref_patch[p] \in obs[p] \cup {NULL}
  /\ (NORMAL_EN /\ total_points > 0 /\ stage \in {"generate", "project", "update"})
       => \A p \in submap : ref_patch[p] # NULL

\* The points whose pointers the stage to come follows: the filter, the projection and
\* the updates go by total_points, plotTrackedPoints by the length of the submap.
Followed ==
  IF stage = "plot" \/ (stage # "idle" /\ total_points > 0) THEN submap ELSE {}

\* One stage does follow pointers to deleted points: plotTrackedPoints, and only in a
\* frame that found the map emptied by a slide (whatever lives was made in this frame)
\* and so kept the submap of the frame before.  Everywhere else the points tracked in a
\* frame live to its end.
TrackedAlive ==
  Followed \ Live # {} =>
    stage = "plot" /\ total_points = 0 /\ \A p \in Live : obs[p] = {frame}

PointersAlive == ReferenceAlive /\ TrackedAlive

\* A place gets a second visual point only where the look-up misses the voxel the
\* first one was filed under, which happens below zero only, or when the filter update
\* has moved it to another cell of the grid, or into it, since the retrieval.
DuplicateStep ==
  \A p, q \in Live' :
    (p # q /\ q \notin Live /\ place'[p] = place'[q]) =>
      \/ LookupVoxel(place'[q]) # InsertVoxel(place'[q])
      \/ total_points > 0 /\ view'[place'[q]] # view[place'[q]]

NoDuplicateAhead == [][DuplicateStep]_visualVars

\* A converged point takes no patch any more, and its reference stays.
ConvergedStays ==
  [][\A p \in Live : is_converged[p] /\ place'[p] # NULL
       => /\ is_converged'[p] /\ obs'[p] \subseteq obs[p]
          /\ ref_patch[p] # NULL => ref_patch'[p] = ref_patch[p]]_visualVars
=============================================================================
