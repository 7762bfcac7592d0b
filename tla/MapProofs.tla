------------------------------ MODULE MapProofs -----------------------------
(****************************************************************************)
(* The mapper's two maps.  VisualMap for any addresses, places, grid, limit *)
(* of patches and number of frames, with the normals of the planes in use   *)
(* (NORMAL_EN); VoxelMap for any voxels, branching, depth and limits of     *)
(* points.                                                                  *)
(****************************************************************************)
EXTENDS VisualMap, VoxelMap, FiniteSetTheorems, SequenceTheorems, TLAPS

VisualAssumption ==
  /\ IsFiniteSet(Points) /\ Places \subseteq Int
  /\ NULL \notin Places /\ NULL \notin Cells /\ NULL \notin Nat
  /\ MaxFrames \in Nat /\ OBS_LIMIT \in Nat /\ OBS_LIMIT >= 2
  /\ NORMAL_EN

-----------------------------------------------------------------------------
(* The two voxel indices. *)

\* Ahead of the origin a point is looked up in the voxel it was filed under, and
\* behind it only at the places that bound a voxel, every second one.
THEOREM IndicesAgree ==
  /\ \A x \in Nat : LookupVoxel(x) = InsertVoxel(x)
  /\ \A x \in Int : x < 0 => (LookupVoxel(x) = InsertVoxel(x) <=> x % 2 = 0)
<1>1. \A x \in Nat : LookupVoxel(x) = InsertVoxel(x)
  BY DEF LookupVoxel, InsertVoxel
<1>2. ASSUME NEW x \in Int, x < 0
      PROVE  LookupVoxel(x) = InsertVoxel(x) <=> x % 2 = 0
  BY <1>2 DEF LookupVoxel, InsertVoxel
<1> QED  BY <1>1, <1>2

-----------------------------------------------------------------------------
(* The inductive invariant. *)

Types ==
  /\ place \in [Points -> Places \cup {NULL}]
  /\ obs \in [Points -> SUBSET (1 .. MaxFrames)]
  /\ ref_patch \in [Points -> (1 .. MaxFrames) \cup {NULL}]
  /\ is_converged \in [Points -> BOOLEAN]
  /\ submap \subseteq Points /\ total_points \in Nat
  /\ frame \in 0 .. MaxFrames /\ (stage # "idle" => frame # 0)
  /\ stage \in {"idle", "generate", "plot", "project", "update", "reference"}

\* A free address has nothing; a point has a patch, not too many of them, and no
\* reference but one of its own.
Sound(pl, ob, ref, p) ==
  IF pl[p] = NULL
  THEN ob[p] = {} /\ ref[p] = NULL
  ELSE ob[p] # {} /\ Cardinality(ob[p]) <= OBS_LIMIT /\ ref[p] \in ob[p] \cup {NULL}

Patches == \A p \in Points : Sound(place, obs, ref_patch, p)

\* The tracked points live, and keep their reference up to the update.
Tracked ==
  stage # "idle" /\ total_points # 0 =>
    /\ submap \subseteq Live
    /\ stage # "reference" => \A p \in submap : ref_patch[p] # NULL

\* Without tracked points no patch is added.
Flags == stage = "reference" /\ total_points = 0 => update_flag = {}

\* A place the scan shows again has its cell taken by the point it already has.
Taken ==
  stage = "generate" /\ ~RAYCAST_EN =>
    \A p \in Live : (/\ place[p] \in pg /\ view[place[p]] # NULL
                     /\ LookupVoxel(place[p]) = InsertVoxel(place[p]))
                      => view[place[p]] \in map_cells

\* A submap without tracked points is left over from before the map was emptied: what
\* lives was made in this frame.
LeftOver ==
  stage # "idle" /\ total_points = 0 /\ submap # {} => \A p \in Live : obs[p] = {frame}

VInv == Types /\ Patches /\ Tracked /\ Flags /\ Taken /\ LeftOver

\* The patches of a point are finitely many.
LEMMA PatchesFinite ==
  ASSUME VisualAssumption, NEW S, S \subseteq 1 .. MaxFrames
  PROVE  IsFiniteSet(S) /\ Cardinality(S) \in Nat
<1>1. IsFiniteSet(1 .. MaxFrames)
  BY FS_Interval DEF VisualAssumption
<1> QED  BY <1>1, FS_Subset, FS_CardinalityType

LEMMA VisualInitOK == ASSUME VisualAssumption, VisualInit  PROVE VInv
<1> USE DEF VisualAssumption, VisualInit
<1>1. Types
  <2>1. is_converged \in [Points -> BOOLEAN]
    BY Zenon
  <2> QED  BY <2>1 DEF Types
<1>2. Patches /\ Tracked /\ Flags /\ Taken /\ LeftOver
  BY DEF Patches, Sound, Tracked, Flags, Taken, LeftOver
<1> QED  BY <1>1, <1>2 DEF VInv

-----------------------------------------------------------------------------
(* Every step keeps it. *)

\* The reference a tracked point gets is one of its patches.
LEMMA ChoiceIsPatch ==
  ASSUME VisualAssumption, VInv, NEW p \in Live, NEW c \in ReferenceChoices(p)
  PROVE  /\ c \in obs[p] /\ c # NULL
         /\ ref_patch[p] # NULL => c = ref_patch[p]
<1>1. p \in Points /\ ref_patch[p] \in obs[p] \cup {NULL} /\ obs[p] \subseteq 1 .. MaxFrames
  BY DEF Live, VInv, Types, Patches, Sound
<1>2. \A f \in obs[p] : f # NULL
  BY <1>1 DEF VisualAssumption
<1>3. CASE ref_patch[p] = NULL
  BY <1>2, <1>3 DEF ReferenceChoices
<1>4. CASE ref_patch[p] # NULL /\ Cardinality(obs[p]) = 1
  <2>1. PICK x : obs[p] = {x}
    BY <1>1, <1>4, PatchesFinite, FS_Singleton
  <2> QED  BY <1>1, <1>2, <1>4, <2>1 DEF ReferenceChoices
<1>5. CASE ref_patch[p] # NULL /\ Cardinality(obs[p]) # 1
  BY <1>1, <1>2, <1>5 DEF ReferenceChoices
<1> QED  BY <1>3, <1>4, <1>5

\* What a frame keeps of the points it sees.
Chosen(seen, v, smooth, tracked) ==
  /\ map_cells' = MapCells(seen, tracked, v)
  /\ submap' = tracked
  /\ total_points' = Cardinality(tracked)
  /\ IF NORMAL_EN
     THEN \E ref \in [smooth -> 1 .. MaxFrames] :
            /\ \A p \in smooth : ref[p] \in ReferenceChoices(p)
            /\ ref_patch' = [p \in Points |->
                 IF p \in smooth THEN ref[p] ELSE ref_patch[p]]
     ELSE UNCHANGED ref_patch

\* What a frame retrieves.
LEMMA RetrieveFacts ==
  ASSUME VisualAssumption, VInv, NEW s \in SUBSET Places,
         NEW v \in [Places -> Cells \cup {NULL}], Retrieve(s, v)
  PROVE  /\ stage' = "generate" /\ frame' = frame + 1 /\ frame < MaxFrames
         /\ pg' = s /\ view' = v
         /\ UNCHANGED <<place, obs, is_converged, last_slide_pos>>
         /\ \/ Live = {} /\ total_points' = 0 /\ UNCHANGED <<submap, ref_patch>>
            \/ /\ submap' \subseteq Live /\ total_points' \in Nat
               /\ total_points' = 0 => submap' = {}
               /\ ~RAYCAST_EN => \A p \in OfScan(s, v) : v[place[p]] \in map_cells'
               /\ ref_patch' \in [Points -> (1 .. MaxFrames) \cup {NULL}]
               /\ \A p \in submap' : ref_patch'[p] # NULL
               /\ \A p \in Points : ref_patch'[p] # ref_patch[p] =>
                    p \in Live /\ ref_patch'[p] \in ReferenceChoices(p)
<1>1. /\ stage' = "generate" /\ frame' = frame + 1 /\ frame < MaxFrames
      /\ pg' = s /\ view' = v
      /\ UNCHANGED <<place, obs, is_converged, last_slide_pos>>
  BY DEF Retrieve, ResetGrid
<1>2. CASE /\ Live = {} /\ total_points' = 0 /\ UNCHANGED <<submap, ref_patch>>
  BY <1>1, <1>2
<1>3. CASE \E r \in IF RAYCAST_EN THEN SUBSET Places ELSE {{}} :
             \E nearest \in Nearest(Visible(s, r, v), v) :
               \E smooth \in Smooth(nearest) : \E tracked \in Matching(smooth) :
                 Chosen(Visible(s, r, v), v, smooth, tracked)
  <2>1. PICK r \in IF RAYCAST_EN THEN SUBSET Places ELSE {{}} :
          \E nearest \in Nearest(Visible(s, r, v), v) :
            \E smooth \in Smooth(nearest) : \E tracked \in Matching(smooth) :
              Chosen(Visible(s, r, v), v, smooth, tracked)
    BY <1>3
  <2> DEFINE seen == Visible(s, r, v)
  <2>2. PICK nearest \in Nearest(seen, v) :
           \E smooth \in Smooth(nearest) : \E tracked \in Matching(smooth) :
             Chosen(seen, v, smooth, tracked)
    BY <2>1
  <2>3. PICK smooth \in Smooth(nearest) :
           \E tracked \in Matching(smooth) : Chosen(seen, v, smooth, tracked)
    BY <2>2
  <2>4. PICK tracked \in Matching(smooth) : Chosen(seen, v, smooth, tracked)
    BY <2>3
  <2>5. /\ map_cells' = {v[place[p]] : p \in seen}
        /\ submap' = tracked
        /\ total_points' = Cardinality(tracked)
    BY <2>4 DEF Chosen, MapCells
  <2>6. PICK ref \in [smooth -> 1 .. MaxFrames] :
           /\ \A p \in smooth : ref[p] \in ReferenceChoices(p)
           /\ ref_patch' = [p \in Points |-> IF p \in smooth THEN ref[p] ELSE ref_patch[p]]
    BY <2>4 DEF Chosen, VisualAssumption
  <2>7. tracked \subseteq smooth /\ smooth \subseteq seen
    <3>1. smooth \subseteq nearest /\ tracked \subseteq smooth
      BY DEF Smooth, Matching
    <3>2. nearest \subseteq seen
      BY DEF Nearest
    <3> QED  BY <3>1, <3>2
  <2>8. seen \subseteq Live /\ OfScan(s, v) \subseteq seen
    BY DEF Visible, OfScan, OfRays
  <2>9. smooth \subseteq Live /\ Live \subseteq Points
    BY <2>7, <2>8 DEF Live
  <2>10. total_points' \in Nat /\ (total_points' = 0 => submap' = {})
    <3>1. IsFiniteSet(tracked)
      BY <2>7, <2>9, FS_Subset DEF VisualAssumption
    <3> QED  BY <2>5, <3>1, FS_CardinalityType, FS_EmptySet
  <2>11. \A p \in Points : ref_patch'[p] = IF p \in smooth THEN ref[p] ELSE ref_patch[p]
    BY <2>6
  <2>12. ref_patch' \in [Points -> (1 .. MaxFrames) \cup {NULL}]
    BY <2>6 DEF VInv, Types
  <2>13. \A p \in submap' : ref_patch'[p] # NULL
    BY <2>5, <2>7, <2>9, <2>11 DEF VisualAssumption
  <2>14. \A p \in OfScan(s, v) : v[place[p]] \in map_cells'
    BY <2>5, <2>8
  <2>15. \A p \in Points : ref_patch'[p] # ref_patch[p] =>
           p \in Live /\ ref_patch'[p] \in ReferenceChoices(p)
    BY <2>6, <2>9, <2>11
  <2>16. submap' \subseteq Live
    BY <2>5, <2>7, <2>9
  <2> QED  BY <1>1, <2>10, <2>12, <2>13, <2>14, <2>15, <2>16
<1> QED  BY <1>2, <1>3 DEF Retrieve, ResetGrid, Chosen

LEMMA RetrieveKeeps ==
  ASSUME VisualAssumption, VInv, NEW s \in SUBSET Places,
         NEW v \in [Places -> Cells \cup {NULL}], Retrieve(s, v)
  PROVE  VInv'
<1>1. /\ stage' = "generate" /\ frame' \in 0 .. MaxFrames /\ frame' # 0
      /\ pg' = s /\ view' = v
      /\ UNCHANGED <<place, obs, is_converged, last_slide_pos>>
  <2>1. /\ stage' = "generate" /\ frame' = frame + 1 /\ frame < MaxFrames
        /\ pg' = s /\ view' = v
        /\ UNCHANGED <<place, obs, is_converged, last_slide_pos>>
    BY DEF Retrieve, ResetGrid
  <2>2. frame \in 0 .. MaxFrames /\ MaxFrames \in Nat
    BY DEF VInv, Types, VisualAssumption
  <2> QED  BY <2>1, <2>2
<1>2. Live' = Live
  BY <1>1 DEF Live
<1>4. Flags'
  BY <1>1 DEF Flags
<1>5. CASE Live = {} /\ total_points' = 0 /\ UNCHANGED <<submap, ref_patch>>
  <2>1. Types' /\ Patches'
    BY <1>1, <1>5 DEF VInv, Types, Patches
  <2>2. Tracked' /\ Taken' /\ LeftOver'
    BY <1>2, <1>5 DEF Tracked, Taken, LeftOver
  <2> QED  BY <1>4, <2>1, <2>2 DEF VInv
<1>6. CASE /\ submap' \subseteq Live /\ total_points' \in Nat
           /\ total_points' = 0 => submap' = {}
           /\ ~RAYCAST_EN => \A p \in OfScan(s, v) : v[place[p]] \in map_cells'
           /\ ref_patch' \in [Points -> (1 .. MaxFrames) \cup {NULL}]
           /\ \A p \in submap' : ref_patch'[p] # NULL
           /\ \A p \in Points : ref_patch'[p] # ref_patch[p] =>
                p \in Live /\ ref_patch'[p] \in ReferenceChoices(p)
  <2>1. Types'
    BY <1>1, <1>6 DEF VInv, Types, Live
  <2>2. Patches'
    <3> SUFFICES ASSUME NEW p \in Points  PROVE Sound(place, obs, ref_patch', p)
      BY <1>1 DEF Patches
    <3>1. CASE ref_patch'[p] = ref_patch[p]
      BY <3>1 DEF VInv, Patches, Sound
    <3>2. CASE ref_patch'[p] # ref_patch[p]
      <4>1. p \in Live /\ ref_patch'[p] \in obs[p]
        BY <1>6, <3>2, ChoiceIsPatch
      <4> QED  BY <4>1 DEF VInv, Patches, Sound, Live
    <3> QED  BY <3>1, <3>2
  <2>3. Tracked'
    BY <1>2, <1>6 DEF Tracked
  <2>4. Taken'
    <3> SUFFICES ASSUME ~RAYCAST_EN, NEW p \in Live, place[p] \in s, v[place[p]] # NULL,
                        LookupVoxel(place[p]) = InsertVoxel(place[p])
                 PROVE  v[place[p]] \in map_cells'
      BY <1>1, <1>2 DEF Taken
    <3>1. obs[p] # {}
      BY DEF VInv, Patches, Sound, Live
    <3>2. p \in OfScan(s, v)
      BY <3>1 DEF OfScan, Seen
    <3> QED  BY <1>6, <3>2
  <2>5. LeftOver'
    BY <1>6 DEF LeftOver
  <2> QED  BY <1>4, <2>1, <2>2, <2>3, <2>4, <2>5 DEF VInv
<1> QED  BY <1>5, <1>6, RetrieveFacts

\* New points stand at free addresses.
LEMMA GenerateFacts ==
  ASSUME VisualAssumption, VInv, NEW new \in SUBSET Places,
         NEW w \in [Places -> Cells \cup {NULL}], Generate(new, w)
  PROVE  /\ stage = "generate" /\ stage' = "plot" /\ view' = w
         /\ total_points = 0 => w = view
         /\ \A x \in new : w[x] # NULL /\ w[x] \notin map_cells /\ (RAYCAST_EN \/ x \in pg)
         /\ UNCHANGED <<ref_patch, is_converged, submap, total_points, update_flag, map_cells,
                        pg, frame, last_slide_pos>>
         /\ place' = [p \in Points |-> place'[p]] /\ obs' = [p \in Points |-> obs'[p]]
         /\ \E made \in SUBSET (Points \ Live) :
              /\ Live' = Live \cup made
              /\ \A p \in made : place'[p] \in new /\ obs'[p] = {frame}
              /\ \A p, q \in made : p # q => place'[p] # place'[q]
              /\ \A p \in Points : p \notin made => place'[p] = place[p] /\ obs'[p] = obs[p]
<1>1. /\ stage = "generate" /\ stage' = "plot" /\ view' = w
      /\ total_points = 0 => w = view
      /\ \A x \in new : w[x] # NULL /\ w[x] \notin map_cells /\ (RAYCAST_EN \/ x \in pg)
      /\ UNCHANGED <<ref_patch, is_converged, submap, total_points, update_flag, map_cells,
                     pg, frame, last_slide_pos>>
  BY DEF Generate, Reseen
<1>2. PICK at \in [new -> Points \ Live] :
        /\ \A x, y \in new : x # y => at[x] # at[y]
        /\ place' = [p \in Points |-> IF p \in {at[x] : x \in new}
                                      THEN CHOOSE x \in new : at[x] = p ELSE place[p]]
        /\ obs' = [p \in Points |-> IF p \in {at[x] : x \in new} THEN {frame} ELSE obs[p]]
  BY DEF Generate
<1> DEFINE made == {at[x] : x \in new}
<1>3. made \subseteq Points \ Live
  BY <1>2
<1>4. \A p \in made : place'[p] \in new /\ at[place'[p]] = p /\ obs'[p] = {frame}
  <2> SUFFICES ASSUME NEW p \in made  PROVE place'[p] \in new /\ at[place'[p]] = p /\ obs'[p] = {frame}
    OBVIOUS
  <2>1. \E x \in new : at[x] = p
    OBVIOUS
  <2>2. (CHOOSE x \in new : at[x] = p) \in new /\ at[CHOOSE x \in new : at[x] = p] = p
    BY <2>1
  <2>3. p \in Points /\ p \in made
    BY <1>3
  <2>4. place'[p] = CHOOSE x \in new : at[x] = p
    BY <1>2, <2>3
  <2>5. obs'[p] = {frame}
    BY <1>2, <2>3
  <2> QED  BY <2>2, <2>4, <2>5
<1>5. \A p \in Points : p \notin made => place'[p] = place[p] /\ obs'[p] = obs[p]
  BY <1>2
<1> HIDE DEF made
<1>6. place' = [p \in Points |-> place'[p]] /\ obs' = [p \in Points |-> obs'[p]]
  BY <1>2
<1>7. Live' = Live \cup made
  <2>1. NULL \notin new
    BY DEF VisualAssumption
  <2> QED  BY <1>3, <1>4, <1>5, <2>1 DEF Live
<1>8. \A p, q \in made : p # q => place'[p] # place'[q]
  BY <1>4
<1> QED  BY <1>1, <1>3, <1>4, <1>5, <1>6, <1>7, <1>8

LEMMA GenerateKeeps ==
  ASSUME VisualAssumption, VInv, NEW new \in SUBSET Places,
         NEW w \in [Places -> Cells \cup {NULL}], Generate(new, w)
  PROVE  VInv'
<1>1. /\ stage = "generate" /\ stage' = "plot"
      /\ UNCHANGED <<ref_patch, is_converged, submap, total_points, update_flag, map_cells,
                     pg, frame, last_slide_pos>>
      /\ place' = [p \in Points |-> place'[p]] /\ obs' = [p \in Points |-> obs'[p]]
  BY GenerateFacts
<1>2. PICK made \in SUBSET (Points \ Live) :
        /\ Live' = Live \cup made
        /\ \A p \in made : place'[p] \in new /\ obs'[p] = {frame}
        /\ \A p \in Points : p \notin made => place'[p] = place[p] /\ obs'[p] = obs[p]
  BY GenerateFacts
<1>8. frame \in 1 .. MaxFrames
  BY <1>1 DEF VInv, Types, VisualAssumption
<1>9. Types'
  <2>1. \A p \in Points : place'[p] \in Places \cup {NULL}
                          /\ obs'[p] \in SUBSET (1 .. MaxFrames)
    BY <1>2, <1>8 DEF VInv, Types
  <2>2. /\ place' \in [Points -> Places \cup {NULL}]
        /\ obs' \in [Points -> SUBSET (1 .. MaxFrames)]
    BY <1>1, <2>1
  <2> QED  BY <1>1, <2>2 DEF VInv, Types
<1>10. Patches'
  <2> SUFFICES ASSUME NEW p \in Points  PROVE Sound(place', obs', ref_patch', p)
    BY DEF Patches
  <2>1. CASE p \in made
    <3>1. place[p] = NULL /\ ref_patch[p] = NULL
      BY <2>1 DEF VInv, Patches, Sound, Live
    <3>2. place'[p] # NULL
      BY <1>2, <2>1 DEF VisualAssumption
    <3>3. Cardinality({frame}) = 1
      BY FS_Singleton
    <3>4. Cardinality({frame}) <= OBS_LIMIT
      BY <3>3 DEF VisualAssumption
    <3> QED  BY <1>1, <1>2, <2>1, <3>1, <3>2, <3>4 DEF Sound
  <2>2. CASE p \notin made
    BY <1>1, <1>2, <2>2 DEF VInv, Patches, Sound
  <2> QED  BY <2>1, <2>2
<1>11. Tracked'
  BY <1>1, <1>2 DEF VInv, Tracked
<1>12. Flags' /\ Taken'
  BY <1>1 DEF Flags, Taken
<1>13. LeftOver'
  BY <1>1, <1>2 DEF VInv, LeftOver, Live
<1> QED  BY <1>9, <1>10, <1>11, <1>12, <1>13 DEF VInv

\* The two plots move nothing.
LEMMA PlotKeeps ==
  ASSUME VisualAssumption, VInv, (\E f \in BOOLEAN : PlotTrackedPoints(f)) \/ ProjectPatchFromRefToCur
  PROVE  VInv'
<1>1. /\ stage \in {"plot", "project"} /\ stage' \in {"project", "update"}
      /\ UNCHANGED <<place, obs, ref_patch, is_converged, submap, total_points, update_flag,
                     map_cells, pg, view, frame>>
  BY DEF PlotTrackedPoints, ProjectPatchFromRefToCur, pointVars, frameVars
<1>2. Live' = Live
  BY <1>1 DEF Live
<1> QED
  BY <1>1, <1>2 DEF VInv, Types, Patches, Tracked, Flags, Taken, LeftOver

\* What a point keeps of its patches, and what it has after the update.
LEMMA UpdateFacts ==
  ASSUME VisualAssumption, VInv, NEW add \in SUBSET submap, UpdatePoints(add)
  PROVE  /\ stage = "update" /\ stage' = "reference" /\ update_flag' = add
         /\ total_points = 0 => add = {}
         /\ UNCHANGED <<place, is_converged, submap, total_points, map_cells, pg, view,
                       frame, last_slide_pos>>
         /\ DOMAIN obs' = Points /\ DOMAIN ref_patch' = Points
         /\ obs' = [p \in Points |-> obs'[p]] /\ ref_patch' = [p \in Points |-> ref_patch'[p]]
         /\ \A p \in Points :
              \/ /\ p \in submap /\ total_points # 0 /\ is_converged[p]
                 /\ obs'[p] = obs[p] \cap {ref_patch[p]} /\ ref_patch'[p] = ref_patch[p]
              \/ /\ p \in submap => ~is_converged[p] \/ total_points = 0
                 /\ p \in add => total_points # 0 /\ p \in submap /\ ~is_converged[p]
                 /\ \/ /\ p \in submap /\ total_points # 0
                       /\ Cardinality(obs[p]) >= OBS_LIMIT
                       /\ \E f \in obs[p] :
                            /\ obs'[p] = (obs[p] \ {f}) \cup (IF p \in add THEN {frame} ELSE {})
                            /\ ref_patch'[p] = IF ref_patch[p] = f THEN NULL ELSE ref_patch[p]
                    \/ /\ p \in submap => Cardinality(obs[p]) < OBS_LIMIT \/ total_points = 0
                       /\ obs'[p] = obs[p] \cup (IF p \in add THEN {frame} ELSE {})
                       /\ ref_patch'[p] = ref_patch[p]
<1> DEFINE full == {p \in Unsettled : Cardinality(obs[p]) >= OBS_LIMIT}
           Dom == IF total_points = 0 THEN {} ELSE full
           Loses(least, p, f) == p \in DOMAIN least /\ least[p] = f
           Kept(least, p) == {f \in obs[p] : ~Loses(least, p, f)}
<1>1. /\ stage = "update" /\ stage' = "reference" /\ update_flag' = add
      /\ add \subseteq Unsettled
      /\ total_points = 0 => add = {}
      /\ UNCHANGED <<place, is_converged, submap, total_points, map_cells, pg, view,
                    frame, last_slide_pos>>
  BY DEF UpdatePoints
<1>2. PICK least \in [Dom -> 1 .. MaxFrames] :
        /\ \A p \in Dom : least[p] \in obs[p]
        /\ obs' = [p \in Points |->
             IF p \in add THEN Kept(least, p) \cup {frame}
             ELSE IF p \in submap /\ total_points > 0 /\ is_converged[p]
                  THEN obs[p] \cap {ref_patch[p]} ELSE Kept(least, p)]
        /\ ref_patch' = [p \in Points |-> RefAfter(p, Loses(least, p, ref_patch[p]))]
  BY DEF UpdatePoints
<1>3. total_points \in Nat /\ (total_points > 0 <=> total_points # 0)
  BY DEF VInv, Types
<1>4. Unsettled \subseteq submap /\ \A p \in Unsettled : ~is_converged[p]
  BY DEF Unsettled
<1>5. \A p \in Dom : p \in Unsettled /\ total_points # 0 /\ Cardinality(obs[p]) >= OBS_LIMIT
  OBVIOUS
<1>6. \A p \in submap : ~is_converged[p] /\ total_points # 0 /\ p \notin Dom
                          => ~(Cardinality(obs[p]) >= OBS_LIMIT)
  BY DEF Unsettled
<1> HIDE DEF Dom
<1>7. ASSUME NEW p \in Points
      PROVE  \/ /\ p \in submap /\ total_points # 0 /\ is_converged[p]
                /\ obs'[p] = obs[p] \cap {ref_patch[p]} /\ ref_patch'[p] = ref_patch[p]
             \/ /\ p \in submap => ~is_converged[p] \/ total_points = 0
                /\ p \in add => total_points # 0 /\ p \in submap /\ ~is_converged[p]
                /\ \/ /\ p \in submap /\ total_points # 0
                      /\ Cardinality(obs[p]) >= OBS_LIMIT
                      /\ \E f \in obs[p] :
                           /\ obs'[p] = (obs[p] \ {f}) \cup (IF p \in add THEN {frame} ELSE {})
                           /\ ref_patch'[p] = IF ref_patch[p] = f THEN NULL ELSE ref_patch[p]
                   \/ /\ p \in submap => Cardinality(obs[p]) < OBS_LIMIT \/ total_points = 0
                      /\ obs'[p] = obs[p] \cup (IF p \in add THEN {frame} ELSE {})
                      /\ ref_patch'[p] = ref_patch[p]
  <2>1. p \in add => total_points # 0 /\ p \in submap /\ ~is_converged[p]
    BY <1>1, <1>4
  <2>2. ref_patch'[p] = IF p \in Dom /\ least[p] = ref_patch[p] THEN NULL ELSE ref_patch[p]
    BY <1>2 DEF RefAfter
  <2>3. CASE p \in submap /\ total_points # 0 /\ is_converged[p]
    <3>1. p \notin add /\ p \notin Dom
      BY <1>4, <1>5, <2>1, <2>3
    <3> QED  BY <1>2, <1>3, <2>2, <2>3, <3>1
  <2>4. CASE ~(p \in submap /\ total_points # 0 /\ is_converged[p])
    <3>1. obs'[p] = Kept(least, p) \cup (IF p \in add THEN {frame} ELSE {})
      BY <1>2, <1>3, <2>4
    <3>2. p \in submap => ~is_converged[p] \/ total_points = 0
      BY <2>4
    <3>3. CASE p \in Dom
      <4>1. Kept(least, p) = obs[p] \ {least[p]}
        BY <1>2, <3>3
      <4>2. p \in submap /\ total_points # 0 /\ Cardinality(obs[p]) >= OBS_LIMIT
        BY <1>4, <1>5, <3>3
      <4>3. ref_patch'[p] = IF ref_patch[p] = least[p] THEN NULL ELSE ref_patch[p]
        BY <2>2, <3>3
      <4>4. least[p] \in obs[p]
        BY <1>2, <3>3
      <4>5. \E f \in obs[p] :
              /\ obs'[p] = (obs[p] \ {f}) \cup (IF p \in add THEN {frame} ELSE {})
              /\ ref_patch'[p] = IF ref_patch[p] = f THEN NULL ELSE ref_patch[p]
        <5> HIDE DEF Kept
        <5> QED  BY <3>1, <4>1, <4>3, <4>4
      <4> QED  BY <2>1, <3>2, <4>2, <4>5
    <3>4. CASE p \notin Dom
      <4>1. Kept(least, p) = obs[p]
        BY <1>2, <3>4
      <4>2. ref_patch'[p] = ref_patch[p]
        BY <2>2, <3>4
      <4>3. p \in submap => Cardinality(obs[p]) < OBS_LIMIT \/ total_points = 0
        <5>1. ASSUME p \in submap, total_points # 0  PROVE Cardinality(obs[p]) < OBS_LIMIT
          <6>1. ~(Cardinality(obs[p]) >= OBS_LIMIT)
            BY <1>6, <2>4, <3>4, <5>1
          <6>2. Cardinality(obs[p]) \in Nat
            BY PatchesFinite DEF VInv, Types
          <6> QED  BY <6>1, <6>2 DEF VisualAssumption
        <5> QED  BY <5>1
      <4>4. obs'[p] = obs[p] \cup (IF p \in add THEN {frame} ELSE {})
        BY <3>1, <4>1
      <4> QED  BY <2>1, <3>2, <4>2, <4>3, <4>4
    <3> QED  BY <3>3, <3>4
  <2> QED  BY <2>3, <2>4
<1>8. /\ DOMAIN obs' = Points /\ DOMAIN ref_patch' = Points
      /\ obs' = [p \in Points |-> obs'[p]] /\ ref_patch' = [p \in Points |-> ref_patch'[p]]
  BY <1>2
<1> QED  BY <1>1, <1>7, <1>8

\* A point keeps a patch, not too many, and its reference among them.
LEMMA UpdatePointsKeeps ==
  ASSUME VisualAssumption, VInv, NEW add \in SUBSET submap, UpdatePoints(add)  PROVE VInv'
<1>1. /\ stage = "update" /\ stage' = "reference" /\ update_flag' = add
      /\ total_points = 0 => add = {}
      /\ UNCHANGED <<place, is_converged, submap, total_points, map_cells, pg, view,
                    frame, last_slide_pos>>
      /\ obs' = [p \in Points |-> obs'[p]] /\ ref_patch' = [p \in Points |-> ref_patch'[p]]
  BY UpdateFacts
<1>2. Live' = Live
  BY <1>1 DEF Live
<1>3. frame \in 1 .. MaxFrames
  BY <1>1 DEF VInv, Types, VisualAssumption
<1>4. ASSUME NEW p \in Points
      PROVE  /\ obs'[p] \subseteq 1 .. MaxFrames
             /\ ref_patch'[p] \in (1 .. MaxFrames) \cup {NULL}
             /\ Sound(place', obs', ref_patch', p)
  <2> DEFINE new == IF p \in add THEN {frame} ELSE {}
  <2>1. /\ obs[p] \subseteq 1 .. MaxFrames /\ ref_patch[p] \in (1 .. MaxFrames) \cup {NULL}
        /\ Sound(place, obs, ref_patch, p) /\ place' = place
    BY <1>1 DEF VInv, Types, Patches
  <2>2. IsFiniteSet(obs[p]) /\ Cardinality(obs[p]) \in Nat
    BY <2>1, PatchesFinite
  <2>3. p \in submap /\ total_points # 0 => place[p] # NULL /\ ref_patch[p] # NULL
    BY <1>1 DEF VInv, Tracked, Live
  <2>4. p \in add => place[p] # NULL /\ total_points # 0
    BY <1>1, <2>3
  <2>5. CASE /\ p \in submap /\ total_points # 0
             /\ obs'[p] = obs[p] \cap {ref_patch[p]} /\ ref_patch'[p] = ref_patch[p]
    <3>1. place[p] # NULL /\ ref_patch[p] \in obs[p]
      BY <2>1, <2>3, <2>5 DEF Sound
    <3>2. obs'[p] = {ref_patch[p]}
      BY <2>5, <3>1
    <3>3. Cardinality(obs'[p]) = 1
      BY <3>2, FS_Singleton
    <3>4. Cardinality(obs'[p]) <= OBS_LIMIT
      BY <3>3 DEF VisualAssumption
    <3> QED  BY <2>1, <2>5, <3>1, <3>2, <3>4 DEF Sound
  <2>6. CASE /\ p \in submap /\ total_points # 0 /\ Cardinality(obs[p]) >= OBS_LIMIT
             /\ \E f \in obs[p] : /\ obs'[p] = (obs[p] \ {f}) \cup new
                                 /\ ref_patch'[p] = IF ref_patch[p] = f THEN NULL ELSE ref_patch[p]
    <3>1. PICK f \in obs[p] : /\ obs'[p] = (obs[p] \ {f}) \cup new
                             /\ ref_patch'[p] = IF ref_patch[p] = f THEN NULL ELSE ref_patch[p]
      BY <2>6
    <3>2. place[p] # NULL /\ Cardinality(obs[p]) = OBS_LIMIT /\ ref_patch[p] \in obs[p]
      <4>1. place[p] # NULL /\ ref_patch[p] \in obs[p] /\ Cardinality(obs[p]) <= OBS_LIMIT
        BY <2>1, <2>3, <2>6 DEF Sound
      <4> QED  BY <2>2, <2>6, <4>1 DEF VisualAssumption
    <3>3. IsFiniteSet(obs[p] \ {f}) /\ Cardinality(obs[p] \ {f}) = OBS_LIMIT - 1
      BY <2>2, <3>2, FS_RemoveElement
    <3>4. obs[p] \ {f} # {}
      <4>1. Cardinality({}) = 0
        BY FS_EmptySet
      <4>2. OBS_LIMIT - 1 # 0
        BY DEF VisualAssumption
      <4> QED  BY <3>3, <4>1, <4>2
    <3>5. Cardinality(obs'[p]) <= OBS_LIMIT
      <4>1. CASE new = {}
        <5>1. obs'[p] = obs[p] \ {f}
          BY <3>1, <4>1
        <5>2. Cardinality(obs'[p]) = OBS_LIMIT - 1
          BY <3>3, <5>1
        <5> QED  BY <5>2 DEF VisualAssumption
      <4>2. CASE new = {frame}
        <5>1. Cardinality((obs[p] \ {f}) \cup {frame}) <= OBS_LIMIT
          <6>1. CASE frame \in obs[p] \ {f}
            <7>1. (obs[p] \ {f}) \cup {frame} = obs[p] \ {f}
              BY <6>1
            <7>2. OBS_LIMIT - 1 <= OBS_LIMIT
              BY DEF VisualAssumption
            <7> QED  BY <3>3, <7>1, <7>2
          <6>2. CASE frame \notin obs[p] \ {f}
            <7>1. Cardinality((obs[p] \ {f}) \cup {frame}) = Cardinality(obs[p] \ {f}) + 1
              BY <3>3, <6>2, FS_AddElement
            <7>2. (OBS_LIMIT - 1) + 1 <= OBS_LIMIT
              BY DEF VisualAssumption
            <7> QED  BY <3>3, <7>1, <7>2
          <6> QED  BY <6>1, <6>2
        <5> QED  BY <3>1, <4>2, <5>1
      <4> QED  BY <4>1, <4>2
    <3>6. obs'[p] # {} /\ obs'[p] \subseteq 1 .. MaxFrames
      BY <1>3, <2>1, <3>1, <3>4
    <3>7. ref_patch'[p] \in obs'[p] \cup {NULL}
      BY <3>1, <3>2
    <3> QED  BY <2>1, <3>2, <3>5, <3>6, <3>7 DEF Sound
  <2>7. CASE /\ p \in submap => Cardinality(obs[p]) < OBS_LIMIT \/ total_points = 0
             /\ obs'[p] = obs[p] \cup new /\ ref_patch'[p] = ref_patch[p]
    <3>1. CASE p \in add
      <4>1. place[p] # NULL /\ Cardinality(obs[p]) < OBS_LIMIT
        BY <2>4, <2>7, <3>1
      <4>2. obs'[p] = obs[p] \cup {frame}
        BY <2>7, <3>1
      <4>3. Cardinality(obs[p] \cup {frame}) <= OBS_LIMIT
        <5>1. CASE frame \in obs[p]
          <6>1. obs[p] \cup {frame} = obs[p]
            BY <5>1
          <6>2. Cardinality(obs[p]) <= OBS_LIMIT
            BY <2>2, <4>1 DEF VisualAssumption
          <6> QED  BY <6>1, <6>2
        <5>2. CASE frame \notin obs[p]
          <6>1. Cardinality(obs[p] \cup {frame}) = Cardinality(obs[p]) + 1
            BY <2>2, <5>2, FS_AddElement
          <6>2. Cardinality(obs[p]) + 1 <= OBS_LIMIT
            BY <2>2, <4>1 DEF VisualAssumption
          <6> QED  BY <6>1, <6>2
        <5> QED  BY <5>1, <5>2
      <4>4. obs'[p] # {} /\ obs'[p] \subseteq 1 .. MaxFrames
        BY <1>3, <2>1, <4>2
      <4>5. ref_patch'[p] \in obs'[p] \cup {NULL}
        BY <2>1, <2>7, <4>1, <4>2 DEF Sound
      <4>6. Cardinality(obs'[p]) <= OBS_LIMIT
        BY <4>2, <4>3
      <4> QED  BY <2>1, <2>7, <4>1, <4>4, <4>5, <4>6 DEF Sound
    <3>2. CASE p \notin add
      <4>1. obs'[p] = obs[p]
        BY <2>7, <3>2
      <4> QED  BY <2>1, <2>7, <4>1 DEF Sound
    <3> QED  BY <3>1, <3>2
  <2> HIDE DEF new
  <2>8. \/ /\ p \in submap /\ total_points # 0
           /\ obs'[p] = obs[p] \cap {ref_patch[p]} /\ ref_patch'[p] = ref_patch[p]
        \/ /\ p \in submap /\ total_points # 0 /\ Cardinality(obs[p]) >= OBS_LIMIT
           /\ \E f \in obs[p] : /\ obs'[p] = (obs[p] \ {f}) \cup new
                               /\ ref_patch'[p] = IF ref_patch[p] = f THEN NULL ELSE ref_patch[p]
        \/ /\ p \in submap => Cardinality(obs[p]) < OBS_LIMIT \/ total_points = 0
           /\ obs'[p] = obs[p] \cup new /\ ref_patch'[p] = ref_patch[p]
    BY UpdateFacts, Zenon DEF new
  <2> QED  BY <2>5, <2>6, <2>7, <2>8
<1>5. obs' \in [Points -> SUBSET (1 .. MaxFrames)]
      /\ ref_patch' \in [Points -> (1 .. MaxFrames) \cup {NULL}]
  BY <1>1, <1>4
<1>6. Types'
  BY <1>1, <1>5 DEF VInv, Types
<1>7. Patches'
  BY <1>4 DEF Patches
<1>8. Tracked'
  BY <1>1, <1>2 DEF VInv, Tracked
<1>9. Flags' /\ Taken'
  BY <1>1 DEF Flags, Taken
<1>10. LeftOver'
  <2> SUFFICES ASSUME total_points = 0, submap # {}, NEW p \in Live  PROVE obs'[p] = {frame}
    BY <1>1, <1>2 DEF LeftOver
  <2>1. p \in Points /\ add = {}
    BY <1>1 DEF Live
  <2>2. obs'[p] = obs[p]
    BY <2>1, UpdateFacts
  <2> QED  BY <1>1, <2>2 DEF VInv, LeftOver
<1> QED  BY <1>6, <1>7, <1>8, <1>9, <1>10 DEF VInv

\* A point changes its reference only when it has a new patch, and converges then.
LEMMA ReferenceFacts ==
  ASSUME VisualAssumption, VInv, UpdateReference
  PROVE  /\ stage = "reference" /\ stage' = "idle"
         /\ UNCHANGED <<place, obs, submap, total_points, update_flag, map_cells, pg, view,
                       frame, last_slide_pos>>
         /\ is_converged' \in [Points -> BOOLEAN]
         /\ \A p \in Points : is_converged[p] => is_converged'[p]
         /\ ref_patch' = [p \in Points |-> ref_patch'[p]]
         /\ \A p \in Points : ref_patch'[p] # ref_patch[p] =>
              /\ p \in submap /\ p \in update_flag /\ ~is_converged[p]
              /\ ref_patch'[p] \in obs[p]
<1> DEFINE scored == {p \in submap : /\ ~is_converged[p] /\ p \in update_flag
                                     /\ Cardinality(obs[p]) > OBS_REFERENCE}
<1>1. /\ stage = "reference" /\ stage' = "idle"
      /\ UNCHANGED <<place, obs, submap, total_points, update_flag, map_cells, pg, view,
                    frame, last_slide_pos>>
  BY DEF UpdateReference, frameVars
<1>2. PICK settled \in SUBSET {p \in scored : Cardinality(obs[p]) > OBS_CONVERGED} :
        is_converged' = [p \in Points |-> is_converged[p] \/ p \in settled]
  BY DEF UpdateReference
<1>3. PICK best \in [scored -> 1 .. MaxFrames] :
        \E valid \in SUBSET scored :
          /\ \A p \in scored : best[p] \in obs[p]
          /\ ref_patch' = [p \in Points |-> IF p \in valid THEN best[p] ELSE ref_patch[p]]
  BY DEF UpdateReference
<1>4. PICK valid \in SUBSET scored :
        /\ \A p \in scored : best[p] \in obs[p]
        /\ ref_patch' = [p \in Points |-> IF p \in valid THEN best[p] ELSE ref_patch[p]]
  BY <1>3
<1>5. \A p \in Points : is_converged[p] => is_converged'[p]
  BY <1>2, Zenon
<1>6. is_converged' \in [Points -> BOOLEAN]
  <2>1. \A p \in Points : (is_converged[p] \/ p \in settled) \in BOOLEAN
    OBVIOUS
  <2> QED  BY <1>2, <2>1, Zenon
<1>7. \A p \in scored : p \in submap /\ p \in update_flag /\ ~is_converged[p]
  OBVIOUS
<1> HIDE DEF scored
<1> QED  BY <1>1, <1>4, <1>5, <1>6, <1>7

LEMMA UpdateReferenceKeeps ==
  ASSUME VisualAssumption, VInv, UpdateReference  PROVE VInv'
<1>1. /\ stage = "reference" /\ stage' = "idle"
      /\ UNCHANGED <<place, obs, submap, total_points, update_flag, map_cells, pg, view,
                    frame, last_slide_pos>>
      /\ is_converged' \in [Points -> BOOLEAN]
      /\ ref_patch' = [p \in Points |-> ref_patch'[p]]
      /\ \A p \in Points : ref_patch'[p] # ref_patch[p] =>
           p \in submap /\ p \in update_flag /\ ref_patch'[p] \in obs[p]
  BY ReferenceFacts
<1>2. Live' = Live
  BY <1>1 DEF Live
<1>3. update_flag # {} => total_points # 0
  BY <1>1 DEF VInv, Flags
<1>4. ASSUME NEW p \in Points
      PROVE  /\ ref_patch'[p] \in (1 .. MaxFrames) \cup {NULL}
             /\ Sound(place', obs', ref_patch', p)
  <2>1. /\ obs[p] \subseteq 1 .. MaxFrames /\ ref_patch[p] \in (1 .. MaxFrames) \cup {NULL}
        /\ Sound(place, obs, ref_patch, p)
    BY DEF VInv, Types, Patches
  <2>2. CASE ref_patch'[p] = ref_patch[p]
    BY <1>1, <2>1, <2>2 DEF Sound
  <2>3. CASE ref_patch'[p] # ref_patch[p]
    <3>1. p \in submap /\ total_points # 0 /\ ref_patch'[p] \in obs[p]
      BY <1>1, <1>3, <2>3
    <3>2. place[p] # NULL
      BY <1>1, <3>1 DEF VInv, Tracked, Live
    <3> QED  BY <1>1, <2>1, <3>1, <3>2 DEF Sound
  <2> QED  BY <2>2, <2>3
<1>5. ref_patch' \in [Points -> (1 .. MaxFrames) \cup {NULL}]
  BY <1>1, <1>4
<1>6. Types'
  BY <1>1, <1>5 DEF VInv, Types
<1>7. Patches'
  BY <1>4 DEF Patches
<1>8. Tracked' /\ Flags' /\ Taken' /\ LeftOver'
  BY <1>1 DEF Tracked, Flags, Taken, LeftOver
<1> QED  BY <1>6, <1>7, <1>8 DEF VInv

\* What slides out is deleted with all it had.
LEMMA VisualSlidingKeeps ==
  ASSUME VisualAssumption, VInv, NEW pos \in Places, VisualSliding(pos)  PROVE VInv'
<1>1. /\ stage = "idle" /\ stage' = "idle"
      /\ UNCHANGED <<submap, total_points, update_flag, map_cells, pg, view, frame>>
  BY DEF VisualSliding, frameVars
<1>2. CASE UNCHANGED pointVars
  <2>1. UNCHANGED <<place, obs, ref_patch, is_converged>> /\ Live' = Live
    BY <1>2 DEF pointVars, Live
  <2> QED  BY <1>1, <2>1 DEF VInv, Types, Patches, Tracked, Flags, Taken, LeftOver
<1>3. CASE \E gone \in SUBSET Live : Delete(gone)
  <2>1. PICK gone \in SUBSET Live : Delete(gone)
    BY <1>3
  <2>2. is_converged' \in [Points -> BOOLEAN]
    <3>1. is_converged' = [p \in Points |-> p \notin gone /\ is_converged[p]]
      BY <2>1 DEF Delete
    <3> QED  BY <3>1, Zenon
  <2>3. /\ place' = [p \in Points |-> IF p \in gone THEN NULL ELSE place[p]]
        /\ obs' = [p \in Points |-> IF p \in gone THEN {} ELSE obs[p]]
        /\ ref_patch' = [p \in Points |-> IF p \in gone THEN NULL ELSE ref_patch[p]]
    BY <2>1 DEF Delete
  <2>4. Types'
    BY <1>1, <2>2, <2>3 DEF VInv, Types
  <2>5. Patches'
    BY <2>3 DEF VInv, Patches, Sound
  <2>6. Tracked' /\ Flags' /\ Taken' /\ LeftOver'
    BY <1>1 DEF Tracked, Flags, Taken, LeftOver
  <2> QED  BY <2>4, <2>5, <2>6 DEF VInv
<1> QED  BY <1>2, <1>3 DEF VisualSliding

LEMMA VisualNextOK == ASSUME VisualAssumption, VInv, [VisualNext]_visualVars  PROVE VInv'
<1>1. ASSUME NEW s \in SUBSET Places, NEW v \in [Places -> Cells \cup {NULL}], Retrieve(s, v)
      PROVE  VInv'
  BY <1>1, RetrieveKeeps
<1>2. ASSUME NEW new \in SUBSET Places, NEW w \in [Places -> Cells \cup {NULL}],
             Generate(new, w)
      PROVE  VInv'
  BY <1>2, GenerateKeeps
<1>3. CASE (\E f \in BOOLEAN : PlotTrackedPoints(f)) \/ ProjectPatchFromRefToCur
  BY <1>3, PlotKeeps
<1>4. ASSUME NEW add \in SUBSET submap, UpdatePoints(add)  PROVE VInv'
  BY <1>4, UpdatePointsKeeps
<1>5. CASE UpdateReference
  BY <1>5, UpdateReferenceKeeps
<1>6. ASSUME NEW pos \in Places, VisualSliding(pos)  PROVE VInv'
  BY <1>6, VisualSlidingKeeps
<1>7. CASE UNCHANGED visualVars
  <2>1. UNCHANGED <<place, obs, ref_patch, is_converged, submap, total_points, update_flag,
                    map_cells, pg, view, frame, stage>> /\ Live' = Live
    BY <1>7 DEF visualVars, pointVars, frameVars, Live
  <2> QED  BY <2>1 DEF VInv, Types, Patches, Tracked, Flags, Taken, LeftOver
<1> QED  BY <1>1, <1>2, <1>3, <1>4, <1>5, <1>6, <1>7 DEF VisualNext

LEMMA VisualInvariant == ASSUME VisualAssumption  PROVE VisualSpec => []VInv
<1>1. VisualInit => VInv
  BY VisualInitOK
<1>2. VInv /\ [VisualNext]_visualVars => VInv'
  BY VisualNextOK
<1> QED  BY <1>1, <1>2, PTL DEF VisualSpec

-----------------------------------------------------------------------------
(* The theorems. *)

\* References are patches the point has, tracked points have one, and live to the end of
\* the frame.  A pointer to a deleted point is followed by one stage only, by
\* plotTrackedPoints, in a frame that found the map emptied by a slide.
THEOREM PointersAliveHolds == ASSUME VisualAssumption  PROVE VisualSpec => []PointersAlive
<1>1. VInv => PointersAlive
  <2> SUFFICES ASSUME VInv  PROVE PointersAlive
    OBVIOUS
  <2>1. TrackedAlive
    BY DEF VInv, Tracked, LeftOver, TrackedAlive, Followed
  <2>2. ASSUME NEW p \in Live
        PROVE  obs[p] # {} /\ Cardinality(obs[p]) <= OBS_LIMIT /\ ref_patch[p] \in obs[p] \cup {NULL}
    BY DEF VInv, Patches, Sound, Live
  <2>3. ASSUME total_points > 0, stage \in {"generate", "project", "update"}, NEW p \in submap
        PROVE  ref_patch[p] # NULL
    <3>1. total_points # 0
      BY <2>3 DEF VInv, Types
    <3> QED  BY <2>3, <3>1 DEF VInv, Tracked
  <2> QED  BY <2>1, <2>2, <2>3 DEF PointersAlive, ReferenceAlive
<1> QED  BY <1>1, VisualInvariant, PTL

\* Without ray casting a place gets a second visual point only where the two voxel
\* indices differ, or where the filter update has moved it to another cell of the grid.
THEOREM NoDuplicateHolds ==
  ASSUME VisualAssumption, ~RAYCAST_EN  PROVE VisualSpec => NoDuplicateAhead
<1>1. ASSUME VInv, [VisualNext]_visualVars  PROVE [DuplicateStep]_visualVars
  <2> SUFFICES ASSUME VisualNext, NEW p \in Live', NEW q \in Live', p # q, q \notin Live,
                      place'[p] = place'[q], LookupVoxel(place'[q]) = InsertVoxel(place'[q])
               PROVE  total_points > 0 /\ view'[place'[q]] # view[place'[q]]
    BY <1>1 DEF DuplicateStep
  <2>1. PICK new \in SUBSET Places : \E w \in [Places -> Cells \cup {NULL}] : Generate(new, w)
    <3>1. ASSUME UNCHANGED place  PROVE Live' = Live
      BY <3>1 DEF Live
    <3>2. ASSUME NEW pos \in Places, VisualSliding(pos)  PROVE q \in Live
      <4>1. CASE UNCHANGED pointVars
        BY <3>1, <4>1 DEF pointVars
      <4>2. ASSUME NEW gone \in SUBSET Live, Delete(gone)  PROVE q \in Live
        BY <4>2 DEF Delete, Live
      <4> QED  BY <3>2, <4>1, <4>2 DEF VisualSliding
    <3> QED
      BY <3>1, <3>2 DEF VisualNext, Retrieve, PlotTrackedPoints, ProjectPatchFromRefToCur,
                        UpdatePoints, UpdateReference, pointVars
  <2>2. PICK w \in [Places -> Cells \cup {NULL}] : Generate(new, w)
    BY <2>1
  <2>3. /\ stage = "generate" /\ view' = w /\ (total_points = 0 => w = view)
        /\ \A x \in new : w[x] # NULL /\ w[x] \notin map_cells /\ (RAYCAST_EN \/ x \in pg)
    BY <1>1, <2>2, GenerateFacts
  <2>4. PICK made \in SUBSET (Points \ Live) :
          /\ Live' = Live \cup made
          /\ \A r \in made : place'[r] \in new /\ obs'[r] = {frame}
          /\ \A r, s \in made : r # s => place'[r] # place'[s]
          /\ \A r \in Points : r \notin made => place'[r] = place[r] /\ obs'[r] = obs[r]
    BY <1>1, <2>2, GenerateFacts
  <2>5. q \in made /\ p \in Live /\ place'[p] = place[p]
    BY <2>4 DEF Live
  <2>6. place[p] \in new /\ w[place[p]] # NULL /\ w[place[p]] \notin map_cells /\ place[p] \in pg
    BY <2>3, <2>4, <2>5
  <2>7. w[place[p]] # view[place[p]]
    BY <1>1, <2>3, <2>5, <2>6 DEF VInv, Taken
  <2>8. total_points > 0
    BY <1>1, <2>3, <2>7 DEF VInv, Types
  <2> QED  BY <2>3, <2>5, <2>7, <2>8
<1>2. VInv /\ [VisualNext]_visualVars => [DuplicateStep]_visualVars
  BY <1>1
<1> QED  BY <1>2, VisualInvariant, PTL DEF VisualSpec, NoDuplicateAhead

\* A converged point takes no patch any more and keeps the reference it has.
THEOREM ConvergedStaysHolds ==
  ASSUME VisualAssumption  PROVE VisualSpec => ConvergedStays
<1> DEFINE Lasts(p) == /\ is_converged'[p] /\ obs'[p] \subseteq obs[p]
                       /\ ref_patch[p] # NULL => ref_patch'[p] = ref_patch[p]
           Step == \A p \in Live : is_converged[p] /\ place'[p] # NULL => Lasts(p)
<1>1. ASSUME VInv, [VisualNext]_visualVars  PROVE [Step]_visualVars
  <2> SUFFICES ASSUME NEW p \in Live, is_converged[p], place'[p] # NULL, VisualNext
               PROVE  Lasts(p)
    BY <1>1
  <2>1. p \in Points /\ place[p] # NULL
    BY DEF Live
  <2>2. ASSUME NEW s \in SUBSET Places, NEW v \in [Places -> Cells \cup {NULL}], Retrieve(s, v)
        PROVE  Lasts(p)
    <3>1. UNCHANGED <<obs, is_converged>>
      BY <2>2 DEF Retrieve, ResetGrid
    <3>2. ref_patch[p] # NULL /\ ref_patch'[p] # ref_patch[p] => FALSE
      BY <1>1, <2>1, <2>2, RetrieveFacts, ChoiceIsPatch
    <3> QED  BY <3>1, <3>2
  <2>3. ASSUME NEW new \in SUBSET Places, NEW w \in [Places -> Cells \cup {NULL}],
               Generate(new, w)
        PROVE  Lasts(p)
    <3>1. UNCHANGED <<ref_patch, is_converged>>
      BY <2>3 DEF Generate
    <3>2. obs'[p] = obs[p]
      BY <2>1, <2>3 DEF Generate
    <3> QED  BY <3>1, <3>2
  <2>4. CASE (\E f \in BOOLEAN : PlotTrackedPoints(f)) \/ ProjectPatchFromRefToCur
    BY <2>4 DEF PlotTrackedPoints, ProjectPatchFromRefToCur, pointVars
  <2>5. ASSUME NEW add \in SUBSET submap, UpdatePoints(add)  PROVE Lasts(p)
    <3>1. UNCHANGED is_converged
      BY <1>1, <2>5, UpdateFacts
    <3>2. /\ obs'[p] \subseteq obs[p]
          /\ ref_patch'[p] = ref_patch[p]
      BY <1>1, <2>1, <2>5, UpdateFacts
    <3> QED  BY <3>1, <3>2
  <2>6. CASE UpdateReference
    BY <1>1, <2>1, <2>6, ReferenceFacts
  <2>7. ASSUME NEW pos \in Places, VisualSliding(pos)  PROVE Lasts(p)
    <3>1. CASE UNCHANGED pointVars
      BY <3>1 DEF pointVars
    <3>2. ASSUME NEW gone \in SUBSET Live, Delete(gone)  PROVE Lasts(p)
      <4>1. p \notin gone
        BY <2>1, <3>2 DEF Delete
      <4>2. is_converged'[p]
        <5>1. is_converged' = [q \in Points |-> q \notin gone /\ is_converged[q]]
          BY <3>2 DEF Delete
        <5> QED  BY <2>1, <4>1, <5>1, Zenon
      <4>3. obs'[p] = obs[p] /\ ref_patch'[p] = ref_patch[p]
        BY <2>1, <3>2, <4>1 DEF Delete
      <4> QED  BY <4>2, <4>3
    <3> QED  BY <2>7, <3>1, <3>2 DEF VisualSliding
  <2> QED  BY <2>2, <2>3, <2>4, <2>5, <2>6, <2>7 DEF VisualNext
<1>2. VInv /\ [VisualNext]_visualVars => [Step]_visualVars
  BY <1>1
<1> QED  BY <1>2, VisualInvariant, PTL DEF VisualSpec, ConvergedStays

-----------------------------------------------------------------------------
VoxelAssumption ==
  /\ max_layer \in Nat /\ layer_init_num \in Nat /\ max_points_num \in Nat
  /\ MaxFirst \in Nat /\ MaxPoints \in Nat

-----------------------------------------------------------------------------
(* The least number of a set: the library states it for a predicate. *)

LEMMA LeastNatural ==
  ASSUME NEW A, A \subseteq Nat, A # {}
  PROVE  \E m \in A : \A k \in A : m <= k
<1> DEFINE Below(a) == {x \in A : x <= a}
           F == {Below(a) : a \in A}
<1>1. \A a \in A : IsFiniteSet(Below(a))
  <2> SUFFICES ASSUME NEW a \in A  PROVE IsFiniteSet(Below(a))
    OBVIOUS
  <2>1. Below(a) \in SUBSET Nat /\ a \in Nat /\ \A s \in Below(a) : s <= a
    OBVIOUS
  <2> HIDE DEF Below
  <2> QED  BY <2>1, FS_BoundedSetOfNaturals
<1>2. \A a \in A : Below(a) \in SUBSET A
  OBVIOUS
<1>3. F \subseteq FiniteSubsetsOf(A)
  <2> HIDE DEF Below
  <2> QED  BY <1>1, <1>2 DEF FiniteSubsetsOf
<1>4. F # {}
  OBVIOUS
<1>5. \E x \in F : \A y \in F : <<y, x>> \notin StrictSubsetOrdering(A)
  <2> HIDE DEF F
  <2> QED  BY <1>3, <1>4, FS_StrictSubsetOrderingWellFounded, WFMin
<1>6. PICK m \in A : \A k \in A : <<Below(k), Below(m)>> \notin StrictSubsetOrdering(A)
  BY <1>5
<1>7. ASSUME NEW k \in A, ~(m <= k)  PROVE FALSE
  <2>1. m \in Nat /\ k \in Nat /\ k < m
    BY <1>7
  <2>2. Below(k) \subseteq Below(m) /\ m \in Below(m) /\ m \notin Below(k)
    <3>1. ASSUME NEW x \in A, x <= k  PROVE x <= m
      BY <2>1, <3>1
    <3>2. m <= m /\ ~(m <= k)
      BY <1>7, <2>1
    <3> QED  BY <3>1, <3>2
  <2>3. <<Below(k), Below(m)>> \in StrictSubsetOrdering(A)
    <3> HIDE DEF Below
    <3> QED  BY <1>2, <2>2 DEF StrictSubsetOrdering
  <2> QED  BY <1>6, <2>3
<1> QED  BY <1>7

-----------------------------------------------------------------------------
(* Nodes are paths: Under is the order of prefixes. *)

Keys == Voxels \cup Octants

LEMMA NodeFacts ==
  ASSUME VoxelAssumption, NEW n
  PROVE  n \in Node <=> /\ n \in Seq(Keys) /\ Len(n) \in 1 .. max_layer + 1
                        /\ n[1] \in Voxels /\ \A i \in 2 .. Len(n) : n[i] \in Octants
<1> USE DEF VoxelAssumption
<1>1. ASSUME n \in Node
      PROVE  /\ n \in Seq(Keys) /\ Len(n) \in 1 .. max_layer + 1
             /\ n[1] \in Voxels /\ \A i \in 2 .. Len(n) : n[i] \in Octants
  <2>1. PICK l \in Layers : n \in Paths(l + 1)
    BY <1>1 DEF Node
  <2>2. l \in Nat /\ l <= max_layer
    BY <2>1 DEF Layers
  <2>3. /\ n \in [1 .. l + 1 -> Keys] /\ n[1] \in Voxels
        /\ \A i \in 2 .. l + 1 : n[i] \in Octants
    BY <2>1 DEF Paths, Keys
  <2>4. n \in Seq(Keys) /\ Len(n) = l + 1
    BY <2>2, <2>3, SeqDef
  <2> QED  BY <2>2, <2>3, <2>4
<1>2. ASSUME n \in Seq(Keys), Len(n) \in 1 .. max_layer + 1,
             n[1] \in Voxels, \A i \in 2 .. Len(n) : n[i] \in Octants
      PROVE  n \in Node
  <2>1. n \in [1 .. Len(n) -> Keys]
    BY <1>2, LenProperties
  <2>2. n \in Paths(Len(n))
    BY <1>2, <2>1 DEF Paths, Keys
  <2>3. Len(n) - 1 \in Layers /\ (Len(n) - 1) + 1 = Len(n)
    BY <1>2 DEF Layers
  <2>4. n \in Paths((Len(n) - 1) + 1)
    BY <2>2, <2>3
  <2> QED  BY <2>3, <2>4 DEF Node
<1> QED  BY <1>1, <1>2

\* The prefix of a node of a given length is a node.
LEMMA PrefixFacts ==
  ASSUME VoxelAssumption, NEW n \in Node, NEW k \in 1 .. Len(n)
  PROVE  LET s == SubSeq(n, 1, k)
         IN  s \in Node /\ Len(s) = k /\ \A i \in 1 .. k : s[i] = n[i]
<1> DEFINE s == SubSeq(n, 1, k)
<1>1. /\ n \in Seq(Keys) /\ Len(n) \in 1 .. max_layer + 1
      /\ n[1] \in Voxels /\ \A i \in 2 .. Len(n) : n[i] \in Octants
  BY NodeFacts
<1>2. max_layer \in Nat /\ k \in Int /\ k >= 1 /\ k <= Len(n) /\ Len(n) \in Nat
  BY <1>1 DEF VoxelAssumption
<1>3. \A i \in 1 .. k : i \in 1 .. Len(n)
  BY <1>2
<1>4. \A i \in 1 .. k : n[i] \in Keys
  BY <1>1, <1>3, ElementOfSeq
<1>5. s \in Seq(Keys) /\ Len(s) = k /\ \A i \in 1 .. k : s[i] = n[i]
  <2>1. /\ s \in Seq(Keys) /\ Len(s) = IF 1 <= k THEN k - 1 + 1 ELSE 0
        /\ \A i \in 1 .. k - 1 + 1 : s[i] = n[1 + i - 1]
    BY <1>2, <1>4, SubSeqProperties
  <2> HIDE DEF s
  <2> QED  BY <1>2, <2>1
<1>6. Len(s) \in 1 .. max_layer + 1
  <2> HIDE DEF s
  <2> QED  BY <1>1, <1>2, <1>5
<1>7. s[1] \in Voxels /\ \A i \in 2 .. Len(s) : s[i] \in Octants
  <2> HIDE DEF s
  <2> QED  BY <1>1, <1>2, <1>5
<1> HIDE DEF s
<1>8. s \in Node
  BY <1>5, <1>6, <1>7, NodeFacts
<1> QED  BY <1>5, <1>8 DEF s

LEMMA UnderFacts ==
  ASSUME VoxelAssumption, NEW n \in Node, NEW m \in Node
  PROVE  Under(n, m) <=> Len(n) <= Len(m) /\ \A i \in 1 .. Len(n) : n[i] = m[i]
<1>1. n \in Seq(Keys) /\ Len(n) \in Nat /\ Len(n) >= 1 /\ Len(m) \in Nat
  BY NodeFacts DEF VoxelAssumption
<1>2. CASE ~(Len(n) <= Len(m))
  BY <1>2 DEF Under
<1>3. CASE Len(n) <= Len(m)
  <2> DEFINE s == SubSeq(m, 1, Len(n))
  <2>1. Len(n) \in 1 .. Len(m)
    BY <1>1, <1>3
  <2>2. s \in Node /\ Len(s) = Len(n) /\ \A i \in 1 .. Len(n) : s[i] = m[i]
    BY <2>1, PrefixFacts
  <2> HIDE DEF s
  <2>3. s \in Seq(Keys)
    BY <2>2, NodeFacts
  <2>4. ASSUME \A i \in 1 .. Len(n) : n[i] = m[i]  PROVE s = n
    BY <1>1, <2>2, <2>3, <2>4, SeqEqual
  <2> QED  BY <1>3, <2>2, <2>4 DEF Under, s
<1> QED  BY <1>2, <1>3

\* Prefixes are ordered, those of one node in a line.
LEMMA UnderOrder ==
  ASSUME VoxelAssumption, NEW a \in Node, NEW b \in Node, NEW c \in Node
  PROVE  /\ Under(a, a)
         /\ Under(a, b) /\ Under(b, c) => Under(a, c)
         /\ Under(a, b) /\ Under(b, a) => a = b
         /\ Under(a, c) /\ Under(b, c) => Under(a, b) \/ Under(b, a)
         /\ Under(a, b) /\ a # b => Len(a) < Len(b)
         /\ Under(a, b) => a[1] = b[1]
<1>1. /\ a \in Seq(Keys) /\ Len(a) \in Nat /\ Len(a) >= 1
      /\ b \in Seq(Keys) /\ Len(b) \in Nat /\ Len(b) >= 1
      /\ c \in Seq(Keys) /\ Len(c) \in Nat /\ Len(c) >= 1
  BY NodeFacts DEF VoxelAssumption
<1>2. Under(a, a)
  BY <1>1, UnderFacts
<1>3. Under(a, b) /\ Under(b, c) => Under(a, c)
  <2> SUFFICES ASSUME Under(a, b), Under(b, c)  PROVE Under(a, c)
    OBVIOUS
  <2>1. Len(a) <= Len(b) /\ \A i \in 1 .. Len(a) : a[i] = b[i]
    BY UnderFacts
  <2>2. Len(b) <= Len(c) /\ \A i \in 1 .. Len(b) : b[i] = c[i]
    BY UnderFacts
  <2>3. Len(a) <= Len(c) /\ \A i \in 1 .. Len(a) : i \in 1 .. Len(b)
    BY <1>1, <2>1, <2>2
  <2>4. \A i \in 1 .. Len(a) : a[i] = c[i]
    BY <2>1, <2>2, <2>3
  <2> QED  BY <2>3, <2>4, UnderFacts
<1>4. ASSUME Under(a, b), Len(a) = Len(b)  PROVE a = b
  <2>1. \A i \in 1 .. Len(a) : a[i] = b[i]
    BY <1>4, UnderFacts
  <2> QED  BY <1>1, <1>4, <2>1, SeqEqual
<1>5. Under(a, b) /\ Under(b, a) => a = b
  <2> SUFFICES ASSUME Under(a, b), Under(b, a)  PROVE a = b
    OBVIOUS
  <2>1. Len(a) <= Len(b) /\ Len(b) <= Len(a)
    BY UnderFacts
  <2> QED  BY <1>1, <1>4, <2>1
<1>6. Under(a, b) /\ a # b => Len(a) < Len(b)
  <2> SUFFICES ASSUME Under(a, b), a # b  PROVE Len(a) < Len(b)
    OBVIOUS
  <2>1. Len(a) <= Len(b)
    BY UnderFacts
  <2> QED  BY <1>1, <1>4, <2>1
<1>7. Under(a, c) /\ Under(b, c) => Under(a, b) \/ Under(b, a)
  <2> SUFFICES ASSUME Under(a, c), Under(b, c)  PROVE Under(a, b) \/ Under(b, a)
    OBVIOUS
  <2>1. \A i \in 1 .. Len(a) : a[i] = c[i]
    BY UnderFacts
  <2>2. \A i \in 1 .. Len(b) : b[i] = c[i]
    BY UnderFacts
  <2>3. CASE Len(a) <= Len(b)
    <3>1. \A i \in 1 .. Len(a) : i \in 1 .. Len(b)
      BY <1>1, <2>3
    <3>2. \A i \in 1 .. Len(a) : a[i] = b[i]
      BY <2>1, <2>2, <3>1
    <3> QED  BY <2>3, <3>2, UnderFacts
  <2>4. CASE Len(b) <= Len(a)
    <3>1. \A i \in 1 .. Len(b) : i \in 1 .. Len(a)
      BY <1>1, <2>4
    <3>2. \A i \in 1 .. Len(b) : b[i] = a[i]
      BY <2>1, <2>2, <3>1
    <3> QED  BY <2>4, <3>2, UnderFacts
  <2> QED  BY <1>1, <2>3, <2>4
<1>8. Under(a, b) => a[1] = b[1]
  BY <1>1, UnderFacts
<1> QED  BY <1>2, <1>3, <1>5, <1>6, <1>7, <1>8

LEMMA ParentFacts ==
  ASSUME VoxelAssumption, NEW n \in Node, Len(n) > 1
  PROVE  /\ Parent(n) \in Node /\ Parent(n) # n /\ Under(Parent(n), n)
         /\ Len(Parent(n)) = Len(n) - 1
         /\ \A m \in Node : Under(m, n) /\ m # n => Under(m, Parent(n))
<1> DEFINE k == Len(n) - 1
<1>1. Len(n) \in Nat /\ k \in 1 .. Len(n) /\ Len(n) - 1 # Len(n)
  BY NodeFacts DEF VoxelAssumption
<1>2. /\ Parent(n) \in Node /\ Len(Parent(n)) = k
      /\ \A i \in 1 .. k : Parent(n)[i] = n[i]
  <2> HIDE DEF k
  <2>1. SubSeq(n, 1, k) \in Node /\ Len(SubSeq(n, 1, k)) = k
        /\ \A i \in 1 .. k : SubSeq(n, 1, k)[i] = n[i]
    BY <1>1, PrefixFacts
  <2> QED  BY <2>1 DEF Parent, k
<1>3. Under(Parent(n), n)
  BY <1>1, <1>2, UnderFacts
<1>4. ASSUME NEW m \in Node, Under(m, n), m # n  PROVE Under(m, Parent(n))
  <2>1. Len(m) < Len(n) /\ Len(m) \in Nat
    BY <1>4, UnderOrder, NodeFacts DEF VoxelAssumption
  <2>2. \A i \in 1 .. Len(m) : m[i] = n[i] /\ i \in 1 .. k
    BY <1>1, <1>4, <2>1, UnderFacts
  <2>3. Len(m) <= k
    BY <1>1, <2>1
  <2> QED  BY <1>2, <2>2, <2>3, UnderFacts
<1> QED  BY <1>1, <1>2, <1>3, <1>4

LEMMA RootFacts ==
  ASSUME VoxelAssumption, NEW v \in Voxels
  PROVE  <<v>> \in Node /\ \A n \in Node : Under(<<v>>, n) <=> n[1] = v
<1>1. <<v>> \in Seq(Keys) /\ Len(<<v>>) = 1 /\ <<v>>[1] = v
  BY DEF Keys
<1>2. <<v>> \in Node
  <2>1. Len(<<v>>) \in 1 .. max_layer + 1 /\ \A i \in 2 .. Len(<<v>>) : FALSE
    BY <1>1 DEF VoxelAssumption
  <2> QED  BY <1>1, <2>1, NodeFacts
<1>3. ASSUME NEW n \in Node  PROVE Under(<<v>>, n) <=> n[1] = v
  <2>1. Len(n) \in Nat /\ Len(n) >= 1
    BY NodeFacts DEF VoxelAssumption
  <2>2. Under(<<v>>, n) <=> Len(<<v>>) <= Len(n) /\ \A i \in 1 .. Len(<<v>>) : <<v>>[i] = n[i]
    BY <1>2, UnderFacts
  <2>3. \A i \in 1 .. Len(<<v>>) : i = 1
    BY <1>1
  <2> QED  BY <1>1, <2>1, <2>2, <2>3
<1> QED  BY <1>2, <1>3

-----------------------------------------------------------------------------
(* The inductive invariant. *)

Pts == Nat \X Leaf

NodeRec ==
  [temp_points : SUBSET Pts, init_octo : BOOLEAN, is_plane : BOOLEAN,
   update_enable : BOOLEAN, new_points : Int]

NodeOK(node) ==
  /\ node \in NodeRec /\ IsFiniteSet(node.temp_points)
  /\ ~node.init_octo => Cardinality(node.temp_points) <= layer_init_num /\ node.update_enable
  /\ node.is_plane => node.init_octo /\ Cardinality(node.temp_points) <= max_points_num
  /\ ~node.update_enable => Cardinality(node.temp_points) = 0

Shape(t) == DOMAIN t \subseteq Node /\ \A n \in DOMAIN t : NodeOK(t[n])

\* Every node hangs from nodes that were fitted, up to its root.
Closed(t) ==
  \A n \in DOMAIN t, m \in Node :
    Under(m, n) /\ m # n => m \in DOMAIN t /\ t[m].init_octo

MInv == points \in Nat /\ Shape(tree) /\ Closed(tree)

\* A node with other points is still a record of the kind.
LEMMA NodeRecPoints ==
  ASSUME NEW node \in NodeRec, NEW P \in SUBSET Pts, NEW k \in Int
  PROVE  [node EXCEPT !.temp_points = P, !.new_points = k] \in NodeRec
<1> DEFINE h == [node EXCEPT !.temp_points = P]
<1>1. h \in NodeRec
  BY DEF NodeRec
<1>2. [h EXCEPT !.new_points = k] \in NodeRec
  <2> HIDE DEF h
  <2> QED  BY <1>1 DEF NodeRec
<1>3. [node EXCEPT !.temp_points = P, !.new_points = k] = [h EXCEPT !.new_points = k]
  BY DEF NodeRec
<1> QED  BY <1>2, <1>3

LEMMA EmptyOK == ASSUME VoxelAssumption  PROVE NodeOK(EmptyNode)
<1>1. EmptyNode \in NodeRec
  BY DEF EmptyNode, NodeRec
<1>2. IsFiniteSet({}) /\ Cardinality({}) = 0
  BY FS_EmptySet
<1>3. /\ EmptyNode.temp_points = {} /\ EmptyNode.init_octo = FALSE
      /\ EmptyNode.is_plane = FALSE /\ EmptyNode.update_enable = TRUE
  BY DEF EmptyNode
<1>4. 0 <= layer_init_num
  BY DEF VoxelAssumption
<1> QED  BY <1>1, <1>2, <1>3, <1>4 DEF NodeOK

\* A node whose points are freed has none, and is what it was otherwise.
LEMMA FrozenOK ==
  ASSUME VoxelAssumption, NEW node \in NodeRec, node.init_octo
  PROVE  /\ NodeOK(Frozen(node)) /\ Frozen(node).init_octo
         /\ Frozen(node).temp_points = {}
<1> DEFINE f == Frozen(node)
<1> DEFINE g == [node EXCEPT !.temp_points = {}, !.new_points = 0]
<1>1. /\ f \in NodeRec /\ f.temp_points = {} /\ f.init_octo = node.init_octo
  <2>1. f = [g EXCEPT !.update_enable = FALSE]
    BY DEF Frozen, NodeRec
  <2>2. g \in NodeRec
    <3>1. {} \in SUBSET Pts /\ 0 \in Int
      OBVIOUS
    <3> QED  BY <3>1, NodeRecPoints, Zenon
  <2>3. g.temp_points = {} /\ g.init_octo = node.init_octo
    BY DEF NodeRec
  <2> HIDE DEF f, g
  <2> QED  BY <2>1, <2>2, <2>3 DEF NodeRec
<1> HIDE DEF f
<1>2. IsFiniteSet({}) /\ Cardinality({}) = 0 /\ 0 <= max_points_num
  BY FS_EmptySet DEF VoxelAssumption
<1>3. NodeOK(f)
  BY <1>1, <1>2 DEF NodeOK
<1> QED  BY <1>1, <1>3 DEF f

\* A node that got points in one go is fitted when they are enough, and sound.
LEMMA FilledOK ==
  ASSUME VoxelAssumption, NEW P \in SUBSET Pts, IsFiniteSet(P), NEW isFlat \in BOOLEAN
  PROVE  /\ NodeOK(Filled(P, isFlat))
         /\ Cardinality(P) > layer_init_num => Filled(P, isFlat).init_octo
<1> DEFINE node == [EmptyNode EXCEPT !.temp_points = P, !.new_points = Cardinality(P)]
           fitted == [node EXCEPT !.init_octo = TRUE, !.is_plane = isFlat, !.new_points = 0]
<1>1. Cardinality(P) \in Nat
  BY FS_CardinalityType
<1>2. /\ node \in NodeRec /\ node.temp_points = P /\ node.init_octo = FALSE
      /\ node.is_plane = FALSE /\ node.update_enable = TRUE
  <2>1. /\ EmptyNode \in NodeRec /\ EmptyNode.init_octo = FALSE
        /\ EmptyNode.is_plane = FALSE /\ EmptyNode.update_enable = TRUE
    BY DEF EmptyNode, NodeRec
  <2>2. node \in NodeRec
    <3>1. Cardinality(P) \in Int
      BY <1>1
    <3> QED  BY <2>1, <3>1, NodeRecPoints, Zenon
  <2>3. node.temp_points = P
    BY <2>1 DEF NodeRec
  <2>4. /\ node.init_octo = EmptyNode.init_octo /\ node.is_plane = EmptyNode.is_plane
        /\ node.update_enable = EmptyNode.update_enable
    BY <2>1 DEF NodeRec
  <2> QED  BY <2>1, <2>2, <2>3, <2>4
<1>3. /\ fitted \in NodeRec /\ fitted.temp_points = P /\ fitted.init_octo = TRUE
      /\ fitted.is_plane = isFlat /\ fitted.update_enable = TRUE
  <2> DEFINE g == [node EXCEPT !.init_octo = TRUE, !.is_plane = isFlat]
  <2> HIDE DEF node
  <2>1. fitted = [g EXCEPT !.new_points = 0]
    BY <1>2 DEF NodeRec
  <2>2. g \in NodeRec
    BY <1>2 DEF NodeRec
  <2>3. /\ g.temp_points = P /\ g.init_octo = TRUE /\ g.is_plane = isFlat
        /\ g.update_enable = TRUE
    BY <1>2 DEF NodeRec
  <2> HIDE DEF fitted, g
  <2>4. fitted \in NodeRec
    BY <2>1, <2>2 DEF NodeRec
  <2>5. /\ fitted.temp_points = g.temp_points /\ fitted.init_octo = g.init_octo
        /\ fitted.is_plane = g.is_plane /\ fitted.update_enable = g.update_enable
    BY <2>1, <2>2 DEF NodeRec
  <2> QED  BY <2>3, <2>4, <2>5
<1>4. Filled(P, isFlat) = IF Cardinality(P) <= layer_init_num THEN node
                          ELSE IF isFlat /\ Cardinality(P) > max_points_num
                               THEN Frozen(fitted) ELSE fitted
  BY DEF Filled
<1> HIDE DEF node, fitted
<1>5. CASE Cardinality(P) <= layer_init_num
  <2>1. Filled(P, isFlat) = node
    BY <1>4, <1>5
  <2>2. ~(Cardinality(P) > layer_init_num)
    BY <1>1, <1>5 DEF VoxelAssumption
  <2> QED  BY <1>2, <1>5, <2>1, <2>2 DEF NodeOK
<1>6. CASE ~(Cardinality(P) <= layer_init_num) /\ isFlat /\ Cardinality(P) > max_points_num
  <2>1. Filled(P, isFlat) = Frozen(fitted)
    BY <1>4, <1>6
  <2> QED  BY <1>3, <2>1, FrozenOK
<1>7. CASE ~(Cardinality(P) <= layer_init_num) /\ ~(isFlat /\ Cardinality(P) > max_points_num)
  <2>1. Filled(P, isFlat) = fitted
    BY <1>4, <1>7
  <2>2. ~(Cardinality(P) > max_points_num) => Cardinality(P) <= max_points_num
    BY <1>1 DEF VoxelAssumption
  <2>3. NodeOK(fitted)
    BY <1>3, <1>7, <2>2 DEF NodeOK
  <2> QED  BY <1>3, <2>1, <2>3
<1> QED  BY <1>5, <1>6, <1>7

\* What cut_octo_tree makes below n: sound nodes, closed up to n.
LEMMA CutFacts ==
  ASSUME VoxelAssumption, NEW n \in Node, NEW P \in SUBSET Pts, IsFiniteSet(P), NEW flat
  PROVE  /\ \A x \in DOMAIN Cut(n, P, flat) :
              x \in Node /\ Under(n, x) /\ NodeOK(Cut(n, P, flat)[x])
         /\ \A x \in DOMAIN Cut(n, P, flat), m \in Node :
              Under(n, m) /\ Under(m, x) /\ m # x =>
                m \in DOMAIN Cut(n, P, flat) /\ Cut(n, P, flat)[m].init_octo
         /\ (\E p \in P : Under(n, PathOf(p))) => n \in DOMAIN Cut(n, P, flat)
<1> DEFINE At(m) == {p \in P : Under(m, PathOf(p))}
           Splits(m) == Cardinality(At(m)) > layer_init_num /\ m \notin flat
           Reached(m) == /\ At(m) # {}
                         /\ \A a \in Node : Under(n, a) /\ Under(a, m) /\ a # m => Splits(a)
           f == Cut(n, P, flat)
<1>1. /\ DOMAIN f = {x \in Node : Under(n, x) /\ Reached(x)}
      /\ \A x \in DOMAIN f : f[x] = Filled(At(x), x \in flat)
  BY DEF Cut
<1> HIDE DEF f
<1>2. \A m \in Node : IsFiniteSet(At(m)) /\ At(m) \in SUBSET Pts
  BY FS_Subset
<1>3. ASSUME NEW x \in DOMAIN f  PROVE x \in Node /\ Under(n, x) /\ NodeOK(f[x])
  <2>1. x \in Node /\ Under(n, x)
    BY <1>1
  <2>2. IsFiniteSet(At(x)) /\ At(x) \in SUBSET Pts /\ (x \in flat) \in BOOLEAN
    BY <1>2, <2>1
  <2>3. NodeOK(Filled(At(x), x \in flat))
    <3> HIDE DEF At
    <3> QED  BY <2>2, FilledOK
  <2> QED  BY <1>1, <2>1, <2>3
<1>4. ASSUME NEW x \in DOMAIN f, NEW m \in Node, Under(n, m), Under(m, x), m # x
      PROVE  m \in DOMAIN f /\ f[m].init_octo
  <2>1. x \in Node /\ Under(n, x) /\ Reached(x)
    BY <1>1
  <2>2. \A p \in P : PathOf(p) \in Node
    BY DEF Pts, PathOf, Leaf
  <2>3. At(x) \subseteq At(m)
    BY <1>4, <2>1, <2>2, UnderOrder
  <2>4. ASSUME NEW a \in Node, Under(n, a), Under(a, m), a # m  PROVE Splits(a)
    <3>1. Under(a, x) /\ a # x
      BY <1>4, <2>1, <2>4, UnderOrder
    <3> QED  BY <2>1, <2>4, <3>1
  <2>5. Reached(m)
    BY <2>1, <2>3, <2>4
  <2>6. m \in DOMAIN f
    BY <1>1, <1>4, <2>5
  <2>7. Cardinality(At(m)) > layer_init_num
    BY <1>4, <2>1
  <2>8. IsFiniteSet(At(m)) /\ At(m) \in SUBSET Pts /\ (m \in flat) \in BOOLEAN
    BY <1>2
  <2>9. Filled(At(m), m \in flat).init_octo
    <3> HIDE DEF At
    <3> QED  BY <2>7, <2>8, FilledOK
  <2> QED  BY <1>1, <2>6, <2>9
<1>5. ASSUME NEW p \in P, Under(n, PathOf(p))  PROVE n \in DOMAIN f
  <2>1. At(n) # {}
    BY <1>5
  <2>2. \A a \in Node : Under(n, a) /\ Under(a, n) => a = n
    BY UnderOrder
  <2>3. Under(n, n)
    BY UnderOrder
  <2> QED  BY <1>1, <2>1, <2>2, <2>3
<1> QED  BY <1>3, <1>4, <1>5 DEF f

\* One point more for a node that is not cut: it stays sound, and fitted if it was.
LEMMA UpdatedFacts ==
  ASSUME VoxelAssumption, NEW n, NEW pv \in Pts, NEW flat, NodeOK(NodeOf(n))
  PROVE  LET node == NodeOf(n)
             f == Updated(n, pv, flat)
             P == node.temp_points \cup {pv}
         IN  /\ IsFiniteSet(P) /\ P \in SUBSET Pts
             /\ \/ ~node.init_octo /\ f = Cut(n, P, flat)
                \/ /\ DOMAIN f \subseteq {n}
                   /\ n \in DOMAIN f =>
                        /\ NodeOK(f[n]) /\ (node.init_octo => f[n].init_octo)
                        /\ node.update_enable
                        /\ \/ Cardinality(f[n].temp_points) <= layer_init_num
                           \/ Cardinality(f[n].temp_points) <= max_points_num
<1> DEFINE node == NodeOf(n)
           P == node.temp_points \cup {pv}
           more == [node EXCEPT !.temp_points = P, !.new_points = @ + 1]
           refitted == IF more.new_points > UPDATE_SIZE
                       THEN [more EXCEPT !.is_plane = (n \in flat), !.new_points = 0] ELSE more
           full == Cardinality(P) > max_points_num
                     \/ (node.is_plane /\ Cardinality(P) = max_points_num)
           f == Updated(n, pv, flat)
<1>1. f = IF ~node.init_octo
          THEN IF Cardinality(P) > layer_init_num THEN Cut(n, P, flat)
                                                  ELSE [x \in {n} |-> more]
          ELSE IF node.update_enable THEN [x \in {n} |-> IF full THEN Frozen(refitted) ELSE refitted]
               ELSE [x \in {} |-> EmptyNode]
  BY DEF Updated, IsOpen
<1>2. NodeOK(node)
  OBVIOUS
<1> HIDE DEF node, f
<1>3. node \in NodeRec /\ node.new_points \in Int /\ node.temp_points \in SUBSET Pts
      /\ IsFiniteSet(node.temp_points)
  BY <1>2 DEF NodeOK, NodeRec
<1>4. IsFiniteSet(P) /\ Cardinality(P) \in Nat
  BY <1>3, FS_AddElement, FS_CardinalityType
<1>5. P \in SUBSET Pts
  BY <1>3
<1> HIDE DEF P
<1>6. /\ more \in NodeRec /\ more.temp_points = P /\ more.init_octo = node.init_octo
      /\ more.is_plane = node.is_plane /\ more.update_enable = node.update_enable
  <2>1. node.new_points + 1 \in Int
    BY <1>3
  <2>2. more = [node EXCEPT !.temp_points = P, !.new_points = node.new_points + 1]
    BY <1>3 DEF NodeRec
  <2>3. [node EXCEPT !.temp_points = P, !.new_points = node.new_points + 1] \in NodeRec
    BY <1>3, <1>5, <2>1, NodeRecPoints, Zenon
  <2>4. /\ more.temp_points = P /\ more.init_octo = node.init_octo
        /\ more.is_plane = node.is_plane /\ more.update_enable = node.update_enable
    BY <1>3 DEF NodeRec
  <2> HIDE DEF more
  <2> QED  BY <2>2, <2>3, <2>4
<1> HIDE DEF more
<1>7. /\ refitted \in NodeRec /\ refitted.temp_points = P
      /\ refitted.init_octo = node.init_octo /\ refitted.update_enable = node.update_enable
  <2> DEFINE g == [more EXCEPT !.is_plane = (n \in flat)]
  <2>1. (n \in flat) \in BOOLEAN
    OBVIOUS
  <2>2. g \in NodeRec
    BY <1>6, <2>1 DEF NodeRec
  <2>3. /\ g.temp_points = P /\ g.init_octo = more.init_octo
        /\ g.update_enable = more.update_enable
    BY <1>6 DEF NodeRec
  <2>4. [more EXCEPT !.is_plane = (n \in flat), !.new_points = 0] = [g EXCEPT !.new_points = 0]
    BY <1>6 DEF NodeRec
  <2> HIDE DEF g
  <2> DEFINE h == [g EXCEPT !.new_points = 0]
  <2>5. h \in NodeRec
    BY <2>2 DEF NodeRec
  <2>6. /\ h.temp_points = g.temp_points /\ h.init_octo = g.init_octo
        /\ h.update_enable = g.update_enable
    BY <2>2 DEF NodeRec
  <2>7. refitted = IF more.new_points > UPDATE_SIZE THEN h ELSE more
    BY <2>4
  <2> HIDE DEF h, refitted
  <2> QED  BY <1>6, <2>3, <2>5, <2>6, <2>7
<1> HIDE DEF refitted
<1>8. CASE ~node.init_octo /\ Cardinality(P) > layer_init_num
  <2>1. f = Cut(n, P, flat)
    BY <1>1, <1>8
  <2> QED  BY <1>4, <1>5, <1>8, <2>1 DEF f, P, node
<1>9. CASE ~node.init_octo /\ ~(Cardinality(P) > layer_init_num)
  <2>1. f = [x \in {n} |-> more]
    BY <1>1, <1>9
  <2>2. Cardinality(P) <= layer_init_num
    BY <1>4, <1>9 DEF VoxelAssumption
  <2>3. NodeOK(more)
    BY <1>2, <1>4, <1>6, <1>9, <2>2 DEF NodeOK
  <2>4. DOMAIN f = {n} /\ f[n] = more
    BY <2>1
  <2>5. node.update_enable /\ Cardinality(more.temp_points) <= layer_init_num
    BY <1>2, <1>6, <1>9, <2>2 DEF NodeOK
  <2> QED  BY <1>4, <1>5, <1>9, <2>3, <2>4, <2>5 DEF f, P, node
<1>10. CASE node.init_octo /\ node.update_enable
  <2> DEFINE new == IF full THEN Frozen(refitted) ELSE refitted
  <2>1. f = [x \in {n} |-> new]
    BY <1>1, <1>10
  <2>2. NodeOK(new) /\ new.init_octo /\ Cardinality(new.temp_points) <= max_points_num
    <3>1. CASE full
      <4>1. new = Frozen(refitted)
        BY <3>1
      <4>2. Cardinality({}) = 0 /\ 0 <= max_points_num
        BY FS_EmptySet DEF VoxelAssumption
      <4> QED  BY <1>7, <1>10, <4>1, <4>2, FrozenOK
    <3>2. CASE ~full
      <4>1. Cardinality(P) <= max_points_num
        BY <1>4, <3>2 DEF VoxelAssumption
      <4>2. new = refitted
        BY <3>2
      <4>3. NodeOK(refitted)
        BY <1>4, <1>7, <1>10, <4>1 DEF NodeOK
      <4> QED  BY <1>7, <1>10, <4>1, <4>2, <4>3
    <3> QED  BY <3>1, <3>2
  <2> HIDE DEF new
  <2>3. DOMAIN f = {n} /\ f[n] = new
    BY <2>1
  <2> QED  BY <1>4, <1>5, <1>10, <2>2, <2>3 DEF f, P, node
<1>11. CASE node.init_octo /\ ~node.update_enable
  <2>1. f = [x \in {} |-> EmptyNode]
    BY <1>1, <1>11
  <2>2. DOMAIN f = {}
    BY <2>1
  <2> QED  BY <1>4, <1>5, <2>2 DEF f, P, node
<1> QED  BY <1>8, <1>9, <1>10, <1>11

\* The walk of UpdateOctoTree ends, at the first node that takes the point.
LEMMA TargetFacts ==
  ASSUME VoxelAssumption, NEW path \in Leaf
  PROVE  LET n == TargetOf(path)
         IN  /\ n \in Node /\ Under(n, path) /\ Takes(n)
             /\ \A m \in Node : Under(m, n) /\ m # n => ~Takes(m)
<1> DEFINE A == {k \in 1 .. Len(path) : Takes(SubSeq(path, 1, k))}
<1>1. path \in Node /\ Len(path) = max_layer + 1 /\ path \in Seq(Keys)
  BY NodeFacts DEF Leaf
<1>2. Len(path) \in Nat /\ Len(path) \in 1 .. Len(path)
  BY <1>1 DEF VoxelAssumption
<1>3. SubSeq(path, 1, Len(path)) = path
  BY <1>1, SubSeqFull
<1>4. Takes(path)
  <2>1. Layer(path) >= max_layer
    BY <1>1 DEF Layer, VoxelAssumption
  <2> QED  BY <2>1 DEF Takes
<1>5. Len(path) \in A
  BY <1>2, <1>3, <1>4
<1>6. A \subseteq Nat
  BY <1>2
<1>7. PICK k \in A : \A j \in A : k <= j
  <2> HIDE DEF A
  <2> QED  BY <1>5, <1>6, LeastNatural
<1> DEFINE n == SubSeq(path, 1, k)
<1>8. n \in Node /\ Len(n) = k /\ (\A i \in 1 .. k : n[i] = path[i]) /\ Takes(n)
  BY <1>1, <1>7, PrefixFacts
<1>9. k \in 1 .. Len(path)
  BY <1>7
<1> HIDE DEF n
<1>10. Under(n, path)
  BY <1>1, <1>2, <1>8, <1>9, UnderFacts
<1>11. ASSUME NEW m \in Node, Under(m, n), m # n, Takes(m)  PROVE FALSE
  <2>1. Len(m) < k /\ Len(m) \in Nat /\ Len(m) >= 1 /\ Under(m, path)
    <3>1. Len(m) < Len(n) /\ Under(m, path)
      BY <1>1, <1>8, <1>10, <1>11, UnderOrder
    <3>2. Len(m) \in 1 .. max_layer + 1
      BY NodeFacts
    <3> QED  BY <1>8, <3>1, <3>2 DEF VoxelAssumption
  <2>2. m = SubSeq(path, 1, Len(m))
    BY <2>1 DEF Under
  <2>3. Len(m) \in 1 .. Len(path)
    BY <1>2, <1>9, <2>1
  <2>4. Len(m) \in A
    BY <1>11, <2>2, <2>3
  <2>5. ~(k <= Len(m))
    BY <1>9, <2>1
  <2> HIDE DEF A
  <2> QED  BY <1>7, <2>4, <2>5
<1>12. \E x \in Node : /\ Under(x, path) /\ Takes(x)
                        /\ \A m \in Node : Under(m, x) /\ m # x => ~Takes(m)
  BY <1>8, <1>10, <1>11
<1> QED  BY <1>12 DEF TargetOf

-----------------------------------------------------------------------------
(* Every step keeps it. *)

LEMMA VoxelInitOK == ASSUME VoxelAssumption, VoxelInit  PROVE MInv
<1>1. DOMAIN tree = {}
  BY DEF VoxelInit
<1> QED  BY <1>1 DEF VoxelInit, MInv, Shape, Closed

LEMMA UpdateKeeps ==
  ASSUME VoxelAssumption, MInv, NEW path \in Leaf, NEW flat, UpdateVoxelMap(path, flat)
  PROVE  MInv'
<1> DEFINE n == TargetOf(path)
           pv == <<points + 1, path>>
           node == NodeOf(n)
           P == node.temp_points \cup {pv}
           f == Updated(n, pv, flat)
<1>1. /\ n \in Node /\ Under(n, path) /\ Takes(n)
      /\ \A m \in Node : Under(m, n) /\ m # n => m \in DOMAIN tree /\ tree[m].init_octo
  BY TargetFacts DEF Takes
<1>2. points' \in Nat /\ tree' = Grafted(f) /\ pv \in Pts
  BY DEF UpdateVoxelMap, MInv, Pts
<1>3. node = IF n \in DOMAIN tree THEN tree[n] ELSE EmptyNode
  BY DEF NodeOf
<1>4. NodeOK(node)
  BY <1>3, EmptyOK DEF MInv, Shape
<1>5. /\ IsFiniteSet(P) /\ P \in SUBSET Pts
      /\ \/ ~node.init_octo /\ f = Cut(n, P, flat)
         \/ /\ DOMAIN f \subseteq {n}
            /\ n \in DOMAIN f => NodeOK(f[n]) /\ (node.init_octo => f[n].init_octo)
  <2> HIDE DEF n, pv
  <2> QED  BY <1>2, <1>4, UpdatedFacts
<1> HIDE DEF n, pv, f, P
<1>6. /\ DOMAIN tree' = DOMAIN tree \cup DOMAIN f
      /\ \A x \in DOMAIN f : tree'[x] = f[x]
      /\ \A x \in DOMAIN tree : x \notin DOMAIN f => tree'[x] = tree[x]
  BY <1>2 DEF Grafted
<1>7. /\ \A x \in DOMAIN f : x \in Node /\ Under(n, x) /\ NodeOK(f[x])
      /\ \A x \in DOMAIN f, m \in Node :
           Under(n, m) /\ Under(m, x) /\ m # x => m \in DOMAIN f /\ f[m].init_octo
  <2>1. CASE f = Cut(n, P, flat)
    BY <1>1, <1>5, <2>1, CutFacts
  <2>2. CASE /\ DOMAIN f \subseteq {n}
             /\ n \in DOMAIN f => NodeOK(f[n]) /\ (node.init_octo => f[n].init_octo)
    BY <1>1, <2>2, UnderOrder
  <2> QED  BY <1>5, <2>1, <2>2
<1>8. Shape(tree')
  BY <1>6, <1>7 DEF MInv, Shape
<1>9. Closed(tree')
  <2> SUFFICES ASSUME NEW x \in DOMAIN tree', NEW m \in Node, Under(m, x), m # x
               PROVE  m \in DOMAIN tree' /\ tree'[m].init_octo
    BY DEF Closed
  <2>1. ASSUME m \in DOMAIN tree, tree[m].init_octo
        PROVE  m \in DOMAIN tree' /\ tree'[m].init_octo
    <3>1. CASE m \notin DOMAIN f
      BY <1>6, <2>1, <3>1
    <3>2. CASE m \in DOMAIN f /\ DOMAIN f \subseteq {n}
      BY <1>3, <1>5, <1>6, <2>1, <3>2, CutFacts
    <3>3. CASE m \in DOMAIN f /\ ~node.init_octo
      <4>1. Under(n, m)
        BY <1>7, <3>3
      <4>2. m # n
        BY <1>3, <2>1, <3>3
      <4>3. n \in DOMAIN tree /\ tree[n].init_octo
        BY <1>1, <2>1, <4>1, <4>2 DEF MInv, Closed
      <4> QED  BY <1>3, <3>3, <4>3
    <3> QED  BY <1>5, <3>1, <3>2, <3>3
  <2>2. CASE x \in DOMAIN f
    <3>1. x \in Node /\ Under(n, x)
      BY <1>7, <2>2
    <3>2. CASE Under(n, m)
      BY <1>6, <1>7, <2>2, <3>2
    <3>3. CASE ~Under(n, m)
      <4>1. Under(m, n) /\ m # n
        BY <1>1, <3>1, <3>3, UnderOrder
      <4> QED  BY <1>1, <2>1, <4>1
    <3> QED  BY <3>2, <3>3
  <2>3. CASE x \in DOMAIN tree
    BY <2>1, <2>3 DEF MInv, Closed
  <2> QED  BY <1>6, <2>2, <2>3
<1> QED  BY <1>2, <1>8, <1>9 DEF MInv

LEMMA BuildKeeps ==
  ASSUME VoxelAssumption, NEW P \in SUBSET Pts, IsFiniteSet(P), NEW flat, BuildVoxelMap(P, flat)
  PROVE  MInv'
<1> DEFINE Part(v) == Cut(<<v>>, {p \in P : PathOf(p)[1] = v}, flat)
           roots == {PathOf(p)[1] : p \in P}
<1>1. /\ DOMAIN tree' = UNION {DOMAIN Part(v) : v \in roots}
      /\ \A x \in DOMAIN tree' : tree'[x] = Part(x[1])[x]
  BY DEF BuildVoxelMap
<1>2. points' \in Nat
  BY FS_CardinalityType DEF BuildVoxelMap
<1>3. roots \subseteq Voxels
  BY NodeFacts DEF Pts, PathOf, Leaf
<1>4. ASSUME NEW v \in Voxels
      PROVE  /\ <<v>> \in Node
             /\ \A x \in DOMAIN Part(v) : x \in Node /\ x[1] = v /\ NodeOK(Part(v)[x])
             /\ \A x \in DOMAIN Part(v), m \in Node :
                  Under(m, x) /\ m # x => m \in DOMAIN Part(v) /\ Part(v)[m].init_octo
  <2> DEFINE Q == {p \in P : PathOf(p)[1] = v}
  <2>1. IsFiniteSet(Q) /\ Q \in SUBSET Pts
    BY FS_Subset
  <2>2. <<v>> \in Node /\ \A n \in Node : Under(<<v>>, n) <=> n[1] = v
    BY RootFacts
  <2> HIDE DEF Q
  <2>3. /\ \A x \in DOMAIN Cut(<<v>>, Q, flat) :
              x \in Node /\ Under(<<v>>, x) /\ NodeOK(Cut(<<v>>, Q, flat)[x])
        /\ \A x \in DOMAIN Cut(<<v>>, Q, flat), m \in Node :
              Under(<<v>>, m) /\ Under(m, x) /\ m # x =>
                m \in DOMAIN Cut(<<v>>, Q, flat) /\ Cut(<<v>>, Q, flat)[m].init_octo
    BY <2>1, <2>2, CutFacts
  <2>4. Part(v) = Cut(<<v>>, Q, flat)
    BY DEF Q
  <2> HIDE DEF Part
  <2>5. \A x, m \in Node : Under(m, x) => m[1] = x[1]
    BY UnderOrder
  <2> QED  BY <2>2, <2>3, <2>4, <2>5
<1> HIDE DEF Part, roots
<1>5. \A x \in DOMAIN tree' : /\ x[1] \in roots /\ x[1] \in Voxels
                              /\ x \in DOMAIN Part(x[1])
  <2> SUFFICES ASSUME NEW x \in DOMAIN tree'
               PROVE  x[1] \in roots /\ x[1] \in Voxels /\ x \in DOMAIN Part(x[1])
    OBVIOUS
  <2>1. PICK v \in roots : x \in DOMAIN Part(v)
    BY <1>1
  <2>2. v \in Voxels
    BY <1>3
  <2>3. x[1] = v
    BY <1>4, <2>1, <2>2
  <2> QED  BY <2>1, <2>2, <2>3
<1>6. Shape(tree')
  BY <1>1, <1>4, <1>5 DEF Shape
<1>7. Closed(tree')
  <2> SUFFICES ASSUME NEW x \in DOMAIN tree', NEW m \in Node, Under(m, x), m # x
               PROVE  m \in DOMAIN tree' /\ tree'[m].init_octo
    BY DEF Closed
  <2>1. x[1] \in roots /\ x[1] \in Voxels /\ x \in DOMAIN Part(x[1])
    BY <1>5
  <2>2. m \in DOMAIN Part(x[1]) /\ Part(x[1])[m].init_octo
    BY <1>4, <2>1
  <2>3. m[1] = x[1]
    BY <1>4, <2>1, <2>2
  <2> QED  BY <1>1, <2>1, <2>2, <2>3
<1> QED  BY <1>2, <1>6, <1>7 DEF MInv

\* A tree slides out as a whole.
LEMMA SlideKeeps == ASSUME VoxelAssumption, MInv, NEW pos, MapSliding(pos)  PROVE MInv'
<1>1. points' = points
      /\ DOMAIN tree' = {m \in DOMAIN tree : m[1] \in pos - half_map_size .. pos + half_map_size}
      /\ \A n \in DOMAIN tree' : tree'[n] = tree[n]
  BY DEF MapSliding
<1>2. Shape(tree')
  BY <1>1 DEF MInv, Shape
<1>3. \A x, m \in Node : Under(m, x) => m[1] = x[1]
  BY UnderOrder
<1>4. Closed(tree')
  BY <1>1, <1>3 DEF MInv, Shape, Closed
<1> QED  BY <1>1, <1>2, <1>4 DEF MInv

LEMMA VoxelNextOK == ASSUME VoxelAssumption, MInv, [VoxelNext]_voxelVars  PROVE MInv'
<1>1. ASSUME NEW k \in 0 .. MaxFirst, NEW path \in [1 .. k -> Leaf],
             NEW flat, BuildVoxelMap({<<i, path[i]>> : i \in 1 .. k}, flat)
      PROVE  MInv'
  <2> DEFINE P == {<<i, path[i]>> : i \in 1 .. k}
             g == [i \in 1 .. k |-> <<i, path[i]>>]
  <2>1. k \in Nat
    BY DEF VoxelAssumption
  <2>2. P \in SUBSET Pts
    BY <2>1 DEF Pts
  <2>3. g \in Surjection(1 .. k, P)
    BY DEF Surjection
  <2>4. IsFiniteSet(1 .. k)
    BY <2>1, FS_Interval
  <2>5. IsFiniteSet(P)
    <3> HIDE DEF P, g
    <3> QED  BY <2>3, <2>4, FS_Surjection
  <2> HIDE DEF P
  <2>6. BuildVoxelMap(P, flat)
    BY <1>1 DEF P
  <2> QED  BY <2>2, <2>5, <2>6, BuildKeeps
<1>2. ASSUME NEW path \in Leaf, NEW flat, UpdateVoxelMap(path, flat)  PROVE MInv'
  BY <1>2, UpdateKeeps
<1>3. ASSUME NEW pos \in Voxels, MapSliding(pos)  PROVE MInv'
  BY <1>3, SlideKeeps
<1>4. CASE UNCHANGED voxelVars
  BY <1>4 DEF voxelVars, MInv
<1> QED  BY <1>1, <1>2, <1>3, <1>4 DEF VoxelNext

LEMMA VoxelInvariant == ASSUME VoxelAssumption  PROVE VoxelSpec => []MInv
<1>1. VoxelInit => MInv
  BY VoxelInitOK
<1>2. MInv /\ [VoxelNext]_voxelVars => MInv'
  BY VoxelNextOK
<1> QED  BY <1>1, <1>2, PTL DEF VoxelSpec

-----------------------------------------------------------------------------
(* The theorems. *)

LEMMA StoredFollows == ASSUME VoxelAssumption, MInv  PROVE StoredBounded
<1> SUFFICES ASSUME NEW n \in DOMAIN tree
             PROVE  /\ NodeOK(tree[n])
                    /\ Layer(n) > 0 => Parent(n) \in DOMAIN tree /\ tree[Parent(n)].init_octo
  BY DEF StoredBounded, NodeOK
<1>1. n \in Node /\ NodeOK(tree[n])
  BY DEF MInv, Shape
<1>2. ASSUME Layer(n) > 0  PROVE Parent(n) \in DOMAIN tree /\ tree[Parent(n)].init_octo
  <2>1. Len(n) > 1
    BY <1>1, <1>2, NodeFacts DEF Layer, VoxelAssumption
  <2>2. Parent(n) \in Node /\ Under(Parent(n), n) /\ Parent(n) # n
    BY <1>1, <2>1, ParentFacts
  <2> QED  BY <2>2 DEF MInv, Closed
<1> QED  BY <1>1, <1>2

\* The node a place is looked up at.
LEMMA FoundFacts ==
  ASSUME VoxelAssumption, MInv, NEW path \in Leaf, <<path[1]>> \in DOMAIN tree
  PROVE  LET target == TargetOf(path)
             found == FindCorrespond(path)
         IN  /\ found = IF target \in DOMAIN tree THEN target ELSE Parent(target)
             /\ found \in DOMAIN tree /\ Under(found, path)
             /\ \A m \in DOMAIN tree : Under(m, found) /\ m # found => ~Stays(m)
<1> DEFINE target == TargetOf(path)
           Walk(n) == /\ Under(n, path)
                      /\ \A m \in DOMAIN tree : Under(m, n) /\ m # n => ~Stays(m)
                      /\ Stays(n) \/ SubSeq(path, 1, Len(n) + 1) \notin DOMAIN tree
           f == IF target \in DOMAIN tree THEN target ELSE Parent(target)
<1>1. /\ target \in Node /\ Under(target, path) /\ Takes(target)
      /\ \A m \in Node : Under(m, target) /\ m # target => m \in DOMAIN tree /\ ~Stays(m)
  BY TargetFacts DEF Takes, Stays
<1> HIDE DEF target
<1>2. /\ path \in Node /\ DOMAIN tree \subseteq Node
      /\ \A n \in Node : Len(n) \in Nat /\ Len(n) >= 1
  BY NodeFacts DEF Leaf, MInv, Shape, VoxelAssumption
<1>3. target \in DOMAIN tree => Stays(target)
  BY <1>1 DEF Takes, Stays
<1>4. ASSUME target \notin DOMAIN tree
      PROVE  /\ Parent(target) \in Node /\ Len(Parent(target)) = Len(target) - 1
             /\ Under(Parent(target), target) /\ Parent(target) # target
  <2>1. Len(target) > 1
    <3>1. ASSUME Len(target) = 1  PROVE FALSE
      <4>1. target = SubSeq(path, 1, 1)
        BY <1>1, <3>1 DEF Under
      <4>2. path[1] \in Voxels
        BY <1>2, NodeFacts
      <4>3. <<path[1]>> \in Node /\ Under(<<path[1]>>, path) /\ Len(<<path[1]>>) = 1
        BY <1>2, <4>2, RootFacts
      <4>4. <<path[1]>> = SubSeq(path, 1, 1)
        BY <4>3 DEF Under
      <4> QED  BY <1>4, <4>1, <4>4
    <3>2. Len(target) \in Nat /\ Len(target) >= 1
      BY <1>1, <1>2
    <3>3. Len(target) # 1
      BY <3>1
    <3>4. \A k \in Nat : k >= 1 /\ k # 1 => k > 1
      OBVIOUS
    <3> QED  BY <3>2, <3>3, <3>4
  <2> QED  BY <1>1, <2>1, ParentFacts
<1>5. /\ f \in DOMAIN tree /\ Under(f, path) /\ Walk(f)
  <2>1. CASE target \in DOMAIN tree
    BY <1>1, <1>2, <1>3, <2>1
  <2>2. CASE target \notin DOMAIN tree
    <3>1. /\ Parent(target) \in Node /\ Len(Parent(target)) = Len(target) - 1
          /\ Under(Parent(target), target) /\ Parent(target) # target
      BY <1>4, <2>2
    <3>2. f = Parent(target)
      BY <2>2
    <3> HIDE DEF f
    <3>3. f \in DOMAIN tree /\ Under(f, path)
      BY <1>1, <1>2, <3>1, <3>2, UnderOrder
    <3>4. Len(f) + 1 = Len(target)
      BY <1>1, <1>2, <3>1, <3>2, SMTT(30)
    <3>5. SubSeq(path, 1, Len(f) + 1) = target
      BY <1>1, <3>4 DEF Under
    <3>6. ASSUME NEW m \in DOMAIN tree, Under(m, f), m # f  PROVE ~Stays(m)
      <4>1. m \in Node /\ Under(m, target)
        BY <1>1, <1>2, <3>1, <3>2, <3>6, UnderOrder
      <4>2. m # target
        BY <2>2
      <4> QED  BY <1>1, <4>1, <4>2
    <3> QED  BY <2>2, <3>3, <3>5, <3>6
  <2> QED  BY <2>1, <2>2
<1>6. ASSUME NEW n \in DOMAIN tree, Walk(n)  PROVE n = f
  <2>1. n \in Node /\ Under(n, path)
    BY <1>2, <1>6
  <2>2. CASE Under(target, n)
    <3>1. CASE target = n
      BY <1>6, <3>1
    <3>2. CASE target # n
      <4>1. target \in DOMAIN tree
        BY <1>1, <1>6, <2>2, <3>2 DEF MInv, Closed
      <4>2. ~Stays(target)
        BY <1>6, <2>2, <3>2, <4>1
      <4> QED  BY <1>3, <4>1, <4>2
    <3> QED  BY <3>1, <3>2
  <2>3. CASE ~Under(target, n)
    <3>1. Under(n, target) /\ n # target /\ Len(n) < Len(target)
      BY <1>1, <1>2, <2>1, <2>3, UnderOrder
    <3>2. ~Stays(n)
      BY <1>1, <2>1, <3>1
    <3> DEFINE child == SubSeq(path, 1, Len(n) + 1)
    <3>3. child \notin DOMAIN tree
      BY <1>6, <3>2
    <3>4. Len(n) + 1 \in 1 .. Len(path)
      <4>1. Len(target) <= Len(path)
        BY <1>1 DEF Under
      <4> QED  BY <1>1, <1>2, <2>1, <3>1, <4>1
    <3>5. /\ child \in Node /\ Len(child) = Len(n) + 1
          /\ \A i \in 1 .. Len(n) + 1 : child[i] = path[i]
      BY <1>2, <3>4, PrefixFacts
    <3> HIDE DEF child
    <3>6. Under(child, path)
      BY <1>2, <3>4, <3>5, UnderFacts
    <3>7. Under(child, target)
      <4>1. Under(child, target) \/ Under(target, child)
        BY <1>1, <1>2, <3>5, <3>6, UnderOrder
      <4>2. CASE Under(target, child)
        <5>1. Len(target) <= Len(child)
          BY <4>2 DEF Under
        <5>2. Len(target) = Len(child)
          BY <1>1, <1>2, <2>1, <3>1, <3>5, <5>1
        <5>3. target = child
          BY <1>1, <1>2, <3>5, <4>2, <5>2, UnderOrder
        <5> QED  BY <3>5, <5>3, UnderOrder
      <4> QED  BY <4>1, <4>2
    <3>8. child = target
      BY <1>1, <3>3, <3>5, <3>7
    <3>9. target \notin DOMAIN tree
      BY <3>3, <3>8
    <3>10. Parent(target) = n
      <4>1. Len(n) = Len(target) - 1
        BY <1>2, <2>1, <3>5, <3>8
      <4>2. n = SubSeq(target, 1, Len(n))
        BY <3>1 DEF Under
      <4> QED  BY <4>1, <4>2 DEF Parent
    <3> QED  BY <3>9, <3>10
  <2> QED  BY <2>2, <2>3
<1>7. FindCorrespond(path) = CHOOSE n \in DOMAIN tree : Walk(n)
  BY DEF FindCorrespond
<1> HIDE DEF f, Walk
<1>8. FindCorrespond(path) = f
  BY <1>5, <1>6, <1>7
<1>9. \A m \in DOMAIN tree : Under(m, f) /\ m # f => ~Stays(m)
  BY <1>5 DEF Walk
<1> QED  BY <1>5, <1>8, <1>9 DEF f, target

LEMMA WalksFollow == ASSUME VoxelAssumption, MInv  PROVE WalksAgree
<1> SUFFICES ASSUME NEW path \in Leaf, <<path[1]>> \in DOMAIN tree
             PROVE  LET found == FindCorrespond(path)
                        target == TargetOf(path)
                    IN  /\ found = IF target \in DOMAIN tree THEN target ELSE Parent(target)
                        /\ tree[found].is_plane => found \in Compared(path[1])
  BY DEF WalksAgree
<1> DEFINE found == FindCorrespond(path)
           target == TargetOf(path)
<1>1. /\ found = IF target \in DOMAIN tree THEN target ELSE Parent(target)
      /\ found \in DOMAIN tree /\ Under(found, path)
      /\ \A m \in DOMAIN tree : Under(m, found) /\ m # found => ~Stays(m)
  BY FoundFacts
<1>2. path \in Node /\ found \in Node
  BY <1>1 DEF Leaf, MInv, Shape
<1> HIDE DEF found
<1>3. found[1] = path[1]
  BY <1>1, <1>2, UnderOrder
<1>4. \A m \in DOMAIN tree : Under(m, found) /\ m # found => ~tree[m].is_plane
  BY <1>1 DEF Stays
<1>5. tree[found].is_plane => found \in Compared(path[1])
  BY <1>1, <1>3, <1>4 DEF Compared
<1> QED  BY <1>1, <1>5 DEF found

\* Whatever the points, the fits and the slides: nodes that wait hold few points,
\* planes no more than the limit, frozen nodes none; every node hangs from fitted ones;
\* and the walks that store a point, look a plane up and compare a point with planes
\* come to the same node.
THEOREM TreeSoundHolds == ASSUME VoxelAssumption  PROVE VoxelSpec => []TreeSound
<1>1. MInv => TreeSound
  BY StoredFollows, WalksFollow DEF TreeSound
<1> QED  BY <1>1, VoxelInvariant, PTL

-----------------------------------------------------------------------------
(* What a frozen node is. *)

\* A node is fitted before it may have its fill; the configuration has 5 and 50.
LimitAssumption == layer_init_num < max_points_num

Unbuilt == ~built => DOMAIN tree = {}

LEMMA UnbuiltHolds == VoxelSpec => []Unbuilt
<1>1. VoxelInit => Unbuilt
  BY DEF VoxelInit, Unbuilt
<1>2. Unbuilt /\ [VoxelNext]_voxelVars => Unbuilt'
  BY DEF Unbuilt, VoxelNext, BuildVoxelMap, UpdateVoxelMap, MapSliding, voxelVars
<1> QED  BY <1>1, <1>2, PTL DEF VoxelSpec

\* The nodes of a cut store points that were handed down.
LEMMA CutStores ==
  ASSUME NEW n, NEW P, NEW flat, NEW m \in DOMAIN Cut(n, P, flat)
  PROVE  Cut(n, P, flat)[m].temp_points \subseteq P
<1> DEFINE Q == {p \in P : Under(m, PathOf(p))}
<1>1. Cut(n, P, flat)[m] = Filled(Q, m \in flat)
  BY DEF Cut
<1>2. ASSUME NEW S, NEW isFlat  PROVE Filled(S, isFlat).temp_points \subseteq S
  <2> DEFINE node == [EmptyNode EXCEPT !.temp_points = S, !.new_points = Cardinality(S)]
             fitted == [node EXCEPT !.init_octo = TRUE, !.is_plane = isFlat, !.new_points = 0]
  <2>1. node.temp_points = S /\ fitted.temp_points = S
    BY DEF EmptyNode
  <2>2. Frozen(fitted).temp_points = {}
    BY DEF Frozen, EmptyNode
  <2> HIDE DEF node, fitted
  <2>3. Filled(S, isFlat) \in {node, fitted, Frozen(fitted)}
    BY DEF Filled, node, fitted
  <2> QED  BY <2>1, <2>2, <2>3
<1> HIDE DEF Q
<1>3. Q \subseteq P
  BY DEF Q
<1> QED  BY <1>1, <1>2, <1>3

LEMMA UpdateIsFinal ==
  ASSUME VoxelAssumption, LimitAssumption, MInv, NEW path \in Leaf, NEW flat,
         UpdateVoxelMap(path, flat), NEW x \in DOMAIN tree
  PROVE  /\ ~tree[x].update_enable => tree'[x] = tree[x]
         /\ \/ tree'[x] = tree[x]
            \/ Cardinality(tree'[x].temp_points) <= max_points_num
<1> DEFINE n == TargetOf(path)
           pv == <<points + 1, path>>
           node == NodeOf(n)
           P == node.temp_points \cup {pv}
           f == Updated(n, pv, flat)
<1>1. tree' = Grafted(f) /\ pv \in Pts
  BY DEF UpdateVoxelMap, MInv, Pts
<1>2. node = IF n \in DOMAIN tree THEN tree[n] ELSE EmptyNode
  BY DEF NodeOf
<1>3. NodeOK(node) /\ n \in Node
  BY <1>2, EmptyOK, TargetFacts DEF MInv, Shape
<1>4. /\ IsFiniteSet(P) /\ P \in SUBSET Pts
      /\ \/ ~node.init_octo /\ f = Cut(n, P, flat)
         \/ /\ DOMAIN f \subseteq {n}
            /\ n \in DOMAIN f =>
                 /\ node.update_enable
                 /\ \/ Cardinality(f[n].temp_points) <= layer_init_num
                    \/ Cardinality(f[n].temp_points) <= max_points_num
  <2> HIDE DEF n, pv
  <2> QED  BY <1>1, <1>3, UpdatedFacts
<1> HIDE DEF n, pv, f
<1>5. tree'[x] = IF x \in DOMAIN f THEN f[x] ELSE tree[x]
  BY <1>1 DEF Grafted
<1>6. x \in Node /\ NodeOK(tree[x])
  BY DEF MInv, Shape
<1>7. CASE x \in DOMAIN f /\ ~node.init_octo /\ f = Cut(n, P, flat)
  <2>1. Under(n, x)
    BY <1>7 DEF Cut
  <2>2. x = n
    BY <1>2, <1>3, <1>6, <1>7, <2>1 DEF MInv, Closed
  <2>3. tree[x] = node /\ tree[x].update_enable
    BY <1>2, <1>3, <1>7, <2>2 DEF NodeOK
  <2>4. Cardinality(P) <= layer_init_num + 1
    <3>1. /\ IsFiniteSet(node.temp_points) /\ Cardinality(node.temp_points) \in Nat
          /\ Cardinality(node.temp_points) <= layer_init_num
      BY <1>3, <1>7, FS_CardinalityType DEF NodeOK
    <3>2. \/ Cardinality(P) = Cardinality(node.temp_points)
          \/ Cardinality(P) = Cardinality(node.temp_points) + 1
      BY <3>1, FS_AddElement
    <3> QED  BY <3>1, <3>2 DEF VoxelAssumption
  <2>5. f[x].temp_points \subseteq P
    BY <1>7, CutStores
  <2>6. /\ Cardinality(f[x].temp_points) <= Cardinality(P)
        /\ Cardinality(f[x].temp_points) \in Nat /\ Cardinality(P) \in Nat
    BY <1>4, <2>5, FS_Subset, FS_CardinalityType
  <2>7. Cardinality(f[x].temp_points) <= max_points_num
    BY <2>4, <2>6 DEF VoxelAssumption, LimitAssumption
  <2> QED  BY <1>5, <1>7, <2>3, <2>7
<1>8. CASE /\ x \in DOMAIN f /\ DOMAIN f \subseteq {n}
           /\ node.update_enable
           /\ \/ Cardinality(f[n].temp_points) <= layer_init_num
              \/ Cardinality(f[n].temp_points) <= max_points_num
  <2>1. x = n /\ tree[x] = node
    BY <1>2, <1>8
  <2>2. CASE Cardinality(f[n].temp_points) <= max_points_num
    BY <1>5, <1>8, <2>1, <2>2
  <2>3. CASE Cardinality(f[n].temp_points) <= layer_init_num
    <3>1. IsFiniteSet(f[n].temp_points) /\ Cardinality(f[n].temp_points) \in Nat
      <4>1. MInv'
        BY UpdateKeeps
      <4>2. n \in DOMAIN tree' /\ tree'[n] = f[n]
        BY <1>1, <1>8 DEF Grafted
      <4> QED  BY <4>1, <4>2, FS_CardinalityType DEF MInv, Shape, NodeOK
    <3>2. Cardinality(f[n].temp_points) <= max_points_num
      BY <2>3, <3>1 DEF VoxelAssumption, LimitAssumption
    <3> QED  BY <1>5, <1>8, <2>1, <3>2
  <2> QED  BY <1>8, <2>2, <2>3
<1> QED  BY <1>4, <1>5, <1>7, <1>8

\* Once its points are freed a node never changes until its voxel slides out, and no
\* update makes a node hold more points than the limit.
THEOREM FrozenIsFinalHolds ==
  ASSUME VoxelAssumption, LimitAssumption  PROVE VoxelSpec => FrozenIsFinal
<1> DEFINE Same(x) == tree'[x] = tree[x]
           Step == \A n \in DOMAIN tree \cap DOMAIN tree' :
                     /\ ~tree[n].update_enable => tree'[n] = tree[n]
                     /\ Cardinality(tree'[n].temp_points) > Cardinality(tree[n].temp_points)
                          => Cardinality(tree'[n].temp_points) <= max_points_num
<1>1. ASSUME MInv, Unbuilt, [VoxelNext]_voxelVars  PROVE [Step]_voxelVars
  <2> SUFFICES ASSUME NEW x \in DOMAIN tree, x \in DOMAIN tree', VoxelNext
               PROVE  /\ ~tree[x].update_enable => Same(x)
                      /\ Same(x) \/ Cardinality(tree'[x].temp_points) <= max_points_num
    <3>1. \A x \in DOMAIN tree : Cardinality(tree[x].temp_points) \in Nat
      BY <1>1, FS_CardinalityType DEF MInv, Shape, NodeOK
    <3> QED  BY <1>1, <3>1
  <2>1. built
    BY <1>1 DEF Unbuilt
  <2>2. ASSUME NEW path \in Leaf, NEW flat, UpdateVoxelMap(path, flat)
        PROVE  /\ ~tree[x].update_enable => Same(x)
               /\ Same(x) \/ Cardinality(tree'[x].temp_points) <= max_points_num
    BY <1>1, <2>2, UpdateIsFinal
  <2>3. ASSUME NEW pos \in Voxels, MapSliding(pos)  PROVE Same(x)
    BY <2>3 DEF MapSliding
  <2> QED  BY <2>1, <2>2, <2>3 DEF VoxelNext
<1>2. MInv /\ Unbuilt /\ [VoxelNext]_voxelVars => [Step]_voxelVars
  BY <1>1
<1>3. VoxelSpec => [][Step]_voxelVars
  <2> HIDE DEF Step
  <2> QED  BY <1>2, VoxelInvariant, UnbuiltHolds, PTL DEF VoxelSpec
<1> QED  BY <1>3 DEF FrozenIsFinal
=============================================================================
