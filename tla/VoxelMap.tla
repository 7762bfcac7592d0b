------------------------------ MODULE VoxelMap ------------------------------
(***************************************************************************)
(* The LiDAR map of the mapper (FAST-LIVO2, voxel_map.cpp): a hash map of   *)
(* root voxels, each the root of an octree.  A node collects points until   *)
(* it can be fitted with a plane; when the fit fails its points go down to  *)
(* its children, when the plane has enough points they are freed and the    *)
(* node is frozen.                                                          *)
(*                                                                          *)
(* A node is the path from its root voxel, <<v>>, <<v, o>>, ...; a point is *)
(* a pair of its number and the path of its leaf.  Whether a set of points  *)
(* is flat (init_plane) is a free choice, made anew at every fit.  Poses    *)
(* and covariances are left out.                                            *)
(***************************************************************************)
EXTENDS Integers, FiniteSets, Sequences

CONSTANTS
  Voxels,            \* keys of root voxels, along one axis
  Octants,           \* children of a node (eight in the code)
  max_layer,
  layer_init_num,    \* a node is fitted when it has more points than this
  UPDATE_SIZE,       \* update_size_threshold_: new points between two fits
  max_points_num,
  map_sliding_en, half_map_size, sliding_thresh,
  MaxFirst, MaxPoints \* bounds: points of the first scan, and of all scans

Layers == 0 .. max_layer
Paths(k) == {n \in [1 .. k -> Voxels \cup Octants] :
              n[1] \in Voxels /\ \A i \in 2 .. k : n[i] \in Octants}
Node == UNION {Paths(l + 1) : l \in Layers}
Leaf == {n \in Node : Len(n) = max_layer + 1}
Point == (1 .. MaxPoints) \X Leaf

Layer(n) == Len(n) - 1
Under(n, m) == Len(n) <= Len(m) /\ SubSeq(m, 1, Len(n)) = n
Parent(n) == SubSeq(n, 1, Len(n) - 1)
PathOf(p) == p[2]

VARIABLES
  tree,             \* the nodes that exist, over all root voxels
  points,           \* how many points have come
  built,            \* lidar_map_inited
  last_slide_position

voxelVars == <<tree, points, built, last_slide_position>>

VoxelInit ==
  /\ tree = [n \in {} |-> {}]
  /\ points = 0 /\ built = FALSE /\ last_slide_position = 0

-----------------------------------------------------------------------------
(* A node and what is below it. *)

EmptyNode == [temp_points |-> {}, init_octo |-> FALSE, is_plane |-> FALSE,
              update_enable |-> TRUE, new_points |-> 0]

\* Free the points once there are enough, for good.
FrozenKeeps(node) == [node EXCEPT !.update_enable = FALSE]  \* fault: none is freed
Frozen(node) == [node EXCEPT !.update_enable = FALSE, !.temp_points = {},
                             !.new_points = 0]

\* A node that received the points P in one go, when the fits of the nodes in flat
\* find a plane: init_octo_tree and the loop of cut_octo_tree over the children.
Filled(P, isFlat) ==
  LET node == [EmptyNode EXCEPT !.temp_points = P, !.new_points = Cardinality(P)]
      fitted == [node EXCEPT !.init_octo = TRUE, !.is_plane = isFlat, !.new_points = 0]
  IN  IF Cardinality(P) <= layer_init_num THEN node
      ELSE IF isFlat /\ Cardinality(P) > max_points_num THEN Frozen(fitted) ELSE fitted

\* cut_octo_tree, with every level it recurses into: the points P of n are handed
\* down as long as there are enough for a fit and the fit finds no plane.
Cut(n, P, flat) ==
  LET At(m) == {p \in P : Under(m, PathOf(p))}
      Splits(m) == Cardinality(At(m)) > layer_init_num /\ m \notin flat
      Reached(m) == /\ At(m) # {}
                    /\ \A a \in Node : Under(n, a) /\ Under(a, m) /\ a # m => Splits(a)
  IN  [m \in {x \in Node : Under(n, x) /\ Reached(x)} |-> Filled(At(m), m \in flat)]

\* The nodes of f take the place of those with the same path.
Grafted(f) == [n \in DOMAIN tree \cup DOMAIN f |-> IF n \in DOMAIN f THEN f[n] ELSE tree[n]]

\* UpdateOctoTree walks down from the root to the first node that takes the point.
Takes(n) ==
  \/ n \notin DOMAIN tree
  \/ ~tree[n].init_octo \/ tree[n].is_plane \/ Layer(n) >= max_layer

TargetOf(path) ==
  CHOOSE n \in Node : /\ Under(n, path) /\ Takes(n)
                      /\ \A m \in Node : Under(m, n) /\ m # n => ~Takes(m)

\* What UpdateOctoTree does there with a point; flat decides the fits.
NodeOf(n) == IF n \in DOMAIN tree THEN tree[n] ELSE EmptyNode

\* A node whose points were freed takes no more.
AlwaysOpen(node) == TRUE               \* fault: it collects points again
IsOpen(node) == node.update_enable

Updated(n, pv, flat) ==
  LET node == NodeOf(n)
      P == node.temp_points \cup {pv}
      more == [node EXCEPT !.temp_points = P, !.new_points = @ + 1]
      refitted == IF more.new_points > UPDATE_SIZE
                  THEN [more EXCEPT !.is_plane = (n \in flat), !.new_points = 0] ELSE more
      full == Cardinality(P) > max_points_num
                \/ (node.is_plane /\ Cardinality(P) = max_points_num)
      one == [x \in {n} |-> IF full THEN Frozen(refitted) ELSE refitted]
  IN  IF ~node.init_octo
      THEN IF Cardinality(P) > layer_init_num THEN Cut(n, P, flat)
                                              ELSE [x \in {n} |-> more]
      ELSE IF IsOpen(node) THEN one ELSE [x \in {} |-> EmptyNode]

\* find_correspond: where the visual map looks up a plane, from the root down.
Stays(n) == ~tree[n].init_octo \/ tree[n].is_plane \/ Layer(n) >= max_layer

FindCorrespond(path) ==
  CHOOSE n \in DOMAIN tree :
    /\ Under(n, path)
    /\ \A m \in DOMAIN tree : Under(m, n) /\ m # n => ~Stays(m)
    /\ Stays(n) \/ SubSeq(path, 1, Len(n) + 1) \notin DOMAIN tree

\* build_single_residual: the planes a point of root voxel v is compared with.
Compared(v) ==
  {n \in DOMAIN tree : /\ n[1] = v /\ tree[n].is_plane
                       /\ \A m \in DOMAIN tree : Under(m, n) /\ m # n => ~tree[m].is_plane}

-----------------------------------------------------------------------------
(* The operations of handleLIO. *)

\* BuildVoxelMap, with the points of the first scan.
BuildVoxelMap(P, flat) ==
  /\ ~built /\ built' = TRUE
  /\ points' = Cardinality(P)
  /\ {p[1] : p \in P} = 1 .. Cardinality(P)
  /\ LET RootPart(v) == Cut(<<v>>, {p \in P : PathOf(p)[1] = v}, flat)
         roots == {PathOf(p)[1] : p \in P}
     IN  tree' = [n \in UNION {DOMAIN RootPart(v) : v \in roots} |-> RootPart(n[1])[n]]
  /\ UNCHANGED last_slide_position

\* UpdateVoxelMap, one point of a later scan.
UpdateVoxelMap(path, flat) ==
  /\ built /\ points < MaxPoints
  /\ points' = points + 1
  /\ tree' = Grafted(Updated(TargetOf(path), <<points + 1, path>>, flat))
  /\ UNCHANGED <<built, last_slide_position>>

\* mapSliding and clearMemOutOfMap, at the voxel of the platform.  The path to every
\* deleted node goes with its root.
MapSliding(pos) ==
  /\ map_sliding_en /\ built
  /\ pos - last_slide_position >= sliding_thresh \/ last_slide_position - pos >= sliding_thresh
  /\ last_slide_position' = pos
  /\ tree' = [n \in {m \in DOMAIN tree : m[1] \in pos - half_map_size .. pos + half_map_size}
                |-> tree[n]]
  /\ UNCHANGED <<points, built>>

\* The nodes that may be fitted when points of P come to n or below it.
Fits(n, P) ==
  {m \in Node : /\ Under(n, m) /\ \E p \in P : Under(m, PathOf(p))
                /\ Cardinality({p \in P : Under(m, PathOf(p))}) > layer_init_num}

VoxelNext ==
  \/ /\ ~built
     /\ \E k \in 0 .. MaxFirst : \E path \in [1 .. k -> Leaf] :
          LET P == {<<i, path[i]>> : i \in 1 .. k}
          IN  \E flat \in SUBSET UNION {Fits(<<v>>, P) : v \in Voxels} :
                BuildVoxelMap(P, flat)
  \/ /\ built
     /\ \E path \in Leaf :
          LET n == TargetOf(path)
          IN  \E flat \in SUBSET Fits(n, NodeOf(n).temp_points \cup {<<points + 1, path>>}) :
                UpdateVoxelMap(path, flat)
  \/ \E pos \in Voxels : MapSliding(pos)

VoxelSpec == VoxelInit /\ [][VoxelNext]_voxelVars

-----------------------------------------------------------------------------

VoxelTypeOK ==
  /\ DOMAIN tree \subseteq Node
  /\ \A n \in DOMAIN tree :
       /\ tree[n].temp_points \subseteq Point
       /\ tree[n].init_octo \in BOOLEAN /\ tree[n].is_plane \in BOOLEAN
       /\ tree[n].update_enable \in BOOLEAN /\ tree[n].new_points \in 0 .. MaxPoints
  /\ points \in 0 .. MaxPoints /\ built \in BOOLEAN /\ last_slide_position \in Voxels

\* A node waits for a fit with few points only, an open plane holds fewer points than
\* the limit, a frozen node none, and every node but a root hangs from one that was
\* fitted.
StoredBounded ==
  \A n \in DOMAIN tree :
    LET node == tree[n]
        stored == Cardinality(node.temp_points)
    IN  /\ ~node.init_octo => stored <= layer_init_num /\ node.update_enable
        /\ node.is_plane => node.init_octo /\ stored <= max_points_num
        /\ ~node.update_enable => stored = 0
        /\ Layer(n) > 0 => Parent(n) \in DOMAIN tree /\ tree[Parent(n)].init_octo

\* Three walks down a tree agree: the node that is looked up for a place is the one
\* a new point there would go to, or the parent of a node yet to be made; and when it
\* is a plane, it is among those a point of its voxel is compared with.
WalksAgree ==
  \A path \in Leaf :
    <<path[1]>> \in DOMAIN tree =>
      LET found == FindCorrespond(path)
          target == TargetOf(path)
      IN  /\ found = IF target \in DOMAIN tree THEN target ELSE Parent(target)
          /\ tree[found].is_plane => found \in Compared(path[1])

TreeSound == StoredBounded /\ WalksAgree

\* Once its points are freed a node never stores one again, and as a plane it is
\* final, until its voxel slides out of the map; and after the first scan no node
\* stores more points than the limit.
FrozenIsFinal ==
  [][\A n \in DOMAIN tree \cap DOMAIN tree' :
       /\ ~tree[n].update_enable => tree'[n] = tree[n]
       /\ Cardinality(tree'[n].temp_points) > Cardinality(tree[n].temp_points)
            => Cardinality(tree'[n].temp_points) <= max_points_num]_voxelVars
=============================================================================
