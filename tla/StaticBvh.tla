----------------------------- MODULE StaticBvh -----------------------------
(***************************************************************************)
(* The bounding volume hierarchy the simulated lidar casts its rays into   *)
(* (static_bvh.cpp): the tree is built once from a world's visible static  *)
(* geoms, and a ray searches it with a stack, the nearer child first,      *)
(* leaving out what starts beyond the nearest hit so far.  The world is a  *)
(* plane, rays go from its origin along the first axis, and where within   *)
(* the bounds of a geom a ray hits it, or that it misses, is an input.     *)
(***************************************************************************)
EXTENDS Integers, FiniteSetsExt, SequencesExt

CONSTANTS
  Worlds,    \* sequences of geoms [kind, lo, hi], corners as pairs
  LeafSize   \* kLeafSize

Miss == -1

VARIABLES
  pc,       \* "build", "idle", "search" or "threw"
  boxes,    \* boxes_, geoms in the tree's order
  planes,   \* planes_
  world,    \* the model
  nodes,    \* nodes_
  todo,     \* calls of build that are left: a range, and whose child it is
  hit,      \* per geom, ray_box or ray_plane of the ray being cast
  stack, best, geom

vars == <<pc, boxes, planes, world, nodes, todo, hit, stack, best, geom>>
tree == <<boxes, planes, world, nodes, todo>>

\* Boxes whose corners are in order.
Parameters ==
  /\ LeafSize \in Nat \ {0}
  /\ \A geoms \in Worlds : \A g \in DOMAIN geoms : \A i \in 1..2 : geoms[g].lo[i] <= geoms[g].hi[i]

Init ==
  /\ world \in Worlds
  /\ planes = {g \in DOMAIN world : world[g].kind = "plane"}
  /\ boxes = SetToSortSeq({g \in DOMAIN world : world[g].kind = "box"}, <)
  /\ pc = IF \E g \in DOMAIN world : world[g].kind = "mesh" THEN "threw" ELSE "build"
  /\ nodes = <<>>
  /\ todo = IF boxes = <<>> THEN <<>> ELSE <<[first |-> 1, count |-> Len(boxes), parent |-> 0, side |-> "left"]>>
  /\ hit = <<>> /\ stack = <<>> /\ best = Miss /\ geom = 0

-----------------------------------------------------------------------------
Low(range, i) == Min({world[boxes[b]].lo[i] : b \in range})
High(range, i) == Max({world[boxes[b]].hi[i] : b \in range})
Centre(g, i) == world[g].lo[i] + world[g].hi[i]

\* nth_element: the boxes of a range in any order with none of the first ones
\* beyond the one at mid and none of the later ones before it.
Split(order, range, mid, axis) ==
  /\ \A b \in DOMAIN boxes \ range : order[b] = boxes[b]
  /\ {order[b] : b \in range} = {boxes[b] : b \in range}
  /\ \A b \in range : IF b < mid THEN Centre(order[b], axis) <= Centre(order[mid], axis)
                                 ELSE Centre(order[b], axis) >= Centre(order[mid], axis)
Orders(range) ==
  {[b \in DOMAIN boxes |-> IF b \in range THEN boxes[p[b]] ELSE boxes[b]] :
     p \in {q \in [range -> range] : IsInjective(q)}}

\* One call of build: the node, and either a leaf or its two halves; a child's
\* index is entered in its parent.
Node(range, leaf, first, count) ==
  [lo |-> <<Low(range, 1), Low(range, 2)>>, hi |-> <<High(range, 1), High(range, 2)>>,
   left |-> 0, right |-> 0, first |-> IF leaf THEN first ELSE 0, count |-> IF leaf THEN count ELSE 0]
Linked(c, index) ==
  IF c.parent = 0 THEN nodes
  ELSE IF c.side = "left" THEN [nodes EXCEPT ![c.parent].left = index]
  ELSE [nodes EXCEPT ![c.parent].right = index]
Build ==
  /\ pc = "build" /\ todo # <<>>
  /\ LET c == Head(todo)
         range == c.first .. c.first + c.count - 1
         index == Len(nodes) + 1
         mid == c.first + c.count \div 2
         axis == IF High(range, 2) - Low(range, 2) > High(range, 1) - Low(range, 1) THEN 2 ELSE 1
         leaf == c.count <= LeafSize
         Half(first, end, side) == [first |-> first, count |-> end - first, parent |-> index, side |-> side]
     IN  /\ nodes' = Append(Linked(c, index), Node(range, leaf, c.first, c.count))
         /\ IF leaf THEN todo' = Tail(todo) /\ UNCHANGED boxes
            ELSE /\ todo' = <<Half(c.first, mid, "left"), Half(mid, c.first + c.count, "right")>> \o Tail(todo)
                 /\ \E order \in Orders(range) : Split(order, range, mid, axis) /\ boxes' = order
  /\ UNCHANGED <<pc, planes, world, hit, stack, best, geom>>
Built == pc = "build" /\ todo = <<>> /\ pc' = "idle" /\ UNCHANGED <<tree, hit, stack, best, geom>>

-----------------------------------------------------------------------------
\* slab: the ray's entry into a node; its exit is not behind the origin.
Slab(n) == n.lo[2] <= 0 /\ n.hi[2] >= 0 /\ n.lo[1] <= n.hi[1] /\ n.hi[1] >= 0
Entry(n) == n.lo[1]

\* ray_box or ray_plane: a miss, or a hit where the ray enters the geom's bounds
\* or where it leaves them.
Ends == {"miss", "near", "far"}
Distance(g, end) ==
  IF end = "miss" \/ world[g].kind = "hidden" THEN Miss
  ELSE IF world[g].kind = "plane" THEN IF end = "near" THEN 1 ELSE 3
  ELSE IF ~Slab(world[g]) THEN Miss
  ELSE IF end = "near" THEN Max({0, world[g].lo[1]}) ELSE world[g].hi[1]

\* consider, for each of a set of geoms: an exact tie goes to the lower id.
Nearer(h, g, b, t) == h[g] # Miss /\ (t = Miss \/ h[g] < t \/ (h[g] = t /\ g < b))
Considered(geoms, h, found) ==
  FoldSet(LAMBDA g, f : IF Nearer(h, g, f[2], f[1]) THEN <<h[g], g>> ELSE f, found, geoms)
Found(f) == best' = f[1] /\ geom' = f[2]

\* ray: the planes first.
Cast(ends) ==
  /\ pc = "idle"
  /\ hit' = [g \in DOMAIN world |-> Distance(g, ends[g])]
  /\ Found(Considered(planes, hit', <<Miss, 0>>))
  /\ stack' = IF nodes = <<>> THEN <<>> ELSE <<1>>
  /\ pc' = "search"
  /\ UNCHANGED tree

\* The children that are hit, the nearer one on top.
Children(n) ==
  LET l == nodes[n.left]
      r == nodes[n.right]
  IN  IF Slab(l) /\ Slab(r) THEN IF Entry(l) <= Entry(r) THEN <<n.left, n.right>> ELSE <<n.right, n.left>>
      ELSE IF Slab(l) THEN <<n.left>> ELSE IF Slab(r) THEN <<n.right>> ELSE <<>>

Behind(n) == best # Miss /\ Entry(n) > best
Visit ==
  /\ pc = "search" /\ stack # <<>>
  /\ LET n == nodes[Head(stack)]
     IN  IF ~Slab(n) \/ Behind(n) THEN stack' = Tail(stack) /\ UNCHANGED <<best, geom>>
         ELSE IF n.left = 0
           THEN /\ Found(Considered({boxes[b] : b \in n.first .. n.first + n.count - 1}, hit, <<best, geom>>))
                /\ stack' = Tail(stack)
           ELSE stack' = Children(n) \o Tail(stack) /\ UNCHANGED <<best, geom>>
  /\ UNCHANGED <<pc, tree, hit>>
Return ==
  /\ pc = "search" /\ stack = <<>>
  /\ pc' = "idle" /\ hit' = <<>> /\ best' = Miss /\ geom' = 0
  /\ UNCHANGED <<tree, stack>>

Next == Build \/ Built \/ (\E ends \in [DOMAIN world -> Ends] : Cast(ends)) \/ Visit \/ Return
Spec == Init /\ [][Next]_vars

-----------------------------------------------------------------------------
\* Every variable holds a value of its kind.
TypeOK ==
  /\ pc \in {"build", "idle", "search", "threw"}
  /\ world \in Worlds /\ planes \subseteq DOMAIN world /\ ToSet(boxes) \subseteq DOMAIN world
  /\ geom \in {0} \cup DOMAIN world /\ (geom = 0 <=> best = Miss)
  /\ ToSet(stack) \subseteq DOMAIN nodes

\* A ray's result is that of MuJoCo's loop over every geom in ascending order,
\* the nearest hit and among equal ones the first, however the median split
\* ordered the boxes and whatever the search left out (static_bvh.cpp, ray).
RayAsBruteForce ==
  pc = "search" /\ stack = <<>> =>
    LET seen == {g \in DOMAIN world : hit[g] # Miss}
        nearest == Min({hit[g] : g \in seen})
    IN  IF seen = {} THEN best = Miss ELSE best = nearest /\ geom = Min({g \in seen : hit[g] = nearest})
=============================================================================
