------------------------------- MODULE Octree -------------------------------
(***************************************************************************)
(* iOctree::Octree (ioctree.h) along one axis: an octant has two children   *)
(* instead of eight, a box is an interval [x, extent]: its centre and half  *)
(* its width.  Insertion and the two searches the node calls are here;      *)
(* octants are never deactivated or deleted by it, so is_active_ is always  *)
(* true, and down_size_ always is.                                         *)
(*                                                                         *)
(* No two octants have the same box, so an octant is known by its box, and  *)
(* the pointers are geometry: a child is the octant with the box of one     *)
(* half, and the octants above one are those whose box holds its box.  A    *)
(* tree is a record, and an insertion and a search for the nearest point    *)
(* are steps from tree to tree and from search to search, one for each call *)
(* or point of the code's recursion and loops.                             *)
(*                                                                         *)
(* A point is [pos, idx].  A point of the caller's list that is not in the  *)
(* tree yet has idx = -(i + 1) for its place i in that list, one that is    *)
(* has the number it got when it was stored.  A list of points is the set   *)
(* of them: in every list the stored ones come first, by their numbers, and *)
(* then the others as the caller has them.                                 *)
(***************************************************************************)
EXTENDS Integers, Sequences, FiniteSets

CONSTANTS
  MinRoot,    \* 0.01, the least extent of a new root
  MaxBucket   \* kMaxBucket

ASSUME OctreeAssumption ==
  MinRoot \in Nat \ {0} /\ MaxBucket \in Nat \ {0}

NoBox == [x |-> 0, extent |-> 0]

(* min_extent  min_extent_                                                  *)
(* bucket      bucket_size_                                                 *)
(* root        the box of root_, NoBox for a null pointer                   *)
(* leaves      the points of every octant that has no child array           *)
(* inner       the boxes of those that have one                             *)
(* bounds      the bounds of the points inserted, which the root is to hold *)
(* todo        the calls of CreateOctant and UpdateOctant still to be made: *)
(*             a box and the points that are for it                         *)
(* added       added_idxs                                                   *)
(* num         last_pts_num                                                 *)
EmptyTree(min_extent) ==
  [min_extent |-> min_extent, bucket |-> 1, root |-> NoBox, leaves |-> <<>>,
   inner |-> {}, bounds |-> <<>>, todo |-> {}, added |-> <<>>, num |-> 0]

Octants(t) == DOMAIN t.leaves \cup t.inner

TreePoints(t) == UNION {t.leaves[l] : l \in DOMAIN t.leaves}

\* The insertion is over.
Idle(t) == t.todo = {}

\* SetBucketSize
BucketSize(size) == IF size < MaxBucket THEN size ELSE MaxBucket

Dist(a, b) == IF a > b THEN a - b ELSE b - a

-----------------------------------------------------------------------------
(* Points and boxes *)

IsNew(p) == p.idx < 0

\* p comes before o in every list they are in.
Precedes(p, o) ==
  IF IsNew(p) THEN IsNew(o) /\ o.idx < p.idx ELSE IsNew(o) \/ p.idx < o.idx

FirstOf(pts, n) ==
  {p \in pts : Cardinality({o \in pts : Precedes(o, p)}) < n}

SideOf(box, pos) == IF pos > box.x THEN 1 ELSE 0

Child(box, side) ==
  LET half == box.extent \div 2
  IN  [x |-> IF side = 1 THEN box.x + half ELSE box.x - half, extent |-> half]

\* The box of o is part of that of a.
Within(o, a) == Dist(o.x, a.x) + o.extent <= a.extent

Above(t, o) == {a \in t.inner : a # o /\ Within(o, a)}

-----------------------------------------------------------------------------
(* The root *)

\* The bounds of the points are moved to even multiples of min_extent_, up to
\* one min_extent_ inwards: points may lie outside the root's box.
LowBound(v, min) ==
  LET f == v \div min
  IN  (IF f % 2 # 0 THEN f + 1 ELSE f) * min

HighBound(v, min) ==
  LET c == -((-v) \div min)
  IN  (IF c % 2 # 0 THEN c - 1 ELSE c) * min

RootExtent(low, high) ==
  LET extent == (high - low) \div 2
  IN  IF extent > MinRoot THEN extent ELSE MinRoot

RootOf(low, high) ==
  [x |-> low + (high - low) \div 2, extent |-> RootExtent(low, high)]

\* The code halves floats, exactly; halves are exact here too if the unit is so
\* fine that what halving leaves odd is too small to be split.
Exact(extent, min) ==
  \A d, n \in 1 .. extent : d * n = extent /\ d % 2 = 1 => d < 2 * min

\* Update(pts), which is Initialize for a tree without a root: u is t with all
\* of it still to be done.
StartUpdate(t, u, pts, bucket) ==
  \E first, last \in pts :
    /\ \A p \in pts : first.pos <= p.pos /\ p.pos <= last.pos
    /\ LET low == LowBound(first.pos, t.min_extent)
           high == HighBound(last.pos, t.min_extent)
           root == IF t.root = NoBox THEN RootOf(low, high) ELSE t.root
       IN  u = [t EXCEPT !.bucket = bucket, !.root = root, !.added = <<>>,
                         !.todo = {[box |-> root, points |-> pts]},
                         !.bounds = IF t.root = NoBox THEN <<>>
                                                      ELSE <<high, low>>]

Holds(root, v) == Dist(v, root.x) <= root.extent

Grown(t) == \A i \in DOMAIN t.bounds : Holds(t.root, t.bounds[i])

\* An octant twice as large that extends the root towards v
Parent(root, v) ==
  [x |-> IF v > root.x THEN root.x + root.extent ELSE root.x - root.extent,
   extent |-> 2 * root.extent]

\* The upper bound first, then the lower one
GrowRoot(t, u) ==
  \E i \in DOMAIN t.bounds :
    /\ ~Holds(t.root, t.bounds[i])
    /\ \A j \in 1 .. i - 1 : Holds(t.root, t.bounds[j])
    /\ LET root == Parent(t.root, t.bounds[i])
       IN  u = [t EXCEPT !.root = root, !.inner = @ \cup {root},
                         !.todo = {[c EXCEPT !.box = root] : c \in @}]

-----------------------------------------------------------------------------
(* Insertion.  A call of CreateOctant makes an octant and does with it what  *)
(* UpdateOctant does with a leaf that has no points yet.                    *)

\* Depth first and the low side first: of the calls to be made, whose boxes do
\* not overlap, the lowest.
IsNext(t, c) ==
  /\ c \in t.todo /\ Grown(t)
  /\ \A d \in t.todo : c.box.x <= d.box.x

Held(t, box) == IF box \in DOMAIN t.leaves THEN t.leaves[box] ELSE {}

\* A leaf with these points may and must split.
Splits(t, c) ==
  /\ Cardinality(Held(t, c.box)) + Cardinality(c.points) > t.bucket
  /\ c.box.extent >= 2 * t.min_extent

\* The points go to the sides they lie on; a side without an octant gets a new
\* one, a side without points keeps what it has.
CallsFor(box, pts) ==
  {[box |-> Child(box, side),
    points |-> {p \in pts : SideOf(box, p.pos) = side}] :
     side \in {SideOf(box, p.pos) : p \in pts}}

PassDown(t, u) ==
  \E c \in t.todo :
    /\ IsNext(t, c) /\ c.box \in t.inner
    /\ u = [t EXCEPT !.todo = (@ \ {c}) \cup CallsFor(c.box, c.points)]

\* Mutant of Regrouped: a split forgets the points the leaf had
NewOnly(t, c) == c.points

\* The points a leaf distributes when it splits
Regrouped(t, c) == Held(t, c.box) \cup c.points

SplitLeaf(t, u) ==
  \E c \in t.todo :
    /\ IsNext(t, c) /\ c.box \notin t.inner /\ Splits(t, c)
    /\ u = [t EXCEPT
              !.leaves = [l \in DOMAIN t.leaves \ {c.box} |-> t.leaves[l]],
              !.inner = @ \cup {c.box},
              !.todo = (@ \ {c}) \cup CallsFor(c.box, Regrouped(t, c))]

\* A point as it is in the tree: a new one gets the next number.
Stored(t, p) == IF IsNew(p) THEN [p EXCEPT !.idx = t.num] ELSE p

\* A leaf takes the first of the points.
TakePoint(t, u) ==
  \E c \in t.todo : \E p \in c.points :
    /\ IsNext(t, c) /\ c.box \notin t.inner /\ ~Splits(t, c)
    /\ Cardinality(Held(t, c.box)) < t.bucket
    /\ \A o \in c.points : o = p \/ Precedes(p, o)
    /\ u = [t EXCEPT
              !.leaves = [l \in DOMAIN t.leaves \cup {c.box} |->
                            IF l = c.box THEN Held(t, l) \cup {Stored(t, p)}
                                         ELSE t.leaves[l]],
              !.todo = (@ \ {c}) \cup {[c EXCEPT !.points = c.points \ {p}]},
              !.added = IF IsNew(p) THEN Append(@, -(p.idx + 1)) ELSE @,
              !.num = IF IsNew(p) THEN @ + 1 ELSE @]

\* What a leaf that does not split has no room for is dropped, all of it if the
\* leaf is full, be it because its points came when the bucket was larger.
EndLeaf(t, u) ==
  \E c \in t.todo :
    /\ IsNext(t, c) /\ c.box \notin t.inner /\ ~Splits(t, c)
    /\ c.points = {} \/ Cardinality(Held(t, c.box)) >= t.bucket
    /\ u = [t EXCEPT !.todo = @ \ {c}]

UpdateStep(t, u) ==
  \/ GrowRoot(t, u)
  \/ PassDown(t, u)
  \/ SplitLeaf(t, u)
  \/ TakePoint(t, u)
  \/ EndLeaf(t, u)

-----------------------------------------------------------------------------
(* Searches.  overlaps, contains and inside compare the ball of radius r     *)
(* around q with an octant's box.                                           *)

Overlaps(q, r, o) == 0 < r /\ Dist(q, o.x) - o.extent < r
ContainsBox(q, r, o) ==
  3 * o.extent * o.extent < r * r /\ Dist(q, o.x) + o.extent < r
Inside(q, r, o) == o.extent - Dist(q, o.x) >= r

\* The first points of a leaf, as many as the querying point's bucket size
Visible(t, l, bucket) == FirstOf(t.leaves[l], bucket)

\* The octants RadiusNeighbors is called for
Reached(t, q, r) ==
  {o \in Octants(t) :
     /\ \A a \in Above(t, o) : ~ContainsBox(q, r, a)
     /\ \A a \in {o} \cup Above(t, o) : a = t.root \/ Overlaps(q, r, a)}

\* Mutant of LeavesFound: an octant in the ball only gives its own points
OwnLeaf(t, o, q, r) == {o} \ t.inner

\* The leaves whose points a call looks at: GetLeafNodes if the octant is in
\* the ball, itself if it is a leaf
LeavesFound(t, o, q, r) ==
  {l \in DOMAIN t.leaves : l = o \/ (ContainsBox(q, r, o) /\ o \in Above(t, l))}

\* The distance is not looked at in an octant that is in the ball.
RadiusNeighbors(t, q, r, bucket) ==
  UNION {{p \in UNION {Visible(t, l, bucket) : l \in LeavesFound(t, o, q, r)} :
            p.pos # q /\ (ContainsBox(q, r, o) \/ Dist(p.pos, q) < r)} :
         o \in Reached(t, q, r)}

\* A search for the nearest point with a radius, KnnNeighbors for k = 1: best
\* is its heap, and calls what is still to be done of its calls, the innermost
\* first: visit an octant; try a sibling, which is visited if something nearer
\* may be there; leave an octant.
NoSearch == [q |-> 0, r |-> 0, best |-> {}, calls |-> <<>>]

StartNearest(t, q, r) ==
  [q |-> q, r |-> r, best |-> {},
   calls |-> <<[do |-> "visit", box |-> t.root]>>]

\* The search is over when the ball of the best distance is inside the octant.
IsDone(s, best, o) ==
  best # {} /\ \A b \in best : Inside(s.q, Dist(b.pos, s.q), o)

After(s, best, o) == IF IsDone(s, best, o) THEN <<>> ELSE Tail(s.calls)

\* A leaf's first point among the nearest that are nearer than the best so far
VisitLeaf(t, s, u) ==
  LET call == Head(s.calls)
      nearer == {p \in t.leaves[call.box] :
                   /\ p.pos # s.q /\ Dist(p.pos, s.q) <= s.r
                   /\ \A b \in s.best : Dist(p.pos, s.q) < Dist(b.pos, s.q)}
  IN  /\ call.do = "visit" /\ call.box \notin t.inner
      /\ \E best \in {{p} : p \in nearer} \cup {s.best} :
           /\ nearer = {} => best = s.best
           /\ nearer # {} =>
                \E p \in nearer :
                  /\ best = {p}
                  /\ \A o \in nearer :
                       \/ o = p
                       \/ Dist(p.pos, s.q) < Dist(o.pos, s.q)
                       \/ Dist(p.pos, s.q) = Dist(o.pos, s.q) /\ Precedes(p, o)
           /\ u = [s EXCEPT !.best = best, !.calls = After(s, best, call.box)]

\* The child the query is in first, then its sibling
VisitInner(t, s, u) ==
  LET call == Head(s.calls)
      own == SideOf(call.box, s.q)
      On(do, side) ==
        IF Child(call.box, side) \in Octants(t)
          THEN <<[do |-> do, box |-> Child(call.box, side)]>> ELSE <<>>
  IN  /\ call.do = "visit" /\ call.box \in t.inner
      /\ u = [s EXCEPT !.calls = On("visit", own) \o On("try", 1 - own)
                                 \o <<[do |-> "leave", box |-> call.box]>>
                                 \o Tail(@)]

\* An octant is looked into only if something nearer may be there.
MayBeNearer(s, o) ==
  /\ \A b \in s.best : Overlaps(s.q, Dist(b.pos, s.q), o)
  /\ Overlaps(s.q, s.r, o)

TryOther(s, u) ==
  LET call == Head(s.calls)
  IN  /\ call.do = "try"
      /\ u = [s EXCEPT !.calls =
                IF MayBeNearer(s, call.box)
                  THEN <<[call EXCEPT !.do = "visit"]>> \o Tail(@)
                  ELSE Tail(@)]

LeaveOctant(s, u) ==
  LET call == Head(s.calls)
  IN  /\ call.do = "leave"
      /\ u = [s EXCEPT !.calls = After(s, s.best, call.box)]

NearestStep(t, s, u) ==
  /\ s.calls # <<>>
  /\ \/ VisitLeaf(t, s, u)
     \/ VisitInner(t, s, u)
     \/ TryOther(s, u)
     \/ LeaveOctant(s, u)
=============================================================================
