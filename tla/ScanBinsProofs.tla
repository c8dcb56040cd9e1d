--------------------------- MODULE ScanBinsProofs ---------------------------
(***************************************************************************)
(* What ScanBins' runs check of the octree, the map and the thinning of a   *)
(* scan, for every message, resolution, bucket size, query and radius.  A   *)
(* tree is proved about as a value: which facts a step of an insertion or   *)
(* of a search for the nearest point keeps, whatever tree it is made on;    *)
(* the map's tree and that of a bin that is being thinned are two of them.  *)
(*                                                                         *)
(* TypesOK    the types of a tree, and that halving an octant is exact      *)
(* NearOK     points lie in the box of their leaf, or of the call that      *)
(*            brings them, or min_extent_ outside it                       *)
(* NumbersOK  every number is a place in the cloud and what it gets next    *)
(* BoxesOK    the boxes of octants are halves of one another               *)
(* SearchOK   nothing nearer than what a search has lies outside what it    *)
(*            has still to visit                                           *)
(***************************************************************************)
EXTENDS ScanBins, FiniteSetTheorems, SequenceTheorems, NaturalsInduction,
        WellFoundedInduction, TLAPS

Boxes == [x : Int, extent : Nat \ {0}]
Points == [pos : Int, idx : Int]

\* t has the fields of a tree, c those of a call.
IsTree(t) ==
  t = [min_extent |-> t.min_extent, bucket |-> t.bucket, root |-> t.root,
       leaves |-> t.leaves, inner |-> t.inner, bounds |-> t.bounds,
       todo |-> t.todo, added |-> t.added, num |-> t.num]

IsCall(c) == c = [box |-> c.box, points |-> c.points]

FieldsOK(t) ==
  /\ IsTree(t)
  /\ t.min_extent \in Nat \ {0} /\ t.bucket \in 1 .. MaxBucket
  /\ t.root \in Boxes \cup {NoBox} /\ t.inner \subseteq Boxes
  /\ t.bounds \in Seq(Int) /\ t.added \in Seq(Nat) /\ t.num \in Nat

LeafOK(pts) ==
  /\ pts \subseteq Points /\ IsFiniteSet(pts) /\ pts # {}
  /\ Cardinality(pts) <= MaxBucket
  /\ \A p \in pts : ~IsNew(p)

LeavesOK(t) ==
  DOMAIN t.leaves \subseteq Boxes /\ \A l \in DOMAIN t.leaves : LeafOK(t.leaves[l])

CallOK(c) ==
  IsCall(c) /\ c.box \in Boxes /\ c.points \subseteq Points /\ IsFiniteSet(c.points)

CallsOK(t) == \A c \in t.todo : CallOK(c)

\* Halves are exact down to octants that do not split, and no other is halved.
ExtentsOK(t) ==
  /\ t.root # NoBox => Exact(t.root.extent, t.min_extent)
  /\ \A o \in Octants(t) : Exact(o.extent, t.min_extent)
  /\ \A c \in t.todo : Exact(c.box.extent, t.min_extent)
  /\ \A a \in t.inner : a.extent % 2 = 0

\* There is nothing below a null pointer.
RootOK(t) ==
  t.root = NoBox =>
    t.bounds = <<>> /\ DOMAIN t.leaves = {} /\ t.inner = {} /\ t.todo = {}

\* The types of a tree
TypesOK(t) ==
  FieldsOK(t) /\ LeavesOK(t) /\ CallsOK(t) /\ ExtentsOK(t) /\ RootOK(t)

-----------------------------------------------------------------------------
(* What the steps do with the fields *)

\* GrowRoot: the root, the inner octants and the call get a larger box.
LEMMA GrowFields ==
  ASSUME NEW t, NEW u, IsTree(t), \A c \in t.todo : IsCall(c), GrowRoot(t, u)
  PROVE  /\ IsTree(u)
         /\ \E i \in DOMAIN t.bounds :
              ~Holds(t.root, t.bounds[i]) /\ u.root = Parent(t.root, t.bounds[i])
         /\ u.inner = t.inner \cup {u.root}
         /\ u.todo = {[box |-> u.root, points |-> c.points] : c \in t.todo}
         /\ u.min_extent = t.min_extent /\ u.bucket = t.bucket
         /\ u.leaves = t.leaves /\ u.bounds = t.bounds
         /\ u.added = t.added /\ u.num = t.num
<1>1. PICK i \in DOMAIN t.bounds :
        /\ ~Holds(t.root, t.bounds[i])
        /\ u = [t EXCEPT !.root = Parent(t.root, t.bounds[i]),
                         !.inner = @ \cup {Parent(t.root, t.bounds[i])},
                         !.todo = {[c EXCEPT !.box = Parent(t.root, t.bounds[i])] :
                                     c \in @}]
  BY DEF GrowRoot
<1> DEFINE root == Parent(t.root, t.bounds[i])
<1> HIDE DEF root
<1>2. u = [t EXCEPT !.root = root, !.inner = t.inner \cup {root},
                    !.todo = {[c EXCEPT !.box = root] : c \in t.todo}]
  BY <1>1 DEF root
<1>3. /\ u.root = root /\ u.inner = t.inner \cup {root}
      /\ u.todo = {[c EXCEPT !.box = root] : c \in t.todo}
  BY <1>2 DEF IsTree
<1>4. /\ u.min_extent = t.min_extent /\ u.bucket = t.bucket
      /\ u.leaves = t.leaves /\ u.bounds = t.bounds
      /\ u.added = t.added /\ u.num = t.num
  BY <1>2 DEF IsTree
<1>5. IsTree(u)
  BY <1>2 DEF IsTree
<1>6. \A c \in t.todo : [c EXCEPT !.box = root] = [box |-> root, points |-> c.points]
  BY DEF IsCall
<1>7. u.todo = {[box |-> root, points |-> c.points] : c \in t.todo}
  <2>1. ASSUME NEW x PROVE x \in {[c EXCEPT !.box = root] : c \in t.todo}
                           <=> \E c \in t.todo : x = [box |-> root, points |-> c.points]
    BY <1>6, Zenon
  <2> QED
    BY <1>3, <2>1, Zenon
<1>8. ~Holds(t.root, t.bounds[i]) /\ u.root = Parent(t.root, t.bounds[i])
  BY <1>1, <1>3 DEF root
<1> QED
  BY <1>3, <1>4, <1>5, <1>7, <1>8

\* PassDown: a call is replaced by calls for the children.
LEMMA PassFields ==
  ASSUME NEW t, NEW u, IsTree(t), PassDown(t, u)
  PROVE  /\ IsTree(u)
         /\ \E c \in t.todo :
              /\ IsNext(t, c) /\ c.box \in t.inner
              /\ u.todo = (t.todo \ {c}) \cup CallsFor(c.box, c.points)
         /\ u.min_extent = t.min_extent /\ u.bucket = t.bucket
         /\ u.root = t.root /\ u.leaves = t.leaves /\ u.inner = t.inner
         /\ u.bounds = t.bounds /\ u.added = t.added /\ u.num = t.num
<1>1. PICK c \in t.todo :
        /\ IsNext(t, c) /\ c.box \in t.inner
        /\ u = [t EXCEPT !.todo = (t.todo \ {c}) \cup CallsFor(c.box, c.points)]
  BY DEF PassDown
<1>2. u.todo = (t.todo \ {c}) \cup CallsFor(c.box, c.points)
  BY <1>1 DEF IsTree
<1>3. /\ u.min_extent = t.min_extent /\ u.bucket = t.bucket
      /\ u.root = t.root /\ u.leaves = t.leaves /\ u.inner = t.inner
      /\ u.bounds = t.bounds /\ u.added = t.added /\ u.num = t.num
  BY <1>1 DEF IsTree
<1>4. IsTree(u)
  BY <1>1 DEF IsTree
<1> QED
  BY <1>1, <1>2, <1>3, <1>4

\* SplitLeaf: a leaf becomes inner, its points go into calls for the children.
LEMMA SplitFields ==
  ASSUME NEW t, NEW u, IsTree(t), SplitLeaf(t, u)
  PROVE  /\ IsTree(u)
         /\ \E c \in t.todo :
              /\ IsNext(t, c) /\ c.box \notin t.inner /\ Splits(t, c)
              /\ DOMAIN u.leaves = DOMAIN t.leaves \ {c.box}
              /\ \A l \in DOMAIN u.leaves : u.leaves[l] = t.leaves[l]
              /\ u.inner = t.inner \cup {c.box}
              /\ u.todo = (t.todo \ {c}) \cup CallsFor(c.box, Regrouped(t, c))
         /\ u.min_extent = t.min_extent /\ u.bucket = t.bucket
         /\ u.root = t.root
         /\ u.bounds = t.bounds /\ u.added = t.added /\ u.num = t.num
<1>1. PICK c \in t.todo :
        /\ IsNext(t, c) /\ c.box \notin t.inner /\ Splits(t, c)
        /\ u = [t EXCEPT
                  !.leaves = [l \in DOMAIN t.leaves \ {c.box} |-> t.leaves[l]],
                  !.inner = t.inner \cup {c.box},
                  !.todo = (t.todo \ {c}) \cup CallsFor(c.box, Regrouped(t, c))]
  BY DEF SplitLeaf
<1> DEFINE leaves == [l \in DOMAIN t.leaves \ {c.box} |-> t.leaves[l]]
<1>2. DOMAIN leaves = DOMAIN t.leaves \ {c.box} /\ \A l \in DOMAIN leaves : leaves[l] = t.leaves[l]
  OBVIOUS
<1>0. u = [t EXCEPT !.leaves = leaves,
                  !.inner = t.inner \cup {c.box},
                  !.todo = (t.todo \ {c}) \cup CallsFor(c.box, Regrouped(t, c))]
  BY <1>1
<1> HIDE DEF leaves
<1>3. /\ u.todo = (t.todo \ {c}) \cup CallsFor(c.box, Regrouped(t, c))
      /\ u.inner = t.inner \cup {c.box} /\ u.leaves = leaves
  BY <1>0 DEF IsTree
<1>4. /\ u.min_extent = t.min_extent /\ u.bucket = t.bucket
      /\ u.root = t.root
      /\ u.bounds = t.bounds /\ u.added = t.added /\ u.num = t.num
  BY <1>0 DEF IsTree
<1>5. IsTree(u)
  BY <1>0 DEF IsTree
<1>6. /\ DOMAIN u.leaves = DOMAIN t.leaves \ {c.box}
      /\ \A l \in DOMAIN u.leaves : u.leaves[l] = t.leaves[l]
  BY <1>2, <1>3
<1> QED
  BY <1>1, <1>3, <1>4, <1>5, <1>6

\* TakePoint: a call loses a point and a leaf gets it.
LEMMA TakeFields ==
  ASSUME NEW t, NEW u, IsTree(t), \A c \in t.todo : IsCall(c), TakePoint(t, u)
  PROVE  /\ IsTree(u)
         /\ \E c \in t.todo : \E p \in c.points :
              /\ IsNext(t, c) /\ c.box \notin t.inner /\ ~Splits(t, c)
              /\ Cardinality(Held(t, c.box)) < t.bucket
              /\ DOMAIN u.leaves = DOMAIN t.leaves \cup {c.box}
              /\ u.leaves[c.box] = Held(t, c.box) \cup {Stored(t, p)}
              /\ \A l \in DOMAIN t.leaves : l # c.box => u.leaves[l] = t.leaves[l]
              /\ u.todo = (t.todo \ {c}) \cup {[box |-> c.box, points |-> c.points \ {p}]}
              /\ u.added = IF IsNew(p) THEN Append(t.added, -(p.idx + 1)) ELSE t.added
              /\ u.num = IF IsNew(p) THEN t.num + 1 ELSE t.num
         /\ u.min_extent = t.min_extent /\ u.bucket = t.bucket
         /\ u.root = t.root /\ u.inner = t.inner /\ u.bounds = t.bounds
<1> DEFINE Leaves(c, p) == [l \in DOMAIN t.leaves \cup {c.box} |->
                              IF l = c.box THEN Held(t, l) \cup {Stored(t, p)} ELSE t.leaves[l]]
           Added(p) == IF IsNew(p) THEN Append(t.added, -(p.idx + 1)) ELSE t.added
           Num(p) == IF IsNew(p) THEN t.num + 1 ELSE t.num
           Todo(c, p) == (t.todo \ {c}) \cup {[c EXCEPT !.points = c.points \ {p}]}
<1>0. PICK c \in t.todo : \E p \in c.points :
        /\ IsNext(t, c) /\ c.box \notin t.inner /\ ~Splits(t, c)
        /\ Cardinality(Held(t, c.box)) < t.bucket
        /\ u = [t EXCEPT !.leaves = Leaves(c, p), !.todo = Todo(c, p),
                         !.added = Added(p), !.num = Num(p)]
  BY DEF TakePoint
<1>1. PICK p \in c.points :
        /\ IsNext(t, c) /\ c.box \notin t.inner /\ ~Splits(t, c)
        /\ Cardinality(Held(t, c.box)) < t.bucket
        /\ u = [t EXCEPT !.leaves = Leaves(c, p), !.todo = Todo(c, p),
                         !.added = Added(p), !.num = Num(p)]
  BY <1>0
<1>2. /\ DOMAIN Leaves(c, p) = DOMAIN t.leaves \cup {c.box}
      /\ Leaves(c, p)[c.box] = Held(t, c.box) \cup {Stored(t, p)}
      /\ \A l \in DOMAIN t.leaves : l # c.box => Leaves(c, p)[l] = t.leaves[l]
  OBVIOUS
<1>3. Todo(c, p) = (t.todo \ {c}) \cup {[box |-> c.box, points |-> c.points \ {p}]}
  BY DEF IsCall
<1>i. /\ Added(p) = IF IsNew(p) THEN Append(t.added, -(p.idx + 1)) ELSE t.added
      /\ Num(p) = IF IsNew(p) THEN t.num + 1 ELSE t.num
  OBVIOUS
<1> HIDE DEF Leaves, Added, Num, Todo
<1>4. /\ u.leaves = Leaves(c, p) /\ u.todo = Todo(c, p)
      /\ u.added = Added(p) /\ u.num = Num(p)
  BY <1>1 DEF IsTree
<1>5. /\ u.min_extent = t.min_extent /\ u.bucket = t.bucket
      /\ u.root = t.root /\ u.inner = t.inner /\ u.bounds = t.bounds
  BY <1>1 DEF IsTree
<1>6. IsTree(u)
  BY <1>1 DEF IsTree
<1>7. /\ DOMAIN u.leaves = DOMAIN t.leaves \cup {c.box}
      /\ u.leaves[c.box] = Held(t, c.box) \cup {Stored(t, p)}
      /\ \A l \in DOMAIN t.leaves : l # c.box => u.leaves[l] = t.leaves[l]
  BY <1>2, <1>4
<1>8. /\ u.todo = (t.todo \ {c}) \cup {[box |-> c.box, points |-> c.points \ {p}]}
      /\ u.added = IF IsNew(p) THEN Append(t.added, -(p.idx + 1)) ELSE t.added
      /\ u.num = IF IsNew(p) THEN t.num + 1 ELSE t.num
  BY <1>3, <1>4, <1>i
<1> QED
  BY <1>1, <1>5, <1>6, <1>7, <1>8, Zenon

\* EndLeaf: a call is over.
LEMMA EndFields ==
  ASSUME NEW t, NEW u, IsTree(t), EndLeaf(t, u)
  PROVE  /\ IsTree(u)
         /\ \E c \in t.todo :
              /\ IsNext(t, c) /\ c.box \notin t.inner /\ ~Splits(t, c)
              /\ c.points = {} \/ Cardinality(Held(t, c.box)) >= t.bucket
              /\ u.todo = t.todo \ {c}
         /\ u.min_extent = t.min_extent /\ u.bucket = t.bucket
         /\ u.root = t.root /\ u.leaves = t.leaves /\ u.inner = t.inner
         /\ u.bounds = t.bounds /\ u.added = t.added /\ u.num = t.num
<1>1. PICK c \in t.todo :
        /\ IsNext(t, c) /\ c.box \notin t.inner /\ ~Splits(t, c)
        /\ c.points = {} \/ Cardinality(Held(t, c.box)) >= t.bucket
        /\ u = [t EXCEPT !.todo = t.todo \ {c}]
  BY DEF EndLeaf
<1>2. u.todo = t.todo \ {c}
  BY <1>1 DEF IsTree
<1>3. /\ u.min_extent = t.min_extent /\ u.bucket = t.bucket
      /\ u.root = t.root /\ u.leaves = t.leaves /\ u.inner = t.inner
      /\ u.bounds = t.bounds /\ u.added = t.added /\ u.num = t.num
  BY <1>1 DEF IsTree
<1>4. IsTree(u)
  BY <1>1 DEF IsTree
<1> QED
  BY <1>1, <1>2, <1>3, <1>4

\* StartUpdate: one call for the root with all the points.
LEMMA StartFields ==
  ASSUME NEW t, NEW u, NEW pts, NEW bucket, IsTree(t), StartUpdate(t, u, pts, bucket)
  PROVE  /\ IsTree(u)
         /\ \E first, last \in pts :
              LET low == LowBound(first.pos, t.min_extent)
                  high == HighBound(last.pos, t.min_extent)
              IN  /\ \A p \in pts : first.pos <= p.pos /\ p.pos <= last.pos
                  /\ u.root = IF t.root = NoBox THEN RootOf(low, high) ELSE t.root
                  /\ u.bounds = IF t.root = NoBox THEN <<>> ELSE <<high, low>>
         /\ u.todo = {[box |-> u.root, points |-> pts]}
         /\ u.min_extent = t.min_extent /\ u.bucket = bucket /\ u.added = <<>>
         /\ u.leaves = t.leaves /\ u.inner = t.inner /\ u.num = t.num
<1> DEFINE Low(p) == LowBound(p.pos, t.min_extent)
           High(p) == HighBound(p.pos, t.min_extent)
           Root(p, o) == IF t.root = NoBox THEN RootOf(Low(p), High(o)) ELSE t.root
           Limits(p, o) == IF t.root = NoBox THEN <<>> ELSE <<High(o), Low(p)>>
<1>1. PICK first \in pts, last \in pts :
        /\ \A p \in pts : first.pos <= p.pos /\ p.pos <= last.pos
        /\ u = [t EXCEPT !.bucket = bucket, !.root = Root(first, last), !.added = <<>>,
                         !.todo = {[box |-> Root(first, last), points |-> pts]},
                         !.bounds = Limits(first, last)]
  BY DEF StartUpdate
<1>2. /\ Root(first, last) = IF t.root = NoBox THEN RootOf(Low(first), High(last)) ELSE t.root
      /\ Limits(first, last) = IF t.root = NoBox THEN <<>> ELSE <<High(last), Low(first)>>
  OBVIOUS
<1> HIDE DEF Root, Limits
<1>3. /\ u.root = Root(first, last) /\ u.bounds = Limits(first, last)
      /\ u.todo = {[box |-> u.root, points |-> pts]}
      /\ u.bucket = bucket /\ u.added = <<>>
  BY <1>1 DEF IsTree
<1>4. /\ u.min_extent = t.min_extent
      /\ u.leaves = t.leaves /\ u.inner = t.inner /\ u.num = t.num
  BY <1>1 DEF IsTree
<1>5. IsTree(u)
  BY <1>1 DEF IsTree
<1> QED
  BY <1>1, <1>2, <1>3, <1>4, <1>5

-----------------------------------------------------------------------------
(* Arithmetic *)

\* An octant that is split has an even extent ...
LEMMA ExactEven ==
  ASSUME NEW e \in Nat \ {0}, NEW min \in Nat \ {0}, Exact(e, min), e >= 2 * min
  PROVE  e % 2 = 0
<1>1. SUFFICES ASSUME e % 2 # 0 PROVE FALSE
  OBVIOUS
<1>2. e % 2 = 1
  BY <1>1
<1>3. e \in 1 .. e /\ 1 \in 1 .. e /\ e * 1 = e
  OBVIOUS
<1>4. e < 2 * min
  BY <1>2, <1>3 DEF Exact
<1> QED
  BY <1>4

\* ... and its children are exact as well;
LEMMA ExactHalf ==
  ASSUME NEW e \in Nat \ {0}, NEW min \in Nat \ {0}, Exact(e, min), e % 2 = 0
  PROVE  /\ e \div 2 \in Nat \ {0} /\ 2 * (e \div 2) = e
         /\ Exact(e \div 2, min)
<1> DEFINE h == e \div 2
<1>1. h \in Nat \ {0} /\ 2 * h = e
  OBVIOUS
<1> HIDE DEF h
<1>2. ASSUME NEW d \in 1 .. h, NEW n \in 1 .. h, d * n = h, d % 2 = 1
      PROVE  d < 2 * min
  <2>1. d * (2 * n) = 2 * (d * n)
    OBVIOUS
  <2>2. d * (2 * n) = e
    BY <2>1, <1>2, <1>1
  <2>3. d \in 1 .. e /\ 2 * n \in 1 .. e
    BY <1>1
  <2> QED
    BY <2>2, <2>3, <1>2 DEF Exact
<1>3. Exact(h, min)
  BY <1>2 DEF Exact
<1> QED
  BY <1>1, <1>3 DEF h

\* so is what a root grows to.
LEMMA ExactDouble ==
  ASSUME NEW e \in Nat \ {0}, NEW min \in Nat \ {0}, Exact(e, min)
  PROVE  Exact(2 * e, min)
<1>1. ASSUME NEW d \in 1 .. 2 * e, NEW n \in 1 .. 2 * e, d * n = 2 * e, d % 2 = 1
      PROVE  d < 2 * min
  <2>1. PICK m \in Nat : d = 2 * m + 1
    <3>1. d = 2 * (d \div 2) + 1 /\ d \div 2 \in Nat
      BY <1>1
    <3> QED
      BY <3>1
  <2>2. (2 * m + 1) * n = 2 * (m * n) + n
    OBVIOUS
  <2>3. m * n \in Int
    OBVIOUS
  <2>4. n = 2 * (e - m * n)
    BY <1>1, <2>1, <2>2, <2>3
  <2>5. PICK k \in Int : n = 2 * k
    <3> DEFINE k == e - m * n
    <3>1. k \in Int /\ n = 2 * k
      BY <2>3, <2>4
    <3> HIDE DEF k
    <3> QED
      BY <3>1
  <2>6. d * (2 * k) = 2 * (d * k) /\ d * k \in Int
    OBVIOUS
  <2>7. d * k = e
    BY <1>1, <2>5, <2>6
  <2>8. k \in 1 .. n
    BY <2>5
  <2>9. d <= d * k /\ k <= d * k
    BY <2>8
  <2> QED
    BY <2>7, <2>8, <2>9, <1>1 DEF Exact
<1> QED
  BY <1>1 DEF Exact

\* Half the width of a multiple of two
LEMMA EvenMultiple ==
  ASSUME NEW f \in Int, f % 2 = 0, NEW min \in Nat \ {0}
  PROVE  \E k \in Int : f * min = 2 * (k * min)
<1>1. PICK k \in Int : f = 2 * k
  <2>1. f = 2 * (f \div 2) /\ f \div 2 \in Int
    OBVIOUS
  <2> QED
    BY <2>1
<1>2. (2 * k) * min = 2 * (k * min)
  OBVIOUS
<1> QED
  BY <1>1, <1>2

\* The bounds are at most min_extent_ from what they bound, and the difference
\* of two of them halves (ioctree.h:582-592).
LEMMA LowBoundNear ==
  ASSUME NEW v \in Int, NEW min \in Nat \ {0}
  PROVE  /\ LowBound(v, min) \in Int
         /\ v - min <= LowBound(v, min) /\ LowBound(v, min) <= v + min
         /\ \E k \in Int : LowBound(v, min) = 2 * (k * min)
<1> DEFINE f == v \div min
           g == IF f % 2 # 0 THEN f + 1 ELSE f
<1>1. f \in Int /\ f * min <= v /\ v < (f + 1) * min
  OBVIOUS
<1> HIDE DEF f
<1>2. g \in Int /\ g % 2 = 0 /\ g \in {f, f + 1}
  BY <1>1
<1>3. (f + 1) * min = f * min + min /\ f * min \in Int
  BY <1>1
<1>4. LowBound(v, min) = g * min
  BY DEF LowBound, f
<1> HIDE DEF g
<1>5. g * min \in {f * min, f * min + min}
  BY <1>1, <1>2, <1>3
<1> QED
  BY <1>1, <1>2, <1>3, <1>4, <1>5, EvenMultiple

\* The upper bound, as the lower one.
LEMMA HighBoundNear ==
  ASSUME NEW v \in Int, NEW min \in Nat \ {0}
  PROVE  /\ HighBound(v, min) \in Int
         /\ v - min <= HighBound(v, min) /\ HighBound(v, min) <= v + min
         /\ \E k \in Int : HighBound(v, min) = 2 * (k * min)
<1> DEFINE f == (-v) \div min
           c == -f
           g == IF c % 2 # 0 THEN c - 1 ELSE c
<1>1. f \in Int /\ f * min <= -v /\ -v < (f + 1) * min
  OBVIOUS
<1> HIDE DEF f
<1>3. c * min = -(f * min) /\ (c - 1) * min = c * min - min /\ f * min \in Int
      /\ (f + 1) * min = f * min + min
  BY <1>1
<1>4. HighBound(v, min) = g * min
  BY DEF HighBound, f
<1>2. g \in Int /\ g % 2 = 0 /\ g \in {c, c - 1} /\ c \in Int
  BY <1>1
<1> HIDE DEF g, c
<1>5. g * min \in {c * min, c * min - min}
  BY <1>2, <1>3
<1> QED
  BY <1>1, <1>2, <1>3, <1>4, <1>5, EvenMultiple

-----------------------------------------------------------------------------
(* Types *)

\* The box of a child
LEMMA ChildBox ==
  ASSUME NEW box \in Boxes, box.extent % 2 = 0, NEW side \in {0, 1}
  PROVE  /\ Child(box, side) \in Boxes
         /\ Child(box, side).extent = box.extent \div 2
         /\ 2 * Child(box, side).extent = box.extent
         /\ Child(box, side).x = IF side = 1 THEN box.x + Child(box, side).extent
                                             ELSE box.x - Child(box, side).extent
<1> DEFINE h == box.extent \div 2
<1>1. h \in Nat \ {0} /\ 2 * h = box.extent
  BY DEF Boxes
<1>2. Child(box, side) = [x |-> IF side = 1 THEN box.x + h ELSE box.x - h, extent |-> h]
  BY DEF Child
<1> HIDE DEF h
<1>3. Child(box, side).extent = h /\ Child(box, side).x = IF side = 1 THEN box.x + h ELSE box.x - h
  BY <1>2
<1>4. Child(box, side) \in Boxes
  BY <1>1, <1>2 DEF Boxes
<1> QED
  BY <1>1, <1>3, <1>4 DEF h

\* One more element counts at most one more.
LEMMA OneMore ==
  ASSUME NEW S, NEW e, IsFiniteSet(S)
  PROVE  /\ IsFiniteSet(S \cup {e}) /\ Cardinality(S) \in Nat
         /\ Cardinality(S \cup {e}) \in Nat
         /\ Cardinality(S \cup {e}) <= Cardinality(S) + 1
<1>1. Cardinality(S \cup {e}) \in {Cardinality(S), Cardinality(S) + 1}
      /\ IsFiniteSet(S \cup {e})
  BY FS_AddElement
<1> QED
  BY <1>1, FS_CardinalityType

\* What a leaf holds, or would hold if there were one
LEMMA HeldOK ==
  ASSUME NEW t, LeavesOK(t), NEW box
  PROVE  /\ Held(t, box) \subseteq Points /\ IsFiniteSet(Held(t, box))
         /\ Cardinality(Held(t, box)) \in Nat /\ Cardinality(Held(t, box)) <= MaxBucket
         /\ \A p \in Held(t, box) : ~IsNew(p)
<1>1. CASE box \in DOMAIN t.leaves
  <2>1. Held(t, box) = t.leaves[box] /\ LeafOK(t.leaves[box])
    BY <1>1 DEF Held, LeavesOK
  <2> QED
    BY <2>1, FS_CardinalityType DEF LeafOK
<1>2. CASE box \notin DOMAIN t.leaves
  <2>1. Held(t, box) = {}
    BY <1>2 DEF Held
  <2> QED
    BY <2>1, FS_EmptySet, OctreeAssumption
<1> QED
  BY <1>1, <1>2

\* The calls for the children are calls, and every point is in one of them.
LEMMA CallsForOK ==
  ASSUME NEW box \in Boxes, box.extent % 2 = 0,
         NEW min \in Nat \ {0}, Exact(box.extent, min),
         NEW pts \in SUBSET Points, IsFiniteSet(pts)
  PROVE  /\ \A d \in CallsFor(box, pts) :
              /\ CallOK(d) /\ Exact(d.box.extent, min)
              /\ \E side \in {0, 1} :
                   /\ d.box = Child(box, side)
                   /\ d.points = {p \in pts : SideOf(box, p.pos) = side}
         /\ \A p \in pts : \E d \in CallsFor(box, pts) : p \in d.points
<1>1. ASSUME NEW d \in CallsFor(box, pts)
      PROVE  /\ CallOK(d) /\ Exact(d.box.extent, min)
             /\ \E side \in {0, 1} :
                  /\ d.box = Child(box, side)
                  /\ d.points = {p \in pts : SideOf(box, p.pos) = side}
  <2>1. PICK side \in {SideOf(box, p.pos) : p \in pts} :
          d = [box |-> Child(box, side), points |-> {p \in pts : SideOf(box, p.pos) = side}]
    BY DEF CallsFor
  <2>2. side \in {0, 1}
    BY DEF SideOf
  <2>3. IsFiniteSet({p \in pts : SideOf(box, p.pos) = side})
    BY FS_Subset
  <2>4. CallOK(d)
    BY <2>1, <2>2, <2>3, ChildBox DEF CallOK, IsCall
  <2>5. Exact(d.box.extent, min)
    BY <2>1, <2>2, ChildBox, ExactHalf DEF Boxes
  <2> QED
    BY <2>1, <2>2, <2>4, <2>5
<1>2. ASSUME NEW p \in pts
      PROVE  \E d \in CallsFor(box, pts) : p \in d.points
  <2> DEFINE side == SideOf(box, p.pos)
             d == [box |-> Child(box, side), points |-> {o \in pts : SideOf(box, o.pos) = side}]
  <2>1. d \in CallsFor(box, pts)
    BY DEF CallsFor
  <2>2. p \in d.points
    OBVIOUS
  <2> QED
    BY <2>1, <2>2
<1> QED
  BY <1>1, <1>2

\* The types, step by step: GrowRoot
LEMMA GrowTypes ==
  ASSUME NEW t, NEW u, TypesOK(t), GrowRoot(t, u)
  PROVE  TypesOK(u)
<1> USE DEF TypesOK
<1>1. IsTree(t) /\ \A c \in t.todo : IsCall(c)
  BY DEF FieldsOK, CallsOK, CallOK
<1>2. PICK i \in DOMAIN t.bounds :
        ~Holds(t.root, t.bounds[i]) /\ u.root = Parent(t.root, t.bounds[i])
  BY <1>1, GrowFields
<1>3. /\ IsTree(u) /\ u.inner = t.inner \cup {u.root}
      /\ u.todo = {[box |-> u.root, points |-> c.points] : c \in t.todo}
      /\ u.min_extent = t.min_extent /\ u.bucket = t.bucket
      /\ u.leaves = t.leaves /\ u.bounds = t.bounds
      /\ u.added = t.added /\ u.num = t.num
  BY <1>1, GrowFields
<1>4. t.root \in Boxes
  <2>1. t.bounds # <<>>
    BY <1>2
  <2> QED
    BY <2>1 DEF FieldsOK, RootOK
<1>5. u.root \in Boxes /\ u.root.extent = 2 * t.root.extent /\ u.root # NoBox
  BY <1>2, <1>4 DEF Parent, Boxes, NoBox
<1>6. FieldsOK(u)
  BY <1>3, <1>5 DEF FieldsOK
<1>7. LeavesOK(u)
  BY <1>3 DEF LeavesOK
<1>8. CallsOK(u)
  BY <1>3, <1>5 DEF CallsOK, CallOK, IsCall
<1>9. Exact(u.root.extent, t.min_extent) /\ u.root.extent % 2 = 0
  <2>1. t.root # NoBox
    BY <1>4 DEF Boxes, NoBox
  <2>2. /\ t.root.extent \in Nat \ {0} /\ t.min_extent \in Nat \ {0}
        /\ Exact(t.root.extent, t.min_extent)
    BY <1>4, <2>1 DEF ExtentsOK, FieldsOK, Boxes
  <2>3. (2 * t.root.extent) % 2 = 0
    BY <2>2
  <2> QED
    BY <1>5, <2>2, <2>3, ExactDouble
<1>10. ExtentsOK(u)
  BY <1>3, <1>9 DEF ExtentsOK, Octants
<1>11. RootOK(u)
  BY <1>5 DEF RootOK
<1> QED
  BY <1>6, <1>7, <1>8, <1>10, <1>11

\* PassDown
LEMMA PassTypes ==
  ASSUME NEW t, NEW u, TypesOK(t), PassDown(t, u)
  PROVE  TypesOK(u)
<1> USE DEF TypesOK
<1>1. IsTree(t)
  BY DEF FieldsOK
<1>2. PICK c \in t.todo :
        c.box \in t.inner /\ u.todo = (t.todo \ {c}) \cup CallsFor(c.box, c.points)
  BY <1>1, PassFields
<1>3. /\ IsTree(u) /\ u.min_extent = t.min_extent /\ u.bucket = t.bucket
      /\ u.root = t.root /\ u.leaves = t.leaves /\ u.inner = t.inner
      /\ u.bounds = t.bounds /\ u.added = t.added /\ u.num = t.num
  BY <1>1, PassFields
<1>4. /\ CallOK(c) /\ c.box.extent % 2 = 0 /\ Exact(c.box.extent, t.min_extent)
      /\ t.min_extent \in Nat \ {0}
  BY <1>2 DEF CallsOK, ExtentsOK, FieldsOK
<1>5. \A d \in CallsFor(c.box, c.points) : CallOK(d) /\ Exact(d.box.extent, t.min_extent)
  BY <1>4, CallsForOK DEF CallOK
<1>6. FieldsOK(u) /\ LeavesOK(u)
  BY <1>3 DEF FieldsOK, LeavesOK
<1>7. CallsOK(u)
  BY <1>2, <1>5 DEF CallsOK
<1>8. ExtentsOK(u)
  BY <1>2, <1>3, <1>5 DEF ExtentsOK, Octants
<1>9. RootOK(u)
  BY <1>2, <1>3 DEF RootOK
<1> QED
  BY <1>6, <1>7, <1>8, <1>9

\* A leaf that splits is wide enough for two children.
LEMMA SplitsEven ==
  ASSUME NEW t, TypesOK(t), NEW c \in t.todo, Splits(t, c)
  PROVE  c.box.extent % 2 = 0
<1>1. /\ c.box.extent \in Nat \ {0} /\ t.min_extent \in Nat \ {0}
      /\ Exact(c.box.extent, t.min_extent) /\ c.box.extent >= 2 * t.min_extent
  BY DEF TypesOK, FieldsOK, CallsOK, CallOK, ExtentsOK, Splits, Boxes
<1> QED
  BY <1>1, ExactEven

\* SplitLeaf
LEMMA SplitTypes ==
  ASSUME NEW t, NEW u, TypesOK(t), SplitLeaf(t, u)
  PROVE  TypesOK(u)
<1>1. IsTree(t)
  BY DEF FieldsOK, TypesOK
<1>2. PICK c \in t.todo :
        /\ Splits(t, c)
        /\ DOMAIN u.leaves = DOMAIN t.leaves \ {c.box}
        /\ \A l \in DOMAIN u.leaves : u.leaves[l] = t.leaves[l]
        /\ u.inner = t.inner \cup {c.box}
        /\ u.todo = (t.todo \ {c}) \cup CallsFor(c.box, Regrouped(t, c))
  BY <1>1, SplitFields
<1>3. /\ IsTree(u) /\ u.min_extent = t.min_extent /\ u.bucket = t.bucket
      /\ u.root = t.root
      /\ u.bounds = t.bounds /\ u.added = t.added /\ u.num = t.num
  BY <1>1, SplitFields
<1>4. c.box.extent % 2 = 0
  BY <1>2, SplitsEven
<1>5. /\ CallOK(c) /\ Exact(c.box.extent, t.min_extent)
      /\ t.min_extent \in Nat \ {0}
  BY DEF CallsOK, ExtentsOK, FieldsOK, TypesOK
<1>6. Regrouped(t, c) \in SUBSET Points /\ IsFiniteSet(Regrouped(t, c))
  BY <1>5, HeldOK, FS_Union DEF Regrouped, CallOK, TypesOK
<1>7. \A d \in CallsFor(c.box, Regrouped(t, c)) : CallOK(d) /\ Exact(d.box.extent, t.min_extent)
  BY <1>4, <1>5, <1>6, CallsForOK DEF CallOK
<1>8. FieldsOK(u)
  BY <1>2, <1>3, <1>5 DEF FieldsOK, CallOK, TypesOK
<1>9. LeavesOK(u)
  BY <1>2 DEF LeavesOK, TypesOK
<1>10. CallsOK(u)
  BY <1>2, <1>7 DEF CallsOK, TypesOK
<1>11. ExtentsOK(u)
  BY <1>2, <1>3, <1>4, <1>5, <1>7 DEF ExtentsOK, Octants, TypesOK
<1>12. RootOK(u)
  BY <1>2, <1>3 DEF RootOK, TypesOK
<1> QED
  BY <1>8, <1>9, <1>10, <1>11, <1>12 DEF TypesOK

\* TakePoint: the leaf has room.
LEMMA TakeTypes ==
  ASSUME NEW t, NEW u, TypesOK(t), TakePoint(t, u)
  PROVE  TypesOK(u)
<1>1. IsTree(t) /\ \A c \in t.todo : IsCall(c)
  BY DEF FieldsOK, CallsOK, CallOK, TypesOK
<1>2. PICK c \in t.todo : \E p \in c.points :
        /\ Cardinality(Held(t, c.box)) < t.bucket
        /\ DOMAIN u.leaves = DOMAIN t.leaves \cup {c.box}
        /\ u.leaves[c.box] = Held(t, c.box) \cup {Stored(t, p)}
        /\ \A l \in DOMAIN t.leaves : l # c.box => u.leaves[l] = t.leaves[l]
        /\ u.todo = (t.todo \ {c}) \cup {[box |-> c.box, points |-> c.points \ {p}]}
        /\ u.added = IF IsNew(p) THEN Append(t.added, -(p.idx + 1)) ELSE t.added
        /\ u.num = IF IsNew(p) THEN t.num + 1 ELSE t.num
  BY <1>1, TakeFields
<1>3. PICK p \in c.points :
        /\ Cardinality(Held(t, c.box)) < t.bucket
        /\ DOMAIN u.leaves = DOMAIN t.leaves \cup {c.box}
        /\ u.leaves[c.box] = Held(t, c.box) \cup {Stored(t, p)}
        /\ \A l \in DOMAIN t.leaves : l # c.box => u.leaves[l] = t.leaves[l]
        /\ u.todo = (t.todo \ {c}) \cup {[box |-> c.box, points |-> c.points \ {p}]}
        /\ u.added = IF IsNew(p) THEN Append(t.added, -(p.idx + 1)) ELSE t.added
        /\ u.num = IF IsNew(p) THEN t.num + 1 ELSE t.num
  BY <1>2
<1>4. /\ IsTree(u) /\ u.min_extent = t.min_extent /\ u.bucket = t.bucket
      /\ u.root = t.root /\ u.inner = t.inner /\ u.bounds = t.bounds
  BY <1>1, TakeFields
<1>5. CallOK(c) /\ Exact(c.box.extent, t.min_extent) /\ FieldsOK(t) /\ LeavesOK(t)
  BY DEF CallsOK, ExtentsOK, TypesOK
<1>6. p \in Points /\ Stored(t, p) \in Points /\ ~IsNew(Stored(t, p))
  <2>1. p \in Points
    BY <1>5 DEF CallOK
  <2>2. t.num \in Nat
    BY <1>5 DEF FieldsOK
  <2>3. [p EXCEPT !.idx = t.num] \in Points /\ [p EXCEPT !.idx = t.num].idx = t.num
    BY <2>1, <2>2 DEF Points
  <2>4. ~IsNew([p EXCEPT !.idx = t.num])
    BY <2>2, <2>3 DEF IsNew
  <2> QED
    BY <2>1, <2>3, <2>4 DEF Stored
<1>7. LeafOK(Held(t, c.box) \cup {Stored(t, p)})
  <2>1. /\ Cardinality(Held(t, c.box) \cup {Stored(t, p)}) <= Cardinality(Held(t, c.box)) + 1
        /\ IsFiniteSet(Held(t, c.box) \cup {Stored(t, p)})
    <3>1. IsFiniteSet(Held(t, c.box)) /\ Cardinality(Held(t, c.box)) \in Nat
      BY <1>5, HeldOK
    <3> QED
      BY <3>1, OneMore
  <2>2. Cardinality(Held(t, c.box) \cup {Stored(t, p)}) <= MaxBucket
    <3>1. Cardinality(Held(t, c.box) \cup {Stored(t, p)}) \in Nat
      BY <2>1, FS_CardinalityType
    <3> QED
      BY <1>3, <1>5, <2>1, <3>1, HeldOK, OctreeAssumption DEF FieldsOK
  <2> QED
    BY <1>5, <1>6, <2>1, <2>2, HeldOK DEF LeafOK
<1>8. FieldsOK(u)
  <2>1. u.num \in Nat
    BY <1>3, <1>5 DEF FieldsOK
  <2>2. u.added \in Seq(Nat)
    <3>1. IsNew(p) => -(p.idx + 1) \in Nat
      BY <1>6 DEF IsNew, Points
    <3> QED
      BY <1>3, <1>5, <3>1, AppendProperties DEF FieldsOK
  <2> QED
    BY <1>4, <1>5, <2>1, <2>2 DEF FieldsOK
<1>9. LeavesOK(u)
  BY <1>3, <1>5, <1>7 DEF LeavesOK, CallOK
<1>10. CallOK([box |-> c.box, points |-> c.points \ {p}])
  BY <1>5, FS_Subset DEF CallOK, IsCall
<1>11. CallsOK(u)
  BY <1>3, <1>10 DEF CallsOK, TypesOK
<1>12. ExtentsOK(u)
  <2>1. \A d \in u.todo : Exact(d.box.extent, t.min_extent)
    BY <1>3, <1>5 DEF TypesOK, ExtentsOK
  <2> QED
    BY <1>3, <1>4, <1>5, <2>1 DEF ExtentsOK, Octants, TypesOK
<1>13. RootOK(u)
  BY <1>3, <1>4 DEF RootOK, TypesOK
<1> QED
  BY <1>8, <1>9, <1>11, <1>12, <1>13 DEF TypesOK

\* EndLeaf
LEMMA EndTypes ==
  ASSUME NEW t, NEW u, TypesOK(t), EndLeaf(t, u)
  PROVE  TypesOK(u)
<1>1. IsTree(t)
  BY DEF FieldsOK, TypesOK
<1>2. /\ IsTree(u) /\ u.todo \subseteq t.todo
      /\ u.min_extent = t.min_extent /\ u.bucket = t.bucket
      /\ u.root = t.root /\ u.leaves = t.leaves /\ u.inner = t.inner
      /\ u.bounds = t.bounds /\ u.added = t.added /\ u.num = t.num
  BY <1>1, EndFields
<1> QED
  BY <1>2 DEF TypesOK, FieldsOK, LeavesOK, CallsOK, ExtentsOK, RootOK, Octants

\* The step lemma for types
LEMMA StepTypes ==
  ASSUME NEW t, NEW u, TypesOK(t), UpdateStep(t, u)
  PROVE  TypesOK(u)
BY GrowTypes, PassTypes, SplitTypes, TakeTypes, EndTypes DEF UpdateStep

\* The first root holds the bounds of its points.
LEMMA RootOfOK ==
  ASSUME NEW low \in Int, NEW high \in Int, NEW min \in Nat \ {0},
         \E k \in Int : low = 2 * (k * min), \E k \in Int : high = 2 * (k * min)
  PROVE  /\ RootOf(low, high) \in Boxes
         /\ RootOf(low, high).extent = RootExtent(low, high)
         /\ RootOf(low, high).x - RootOf(low, high).extent <= low
         /\ high <= RootOf(low, high).x + RootOf(low, high).extent
<1> DEFINE e == (high - low) \div 2
<1>1. high - low = 2 * e /\ e \in Int
  <2>1. PICK j \in Int : low = 2 * (j * min)
    OBVIOUS
  <2>2. PICK k \in Int : high = 2 * (k * min)
    OBVIOUS
  <2>3. j * min \in Int /\ k * min \in Int
    OBVIOUS
  <2> DEFINE d == k * min - j * min
  <2>4. high - low = 2 * d /\ d \in Int
    BY <2>1, <2>2, <2>3
  <2> HIDE DEF d
  <2> QED
    BY <2>4
<1>2. /\ RootOf(low, high) = [x |-> low + e, extent |-> IF e > MinRoot THEN e ELSE MinRoot]
      /\ RootExtent(low, high) = IF e > MinRoot THEN e ELSE MinRoot
  BY DEF RootOf, RootExtent
<1> HIDE DEF e
<1> QED
  BY <1>1, <1>2, OctreeAssumption DEF Boxes, Dist

\* Starting an insertion
LEMMA StartTypes ==
  ASSUME NEW t, NEW u, NEW pts \in SUBSET Points, NEW bucket \in 1 .. MaxBucket,
         TypesOK(t), Idle(t), IsFiniteSet(pts),
         \A p, o \in pts : Exact(RootExtent(LowBound(p.pos, t.min_extent),
                                            HighBound(o.pos, t.min_extent)), t.min_extent),
         StartUpdate(t, u, pts, bucket)
  PROVE  TypesOK(u)
<1>1. IsTree(t) /\ FieldsOK(t)
  BY DEF FieldsOK, TypesOK
<1>2. /\ IsTree(u) /\ u.todo = {[box |-> u.root, points |-> pts]}
      /\ u.min_extent = t.min_extent /\ u.bucket = bucket /\ u.added = <<>>
      /\ u.leaves = t.leaves /\ u.inner = t.inner /\ u.num = t.num
  BY <1>1, StartFields
<1>3. PICK first, last \in pts :
        LET low == LowBound(first.pos, t.min_extent)
            high == HighBound(last.pos, t.min_extent)
        IN  /\ u.root = IF t.root = NoBox THEN RootOf(low, high) ELSE t.root
            /\ u.bounds = IF t.root = NoBox THEN <<>> ELSE <<high, low>>
  BY <1>1, StartFields
<1> DEFINE low == LowBound(first.pos, t.min_extent)
           high == HighBound(last.pos, t.min_extent)
<1>4. /\ low \in Int /\ \E k \in Int : low = 2 * (k * t.min_extent)
      /\ high \in Int /\ \E k \in Int : high = 2 * (k * t.min_extent)
  BY <1>1, LowBoundNear, HighBoundNear DEF FieldsOK, Points
<1>5. /\ RootOf(low, high) \in Boxes
      /\ Exact(RootOf(low, high).extent, t.min_extent)
  BY <1>1, <1>4, RootOfOK DEF FieldsOK
<1>0. /\ u.root = IF t.root = NoBox THEN RootOf(low, high) ELSE t.root
      /\ u.bounds = IF t.root = NoBox THEN <<>> ELSE <<high, low>>
  BY <1>3
<1> HIDE DEF low, high
<1>6. u.root \in Boxes /\ Exact(u.root.extent, t.min_extent)
  BY <1>0, <1>1, <1>5 DEF FieldsOK, TypesOK, ExtentsOK
<1>7. u.root # NoBox
  BY <1>6 DEF Boxes, NoBox
<1>8. u.bounds \in Seq(Int)
  BY <1>0, <1>4
<1>9. FieldsOK(u)
  BY <1>1, <1>2, <1>6, <1>8 DEF FieldsOK
<1>10. CallsOK(u)
  BY <1>2, <1>6 DEF CallsOK, CallOK, IsCall
<1>11. ExtentsOK(u)
  BY <1>2, <1>6 DEF ExtentsOK, TypesOK, Octants
<1> QED
  BY <1>2, <1>7, <1>9, <1>10, <1>11 DEF TypesOK, LeavesOK, RootOK

-----------------------------------------------------------------------------
(* Near points *)

\* As far from the middle of a box as a point of the octant may be: the root's
\* bounds were moved inwards by up to one min_extent_.
NearBox(t, box, pos) == Dist(pos, box.x) <= box.extent + t.min_extent

\* pos is between the bounds, but for as much.
Bounded(t, pos) ==
  /\ Len(t.bounds) = 2
  /\ t.bounds[2] - t.min_extent <= pos /\ pos <= t.bounds[1] + t.min_extent

\* Points are near the leaf they are in, or the box of the call they are in; while
\* the root grows they are near the bounds it grows to.
NearOK(t) ==
  /\ \A l \in DOMAIN t.leaves : \A p \in t.leaves[l] : NearBox(t, l, p.pos)
  /\ Grown(t) =>
       \A c \in t.todo : \A p \in c.points : NearBox(t, c.box, p.pos)
  /\ ~Grown(t) =>
       \A c \in t.todo : c.box = t.root /\ \A p \in c.points : Bounded(t, p.pos)

\* A place that was offered is that of a point the tree has or is still to get,
\* or is near a leaf that is too small to split, and is not empty.
Covered(t, v) ==
  \/ \E p \in TreePoints(t) : p.pos = v
  \/ \E c \in t.todo : \E p \in c.points : p.pos = v
  \/ \E l \in DOMAIN t.leaves : l.extent < 2 * t.min_extent /\ NearBox(t, l, v)

\* A root that has grown to the bounds of the points is near the points.
LEMMA BoundedNear ==
  ASSUME NEW t, FieldsOK(t), t.root \in Boxes, NEW pos \in Int, Bounded(t, pos), Grown(t)
  PROVE  NearBox(t, t.root, pos)
<1>1. 1 \in DOMAIN t.bounds /\ 2 \in DOMAIN t.bounds
  BY DEF FieldsOK, Bounded
<1>2. t.bounds[1] \in Int /\ t.bounds[2] \in Int /\ t.min_extent \in Nat
  BY <1>1 DEF FieldsOK
<1>3. Holds(t.root, t.bounds[1]) /\ Holds(t.root, t.bounds[2])
  BY <1>1 DEF Grown
<1> QED
  BY <1>2, <1>3 DEF Bounded, NearBox, Holds, Dist, Boxes

\* A point is near the half it is put into if it is near the whole.
LEMMA NearHalf ==
  ASSUME NEW pos \in Int, NEW x \in Int, NEW h \in Int, NEW min \in Int, NEW y \in Int,
         Dist(pos, x) <= 2 * h + min, min >= 0,
         y = IF pos > x THEN x + h ELSE x - h
  PROVE  Dist(pos, y) <= h + min
BY DEF Dist

\* A point is near the child on its side.
LEMMA NearChild ==
  ASSUME NEW t, FieldsOK(t), NEW box \in Boxes, box.extent % 2 = 0,
         NEW pos \in Int, NearBox(t, box, pos)
  PROVE  NearBox(t, Child(box, SideOf(box, pos)), pos)
<1> DEFINE side == SideOf(box, pos)
           child == Child(box, side)
<1>1. side \in {0, 1} /\ side = IF pos > box.x THEN 1 ELSE 0
  BY DEF SideOf
<1> HIDE DEF side
<1>2. /\ child \in Boxes /\ 2 * child.extent = box.extent
      /\ child.x = IF side = 1 THEN box.x + child.extent ELSE box.x - child.extent
  BY <1>1, ChildBox
<1> HIDE DEF child
<1>3. NearBox(t, child, pos)
  <2>1. /\ t.min_extent \in Int /\ box.x \in Int /\ box.extent \in Int
        /\ child.extent \in Int /\ child.x \in Int
    BY <1>2 DEF FieldsOK, Boxes
  <2>2. t.min_extent >= 0 /\ Dist(pos, box.x) <= 2 * child.extent + t.min_extent
    BY <1>2, <2>1 DEF NearBox, FieldsOK
  <2>3. child.x = IF pos > box.x THEN box.x + child.extent ELSE box.x - child.extent
    BY <1>1, <1>2
  <2> HIDE DEF child
  <2>4. Dist(pos, child.x) <= child.extent + t.min_extent
    BY <2>1, <2>2, <2>3, NearHalf
  <2> QED
    BY <2>4 DEF NearBox
<1> QED
  BY <1>3 DEF child, side

\* All points that are passed down are near the box they are for.
LEMMA CallsNear ==
  ASSUME NEW t, FieldsOK(t), NEW box \in Boxes, box.extent % 2 = 0, Exact(box.extent, t.min_extent),
         NEW pts \in SUBSET Points, IsFiniteSet(pts), \A p \in pts : NearBox(t, box, p.pos)
  PROVE  /\ \A d \in CallsFor(box, pts) : \A p \in d.points : NearBox(t, d.box, p.pos)
         /\ \A p \in pts : \E d \in CallsFor(box, pts) : p \in d.points
<1>1. t.min_extent \in Nat \ {0}
  BY DEF FieldsOK
<1>2. ASSUME NEW d \in CallsFor(box, pts), NEW p \in d.points
      PROVE  NearBox(t, d.box, p.pos)
  <2>1. PICK side \in {0, 1} :
          d.box = Child(box, side) /\ d.points = {o \in pts : SideOf(box, o.pos) = side}
    BY <1>1, CallsForOK
  <2>2. p \in pts /\ p.pos \in Int /\ side = SideOf(box, p.pos)
    BY <2>1 DEF Points
  <2> QED
    BY <2>1, <2>2, NearChild
<1> QED
  BY <1>1, <1>2, CallsForOK

\* Points stay near and positions covered, step by step: GrowRoot
LEMMA GrowNear ==
  ASSUME NEW t, NEW u, TypesOK(t), NearOK(t), GrowRoot(t, u)
  PROVE  NearOK(u) /\ \A v \in Int : Covered(t, v) => Covered(u, v)
<1>1. IsTree(t) /\ (\A c \in t.todo : IsCall(c)) /\ FieldsOK(t)
  BY DEF FieldsOK, CallsOK, CallOK, TypesOK
<1>2. ~Grown(t)
  BY <1>1, GrowFields DEF Grown
<1>3. /\ u.todo = {[box |-> u.root, points |-> c.points] : c \in t.todo}
      /\ u.min_extent = t.min_extent /\ u.leaves = t.leaves /\ u.bounds = t.bounds
  BY <1>1, GrowFields
<1>4. TypesOK(u)
  BY GrowTypes
<1>5. \A c \in t.todo : \A p \in c.points : p.pos \in Int /\ Bounded(u, p.pos)
  BY <1>2, <1>3 DEF NearOK, Bounded, TypesOK, CallsOK, CallOK, Points
<1>6. \A d \in u.todo : d.box = u.root /\ \E c \in t.todo : d.points = c.points
  BY <1>3
<1>7. u.todo # {} => u.root \in Boxes
  BY <1>4 DEF TypesOK, FieldsOK, RootOK
<1>8. \A d \in u.todo : \A p \in d.points : Grown(u) => NearBox(u, d.box, p.pos)
  BY <1>4, <1>5, <1>6, <1>7, BoundedNear DEF TypesOK
<1>9. NearOK(u)
  BY <1>3, <1>5, <1>6, <1>8 DEF NearOK, NearBox
<1>10. ASSUME NEW v \in Int, Covered(t, v) PROVE Covered(u, v)
  <2>1. \A c \in t.todo : \E d \in u.todo : d.points = c.points
    <3>1. TAKE c \in t.todo
    <3>2. [box |-> u.root, points |-> c.points] \in u.todo
      BY <1>3
    <3> QED
      BY <3>2
  <2> QED
    BY <1>3, <1>10, <2>1 DEF Covered, TreePoints, NearBox
<1> QED
  BY <1>9, <1>10

\* PassDown
LEMMA PassNear ==
  ASSUME NEW t, NEW u, TypesOK(t), NearOK(t), PassDown(t, u)
  PROVE  NearOK(u) /\ \A v \in Int : Covered(t, v) => Covered(u, v)
<1>1. IsTree(t) /\ FieldsOK(t)
  BY DEF FieldsOK, TypesOK
<1>2. PICK c \in t.todo :
        /\ IsNext(t, c) /\ c.box \in t.inner
        /\ u.todo = (t.todo \ {c}) \cup CallsFor(c.box, c.points)
  BY <1>1, PassFields
<1>3. /\ u.min_extent = t.min_extent /\ u.leaves = t.leaves /\ u.bounds = t.bounds
      /\ u.root = t.root
  BY <1>1, PassFields
<1>4. Grown(t) /\ (Grown(u) <=> Grown(t))
  BY <1>2, <1>3 DEF IsNext, Grown
<1>5. CallOK(c) /\ c.box.extent % 2 = 0 /\ Exact(c.box.extent, t.min_extent)
  BY <1>2 DEF CallsOK, ExtentsOK, TypesOK
<1>6. \A p \in c.points : NearBox(t, c.box, p.pos)
  BY <1>4 DEF NearOK
<1>7. /\ \A d \in CallsFor(c.box, c.points) : \A p \in d.points : NearBox(t, d.box, p.pos)
      /\ \A p \in c.points : \E d \in CallsFor(c.box, c.points) : p \in d.points
  BY <1>1, <1>5, <1>6, CallsNear DEF CallOK
<1>8. NearOK(u)
  BY <1>2, <1>3, <1>4, <1>7 DEF NearOK, NearBox
<1>9. ASSUME NEW v \in Int, Covered(t, v) PROVE Covered(u, v)
  <2>1. \A e \in t.todo : \A p \in e.points : \E d \in u.todo : p \in d.points
    BY <1>2, <1>7
  <2> QED
    BY <1>3, <1>9, <2>1 DEF Covered, TreePoints, NearBox
<1> QED
  BY <1>8, <1>9

\* SplitLeaf: the leaf that is taken away was large, its points are in the calls.
LEMMA SplitNear ==
  ASSUME NEW t, NEW u, TypesOK(t), NearOK(t), SplitLeaf(t, u)
  PROVE  NearOK(u) /\ \A v \in Int : Covered(t, v) => Covered(u, v)
<1>1. IsTree(t) /\ FieldsOK(t)
  BY DEF FieldsOK, TypesOK
<1>2. PICK c \in t.todo :
        /\ IsNext(t, c) /\ Splits(t, c)
        /\ DOMAIN u.leaves = DOMAIN t.leaves \ {c.box}
        /\ \A l \in DOMAIN u.leaves : u.leaves[l] = t.leaves[l]
        /\ u.todo = (t.todo \ {c}) \cup CallsFor(c.box, Regrouped(t, c))
  BY <1>1, SplitFields
<1>3. u.min_extent = t.min_extent /\ u.bounds = t.bounds /\ u.root = t.root
  BY <1>1, SplitFields
<1>4. Grown(t) /\ (Grown(u) <=> Grown(t))
  BY <1>2, <1>3 DEF IsNext, Grown
<1>5. CallOK(c) /\ c.box.extent % 2 = 0 /\ Exact(c.box.extent, t.min_extent)
  BY <1>2, SplitsEven DEF CallsOK, ExtentsOK, TypesOK
<1>6. Regrouped(t, c) \in SUBSET Points /\ IsFiniteSet(Regrouped(t, c))
  BY <1>5, HeldOK, FS_Union DEF Regrouped, CallOK, TypesOK
<1>7. \A p \in Regrouped(t, c) : NearBox(t, c.box, p.pos)
  BY <1>4 DEF NearOK, Regrouped, Held
<1>8. /\ \A d \in CallsFor(c.box, Regrouped(t, c)) : \A p \in d.points : NearBox(t, d.box, p.pos)
      /\ \A p \in Regrouped(t, c) : \E d \in CallsFor(c.box, Regrouped(t, c)) : p \in d.points
  BY <1>1, <1>5, <1>6, <1>7, CallsNear DEF CallOK
<1>9. NearOK(u)
  BY <1>2, <1>3, <1>4, <1>8 DEF NearOK, NearBox
<1>10. ASSUME NEW v \in Int, Covered(t, v) PROVE Covered(u, v)
  <2>1. \A e \in t.todo : \A p \in e.points : \E d \in u.todo : p \in d.points
    BY <1>2, <1>8 DEF Regrouped
  <2>2. \A p \in TreePoints(t) : p \in TreePoints(u) \/ \E d \in u.todo : p \in d.points
    <3>1. TAKE p \in TreePoints(t)
    <3>2. PICK l \in DOMAIN t.leaves : p \in t.leaves[l]
      BY DEF TreePoints
    <3>3. CASE l = c.box
      BY <1>2, <1>8, <3>2, <3>3 DEF Regrouped, Held
    <3>4. CASE l # c.box
      BY <1>2, <3>2, <3>4 DEF TreePoints
    <3> QED
      BY <3>3, <3>4
  <2>3. \A l \in DOMAIN t.leaves : l.extent < 2 * t.min_extent => l \in DOMAIN u.leaves
    <3>1. c.box.extent >= 2 * t.min_extent
      BY <1>2 DEF Splits
    <3>2. c.box.extent \in Int /\ t.min_extent \in Int
      BY <1>1, <1>5 DEF CallOK, Boxes, FieldsOK
    <3> QED
      BY <1>2, <3>1, <3>2
  <2>4. CASE \E p \in TreePoints(t) : p.pos = v
    BY <2>2, <2>4 DEF Covered
  <2>5. CASE \E e \in t.todo : \E p \in e.points : p.pos = v
    BY <2>1, <2>5 DEF Covered
  <2>6. CASE \E l \in DOMAIN t.leaves : l.extent < 2 * t.min_extent /\ NearBox(t, l, v)
    BY <1>3, <2>3, <2>6 DEF Covered, NearBox
  <2> QED
    BY <1>10, <2>4, <2>5, <2>6 DEF Covered
<1> QED
  BY <1>9, <1>10

\* TakePoint
LEMMA TakeNear ==
  ASSUME NEW t, NEW u, TypesOK(t), NearOK(t), TakePoint(t, u)
  PROVE  NearOK(u) /\ \A v \in Int : Covered(t, v) => Covered(u, v)
<1>1. IsTree(t) /\ (\A c \in t.todo : IsCall(c)) /\ FieldsOK(t)
  BY DEF FieldsOK, CallsOK, CallOK, TypesOK
<1>2. PICK c \in t.todo : \E p \in c.points :
        /\ IsNext(t, c)
        /\ DOMAIN u.leaves = DOMAIN t.leaves \cup {c.box}
        /\ u.leaves[c.box] = Held(t, c.box) \cup {Stored(t, p)}
        /\ \A l \in DOMAIN t.leaves : l # c.box => u.leaves[l] = t.leaves[l]
        /\ u.todo = (t.todo \ {c}) \cup {[box |-> c.box, points |-> c.points \ {p}]}
  BY <1>1, TakeFields
<1>3. PICK p \in c.points :
        /\ IsNext(t, c)
        /\ DOMAIN u.leaves = DOMAIN t.leaves \cup {c.box}
        /\ u.leaves[c.box] = Held(t, c.box) \cup {Stored(t, p)}
        /\ \A l \in DOMAIN t.leaves : l # c.box => u.leaves[l] = t.leaves[l]
        /\ u.todo = (t.todo \ {c}) \cup {[box |-> c.box, points |-> c.points \ {p}]}
  BY <1>2
<1>4. u.min_extent = t.min_extent /\ u.bounds = t.bounds /\ u.root = t.root
  BY <1>1, TakeFields
<1>5. Grown(t) /\ (Grown(u) <=> Grown(t))
  BY <1>3, <1>4 DEF IsNext, Grown
<1>6. Stored(t, p).pos = p.pos
  BY DEF Stored, TypesOK, CallsOK, CallOK, Points
<1>7. NearBox(t, c.box, p.pos) /\ \A o \in Held(t, c.box) : NearBox(t, c.box, o.pos)
  BY <1>5 DEF NearOK, Held
<1>8. NearOK(u)
  <2>1. \A l \in DOMAIN u.leaves : \A o \in u.leaves[l] : NearBox(t, l, o.pos)
    BY <1>3, <1>6, <1>7 DEF NearOK
  <2>2. \A d \in u.todo : \A o \in d.points : NearBox(t, d.box, o.pos)
    BY <1>3, <1>5 DEF NearOK
  <2> QED
    BY <1>4, <1>5, <2>1, <2>2 DEF NearOK, NearBox
<1>9. ASSUME NEW v \in Int, Covered(t, v) PROVE Covered(u, v)
  <2>1. \A o \in TreePoints(t) : o \in TreePoints(u)
    BY <1>3 DEF TreePoints, Held
  <2>2. Stored(t, p) \in TreePoints(u)
    BY <1>3 DEF TreePoints
  <2>3. \A e \in t.todo : \A o \in e.points : o = p \/ \E d \in u.todo : o \in d.points
    <3>1. [box |-> c.box, points |-> c.points \ {p}] \in u.todo
      BY <1>3
    <3> QED
      BY <1>3, <3>1
  <2>4. CASE \E o \in TreePoints(t) : o.pos = v
    BY <2>1, <2>4 DEF Covered
  <2>5. CASE \E e \in t.todo : \E o \in e.points : o.pos = v
    BY <1>6, <2>2, <2>3, <2>5 DEF Covered
  <2>6. CASE \E l \in DOMAIN t.leaves : l.extent < 2 * t.min_extent /\ NearBox(t, l, v)
    BY <1>3, <1>4, <2>6 DEF Covered, NearBox
  <2> QED
    BY <1>9, <2>4, <2>5, <2>6 DEF Covered
<1> QED
  BY <1>8, <1>9

\* EndLeaf: what is dropped is near a leaf that does not split and is full.
LEMMA EndNear ==
  ASSUME NEW t, NEW u, TypesOK(t), NearOK(t), EndLeaf(t, u)
  PROVE  NearOK(u) /\ \A v \in Int : Covered(t, v) => Covered(u, v)
<1>1. IsTree(t) /\ FieldsOK(t)
  BY DEF FieldsOK, TypesOK
<1>2. PICK c \in t.todo :
        /\ IsNext(t, c) /\ ~Splits(t, c)
        /\ c.points = {} \/ Cardinality(Held(t, c.box)) >= t.bucket
        /\ u.todo = t.todo \ {c}
  BY <1>1, EndFields
<1>3. /\ u.min_extent = t.min_extent /\ u.leaves = t.leaves /\ u.bounds = t.bounds
      /\ u.root = t.root
  BY <1>1, EndFields
<1>4. Grown(t) /\ (Grown(u) <=> Grown(t))
  BY <1>2, <1>3 DEF IsNext, Grown
<1>5. NearOK(u)
  BY <1>2, <1>3, <1>4 DEF NearOK, NearBox
<1>6. ASSUME NEW p \in c.points
      PROVE  c.box \in DOMAIN t.leaves /\ c.box.extent < 2 * t.min_extent /\ NearBox(t, c.box, p.pos)
  <2>1. Cardinality(Held(t, c.box)) >= t.bucket /\ t.bucket >= 1 /\ t.bucket \in Int
    BY <1>1, <1>2, <1>6, OctreeAssumption DEF FieldsOK
  <2>2. Cardinality(Held(t, c.box)) \in Nat
    BY HeldOK DEF TypesOK
  <2>3. c.box \in DOMAIN t.leaves
    BY <2>1, <2>2, FS_EmptySet DEF Held
  <2>4. Cardinality(c.points) \in Nat /\ Cardinality(c.points) # 0
    <3>1. IsFiniteSet(c.points)
      BY DEF TypesOK, CallsOK, CallOK
    <3> QED
      BY <3>1, FS_CardinalityType, FS_EmptySet
  <2>5. c.box.extent \in Int /\ t.min_extent \in Int
    BY <1>1 DEF TypesOK, CallsOK, CallOK, Boxes, FieldsOK
  <2>6. c.box.extent < 2 * t.min_extent
    BY <1>2, <2>1, <2>2, <2>4, <2>5 DEF Splits
  <2> QED
    BY <1>4, <2>3, <2>6 DEF NearOK
<1>7. ASSUME NEW v \in Int, Covered(t, v) PROVE Covered(u, v)
  <2>1. CASE \E e \in t.todo : \E p \in e.points : p.pos = v
    BY <1>2, <1>3, <1>6, <2>1 DEF Covered, NearBox
  <2> QED
    BY <1>3, <1>7, <2>1 DEF Covered, TreePoints, NearBox
<1> QED
  BY <1>5, <1>7

\* Every step of an insertion keeps points near and covers what was covered.
LEMMA StepNear ==
  ASSUME NEW t, NEW u, TypesOK(t), NearOK(t), UpdateStep(t, u)
  PROVE  NearOK(u) /\ \A v \in Int : Covered(t, v) => Covered(u, v)
BY GrowNear, PassNear, SplitNear, TakeNear, EndNear DEF UpdateStep

\* An insertion that starts covers its points.
LEMMA StartNear ==
  ASSUME NEW t, NEW u, NEW pts \in SUBSET Points, NEW bucket \in 1 .. MaxBucket,
         TypesOK(t), NearOK(t), Idle(t), StartUpdate(t, u, pts, bucket)
  PROVE  /\ NearOK(u)
         /\ \A v \in Int : Covered(t, v) \/ (\E p \in pts : p.pos = v) => Covered(u, v)
<1>1. IsTree(t) /\ FieldsOK(t)
  BY DEF FieldsOK, TypesOK
<1>2. /\ u.todo = {[box |-> u.root, points |-> pts]}
      /\ u.min_extent = t.min_extent /\ u.leaves = t.leaves
  BY <1>1, StartFields
<1>0. PICK first, last \in pts :
        LET low == LowBound(first.pos, t.min_extent)
            high == HighBound(last.pos, t.min_extent)
        IN  /\ \A p \in pts : first.pos <= p.pos /\ p.pos <= last.pos
            /\ u.root = IF t.root = NoBox THEN RootOf(low, high) ELSE t.root
            /\ u.bounds = IF t.root = NoBox THEN <<>> ELSE <<high, low>>
  BY <1>1, StartFields
<1> DEFINE low == LowBound(first.pos, t.min_extent)
           high == HighBound(last.pos, t.min_extent)
<1>3. /\ \A p \in pts : first.pos <= p.pos /\ p.pos <= last.pos
      /\ u.root = IF t.root = NoBox THEN RootOf(low, high) ELSE t.root
      /\ u.bounds = IF t.root = NoBox THEN <<>> ELSE <<high, low>>
  BY <1>0
<1>4. first.pos \in Int /\ last.pos \in Int /\ t.min_extent \in Nat \ {0}
      /\ \A p \in pts : p.pos \in Int
  BY <1>1 DEF FieldsOK, Points
<1>k. /\ \E k \in Int : low = 2 * (k * t.min_extent)
      /\ \E k \in Int : high = 2 * (k * t.min_extent)
  BY <1>4, LowBoundNear, HighBoundNear
<1>5. /\ low \in Int /\ low - t.min_extent <= first.pos
      /\ high \in Int /\ last.pos <= high + t.min_extent
  <2>1. /\ low \in Int /\ first.pos - t.min_extent <= low /\ low <= first.pos + t.min_extent
    BY <1>4, LowBoundNear
  <2>2. /\ high \in Int /\ last.pos - t.min_extent <= high /\ high <= last.pos + t.min_extent
    BY <1>4, HighBoundNear
  <2> HIDE DEF low, high
  <2> QED
    BY <1>4, <2>1, <2>2
<1> HIDE DEF low, high
<1>6. \A p \in pts : low - t.min_extent <= p.pos /\ p.pos <= high + t.min_extent
  BY <1>3, <1>4, <1>5
<1>7. ASSUME NEW p \in pts
      PROVE  IF Grown(u) THEN NearBox(u, u.root, p.pos) ELSE Bounded(u, p.pos)
  <2>1. CASE t.root = NoBox
    <3>1. Grown(u)
      BY <1>3, <2>1 DEF Grown
    <3>2. /\ u.root \in Boxes /\ u.root.x - u.root.extent <= low
          /\ high <= u.root.x + u.root.extent
      BY <1>3, <1>4, <1>5, <1>k, <2>1, RootOfOK
    <3>3. NearBox(u, u.root, p.pos)
      BY <1>2, <1>4, <1>5, <1>6, <3>2 DEF NearBox, Dist, Boxes
    <3> QED
      BY <3>1, <3>3
  <2>2. CASE t.root # NoBox
    <3>1. u.root \in Boxes /\ u.bounds = <<high, low>>
      BY <1>1, <1>3, <2>2 DEF FieldsOK
    <3>2. Bounded(u, p.pos)
      BY <1>2, <1>6, <3>1 DEF Bounded
    <3>3. Grown(u) => Holds(u.root, high) /\ Holds(u.root, low)
      <4>1. 1 \in DOMAIN u.bounds /\ 2 \in DOMAIN u.bounds
        BY <3>1
      <4> QED
        BY <3>1, <4>1 DEF Grown
    <3>4. Grown(u) => NearBox(u, u.root, p.pos)
      BY <1>2, <1>4, <1>5, <1>6, <3>1, <3>3 DEF Holds, NearBox, Dist, Boxes
    <3> QED
      BY <3>2, <3>4
  <2> QED
    BY <2>1, <2>2
<1>8. NearOK(u)
  BY <1>2, <1>7 DEF NearOK, NearBox
<1>9. ASSUME NEW v \in Int, Covered(t, v) \/ (\E p \in pts : p.pos = v) PROVE Covered(u, v)
  BY <1>2, <1>9 DEF Covered, TreePoints, NearBox, Idle
<1> QED
  BY <1>8, <1>9

\* Nothing is left to be done: what was offered has a point near it.
LEMMA CoveredIsNear ==
  ASSUME NEW t, TypesOK(t), NearOK(t), Idle(t), NEW v \in Int, Covered(t, v)
  PROVE  \E p \in TreePoints(t) : Dist(p.pos, v) < 6 * t.min_extent
<1>1. t.min_extent \in Nat \ {0}
  BY DEF TypesOK, FieldsOK
<1>2. CASE \E p \in TreePoints(t) : p.pos = v
  BY <1>1, <1>2 DEF Dist
<1>3. ASSUME NEW l \in DOMAIN t.leaves, l.extent < 2 * t.min_extent, NearBox(t, l, v)
      PROVE  \E p \in TreePoints(t) : Dist(p.pos, v) < 6 * t.min_extent
  <2>1. LeafOK(t.leaves[l]) /\ l \in Boxes
    BY DEF TypesOK, LeavesOK
  <2>2. PICK p \in t.leaves[l] : p \in Points
    BY <2>1 DEF LeafOK
  <2>3. NearBox(t, l, p.pos) /\ p \in TreePoints(t)
    BY DEF NearOK, TreePoints
  <2>4. Dist(p.pos, v) < 6 * t.min_extent
    BY <1>1, <1>3, <2>1, <2>2, <2>3 DEF NearBox, Dist, Boxes, Points
  <2> QED
    BY <2>3, <2>4
<1> QED
  BY <1>2, <1>3 DEF Covered, Idle

-----------------------------------------------------------------------------
(* Numbers *)

\* The points of a tree and those that are on their way into it
AllPoints(t) == TreePoints(t) \cup UNION {c.points : c \in t.todo}

\* The position with number n when the caller's cloud is m and the points of
\* its list that were stored so far are added to it
AtNumber(m, list, added, n) ==
  IF n < Len(m) THEN m[n + 1] ELSE list[added[n - Len(m) + 1] + 1]

\* A point's number is its place in the list, or in the cloud m and what it gets.
PointOK(t, m, list, p) ==
  IF IsNew(p) THEN -p.idx \in DOMAIN list /\ list[-p.idx] = p.pos
              ELSE p.idx < t.num /\ AtNumber(m, list, t.added, p.idx) = p.pos

NumbersOK(t, m, list) ==
  /\ t.num = Len(m) + Len(t.added)
  /\ \A k \in DOMAIN t.added : t.added[k] + 1 \in DOMAIN list
  /\ \A p \in AllPoints(t) : PointOK(t, m, list, p)

\* Passing down makes no points.
LEMMA CallsPoints ==
  ASSUME NEW t, NEW pts, NEW box, NEW d \in CallsFor(box, pts)
  PROVE  d.points \subseteq pts
<1>1. PICK side \in {SideOf(box, p.pos) : p \in pts} :
        d = [box |-> Child(box, side), points |-> {p \in pts : SideOf(box, p.pos) = side}]
  BY DEF CallsFor
<1> QED
  BY <1>1

\* Only TakePoint numbers a point.
LEMMA SamePoints ==
  ASSUME NEW t, NEW u, TypesOK(t),
         GrowRoot(t, u) \/ PassDown(t, u) \/ SplitLeaf(t, u) \/ EndLeaf(t, u)
  PROVE  AllPoints(u) \subseteq AllPoints(t) /\ u.added = t.added /\ u.num = t.num
<1>1. IsTree(t) /\ \A c \in t.todo : IsCall(c)
  BY DEF FieldsOK, CallsOK, CallOK, TypesOK
<1>2. ASSUME GrowRoot(t, u)
      PROVE  AllPoints(u) \subseteq AllPoints(t) /\ u.added = t.added /\ u.num = t.num
  <2>1. /\ u.todo = {[box |-> u.root, points |-> c.points] : c \in t.todo}
        /\ u.leaves = t.leaves /\ u.added = t.added /\ u.num = t.num
    BY <1>1, <1>2, GrowFields
  <2>2. \A d \in u.todo : \E c \in t.todo : d.points = c.points
    BY <2>1
  <2> QED
    BY <2>1, <2>2 DEF AllPoints, TreePoints
<1>3. ASSUME PassDown(t, u)
      PROVE  AllPoints(u) \subseteq AllPoints(t) /\ u.added = t.added /\ u.num = t.num
  <2>1. PICK c \in t.todo : u.todo = (t.todo \ {c}) \cup CallsFor(c.box, c.points)
    BY <1>1, <1>3, PassFields
  <2>2. u.leaves = t.leaves /\ u.added = t.added /\ u.num = t.num
    BY <1>1, <1>3, PassFields
  <2>3. \A d \in u.todo : \E e \in t.todo : d.points \subseteq e.points
    BY <2>1, CallsPoints
  <2> QED
    BY <2>2, <2>3 DEF AllPoints, TreePoints
<1>4. ASSUME SplitLeaf(t, u)
      PROVE  AllPoints(u) \subseteq AllPoints(t) /\ u.added = t.added /\ u.num = t.num
  <2>1. PICK c \in t.todo :
          /\ DOMAIN u.leaves = DOMAIN t.leaves \ {c.box}
          /\ \A l \in DOMAIN u.leaves : u.leaves[l] = t.leaves[l]
          /\ u.todo = (t.todo \ {c}) \cup CallsFor(c.box, Regrouped(t, c))
    BY <1>1, <1>4, SplitFields
  <2>2. u.added = t.added /\ u.num = t.num
    BY <1>1, <1>4, SplitFields
  <2>3. Regrouped(t, c) \subseteq AllPoints(t)
    BY DEF Regrouped, Held, AllPoints, TreePoints
  <2>4. \A d \in u.todo : d.points \subseteq AllPoints(t)
    <3>1. \A d \in CallsFor(c.box, Regrouped(t, c)) : d.points \subseteq Regrouped(t, c)
      BY CallsPoints
    <3> QED
      BY <2>1, <2>3, <3>1 DEF AllPoints
  <2>5. TreePoints(u) \subseteq AllPoints(t)
    BY <2>1 DEF AllPoints, TreePoints
  <2> QED
    BY <2>2, <2>4, <2>5 DEF AllPoints
<1>5. ASSUME EndLeaf(t, u)
      PROVE  AllPoints(u) \subseteq AllPoints(t) /\ u.added = t.added /\ u.num = t.num
  <2>1. u.todo \subseteq t.todo /\ u.leaves = t.leaves /\ u.added = t.added /\ u.num = t.num
    BY <1>1, <1>5, EndFields
  <2> QED
    BY <2>1 DEF AllPoints, TreePoints
<1> QED
  BY <1>2, <1>3, <1>4, <1>5

\* Storing a point changes this point only.
LEMMA TakenPoint ==
  ASSUME NEW t, NEW u, TypesOK(t), TakePoint(t, u)
  PROVE  \E p \in AllPoints(t) :
           /\ AllPoints(u) \subseteq AllPoints(t) \cup {Stored(t, p)}
           /\ u.added = IF IsNew(p) THEN Append(t.added, -(p.idx + 1)) ELSE t.added
           /\ u.num = IF IsNew(p) THEN t.num + 1 ELSE t.num
<1>1. IsTree(t) /\ \A c \in t.todo : IsCall(c)
  BY DEF FieldsOK, CallsOK, CallOK, TypesOK
<1>2. PICK c \in t.todo : \E p \in c.points :
        /\ DOMAIN u.leaves = DOMAIN t.leaves \cup {c.box}
        /\ u.leaves[c.box] = Held(t, c.box) \cup {Stored(t, p)}
        /\ \A l \in DOMAIN t.leaves : l # c.box => u.leaves[l] = t.leaves[l]
        /\ u.todo = (t.todo \ {c}) \cup {[box |-> c.box, points |-> c.points \ {p}]}
        /\ u.added = IF IsNew(p) THEN Append(t.added, -(p.idx + 1)) ELSE t.added
        /\ u.num = IF IsNew(p) THEN t.num + 1 ELSE t.num
  BY <1>1, TakeFields
<1>3. PICK p \in c.points :
        /\ DOMAIN u.leaves = DOMAIN t.leaves \cup {c.box}
        /\ u.leaves[c.box] = Held(t, c.box) \cup {Stored(t, p)}
        /\ \A l \in DOMAIN t.leaves : l # c.box => u.leaves[l] = t.leaves[l]
        /\ u.todo = (t.todo \ {c}) \cup {[box |-> c.box, points |-> c.points \ {p}]}
        /\ u.added = IF IsNew(p) THEN Append(t.added, -(p.idx + 1)) ELSE t.added
        /\ u.num = IF IsNew(p) THEN t.num + 1 ELSE t.num
  BY <1>2
<1>4. p \in AllPoints(t)
  BY DEF AllPoints
<1>5. TreePoints(u) \subseteq AllPoints(t) \cup {Stored(t, p)}
  BY <1>3 DEF TreePoints, AllPoints, Held
<1>6. \A d \in u.todo : d.points \subseteq AllPoints(t)
  BY <1>3 DEF AllPoints
<1> QED
  BY <1>3, <1>4, <1>5, <1>6 DEF AllPoints

\* Every step of an insertion keeps the numbers right.
LEMMA StepNumbers ==
  ASSUME NEW t, NEW u, NEW m \in Seq(Int), NEW list,
         TypesOK(t), NumbersOK(t, m, list), UpdateStep(t, u)
  PROVE  NumbersOK(u, m, list)
<1>1. CASE GrowRoot(t, u) \/ PassDown(t, u) \/ SplitLeaf(t, u) \/ EndLeaf(t, u)
  BY <1>1, SamePoints DEF NumbersOK, PointOK
<1>2. CASE TakePoint(t, u)
  <2>1. PICK p \in AllPoints(t) :
          /\ AllPoints(u) \subseteq AllPoints(t) \cup {Stored(t, p)}
          /\ u.added = IF IsNew(p) THEN Append(t.added, -(p.idx + 1)) ELSE t.added
          /\ u.num = IF IsNew(p) THEN t.num + 1 ELSE t.num
    BY <1>2, TakenPoint
  <2>2. CASE ~IsNew(p)
    BY <2>1, <2>2 DEF NumbersOK, PointOK, Stored
  <2>3. CASE IsNew(p)
    <3>1. /\ p \in Points /\ t.num \in Nat /\ t.added \in Seq(Nat)
          /\ Len(m) \in Nat /\ Len(t.added) \in Nat
      <4>1. TypesOK(t)
        OBVIOUS
      <4>2. p \in Points
        BY DEF AllPoints, TreePoints, TypesOK, LeavesOK, LeafOK, CallsOK, CallOK
      <4> QED
        BY <4>2, LenProperties DEF TypesOK, FieldsOK
    <3> DEFINE place == -(p.idx + 1)
    <3>2. place \in Nat /\ place + 1 = -p.idx
      BY <2>3, <3>1 DEF IsNew, Points
    <3>3. u.added = Append(t.added, place) /\ u.num = t.num + 1
      BY <2>1, <2>3
    <3> HIDE DEF place
    <3>4. /\ u.added \in Seq(Nat) /\ Len(u.added) = Len(t.added) + 1
          /\ \A k \in 1 .. Len(t.added) : u.added[k] = t.added[k]
          /\ u.added[Len(t.added) + 1] = place
          /\ DOMAIN t.added = 1 .. Len(t.added) /\ DOMAIN u.added = 1 .. Len(t.added) + 1
      BY <3>1, <3>2, <3>3, AppendProperties, LenProperties
    <3>5. -p.idx \in DOMAIN list /\ list[-p.idx] = p.pos
      BY <2>3 DEF NumbersOK, PointOK
    <3>6. t.num = Len(m) + Len(t.added)
      BY DEF NumbersOK
    <3>7. \A n \in Nat : n < t.num => AtNumber(m, list, u.added, n) = AtNumber(m, list, t.added, n)
      <4> SUFFICES ASSUME NEW n \in Nat, n < t.num, n >= Len(m)
                   PROVE  u.added[n - Len(m) + 1] = t.added[n - Len(m) + 1]
        BY DEF AtNumber
      <4>1. n - Len(m) + 1 \in 1 .. Len(t.added)
        BY <3>1, <3>6
      <4> QED
        BY <3>4, <4>1
    <3>8. ASSUME NEW o \in AllPoints(t) PROVE PointOK(u, m, list, o)
      <4>1. o \in Points
        BY DEF AllPoints, TreePoints, TypesOK, LeavesOK, LeafOK, CallsOK, CallOK
      <4>2. PointOK(t, m, list, o)
        BY DEF NumbersOK
      <4> QED
        BY <3>1, <3>3, <3>7, <4>1, <4>2 DEF PointOK, IsNew, Points
    <3>9. PointOK(u, m, list, Stored(t, p))
      <4>1. Stored(t, p).idx = t.num /\ Stored(t, p).pos = p.pos
        BY <2>3, <3>1 DEF Stored, Points
      <4>2. ~IsNew(Stored(t, p))
        BY <3>1, <4>1 DEF IsNew
      <4>3. AtNumber(m, list, u.added, t.num) = list[place + 1]
        BY <3>1, <3>4, <3>6 DEF AtNumber
      <4> QED
        BY <3>1, <3>2, <3>3, <3>5, <4>1, <4>2, <4>3 DEF PointOK
    <3>10. \A k \in DOMAIN u.added : u.added[k] + 1 \in DOMAIN list
      <4> TAKE k \in DOMAIN u.added
      <4>1. CASE k = Len(t.added) + 1
        BY <3>2, <3>4, <3>5, <4>1
      <4>2. CASE k # Len(t.added) + 1
        <5>a. Len(t.added) \in Nat /\ k \in 1 .. Len(t.added) + 1
          BY <3>1, <3>4
        <5>b. k \in 1 .. Len(t.added)
          BY <4>2, <5>a
        <5>1. k \in DOMAIN t.added /\ u.added[k] = t.added[k]
          BY <3>4, <5>b
        <5> QED
          BY <5>1 DEF NumbersOK
      <4> QED
        BY <4>1, <4>2
    <3>11. \A o \in AllPoints(u) : PointOK(u, m, list, o)
      BY <2>1, <3>8, <3>9
    <3>12. u.num = Len(m) + Len(u.added)
      BY <3>1, <3>3, <3>4, <3>6
    <3> QED
      BY <3>10, <3>11, <3>12 DEF NumbersOK
  <2> QED
    BY <2>2, <2>3
<1> QED
  BY <1>1, <1>2 DEF UpdateStep

\* An insertion that starts gives the points their places in its list.
LEMMA StartNumbers ==
  ASSUME NEW t, NEW u, NEW m \in Seq(Int), NEW list, DOMAIN list \subseteq Nat \ {0},
         NEW before, NEW bucket,
         TypesOK(t), Idle(t), t.added = <<>>, NumbersOK(t, m, before),
         StartUpdate(t, u, NewPoints(list), bucket)
  PROVE  NumbersOK(u, m, list)
<1>1. /\ u.todo = {[box |-> u.root, points |-> NewPoints(list)]}
      /\ u.leaves = t.leaves /\ u.num = t.num /\ u.added = <<>>
  BY StartFields DEF TypesOK, FieldsOK
<1>2. u.num = Len(m) + Len(u.added)
  BY <1>1 DEF NumbersOK
<1>3. ASSUME NEW p \in AllPoints(u) PROVE PointOK(u, m, list, p)
  <2>1. CASE p \in TreePoints(u)
    <3>1. p \in TreePoints(t) /\ p \in AllPoints(t)
      BY <1>1, <2>1 DEF TreePoints, AllPoints
    <3>2. ~IsNew(p) /\ p \in Points
      BY <3>1 DEF TreePoints, TypesOK, LeavesOK, LeafOK
    <3>3. p.idx < t.num /\ AtNumber(m, before, t.added, p.idx) = p.pos
      BY <3>1, <3>2 DEF NumbersOK, PointOK
    <3>4. t.num = Len(m)
      BY LenProperties DEF NumbersOK
    <3> QED
      BY <1>1, <3>2, <3>3, <3>4 DEF PointOK, AtNumber
  <2>2. CASE p \notin TreePoints(u)
    <3>1. p \in NewPoints(list)
      BY <1>1, <1>3, <2>2 DEF AllPoints
    <3>2. PICK i \in DOMAIN list : p = [pos |-> list[i], idx |-> -i]
      BY <3>1 DEF NewPoints
    <3>3. i \in Nat \ {0} /\ p.idx = -i /\ p.pos = list[i] /\ -p.idx = i
      BY <3>2
    <3> QED
      BY <3>3 DEF PointOK, IsNew
  <2> QED
    BY <2>1, <2>2
<1> QED
  BY <1>1, <1>2, <1>3 DEF NumbersOK

-----------------------------------------------------------------------------
(* Boxes *)

\* The boxes have nothing in common but a border.
Apart(a, b) == Dist(a.x, b.x) >= a.extent + b.extent

\* The octants (inner: those with a child array) below a root: any two are
\* one in the other or apart, and what is in an octant is in one of its
\* children, which is an octant too.
Shape(root, octants, inner) ==
  /\ octants \subseteq Boxes /\ inner \subseteq octants
  /\ \A a \in inner : a.extent % 2 = 0
  /\ octants = {} \/ root \in octants
  /\ \A o \in octants : Within(o, root)
  /\ \A a, o \in octants : Within(a, o) \/ Within(o, a) \/ Apart(a, o)
  /\ \A a, o \in octants :
       a # o /\ Within(o, a) =>
         /\ a \in inner
         /\ \E side \in {0, 1} :
              Child(a, side) \in octants /\ Within(o, Child(a, side))

\* A box is its centre and its extent.
LEMMA BoxFields ==
  ASSUME NEW o \in Boxes
  PROVE  /\ o.x \in Int /\ o.extent \in Nat \ {0}
         /\ \A a \in Boxes : a.x = o.x /\ a.extent = o.extent => a = o
BY DEF Boxes

\* Within is an order on boxes ...
LEMMA WithinSelf ==
  ASSUME NEW o \in Boxes
  PROVE  Within(o, o)
BY BoxFields DEF Within, Dist

\* ... it is transitive ...
LEMMA WithinTransitive ==
  ASSUME NEW o \in Boxes, NEW a \in Boxes, NEW b \in Boxes,
         Within(o, a), Within(a, b)
  PROVE  Within(o, b)
BY BoxFields DEF Within, Dist

\* ... and of two boxes of one extent neither is part of the other.
LEMMA WithinExtent ==
  ASSUME NEW o \in Boxes, NEW a \in Boxes, Within(o, a)
  PROVE  o.extent <= a.extent /\ (o.extent = a.extent => o = a)
<1>1. o.x \in Int /\ a.x \in Int /\ o.extent \in Nat /\ a.extent \in Nat
  BY BoxFields
<1>2. o.extent <= a.extent /\ (o.extent = a.extent => o.x = a.x)
  BY <1>1 DEF Within, Dist
<1> QED
  BY <1>2, BoxFields

\* What is part of one of two boxes that do not overlap does not overlap the other.
LEMMA ApartWithin ==
  ASSUME NEW o \in Boxes, NEW a \in Boxes, NEW b \in Boxes,
         Within(o, a), Apart(a, b)
  PROVE  Apart(o, b) /\ Apart(b, o)
BY BoxFields DEF Within, Apart, Dist

\* No box is part of two boxes that do not overlap.
LEMMA NotBoth ==
  ASSUME NEW o \in Boxes, NEW a \in Boxes, NEW b \in Boxes,
         Within(o, a), Within(o, b)
  PROVE  ~Apart(a, b)
BY BoxFields DEF Within, Apart, Dist

\* A child is part of its parent and half as large.
LEMMA ChildWithin ==
  ASSUME NEW a \in Boxes, a.extent % 2 = 0, NEW side \in {0, 1}
  PROVE  /\ Child(a, side) \in Boxes /\ Within(Child(a, side), a)
         /\ Child(a, side) # a
         /\ 2 * Child(a, side).extent = a.extent
<1>1. Child(a, side) \in Boxes /\ 2 * Child(a, side).extent = a.extent
      /\ Child(a, side).x = IF side = 1 THEN a.x + Child(a, side).extent
                                        ELSE a.x - Child(a, side).extent
  BY ChildBox
<1>2. Within(Child(a, side), a) /\ Child(a, side).extent # a.extent
  BY <1>1, BoxFields DEF Within, Dist
<1> QED
  BY <1>1, <1>2

\* The two halves do not overlap.
LEMMA ChildrenApart ==
  ASSUME NEW a \in Boxes, a.extent % 2 = 0,
         NEW s \in {0, 1}, NEW side \in {0, 1}, s # side
  PROVE  Apart(Child(a, s), Child(a, side))
<1> DEFINE b == Child(a, s)
           c == Child(a, side)
<1>1. b \in Boxes /\ 2 * b.extent = a.extent
      /\ b.x = IF s = 1 THEN a.x + b.extent ELSE a.x - b.extent
  BY ChildBox
<1>2. c \in Boxes /\ 2 * c.extent = a.extent
      /\ c.x = IF side = 1 THEN a.x + c.extent ELSE a.x - c.extent
  BY ChildBox
<1> HIDE DEF b, c
<1>3. Apart(b, c)
  BY <1>1, <1>2, BoxFields DEF Apart, Dist
<1> QED
  BY <1>3 DEF b, c

\* A new child, or the first root, keeps the shape of a tree;
LEMMA AddOctant ==
  ASSUME NEW root \in Boxes, NEW octants, NEW inner, Shape(root, octants, inner),
         NEW b \in Boxes,
         b = root \/ \E a \in inner, side \in {0, 1} : b = Child(a, side)
  PROVE  Shape(root, octants \cup {b}, inner)
<1> USE DEF Shape
<1>1. CASE b \in octants
  <2>1. octants \cup {b} = octants
    BY <1>1
  <2> QED
    BY <2>1
<1>2. CASE b \notin octants /\ b = root
  <2>1. octants = {}
    BY <1>2
  <2> QED
    BY <1>2, <2>1, WithinSelf
<1>3. CASE b \notin octants /\ b # root
  <2>1. PICK a0 \in inner : \E s0 \in {0, 1} : b = Child(a0, s0)
    BY <1>3
  <2>2. PICK s0 \in {0, 1} : b = Child(a0, s0)
    BY <2>1
  <2>3. /\ a0 \in octants /\ a0 \in Boxes /\ a0.extent % 2 = 0
        /\ Within(b, a0) /\ b # a0 /\ 2 * b.extent = a0.extent
    BY <2>2, ChildWithin
  <2>4. ASSUME NEW o \in octants, NEW side \in {0, 1},
               Child(a0, side) \in octants, Within(o, Child(a0, side))
        PROVE  Apart(b, o) /\ Apart(o, b)
    <3>1. side # s0
      BY <1>3, <2>2, <2>4
    <3>2. Apart(Child(a0, side), b)
      BY <2>2, <2>3, <3>1, ChildrenApart
    <3> QED
      BY <2>3, <2>4, <3>2, ApartWithin
  <2>5. ASSUME NEW o \in octants
        PROVE  Within(a0, o) \/ (Apart(b, o) /\ Apart(o, b))
    <3>1. CASE Within(a0, o)
      BY <3>1
    <3>2. CASE Within(o, a0) /\ o # a0
      BY <2>3, <2>4, <3>2
    <3>3. CASE Apart(a0, o)
      BY <2>3, <3>3, ApartWithin
    <3> QED
      BY <2>3, <3>1, <3>2, <3>3, WithinSelf
  <2>6. ASSUME NEW o \in octants, Within(a0, o)
        PROVE  /\ Within(b, o)
               /\ o \in inner /\ ~Within(o, b)
               /\ \E side \in {0, 1} :
                    Child(o, side) \in octants \cup {b} /\ Within(b, Child(o, side))
    <3>1. Within(b, o)
      BY <2>3, <2>6, WithinTransitive
    <3>2. ~Within(o, b)
      <4>1. o.extent >= a0.extent /\ o \in Boxes
        BY <2>3, <2>6, WithinExtent
      <4>2. b.extent < a0.extent
        BY <2>3, BoxFields
      <4> QED
        BY <2>3, <4>1, <4>2, BoxFields, WithinExtent
    <3>3. CASE o = a0
      BY <2>2, <3>1, <3>2, <3>3, WithinSelf
    <3>4. CASE o # a0
      <4>1. o \in inner
        BY <2>3, <2>6, <3>4
      <4>2. PICK side \in {0, 1} : Child(o, side) \in octants /\ Within(a0, Child(o, side))
        BY <2>3, <2>6, <3>4
      <4>3. Within(b, Child(o, side))
        BY <2>3, <4>2, WithinTransitive
      <4> QED
        BY <3>1, <3>2, <4>1, <4>2, <4>3
    <3> QED
      BY <3>3, <3>4
  <2>7. ASSUME NEW o \in octants, Apart(b, o) PROVE ~Within(b, o) /\ ~Within(o, b)
    BY <2>7, NotBoth, WithinSelf
  <2>8. Within(b, root)
    BY <2>3, WithinTransitive
  <2>9. \A a, o \in octants \cup {b} : Within(a, o) \/ Within(o, a) \/ Apart(a, o)
    BY <2>5, <2>6, WithinSelf
  <2>10. ASSUME NEW a \in octants \cup {b}, NEW o \in octants \cup {b}, a # o, Within(o, a)
         PROVE  /\ a \in inner
                /\ \E side \in {0, 1} :
                     Child(a, side) \in octants \cup {b} /\ Within(o, Child(a, side))
    <3>1. CASE a \in octants /\ o \in octants
      BY <2>10, <3>1
    <3>2. CASE a = b
      BY <2>5, <2>6, <2>7, <2>10, <3>2
    <3>3. CASE a \in octants /\ o = b
      BY <2>5, <2>6, <2>7, <2>10, <3>3
    <3> QED
      BY <3>1, <3>2, <3>3
  <2>11. root \in octants
    BY <2>3
  <2> QED
    BY <2>8, <2>9, <2>10, <2>11
<1> QED
  BY <1>1, <1>2, <1>3

\* so does a leaf that becomes inner ...
LEMMA MakeInner ==
  ASSUME NEW root, NEW octants, NEW inner, Shape(root, octants, inner),
         NEW b \in octants, b.extent % 2 = 0
  PROVE  Shape(root, octants, inner \cup {b})
BY DEF Shape

\* ... and a new root above the old one, which is one of its halves.
LEMMA NewRoot ==
  ASSUME NEW root \in Boxes, NEW octants, NEW inner, Shape(root, octants, inner),
         octants # {}, NEW v \in Int
  PROVE  LET up == Parent(root, v)
         IN  Shape(up, octants \cup {up}, inner \cup {up})
<1> DEFINE up == Parent(root, v)
           s == IF v > root.x THEN 0 ELSE 1
<1>1. /\ up.extent = 2 * root.extent /\ up \in Boxes
      /\ up.x = IF v > root.x THEN root.x + root.extent ELSE root.x - root.extent
  BY BoxFields DEF Parent, Boxes
<1>2. s \in {0, 1} /\ up.extent % 2 = 0 /\ up.extent \div 2 = root.extent
  BY <1>1, BoxFields
<1>3. Child(up, s) = root
  <2>1. Child(up, s).extent = root.extent /\ Child(up, s) \in Boxes
    BY <1>1, <1>2, ChildBox
  <2>2. Child(up, s).x = IF s = 1 THEN up.x + root.extent ELSE up.x - root.extent
    BY <1>1, <1>2, <2>1, ChildBox
  <2>3. Child(up, s).x = root.x
    <3> HIDE DEF up
    <3> QED
      BY <1>1, <2>2, BoxFields
  <2> QED
    BY <2>1, <2>3, BoxFields
<1>4. Within(root, up)
  BY <1>1, <1>2, <1>3, ChildWithin
<1> HIDE DEF up, s
<1>5. ASSUME NEW o \in octants PROVE Within(o, up) /\ ~Within(up, o) /\ o # up
  <2>1. Within(o, root) /\ o \in Boxes
    BY DEF Shape
  <2>2. o.extent <= root.extent /\ root.extent < up.extent
    BY <1>1, <2>1, BoxFields, WithinExtent
  <2> QED
    BY <1>1, <1>4, <2>1, <2>2, BoxFields, WithinExtent, WithinTransitive
<1>6. Shape(up, octants \cup {up}, inner \cup {up})
  <2>1. \A a, o \in octants \cup {up} : Within(a, o) \/ Within(o, a) \/ Apart(a, o)
    BY <1>1, <1>5, WithinSelf DEF Shape
  <2>2. ASSUME NEW a \in octants \cup {up}, NEW o \in octants \cup {up},
               a # o, Within(o, a)
        PROVE  /\ a \in inner \cup {up}
               /\ \E side \in {0, 1} :
                    /\ Child(a, side) \in octants \cup {up}
                    /\ Within(o, Child(a, side))
    <3>1. CASE a = up
      BY <1>2, <1>3, <2>2, <3>1 DEF Shape
    <3>2. CASE a \in octants
      BY <1>5, <2>2, <3>2 DEF Shape
    <3> QED
      BY <3>1, <3>2
  <2> QED
    BY <1>1, <1>2, <1>5, <2>1, <2>2, WithinSelf DEF Shape
<1> QED
  BY <1>6 DEF up

\* A tree's octants have this shape and its calls are for the root or for
\* children; a root has an octant or a call that will make it.
BoxesOK(t) ==
  /\ t.root # NoBox => Shape(t.root, Octants(t), t.inner)
  /\ t.inner \cap DOMAIN t.leaves = {}
  /\ \A c \in t.todo :
       c.box = t.root \/ \E a \in t.inner, side \in {0, 1} : c.box = Child(a, side)
  /\ t.root = NoBox \/ t.root \in Octants(t)
       \/ (Octants(t) = {} /\ \E c \in t.todo : c.box = t.root /\ c.points # {})
  /\ t.bounds = <<>> \/ t.root \in Octants(t)

\* The calls for the children are for children.
LEMMA CallsAreChildren ==
  ASSUME NEW box, NEW pts, NEW d \in CallsFor(box, pts)
  PROVE  \E side \in {0, 1} : d.box = Child(box, side)
<1>1. PICK side \in {SideOf(box, p.pos) : p \in pts} :
        d = [box |-> Child(box, side), points |-> {p \in pts : SideOf(box, p.pos) = side}]
  BY DEF CallsFor
<1>2. side \in {0, 1} /\ d.box = Child(box, side)
  BY <1>1 DEF SideOf
<1> QED
  BY <1>2

\* The octant of a call that has none yet
LEMMA CallShape ==
  ASSUME NEW t, TypesOK(t), BoxesOK(t), NEW c \in t.todo
  PROVE  /\ t.root \in Boxes /\ t.root # NoBox /\ c.box \in Boxes
         /\ Shape(t.root, Octants(t) \cup {c.box}, t.inner)
         /\ t.root \in Octants(t) \cup {c.box}
<1>1. t.root # NoBox /\ t.root \in Boxes /\ c.box \in Boxes
  BY DEF TypesOK, RootOK, FieldsOK, CallsOK, CallOK
<1>2. Shape(t.root, Octants(t), t.inner)
  BY <1>1 DEF BoxesOK
<1>3. c.box = t.root \/ \E a \in t.inner, side \in {0, 1} : c.box = Child(a, side)
  BY DEF BoxesOK
<1>4. Shape(t.root, Octants(t) \cup {c.box}, t.inner)
  BY <1>1, <1>2, <1>3, AddOctant
<1> QED
  BY <1>1, <1>4 DEF Shape

\* The shape of the tree, step by step: GrowRoot
LEMMA GrowBoxes ==
  ASSUME NEW t, NEW u, TypesOK(t), BoxesOK(t), GrowRoot(t, u)
  PROVE  BoxesOK(u)
<1>1. IsTree(t) /\ \A c \in t.todo : IsCall(c)
  BY DEF FieldsOK, CallsOK, CallOK, TypesOK
<1>2. PICK i \in DOMAIN t.bounds :
        ~Holds(t.root, t.bounds[i]) /\ u.root = Parent(t.root, t.bounds[i])
  BY <1>1, GrowFields
<1>3. /\ u.inner = t.inner \cup {u.root}
      /\ u.todo = {[box |-> u.root, points |-> c.points] : c \in t.todo}
      /\ u.leaves = t.leaves
  BY <1>1, GrowFields
<1>4. t.bounds # <<>> /\ t.root \in Boxes /\ t.root # NoBox /\ t.bounds[i] \in Int
  BY <1>2 DEF TypesOK, FieldsOK, RootOK
<1>5. t.root \in Octants(t)
  BY <1>4 DEF BoxesOK
<1>6. Shape(t.root, Octants(t), t.inner)
  BY <1>4 DEF BoxesOK
<1>7. Octants(u) = Octants(t) \cup {u.root}
  BY <1>3 DEF Octants
<1>8. Shape(u.root, Octants(u), u.inner)
  BY <1>2, <1>3, <1>4, <1>5, <1>6, <1>7, NewRoot
<1>9. u.root \notin Octants(t)
  <2>1. u.root.extent = 2 * t.root.extent
    BY <1>2 DEF Parent
  <2>2. \A o \in Octants(t) : o.extent <= t.root.extent
    BY <1>4, <1>6, WithinExtent DEF Shape
  <2> QED
    BY <1>4, <2>1, <2>2, BoxFields
<1>10. u.inner \cap DOMAIN u.leaves = {}
  BY <1>3, <1>9 DEF BoxesOK, Octants
<1>11. \A d \in u.todo : d.box = u.root
  BY <1>3
<1> QED
  BY <1>7, <1>8, <1>10, <1>11 DEF BoxesOK

\* PassDown
LEMMA PassBoxes ==
  ASSUME NEW t, NEW u, TypesOK(t), BoxesOK(t), PassDown(t, u)
  PROVE  BoxesOK(u)
<1>1. IsTree(t)
  BY DEF FieldsOK, TypesOK
<1>2. PICK c \in t.todo :
        c.box \in t.inner /\ u.todo = (t.todo \ {c}) \cup CallsFor(c.box, c.points)
  BY <1>1, PassFields
<1>3. u.root = t.root /\ u.leaves = t.leaves /\ u.inner = t.inner /\ u.bounds = t.bounds
  BY <1>1, PassFields
<1>4. Octants(u) = Octants(t) /\ Octants(t) # {}
  BY <1>2, <1>3 DEF Octants
<1>5. \A d \in CallsFor(c.box, c.points) :
        \E a \in t.inner, side \in {0, 1} : d.box = Child(a, side)
  BY <1>2, CallsAreChildren
<1> QED
  BY <1>2, <1>3, <1>4, <1>5 DEF BoxesOK

\* SplitLeaf
LEMMA SplitBoxes ==
  ASSUME NEW t, NEW u, TypesOK(t), BoxesOK(t), SplitLeaf(t, u)
  PROVE  BoxesOK(u)
<1>1. IsTree(t)
  BY DEF FieldsOK, TypesOK
<1>2. PICK c \in t.todo :
        /\ c.box \notin t.inner /\ Splits(t, c)
        /\ DOMAIN u.leaves = DOMAIN t.leaves \ {c.box}
        /\ u.inner = t.inner \cup {c.box}
        /\ u.todo = (t.todo \ {c}) \cup CallsFor(c.box, Regrouped(t, c))
  BY <1>1, SplitFields
<1>3. u.root = t.root
  BY <1>1, SplitFields
<1>4. Octants(u) = Octants(t) \cup {c.box}
  BY <1>2 DEF Octants
<1>5. c.box.extent % 2 = 0
  BY <1>2, SplitsEven
<1>6. Shape(u.root, Octants(u), u.inner) /\ u.root \in Octants(u)
  BY <1>2, <1>3, <1>4, <1>5, CallShape, MakeInner
<1>7. u.inner \cap DOMAIN u.leaves = {}
  BY <1>2 DEF BoxesOK
<1>8. \A d \in CallsFor(c.box, Regrouped(t, c)) :
        \E a \in u.inner, side \in {0, 1} : d.box = Child(a, side)
  BY <1>2, CallsAreChildren
<1>9. \A d \in u.todo :
        d.box = u.root \/ \E a \in u.inner, side \in {0, 1} : d.box = Child(a, side)
  BY <1>2, <1>3, <1>8 DEF BoxesOK
<1> QED
  BY <1>6, <1>7, <1>9 DEF BoxesOK

\* TakePoint makes a leaf if there is none.
LEMMA TakeBoxes ==
  ASSUME NEW t, NEW u, TypesOK(t), BoxesOK(t), TakePoint(t, u)
  PROVE  BoxesOK(u)
<1>1. IsTree(t) /\ \A c \in t.todo : IsCall(c)
  BY DEF FieldsOK, CallsOK, CallOK, TypesOK
<1>2. PICK c \in t.todo : \E p \in c.points :
        /\ c.box \notin t.inner
        /\ DOMAIN u.leaves = DOMAIN t.leaves \cup {c.box}
        /\ u.todo = (t.todo \ {c}) \cup {[box |-> c.box, points |-> c.points \ {p}]}
  BY <1>1, TakeFields
<1>3. u.root = t.root /\ u.inner = t.inner
  BY <1>1, TakeFields
<1>4. Octants(u) = Octants(t) \cup {c.box}
  BY <1>2, <1>3 DEF Octants
<1>5. Shape(u.root, Octants(u), u.inner) /\ u.root \in Octants(u)
  BY <1>3, <1>4, CallShape
<1>6. u.inner \cap DOMAIN u.leaves = {}
  BY <1>2, <1>3 DEF BoxesOK
<1>7. \A d \in u.todo :
        d.box = u.root \/ \E a \in u.inner, side \in {0, 1} : d.box = Child(a, side)
  BY <1>2, <1>3 DEF BoxesOK
<1> QED
  BY <1>5, <1>6, <1>7 DEF BoxesOK

\* EndLeaf
LEMMA EndBoxes ==
  ASSUME NEW t, NEW u, TypesOK(t), BoxesOK(t), EndLeaf(t, u)
  PROVE  BoxesOK(u)
<1>1. IsTree(t)
  BY DEF FieldsOK, TypesOK
<1>2. PICK c \in t.todo :
        /\ c.points = {} \/ Cardinality(Held(t, c.box)) >= t.bucket
        /\ u.todo = t.todo \ {c}
  BY <1>1, EndFields
<1>3. u.root = t.root /\ u.leaves = t.leaves /\ u.inner = t.inner /\ u.bounds = t.bounds
  BY <1>1, EndFields
<1>4. Octants(u) = Octants(t)
  BY <1>3 DEF Octants
<1>5. Octants(t) = {} => c.points = {}
  <2>1. SUFFICES ASSUME Octants(t) = {}, c.points # {} PROVE FALSE
    OBVIOUS
  <2>2. Held(t, c.box) = {}
    BY <2>1 DEF Held, Octants
  <2>3. Cardinality(Held(t, c.box)) = 0 /\ t.bucket \in 1 .. MaxBucket
    BY <2>2, FS_EmptySet DEF TypesOK, FieldsOK
  <2> QED
    BY <1>2, <2>1, <2>3, OctreeAssumption
<1> QED
  BY <1>2, <1>3, <1>4, <1>5 DEF BoxesOK

\* Every step of an insertion keeps the shape of the tree.
LEMMA StepBoxes ==
  ASSUME NEW t, NEW u, TypesOK(t), BoxesOK(t), UpdateStep(t, u)
  PROVE  BoxesOK(u)
BY GrowBoxes, PassBoxes, SplitBoxes, TakeBoxes, EndBoxes DEF UpdateStep

\* So does the start of one.
LEMMA StartBoxes ==
  ASSUME NEW t, NEW u, NEW pts, NEW bucket, TypesOK(t), BoxesOK(t), Idle(t),
         StartUpdate(t, u, pts, bucket)
  PROVE  BoxesOK(u)
<1>1. IsTree(t)
  BY DEF FieldsOK, TypesOK
<1>2. /\ pts # {}
      /\ u.bounds = <<>> \/ t.root # NoBox
      /\ t.root # NoBox => u.root = t.root
  BY <1>1, StartFields
<1>3. /\ u.leaves = t.leaves /\ u.inner = t.inner
      /\ u.todo = {[box |-> u.root, points |-> pts]}
  BY <1>1, StartFields
<1>4. Octants(u) = Octants(t)
  BY <1>3 DEF Octants
<1>5. CASE t.root = NoBox
  <2>1. Octants(u) = {} /\ u.inner = {} /\ u.bounds = <<>>
    BY <1>2, <1>3, <1>4, <1>5 DEF TypesOK, RootOK, Octants
  <2>2. Shape(u.root, {}, {})
    BY DEF Shape
  <2> QED
    BY <1>2, <1>3, <2>1, <2>2 DEF BoxesOK
<1>6. CASE t.root # NoBox
  BY <1>2, <1>3, <1>4, <1>6 DEF BoxesOK, Idle
<1> QED
  BY <1>5, <1>6

-----------------------------------------------------------------------------
(* Radius searches *)

\* A point of a leaf is near every octant the leaf is in.
LEMMA NearAbove ==
  ASSUME NEW t, TypesOK(t), NearOK(t), NEW l \in DOMAIN t.leaves, NEW p \in t.leaves[l],
         NEW a \in Boxes, Within(l, a)
  PROVE  p \in Points /\ Dist(p.pos, a.x) <= a.extent + t.min_extent
<1>1. l \in Boxes /\ p \in Points /\ t.min_extent \in Nat
  BY DEF TypesOK, LeavesOK, LeafOK, FieldsOK
<1>2. Dist(p.pos, l.x) <= l.extent + t.min_extent
  BY DEF NearOK, NearBox
<1>3. p.pos \in Int
  BY <1>1 DEF Points
<1> QED
  BY <1>1, <1>2, <1>3, BoxFields DEF Within, Dist

\* A box in the ball is smaller than its radius.
LEMMA SquareLess ==
  ASSUME NEW e \in Nat \ {0}, NEW r \in Nat, 3 * e * e < r * r
  PROVE  e < r
<1>1. SUFFICES ASSUME r <= e PROVE FALSE
  OBVIOUS
<1>2. r * r <= e * e
  BY <1>1
<1>3. e * e \in Nat /\ 3 * e * e = 3 * (e * e)
  OBVIOUS
<1>4. r * r \in Nat
  OBVIOUS
<1> DEFINE s == e * e
<1> HIDE DEF s
<1> QED
  BY <1>2, <1>3, <1>4 DEF s

\* A set of naturals that has a member has a least one.
LEMMA LeastNatural ==
  ASSUME NEW S \in SUBSET Nat, S # {}
  PROVE  \E m \in S : \A k \in S : m <= k
<1> DEFINE Less == OpToRel(<, Nat)
<1>1. IsWellFoundedOn(Less, Nat)
  BY NatLessThanWellFounded
<1>2. \A j, k \in Nat : j < k => <<j, k>> \in Less
  BY DEF OpToRel
<1> HIDE DEF Less
<1>3. PICK m \in S : \A k \in S : <<k, m>> \notin Less
  BY <1>1, WFMin
<1>4. \A k \in S : k \in Nat
  OBVIOUS
<1>5. \A k \in S : ~(k < m)
  BY <1>2, <1>3, <1>4, Zenon
<1>6. \A k \in S : m <= k
  BY <1>4, <1>5
<1> QED
  BY <1>6

\* Of the octants above a leaf that are in the ball there is a largest one.
LEMMA LargestInBall ==
  ASSUME NEW t, TypesOK(t), NEW q \in Int, NEW r \in Nat \ {0}, NEW l \in DOMAIN t.leaves,
         NEW b \in Above(t, l), ContainsBox(q, r, b)
  PROVE  \E a \in Above(t, l) :
           /\ ContainsBox(q, r, a)
           /\ \A o \in Above(t, a) : ~ContainsBox(q, r, o)
<1> DEFINE In == {a \in Above(t, l) : ContainsBox(q, r, a)}
           Gaps == {n \in Nat : \E a \in In : n = r - a.extent}
<1>1. \A a \in t.inner : a \in Boxes
  BY DEF TypesOK, FieldsOK
<1>2. ASSUME NEW a \in In PROVE r - a.extent \in Nat
  <2>1. a \in Boxes /\ 3 * a.extent * a.extent < r * r
    BY <1>1 DEF Above, ContainsBox
  <2>2. a.extent < r
    BY <2>1, BoxFields, SquareLess
  <2> QED
    BY <2>1, <2>2, BoxFields
<1>3. b \in In /\ r - b.extent \in Gaps
  BY <1>2
<1>4. Gaps \subseteq Nat /\ Gaps # {}
  BY <1>3
<1>5. PICK n \in Gaps : \A m \in Gaps : n <= m
  BY <1>4, LeastNatural
<1>6. PICK a \in In : n = r - a.extent
  OBVIOUS
<1>7. ASSUME NEW o \in Above(t, a), ContainsBox(q, r, o) PROVE FALSE
  <2>1. a \in Boxes /\ o \in Boxes /\ l \in Boxes /\ o # a /\ Within(a, o) /\ Within(l, a) /\ l # a
    BY <1>1 DEF Above, TypesOK, LeavesOK
  <2>2. a.extent < o.extent
    BY <2>1, BoxFields, WithinExtent
  <2>3. o # l
    BY <2>1, <2>2, BoxFields, WithinExtent
  <2>4. o \in In
    BY <1>7, <2>1, <2>3, WithinTransitive DEF Above
  <2>5. r - o.extent \in Gaps
    BY <1>2, <2>4
  <2>6. n <= r - o.extent
    BY <1>5, <2>5
  <2> QED
    BY <1>6, <2>1, <2>2, <2>6, BoxFields
<1> QED
  BY <1>6, <1>7

\* RadiusNeighbors is exact up to min_extent (ioctree.h:1120-1178).
LEMMA RadiusExact ==
  ASSUME NEW t, TypesOK(t), NearOK(t), NEW q \in Int, NEW r \in Nat \ {0}, NEW bucket
  PROVE  LET found == RadiusNeighbors(t, q, r, bucket)
             Closer(radius) ==
               {p \in UNION {Visible(t, l, bucket) : l \in DOMAIN t.leaves} :
                  p.pos # q /\ Dist(p.pos, q) < radius}
         IN  Closer(r - t.min_extent) \subseteq found /\ found \subseteq Closer(r + t.min_extent)
<1> DEFINE found == RadiusNeighbors(t, q, r, bucket)
           Closer(radius) ==
             {p \in UNION {Visible(t, l, bucket) : l \in DOMAIN t.leaves} :
                p.pos # q /\ Dist(p.pos, q) < radius}
<1>0. t.min_extent \in Nat \ {0} /\ t.inner \subseteq Boxes /\ DOMAIN t.leaves \subseteq Boxes
  BY DEF TypesOK, FieldsOK, LeavesOK
<1>1. \A l \in DOMAIN t.leaves : Visible(t, l, bucket) \subseteq t.leaves[l]
  BY DEF Visible, FirstOf
<1>2. ASSUME NEW p \in Closer(r - t.min_extent) PROVE p \in found
  <2>1. PICK l \in DOMAIN t.leaves : p \in Visible(t, l, bucket)
    OBVIOUS
  <2>2. p \in t.leaves[l] /\ p.pos # q /\ Dist(p.pos, q) < r - t.min_extent
    BY <1>1, <2>1
  <2>3. p.pos \in Int
    BY <2>2 DEF TypesOK, LeavesOK, LeafOK, Points
  <2>4. ASSUME NEW a \in Boxes, Within(l, a) PROVE Overlaps(q, r, a)
    <3>1. Dist(p.pos, a.x) <= a.extent + t.min_extent
      BY <2>2, <2>4, NearAbove
    <3> QED
      BY <1>0, <2>2, <2>3, <3>1, BoxFields DEF Overlaps, Dist
  <2>5. Dist(p.pos, q) < r
    BY <1>0, <2>2, <2>3 DEF Dist
  <2>6. ASSUME NEW o \in Reached(t, q, r), l \in LeavesFound(t, o, q, r) PROVE p \in found
    BY <2>1, <2>2, <2>5, <2>6 DEF RadiusNeighbors
  <2>7. CASE \A b \in Above(t, l) : ~ContainsBox(q, r, b)
    <3>1. \A a \in {l} \cup Above(t, l) : Overlaps(q, r, a)
      BY <1>0, <2>4, WithinSelf DEF Above
    <3>2. l \in Reached(t, q, r) /\ l \in LeavesFound(t, l, q, r)
      BY <2>7, <3>1 DEF Reached, LeavesFound, Octants
    <3> QED
      BY <2>6, <3>2
  <2>8. CASE \E b \in Above(t, l) : ContainsBox(q, r, b)
    <3>1. PICK a \in Above(t, l) : 
            ContainsBox(q, r, a) /\ \A o \in Above(t, a) : ~ContainsBox(q, r, o)
      BY <2>8, LargestInBall
    <3>2. a \in t.inner /\ a \in Boxes /\ l \in Boxes /\ Within(l, a)
      BY <1>0 DEF Above
    <3>3. \A o \in {a} \cup Above(t, a) : o \in Boxes /\ Within(l, o)
      BY <1>0, <3>2, WithinTransitive DEF Above
    <3>4. a \in Reached(t, q, r)
      BY <2>4, <3>1, <3>2, <3>3 DEF Reached, Octants
    <3>5. l \in LeavesFound(t, a, q, r)
      BY <3>1 DEF LeavesFound
    <3> QED
      BY <2>6, <3>4, <3>5
  <2> QED
    BY <2>7, <2>8
<1>3. ASSUME NEW p \in found PROVE p \in Closer(r + t.min_extent)
  <2>1. PICK o \in Reached(t, q, r) :
          p \in {x \in UNION {Visible(t, l, bucket) : l \in LeavesFound(t, o, q, r)} :
                   x.pos # q /\ (ContainsBox(q, r, o) \/ Dist(x.pos, q) < r)}
    BY DEF RadiusNeighbors
  <2>2. PICK l \in LeavesFound(t, o, q, r) : p \in Visible(t, l, bucket)
    BY <2>1
  <2>3. l \in DOMAIN t.leaves /\ (l = o \/ Within(l, o)) /\ o \in Boxes
    BY <1>0, <2>1 DEF LeavesFound, Above, Reached, Octants
  <2>4. p \in t.leaves[l] /\ p.pos # q /\ (ContainsBox(q, r, o) \/ Dist(p.pos, q) < r)
    BY <1>1, <2>1, <2>2, <2>3
  <2>5. p.pos \in Int
    BY <2>3, <2>4 DEF TypesOK, LeavesOK, LeafOK, Points
  <2>6. Dist(p.pos, o.x) <= o.extent + t.min_extent
    BY <2>3, <2>4, NearAbove, WithinSelf
  <2>7. Dist(p.pos, q) < r + t.min_extent
    <3>1. CASE Dist(p.pos, q) < r
      BY <1>0, <2>5, <3>1 DEF Dist
    <3>2. CASE Dist(q, o.x) + o.extent < r
      BY <1>0, <2>3, <2>5, <2>6, <3>2, BoxFields DEF Dist
    <3> QED
      BY <2>4, <3>1, <3>2 DEF ContainsBox
  <2> QED
    BY <2>2, <2>3, <2>4, <2>7
<1> QED
  BY <1>2, <1>3

-----------------------------------------------------------------------------
(* Searches for the nearest point *)

Dos == {"visit", "try", "leave"}
SearchCalls == [do : Dos, box : Boxes]

\* The calls of a search are for octants, and one that may look at points is
\* for a box apart from those of the calls before it.
StackOK(t, calls) ==
  /\ calls \in Seq(SearchCalls)
  /\ \A i \in DOMAIN calls :
       /\ calls[i].box \in Octants(t)
       /\ calls[i].do = "leave" => calls[i].box \in t.inner
  /\ \A i, j \in DOMAIN calls :
       i < j /\ calls[j].do # "leave" => Apart(calls[i].box, calls[j].box)

\* Some call will look at the leaf.
Ahead(t, calls, l) ==
  \E i \in DOMAIN calls : calls[i].do # "leave" /\ Within(l, calls[i].box)

\* What a search has found
BestOK(t, s) ==
  \A b \in s.best : b \in TreePoints(t) /\ b.pos # s.q /\ Dist(b.pos, s.q) <= s.r

\* The best so far is as good, but for min_extent_.
Matched(t, s, p) ==
  \E b \in s.best : Dist(b.pos, s.q) <= Dist(p.pos, s.q) + t.min_extent

\* The best is to match what lies in the radius, but for min_extent_.
Eligible(t, s, p) ==
  p.pos # s.q /\ Dist(p.pos, s.q) < s.r - t.min_extent

SearchOK(t, s) ==
  /\ s = [q |-> s.q, r |-> s.r, best |-> s.best, calls |-> s.calls]
  /\ s.q \in Int /\ s.r \in Nat
  /\ StackOK(t, s.calls) /\ BestOK(t, s)
  /\ \A l \in DOMAIN t.leaves : \A p \in t.leaves[l] :
       Eligible(t, s, p) => Matched(t, s, p) \/ Ahead(t, s.calls, l)

\* What is to be known of a tree that is searched
Searchable(t) == TypesOK(t) /\ NearOK(t) /\ BoxesOK(t) /\ Idle(t)

\* all has the elements of new and then those of calls but its first.
Replaced(calls, new, all) ==
  /\ \A i \in DOMAIN new : i \in DOMAIN all /\ all[i] = new[i]
  /\ \A i \in DOMAIN calls :
       i # 1 => i - 1 + Len(new) \in DOMAIN all /\ all[i - 1 + Len(new)] = calls[i]
  /\ \A k \in DOMAIN all :
       \/ k \in DOMAIN new /\ all[k] = new[k]
       \/ \E i \in DOMAIN calls :
            i # 1 /\ k = i - 1 + Len(new) /\ all[k] = calls[i]

\* The calls after the innermost one was replaced by others
LEMMA ReplacedHead ==
  ASSUME NEW S, NEW calls \in Seq(S), calls # <<>>, NEW new \in Seq(S),
         NEW all, all = new \o Tail(calls)
  PROVE  /\ all \in Seq(S)
         /\ Head(calls) = calls[1] /\ 1 \in DOMAIN calls
         /\ Replaced(calls, new, all)
<1> DEFINE n == Len(calls)
           m == Len(new)
           rest == Tail(calls)
<1>1. n \in Nat \ {0} /\ DOMAIN calls = 1 .. n /\ m \in Nat /\ DOMAIN new = 1 .. m
  BY LenProperties, EmptySeq
<1>2. rest \in Seq(S) /\ Len(rest) = n - 1 /\ \A i \in 1 .. n - 1 : rest[i] = calls[i + 1]
  BY HeadTailProperties
<1>3. /\ all \in Seq(S) /\ Len(all) = m + n - 1
      /\ \A i \in 1 .. m + n - 1 : all[i] = IF i <= m THEN new[i] ELSE rest[i - m]
  BY <1>1, <1>2, ConcatProperties
<1>4. DOMAIN all = 1 .. m + n - 1
  BY <1>1, <1>3, LenProperties
<1>5. Head(calls) = calls[1]
  BY HeadTailProperties
<1> HIDE DEF n, m, rest
<1>6. \A i \in DOMAIN new : i \in DOMAIN all /\ all[i] = new[i]
  BY <1>1, <1>3, <1>4
<1>7. ASSUME NEW i \in DOMAIN calls, i # 1
      PROVE  i - 1 + m \in DOMAIN all /\ all[i - 1 + m] = calls[i]
  <2>1. /\ i - 1 + m \in 1 .. m + n - 1 /\ ~(i - 1 + m <= m)
        /\ (i - 1 + m) - m = i - 1 /\ i - 1 \in 1 .. n - 1 /\ (i - 1) + 1 = i
    BY <1>1, <1>7
  <2>2. all[i - 1 + m] = rest[(i - 1 + m) - m]
    BY <1>3, <2>1
  <2> QED
    BY <1>2, <1>4, <2>1, <2>2
<1>8. ASSUME NEW k \in DOMAIN all, k \notin DOMAIN new
      PROVE  \E i \in DOMAIN calls : i # 1 /\ k = i - 1 + m /\ all[k] = calls[i]
  <2>1. k - m + 1 \in DOMAIN calls /\ k - m + 1 # 1 /\ k = (k - m + 1) - 1 + m
    BY <1>1, <1>4, <1>8
  <2> QED
    BY <1>7, <2>1
<1>9. Replaced(calls, new, all)
  BY <1>6, <1>7, <1>8 DEF m, Replaced
<1>10. 1 \in DOMAIN calls
  BY <1>1
<1> QED
  BY <1>3, <1>5, <1>9, <1>10

\* The calls that replace one are for octants in its box.
LEMMA ReplacedStack ==
  ASSUME NEW t, Searchable(t), NEW calls, StackOK(t, calls), calls # <<>>,
         NEW new, StackOK(t, new), \A i \in DOMAIN new : Within(new[i].box, Head(calls).box),
         NEW all, all = new \o Tail(calls)
  PROVE  /\ StackOK(t, all)
         /\ \A l \in Boxes :
              Ahead(t, calls, l) =>
                \/ Ahead(t, all, l)
                \/ Head(calls).do # "leave" /\ Within(l, Head(calls).box)
         /\ \A l \in Boxes : Ahead(t, new, l) => Ahead(t, all, l)
<1>1. calls \in Seq(SearchCalls) /\ new \in Seq(SearchCalls)
  BY DEF StackOK
<1>2. all \in Seq(SearchCalls) /\ Head(calls) = calls[1] /\ 1 \in DOMAIN calls
  BY <1>1, ReplacedHead
<1>a. Replaced(calls, new, all)
  BY <1>1, ReplacedHead
<1>b. /\ \A i \in DOMAIN new : i \in DOMAIN all /\ all[i] = new[i]
      /\ \A i \in DOMAIN calls :
           i # 1 => i - 1 + Len(new) \in DOMAIN all /\ all[i - 1 + Len(new)] = calls[i]
      /\ \A k \in DOMAIN all :
           \/ k \in DOMAIN new /\ all[k] = new[k]
           \/ \E i \in DOMAIN calls :
                i # 1 /\ k = i - 1 + Len(new) /\ all[k] = calls[i]
  BY <1>a DEF Replaced
<1>3. /\ Len(new) \in Nat /\ DOMAIN new = 1 .. Len(new)
      /\ Len(calls) \in Nat /\ DOMAIN calls = 1 .. Len(calls)
  BY <1>1, LenProperties
<1>4. \A i \in DOMAIN new : new[i].box \in Boxes
  <2>1. \A i \in DOMAIN new : new[i] \in SearchCalls
    BY <1>1, <1>3, ElementOfSeq
  <2> QED
    BY <2>1 DEF SearchCalls
<1>5. \A i \in DOMAIN calls : calls[i].box \in Boxes
  <2>1. \A i \in DOMAIN calls : calls[i] \in SearchCalls
    BY <1>1, <1>3, ElementOfSeq
  <2> QED
    BY <2>1 DEF SearchCalls
<1>6. \A k \in DOMAIN all :
        /\ all[k].box \in Octants(t)
        /\ all[k].do = "leave" => all[k].box \in t.inner
  BY <1>2, <1>b DEF StackOK
<1>7. ASSUME NEW k \in DOMAIN all, NEW j \in DOMAIN all, k < j, all[j].do # "leave"
      PROVE  Apart(all[k].box, all[j].box)
  <2>1. CASE j \in DOMAIN new /\ all[j] = new[j]
    <3>1. k \in DOMAIN new /\ all[k] = new[k]
      BY <1>2, <1>b, <1>3, <1>7, <2>1
    <3> QED
      BY <1>7, <2>1, <3>1 DEF StackOK
  <2>2. ASSUME NEW i \in DOMAIN calls, i # 1, j = i - 1 + Len(new), all[j] = calls[i]
        PROVE  Apart(all[k].box, all[j].box)
    <3>1. CASE k \in DOMAIN new /\ all[k] = new[k]
      <4>0. 1 < i /\ calls[i].do # "leave"
        BY <1>3, <1>7, <2>2
      <4>1. Apart(calls[1].box, calls[i].box)
        BY <1>2, <1>b, <2>2, <4>0 DEF StackOK
      <4> QED
        BY <1>2, <1>b, <1>4, <1>5, <2>2, <3>1, <4>1, ApartWithin
    <3>2. ASSUME NEW h \in DOMAIN calls, h # 1, k = h - 1 + Len(new), all[k] = calls[h]
          PROVE  Apart(all[k].box, all[j].box)
      <4>1. h < i
        BY <1>3, <1>7, <2>2, <3>2
      <4> QED
        BY <1>7, <2>2, <3>2, <4>1 DEF StackOK
    <3> QED
      BY <1>2, <1>b, <3>1, <3>2
  <2> QED
    BY <1>2, <1>b, <2>1, <2>2
<1>8. StackOK(t, all)
  BY <1>2, <1>b, <1>6, <1>7 DEF StackOK
<1>9. ASSUME NEW l \in Boxes, Ahead(t, calls, l)
      PROVE  Ahead(t, all, l) \/ (Head(calls).do # "leave" /\ Within(l, Head(calls).box))
  <2>1. PICK i \in DOMAIN calls : calls[i].do # "leave" /\ Within(l, calls[i].box)
    BY <1>9 DEF Ahead
  <2>2. CASE i = 1
    BY <1>2, <1>b, <2>1, <2>2
  <2>3. CASE i # 1
    <3>1. i - 1 + Len(new) \in DOMAIN all /\ all[i - 1 + Len(new)] = calls[i]
      BY <1>2, <1>b, <2>3
    <3> QED
      BY <2>1, <3>1 DEF Ahead
  <2> QED
    BY <2>2, <2>3
<1>10. \A l \in Boxes : Ahead(t, new, l) => Ahead(t, all, l)
  BY <1>2, <1>b DEF Ahead
<1> QED
  BY <1>8, <1>9, <1>10

\* A call is done with.
LEMMA RestStack ==
  ASSUME NEW t, Searchable(t), NEW calls, StackOK(t, calls), calls # <<>>
  PROVE  /\ StackOK(t, <<>>) /\ StackOK(t, Tail(calls))
         /\ \A l \in Boxes :
              Ahead(t, calls, l) =>
                \/ Ahead(t, Tail(calls), l)
                \/ Head(calls).do # "leave" /\ Within(l, Head(calls).box)
<1> DEFINE new == <<>>
<1>1. StackOK(t, new)
  BY DEF StackOK
<1>2. \A i \in DOMAIN new : Within(new[i].box, Head(calls).box)
  OBVIOUS
<1>3. calls \in Seq(SearchCalls) /\ Tail(calls) \in Seq(SearchCalls)
  BY HeadTailProperties DEF StackOK
<1>4. Tail(calls) = new \o Tail(calls)
  BY <1>3, ConcatEmptySeq
<1> HIDE DEF new
<1>5. /\ StackOK(t, Tail(calls))
      /\ \A l \in Boxes :
           Ahead(t, calls, l) =>
             \/ Ahead(t, Tail(calls), l)
             \/ Head(calls).do # "leave" /\ Within(l, Head(calls).box)
  BY <1>1, <1>2, <1>4, ReplacedStack
<1> QED
  BY <1>1, <1>5 DEF new

\* What the calls say of the innermost one: a leaf still ahead is in its octant
\* or beside it.
LEMMA StackHead ==
  ASSUME NEW t, Searchable(t), NEW calls, StackOK(t, calls), calls # <<>>
  PROVE  /\ Head(calls) \in SearchCalls /\ Head(calls).box \in Octants(t)
         /\ Head(calls).box \in Boxes
         /\ Head(calls).do = "leave" => Head(calls).box \in t.inner
         /\ \A l \in Boxes :
              Ahead(t, calls, l) =>
                \/ Head(calls).do # "leave" /\ Within(l, Head(calls).box)
                \/ \E c \in Boxes : Apart(Head(calls).box, c) /\ Within(l, c)
<1>1. calls \in Seq(SearchCalls) /\ Len(calls) \in Nat \ {0} /\ DOMAIN calls = 1 .. Len(calls)
  BY LenProperties, EmptySeq DEF StackOK
<1>2. Head(calls) = calls[1] /\ 1 \in DOMAIN calls
  BY <1>1, HeadTailProperties
<1>3. \A i \in DOMAIN calls : calls[i] \in SearchCalls
  BY <1>1, ElementOfSeq
<1>4. \A i \in DOMAIN calls : calls[i].box \in Boxes
  BY <1>3 DEF SearchCalls
<1>5. ASSUME NEW l \in Boxes, Ahead(t, calls, l)
      PROVE  \/ Head(calls).do # "leave" /\ Within(l, Head(calls).box)
             \/ \E c \in Boxes : Apart(Head(calls).box, c) /\ Within(l, c)
  <2>1. PICK i \in DOMAIN calls : calls[i].do # "leave" /\ Within(l, calls[i].box)
    BY <1>5 DEF Ahead
  <2>2. CASE i = 1
    BY <1>2, <2>1, <2>2
  <2>3. CASE i # 1
    <3>1. 1 < i
      BY <1>1, <2>3
    <3>2. Apart(calls[1].box, calls[i].box)
      BY <1>2, <2>1, <3>1 DEF StackOK
    <3> QED
      BY <1>2, <1>4, <2>1, <3>2
  <2> QED
    BY <2>2, <2>3
<1>6. /\ Head(calls).box \in Octants(t)
      /\ Head(calls).do = "leave" => Head(calls).box \in t.inner
  BY <1>2 DEF StackOK
<1> QED
  BY <1>2, <1>3, <1>4, <1>5, <1>6

\* The ball of the best is inside an octant: what is apart from it is not
\* nearer, but for min_extent_.
LEMMA DoneMatches ==
  ASSUME NEW t, Searchable(t), NEW q \in Int, NEW b, b.pos \in Int,
         NEW o \in Boxes, Inside(q, Dist(b.pos, q), o),
         NEW c \in Boxes, Apart(o, c), NEW l \in DOMAIN t.leaves, Within(l, c),
         NEW p \in t.leaves[l]
  PROVE  Dist(b.pos, q) <= Dist(p.pos, q) + t.min_extent
<1>1. p \in Points /\ Dist(p.pos, c.x) <= c.extent + t.min_extent
  BY NearAbove DEF Searchable
<1>2. t.min_extent \in Nat /\ p.pos \in Int
  BY <1>1 DEF Searchable, TypesOK, FieldsOK, Points
<1>3. /\ o.extent - Dist(q, o.x) >= Dist(b.pos, q)
      /\ Dist(o.x, c.x) >= o.extent + c.extent
  BY DEF Inside, Apart
<1>4. Dist(p.pos, q) + Dist(q, o.x) >= o.extent - t.min_extent
  BY <1>1, <1>2, <1>3, BoxFields DEF Dist
<1>5. Dist(b.pos, q) \in Int /\ Dist(p.pos, q) \in Int /\ Dist(q, o.x) \in Int
  BY <1>2, BoxFields DEF Dist
<1> QED
  BY <1>2, <1>3, <1>4, <1>5, BoxFields

\* The points of a tree are stored ones.
LEMMA TreePointsOK ==
  ASSUME NEW t, Searchable(t), NEW p \in TreePoints(t)
  PROVE  p \in Points /\ p.pos \in Int /\ ~IsNew(p)
<1>1. p \in Points /\ ~IsNew(p)
  BY DEF TreePoints, Searchable, TypesOK, LeavesOK, LeafOK
<1> QED
  BY <1>1 DEF Points

\* A call that looks at a leaf or leaves an octant
LEMMA AfterOK ==
  ASSUME NEW t, Searchable(t), NEW s, SearchOK(t, s), s.calls # <<>>,
         NEW u, u.q = s.q, u.r = s.r, u.calls = After(s, u.best, Head(s.calls).box),
         u = [q |-> u.q, r |-> u.r, best |-> u.best, calls |-> u.calls],
         BestOK(t, u),
         \A l \in DOMAIN t.leaves : \A p \in t.leaves[l] :
           /\ Eligible(t, s, p)
           /\ Matched(t, s, p) \/ (Head(s.calls).do # "leave" /\ Within(l, Head(s.calls).box))
           => Matched(t, u, p)
  PROVE  SearchOK(t, u)
<1> DEFINE o == Head(s.calls).box
<1>1. StackOK(t, s.calls) /\ s.q \in Int /\ s.r \in Nat
  BY DEF SearchOK
<1>2. /\ o \in Boxes
      /\ \A l \in Boxes :
           Ahead(t, s.calls, l) =>
             \/ Head(s.calls).do # "leave" /\ Within(l, o)
             \/ \E c \in Boxes : Apart(o, c) /\ Within(l, c)
  BY <1>1, StackHead
<1>3. DOMAIN t.leaves \subseteq Boxes
  BY DEF Searchable, TypesOK, LeavesOK
<1>7. /\ StackOK(t, <<>>) /\ StackOK(t, Tail(s.calls))
      /\ \A l \in Boxes :
           Ahead(t, s.calls, l) =>
             \/ Ahead(t, Tail(s.calls), l)
             \/ Head(s.calls).do # "leave" /\ Within(l, o)
  BY <1>1, RestStack
<1>8. ASSUME NEW l \in DOMAIN t.leaves, NEW p \in t.leaves[l], Eligible(t, s, p)
      PROVE  Matched(t, u, p) \/ Ahead(t, u.calls, l)
  <2>1. Matched(t, s, p) \/ Ahead(t, s.calls, l)
    BY <1>8 DEF SearchOK
  <2>2. CASE Matched(t, s, p) \/ (Head(s.calls).do # "leave" /\ Within(l, o))
    BY <1>8, <2>2
  <2>3. CASE IsDone(s, u.best, o) /\ \E c \in Boxes : Apart(o, c) /\ Within(l, c)
    <3>1. PICK b \in u.best : Inside(s.q, Dist(b.pos, s.q), o)
      BY <2>3 DEF IsDone
    <3>2. b.pos \in Int
      BY TreePointsOK DEF BestOK
    <3>3. Dist(b.pos, s.q) <= Dist(p.pos, s.q) + t.min_extent
      BY <1>1, <1>2, <2>3, <3>1, <3>2, DoneMatches
    <3> QED
      BY <3>3 DEF Matched
  <2>4. CASE ~IsDone(s, u.best, o) /\ Ahead(t, s.calls, l)
    <3>1. u.calls = Tail(s.calls)
      BY <2>4 DEF After
    <3> QED
      BY <1>3, <1>7, <2>2, <2>4, <3>1
  <2> QED
    BY <1>2, <1>3, <2>1, <2>2, <2>3, <2>4
<1>9. StackOK(t, u.calls)
  BY <1>7 DEF After
<1>10. \A p : Eligible(t, u, p) <=> Eligible(t, s, p)
  BY DEF Eligible
<1> QED
  BY <1>1, <1>8, <1>9, <1>10 DEF SearchOK

\* Leaving an octant keeps what is known of the search.
LEMMA LeaveOK ==
  ASSUME NEW t, Searchable(t), NEW s, SearchOK(t, s), s.calls # <<>>,
         NEW u, LeaveOctant(s, u)
  PROVE  SearchOK(t, u)
<1>1. s = [q |-> s.q, r |-> s.r, best |-> s.best, calls |-> s.calls]
  BY DEF SearchOK
<1>2. /\ Head(s.calls).do = "leave"
      /\ u = [s EXCEPT !.calls = After(s, s.best, Head(s.calls).box)]
  BY DEF LeaveOctant
<1>3. /\ u.q = s.q /\ u.r = s.r /\ u.best = s.best
      /\ u.calls = After(s, u.best, Head(s.calls).box)
      /\ u = [q |-> u.q, r |-> u.r, best |-> u.best, calls |-> u.calls]
  BY <1>1, <1>2
<1>4. BestOK(t, u)
  BY <1>3 DEF SearchOK, BestOK
<1>5. \A p : Matched(t, s, p) => Matched(t, u, p)
  BY <1>3 DEF Matched
<1> QED
  BY <1>2, <1>3, <1>4, <1>5, AfterOK

\* Distances are integers.
LEMMA DistType == \A a, b \in Int : Dist(a, b) \in Int
BY DEF Dist

\* A leaf's points are all looked at.
LEMMA VisitLeafOK ==
  ASSUME NEW t, Searchable(t), NEW s, SearchOK(t, s), s.calls # <<>>,
         NEW u, VisitLeaf(t, s, u)
  PROVE  SearchOK(t, u)
<1> DEFINE o == Head(s.calls).box
           nearer == {p \in t.leaves[o] :
                        /\ p.pos # s.q /\ Dist(p.pos, s.q) <= s.r
                        /\ \A b \in s.best : Dist(p.pos, s.q) < Dist(b.pos, s.q)}
<1>1. s = [q |-> s.q, r |-> s.r, best |-> s.best, calls |-> s.calls]
      /\ StackOK(t, s.calls) /\ s.q \in Int /\ s.r \in Nat
  BY DEF SearchOK
<1>2. PICK best :
        /\ o \notin t.inner
        /\ nearer = {} => best = s.best
        /\ nearer # {} =>
             \E p \in nearer :
               /\ best = {p}
               /\ \A x \in nearer :
                    x = p \/ Dist(p.pos, s.q) < Dist(x.pos, s.q)
                      \/ (Dist(p.pos, s.q) = Dist(x.pos, s.q) /\ Precedes(p, x))
        /\ u = [s EXCEPT !.best = best, !.calls = After(s, best, o)]
  BY DEF VisitLeaf
<1>3. /\ u.q = s.q /\ u.r = s.r /\ u.best = best
      /\ u.calls = After(s, u.best, o)
      /\ u = [q |-> u.q, r |-> u.r, best |-> u.best, calls |-> u.calls]
  BY <1>1, <1>2
<1>4. o \in DOMAIN t.leaves /\ o \in Boxes /\ o \in Octants(t)
  BY <1>1, <1>2, StackHead DEF Octants
<1>5. t.leaves[o] \subseteq TreePoints(t)
  BY <1>4 DEF TreePoints
<1>6. \A p \in TreePoints(t) : p.pos \in Int
  BY TreePointsOK
<1>7. BestOK(t, u)
  BY <1>1, <1>2, <1>3, <1>5 DEF SearchOK, BestOK
<1>m. t.min_extent \in Nat
  BY DEF Searchable, TypesOK, FieldsOK
<1>8. ASSUME NEW p \in TreePoints(t), Matched(t, s, p) PROVE Matched(t, u, p)
  <2>1. PICK b \in s.best : Dist(b.pos, s.q) <= Dist(p.pos, s.q) + t.min_extent
    BY <1>8 DEF Matched
  <2>2. CASE nearer = {}
    BY <1>2, <1>3, <2>1, <2>2 DEF Matched
  <2>3. CASE nearer # {}
    <3>1. PICK x \in nearer : best = {x}
      BY <1>2, <2>3
    <3>2. Dist(x.pos, s.q) < Dist(b.pos, s.q)
      OBVIOUS
    <3>3. b.pos \in Int /\ x.pos \in Int
      BY <1>5, <1>6 DEF SearchOK, BestOK
    <3>4. Dist(x.pos, s.q) <= Dist(p.pos, s.q) + t.min_extent
      <4>1. Dist(x.pos, s.q) \in Int /\ Dist(b.pos, s.q) \in Int
        BY <1>1, <3>3, DistType
      <4>2. p.pos \in Int
        BY <1>6
      <4>3. Dist(p.pos, s.q) \in Int
        BY <1>1, <4>2, DistType
      <4> QED
        BY <1>m, <2>1, <3>2, <4>1, <4>3
    <3> QED
      BY <1>3, <3>1, <3>4 DEF Matched
  <2> QED
    BY <2>2, <2>3
<1>9. ASSUME NEW p \in t.leaves[o], Eligible(t, s, p) PROVE Matched(t, u, p)
  <2>1. p.pos \in Int /\ p \in TreePoints(t)
    BY <1>5, <1>6
  <2>2. p.pos # s.q /\ Dist(p.pos, s.q) <= s.r
    BY <1>1, <1>9, <1>m, <2>1 DEF Eligible, Dist
  <2>3. CASE p \in nearer
    <3>1. PICK x \in nearer :
            /\ best = {x}
            /\ x = p \/ Dist(x.pos, s.q) < Dist(p.pos, s.q) \/ Dist(x.pos, s.q) = Dist(p.pos, s.q)
      BY <1>2, <2>3
    <3>2. x.pos \in Int
      BY <1>5, <1>6
    <3>3. Dist(x.pos, s.q) \in Int /\ Dist(p.pos, s.q) \in Int
      BY <1>1, <2>1, <3>2, DistType
    <3>4. Dist(x.pos, s.q) <= Dist(p.pos, s.q) + t.min_extent
      BY <1>m, <3>1, <3>3
    <3> QED
      BY <1>3, <3>1, <3>4 DEF Matched
  <2>4. CASE p \notin nearer
    <3>1. PICK b \in s.best : ~(Dist(p.pos, s.q) < Dist(b.pos, s.q))
      BY <2>2, <2>4
    <3>2. b.pos \in Int
      BY <1>6 DEF SearchOK, BestOK
    <3>3. Dist(b.pos, s.q) \in Int /\ Dist(p.pos, s.q) \in Int
      BY <1>1, <2>1, <3>2, DistType
    <3>4. Dist(b.pos, s.q) <= Dist(p.pos, s.q) + t.min_extent
      BY <1>m, <3>1, <3>3
    <3> QED
      BY <1>8, <2>1, <3>4 DEF Matched
  <2> QED
    BY <2>3, <2>4
<1>10. \A l \in DOMAIN t.leaves : Within(l, o) => l = o
  <2>1. Shape(t.root, Octants(t), t.inner)
    BY <1>4 DEF Searchable, BoxesOK, TypesOK, RootOK
  <2> QED
    BY <1>2, <1>4, <2>1 DEF Shape, Octants
<1>11. \A l \in DOMAIN t.leaves : \A p \in t.leaves[l] :
         /\ Eligible(t, s, p)
         /\ Matched(t, s, p) \/ (Head(s.calls).do # "leave" /\ Within(l, o))
         => Matched(t, u, p)
  BY <1>8, <1>9, <1>10 DEF TreePoints
<1> HIDE DEF nearer
<1> QED
  BY <1>3, <1>7, <1>11, AfterOK

\* What is not looked into has nothing nearer, but for min_extent_.
LEMMA TryOtherOK ==
  ASSUME NEW t, Searchable(t), NEW s, SearchOK(t, s), s.calls # <<>>,
         NEW u, TryOther(s, u)
  PROVE  SearchOK(t, u)
<1> DEFINE call == Head(s.calls)
           o == call.box
           other == <<[call EXCEPT !.do = "visit"]>>
<1>1. s = [q |-> s.q, r |-> s.r, best |-> s.best, calls |-> s.calls]
      /\ StackOK(t, s.calls) /\ s.q \in Int /\ s.r \in Nat
  BY DEF SearchOK
<1>2. /\ call.do = "try"
      /\ u = [s EXCEPT !.calls = IF MayBeNearer(s, o) THEN other \o Tail(s.calls)
                                                      ELSE Tail(s.calls)]
  BY DEF TryOther
<1>3. /\ u.q = s.q /\ u.r = s.r /\ u.best = s.best
      /\ u.calls = IF MayBeNearer(s, o) THEN other \o Tail(s.calls) ELSE Tail(s.calls)
      /\ u = [q |-> u.q, r |-> u.r, best |-> u.best, calls |-> u.calls]
  BY <1>1, <1>2
<1>4. call \in SearchCalls /\ o \in Octants(t) /\ o \in Boxes
  BY <1>1, StackHead
<1>5. BestOK(t, u)
  BY <1>3 DEF SearchOK, BestOK
<1>6. \A p : /\ Matched(t, s, p) => Matched(t, u, p)
             /\ Eligible(t, s, p) <=> Eligible(t, u, p)
  BY <1>3 DEF Matched, Eligible
<1>7. DOMAIN t.leaves \subseteq Boxes
  BY DEF Searchable, TypesOK, LeavesOK
<1>8. CASE MayBeNearer(s, o)
  <2>1. other \in Seq(SearchCalls) /\ Len(other) = 1 /\ DOMAIN other = {1}
        /\ other[1] = [call EXCEPT !.do = "visit"]
    <3>1. [call EXCEPT !.do = "visit"] \in SearchCalls
      BY <1>4 DEF SearchCalls, Dos
    <3> QED
      BY <3>1
  <2>2. other[1].do = "visit" /\ other[1].box = o
    BY <1>4, <2>1 DEF SearchCalls
  <2>3. StackOK(t, other) /\ \A i \in DOMAIN other : Within(other[i].box, o)
    BY <1>4, <2>1, <2>2, WithinSelf DEF StackOK
  <2>4. \A l : Within(l, o) => Ahead(t, other, l)
    BY <2>1, <2>2 DEF Ahead
  <2>5. u.calls = other \o Tail(s.calls)
    BY <1>3, <1>8
  <2> HIDE DEF other, call
  <2>6. /\ StackOK(t, u.calls)
        /\ \A l \in Boxes : Ahead(t, s.calls, l) => Ahead(t, u.calls, l)
    BY <1>1, <2>3, <2>4, <2>5, ReplacedStack DEF call
  <2> QED
    BY <1>1, <1>3, <1>5, <1>6, <1>7, <2>6 DEF SearchOK
<1>9. CASE ~MayBeNearer(s, o)
  <2>1. u.calls = Tail(s.calls)
    BY <1>3, <1>9
  <2>2. /\ StackOK(t, u.calls)
        /\ \A l \in Boxes : Ahead(t, s.calls, l) => Ahead(t, u.calls, l) \/ Within(l, o)
    BY <1>1, <2>1, RestStack
  <2>3. ASSUME NEW l \in DOMAIN t.leaves, NEW p \in t.leaves[l], Eligible(t, s, p), Within(l, o)
        PROVE  Matched(t, s, p)
    <3>1. p \in Points /\ Dist(p.pos, o.x) <= o.extent + t.min_extent
      BY <1>4, <2>3, NearAbove DEF Searchable
    <3>2. p.pos \in Int /\ t.min_extent \in Nat
      BY <3>1 DEF Points, Searchable, TypesOK, FieldsOK
    <3>3. /\ Dist(s.q, o.x) - o.extent <= Dist(p.pos, s.q) + t.min_extent
          /\ Dist(p.pos, s.q) \in Nat /\ Dist(s.q, o.x) - o.extent \in Int
      <4>1. o.x \in Int /\ o.extent \in Int /\ s.q \in Int
        BY <1>1, <1>4, BoxFields
      <4>2. Dist(s.q, o.x) <= Dist(p.pos, s.q) + Dist(p.pos, o.x)
        BY <3>2, <4>1 DEF Dist
      <4>3. Dist(p.pos, s.q) \in Nat /\ Dist(s.q, o.x) \in Int /\ Dist(p.pos, o.x) \in Int
        BY <3>2, <4>1 DEF Dist
      <4> QED
        BY <3>1, <3>2, <4>1, <4>2, <4>3
    <3>4. Dist(p.pos, s.q) < s.r - t.min_extent
      BY <2>3 DEF Eligible
    <3>5. Overlaps(s.q, s.r, o)
      BY <1>1, <3>2, <3>3, <3>4 DEF Overlaps
    <3>6. PICK b \in s.best : ~Overlaps(s.q, Dist(b.pos, s.q), o)
      BY <1>9, <3>5 DEF MayBeNearer
    <3>7. b.pos \in Int /\ b.pos # s.q
      BY TreePointsOK DEF SearchOK, BestOK
    <3>8. Dist(b.pos, s.q) \in Nat \ {0}
      BY <1>1, <3>7 DEF Dist
    <3>9. Dist(b.pos, s.q) <= Dist(s.q, o.x) - o.extent
      BY <3>3, <3>6, <3>8 DEF Overlaps
    <3>10. Dist(b.pos, s.q) <= Dist(p.pos, s.q) + t.min_extent
      BY <3>2, <3>3, <3>8, <3>9
    <3> QED
      BY <3>10 DEF Matched
  <2> QED
    BY <1>1, <1>3, <1>5, <1>6, <1>7, <2>2, <2>3 DEF SearchOK
<1> QED
  BY <1>8, <1>9

-----------------------------------------------------------------------------
(* A visit of an octant with children *)

\* The calls for the children and for leaving their octant
ChildCalls(t, a, own) ==
  LET On(do, side) ==
        IF Child(a, side) \in Octants(t) THEN <<[do |-> do, box |-> Child(a, side)]>> ELSE <<>>
  IN  On("visit", own) \o On("try", 1 - own) \o <<[do |-> "leave", box |-> a]>>

\* Two calls for children, where there are any, and one to leave
LEMMA ShortSequences ==
  ASSUME NEW S, NEW v \in S, NEW w \in S, NEW l \in S
  PROVE  /\ <<v>> \o <<w>> \o <<l>> = <<v, w, l>>
         /\ <<v>> \o <<>> \o <<l>> = <<v, l>>
         /\ <<>> \o <<w>> \o <<l>> = <<w, l>>
         /\ <<>> \o <<>> \o <<l>> = <<l>>
<1>1. \A x, y \in S : <<x>> \o <<y>> = <<x, y>>
  <2> TAKE x, y \in S
  <2>1. <<x>> \in Seq(S) /\ <<y>> \in Seq(S) /\ <<x, y>> \in Seq(S)
    OBVIOUS
  <2>2. <<x>> \o <<y>> \in Seq(S) /\ Len(<<x>> \o <<y>>) = 2
        /\ \A i \in 1 .. 2 : (<<x>> \o <<y>>)[i] = <<x, y>>[i]
    BY <2>1, ConcatProperties
  <2> QED
    BY <2>1, <2>2, SeqEqual
<1>2. <<v>> \o <<w>> \o <<l>> = <<v, w, l>>
  <2>1. <<v, w>> \in Seq(S) /\ <<l>> \in Seq(S) /\ <<v, w, l>> \in Seq(S)
    OBVIOUS
  <2>2. <<v, w>> \o <<l>> \in Seq(S) /\ Len(<<v, w>> \o <<l>>) = 3
        /\ \A i \in 1 .. 3 : (<<v, w>> \o <<l>>)[i] = <<v, w, l>>[i]
    BY <2>1, ConcatProperties
  <2> QED
    BY <1>1, <2>1, <2>2, SeqEqual
<1>3. <<v>> \in Seq(S) /\ <<w>> \in Seq(S) /\ <<l>> \in Seq(S) /\ <<>> \in Seq(S)
  OBVIOUS
<1> QED
  BY <1>1, <1>2, <1>3, ConcatEmptySeq

\* The calls for the children of an octant are for all of them.
LEMMA ChildCallsOK ==
  ASSUME NEW t, Searchable(t), NEW a \in t.inner, NEW own \in {0, 1}
  PROVE  /\ StackOK(t, ChildCalls(t, a, own))
         /\ \A i \in DOMAIN ChildCalls(t, a, own) : Within(ChildCalls(t, a, own)[i].box, a)
         /\ \A side \in {0, 1} :
              Child(a, side) \in Octants(t) =>
                \E i \in DOMAIN ChildCalls(t, a, own) :
                  /\ ChildCalls(t, a, own)[i].do # "leave"
                  /\ ChildCalls(t, a, own)[i].box = Child(a, side)
<1> DEFINE new == ChildCalls(t, a, own)
           b == Child(a, own)
           c == Child(a, 1 - own)
           v == [do |-> "visit", box |-> b]
           w == [do |-> "try", box |-> c]
           l == [do |-> "leave", box |-> a]
<1>1. a \in Boxes /\ a.extent % 2 = 0 /\ a \in Octants(t)
  BY DEF Searchable, TypesOK, FieldsOK, ExtentsOK, Octants
<1>2. 1 - own \in {0, 1} /\ own # 1 - own
  OBVIOUS
<1>3. /\ b \in Boxes /\ Within(b, a) /\ c \in Boxes /\ Within(c, a) /\ Within(a, a)
      /\ Apart(b, c)
  BY <1>1, <1>2, ChildWithin, ChildrenApart, WithinSelf
<1>4. \A side \in {0, 1} : Child(a, side) \in {b, c}
  BY <1>2
<1>5. v \in SearchCalls /\ w \in SearchCalls /\ l \in SearchCalls
  BY <1>1, <1>3 DEF SearchCalls, Dos
<1>6. new = (IF b \in Octants(t) THEN <<v>> ELSE <<>>)
              \o (IF c \in Octants(t) THEN <<w>> ELSE <<>>) \o <<l>>
  BY DEF ChildCalls
<1>7. /\ v.do = "visit" /\ v.box = b /\ w.do = "try" /\ w.box = c
      /\ l.do = "leave" /\ l.box = a
  OBVIOUS
<1> SUFFICES /\ StackOK(t, new)
             /\ \A i \in DOMAIN new : Within(new[i].box, a)
             /\ b \in Octants(t) => \E i \in DOMAIN new : new[i].do # "leave" /\ new[i].box = b
             /\ c \in Octants(t) => \E i \in DOMAIN new : new[i].do # "leave" /\ new[i].box = c
  BY <1>4
<1> HIDE DEF new, b, c, v, w, l
<1>8. CASE b \in Octants(t) /\ c \in Octants(t)
  <2>1. new = <<v, w, l>>
    <3>1. new = <<v>> \o <<w>> \o <<l>>
      BY <1>6, <1>8
    <3>2. <<v>> \o <<w>> \o <<l>> = <<v, w, l>>
      BY <1>5, ShortSequences
    <3> QED
      BY <3>1, <3>2
  <2>2. new \in Seq(SearchCalls) /\ DOMAIN new = 1 .. 3 /\ new[1] = v /\ new[2] = w /\ new[3] = l
    BY <1>5, <2>1
  <2>3. \A i \in DOMAIN new : i = 1 \/ i = 2 \/ i = 3
    BY <2>2
  <2>4. \A i, j \in DOMAIN new : i < j /\ new[j].do # "leave" => i = 1 /\ j = 2
    BY <1>7, <2>2, <2>3
  <2>5. 1 \in DOMAIN new /\ 2 \in DOMAIN new
    BY <2>2
  <2>6. StackOK(t, new)
    BY <1>1, <1>3, <1>7, <1>8, <2>2, <2>3, <2>4 DEF StackOK
  <2> QED
    BY <1>1, <1>3, <1>7, <1>8, <2>2, <2>3, <2>5, <2>6
<1>9. CASE b \in Octants(t) /\ c \notin Octants(t)
  <2>1. new = <<v, l>>
    BY <1>5, <1>6, <1>9, ShortSequences
  <2>2. new \in Seq(SearchCalls) /\ DOMAIN new = 1 .. 2 /\ new[1] = v /\ new[2] = l
    BY <1>5, <2>1
  <2>3. \A i \in DOMAIN new : i = 1 \/ i = 2
    BY <2>2
  <2>4. \A i, j \in DOMAIN new : i < j => j = 2
    BY <2>3
  <2>5. 1 \in DOMAIN new
    BY <2>2
  <2>6. StackOK(t, new)
    BY <1>1, <1>7, <1>9, <2>2, <2>3, <2>4 DEF StackOK
  <2> QED
    BY <1>1, <1>3, <1>7, <1>9, <2>2, <2>3, <2>5, <2>6
<1>10. CASE b \notin Octants(t) /\ c \in Octants(t)
  <2>1. new = <<w, l>>
    BY <1>5, <1>6, <1>10, ShortSequences
  <2>2. new \in Seq(SearchCalls) /\ DOMAIN new = 1 .. 2 /\ new[1] = w /\ new[2] = l
    BY <1>5, <2>1
  <2>3. \A i \in DOMAIN new : i = 1 \/ i = 2
    BY <2>2
  <2>4. \A i, j \in DOMAIN new : i < j => j = 2
    BY <2>3
  <2>5. 1 \in DOMAIN new
    BY <2>2
  <2>6. StackOK(t, new)
    BY <1>1, <1>7, <1>10, <2>2, <2>3, <2>4 DEF StackOK
  <2> QED
    BY <1>1, <1>3, <1>7, <1>10, <2>2, <2>3, <2>5, <2>6
<1>11. CASE b \notin Octants(t) /\ c \notin Octants(t)
  <2>1. new = <<l>>
    BY <1>5, <1>6, <1>11, ShortSequences
  <2>2. new \in Seq(SearchCalls) /\ DOMAIN new = {1} /\ new[1] = l
    BY <1>5, <2>1
  <2>6. StackOK(t, new)
    BY <1>1, <1>7, <2>2 DEF StackOK
  <2> QED
    BY <1>3, <1>7, <1>11, <2>2, <2>6
<1> QED
  BY <1>8, <1>9, <1>10, <1>11

\* What is in an octant is in one of its children.
LEMMA VisitInnerOK ==
  ASSUME NEW t, Searchable(t), NEW s, SearchOK(t, s), s.calls # <<>>,
         NEW u, VisitInner(t, s, u)
  PROVE  SearchOK(t, u)
<1> DEFINE a == Head(s.calls).box
           new == ChildCalls(t, a, SideOf(a, s.q))
<1>1. s = [q |-> s.q, r |-> s.r, best |-> s.best, calls |-> s.calls]
      /\ StackOK(t, s.calls) /\ s.q \in Int /\ s.r \in Nat
  BY DEF SearchOK
<1>2. a \in t.inner /\ SideOf(a, s.q) \in {0, 1}
  BY DEF VisitInner, SideOf
<1>3. new \in Seq(SearchCalls) /\ Tail(s.calls) \in Seq(SearchCalls)
  BY <1>1, <1>2, ChildCallsOK, HeadTailProperties DEF StackOK
<1>4. u = [s EXCEPT !.calls = new \o Tail(s.calls)]
  <2> DEFINE On(do, side) ==
               IF Child(a, side) \in Octants(t)
                 THEN <<[do |-> do, box |-> Child(a, side)]>> ELSE <<>>
             own == SideOf(a, s.q)
             x == On("visit", own)
             y == On("try", 1 - own)
             z == <<[do |-> "leave", box |-> a]>>
  <2>1. u = [s EXCEPT !.calls = x \o y \o z \o Tail(s.calls)]
    BY DEF VisitInner
  <2>2. new = x \o y \o z
    BY DEF ChildCalls
  <2> QED
    BY <2>1, <2>2
<1> HIDE DEF new
<1>5. /\ u.q = s.q /\ u.r = s.r /\ u.best = s.best
      /\ u.calls = new \o Tail(s.calls)
      /\ u = [q |-> u.q, r |-> u.r, best |-> u.best, calls |-> u.calls]
  BY <1>1, <1>4
<1>6. /\ StackOK(t, new) /\ \A i \in DOMAIN new : Within(new[i].box, a)
      /\ \A side \in {0, 1} :
           Child(a, side) \in Octants(t) =>
             \E i \in DOMAIN new : new[i].do # "leave" /\ new[i].box = Child(a, side)
  BY <1>2, ChildCallsOK DEF new
<1>7. BestOK(t, u)
  BY <1>5 DEF SearchOK, BestOK
<1>8. \A p : /\ Matched(t, s, p) => Matched(t, u, p)
             /\ Eligible(t, s, p) <=> Eligible(t, u, p)
  BY <1>5 DEF Matched, Eligible
<1>9. DOMAIN t.leaves \subseteq Boxes
  BY DEF Searchable, TypesOK, LeavesOK
<1>10. ASSUME NEW l \in DOMAIN t.leaves, Within(l, a) PROVE Ahead(t, new, l)
  <2>1. t.root # NoBox
    BY <1>2 DEF Searchable, TypesOK, RootOK
  <2>2. Shape(t.root, Octants(t), t.inner) /\ l # a /\ l \in Octants(t) /\ a \in Octants(t)
    BY <1>2, <2>1 DEF Searchable, BoxesOK, Octants
  <2>3. PICK side \in {0, 1} : Child(a, side) \in Octants(t) /\ Within(l, Child(a, side))
    BY <1>10, <2>2 DEF Shape
  <2> QED
    BY <1>6, <2>3 DEF Ahead
<1>11. /\ StackOK(t, u.calls)
       /\ \A l \in Boxes : Ahead(t, s.calls, l) => Ahead(t, u.calls, l) \/ Within(l, a)
       /\ \A l \in Boxes : Ahead(t, new, l) => Ahead(t, u.calls, l)
  BY <1>1, <1>5, <1>6, ReplacedStack
<1>12. \A l \in DOMAIN t.leaves : Ahead(t, s.calls, l) => Ahead(t, u.calls, l)
  BY <1>9, <1>10, <1>11
<1> QED
  BY <1>1, <1>5, <1>7, <1>8, <1>11, <1>12 DEF SearchOK

\* Every step of a search keeps what is known of it (ioctree.h:1280-1319).
LEMMA SearchStepOK ==
  ASSUME NEW t, Searchable(t), NEW s, SearchOK(t, s), NEW u, NearestStep(t, s, u)
  PROVE  SearchOK(t, u)
BY LeaveOK, VisitLeafOK, TryOtherOK, VisitInnerOK DEF NearestStep

\* Nothing is claimed of no search.
LEMMA NoSearchOK ==
  ASSUME NEW t, TypesOK(t)
  PROVE  SearchOK(t, NoSearch)
<1>1. /\ NoSearch = [q |-> NoSearch.q, r |-> NoSearch.r, best |-> NoSearch.best,
                     calls |-> NoSearch.calls]
      /\ NoSearch.q = 0 /\ NoSearch.r = 0 /\ NoSearch.best = {} /\ NoSearch.calls = <<>>
  BY DEF NoSearch
<1>2. StackOK(t, <<>>)
  BY DEF StackOK
<1>3. ASSUME NEW l \in DOMAIN t.leaves, NEW p \in t.leaves[l] PROVE ~Eligible(t, NoSearch, p)
  <2>1. p.pos \in Int /\ t.min_extent \in Nat
    BY DEF TypesOK, LeavesOK, LeafOK, FieldsOK, Points
  <2> QED
    BY <1>1, <2>1 DEF Eligible, Dist
<1> QED
  BY <1>1, <1>2, <1>3 DEF SearchOK, BestOK

\* A search that starts has all of the tree ahead.
LEMMA StartSearchOK ==
  ASSUME NEW t, Searchable(t), t.root # NoBox, NEW q \in Int, NEW r \in Nat
  PROVE  SearchOK(t, StartNearest(t, q, r))
<1> DEFINE s == StartNearest(t, q, r)
           call == [do |-> "visit", box |-> t.root]
<1>1. s.q = q /\ s.r = r /\ s.best = {} /\ s.calls = <<call>>
      /\ s = [q |-> s.q, r |-> s.r, best |-> s.best, calls |-> s.calls]
  BY DEF StartNearest
<1>2. t.root \in Octants(t) /\ t.root \in Boxes /\ Shape(t.root, Octants(t), t.inner)
  BY DEF Searchable, BoxesOK, TypesOK, FieldsOK, Idle
<1>3. call \in SearchCalls /\ call.do = "visit" /\ call.box = t.root
  BY <1>2 DEF SearchCalls, Dos
<1> HIDE DEF call, s
<1>4. s.calls \in Seq(SearchCalls) /\ DOMAIN s.calls = {1} /\ s.calls[1] = call
  BY <1>1, <1>3
<1>5. StackOK(t, s.calls)
  BY <1>2, <1>3, <1>4 DEF StackOK
<1>6. \A l \in DOMAIN t.leaves : Ahead(t, s.calls, l)
  BY <1>2, <1>3, <1>4 DEF Ahead, Shape, Octants
<1>7. SearchOK(t, s)
  BY <1>1, <1>5, <1>6 DEF SearchOK, BestOK
<1> QED
  BY <1>7 DEF s

\* The answer of a search
LEMMA AnswerOK ==
  ASSUME NEW t, NEW s, SearchOK(t, s), s.calls = <<>>
  PROVE  /\ \A b \in s.best : b \in TreePoints(t) /\ Dist(b.pos, s.q) <= s.r
         /\ \A p \in TreePoints(t) :
              p.pos # s.q /\ Dist(p.pos, s.q) < s.r - t.min_extent =>
                \E b \in s.best : Dist(b.pos, s.q) <= Dist(p.pos, s.q) + t.min_extent
<1>1. \A l : ~Ahead(t, s.calls, l)
  BY DEF Ahead
<1> QED
  BY <1>1 DEF SearchOK, BestOK, TreePoints, Matched, Eligible

-----------------------------------------------------------------------------
(* Lists, which are numbered from 1 but maybe not without gaps *)

IsList(f, S) ==
  /\ DOMAIN f \subseteq Nat \ {0} /\ IsFiniteSet(DOMAIN f)
  /\ \A k \in DOMAIN f : f[k] \in S

Values(f) == {f[k] : k \in DOMAIN f}

\* A cloud with the points that were stored
Enlarged(m, added, list) == m \o [k \in DOMAIN added |-> list[added[k] + 1]]

\* An empty list has no values.
LEMMA NoValues == Values(<<>>) = {}
BY DEF Values

\* A list's points
LEMMA NewPointsOK ==
  ASSUME NEW list, IsList(list, Int)
  PROVE  /\ NewPoints(list) \in SUBSET Points /\ IsFiniteSet(NewPoints(list))
<1> DEFINE f == [i \in DOMAIN list |-> [pos |-> list[i], idx |-> -i]]
<1>1. NewPoints(list) \in SUBSET Points
  BY DEF NewPoints, IsList, Points
<1>2. f \in Surjection(DOMAIN list, NewPoints(list))
  BY DEF Surjection, NewPoints
<1>3. IsFiniteSet(NewPoints(list))
  BY <1>2, FS_Surjection DEF IsList
<1> QED
  BY <1>1, <1>3

-----------------------------------------------------------------------------
(* The map *)

\* What is known of the map's octree, its cloud, the bin that goes into it, the
\* search and the points offered before
MapOK(t, m, list, s, off) ==
  /\ TypesOK(t) /\ NearOK(t) /\ BoxesOK(t) /\ t.min_extent = MinExtent
  /\ NumbersOK(t, m, list) /\ m \in Seq(Positions) /\ IsList(list, Positions)
  /\ off \subseteq Positions
  /\ \A v \in off \cup Values(list) : Covered(t, v)
  /\ list = <<>> => Idle(t) /\ t.added = <<>> /\ t.bounds = <<>>
  /\ SearchOK(t, s) /\ (s # NoSearch => list = <<>>)

\* The map's cloud has integer positions.
LEMMA IntSequence ==
  ASSUME NEW m \in Seq(Positions)
  PROVE  m \in Seq(Int)
BY SeqMonotonic, MapOctreeAssumption

\* A tree without a root
LEMMA EmptyTreeOK ==
  ASSUME NEW min \in Nat \ {0}
  PROVE  LET t == EmptyTree(min)
         IN  /\ TypesOK(t) /\ NearOK(t) /\ BoxesOK(t)
             /\ NumbersOK(t, <<>>, <<>>)
             /\ t.min_extent = min /\ Idle(t) /\ t.added = <<>> /\ t.bounds = <<>>
<1> DEFINE t == EmptyTree(min)
<1>1. /\ t.min_extent = min /\ t.bucket = 1 /\ t.root = NoBox /\ t.leaves = <<>>
      /\ t.inner = {} /\ t.bounds = <<>> /\ t.todo = {} /\ t.added = <<>> /\ t.num = 0
      /\ IsTree(t)
  BY DEF EmptyTree, IsTree
<1> HIDE DEF t
<1>2. DOMAIN t.leaves = {} /\ Octants(t) = {} /\ Len(t.added) = 0 /\ DOMAIN t.added = {}
      /\ DOMAIN t.bounds = {}
  BY <1>1 DEF Octants
<1>3. TypesOK(t)
  BY <1>1, <1>2, OctreeAssumption DEF TypesOK, FieldsOK, LeavesOK, CallsOK, ExtentsOK, RootOK
<1>4. NearOK(t) /\ BoxesOK(t)
  BY <1>1, <1>2 DEF NearOK, BoxesOK
<1>5. AllPoints(t) = {}
  BY <1>1, <1>2 DEF AllPoints, TreePoints
<1>6. NumbersOK(t, <<>>, <<>>)
  BY <1>1, <1>2, <1>5 DEF NumbersOK
<1> QED
  BY <1>1, <1>3, <1>4, <1>6 DEF t, Idle

\* Nothing happens to a tree without anything to do.
LEMMA NoStepWhenDone ==
  ASSUME NEW t, NEW u, Idle(t), t.bounds = <<>>
  PROVE  ~UpdateStep(t, u)
BY DEF UpdateStep, GrowRoot, PassDown, SplitLeaf, TakePoint, EndLeaf, Idle

\* The map at the start
LEMMA MapStarts ==
  MapOK(EmptyTree(MinExtent), <<>>, <<>>, NoSearch, {})
<1>1. MinExtent \in Nat \ {0}
  BY MapOctreeAssumption
<1>2. SearchOK(EmptyTree(MinExtent), NoSearch)
  BY <1>1, EmptyTreeOK, NoSearchOK
<1>3. IsList(<<>>, Positions)
  BY FS_EmptySet DEF IsList
<1>4. <<>> \in Seq(Positions)
  OBVIOUS
<1> QED
  BY <1>1, <1>2, <1>3, <1>4, EmptyTreeOK, NoValues DEF MapOK

\* The insertion of a bin starts ...
LEMMA MapBinStarts ==
  ASSUME NEW t, NEW u, NEW m, NEW off, NEW list, NEW size \in BucketSizes,
         MapOK(t, m, <<>>, NoSearch, off), IsList(list, Positions),
         StartUpdate(t, u, NewPoints(list), BucketSize(size))
  PROVE  MapOK(u, m, list, NoSearch, off)
<1>1. /\ TypesOK(t) /\ NearOK(t) /\ BoxesOK(t) /\ t.min_extent = MinExtent
      /\ NumbersOK(t, m, <<>>) /\ m \in Seq(Positions) /\ off \subseteq Positions
      /\ \A v \in off : Covered(t, v)
      /\ Idle(t) /\ t.added = <<>>
  BY DEF MapOK
<1>2. Positions \subseteq Int /\ BucketSizes \subseteq Nat \ {0}
  BY MapOctreeAssumption
<1>3. IsList(list, Int) /\ m \in Seq(Int)
  BY <1>1, <1>2, IntSequence DEF IsList
<1>4. NewPoints(list) \in SUBSET Points /\ IsFiniteSet(NewPoints(list))
  BY <1>3, NewPointsOK
<1>5. BucketSize(size) \in 1 .. MaxBucket
  BY <1>2, OctreeAssumption DEF BucketSize
<1>6. \A p \in NewPoints(list) : p.pos \in Positions
  BY DEF NewPoints, IsList
<1>7. \A p, o \in NewPoints(list) :
        Exact(RootExtent(LowBound(p.pos, t.min_extent), HighBound(o.pos, t.min_extent)),
              t.min_extent)
  BY <1>1, <1>6, MapOctreeAssumption
<1>8. TypesOK(u)
  BY <1>1, <1>4, <1>5, <1>7, StartTypes
<1>9. /\ NearOK(u)
      /\ \A v \in Int : Covered(t, v) \/ (\E p \in NewPoints(list) : p.pos = v) => Covered(u, v)
  BY <1>1, <1>4, <1>5, StartNear
<1>10. BoxesOK(u)
  BY <1>1, StartBoxes
<1>11. NumbersOK(u, m, list)
  BY <1>1, <1>3, <1>4, StartNumbers DEF IsList
<1>12. u.min_extent = MinExtent /\ NewPoints(list) # {}
  BY <1>1, StartFields DEF TypesOK, FieldsOK
<1>13. list # <<>>
  BY <1>12 DEF NewPoints
<1>14. ASSUME NEW v \in off \cup Values(list) PROVE Covered(u, v)
  <2>1. v \in Int
    BY <1>1, <1>2 DEF IsList
  <2>2. v \notin off => \E p \in NewPoints(list) : p.pos = v
    <3>1. SUFFICES ASSUME v \notin off PROVE \E p \in NewPoints(list) : p.pos = v
      OBVIOUS
    <3>2. PICK k \in DOMAIN list : v = list[k]
      BY <3>1 DEF Values
    <3>3. [pos |-> list[k], idx |-> -k] \in NewPoints(list)
      BY DEF NewPoints
    <3> QED
      BY <3>2, <3>3
  <2> QED
    BY <1>1, <1>9, <2>1, <2>2
<1>15. SearchOK(u, NoSearch)
  BY <1>8, NoSearchOK
<1> QED
  BY <1>1, <1>8, <1>9, <1>10, <1>11, <1>12, <1>13, <1>14, <1>15 DEF MapOK

\* (no step changes min_extent_)
LEMMA StepMin ==
  ASSUME NEW t, NEW u, TypesOK(t), UpdateStep(t, u)
  PROVE  u.min_extent = t.min_extent
<1>1. IsTree(t) /\ \A c \in t.todo : IsCall(c)
  BY DEF TypesOK, FieldsOK, CallsOK, CallOK
<1> QED
  BY <1>1, GrowFields, PassFields, SplitFields, TakeFields, EndFields DEF UpdateStep

\* ... goes on ...
LEMMA MapInserts ==
  ASSUME NEW t, NEW u, NEW m, NEW list, NEW s, NEW off,
         MapOK(t, m, list, s, off), UpdateStep(t, u)
  PROVE  MapOK(u, m, list, s, off)
<1>1. list # <<>> /\ s = NoSearch
  BY NoStepWhenDone DEF MapOK
<1>2. TypesOK(t) /\ NearOK(t) /\ BoxesOK(t) /\ NumbersOK(t, m, list)
      /\ m \in Seq(Positions) /\ IsList(list, Positions)
  BY DEF MapOK
<1>3. Positions \subseteq Int
  BY MapOctreeAssumption
<1>4. /\ TypesOK(u) /\ NearOK(u) /\ BoxesOK(u)
      /\ \A v \in Int : Covered(t, v) => Covered(u, v)
  BY <1>2, StepTypes, StepNear, StepBoxes
<1>5. NumbersOK(u, m, list)
  BY <1>2, IntSequence, StepNumbers
<1>6. u.min_extent = MinExtent
  BY <1>2, StepMin DEF MapOK
<1>7. \A v \in off \cup Values(list) : v \in Int
  BY <1>2, <1>3 DEF MapOK, IsList
<1>8. SearchOK(u, s)
  BY <1>1, <1>4, NoSearchOK
<1> QED
  BY <1>1, <1>2, <1>4, <1>5, <1>6, <1>7, <1>8 DEF MapOK

\* The numbers of the stored points become places in the cloud.
LEMMA EndNumbers ==
  ASSUME NEW t, NEW u, NEW m \in Seq(Positions), NEW list, IsList(list, Positions),
         TypesOK(t), Idle(t), NumbersOK(t, m, list),
         u.leaves = t.leaves, u.todo = t.todo, u.num = t.num, u.added = <<>>,
         NEW all, all = Enlarged(m, t.added, list)
  PROVE  all \in Seq(Positions) /\ NumbersOK(u, all, <<>>)
<1> DEFINE new == [k \in DOMAIN t.added |-> list[t.added[k] + 1]]
<1>1. t.added \in Seq(Nat) /\ Len(t.added) \in Nat /\ DOMAIN t.added = 1 .. Len(t.added)
      /\ Len(m) \in Nat
  BY LenProperties DEF TypesOK, FieldsOK
<1>2. \A k \in 1 .. Len(t.added) : list[t.added[k] + 1] \in Positions
  BY <1>1 DEF NumbersOK, IsList
<1>3. new \in Seq(Positions) /\ Len(new) = Len(t.added)
      /\ \A k \in 1 .. Len(t.added) : new[k] = list[t.added[k] + 1]
  BY <1>1, <1>2
<1>4. all = m \o new
  BY DEF Enlarged
<1> HIDE DEF new
<1>5. /\ all \in Seq(Positions) /\ Len(all) = Len(m) + Len(t.added)
      /\ \A i \in 1 .. Len(m) + Len(t.added) :
           all[i] = IF i <= Len(m) THEN m[i] ELSE new[i - Len(m)]
  <2>0. new \in Seq(Positions)
    BY <1>3
  <2>1. /\ m \o new \in Seq(Positions) /\ Len(m \o new) = Len(m) + Len(new)
        /\ \A i \in 1 .. Len(m) + Len(new) :
             (m \o new)[i] = IF i <= Len(m) THEN m[i] ELSE new[i - Len(m)]
    BY <2>0, ConcatProperties
  <2> QED
    BY <1>3, <1>4, <2>1
<1>6. t.num = Len(m) + Len(t.added)
  BY DEF NumbersOK
<1>7. AllPoints(u) = AllPoints(t) /\ AllPoints(t) = TreePoints(t)
  BY DEF AllPoints, TreePoints, Idle
<1>8. ASSUME NEW p \in TreePoints(t) PROVE PointOK(u, all, <<>>, p)
  <2>1. p \in Points /\ ~IsNew(p)
    BY DEF TypesOK, LeavesOK, LeafOK, TreePoints
  <2>2. p.idx \in Nat
    BY <2>1 DEF Points, IsNew
  <2>3. p.idx < t.num /\ AtNumber(m, list, t.added, p.idx) = p.pos
    BY <1>7, <2>1 DEF NumbersOK, PointOK
  <2> DEFINE n == p.idx
  <2>4. n + 1 \in 1 .. Len(m) + Len(t.added)
    BY <1>1, <1>6, <2>2, <2>3
  <2>5. CASE n < Len(m)
    <3>1. n + 1 <= Len(m)
      BY <1>1, <2>2, <2>5
    <3>2. all[n + 1] = p.pos
      BY <1>5, <2>3, <2>4, <2>5, <3>1 DEF AtNumber
    <3> QED
      BY <1>5, <1>6, <2>1, <2>3, <3>2 DEF PointOK, AtNumber
  <2>6. CASE ~(n < Len(m))
    <3>1. ~(n + 1 <= Len(m)) /\ n + 1 - Len(m) = n - Len(m) + 1 /\ n - Len(m) + 1 \in 1 .. Len(t.added)
      BY <1>1, <2>2, <2>4, <2>6
    <3>2. all[n + 1] = new[n - Len(m) + 1]
      <4>1. all[n + 1] = new[(n + 1) - Len(m)]
        BY <1>5, <2>4, <3>1
      <4>2. (n + 1) - Len(m) = n - Len(m) + 1
        BY <1>1, <2>2
      <4> HIDE DEF n
      <4> QED
        BY <4>1, <4>2, Zenon
    <3>3. new[n - Len(m) + 1] = p.pos
      BY <1>3, <2>3, <2>6, <3>1 DEF AtNumber
    <3> QED
      BY <1>5, <1>6, <2>1, <2>3, <3>2, <3>3 DEF PointOK, AtNumber
  <2> QED
    BY <2>5, <2>6
<1>9. Len(u.added) = 0 /\ DOMAIN u.added = {}
  OBVIOUS
<1>10. NumbersOK(u, all, <<>>)
  BY <1>1, <1>5, <1>6, <1>7, <1>8, <1>9 DEF NumbersOK
<1> QED
  BY <1>5, <1>10

\* ... and ends, and map_cloud_ has got the points (map_processing.cpp:410-421).
LEMMA MapBinEnds ==
  ASSUME NEW t, NEW m, NEW list, NEW s, NEW off, MapOK(t, m, list, s, off),
         list # <<>>, Idle(t), NEW u, u = [t EXCEPT !.added = <<>>, !.bounds = <<>>],
         NEW all, all = Enlarged(m, t.added, list)
  PROVE  MapOK(u, all, <<>>, s, off \cup Values(list))
<1>1. TypesOK(t) /\ NearOK(t) /\ BoxesOK(t) /\ NumbersOK(t, m, list)
      /\ m \in Seq(Positions) /\ IsList(list, Positions) /\ s = NoSearch
  BY DEF MapOK
<1>2. /\ IsTree(u) /\ u.added = <<>> /\ u.bounds = <<>>
      /\ u.min_extent = t.min_extent /\ u.bucket = t.bucket /\ u.root = t.root
      /\ u.leaves = t.leaves /\ u.inner = t.inner /\ u.todo = t.todo /\ u.num = t.num
  <2>1. IsTree(t)
    BY <1>1 DEF TypesOK, FieldsOK
  <2> QED
    BY <2>1 DEF IsTree
<1>3. Octants(u) = Octants(t)
  BY <1>2 DEF Octants
<1>4. TypesOK(u)
  <2>1. FieldsOK(u)
    BY <1>1, <1>2 DEF TypesOK, FieldsOK
  <2> QED
    BY <1>1, <1>2, <1>3, <2>1 DEF TypesOK, LeavesOK, CallsOK, ExtentsOK, RootOK
<1>5. NearOK(u)
  BY <1>1, <1>2 DEF NearOK, NearBox, Idle
<1>6. BoxesOK(u)
  BY <1>1, <1>2, <1>3 DEF BoxesOK
<1>7. all \in Seq(Positions) /\ NumbersOK(u, all, <<>>)
  BY <1>1, <1>2, EndNumbers
<1>8. \A v : Covered(t, v) => Covered(u, v)
  BY <1>2 DEF Covered, TreePoints, NearBox
<1>9. SearchOK(u, s)
  BY <1>1, <1>4, NoSearchOK
<1>10. IsList(<<>>, Positions)
  BY FS_EmptySet DEF IsList
<1>11. off \cup Values(list) \subseteq Positions
  BY <1>1 DEF MapOK, IsList, Values
<1> QED
  BY <1>1, <1>2, <1>4, <1>5, <1>6, <1>7, <1>8, <1>9, <1>10, <1>11, NoValues DEF MapOK, Idle

\* Between two bins the map can be searched.
LEMMA MapSearchable ==
  ASSUME NEW t, NEW m, NEW s, NEW off, MapOK(t, m, <<>>, s, off)
  PROVE  Searchable(t)
BY DEF MapOK, Searchable

\* A search starts ...
LEMMA MapSearchStarts ==
  ASSUME NEW t, NEW m, NEW s, NEW off, MapOK(t, m, <<>>, s, off), t.root # NoBox,
         NEW q \in Queries, NEW r \in Radii
  PROVE  MapOK(t, m, <<>>, StartNearest(t, q, r), off)
<1>1. q \in Int /\ r \in Nat
  BY MapOctreeAssumption
<1>2. SearchOK(t, StartNearest(t, q, r))
  BY <1>1, MapSearchable, StartSearchOK
<1> QED
  BY <1>2 DEF MapOK

\* ... goes on ...
LEMMA MapSearches ==
  ASSUME NEW t, NEW m, NEW list, NEW s, NEW u, NEW off, MapOK(t, m, list, s, off),
         NearestStep(t, s, u)
  PROVE  MapOK(t, m, list, u, off)
<1>1. s # NoSearch /\ list = <<>>
  BY DEF NearestStep, NoSearch, MapOK
<1>2. SearchOK(t, u)
  BY <1>1, MapSearchable, SearchStepOK DEF MapOK
<1> QED
  BY <1>1, <1>2 DEF MapOK

\* ... and ends.
LEMMA MapSearchEnds ==
  ASSUME NEW t, NEW m, NEW list, NEW s, NEW off, MapOK(t, m, list, s, off)
  PROVE  MapOK(t, m, list, NoSearch, off)
BY NoSearchOK DEF MapOK

MapInv == MapOK(tree, map_cloud, bin, search, offered)

\* The map's steps keep what is known of it.
LEMMA MapInvStep ==
  ASSUME MapInv, InsertStep \/ EndBin \/ Search \/ SearchStep \/ EndSearch
  PROVE  MapInv'
<1>1. CASE InsertStep
  BY <1>1, MapInserts DEF MapInv, InsertStep
<1>2. CASE EndBin
  <2>1. /\ bin # <<>> /\ Idle(tree) /\ bin' = <<>> /\ search' = search
        /\ map_cloud' = Enlarged(map_cloud, tree.added, bin)
        /\ tree' = [tree EXCEPT !.added = <<>>, !.bounds = <<>>]
        /\ offered' = offered \cup Values(bin)
    BY <1>2 DEF EndBin, AppendAdded, Enlarged, Values
  <2>2. MapOK(tree, map_cloud, bin, search, offered)
    BY DEF MapInv
  <2>3. MapOK(tree', map_cloud', <<>>, search, offered \cup Values(bin))
    BY <2>1, <2>2, MapBinEnds
  <2> QED
    BY <2>1, <2>3 DEF MapInv
<1>3. CASE Search
  BY <1>3, MapSearchStarts DEF MapInv, Search, StartSearch, MapIdle
<1>4. CASE SearchStep
  BY <1>4, MapSearches DEF MapInv, SearchStep
<1>5. CASE EndSearch
  BY <1>5, MapSearchEnds DEF MapInv, EndSearch
<1> QED
  BY <1>1, <1>2, <1>3, <1>4, <1>5

\* What is known of the map implies its properties: its numbers are places ...
LEMMA MapIsSound == MapInv => TreeSound
<1> SUFFICES ASSUME MapInv PROVE TreeSound
  OBVIOUS
<1>1. TypesOK(tree) /\ NumbersOK(tree, map_cloud, bin) /\ map_cloud \in Seq(Positions)
      /\ (bin = <<>> => tree.added = <<>>)
  BY DEF MapInv, MapOK
<1>2. \A l \in DOMAIN tree.leaves : Cardinality(tree.leaves[l]) <= MaxBucket
  BY <1>1 DEF TypesOK, LeavesOK, LeafOK
<1>3. ASSUME bin = <<>>, NEW p \in TreePoints(tree)
      PROVE  p.idx \in 0 .. Len(map_cloud) - 1 /\ map_cloud[p.idx + 1] = p.pos
  <2>1. p \in Points /\ ~IsNew(p)
    BY <1>1 DEF TypesOK, LeavesOK, LeafOK, TreePoints
  <2>2. p.idx \in Nat
    BY <2>1 DEF Points, IsNew
  <2>3. p.idx < tree.num /\ AtNumber(map_cloud, bin, tree.added, p.idx) = p.pos
    BY <1>1, <2>1 DEF NumbersOK, PointOK, AllPoints
  <2>4. tree.num = Len(map_cloud) /\ Len(map_cloud) \in Nat
    <3>1. tree.num = Len(map_cloud) + Len(tree.added)
      BY <1>1 DEF NumbersOK
    <3>2. Len(tree.added) = 0
      BY <1>1, <1>3
    <3> QED
      BY <1>1, <3>1, <3>2, LenProperties
  <2> QED
    BY <2>2, <2>3, <2>4 DEF AtNumber
<1>4. bin = <<>> =>
        \A p \in TreePoints(tree) :
          p.idx \in 0 .. Len(map_cloud) - 1 /\ map_cloud[p.idx + 1] = p.pos
  BY <1>3
<1> QED
  BY <1>1, <1>2, <1>4 DEF TreeSound

\* ... what is covered has a point near it ...
LEMMA MapHasNoHoles == MapInv => NoHoles
<1> SUFFICES ASSUME MapInv, bin = <<>>, NEW v \in offered
             PROVE  \E p \in TreePoints(tree) : Dist(p.pos, v) < Reach
  BY DEF NoHoles
<1>1. TypesOK(tree) /\ NearOK(tree) /\ Idle(tree) /\ tree.min_extent = MinExtent
      /\ Covered(tree, v)
  BY DEF MapInv, MapOK
<1>2. v \in Int
  BY MapOctreeAssumption DEF MapInv, MapOK
<1> QED
  BY <1>1, <1>2, CoveredIsNear DEF Reach

\* ... and both searches are exact up to min_extent.
LEMMA MapSearchesExact == MapInv => SearchesExact
<1> SUFFICES ASSUME MapInv PROVE SearchesExact
  OBVIOUS
<1>1. TypesOK(tree) /\ NearOK(tree) /\ tree.min_extent = MinExtent /\ SearchOK(tree, search)
  BY DEF MapInv, MapOK
<1>2. RadiusSearch
  <2>1. Queries \subseteq Int /\ Radii \subseteq Nat \ {0}
    BY MapOctreeAssumption
  <2> QED
    BY <1>1, <2>1, RadiusExact DEF RadiusSearch
<1>3. NearestSearch
  BY <1>1, AnswerOK DEF NearestSearch
<1> QED
  BY <1>2, <1>3 DEF SearchesExact

-----------------------------------------------------------------------------
(* Bins and places *)

\* Bins are numbered from 0.
LEMMA BinFacts ==
  /\ NumBins \in Nat /\ Bins \subseteq Nat /\ NoBin \notin Bins
  /\ MaxStartBin \in Bins /\ MaxStartBin \in Nat
  /\ \A b \in Bins : Resolutions[b + 1] \in Nat \ {0}
  /\ \A b \in Bins : b < NumBins
<1>1. NumBins \in Nat
  BY ScanBinsAssumption, LenProperties DEF NumBins
<1>2. \A b \in Bins : b \in Nat /\ b < NumBins /\ b + 1 \in 1 .. NumBins
  BY <1>1 DEF Bins
<1>3. \A b \in Bins : Resolutions[b + 1] \in Nat \ {0}
  BY <1>2, ScanBinsAssumption, ElementOfSeq DEF NumBins
<1> QED
  BY <1>1, <1>2, <1>3, ScanBinsAssumption DEF NoBin

\* The coarser of a bin and the start bin is a bin, and no nearer one is coarser.
LEMMA CoarseBinOK ==
  ASSUME NEW b \in Bins, NEW s \in -1 .. MaxStartBin
  PROVE  /\ CoarseBin(b, s) \in Bins /\ Resolutions[CoarseBin(b, s) + 1] \in Nat \ {0}
         /\ \A c \in Bins : c <= CoarseBin(b, s) =>
              Resolutions[c + 1] <= Resolutions[CoarseBin(b, s) + 1]
<1>1. b \in Nat /\ MaxStartBin \in Nat /\ b < NumBins /\ MaxStartBin < NumBins /\ NumBins \in Nat
  BY BinFacts
<1>2. CoarseBin(b, s) \in Bins
  BY <1>1 DEF CoarseBin, Bins
<1> QED
  BY <1>2, BinFacts, ScanBinsAssumption

\* The start bin is a bin, or 0 or -1 for a scan without points.
LEMMA StartBinsOK ==
  ASSUME NEW idxs, NEW total, NEW s \in StartBins(idxs, total)
  PROVE  /\ s \in -1 .. MaxStartBin
         /\ (\E b \in Bins : idxs[b] # <<>>) => s >= 0
<1>1. MaxStartBin \in Nat
  BY BinFacts
<1>2. CASE \A b \in Bins : idxs[b] = <<>>
  <2>1. s \in {-1, 0}
    BY <1>2 DEF StartBins
  <2> QED
    BY <1>1, <1>2, <2>1
<1>3. CASE ~\A b \in Bins : idxs[b] = <<>>
  <2>1. s \in 0 .. MaxStartBin
    BY <1>3 DEF StartBins
  <2> QED
    BY <1>1, <2>1
<1> QED
  BY <1>2, <1>3

\* Places in order: every place once.
LEMMA InOrderOK ==
  ASSUME NEW places, places \subseteq Nat, IsFiniteSet(places)
  PROVE  /\ IsList(InOrder(places), places)
         /\ \A i \in places : \E k \in DOMAIN InOrder(places) : InOrder(places)[k] = i
<1> DEFINE Rank(i) == Cardinality({j \in places : j <= i})
           ranks == {Rank(i) : i \in places}
           f == [k \in ranks |-> CHOOSE i \in places : Rank(i) = k]
<1>1. InOrder(places) = f
  BY DEF InOrder
<1>2. ASSUME NEW i \in places
      PROVE  IsFiniteSet({j \in places : j <= i}) /\ Rank(i) \in Nat \ {0}
             /\ Rank(i) <= Cardinality(places)
  <2>1. /\ IsFiniteSet({j \in places : j <= i}) /\ Rank(i) <= Cardinality(places)
    BY FS_Subset
  <2>2. i \in {j \in places : j <= i}
    OBVIOUS
  <2>3. Rank(i) \in Nat /\ Rank(i) # 0
    BY <2>1, <2>2, FS_CardinalityType, FS_EmptySet
  <2> QED
    BY <2>1, <2>3
<1>3. ASSUME NEW i \in places, NEW j \in places, i < j
      PROVE  Rank(i) < Rank(j)
  <2> DEFINE A == {k \in places : k <= i}
             B == {k \in places : k <= j}
  <2>0. i \in Nat /\ j \in Nat /\ \A k \in places : k \in Nat
    OBVIOUS
  <2>a. ~(j <= i) /\ j <= j /\ \A k \in places : k <= i => k <= j
    BY <1>3, <2>0
  <2>1. A \subseteq B /\ j \in B /\ j \notin A
    BY <2>a
  <2>2. IsFiniteSet(A) /\ IsFiniteSet(B) /\ Cardinality(A) \in Nat /\ Cardinality(B) \in Nat
    BY <1>2, FS_CardinalityType
  <2> HIDE DEF A, B
  <2>3. Cardinality(A) <= Cardinality(B) /\ (Cardinality(A) = Cardinality(B) => A = B)
    BY <2>1, <2>2, FS_Subset
  <2>4. Cardinality(A) < Cardinality(B)
    BY <2>1, <2>2, <2>3
  <2> QED
    BY <2>4 DEF A, B
<1> HIDE DEF Rank
<1>4. ASSUME NEW i \in places PROVE Rank(i) \in DOMAIN f /\ f[Rank(i)] = i
  <2>1. Rank(i) \in ranks
    OBVIOUS
  <2>2. ASSUME NEW j \in places, Rank(j) = Rank(i) PROVE j = i
    <3>1. Rank(i) \in Nat /\ i \in Nat /\ j \in Nat
      BY <1>2
    <3>2. ~(i < j) /\ ~(j < i)
      BY <1>3, <2>2, <3>1
    <3> QED
      BY <3>1, <3>2
  <2> QED
    BY <2>1, <2>2
<1>5. \A k \in ranks : k \in Nat \ {0} /\ k <= Cardinality(places)
  BY <1>2
<1>6. \A k \in ranks : f[k] \in places
  BY <1>4
<1>7. IsFiniteSet(ranks)
  <2>1. Cardinality(places) \in Nat
    BY FS_CardinalityType
  <2>2. IsFiniteSet(0 .. Cardinality(places)) /\ ranks \subseteq 0 .. Cardinality(places)
    <3> HIDE DEF ranks
    <3>1. IsFiniteSet(0 .. Cardinality(places))
      BY <2>1, FS_Interval
    <3>2. ranks \subseteq 0 .. Cardinality(places)
      BY <1>5, <2>1
    <3> QED
      BY <3>1, <3>2
  <2> QED
    BY <2>2, FS_Subset
<1>8. DOMAIN f = ranks
  OBVIOUS
<1>9. ranks \subseteq Nat \ {0}
  BY <1>5
<1> HIDE DEF ranks, f
<1> QED
  BY <1>1, <1>4, <1>6, <1>7, <1>8, <1>9 DEF IsList

\* The places of a bin's points are places of the message.
LEMMA PlacesOK ==
  ASSUME NEW msg \in Messages, NEW b
  PROVE  /\ PlacesIn(msg, b) \subseteq Nat /\ IsFiniteSet(PlacesIn(msg, b))
         /\ PlacesIn(msg, b) \subseteq DOMAIN msg
         /\ \A i \in DOMAIN msg : msg[i] \in Nat
<1>1. msg \in Seq(Nat)
  BY ScanBinsAssumption
<1>2. DOMAIN msg = 1 .. Len(msg) /\ Len(msg) \in Nat /\ \A i \in DOMAIN msg : msg[i] \in Nat
  BY <1>1, LenProperties
<1>3. IsFiniteSet(1 .. Len(msg))
  BY <1>2, FS_Interval
<1>4. PlacesIn(msg, b) \subseteq DOMAIN msg
  BY DEF PlacesIn
<1> QED
  BY <1>2, <1>3, <1>4, FS_Subset

-----------------------------------------------------------------------------
(* The scan *)

\* The positions of the points of all messages
Measured == UNION {Values(msg) : msg \in Messages}

\* The positions of the points of a bin
ListOf(b) == [k \in DOMAIN bin_idxs[b] |-> message[bin_idxs[b][k]]]

\* The types of the scan's state
TypeScan ==
  /\ message \in Messages \cup {<<>>}
  /\ start_bin \in -1 .. MaxStartBin
  /\ thinning \in Bins \cup {NoBin} /\ todo_bins \subseteq Bins
  /\ bin_idxs = [b \in Bins |-> bin_idxs[b]] /\ bin_pcs = [b \in Bins |-> bin_pcs[b]]
  /\ thinned \in [Bins -> [total : Nat, last : Nat]]
  /\ \A b \in Bins : IsList(bin_pcs[b], Measured) /\ IsList(bin_idxs[b], OfMessage(b))

\* A point of a bin is left near every one there was, and a bin that was thinned
\* for this message has the cloud of these points.
LeftOf(b) ==
  \A i \in OfMessage(b) : \E k \in DOMAIN bin_idxs[b] :
    Dist(message[bin_idxs[b][k]], message[i]) <= 6 * thinned[b].total

ShapeOK ==
  \A b \in Bins : LeftOf(b) /\ (thinned[b].last > 0 => bin_pcs[b] = ListOf(b))

\* The octree of a bin that is being thinned holds the bin's list.
ThinTreeOK(t, b) ==
  /\ TypesOK(t) /\ NearOK(t) /\ t.min_extent = Resolution(b)
  /\ NumbersOK(t, <<>>, ListOf(b))
  /\ \A v \in Values(ListOf(b)) : Covered(t, v)

\* A bin is thinned only in a pass that has it to do.
ThinOK ==
  IF thinning = NoBin THEN bin_tree = EmptyTree(1)
                      ELSE thinning \in todo_bins /\ ThinTreeOK(bin_tree, thinning)

\* The bins that the pass has still to do or will not do
PassOK ==
  /\ ~passing => todo_bins = {}
  /\ \A b \in todo_bins : bin_idxs[b] # <<>>
  /\ \A b \in Bins : bin_idxs[b] # <<>> =>
       start_bin >= 0 /\ (b \in todo_bins \/ Resolution(b) <= thinned[b].last)

ScanOK == TypeScan /\ ShapeOK /\ ThinOK /\ PassOK

\* The bins that wait for the map lie where points may be.
PendingOK ==
  /\ DOMAIN pending \subseteq Bins
  /\ \A b \in DOMAIN pending :
       IsList(pending[b].points, Positions) /\ pending[b].bucket \in BucketSizes

\* The inductive invariant
ScanInv == MapInv /\ ScanOK /\ PendingOK

-----------------------------------------------------------------------------
(* Steps that change neither the scan nor the map *)

\* Thinning leaves the map alone ...
LEMMA SameMap == MapInv /\ UNCHANGED vars => MapInv'
BY DEF MapInv, vars

\* ... and the map leaves the scan alone ...
LEMMA SameScan == ScanOK /\ UNCHANGED scan_vars => ScanOK'
<1> SUFFICES ASSUME ScanOK, UNCHANGED scan_vars PROVE ScanOK'
  OBVIOUS
<1> USE DEF scan_vars, pass_vars
<1>1. /\ \A b : OfMessage(b)' = OfMessage(b) /\ ListOf(b)' = ListOf(b)
      /\ \A b : Resolution(b)' = Resolution(b)
  BY DEF OfMessage, ListOf, Resolution
<1>2. TypeScan'
  BY <1>1 DEF ScanOK, TypeScan
<1>3. ShapeOK'
  BY <1>1 DEF ScanOK, ShapeOK, LeftOf
<1>4. ThinOK'
  BY <1>1 DEF ScanOK, ThinOK, ThinTreeOK
<1>5. PassOK'
  BY <1>1 DEF ScanOK, PassOK
<1> QED
  BY <1>2, <1>3, <1>4, <1>5 DEF ScanOK

\* ... and the bins that wait.
LEMMA SamePending == PendingOK /\ UNCHANGED pending => PendingOK'
BY DEF PendingOK

\* Places of the message are taken only if there is one.
LEMMA MessageOK ==
  ASSUME TypeScan, NEW b, NEW i \in OfMessage(b)
  PROVE  message \in Messages /\ message[i] \in Measured /\ message[i] \in Nat
         /\ i \in DOMAIN message /\ i \in Nat
<1>1. i \in DOMAIN message
  BY DEF OfMessage, PlacesIn
<1>2. message \in Messages
  BY <1>1 DEF TypeScan
<1>3. message[i] \in Measured
  BY <1>1, <1>2 DEF Measured, Values
<1>4. message[i] \in Nat /\ i \in Nat
  BY <1>1, <1>2, PlacesOK DEF OfMessage
<1> QED
  BY <1>1, <1>2, <1>3, <1>4

\* The list of a bin's positions
LEMMA ListOfOK ==
  ASSUME TypeScan, NEW b \in Bins
  PROVE  /\ IsList(ListOf(b), Measured) /\ IsList(ListOf(b), Int)
         /\ DOMAIN ListOf(b) = DOMAIN bin_idxs[b]
         /\ \A k \in DOMAIN bin_idxs[b] :
              ListOf(b)[k] = message[bin_idxs[b][k]] /\ bin_idxs[b][k] \in OfMessage(b)
<1>1. IsList(bin_idxs[b], OfMessage(b))
  BY DEF TypeScan
<1>2. \A k \in DOMAIN bin_idxs[b] : bin_idxs[b][k] \in OfMessage(b)
  BY <1>1 DEF IsList
<1>3. \A k \in DOMAIN bin_idxs[b] :
        message[bin_idxs[b][k]] \in Measured /\ message[bin_idxs[b][k]] \in Nat
  BY <1>2, MessageOK
<1>4. DOMAIN ListOf(b) = DOMAIN bin_idxs[b]
      /\ \A k \in DOMAIN bin_idxs[b] : ListOf(b)[k] = message[bin_idxs[b][k]]
  BY DEF ListOf
<1> QED
  BY <1>1, <1>2, <1>3, <1>4 DEF IsList

\* The empty list
LEMMA EmptyList ==
  ASSUME NEW S
  PROVE  IsList(<<>>, S)
BY FS_EmptySet DEF IsList

-----------------------------------------------------------------------------
(* The steps of the scan *)

\* The invariant holds at the start.
LEMMA ScanStarts == ScanInit => ScanInv
<1> SUFFICES ASSUME ScanInit PROVE ScanInv
  OBVIOUS
<1>1. MapInv
  BY MapStarts DEF ScanInit, Init, MapInv
<1>2. /\ message = <<>> /\ bin_idxs = NoPoints /\ bin_pcs = NoPoints /\ start_bin = 0
      /\ passing = FALSE /\ todo_bins = {} /\ thinning = NoBin /\ bin_tree = EmptyTree(1)
      /\ thinned = NeverThinned /\ pending = <<>>
  BY DEF ScanInit
<1>3. \A b \in Bins : bin_idxs[b] = <<>> /\ bin_pcs[b] = <<>> /\ thinned[b].last = 0
  BY <1>2 DEF NoPoints, NeverThinned
<1>4. \A b : OfMessage(b) = {}
  BY <1>2 DEF OfMessage, PlacesIn
<1>5. TypeScan
  <2>1. start_bin \in -1 .. MaxStartBin
    BY <1>2, BinFacts
  <2>2. thinned \in [Bins -> [total : Nat, last : Nat]]
    BY <1>2 DEF NeverThinned
  <2> QED
    BY <1>2, <1>3, <2>1, <2>2, EmptyList DEF TypeScan, NoPoints
<1>6. ShapeOK
  BY <1>3, <1>4 DEF ShapeOK, LeftOf
<1>7. ThinOK
  BY <1>2 DEF ThinOK
<1>8. PassOK
  BY <1>2, <1>3 DEF PassOK
<1>9. PendingOK
  BY <1>2 DEF PendingOK
<1> QED
  BY <1>1, <1>5, <1>6, <1>7, <1>8, <1>9 DEF ScanInv, ScanOK

\* A pass takes the bins with points nearer than its end.
LEMMA NextPassOK ==
  ASSUME NEW start \in -1 .. MaxStartBin, NEW prev, NEW end, NEW idxs,
         NextPass(start, prev, end, idxs)
  PROVE  /\ start_bin' = start /\ todo_bins' \subseteq Bins
         /\ ~passing' => todo_bins' = {}
         /\ \A b \in todo_bins' : idxs[b] # <<>>
         /\ GoesOn(start, prev) =>
              \A b \in Bins : idxs[b] # <<>> => b \in todo_bins' \/ ~(b < end)
BY DEF NextPass

\* A message: every bin has all of its points (lidar_processing.cpp:308-355).
LEMMA MessageComes ==
  ASSUME NEW msg \in Messages, LidarMessage(msg), ScanOK
  PROVE  ScanOK'
<1> DEFINE idxs == [b \in Bins |-> InOrder(PlacesIn(msg, b))]
<1>1. /\ ~passing /\ bin_idxs' = idxs /\ message' = msg /\ thinned' = NeverThinned
      /\ bin_pcs' = bin_pcs /\ thinning' = thinning /\ bin_tree' = bin_tree
  BY DEF LidarMessage
<1>2. PICK start \in StartBins(idxs, Total(Sizes(idxs))) : NextPass(start, -1, NumBins, idxs)
  BY DEF LidarMessage
<1>3. \A b \in Bins : OfMessage(b)' = PlacesIn(msg, b)
  BY <1>1 DEF OfMessage
<1>4. \A b \in Bins :
        /\ IsList(idxs[b], PlacesIn(msg, b))
        /\ \A i \in PlacesIn(msg, b) : \E k \in DOMAIN idxs[b] : idxs[b][k] = i
  <2> TAKE b \in Bins
  <2>1. idxs[b] = InOrder(PlacesIn(msg, b))
    OBVIOUS
  <2> HIDE DEF idxs
  <2> QED
    BY <2>1, InOrderOK, PlacesOK
<1>5. idxs = [b \in Bins |-> idxs[b]]
  OBVIOUS
<1> HIDE DEF idxs
<1>6. /\ start \in -1 .. MaxStartBin /\ \A b \in Bins : idxs[b] # <<>> => start >= 0
  BY <1>2, StartBinsOK
<1>7. /\ start_bin' = start /\ todo_bins' \subseteq Bins /\ (~passing' => todo_bins' = {})
      /\ \A b \in todo_bins' : idxs[b] # <<>>
      /\ GoesOn(start, -1) =>
           \A b \in Bins : idxs[b] # <<>> => b \in todo_bins' \/ ~(b < NumBins)
  BY <1>2, <1>6, NextPassOK
<1>8. thinned' \in [Bins -> [total : Nat, last : Nat]]
      /\ \A b \in Bins : thinned'[b].total = 0 /\ thinned'[b].last = 0
  BY <1>1 DEF NeverThinned
<1>9. TypeScan'
  <2>1. \A b \in Bins : IsList(bin_idxs'[b], OfMessage(b)')
    BY <1>1, <1>3, <1>4
  <2> QED
    BY <1>1, <1>5, <1>6, <1>7, <1>8, <2>1 DEF ScanOK, TypeScan
<1>10. ShapeOK'
  <2>1. ASSUME NEW b \in Bins PROVE LeftOf(b)'
    <3>1. ASSUME NEW i \in PlacesIn(msg, b)
          PROVE  \E k \in DOMAIN idxs[b] : Dist(msg[idxs[b][k]], msg[i]) <= 6 * 0
      <4>1. PICK k \in DOMAIN idxs[b] : idxs[b][k] = i
        BY <1>4
      <4>2. msg[i] \in Nat
        BY PlacesOK
      <4>3. Dist(msg[idxs[b][k]], msg[i]) = 0
        BY <4>1, <4>2 DEF Dist
      <4> QED
        BY <4>3
    <3> QED
      BY <1>1, <1>3, <1>8, <3>1 DEF LeftOf
  <2>2. \A b \in Bins : ~(thinned'[b].last > 0)
    BY <1>8
  <2> QED
    BY <2>1, <2>2 DEF ShapeOK
<1>11. ThinOK'
  <2>1. thinning = NoBin /\ bin_tree = EmptyTree(1)
    BY <1>1 DEF ScanOK, PassOK, ThinOK
  <2> QED
    BY <1>1, <2>1 DEF ThinOK
<1>12. PassOK'
  <2>1. ASSUME NEW b \in Bins, idxs[b] # <<>> PROVE start >= 0 /\ b \in todo_bins'
    <3>1. start >= 0
      BY <1>6, <2>1
    <3>2. GoesOn(start, -1)
      BY <1>6, <3>1, BinFacts DEF GoesOn
    <3>3. b < NumBins
      BY BinFacts
    <3> QED
      BY <1>7, <2>1, <3>1, <3>2, <3>3
  <2> QED
    BY <1>1, <1>7, <2>1 DEF PassOK
<1> QED
  BY <1>9, <1>10, <1>11, <1>12 DEF ScanOK

\* What the steps that leave the bins alone leave alone.
LEMMA SameBins ==
  ASSUME TypeScan, ShapeOK, UNCHANGED <<message, bin_idxs, bin_pcs, thinned>>,
         start_bin' \in -1 .. MaxStartBin, thinning' \in Bins \cup {NoBin},
         todo_bins' \subseteq Bins
  PROVE  TypeScan' /\ ShapeOK'
<1>1. \A b : OfMessage(b)' = OfMessage(b) /\ ListOf(b)' = ListOf(b)
  BY DEF OfMessage, ListOf
<1>2. TypeScan'
  BY <1>1 DEF TypeScan
<1>3. ShapeOK'
  BY <1>1 DEF ShapeOK, LeftOf
<1> QED
  BY <1>2, <1>3

\* A bin's octree starts with the bin's list (lidar_processing.cpp:133-157).
LEMMA BinStarts ==
  ASSUME NEW b \in Bins, ThinBin(b), ScanOK
  PROVE  ScanOK'
<1>1. /\ thinning = NoBin /\ b \in todo_bins /\ thinning' = b
      /\ UNCHANGED <<message, bin_idxs, bin_pcs, start_bin, passing, todo_bins, thinned>>
  BY DEF ThinBin
<1>2. TypeScan /\ ShapeOK /\ PassOK
  BY DEF ScanOK
<1>3. TypeScan' /\ ShapeOK'
  BY <1>1, <1>2, SameBins DEF TypeScan
<1>4. \A c : Resolution(c)' = Resolution(c) /\ ListOf(c)' = ListOf(c)
  BY <1>1 DEF Resolution, ListOf
<1>5. PassOK'
  BY <1>1, <1>2, <1>4 DEF PassOK
<1> DEFINE list == ListOf(b)
           t == EmptyTree(Resolution(b))
<1>6. IsList(list, Int) /\ DOMAIN list = DOMAIN bin_idxs[b]
      /\ \A k \in DOMAIN list : list[k] = message[bin_idxs[b][k]] /\ bin_idxs[b][k] \in OfMessage(b)
  BY <1>2, ListOfOK
<1> HIDE DEF list
<1>7. NewPoints(list) = {[pos |-> message[bin_idxs[b][k]], idx |-> -k] : k \in DOMAIN bin_idxs[b]}
  BY <1>6 DEF NewPoints
<1>8. StartUpdate(t, bin_tree', NewPoints(list), 1)
  BY <1>7 DEF ThinBin
<1>9. Resolution(b) \in Nat \ {0}
  <2>1. start_bin \in -1 .. MaxStartBin
    BY <1>2 DEF TypeScan
  <2> QED
    BY <2>1, CoarseBinOK DEF Resolution
<1>10. /\ TypesOK(t) /\ NearOK(t) /\ NumbersOK(t, <<>>, <<>>)
       /\ t.min_extent = Resolution(b) /\ Idle(t) /\ t.added = <<>>
  BY <1>9, EmptyTreeOK
<1> HIDE DEF t
<1>11. NewPoints(list) \in SUBSET Points /\ IsFiniteSet(NewPoints(list))
  BY <1>6, NewPointsOK
<1>12. ASSUME NEW p \in NewPoints(list), NEW o \in NewPoints(list)
       PROVE  Exact(RootExtent(LowBound(p.pos, t.min_extent), HighBound(o.pos, t.min_extent)),
                    t.min_extent)
  <2>1. PICK i \in DOMAIN list, j \in DOMAIN list : p.pos = list[i] /\ o.pos = list[j]
    BY DEF NewPoints
  <2>2. message \in Messages /\ bin_idxs[b][i] \in DOMAIN message /\ bin_idxs[b][j] \in DOMAIN message
    BY <1>2, <1>6, MessageOK
  <2>3. start_bin \in -1 .. MaxStartBin
    BY <1>2 DEF TypeScan
  <2>4. CoarseBin(b, start_bin) \in Bins
    BY <2>3, CoarseBinOK
  <2>5. LET res == Resolutions[CoarseBin(b, start_bin) + 1]
        IN  Exact(RootExtent(LowBound(message[bin_idxs[b][i]], res),
                             HighBound(message[bin_idxs[b][j]], res)), res)
    BY <2>2, <2>4, ScanBinsAssumption
  <2> QED
    BY <1>6, <1>10, <2>1, <2>5 DEF Resolution
<1>13. 1 \in 1 .. MaxBucket
  BY OctreeAssumption
<1>14. TypesOK(bin_tree')
  BY <1>8, <1>10, <1>11, <1>12, <1>13, StartTypes
<1>15. /\ NearOK(bin_tree')
       /\ \A v \in Int : Covered(t, v) \/ (\E p \in NewPoints(list) : p.pos = v) =>
            Covered(bin_tree', v)
  BY <1>8, <1>10, <1>11, <1>13, StartNear
<1>16. NumbersOK(bin_tree', <<>>, list)
  <2>1. <<>> \in Seq(Int)
    OBVIOUS
  <2>2. DOMAIN list \subseteq Nat \ {0}
    BY <1>6 DEF IsList
  <2> QED
    BY <1>8, <1>10, <2>1, <2>2, StartNumbers
<1>17. bin_tree'.min_extent = Resolution(b)
  BY <1>8, <1>10, StartFields DEF TypesOK, FieldsOK
<1>18. ASSUME NEW v \in Values(list) PROVE Covered(bin_tree', v)
  <2>1. PICK k \in DOMAIN list : v = list[k]
    BY DEF Values
  <2>2. [pos |-> list[k], idx |-> -k] \in NewPoints(list) /\ v \in Int
    BY <1>6, <2>1 DEF NewPoints, IsList
  <2>3. \E p \in NewPoints(list) : p.pos = v
    BY <2>1, <2>2
  <2> QED
    BY <1>15, <2>2, <2>3
<1>19. ThinOK'
  <2>1. b # NoBin
    BY BinFacts
  <2>2. ThinTreeOK(bin_tree, b)'
    BY <1>4, <1>14, <1>15, <1>16, <1>17, <1>18 DEF ThinTreeOK, list
  <2> QED
    BY <1>1, <2>1, <2>2 DEF ThinOK
<1> QED
  BY <1>3, <1>5, <1>19 DEF ScanOK

\* The octree goes on.
LEMMA BinSteps ==
  ASSUME ThinStep, ScanOK
  PROVE  ScanOK'
<1>1. /\ UpdateStep(bin_tree, bin_tree')
      /\ UNCHANGED <<message, bin_idxs, bin_pcs, start_bin, passing, todo_bins, thinning,
                     thinned>>
  BY DEF ThinStep
<1>2. TypeScan /\ ShapeOK /\ PassOK /\ ThinOK
  BY DEF ScanOK
<1>3. TypeScan' /\ ShapeOK'
  BY <1>1, <1>2, SameBins DEF TypeScan
<1>4. \A c : Resolution(c)' = Resolution(c) /\ ListOf(c)' = ListOf(c)
  BY <1>1 DEF Resolution, ListOf
<1>5. PassOK'
  BY <1>1, <1>2, <1>4 DEF PassOK
<1>6. thinning # NoBin
  <2>1. Idle(EmptyTree(1)) /\ EmptyTree(1).bounds = <<>>
    BY EmptyTreeOK
  <2>2. ~UpdateStep(EmptyTree(1), bin_tree')
    BY <2>1, NoStepWhenDone
  <2> QED
    BY <1>1, <1>2, <2>2 DEF ThinOK
<1>7. thinning \in todo_bins /\ thinning \in Bins /\ ThinTreeOK(bin_tree, thinning)
  BY <1>2, <1>6 DEF ThinOK, TypeScan
<1>8. TypesOK(bin_tree) /\ NearOK(bin_tree) /\ bin_tree.min_extent = Resolution(thinning)
      /\ NumbersOK(bin_tree, <<>>, ListOf(thinning))
  BY <1>7 DEF ThinTreeOK
<1>9. /\ TypesOK(bin_tree') /\ NearOK(bin_tree')
      /\ \A v \in Int : Covered(bin_tree, v) => Covered(bin_tree', v)
  BY <1>1, <1>8, StepTypes, StepNear
<1>10. bin_tree'.min_extent = Resolution(thinning)
  BY <1>1, <1>8, StepMin
<1>11. IsList(ListOf(thinning), Int)
  BY <1>2, <1>7, ListOfOK
<1>12. NumbersOK(bin_tree', <<>>, ListOf(thinning))
  <2>1. <<>> \in Seq(Int)
    OBVIOUS
  <2> QED
    BY <1>1, <1>8, <2>1, StepNumbers
<1>13. \A v \in Values(ListOf(thinning)) : v \in Int /\ Covered(bin_tree, v)
  BY <1>7, <1>11 DEF IsList, Values, ThinTreeOK
<1>14. ThinTreeOK(bin_tree', thinning)
  BY <1>9, <1>10, <1>12, <1>13 DEF ThinTreeOK
<1>15. ThinOK'
  <2>1. ThinTreeOK(bin_tree, thinning)'
    BY <1>1, <1>4, <1>14 DEF ThinTreeOK
  <2> QED
    BY <1>1, <1>6, <1>7, <2>1 DEF ThinOK
<1> QED
  BY <1>3, <1>5, <1>15 DEF ScanOK

\* What an octree that is done has stored, and how near it is to what it was given
LEMMA KeptOK ==
  ASSUME NEW t, TypesOK(t), NearOK(t), Idle(t), NEW list, NumbersOK(t, <<>>, list)
  PROVE  /\ IsFiniteSet(DOMAIN t.added) /\ DOMAIN t.added \subseteq Nat \ {0}
         /\ \A k \in DOMAIN t.added : t.added[k] + 1 \in DOMAIN list
         /\ \A v \in Int : Covered(t, v) =>
              \E k \in DOMAIN t.added :
                list[t.added[k] + 1] \in Int /\ Dist(list[t.added[k] + 1], v) <= 6 * t.min_extent
<1>1. t.added \in Seq(Nat) /\ t.min_extent \in Nat
  BY DEF TypesOK, FieldsOK
<1>2. DOMAIN t.added = 1 .. Len(t.added) /\ Len(t.added) \in Nat
  BY <1>1, LenProperties
<1>3. IsFiniteSet(DOMAIN t.added)
  BY <1>2, FS_Interval
<1>4. \A k \in DOMAIN t.added : t.added[k] + 1 \in DOMAIN list
  BY DEF NumbersOK
<1>5. ASSUME NEW v \in Int, Covered(t, v)
      PROVE  \E k \in DOMAIN t.added :
               list[t.added[k] + 1] \in Int /\ Dist(list[t.added[k] + 1], v) <= 6 * t.min_extent
  <2>1. PICK p \in TreePoints(t) : Dist(p.pos, v) < 6 * t.min_extent
    BY <1>5, CoveredIsNear
  <2>2. p \in Points /\ ~IsNew(p)
    BY DEF TypesOK, LeavesOK, LeafOK, TreePoints
  <2>3. p.idx \in Nat /\ p.pos \in Int
    BY <2>2 DEF Points, IsNew
  <2>4. PointOK(t, <<>>, list, p) /\ t.num = Len(<<>>) + Len(t.added)
    BY DEF NumbersOK, AllPoints
  <2>5. p.idx < t.num /\ AtNumber(<<>>, list, t.added, p.idx) = p.pos
    BY <2>2, <2>4 DEF PointOK
  <2>6. Len(<<>>) = 0
    OBVIOUS
  <2>7. p.idx + 1 \in DOMAIN t.added /\ list[t.added[p.idx + 1] + 1] = p.pos
    <3>1. ~(p.idx < 0) /\ p.idx - 0 + 1 = p.idx + 1 /\ p.idx + 1 \in 1 .. Len(t.added)
      BY <1>2, <2>3, <2>4, <2>5, <2>6
    <3>2. list[t.added[p.idx - 0 + 1] + 1] = p.pos
      BY <2>5, <2>6, <3>1 DEF AtNumber
    <3> QED
      BY <1>2, <3>1, <3>2
  <2>8. Dist(p.pos, v) <= 6 * t.min_extent
    <3>1. t.min_extent \in Int
      BY <1>1
    <3>2. v \in Int
      BY <1>5
    <3>3. Dist(p.pos, v) \in Int
      BY <2>3, <3>2 DEF Dist
    <3> QED
      BY <2>1, <3>1, <3>3
  <2> QED
    BY <2>3, <2>7, <2>8
<1> QED
  BY <1>2, <1>3, <1>4, <1>5

\* A bin that is thinned: what is left of it is near what was, and this is near
\* what the message had, as far as the resolutions add up.
LEMMA BinEnds ==
  ASSUME NEW b, b = thinning, EndThin, ScanOK
  PROVE  ScanOK'
<1> DEFINE t == bin_tree
           list == ListOf(b)
           kept == Kept(t.added)
           kept_pcs == [k \in DOMAIN kept |-> message[kept[k]]]
<1>1. /\ thinning # NoBin /\ Idle(t)
      /\ bin_idxs' = [bin_idxs EXCEPT ![b] = kept] /\ bin_pcs' = [bin_pcs EXCEPT ![b] = kept_pcs]
      /\ thinned' = [thinned EXCEPT ![b] = [total |-> @.total + t.min_extent,
                                            last |-> t.min_extent]]
      /\ todo_bins' = todo_bins \ {b} /\ thinning' = NoBin /\ bin_tree' = EmptyTree(1)
      /\ UNCHANGED <<message, start_bin, passing>>
  BY DEF EndThin
<1>2. TypeScan /\ ShapeOK /\ PassOK /\ ThinOK
  BY DEF ScanOK
<1>3. b \in todo_bins /\ b \in Bins /\ ThinTreeOK(t, b)
  BY <1>1, <1>2 DEF ThinOK, TypeScan
<1>4. TypesOK(t) /\ NearOK(t) /\ t.min_extent = Resolution(b) /\ NumbersOK(t, <<>>, list)
      /\ \A v \in Values(list) : Covered(t, v)
  BY <1>3 DEF ThinTreeOK
<1>5. /\ IsList(list, Int) /\ DOMAIN list = DOMAIN bin_idxs[b]
      /\ \A k \in DOMAIN list : list[k] = message[bin_idxs[b][k]] /\ bin_idxs[b][k] \in OfMessage(b)
  BY <1>2, <1>3, ListOfOK
<1>6. t.min_extent \in Nat \ {0}
  BY <1>4 DEF TypesOK, FieldsOK
<1> HIDE DEF list, t
<1>7. /\ IsFiniteSet(DOMAIN t.added) /\ DOMAIN t.added \subseteq Nat \ {0}
      /\ \A k \in DOMAIN t.added : t.added[k] + 1 \in DOMAIN list
      /\ \A v \in Int : Covered(t, v) =>
           \E k \in DOMAIN t.added :
             list[t.added[k] + 1] \in Int /\ Dist(list[t.added[k] + 1], v) <= 6 * t.min_extent
  BY <1>1, <1>4, KeptOK
<1>8. DOMAIN kept = DOMAIN t.added
      /\ \A k \in DOMAIN t.added : kept[k] = bin_idxs[b][t.added[k] + 1]
  BY DEF Kept
<1> HIDE DEF kept
<1>9. DOMAIN kept_pcs = DOMAIN t.added
      /\ \A k \in DOMAIN t.added : kept_pcs[k] = message[kept[k]]
  BY <1>8
<1>10. \A k \in DOMAIN t.added :
         kept[k] \in OfMessage(b) /\ message[kept[k]] = list[t.added[k] + 1]
  BY <1>5, <1>7, <1>8
<1>11. IsList(kept, OfMessage(b))
  BY <1>7, <1>8, <1>10 DEF IsList
<1>12. IsList(kept_pcs, Measured)
  BY <1>2, <1>7, <1>9, <1>10, MessageOK DEF IsList
<1>13. /\ bin_idxs'[b] = kept /\ bin_pcs'[b] = kept_pcs
       /\ thinned'[b] = [total |-> thinned[b].total + t.min_extent, last |-> t.min_extent]
       /\ thinned' \in [Bins -> [total : Nat, last : Nat]]
       /\ \A c \in Bins \ {b} :
            bin_idxs'[c] = bin_idxs[c] /\ bin_pcs'[c] = bin_pcs[c] /\ thinned'[c] = thinned[c]
       /\ thinned[b].total \in Nat
  BY <1>1, <1>2, <1>3, <1>6 DEF TypeScan
<1>14. \A c : OfMessage(c)' = OfMessage(c) /\ Resolution(c)' = Resolution(c)
  BY <1>1 DEF OfMessage, Resolution
<1>15. TypeScan'
  <2>1. \A c \in Bins : IsList(bin_pcs'[c], Measured) /\ IsList(bin_idxs'[c], OfMessage(c)')
    BY <1>2, <1>11, <1>12, <1>13, <1>14 DEF TypeScan
  <2>2. bin_idxs' = [c \in Bins |-> bin_idxs'[c]] /\ bin_pcs' = [c \in Bins |-> bin_pcs'[c]]
    BY <1>1, <1>2 DEF TypeScan
  <2> QED
    BY <1>1, <1>2, <1>13, <2>1, <2>2 DEF TypeScan
<1>16. ShapeOK'
  <2>1. ASSUME NEW i \in OfMessage(b)
        PROVE  \E k \in DOMAIN kept :
                 Dist(message[kept[k]], message[i]) <= 6 * (thinned[b].total + t.min_extent)
    <3>1. PICK k \in DOMAIN bin_idxs[b] :
            Dist(message[bin_idxs[b][k]], message[i]) <= 6 * thinned[b].total
      BY <1>2, <1>3 DEF ShapeOK, LeftOf
    <3> DEFINE v == list[k]
    <3>2. v \in Int /\ v = message[bin_idxs[b][k]] /\ v \in Values(list)
      BY <1>5 DEF IsList, Values
    <3>3. PICK n \in DOMAIN t.added :
            list[t.added[n] + 1] \in Int /\ Dist(list[t.added[n] + 1], v) <= 6 * t.min_extent
      BY <1>4, <1>7, <3>2
    <3>4. message[i] \in Nat
      BY <1>2, MessageOK
    <3> DEFINE w == list[t.added[n] + 1]
               o == message[i]
    <3>5. w \in Int /\ o \in Int /\ Dist(w, v) <= 6 * t.min_extent /\ Dist(v, o) <= 6 * thinned[b].total
      BY <3>1, <3>2, <3>3, <3>4
    <3>6. message[kept[n]] = w /\ n \in DOMAIN kept
      BY <1>8, <1>10
    <3> HIDE DEF v, w, o
    <3>7. Dist(w, o) <= 6 * (thinned[b].total + t.min_extent)
      BY <1>6, <1>13, <3>2, <3>5 DEF Dist
    <3> QED
      BY <3>6, <3>7 DEF o
  <2>2. LeftOf(b)'
    BY <1>1, <1>13, <1>14, <2>1 DEF LeftOf
  <2>3. ListOf(b)' = kept_pcs
    BY <1>1, <1>8, <1>9, <1>13 DEF ListOf
  <2>4. ASSUME NEW c \in Bins, c # b
        PROVE  LeftOf(c)' /\ (thinned'[c].last > 0 => bin_pcs'[c] = ListOf(c)')
    <3>1. ListOf(c)' = ListOf(c)
      BY <1>1, <1>13, <2>4 DEF ListOf
    <3>2. LeftOf(c)'
      BY <1>1, <1>2, <1>13, <1>14, <2>4 DEF LeftOf, ShapeOK
    <3> QED
      BY <1>2, <1>13, <2>4, <3>1, <3>2 DEF ShapeOK
  <2> QED
    BY <1>13, <2>2, <2>3, <2>4 DEF ShapeOK
<1>17. ThinOK'
  BY <1>1 DEF ThinOK
<1>18. PassOK'
  <2>1. ~passing' => todo_bins' = {}
    BY <1>1, <1>2 DEF PassOK
  <2>2. \A c \in todo_bins' : bin_idxs'[c] # <<>>
    BY <1>1, <1>2, <1>13 DEF PassOK, TypeScan
  <2>3. start_bin >= 0
    BY <1>2, <1>3 DEF PassOK
  <2>4. Resolution(b) <= thinned'[b].last
    BY <1>4, <1>6, <1>13
  <2>5. ASSUME NEW c \in Bins, bin_idxs'[c] # <<>>
        PROVE  c \in todo_bins' \/ Resolution(c) <= thinned'[c].last
    <3>1. CASE c = b
      BY <2>4, <3>1
    <3>2. CASE c # b
      BY <1>1, <1>2, <1>13, <2>5, <3>2 DEF PassOK
    <3> QED
      BY <3>1, <3>2
  <2> QED
    BY <1>1, <1>14, <2>1, <2>2, <2>3, <2>5 DEF PassOK
<1> QED
  BY <1>15, <1>16, <1>17, <1>18 DEF ScanOK

\* A pass ends: the bins the next one leaves out, and all of them if there is
\* none, are thinned for the start bin there is now.
LEMMA PassEnds ==
  ASSUME EndPass, ScanOK
  PROVE  ScanOK'
<1>1. /\ todo_bins = {}
      /\ UNCHANGED <<message, bin_idxs, bin_pcs, thinning, bin_tree, thinned>>
  BY DEF EndPass
<1>2. PICK start \in StartBins(bin_idxs, Total(Sizes(bin_pcs))) :
        NextPass(start, start_bin, start, bin_idxs)
  BY DEF EndPass
<1>3. TypeScan /\ ShapeOK /\ PassOK /\ ThinOK
  BY DEF ScanOK
<1>4. /\ start \in -1 .. MaxStartBin
      /\ \A b \in Bins : bin_idxs[b] # <<>> => start >= 0
  BY <1>2, StartBinsOK
<1>5. /\ start_bin' = start /\ todo_bins' \subseteq Bins /\ (~passing' => todo_bins' = {})
      /\ \A b \in todo_bins' : bin_idxs[b] # <<>>
      /\ GoesOn(start, start_bin) =>
           \A b \in Bins : bin_idxs[b] # <<>> => b \in todo_bins' \/ ~(b < start)
  BY <1>2, <1>4, NextPassOK
<1>6. TypeScan' /\ ShapeOK'
  BY <1>1, <1>3, <1>4, <1>5, SameBins DEF TypeScan
<1>7. thinning = NoBin /\ ThinOK'
  BY <1>1, <1>3 DEF ThinOK
<1>8. ASSUME NEW b \in Bins, bin_idxs[b] # <<>>, b \notin todo_bins'
      PROVE  Resolution(b)' <= thinned[b].last
  <2>1. Resolution(b) <= thinned[b].last /\ start_bin \in -1 .. MaxStartBin
    BY <1>1, <1>3, <1>8 DEF PassOK, TypeScan
  <2>2. CoarseBin(b, start) <= CoarseBin(b, start_bin)
    <3>1. ~(b < start) \/ ~GoesOn(start, start_bin)
      BY <1>5, <1>8
    <3>2. b \in Int /\ start \in Int /\ start_bin \in Int /\ start <= MaxStartBin /\ MaxStartBin \in Int
      BY <1>4, <2>1, BinFacts
    <3> QED
      BY <3>1, <3>2 DEF GoesOn, CoarseBin
  <2>3. CoarseBin(b, start) \in Bins
    BY <1>4, CoarseBinOK
  <2>4. Resolutions[CoarseBin(b, start) + 1] <= Resolutions[CoarseBin(b, start_bin) + 1]
    BY <2>1, <2>2, <2>3, CoarseBinOK
  <2>5. Resolutions[CoarseBin(b, start) + 1] \in Nat
        /\ Resolutions[CoarseBin(b, start_bin) + 1] \in Nat /\ thinned[b].last \in Nat
    BY <1>3, <1>4, <2>1, CoarseBinOK DEF TypeScan
  <2>6. Resolution(b)' = Resolutions[CoarseBin(b, start) + 1]
        /\ Resolution(b) = Resolutions[CoarseBin(b, start_bin) + 1]
    BY <1>5 DEF Resolution
  <2> QED
    BY <2>1, <2>4, <2>5, <2>6
<1>9. PassOK'
  BY <1>1, <1>4, <1>5, <1>8 DEF PassOK
<1> QED
  BY <1>6, <1>7, <1>9 DEF ScanOK

\* The mapping loop takes the scan (map_processing.cpp:390-421).
LEMMA ScanTaken ==
  ASSUME NEW shift \in Shifts, TakeScan(shift), ScanOK
  PROVE  ScanOK' /\ PendingOK'
<1> DEFINE full == {b \in Bins : bin_pcs[b] # <<>>}
           World(b) == [k \in DOMAIN bin_pcs[b] |-> bin_pcs[b][k] + shift]
           Entry(b) == [points |-> World(b), bucket |-> Buckets[CoarseBin(b, start_bin) + 1]]
<1>1. /\ ~passing /\ pending' = [b \in full |-> Entry(b)]
      /\ bin_pcs' = NoPoints /\ bin_idxs' = NoPoints /\ message' = <<>>
      /\ thinned' = NeverThinned
      /\ UNCHANGED <<start_bin, passing, todo_bins, thinning, bin_tree>>
  BY DEF TakeScan, pass_vars
<1>2. TypeScan /\ PassOK /\ ThinOK
  BY DEF ScanOK
<1>3. thinning = NoBin /\ ThinOK'
  BY <1>1, <1>2 DEF ThinOK, PassOK
<1>4. \A b \in Bins : bin_idxs'[b] = <<>> /\ bin_pcs'[b] = <<>> /\ thinned'[b].last = 0
  BY <1>1 DEF NoPoints, NeverThinned
<1>5. \A b : OfMessage(b)' = {}
  BY <1>1 DEF OfMessage, PlacesIn
<1>6. TypeScan'
  <2>1. thinned' \in [Bins -> [total : Nat, last : Nat]]
    BY <1>1 DEF NeverThinned
  <2>2. \A b \in Bins : IsList(bin_pcs'[b], Measured) /\ IsList(bin_idxs'[b], OfMessage(b)')
    BY <1>4, EmptyList
  <2>3. bin_idxs' = [b \in Bins |-> bin_idxs'[b]] /\ bin_pcs' = [b \in Bins |-> bin_pcs'[b]]
    BY <1>1 DEF NoPoints
  <2> QED
    BY <1>1, <1>2, <2>1, <2>2, <2>3 DEF TypeScan
<1>7. ShapeOK'
  BY <1>4, <1>5 DEF ShapeOK, LeftOf
<1>8. PassOK'
  BY <1>1, <1>2, <1>4 DEF PassOK
<1>9. ASSUME NEW b \in full
      PROVE  IsList(World(b), Positions) /\ Buckets[CoarseBin(b, start_bin) + 1] \in BucketSizes
  <2>1. b \in Bins /\ IsList(bin_pcs[b], Measured)
    BY <1>2 DEF TypeScan
  <2>2. ASSUME NEW k \in DOMAIN bin_pcs[b] PROVE bin_pcs[b][k] + shift \in Positions
    <3>1. bin_pcs[b][k] \in Measured
      BY <2>1 DEF IsList
    <3>2. PICK msg \in Messages : \E i \in DOMAIN msg : bin_pcs[b][k] = msg[i]
      BY <3>1 DEF Measured, Values
    <3>3. \A i \in DOMAIN msg : msg[i] + shift \in Positions
      BY ScanBinsAssumption
    <3> QED
      BY <3>2, <3>3
  <2>3. IsList(World(b), Positions)
    BY <2>1, <2>2 DEF IsList
  <2>4. CoarseBin(b, start_bin) \in Bins
    BY <1>2, <2>1, CoarseBinOK DEF TypeScan
  <2> QED
    BY <2>3, <2>4, ScanBinsAssumption
<1>10. PendingOK'
  <2>1. full \subseteq Bins
    OBVIOUS
  <2> HIDE DEF full, World
  <2>2. DOMAIN pending' = full /\ \A b \in full :
          pending'[b].points = World(b) /\ pending'[b].bucket = Buckets[CoarseBin(b, start_bin) + 1]
    BY <1>1
  <2> QED
    BY <1>9, <2>1, <2>2 DEF PendingOK
<1> QED
  BY <1>3, <1>6, <1>7, <1>8, <1>10 DEF ScanOK

\* A bin goes into the map.
LEMMA BinMapped ==
  ASSUME NEW b \in Bins, MapBin(b), ScanInv
  PROVE  ScanInv'
<1>1. /\ b \in DOMAIN pending /\ MapIdle /\ UNCHANGED scan_vars
      /\ StartUpdate(tree, tree', NewPoints(pending[b].points), BucketSize(pending[b].bucket))
      /\ bin' = pending[b].points /\ UNCHANGED <<map_cloud, search, offered>>
      /\ pending' = [c \in DOMAIN pending \ {b} |-> pending[c]]
  BY DEF MapBin, StartBin
<1>2. MapOK(tree, map_cloud, <<>>, NoSearch, offered)
  BY <1>1 DEF ScanInv, MapInv, MapIdle
<1>3. IsList(pending[b].points, Positions) /\ pending[b].bucket \in BucketSizes
  BY <1>1 DEF ScanInv, PendingOK
<1>4. MapOK(tree', map_cloud, pending[b].points, NoSearch, offered)
  BY <1>1, <1>2, <1>3, MapBinStarts
<1>5. MapInv'
  BY <1>1, <1>4 DEF MapInv, MapIdle
<1>6. ScanOK'
  BY <1>1, SameScan DEF ScanInv
<1>7. PendingOK'
  BY <1>1 DEF ScanInv, PendingOK
<1> QED
  BY <1>5, <1>6, <1>7 DEF ScanInv

\* Every step keeps the invariant.
LEMMA ScanSteps ==
  ASSUME ScanInv, [ScanNext]_<<vars, scan_vars, pending>>
  PROVE  ScanInv'
<1>0. MapInv /\ ScanOK /\ PendingOK
  BY DEF ScanInv
<1>1. ASSUME NEW msg \in Messages, LidarMessage(msg) PROVE ScanInv'
  <2>1. UNCHANGED vars /\ UNCHANGED pending
    BY <1>1 DEF LidarMessage
  <2> QED
    BY <1>0, <1>1, <2>1, SameMap, SamePending, MessageComes DEF ScanInv
<1>2. ASSUME NEW b \in Bins, ThinBin(b) PROVE ScanInv'
  <2>1. UNCHANGED vars /\ UNCHANGED pending
    BY <1>2 DEF ThinBin
  <2> QED
    BY <1>0, <1>2, <2>1, SameMap, SamePending, BinStarts DEF ScanInv
<1>3. CASE ThinStep
  <2>1. UNCHANGED vars /\ UNCHANGED pending
    BY <1>3 DEF ThinStep
  <2> QED
    BY <1>0, <1>3, <2>1, SameMap, SamePending, BinSteps DEF ScanInv
<1>4. CASE EndThin
  <2>1. UNCHANGED vars /\ UNCHANGED pending
    BY <1>4 DEF EndThin
  <2> QED
    BY <1>0, <1>4, <2>1, SameMap, SamePending, BinEnds DEF ScanInv
<1>5. CASE EndPass
  <2>1. UNCHANGED vars /\ UNCHANGED pending
    BY <1>5 DEF EndPass
  <2> QED
    BY <1>0, <1>5, <2>1, SameMap, SamePending, PassEnds DEF ScanInv
<1>6. ASSUME NEW shift \in Shifts, TakeScan(shift) PROVE ScanInv'
  <2>1. UNCHANGED vars
    BY <1>6 DEF TakeScan
  <2> QED
    BY <1>0, <1>6, <2>1, SameMap, ScanTaken DEF ScanInv
<1>7. ASSUME NEW b \in Bins, MapBin(b) PROVE ScanInv'
  BY <1>7, BinMapped
<1>8. CASE MapStep
  <2>1. UNCHANGED scan_vars /\ UNCHANGED pending
        /\ (InsertStep \/ EndBin \/ Search \/ SearchStep \/ EndSearch)
    BY <1>8 DEF MapStep
  <2> QED
    BY <1>0, <2>1, SameScan, SamePending, MapInvStep DEF ScanInv
<1>9. CASE UNCHANGED <<vars, scan_vars, pending>>
  <2>1. UNCHANGED vars /\ UNCHANGED scan_vars /\ UNCHANGED pending
    BY <1>9
  <2> QED
    BY <1>0, <2>1, SameMap, SameScan, SamePending DEF ScanInv
<1> QED
  BY <1>1, <1>2, <1>3, <1>4, <1>5, <1>6, <1>7, <1>8, <1>9 DEF ScanNext

\* The invariant implies that thinning keeps a bin's shape ...
LEMMA ScanShape == ScanInv => ScanKeepsShape
<1> SUFFICES ASSUME ScanInv, ~passing, NEW b \in Bins, NEW i \in OfMessage(b)
             PROVE  /\ \A k \in DOMAIN bin_pcs[b] : \E j \in OfMessage(b) :
                         bin_pcs[b][k] = message[j]
                    /\ \E k \in DOMAIN bin_pcs[b] :
                         Dist(bin_pcs[b][k], message[i]) <= 6 * thinned[b].total
  BY DEF ScanKeepsShape
<1>1. TypeScan /\ ShapeOK /\ PassOK
  BY DEF ScanInv, ScanOK
<1>2. PICK k \in DOMAIN bin_idxs[b] :
        Dist(message[bin_idxs[b][k]], message[i]) <= 6 * thinned[b].total
  BY <1>1 DEF ShapeOK, LeftOf
<1>3. bin_idxs[b] # <<>>
  BY <1>2
<1>4. Resolution(b) <= thinned[b].last /\ Resolution(b) \in Nat \ {0} /\ thinned[b].last \in Nat
  <2>1. Resolution(b) <= thinned[b].last
    BY <1>1, <1>3 DEF PassOK
  <2>2. Resolution(b) \in Nat \ {0} /\ thinned[b].last \in Nat
    BY <1>1, CoarseBinOK DEF TypeScan, Resolution
  <2> QED
    BY <2>1, <2>2
<1>5. bin_pcs[b] = ListOf(b)
  <2>1. thinned[b].last > 0
    BY <1>4
  <2> QED
    BY <1>1, <2>1 DEF ShapeOK
<1>6. /\ DOMAIN ListOf(b) = DOMAIN bin_idxs[b]
      /\ \A n \in DOMAIN bin_idxs[b] :
           ListOf(b)[n] = message[bin_idxs[b][n]] /\ bin_idxs[b][n] \in OfMessage(b)
  BY <1>1, ListOfOK
<1> QED
  BY <1>2, <1>5, <1>6

\* ... and that no bin is finer than the start bin.
LEMMA ScanThinned == ScanInv => ThinnedForStartBin
<1> SUFFICES ASSUME ScanInv, ~passing, NEW b \in Bins, OfMessage(b) # {}
             PROVE  \A c \in {b, start_bin} : Resolutions[c + 1] <= thinned[b].last
  BY DEF ThinnedForStartBin
<1>1. TypeScan /\ ShapeOK /\ PassOK
  BY DEF ScanInv, ScanOK
<1>2. bin_idxs[b] # <<>>
  BY <1>1 DEF ShapeOK, LeftOf
<1>3. Resolution(b) <= thinned[b].last /\ start_bin >= 0
  BY <1>1, <1>2 DEF PassOK
<1>4. start_bin \in -1 .. MaxStartBin /\ thinned[b].last \in Nat
  BY <1>1 DEF TypeScan
<1>5. start_bin \in Bins
  BY <1>3, <1>4, BinFacts DEF Bins
<1>6. \A c \in {b, start_bin} : c \in Bins /\ c <= CoarseBin(b, start_bin)
  BY <1>4, <1>5, BinFacts DEF CoarseBin
<1>7. \A c \in {b, start_bin} : Resolutions[c + 1] <= Resolution(b) /\ Resolutions[c + 1] \in Nat
  BY <1>4, <1>6, CoarseBinOK, BinFacts DEF Resolution
<1>8. Resolution(b) \in Nat
  BY <1>4, CoarseBinOK DEF Resolution
<1> QED
  BY <1>3, <1>4, <1>7, <1>8

\* The map, the octree that thins a bin, the lists of the bins and the passes over
\* them keep to ScanInv, whatever messages come, wherever the sensor is and
\* however many points the leaves hold.
THEOREM ScanInvariant == ScanSpec => []ScanInv
<1>1. ScanInit => ScanInv
  BY ScanStarts
<1>2. ScanInv /\ [ScanNext]_<<vars, scan_vars, pending>> => ScanInv'
  BY ScanSteps
<1> QED
  BY <1>1, <1>2, PTL DEF ScanSpec

\* Every number the map's octree gives out is the place of its point in map_cloud_,
\* and no leaf outgrows kMaxBucket (ioctree.h:1018-1021, 1063-1066, 1077-1085,
\* map_processing.cpp:416-419).
THEOREM MapIsSoundAlways == ScanSpec => []TreeSound
<1>1. ScanInv => TreeSound
  BY MapIsSound DEF ScanInv
<1> QED
  BY <1>1, ScanInvariant, PTL

\* Within 6 * map_resolution_ of every point ever offered to the map there is one
\* in it (ioctree.h:981, 1004, 1035-1066).
THEOREM MapHasNoHolesEver == ScanSpec => []NoHoles
<1>1. ScanInv => NoHoles
  BY MapHasNoHoles DEF ScanInv
<1> QED
  BY <1>1, ScanInvariant, PTL

\* A radius search and the search for the nearest point are exact up to
\* map_resolution_ in every tree that insertions leave (ioctree.h:582-592,
\* 1120-1178, 1280-1319).
THEOREM SearchesAreExact == ScanSpec => []SearchesExact
<1>1. ScanInv => SearchesExact
  BY MapSearchesExact DEF ScanInv
<1> QED
  BY <1>1, ScanInvariant, PTL

\* When Process is done, near every point of the message that fell into a bin one
\* is left, and all that is left is of the message
\* (lidar_processing.cpp:133-157, ioctree.h:252, 1014-1023).
THEOREM ThinningKeepsShape == ScanSpec => []ScanKeepsShape
<1>1. ScanInv => ScanKeepsShape
  BY ScanShape
<1> QED
  BY <1>1, ScanInvariant, PTL

\* When Process is done, no bin that has points is finer than its own resolution or
\* than that of start_bin_ (lidar_processing.cpp:146, 169-172,
\* map_processing.cpp:396, 415).
THEOREM ThinnedEnough == ScanSpec => []ThinnedForStartBin
<1>1. ScanInv => ThinnedForStartBin
  BY ScanThinned
<1> QED
  BY <1>1, ScanInvariant, PTL
=============================================================================
