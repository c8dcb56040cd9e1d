----------------------------- MODULE MapOctree -----------------------------
(***************************************************************************)
(* The map: map_cloud_, which grows and whose places number the points, and *)
(* ioctree_, which is asked for the numbers of neighbours.  Every bin of a  *)
(* scan is one insertion, with the bucket size of its range                 *)
(* (map_processing.cpp:410-421); module ScanBins has the scans.            *)
(***************************************************************************)
EXTENDS Octree

CONSTANTS
  MinExtent,    \* map_resolution_
  Positions,    \* where points may be
  Queries,      \* where neighbours are searched for
  BucketSizes,  \* the values of bucket_sizes_
  Radii         \* the search radii

ASSUME MapOctreeAssumption ==
  /\ MinExtent \in Nat \ {0}
  /\ Positions \subseteq Int /\ Queries \subseteq Int
  /\ BucketSizes \subseteq Nat \ {0} /\ Radii \subseteq Nat \ {0}
  /\ \A low, high \in Positions :
       Exact(RootExtent(LowBound(low, MinExtent), HighBound(high, MinExtent)),
             MinExtent)

VARIABLES
  tree,       \* ioctree_
  map_cloud,  \* the positions of map_cloud_'s points
  bin,        \* the positions of the points Update is called with
  search,     \* the search for a nearest point that runs
  offered     \* history: the positions of all points given to Update

vars == <<tree, map_cloud, bin, search, offered>>

Init ==
  /\ tree = EmptyTree(MinExtent)
  /\ map_cloud = <<>> /\ bin = <<>>
  /\ search = NoSearch
  /\ offered = {}

\* The points of a bin as Update copies them
NewPoints(list) == {[pos |-> list[i], idx |-> -i] : i \in DOMAIN list}

\* One thread inserts and searches, one after the other.
MapIdle == bin = <<>> /\ search = NoSearch

StartBin(list, bucket) ==
  /\ MapIdle
  /\ StartUpdate(tree, tree', NewPoints(list), BucketSize(bucket))
  /\ bin' = list
  /\ UNCHANGED <<map_cloud, search, offered>>

InsertStep ==
  /\ UpdateStep(tree, tree')
  /\ UNCHANGED <<map_cloud, bin, search, offered>>

\* Mutant of AppendAdded: the bin's first points, whatever was stored of it
AppendFirst(added) == map_cloud \o SubSeq(bin, 1, Len(added))

\* map_cloud_ gets the points that were stored, in the order of their numbers.
AppendAdded(added) ==
  map_cloud \o [k \in DOMAIN added |-> bin[added[k] + 1]]

EndBin ==
  /\ bin # <<>> /\ Idle(tree)
  /\ map_cloud' = AppendAdded(tree.added)
  /\ tree' = [tree EXCEPT !.added = <<>>, !.bounds = <<>>]
  /\ offered' = offered \cup {bin[i] : i \in DOMAIN bin}
  /\ bin' = <<>>
  /\ UNCHANGED search

StartSearch(q, r) ==
  /\ MapIdle /\ tree.root # NoBox
  /\ search' = StartNearest(tree, q, r)
  /\ UNCHANGED <<tree, map_cloud, bin, offered>>

SearchStep ==
  /\ NearestStep(tree, search, search')
  /\ UNCHANGED <<tree, map_cloud, bin, offered>>

EndSearch ==
  /\ search.calls = <<>> /\ search # NoSearch
  /\ search' = NoSearch
  /\ UNCHANGED <<tree, map_cloud, bin, offered>>

-----------------------------------------------------------------------------
(* Properties *)

\* Every number the tree has for a point is its place in map_cloud_, through
\* splits, a growing root and insertions that store only some of their points:
\* neighbours_, filters_ and the tensors are indexed with it.  And no leaf
\* outgrows its kMaxBucket places in all_points, although leaves were filled
\* with other bucket sizes than that of the insertion
\* (ioctree.h:1018-1021, 1063-1066, 1077-1085, map_processing.cpp:416-419).
TreeSound ==
  /\ map_cloud \in Seq(Positions)
  /\ bin = <<>> =>
       \A p \in TreePoints(tree) :
         p.idx \in 0 .. Len(map_cloud) - 1 /\ map_cloud[p.idx + 1] = p.pos
  /\ \A l \in DOMAIN tree.leaves : Cardinality(tree.leaves[l]) <= MaxBucket

\* Downsampling thins the map and makes no holes: close to every point ever
\* offered, stored or not, there is one that can be found, although points
\* are refused, and dropped again when a leaf is split for a smaller bucket
\* (ioctree.h:981, 1004, 1035-1066).
Reach == 6 * MinExtent

NoHoles ==
  bin = <<>> =>
    \A v \in offered : \E p \in TreePoints(tree) : Dist(p.pos, v) < Reach

\* A radius search is exact but for points within MinExtent of the radius ...
RadiusSearch ==
  MapIdle =>
    \A q \in Queries, r \in Radii, bucket \in BucketSizes :
      LET found == RadiusNeighbors(tree, q, r, bucket)
          Closer(radius) ==
            {p \in UNION {Visible(tree, l, bucket) : l \in DOMAIN tree.leaves} :
               p.pos # q /\ Dist(p.pos, q) < radius}
      IN  Closer(r - MinExtent) \subseteq found
          /\ found \subseteq Closer(r + MinExtent)

\* ... and that for the nearest point, which skips octants and ends early, finds
\* one at most MinExtent farther than the nearest, and none only if there is
\* none nearer than the radius less MinExtent.
NearestSearch ==
  search.calls = <<>> =>
    /\ \A b \in search.best :
         b \in TreePoints(tree) /\ Dist(b.pos, search.q) <= search.r
    /\ \A p \in TreePoints(tree) :
         p.pos # search.q /\ Dist(p.pos, search.q) < search.r - MinExtent =>
           \E b \in search.best :
             Dist(b.pos, search.q) <= Dist(p.pos, search.q) + MinExtent

\* Both searches are exact up to MinExtent: the root's box is rounded inwards
\* by so much, so a point may lie that far outside the octant it is in
\* (ioctree.h:582-592, 1120-1178, 1280-1319).
SearchesExact == RadiusSearch /\ NearestSearch
=============================================================================
