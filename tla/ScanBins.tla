------------------------------ MODULE ScanBins ------------------------------
(***************************************************************************)
(* From a scan message to the map: PointCloudHandler sorts the points into  *)
(* range bins, Process thins each bin with an octree of its own, near bins  *)
(* again and more coarsely for as long as that moves the scan's mean range  *)
(* outwards, and the bins that are left go into the map one by one          *)
(* (lidar_processing.cpp:110-173, 308-355, map_processing.cpp:390-421).     *)
(*                                                                         *)
(* Along the one axis a point's range is its position and every BinWidth of *)
(* it is a bin.  Module LidarProcess has the interleavings of the messages, *)
(* the times and the cap, and takes from here that thinning leaves          *)
(* something of every bin.  Process holds lidar_mutex_ and shares nothing   *)
(* with the map, so its steps are not interleaved with those on the map.    *)
(***************************************************************************)
EXTENDS MapOctree
LOCAL Sets == INSTANCE FiniteSetsExt

CONSTANTS
  Messages,     \* the positions of the points of each message, in the order
                \* the threads put them in the bins
  MinRange,     \* params_.min_range; the bins end at params_.max_range
  BinWidth,     \* one metre
  Resolutions,  \* octree_resolutions_, bin 0 first
  Buckets,      \* bucket_sizes_, bin 0 first
  MaxStartBin,  \* kMaxStartBin
  Shifts,       \* where the sensor may be when a scan is mapped
  MaxMessages   \* bound on the messages

NumBins == Len(Resolutions)
Bins == 0 .. NumBins - 1

ASSUME ScanBinsAssumption ==
  /\ Messages \subseteq Seq(Nat) /\ MinRange \in Nat
  /\ BinWidth \in Nat \ {0} /\ Shifts \subseteq Nat
  /\ Resolutions \in Seq(Nat \ {0})
  /\ \A b, c \in Bins : b <= c => Resolutions[b + 1] <= Resolutions[c + 1]
  /\ Len(Buckets) = NumBins /\ \A b \in Bins : Buckets[b + 1] \in BucketSizes
  /\ MaxStartBin \in Bins /\ MaxMessages \in Nat
  /\ \A msg \in Messages : \A i \in DOMAIN msg :
       \A shift \in Shifts : msg[i] + shift \in Positions
  /\ \A msg \in Messages : \A i, j \in DOMAIN msg : \A b \in Bins :
       LET res == Resolutions[b + 1]
       IN  Exact(RootExtent(LowBound(msg[i], res), HighBound(msg[j], res)), res)

VARIABLES
  message,         \* the last message
  bin_idxs,        \* bin_idxs_, which bin_sizes_ counts
  bin_pcs,         \* bin_pcs_, which bin_pcs_sizes_ counts
  start_bin,       \* start_bin_
  prev_start_bin,  \* prev_start_bin, in a pass of Process
  passing,         \* Process is in its loop,
  todo_bins,       \* with these bins still to thin in the pass
  thinning,        \* and this one being thinned, or NoBin,
  bin_tree,        \* with its octree
  thinned,         \* history: the sum of the resolutions each bin of the
                   \* message was thinned at, and the last of them
  pending,         \* the bins of the scan taken over that are still to be
                   \* mapped: their points, where they lie in the world, and
                   \* buckets
  messages         \* messages so far

pass_vars == <<prev_start_bin, passing, todo_bins, thinning, bin_tree>>
scan_vars == <<message, bin_idxs, bin_pcs, start_bin, pass_vars, thinned,
               messages>>

NoBin == -1
NoPoints == [b \in Bins |-> <<>>]
NeverThinned == [b \in Bins |-> [total |-> 0, last |-> 0]]

ScanInit ==
  /\ Init
  /\ message = <<>> /\ bin_idxs = NoPoints /\ bin_pcs = NoPoints
  /\ start_bin = 0 /\ prev_start_bin = -1
  /\ passing = FALSE /\ todo_bins = {} /\ thinning = NoBin
  /\ bin_tree = EmptyTree(1)
  /\ thinned = NeverThinned /\ pending = <<>> /\ messages = 0

-----------------------------------------------------------------------------
(* The mean bin *)

Sizes(bins) == [b \in Bins |-> Len(bins[b])]

Total(sizes) == Sets!MapThenSumSet(LAMBDA b : sizes[b], Bins)

\* The bins the mean is taken over: those before the first sparse one that
\* has half of the points before it.
Averaged(sizes, total) ==
  LET Before(b) == Sets!MapThenSumSet(LAMBDA c : sizes[c], 0 .. b - 1)
      Sparse == {b \in Bins : 2 * Before(b) > total /\ 100 * sizes[b] < total}
  IN  {b \in Bins : \A c \in Sparse : b < c}

\* Rounded down
MeanBin(sizes, total) ==
  LET bins == Averaged(sizes, total)
  IN  Sets!MapThenSumSet(LAMBDA b : b * sizes[b], bins)
        \div Sets!MapThenSumSet(LAMBDA b : sizes[b], bins)

\* start_bin_ from the mean bin.  Without any points the mean is 0/0, and what
\* its conversion to int gives, 0 or a negative number, is the build's.
StartBins(idxs, total) ==
  IF \A b \in Bins : idxs[b] = <<>>
    THEN {-1, 0}
    ELSE {s \in 0 .. MaxStartBin : s = Sets!Min({MeanBin(Sizes(idxs), total), MaxStartBin})}

-----------------------------------------------------------------------------
(* PointCloudHandler *)

BinOf(pos) == pos \div BinWidth

Accepted(pos) == MinRange <= pos /\ pos < NumBins * BinWidth

\* The places in a message of the points that go into a bin
PlacesIn(msg, b) == {i \in DOMAIN msg : Accepted(msg[i]) /\ BinOf(msg[i]) = b}

\* bin_idxs_: places in their order
InOrder(places) ==
  LET Rank(i) == Cardinality({j \in places : j <= i})
  IN  [k \in {Rank(i) : i \in places} |-> CHOOSE i \in places : Rank(i) = k]

\* Process goes over the bins nearer than end for as long as the mean moves.
GoesOn(start, prev) == start > prev /\ prev < MaxStartBin

NextPass(start, prev, end, idxs) ==
  /\ start_bin' = start /\ prev_start_bin' = prev
  /\ passing' = GoesOn(start, prev)
  /\ todo_bins' = IF GoesOn(start, prev)
                    THEN {b \in Bins : b < end /\ idxs[b] # <<>>} ELSE {}

LidarMessage(msg) ==
  /\ messages < MaxMessages /\ ~passing /\ MapIdle
  /\ LET idxs == [b \in Bins |-> InOrder(PlacesIn(msg, b))]
     IN  /\ bin_idxs' = idxs
         /\ \E start \in StartBins(idxs, Total(Sizes(idxs))) :
              NextPass(start, -1, NumBins, idxs)
  /\ message' = msg /\ thinned' = NeverThinned
  /\ messages' = messages + 1
  /\ UNCHANGED <<vars, bin_pcs, thinning, bin_tree, pending>>

-----------------------------------------------------------------------------
(* Process.  The bins of a pass do not touch each other's state, so they are *)
(* thinned one after the other here.                                       *)

\* Mutant of CoarseBin: every bin at its own resolution
OwnBin(b, start) == b

\* The bin whose resolution bin b is thinned at
CoarseBin(b, start) == IF b > start THEN b ELSE start

Resolution(b) == Resolutions[CoarseBin(b, start_bin) + 1]

\* The points of the bin's list, for an octree that keeps one for each leaf.
\* Initialize gives a point its place in the message, which bin_idxs_ has at the
\* place in the list that it has here.
ThinBin(b) ==
  /\ thinning = NoBin /\ b \in todo_bins /\ \A c \in todo_bins : b <= c
  /\ StartUpdate(EmptyTree(Resolution(b)), bin_tree',
                 {[pos |-> message[bin_idxs[b][k]], idx |-> -k] :
                    k \in DOMAIN bin_idxs[b]}, 1)
  /\ thinning' = b
  /\ UNCHANGED <<vars, message, bin_idxs, bin_pcs, start_bin, prev_start_bin,
                 passing, todo_bins, thinned, pending, messages>>

ThinStep ==
  /\ UpdateStep(bin_tree, bin_tree')
  /\ UNCHANGED <<vars, message, bin_idxs, bin_pcs, start_bin, prev_start_bin,
                 passing, todo_bins, thinning, thinned, pending, messages>>

\* Mutant of Kept: reads places in the list as places in the message
KeptInMessage(added) == [k \in DOMAIN added |-> added[k] + 1]

\* The places in the message of the points that the octree took
Kept(added) == [k \in DOMAIN added |-> bin_idxs[thinning][added[k] + 1]]

EndThin ==
  /\ thinning # NoBin /\ Idle(bin_tree)
  /\ LET kept == Kept(bin_tree.added)
     IN  /\ bin_idxs' = [bin_idxs EXCEPT ![thinning] = kept]
         /\ bin_pcs' = [bin_pcs EXCEPT ![thinning] =
                          [k \in DOMAIN kept |-> message[kept[k]]]]
  /\ thinned' = [thinned EXCEPT ![thinning] =
                   [total |-> @.total + bin_tree.min_extent,
                    last |-> bin_tree.min_extent]]
  /\ todo_bins' = todo_bins \ {thinning}
  /\ thinning' = NoBin /\ bin_tree' = EmptyTree(1)
  /\ UNCHANGED <<vars, message, start_bin, prev_start_bin, passing, pending,
                 messages>>

\* The total counts every bin's cloud, also what an earlier message left that
\* nobody took; the mean is that of this message.
EndPass ==
  /\ passing /\ todo_bins = {}
  /\ \E start \in StartBins(bin_idxs, Total(Sizes(bin_pcs))) :
       NextPass(start, start_bin, start, bin_idxs)
  /\ UNCHANGED <<vars, message, bin_idxs, bin_pcs, thinning, bin_tree, thinned,
                 pending, messages>>

-----------------------------------------------------------------------------
(* The mapping loop *)

\* The clouds are taken over with start_bin_, and MapIncremental moves their
\* points to the world.
TakeScan(shift) ==
  LET full == {b \in Bins : bin_pcs[b] # <<>>}
      World(b) == [k \in DOMAIN bin_pcs[b] |-> bin_pcs[b][k] + shift]
  IN  /\ ~passing /\ MapIdle
      /\ pending = <<>> /\ full # {}
      /\ pending' = [b \in full |->
                       [points |-> World(b),
                        bucket |-> Buckets[CoarseBin(b, start_bin) + 1]]]
      /\ bin_pcs' = NoPoints /\ bin_idxs' = NoPoints
      /\ message' = <<>> /\ thinned' = NeverThinned
      /\ UNCHANGED <<vars, start_bin, pass_vars, messages>>

\* The bins go into the map from the nearest outwards.
MapBin(b) ==
  /\ ~passing /\ b \in DOMAIN pending /\ \A c \in DOMAIN pending : b <= c
  /\ StartBin(pending[b].points, pending[b].bucket)
  /\ pending' = [c \in DOMAIN pending \ {b} |-> pending[c]]
  /\ UNCHANGED scan_vars

\* The searches are made when the scan is in the map.
Search ==
  /\ ~passing /\ pending = <<>>
  /\ \E q \in Queries, r \in Radii : StartSearch(q, r)

MapStep ==
  /\ InsertStep \/ EndBin \/ Search \/ SearchStep \/ EndSearch
  /\ UNCHANGED <<scan_vars, pending>>

ScanNext ==
  \/ \E msg \in Messages : LidarMessage(msg)
  \/ \E b \in Bins : ThinBin(b)
  \/ ThinStep
  \/ EndThin
  \/ EndPass
  \/ \E shift \in Shifts : TakeScan(shift)
  \/ \E b \in Bins : MapBin(b)
  \/ MapStep

ScanSpec == ScanInit /\ [][ScanNext]_<<vars, scan_vars, pending>>

-----------------------------------------------------------------------------
(* Properties *)

\* The points of the last message that belong in a bin
OfMessage(b) == PlacesIn(message, b)

\* However often a bin is thinned, near every point of the message that fell
\* into it one is left, of that bin and of the message, although each pass
\* gets the places the one before has left
\* (lidar_processing.cpp:133-157, ioctree.h:252, 1014-1023).
ScanKeepsShape ==
  ~passing =>
    \A b \in Bins : \A i \in OfMessage(b) :
      /\ \A k \in DOMAIN bin_pcs[b] : \E j \in OfMessage(b) :
           bin_pcs[b][k] = message[j]
      /\ \E k \in DOMAIN bin_pcs[b] :
           Dist(bin_pcs[b][k], message[i]) <= 6 * thinned[b].total

\* A bin nearer than the start_bin_ that goes to the map with the scan, which
\* chooses the bucket by it, is no finer than that bin, whatever bins the last
\* pass left out and wherever the mean has moved to
\* (lidar_processing.cpp:146, 169-172, map_processing.cpp:396, 415).
ThinnedForStartBin ==
  ~passing =>
    \A b \in Bins :
      OfMessage(b) # {} =>
        \A c \in {b, start_bin} : Resolutions[c + 1] <= thinned[b].last
=============================================================================
