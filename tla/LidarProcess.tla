---------------------------- MODULE LidarProcess ----------------------------
(***************************************************************************)
(* LidarProcess (lidar_processing.h, lidar_processing.cpp): each scan       *)
(* message is sorted into range bins, downsampled bin by bin, and assembled *)
(* into ellipselio_pc_, which the mapping loop takes over when it comes     *)
(* round.                                                                   *)
(*                                                                         *)
(* A point is [scan, t, bin]: the message it came in, the time stamped on   *)
(* it, and its range bin (one metre of range each in the code).             *)
(* Coordinates and intensity are left out.  Downsampling is the octree's    *)
(* choice of some of a bin's points, at least one of them.                  *)
(*                                                                         *)
(* Like ImuProcess, the module has the operations only.                     *)
(***************************************************************************)
EXTENDS Integers, FiniteSets

CONSTANTS
  NumBins,        \* num_bins_: the bins are 1 .. NumBins, near to far
  MaxProcPoints,  \* kMaxProcPoints, the cap on ellipselio_pc_
  ScanShapes,     \* the messages: each the set of its [rel, bin] returns,
                  \* timed before the message's stamp where rel < 0
  MaxStamp,       \* bound: message stamps are 1 .. MaxStamp
  MaxScans        \* bound on the number of messages

Bins == 1 .. NumBins

\* How points are timed: relative to the message's stamp (Ouster, Velodyne,
\* Gazebo, Isaac Sim), or by an absolute stamp of their own (Livox, Hesai).
\* A Velodyne's relative times may be negative.
LidarTypes == {"relative", "absolute"}

ASSUME LidarAssumption ==
  /\ NumBins \in Nat \ {0}
  /\ MaxProcPoints \in Nat
  /\ ScanShapes \subseteq SUBSET [rel : Int, bin : Bins]
  /\ \A shape \in ScanShapes : IsFiniteSet(shape)
  /\ MaxStamp \in Nat
  /\ MaxScans \in Nat

VARIABLES
  lidar_type,         \* lidar_type_, set when the node starts
  bin_pcs,            \* bin_pcs_: the downsampled points of each bin;
                      \* bin_pcs_sizes_ is their number
  ellipselio_pc,      \* ellipselio_pc_
  lidar_start_time,   \* lidar_start_time_, read by the loop without the mutex
  lidar_end_time,     \* lidar_end_time_
  lidar_has_data,     \* lidar_has_data_, read by the loop without the mutex
  lidar_busy,         \* a callback holds lidar_mutex_ between its two steps
  scans_received,     \* messages handled so far
  late_points         \* history: a message had a point from before the end
                      \* of the scan it followed (see OnTime)

lidar_vars == <<lidar_type, bin_pcs, ellipselio_pc, lidar_start_time,
                lidar_end_time, lidar_has_data, lidar_busy, scans_received,
                late_points>>

Point == [scan : Nat, t : Int, bin : Bins]

\* The least and the greatest time in a cloud; each is a set of one time, and
\* empty if the cloud is.
Earliest(S) == {t \in {p.t : p \in S} : \A q \in S : t <= q.t}
Latest(S) == {t \in {p.t : p \in S} : \A q \in S : q.t <= t}

LidarTypeOK ==
  /\ lidar_type \in LidarTypes
  /\ bin_pcs \in [Bins -> SUBSET Point]
  /\ ellipselio_pc \subseteq Point
  /\ lidar_start_time \in Int
  /\ lidar_end_time \in Int
  /\ lidar_has_data \in BOOLEAN
  /\ lidar_busy \in BOOLEAN
  /\ scans_received \in Nat
  /\ late_points \in BOOLEAN

LidarInit ==
  /\ lidar_type \in LidarTypes
  /\ bin_pcs = [b \in Bins |-> {}]
  /\ ellipselio_pc = {}
  /\ lidar_start_time = 0
  /\ lidar_end_time = 0
  /\ lidar_has_data = FALSE
  /\ lidar_busy = FALSE
  /\ scans_received = 0
  /\ late_points = FALSE

BinSizes(pcs) == [b \in Bins |-> Cardinality(pcs[b])]

UpTo(pcs, b) == UNION {pcs[c] : c \in 1 .. b}

\* The assembly goes from the nearest bin outwards and stops at the first bin
\* that would take it over the cap.
Assembled(pcs) ==
  {b \in Bins : pcs[b] # {} /\ Cardinality(UpTo(pcs, b)) <= MaxProcPoints}

\* The bin whose time range the assembly starts from
FirstAssembled(pcs) ==
  {b \in Assembled(pcs) : \A c \in Assembled(pcs) : b <= c}

-----------------------------------------------------------------------------
(* The subscription's callback; its callback group is mutually exclusive.   *)

RelativeTime == lidar_type = "relative"

\* Mutant of Shift: the stamps are taken as they come
NoShift(stamp) == 0

\* The offset that keeps a scan from starting before the last one's end.
\* ConvertPoint adds it to the stamp of the message, but a point that has an
\* absolute stamp of its own keeps that.
Shift(stamp) ==
  IF RelativeTime /\ stamp < lidar_end_time THEN lidar_end_time - stamp ELSE 0

\* PointCloudHandler: the points of a message, timed and put in their bins
Converted(stamp, shape) ==
  {[scan |-> scans_received + 1, t |-> stamp + Shift(stamp) + r.rel,
    bin |-> r.bin] : r \in shape}

\* What a message has to be for its points not to be earlier than the end of
\* the scan before it: each is stamped later anyway, or is timed from the
\* message's stamp on, which the shift moves to that end.  It is a statement
\* about messages, and the code does not test it.
OnTime(stamp, shape) ==
  \A r \in shape : \/ RelativeTime /\ r.rel >= 0
                   \/ stamp + r.rel >= lidar_end_time

\* What downsampling may leave of the points: some of every bin's
Downsamplings(points) ==
  {kept \in SUBSET points :
     {p.bin : p \in kept} = {p.bin : p \in points}}

\* A bin the message has points in gets the new points; any other bin keeps
\* what it has, which is points of an earlier message nobody took.
Rebinned(kept) ==
  [b \in Bins |-> LET new == {p \in kept : p.bin = b}
                  IN  IF new = {} THEN bin_pcs[b] ELSE new]

\* LidarCallback and Process as far as the first assembled bin, whose time
\* range is what the loop reads meanwhile.
FillBins(stamp, shape) ==
  /\ ~lidar_busy
  /\ scans_received < MaxScans
  /\ \E kept \in Downsamplings(Converted(stamp, shape)) :
       bin_pcs' = Rebinned(kept)
  /\ ellipselio_pc' = UNION {bin_pcs'[b] : b \in Assembled(bin_pcs')}
  /\ IF ellipselio_pc' = {}
       THEN UNCHANGED <<lidar_start_time, lidar_end_time>>
       ELSE \E b \in FirstAssembled(bin_pcs') :
              /\ lidar_start_time' \in Earliest(bin_pcs'[b])
              /\ lidar_end_time' \in Latest(bin_pcs'[b])
  /\ scans_received' = scans_received + 1
  /\ late_points' = (late_points \/ ~OnTime(stamp, shape))
  /\ lidar_busy' = TRUE
  /\ UNCHANGED <<lidar_type, lidar_has_data>>

\* Mutant of FinishLidarCallback: returns without the unlock
FinishScanWithoutUnlock ==
  /\ lidar_busy
  /\ lidar_has_data' = TRUE
  /\ UNCHANGED <<lidar_type, bin_pcs, ellipselio_pc, lidar_start_time,
                 lidar_end_time, lidar_busy, scans_received, late_points>>

\* The rest of Process: the other bins' time ranges, and the flag.
FinishLidarCallback ==
  /\ lidar_busy
  /\ IF ellipselio_pc = {}
       THEN UNCHANGED <<lidar_start_time, lidar_end_time>>
       ELSE /\ lidar_start_time' \in Earliest(ellipselio_pc)
            /\ lidar_end_time' \in Latest(ellipselio_pc)
  /\ lidar_has_data' = TRUE
  /\ lidar_busy' = FALSE
  /\ UNCHANGED <<lidar_type, bin_pcs, ellipselio_pc, scans_received,
                 late_points>>

LidarCallback ==
  \/ \E stamp \in 1 .. MaxStamp, shape \in ScanShapes : FillBins(stamp, shape)
  \/ FinishLidarCallback

-----------------------------------------------------------------------------
(* What the mapping loop calls.                                            *)

NoPoints == [b \in Bins |-> {}]

\* Mutant of EmptyBins: the flag stays up
EmptyBinsKeepsFlag ==
  /\ ~lidar_busy
  /\ bin_pcs' = NoPoints
  /\ UNCHANGED <<lidar_type, ellipselio_pc, lidar_start_time, lidar_end_time,
                 lidar_has_data, lidar_busy, scans_received, late_points>>

\* ClearBins and the flag, which ClearPointCloud and GetPointCloud share.
\* The cloud and the times stay as they are.
EmptyBins ==
  /\ ~lidar_busy
  /\ bin_pcs' = NoPoints
  /\ lidar_has_data' = FALSE
  /\ UNCHANGED <<lidar_type, ellipselio_pc, lidar_start_time, lidar_end_time,
                 lidar_busy, scans_received, late_points>>

ClearPointCloud == EmptyBins

-----------------------------------------------------------------------------
(* Properties of the component, checked where it is composed.              *)

\* While the flag is up every point of the cloud is still in its bin, so what
\* GetPointCloud hands over is what it then clears from the bins
\* (lidar_processing.cpp:175-192, 226-229).
CloudIsInBins ==
  lidar_has_data => ellipselio_pc \subseteq UNION {bin_pcs[b] : b \in Bins}
=============================================================================
