----------------------------- MODULE MappingNode -----------------------------
(***************************************************************************)
(* The node: the IMU callback, the LiDAR callback and the mapping loop      *)
(* (MappingNode::TimerCallback, map_processing.cpp:1417-1518), which the    *)
(* multi-threaded container runs concurrently.  The loop is one thread with *)
(* a program counter.  SyncPackages reads the sensors' fields without their *)
(* mutexes, one statement after the other, so every statement that reads    *)
(* one is a step of its own; what runs under a mutex is one step.           *)
(*                                                                         *)
(*   idle -> imu_fresh -> lidar_start -> [clear] -> take -> window_start    *)
(*        -> window_end -> window_seen -> sync -> undistort -> [update]     *)
(*        -> map -> idle                                                   *)
(*                                                                         *)
(* Every early return of SyncPackages goes back to idle.                    *)
(***************************************************************************)
EXTENDS ImuProcess, LidarProcess

LOCAL Fun == INSTANCE Functions
LOCAL Sets == INSTANCE FiniteSetsExt

CONSTANTS ScanDuration   \* lidar_scan_duration, 1 / lidar rate

ASSUME NodeAssumption == ScanDuration \in Nat \ {0}

VARIABLES
  loop_pc,              \* where the loop is
  raw_cloud,            \* raw_cloud_: taken from LidarProcess, not synced yet
  raw_cloud_bins,       \* raw_cloud_bins_
  raw_start_time,       \* raw_start_time_
  raw_end_time,         \* raw_end_time_
  buffer_cloud,         \* buffer_cloud_: left over from the last sync
  buffer_cloud_bins,    \* buffer_cloud_bins_
  buffer_start_time,    \* buffer_start_time_
  buffer_end_time,      \* buffer_end_time_
  scan_cloud,           \* scan_cloud_: what this round registers and maps
  scan_cloud_bins,      \* scan_cloud_bins_
  scan_start_time,      \* scan_start_time_
  scan_end_time,        \* scan_end_time_
  window,               \* MappingNode's imu_start_time_ and imu_end_time_
  last_imu_time,        \* last_imu_time_
  synced_imu_states,    \* synced_imu_states_, the loop's copy of the ring
  loop_kf_state,        \* MappingNode's kf_state_
  map_counter,          \* map_counter_, counted up to 1
  mapped                \* history: the points handed to the map

cloud_vars == <<raw_cloud, raw_cloud_bins, raw_start_time, raw_end_time,
                buffer_cloud, buffer_cloud_bins, buffer_start_time,
                buffer_end_time>>
scan_vars == <<scan_cloud, scan_cloud_bins, scan_start_time, scan_end_time>>
round_vars == <<window, synced_imu_states, loop_kf_state>>
map_vars == <<map_counter, mapped>>
loop_vars == <<loop_pc, cloud_vars, scan_vars, round_vars, last_imu_time,
               map_vars>>
vars == <<imu_vars, lidar_vars, loop_vars>>

Locations == {"idle", "imu_fresh", "lidar_start", "clear", "take",
              "window_start", "window_end", "window_seen", "sync",
              "undistort", "update", "map"}

BinCounts == [Bins -> Nat]

NoCounts == [b \in Bins |-> 0]

\* Mutant of AddCounts: assigns where it should add
LastCounts(c, d) == d

AddCounts(c, d) == [b \in Bins |-> c[b] + d[b]]

CountBins(points) ==
  [b \in Bins |-> Cardinality({p \in points : p.bin = b})]

NoWindow == [start |-> 0, end |-> 0]

TypeOK ==
  /\ ImuTypeOK
  /\ LidarTypeOK
  /\ loop_pc \in Locations
  /\ raw_cloud \subseteq Point /\ raw_cloud_bins \in BinCounts
  /\ buffer_cloud \subseteq Point /\ buffer_cloud_bins \in BinCounts
  /\ scan_cloud \subseteq Point /\ scan_cloud_bins \in BinCounts
  /\ raw_start_time \in Int /\ raw_end_time \in Int
  /\ buffer_start_time \in Int /\ buffer_end_time \in Int
  /\ scan_start_time \in Int /\ scan_end_time \in Int
  /\ window \in [start : Int, end : Int]
  /\ last_imu_time \in Int
  /\ synced_imu_states \in Seq(KfState)
  /\ loop_kf_state \in KfState
  /\ map_counter \in 0 .. 1
  /\ mapped \subseteq Point

Init ==
  /\ ImuInit
  /\ LidarInit
  /\ loop_pc = "idle"
  /\ raw_cloud = {} /\ raw_cloud_bins = NoCounts
  /\ buffer_cloud = {} /\ buffer_cloud_bins = NoCounts
  /\ scan_cloud = {} /\ scan_cloud_bins = NoCounts
  /\ raw_start_time = 0 /\ raw_end_time = 0
  /\ buffer_start_time = 0 /\ buffer_end_time = 0
  /\ scan_start_time = 0 /\ scan_end_time = 0
  /\ window = NoWindow
  /\ last_imu_time = 0
  /\ synced_imu_states = <<>>
  /\ loop_kf_state = NoState
  /\ map_counter = 0
  /\ mapped = {}

-----------------------------------------------------------------------------
(* SyncPackages *)

At(here) == loop_pc = here

GoTo(there) == loop_pc' = there

\* The timer fires; there is LiDAR data somewhere (lines 18-26).  With none
\* the round ends at once and nothing changes.
StartRound ==
  /\ At("idle")
  /\ lidar_has_data \/ buffer_cloud # {} \/ raw_cloud # {}
  /\ GoTo("imu_fresh")
  /\ SetLidarReady
  /\ UNCHANGED <<lidar_vars, cloud_vars, scan_vars, round_vars, last_imu_time,
                 map_vars>>

ReadsOnly ==
  UNCHANGED <<imu_vars, lidar_vars, cloud_vars, scan_vars, round_vars,
              last_imu_time, map_vars>>

\* Is there IMU data newer than that of the last round (line 27)?
CheckImuFresh ==
  /\ At("imu_fresh")
  /\ GoTo(IF imu_end_time <= last_imu_time THEN "idle" ELSE "lidar_start")
  /\ ReadsOnly

\* Does LidarProcess's scan start before the IMU window (line 42)?
CheckLidarStart ==
  /\ At("lidar_start")
  /\ GoTo(IF lidar_start_time < imu_start_time THEN "clear" ELSE "take")
  /\ ReadsOnly

\* ... then whatever LidarProcess holds by now is dropped (lines 43-46).
DropEarlyScan ==
  /\ At("clear")
  /\ ClearPointCloud
  /\ GoTo("idle")
  /\ UNCHANGED <<imu_vars, cloud_vars, scan_vars, round_vars, last_imu_time,
                 map_vars>>

\* Mutant of StartOfRaw: the newest scan's start, whatever is there already
NewestStart == lidar_start_time

\* The raw cloud's start is that of the first scan taken into it.
StartOfRaw == IF raw_cloud = {} THEN lidar_start_time ELSE raw_start_time

\* GetPointCloud adds LidarProcess's scan to the raw cloud, and with it the
\* sizes of all bins.  Nothing to work with ends the round (lines 49-59).
TakeScan ==
  /\ At("take")
  /\ lidar_has_data
  /\ raw_start_time' = StartOfRaw
  /\ raw_end_time' = lidar_end_time
  /\ raw_cloud' = raw_cloud \cup ellipselio_pc
  /\ raw_cloud_bins' = AddCounts(raw_cloud_bins, BinSizes(bin_pcs))
  /\ EmptyBins
  /\ GoTo(IF raw_cloud' = {} /\ buffer_cloud = {} THEN "idle"
                                                  ELSE "window_start")
  /\ UNCHANGED <<imu_vars, buffer_cloud, buffer_cloud_bins, buffer_start_time,
                 buffer_end_time, scan_vars, round_vars, last_imu_time,
                 map_vars>>

NoScanToTake ==
  /\ At("take")
  /\ ~lidar_has_data
  /\ GoTo(IF raw_cloud = {} /\ buffer_cloud = {} THEN "idle"
                                                 ELSE "window_start")
  /\ ReadsOnly

\* imu_start_time_ and imu_end_time_, one read each (lines 61-62)
ReadWindowStart ==
  /\ At("window_start")
  /\ window' = [window EXCEPT !.start = imu_start_time]
  /\ GoTo("window_end")
  /\ UNCHANGED <<imu_vars, lidar_vars, cloud_vars, scan_vars,
                 synced_imu_states, loop_kf_state, last_imu_time, map_vars>>

ReadWindowEnd ==
  /\ At("window_end")
  /\ window' = [window EXCEPT !.end = imu_end_time]
  /\ GoTo("window_seen")
  /\ UNCHANGED <<imu_vars, lidar_vars, cloud_vars, scan_vars,
                 synced_imu_states, loop_kf_state, last_imu_time, map_vars>>

\* The interval of the points in hand (lines 65-73)
PendingStart == IF buffer_cloud = {} THEN raw_start_time ELSE buffer_start_time
PendingEnd == IF raw_cloud = {} THEN buffer_end_time ELSE raw_end_time

\* The tests of lines 81-89: a short interval waits for the next scan if it
\* is left-overs, and for the IMU if not; a long one waits for one scan
\* duration's worth of IMU data.
MustWait ==
  IF PendingEnd - PendingStart < ScanDuration
    THEN buffer_cloud # {} \/ PendingEnd > window.end
    ELSE PendingStart + ScanDuration > window.end

\* imu_end_time_ is read once more (line 63) and the round goes on, waits or
\* gives up its left-overs (lines 65-89).
JudgeWindow ==
  /\ At("window_seen")
  /\ last_imu_time' = imu_end_time
  /\ scan_end_time' = PendingEnd
  /\ IF window.start > PendingStart
       THEN /\ scan_start_time' = window.start
            /\ buffer_cloud' = {}
            /\ GoTo("idle")
       ELSE /\ scan_start_time' = PendingStart
            /\ GoTo(IF MustWait THEN "idle" ELSE "sync")
            /\ UNCHANGED buffer_cloud
  /\ UNCHANGED <<imu_vars, lidar_vars, raw_cloud, raw_cloud_bins,
                 raw_start_time, raw_end_time, buffer_cloud_bins,
                 buffer_start_time, buffer_end_time, scan_cloud,
                 scan_cloud_bins, round_vars, map_vars>>

-----------------------------------------------------------------------------
(* SyncRawCloudWithImu *)

\* Mutant of SyncWithLidar: the raw cloud is not cleared
SyncKeepsRaw ==
  /\ At("sync")
  /\ ~imu_busy
  /\ synced_imu_states' = imu_states
  /\ window' = [start |-> imu_start_time, end |-> imu_end_time]
  /\ GoTo("undistort")
  /\ UNCHANGED <<imu_vars, lidar_vars, raw_cloud, raw_cloud_bins,
                 raw_start_time, raw_end_time, loop_kf_state, last_imu_time,
                 map_vars>>

\* The copy of the ring and its window, taken under imu_mutex_, and the
\* clearing of the raw cloud that ends both branches (lines 1289, 1358-1361)
SyncWithLidar ==
  /\ At("sync")
  /\ ~imu_busy
  /\ synced_imu_states' = imu_states
  /\ window' = [start |-> imu_start_time, end |-> imu_end_time]
  /\ raw_cloud' = {} /\ raw_cloud_bins' = NoCounts
  /\ raw_start_time' = 0 /\ raw_end_time' = 0
  /\ GoTo("undistort")
  /\ UNCHANGED <<imu_vars, lidar_vars, loop_kf_state, last_imu_time, map_vars>>

\* Mutant of IsBracketed: looks at the end only
IsBracketedAtEnd == imu_end_time > PendingEnd

\* The IMU data brackets the interval: everything in hand is the scan
\* (lines 1297-1304).
IsBracketed == imu_end_time > PendingEnd /\ imu_start_time < PendingStart

SyncWhole ==
  /\ SyncWithLidar
  /\ IsBracketed
  /\ scan_start_time' = PendingStart /\ scan_end_time' = PendingEnd
  /\ scan_cloud' = buffer_cloud \cup raw_cloud
  /\ scan_cloud_bins' = AddCounts(buffer_cloud_bins, raw_cloud_bins)
  /\ buffer_cloud' = {} /\ buffer_cloud_bins' = NoCounts
  /\ buffer_start_time' = 0 /\ buffer_end_time' = 0

\* It does not: the points inside the IMU data are the scan, the later ones
\* are left over, the earlier ones are lost (lines 1305-1348).
SyncSplit ==
  /\ SyncWithLidar
  /\ ~IsBracketed
  /\ scan_start_time' = IF imu_start_time > PendingStart THEN imu_start_time
                                                         ELSE PendingStart
  /\ IF imu_end_time < PendingEnd
       THEN /\ buffer_start_time' = imu_end_time
            /\ buffer_end_time' = PendingEnd
            /\ scan_end_time' = imu_end_time
       ELSE /\ scan_end_time' = PendingEnd
            /\ UNCHANGED <<buffer_start_time, buffer_end_time>>
  /\ LET kept == {p \in buffer_cloud \cup raw_cloud : p.t >= scan_start_time'}
     IN  /\ scan_cloud' = {p \in kept : p.t <= scan_end_time'}
         /\ buffer_cloud' = {p \in kept : p.t > scan_end_time'}
  /\ scan_cloud_bins' = CountBins(scan_cloud')
  /\ buffer_cloud_bins' = CountBins(buffer_cloud')

-----------------------------------------------------------------------------
(* The rest of TimerCallback *)

\* UndistortPointCloud moves the points to the frame of the entry that
\* matches the end of the scan and takes that entry's state.
UndistortPointCloud ==
  /\ At("undistort")
  /\ \E m \in TimeMatches(synced_imu_states, scan_end_time) :
       loop_kf_state' = synced_imu_states[m]
  /\ GoTo(IF map_counter = 0 THEN "map" ELSE "update")
  /\ UNCHANGED <<imu_vars, lidar_vars, cloud_vars, scan_vars, window,
                 synced_imu_states, last_imu_time, map_vars>>

\* UpdateStatesWithLidar; the time the solver takes is the time the loop
\* spends at "update".
UpdateStatesWithLidar ==
  /\ At("update")
  /\ \E m \in TimeMatches(imu_states, scan_end_time) :
       /\ ApplyLidarUpdate(m, loop_kf_state, scan_end_time)
       /\ loop_kf_state' = imu_states'[m]
  /\ GoTo("map")
  /\ UNCHANGED <<lidar_vars, cloud_vars, scan_vars, window,
                 synced_imu_states, last_imu_time, map_vars>>

\* MapIncremental walks scan_cloud_ in segments of the bins' sizes and stops
\* at the first segment that would run past the cloud's end.
Segments(counts, b) == Fun!SumFunctionOnSet(counts, 1 .. b)

Offered(counts, n) ==
  Sets!Max({Segments(counts, b) : b \in {c \in 0 .. NumBins :
                                           Segments(counts, c) <= n}})

MapIncremental ==
  /\ At("map")
  /\ \E some \in SUBSET scan_cloud :
       /\ Cardinality(some) = Offered(scan_cloud_bins, Cardinality(scan_cloud))
       /\ mapped' = mapped \cup some
  /\ map_counter' = 1
  /\ GoTo("idle")
  /\ UNCHANGED <<imu_vars, lidar_vars, cloud_vars, scan_vars, round_vars,
                 last_imu_time>>

-----------------------------------------------------------------------------

Loop ==
  \/ StartRound \/ CheckImuFresh \/ CheckLidarStart \/ DropEarlyScan
  \/ TakeScan \/ NoScanToTake \/ ReadWindowStart \/ ReadWindowEnd
  \/ JudgeWindow \/ SyncWhole \/ SyncSplit
  \/ UndistortPointCloud \/ UpdateStatesWithLidar \/ MapIncremental

Sensors ==
  \/ ImuCallback /\ UNCHANGED <<lidar_vars, loop_vars>>
  \/ LidarCallback /\ UNCHANGED <<imu_vars, loop_vars>>

Next == Loop \/ Sensors

\* The container gives every callback its thread: a callback that has started
\* runs to its end, and so does a round of the loop.  For the loop's steps that
\* take a mutex the fairness is strong: the callbacks free it after every
\* message, and a mutex that is free again and again is had some time.
\* Nothing makes the sensors send.
Fairness ==
  /\ SF_vars(Loop)
  /\ WF_vars(FinishImuCallback /\ UNCHANGED <<lidar_vars, loop_vars>>)
  /\ WF_vars(FinishLidarCallback /\ UNCHANGED <<imu_vars, loop_vars>>)

Spec == Init /\ [][Next]_vars

FairSpec == Spec /\ Fairness

-----------------------------------------------------------------------------
(* Properties *)

\* While no message brought a point from before the end of the scan it
\* followed, the points that are undistorted were measured inside the IMU data
\* the loop copied, so every pose is interpolated, none extrapolated, and the
\* search for an entry is never made in an empty ring
\* (map_processing.cpp:1289-1342, imu_processing.cpp:199-235).
UndistortWithinImu ==
  At("undistort") /\ ~late_points =>
    /\ synced_imu_states # <<>>
    /\ \A p \in scan_cloud : /\ synced_imu_states[1].time <= p.t
                             /\ p.t <= Last(synced_imu_states).time

\* While no message brought a point from before the end of the scan it
\* followed, a round maps nothing measured before what earlier rounds mapped,
\* although a message may be stamped before that end, and a scan may be split
\* over rounds, merged with the next one or taken while the next is being
\* received (lidar_processing.cpp:94-102, map_processing.cpp:1283-1371).
MapInTimeOrder ==
  [][~late_points =>
       \A p \in mapped' \ mapped, q \in mapped : q.t <= p.t]_vars

\* The bins' sizes that go with a cloud are never too small for it
\* (lidar_processing.cpp:226-227, map_processing.cpp:78, 1300-1302, 1345-1346).
\* They may be too large (RawBinsMatch, BufferBinsMatch below), and a walk in
\* segments of these sizes then stops before the end of the cloud
\* (map_processing.cpp:413).
CountsCover(counts, points) ==
  \A b \in Bins : CountBins(points)[b] <= counts[b]

BinsNeverUndercount ==
  /\ CountsCover(raw_cloud_bins, raw_cloud)
  /\ CountsCover(buffer_cloud_bins, buffer_cloud)
  /\ CountsCover(scan_cloud_bins, scan_cloud)

\* Raw points from before the IMU window: the loop has yet to read the window,
\* or has read it and it starts after them.
Wedged ==
  /\ raw_cloud # {}
  /\ raw_start_time < imu_start_time
  /\ buffer_cloud # {} => buffer_start_time <= raw_start_time
  /\ \/ loop_pc \in {"idle", "imu_fresh", "lidar_start", "clear", "take",
                     "window_start"}
     \/ loop_pc \in {"window_end", "window_seen"}
        /\ raw_start_time < window.start

\* Once the oldest raw point is older than the IMU window no scan is ever
\* registered or mapped again: the branch for it clears the left-overs and
\* not the raw cloud, and the window only moves on
\* (map_processing.cpp:74-80, lidar_processing.cpp:222-224).
WedgeIsPermanent == [][Wedged => Wedged' /\ UNCHANGED map_vars]_vars

\* Every round of the loop ends: it cannot be left waiting for a mutex a
\* callback took (map_processing.cpp:1448-1517).
RoundsEnd == ~At("idle") ~> At("idle")

\* The rest is what the repository says of the program and the code does not
\* do.  The run wedged is about NeverWedged; the constants of mapping_node are
\* enough for TLC to refute the others.

\* SyncPackages can still use what is in the raw cloud.
NeverWedged == ~Wedged

\* buffer_cloud_bins_ counts the points of buffer_cloud_.
BufferBinsMatch == buffer_cloud_bins = CountBins(buffer_cloud)

\* raw_cloud_bins_ counts the points of raw_cloud_.
RawBinsMatch == raw_cloud_bins = CountBins(raw_cloud)

\* raw_end_time_ is the time of the latest point of raw_cloud_.
RawEndIsLatest == raw_cloud # {} => raw_end_time \in Latest(raw_cloud)

\* A scan has at most kMaxProcPoints points for registration and mapping.
ScanFits == Cardinality(scan_cloud) <= MaxProcPoints

\* lidar_start_time_ is the time of a point of the scan received last.
StartTimeOfCurrentScan ==
  lidar_has_data /\ ~lidar_busy =>
    \E p \in ellipselio_pc :
       p.scan = scans_received /\ p.t = lidar_start_time
=============================================================================
