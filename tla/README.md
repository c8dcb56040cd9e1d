# EllipseLIO in TLA+

EllipseLIO is a ROS 2 node that estimates a vehicle's trajectory from an IMU
and a LiDAR and builds a map of ellipsoids. This directory holds TLA+ modules
that model its concurrent core, TLC configurations that check them on small
instances, and TLAPS proofs about them for all values of their constants. Paths
and lines are those of the repository (`src/`, `include/` at its root).

## The system

| component | state | operations | who calls them |
| --- | --- | --- | --- |
| `ImuProcess` (`src/imu_processing.cpp`) | ring `imu_states_`, window `imu_start_time_`/`imu_end_time_`, filter `kf_`, `kf_state_`, `pub_kf_state_`, initialisation | `ImuCallback` (`Process`, `InitImu`), `SyncWithLidar`, `UndistortPointCloud`, `UpdateStatesWithLidar`, `GetTimeMatch`, `GetKfState` | its own callback group; the loop; the IMU odometry timer |
| `LidarProcess` (`src/lidar_processing.cpp`) | range bins, `start_bin_`, assembled cloud, its time range, `lidar_has_data_`, time offset | `LidarCallback` (`Process`, `PointCloudHandler`), `GetPointCloud`, `ClearPointCloud` | its own callback group; the loop |
| `CamProcess` (`src/cam_processing.cpp`) | image ring and window | `CamCallback`, `GetMatchingImageTime`, `ColorPoint` | its own callback group per camera; the loop's deskewing |
| mapping loop (`MappingNode::TimerCallback`) | `raw_cloud_`, `buffer_cloud_`, `scan_cloud_` with counts and times, `kf_state_`, `map_counter_` | `SyncPackages`, `SyncRawCloudWithImu`, the calls into `ImuProcess`, `MapIncremental` | loop timer |
| tensor voting | `neighbours_`, `tensors_p1_`, `tensors_p2_`, `filters_`, `updated_pt_`, `update_idx_` | `TensorVotePass1`, `TensorVotePass2` | `MapIncremental`, OpenMP threads |
| registration | rows `ekfom_data_*`, `ekfom_iter_cnt_`, running scores | `TensorRegistration` | the filter's iteration, OpenMP threads |
| iterated filter (`esekfom.hpp`) | state, covariance | `predict`, `update_iterated_dyn_share_modified_R` | `ImuProcess` |
| manifold toolkit (`mtk/`) | layout of the state, lists of its curved fields | `MTK_BUILD_MANIFOLD`, `build_*_state` | the filter |
| octree (`ioctree.h`) | octants, points | `Update`, `RadiusNeighbors`, `KnnNeighbors` | bins, map, registration |
| publishers | `kf_state_pub_`, `scan_cloud_pub_`, last published stamps | `PublishMap`, `PublishLidarOdometry`, `PublishImuOdometry` | three timers |

The node runs in a multi-threaded container. Each sensor's subscription, the
loop timer and each publishing timer have a mutually exclusive callback group
of their own, so each is sequential in itself and concurrent with all others.
`imu_mutex_` guards the ring and the filter, `pub_mutex_` (taken inside it) the
published state, `lidar_mutex_` the bins and the cloud, `map_mutex_` and
`odom_mutex_` what the loop shares with the publishers.

What is hard about it:

* The loop reads the fields of both sensors (`lidar_has_data_`,
  `lidar_start_time_`, `imu_start_time_`, `imu_end_time_`) **without their
  mutexes**, one after the other, and acts on them later.
* A scan may be overwritten, partly overwritten (bins without new points keep
  the old ones), capped, merged with the next one, split at the end of the IMU
  data, and cut at its start. Counts per bin travel with the points.
* The filter is corrected with the result of a computation that ran without
  the mutex on a copy, while the callback went on predicting with the original.
* Stamps may be late, equal, relative to a message that is itself shifted (and
  then before or after its stamp), or absolute.
* Inside a round OpenMP threads claim rows of shared arrays that live from round
  to round: rows of votes (`TensorVotePass1`) and of matches
  (`TensorRegistration`).
* The filter's matrices are put together block by block, one of them
  uninitialised, another overwritten in place while it is read, at indices that
  are partly computed and partly written out as numbers.

What makes each part correct: the ring is sorted, its window truthful, and the
four copies of the newest state agree (`ImuProcess`); the cloud handed over is
what is cleared from the bins (`LidarProcess`); no point is mapped twice, points
are mapped in order and deskewing never extrapolates as long as no message
brings late points, and every round ends (loop);
the search finds the right entry and ends (`GetTimeMatch`); a scan is coloured
from an image next to its end, through the pose of that image's time
(`CamProcess`, deskewing); thinning keeps the scan's shape and fits the
`start_bin_` that goes with it (bins); numbers in the octree are places in the
map and its searches are exact (octree); every row of votes belongs to one point
and to this round, and a tensor is made of all the votes its point has had
(tensor voting); the filter gets one row per matched point (registration); the
covariance is the posterior's, the budget holds, and every block is written, once
and from its own field (iterated filter); what is published is of one round and
in order (publishers).
`PROJECT.json` lists the hazards one by one with their lines.

## The modules

* **`TimeMatch`**: what `GetTimeMatch` returns, from its exit conditions alone.
  Everything else uses this definition, so nothing assumes that the ring is
  sorted where the code does not establish it.
* **`TimeMatchLoop`**: the search itself: the guess from the nominal rate, the
  clamps, and one action per branch of the loop.
* **`ImuProcess`**: the state and the operations of the class. A callback that
  pushes is two steps, since `imu_start_time_` and `imu_end_time_` change one
  after the other before the eyes of the loop; the second one releases the
  mutex. The filter's mean is abstracted to `est`, *the instant it is an
  estimate for*: `predict(dt)` moves it by `dt`, a LiDAR update sets it to the
  instant the scan was deskewed to. A state is `[time, est]`: its stamp and
  that instant. This is enough to see a posterior written to the wrong entry, a
  replay that starts at the wrong place, a prediction from a stale state.
* **`LidarProcess`**: the same for the LiDAR. A point is `[scan, t, bin]`. The
  callback is two steps: up to the first bin whose time range becomes visible
  through `lidar_start_time_`, and the rest. `lidar_type` is chosen at the start:
  points are timed relative to the message's stamp, which the offset moves
  (`Shift`), or by absolute stamps, which it does not. Relative times may be
  negative, as a Velodyne's are (`lidar_processing.cpp:261-262`), so in both
  kinds a point may be from before the end of the scan its message follows.
  `OnTime` says that a message has no such point, and the history variable
  `late_points` that some message had one; no action depends on it.
* **`MappingNode`**: composes both with the loop, which is one thread with a
  program counter `loop_pc`. Every statement of `SyncPackages` that reads a
  sensor's field without the mutex is a step of its own; what runs under a
  mutex, or on the loop's own data, is one step. Early returns go to `"idle"`.

  | action | code |
  | --- | --- |
  | `StartRound` | `map_processing.cpp:18-26` |
  | `CheckImuFresh` | 27-33 |
  | `CheckLidarStart`, `DropEarlyScan` | 42, 43-46 |
  | `TakeScan`, `NoScanToTake` | 49-59, `lidar_processing.cpp:212-233` |
  | `ReadWindowStart`, `ReadWindowEnd`, `JudgeWindow` | 61, 62, 63-89 |
  | `SyncWhole`, `SyncSplit` | 1283-1361, `imu_processing.cpp:154-161` |
  | `UndistortPointCloud` | 1453, `imu_processing.cpp:191-243` |
  | `UpdateStatesWithLidar` | 1458-1463, `imu_processing.cpp:329-397` |
  | `MapIncremental` | 1467-1516, 374-446 |

  The solver runs without the mutex: the time it takes is the time `loop_pc`
  stays at `"update"`, and the callbacks go on meanwhile.
* **`PointFlow`**: the abstract specification of what happens to LiDAR points: a
  message brings new ones, a point in hand is kept, lost or mapped, and never
  comes back. **`MappingNodeFlow`** holds the refinement mapping.
* **`MCMappingNode`**: the scan shapes the configurations use.
* **`CamProcess`**: the ring of images of one camera, its callback, and
  `GetMatchingImageTime` with one action per branch of its walk. The test for an
  empty ring is made without the mutex, so the callback may come in between it
  and the search (`AskForImage`, `LockAndGuess`).
* **`Colouring`** extends it with the scan that asks for the image:
  `UndistortPointCloud` on the loop's copy of the IMU states (`StartScan`,
  `MatchPoses`, `UndistortPoint`, `EndScan`) and `ColorPoint`, while images keep
  coming. A pose is the time it is for and the two states it is made of. That of
  the scan's end is one state's own, at its own time (`StatePose`): the first
  state after the end, or the newest (`imu_processing.cpp:200-210`).
  **`MCColouring`** has the copies.
* **`Octree`**: the octree on one axis instead of three. A tree is a record, and
  the code's recursion is a set of calls still to be made: `StartUpdate`
  (`Initialize`, `Update`), `GrowRoot`, `PassDown`, `SplitLeaf`, `TakePoint` and
  `EndLeaf` (`CreateOctant`, `UpdateOctant`) are steps from tree to tree, one for
  each call or point. A search for the nearest point is steps too, over the
  stack of its calls (`VisitLeaf`, `VisitInner`, `TryOther`, `LeaveOctant`).
  `RadiusNeighbors` looks at octants whatever it has found, so its result is the
  set of points of all octants it reaches. No two octants have the same box, so
  an octant is its box.
* **`MapOctree`**: the map's tree with `map_cloud_` beside it, as
  `MapIncremental` keeps them: a bin is inserted (`StartBin`, `InsertStep`,
  `EndBin`) or a point searched for (`StartSearch`, `SearchStep`, `EndSearch`).
* **`ScanBins`** extends it with where the bins come from: `LidarMessage`
  (`PointCloudHandler`) sorts a message's points by range and chooses
  `start_bin_`; `Process` thins each bin with an octree of its own (`ThinBin`,
  `ThinStep`, `EndThin`: `Octree` once more, at the bin's resolution), near bins
  again while the mean moves outwards (`EndPass`); the loop takes the bins
  (`TakeScan`) and maps them one by one (`MapBin`, `MapStep`). **`MCScanBins`**
  has the messages.
* **`TensorVote`**: a round of the map update after insertion. Only the part of
  `TensorVotePass1` where threads touch each other's data is taken apart:
  `Claim` (line 264), `WriteIndex` (265), `ResetRow` (266-267), `CheckRow` (270),
  `Reserve` and `WriteSlot` (268-272). The loops on either side of it are
  `StartRound` and `AppendVotes`. A tensor is the sequence of the points whose
  votes are summed in it; `ComputeTensorEigen` (131-188) either makes of it the
  tensor its point votes with in the second pass, and there its ellipsoid, or
  refuses and puts the filter out. **`MCTensorVote`** has the points.
* **`FilterIteration`**: the control of `update_iterated_dyn_share_modified_R`
  and the scores `TensorRegistration` keeps from call to call. A covariance is
  the state it is written at and the registrations whose information it holds.
* **`Registration`** puts the match loop of `TensorRegistration` into those
  iterations. A thread takes a point up, claims a row with `++feat_cnt` and
  fills the arrays one after the other (`SearchPoint`, `ClaimRow`,
  `CountPrimitive`, `WriteWeight`, `WriteObservation`); `HandOver` is the end of
  the loop. What is in a row is the point it was computed from.
* **`FilterBlocks`**: which blocks of the filter's matrices are written, from
  what, and in which order: `MTK_BUILD_MANIFOLD` entry by entry, the lists
  `build_*_state` makes, `predict` list by list, and the covariance of an
  update field by field and row by row. Of an entry of a covariance it has how
  often it has been multiplied by its row's and its column's factor; of a row of
  the Jacobian, the rows it is made of. **`MCFilterBlocks`** has the manifolds.
* **`Publishers`**: the end of the loop's round against two publishing timers.
  `kf_state_pub_.time`, `map_cloud_->size()` and the stamp of the map are read
  without a mutex, and each of these reads is a step. The map goes out in the
  parts `SplitMap` makes, one step each, while the loop goes on.
* **`TimeMatchLoopProofs`**, **`MappingNodeProofs`** (with the lemmas about
  `ImuProcess` and `LidarProcess` and the refinement of `PointFlow`),
  **`CamProcessProofs`** (with the theorem about `Colouring`),
  **`ScanBinsProofs`** (`Octree`, `MapOctree` and `ScanBins`),
  **`TensorVoteProofs`**, **`FilterIterationProofs`** (with the theorems about
  `Registration`), **`FilterBlocksProofs`**, **`PublishersProofs`**: theorems.

`ImuProcess` and `LidarProcess` are composed in `MappingNode`; `Colouring` puts
`CamProcess` and the search together, `ScanBins` the thinning and the map,
`Registration` the match loop and the filter. These stand beside the node: they
take from the rest of it only what is written here.

| module | what it takes from its surroundings |
| --- | --- |
| `CamProcess`, `Colouring` | images come at any time with any stamp; scans end at any time, with any sorted, non-empty copy of the ring |
| `ScanBins` | messages with points at any range, the sensor anywhere; a scan is taken whole (`LidarProcess` has the interleavings and the cap) |
| `TensorVote` | `RadiusNeighbors` is exact (`SearchesExact` in `MapOctree`) |
| `Registration`, `FilterIteration` | a predicted state per round; any matches, any step, any duration of a registration |
| `FilterBlocks` | any declaration of a manifold with vectors, SO3s and S2s |
| `Publishers` | a round brings up to `MaxNew` points and a state with any stamp, which may repeat or go back (absolute stamps in a late scan); `pub_map_n_secs` is positive |

Definitions named in `PROJECT.json` under "mutants" (with a comment "Mutant of")
are wrong versions of the definition below them. No specification uses them;
replacing the definition by its mutant makes TLC find the property violated.

### Abstractions

* Time is integers. Stamps of IMU messages and scans are arbitrary within their
  bounds: messages may be late, early, equal, or missing. A point's time is any
  distance from its message's stamp that a shape in `ScanShapes` has.
* The two loads of the one comparison in line 42, and `lidar_has_data_` with
  the loop's own clouds in line 18, are one step each.
* `lidar_has_data_` in `GetPointCloud` is tested before the mutex is taken
  (`lidar_processing.cpp:217-219`); only the loop lowers it, so a true test
  stays true and the test and the taking are one step.
* Points are a set, so the order inside a cloud is not modelled.
  `MapIncremental` hands over *some* points, as many as the segments allow.
* `init_iter_num_` is counted to `Rate + 1` and `map_counter_` to 1, the only
  values the code compares them with. Frequency counters and analytics are out.
* `update_iterated_dyn_share_modified_R` never returns false here, because
  nothing in the repository sets `valid`; the early return of
  `UpdateStatesWithLidar` is therefore left out.
* The octree has one axis: an octant has two children, and an octant's box is an
  interval. What is left of `Update` is the order of its tests and the arithmetic
  at the boundaries. The slots of `all_points` are sets; `octant_num` against
  `octant_max` is left out. The code halves floats and the modules integers, so
  the unit is to be so fine that what cannot be halved is too small to be split
  (`Exact`); rounding of floats is not modelled.
* In `ScanBins` a `Process` runs from the message to its last pass before the
  map's next step: it holds `lidar_mutex_` and shares nothing with the map. The
  bins of a pass do not touch each other's state and are thinned one by one.
* In `TensorVote` the inner `omp parallel for` loops are nested, which OpenMP
  runs on one thread unless told otherwise. `update_idx_[map_j]` is read once
  for the counter and the slot of a vote. Which of a race's outcomes occurs is
  the interleaving; a lost update of an `int` is not among them because only one
  thread writes each `update_idx_`.
* In `TensorVote` the solver may refuse the tensors of the points in `MayFail`.
  The second pass is one step, since no point of it changes what another reads.
* In `ScanBins` a point's range is its position on the axis, and the mean of a
  message without points, 0/0 converted to `int`, is 0 or negative.
* In `Registration` the neighbour of a point, and the reasons to pass it over,
  are a choice; `ekfom_data_w_`, `_ot_` and `_or_` are one array, written in one
  step, and so are `_h_v_` and `_h_x_v_`: each of these is written at a row that
  no other thread has.
* `FilterBlocks` leaves out what the factors are. For the SO3 and the S2 alike
  "carried once" means multiplied by the field's own factor of this step.
* In `Publishers` all outputs are on. Messages are the round they describe.
* In `FilterIteration` the steps and durations are any of a small set, which
  covers whatever the linear algebra and the clock yield.

## Model checking

| run | instance | what it shows |
| --- | --- | --- |
| `time_match` | all sorted buffers of 1-5 entries over 0..5, rate 2 on 3 ticks a second, so that the guess errs both ways | the search finds the first later entry, never turns back, ends |
| `mapping_node` | both kinds of LiDAR, ring of 3, stamps to 5 (the ring overflows), 2 scans of up to three bins under a cap of 2 points: none in range, one bin more than the cap lets through, one that begins before its stamp | agreement of the filter's copies, correction never ahead, ring in order, cloud in bins, the wedge is permanent; deskewing within the IMU data and mapping in order while no message has late points |
| `point_flow` | the same with a ring of 2, stamps to 4, and a bin of two returns that downsampling may thin | bins never undercounted, refinement of `PointFlow`, every round ends |
| `cam_process` | module `MCColouring`: ring of 3 at 3 images on 5 ticks, stamps to 5, copies of the IMU states with a gap, with equal stamps, of one state | the search ends, passes over no image, never goes back to older images; points are moved from the pose of their own time to that of the first state after the scan's end, and coloured through the pose of their image |
| `map_octree` | module `MCScanBins`: four bins of 32, resolutions 8, 8, 16, 32, smallest octants of 8 in the map, two messages of all orders of up to two points and of crowds that move the mean, two places of the sensor, buckets 1 and 2, searches for five points with radii 20 and 36 | thinning keeps the scan's shape and ends coarse enough for `start_bin_`; numbers are places in `map_cloud_`, leaves fit their slots, no holes, both searches exact |
| `tensor_vote` | batches of 2, 3 and 3 points, 1 or 2 threads, rows of 3, a point whose solves may fail | one row per point asked, rows of this round only, lists bounded, no vote lost by one thread, tensors made of all their votes |
| `filter_iteration` | module `Registration`: 2 rounds of up to 3 iterations, budget 1, steps of up to 1, 3 rows of scores, 2 points, 2 threads | the covariance is the posterior's and holds each scan once, time bounded, the last scores, one row per match, counts of this call |
| `filter_blocks` | `state_ikfom` and every manifold of 2 to 4 fields | covariance carried once, posterior's terms fit, Jacobian complete, indices written as numbers are those of their fields |
| `publishers` | 3 rounds of up to 3 new points, states with either of 2 stamps in any order, a marker every 2 points, 4 parts | scans with their state, whole maps to the last part, odometry of later and later rounds and following, no gap in the markers |

Rings of 2 and 3 entries over 4 and 5 stamps overflow within a round; two
scans are enough for a raw cloud with left-overs of the one before, for a merge
with them, and for a scan that begins before the end of the other, by its stamp
or by its points; three bins for one that is renewed, one that is not and one
the cap leaves out; a duration of 2 puts scans on either side of the thresholds.
`wedged` and `late_posterior` have the constants of `mapping_node`. `MaxTime`, `MaxStamp` and
`MaxScans` bound what the sensors send. In `TensorVote` the second batch finds
rows never used and the third those of the second; two threads are enough for
every pair of the reads and writes of lines 264-272. Positions at even and odd
distances with a root that grows put points on both sides of every boundary of
the smallest octant; two scans of several bins are enough for a leaf that is
filled under one bucket size, split under another and left alone under a third,
for a mean that moves out twice, and for bins no second pass reaches.
`FilterIteration` runs to its last iteration, converges early and runs out of
budget, and writes every row of its scores; two points and two threads meet at
each array, and the second call finds what the first one left. Four fields put
an S2 before, between and behind the others, and two of a kind beside each
other. `Publishers` gives the timers states whose stamps repeat or go
back, rounds without new points, with a whole
step of them and with more, and maps that make fewer parts than asked for and a
shorter last one. When the bounds are
used up the model may stop, as the system does when its sensors go silent:
deadlock is not checked.

Fairness. `MappingNode`: the executor gives each callback a thread, so a callback
that holds a mutex finishes (weak fairness of the two `Finish` actions), and the
loop's next step is taken if it is possible again and again (strong fairness:
the steps that need `imu_mutex_` or `lidar_mutex_` compete with callbacks
that free it after each message). `CamProcess`: a search that has begun gets
`cam_mutex_` some time and then runs (strong fairness of `Search`).
`Publishers`: the timer fires, a round that has begun ends (weak fairness), and
the callback gets `odom_mutex_`, which the loop frees every round (strong
fairness). Nothing is assumed of the sensors, and nothing makes rounds begin.
`TensorVote`, `ScanBins`, `Registration` and `FilterBlocks` check safety only.

### Where the code and what is said of it differ

Three runs check one statement each, and TLC finds it violated.

* `wedged` (`NeverWedged`): lines 74-80 give up points older than the IMU window
  but clear only `buffer_cloud_`. If the old point is in `raw_cloud_`, no scan is
  ever processed again; `WedgeIsPermanent` is checked and proved.
* `late_posterior` (`EstimateAtItsTime`): the correction is written to an entry
  searched for after the solver ran, which may be a later one than it is for.
* `vote_wrong_row` (`NeighboursInRadius`): the first voter for a point increments
  `updated_pt_` and only then writes `update_idx_`; a second voter that comes in
  between reads an old one and votes for another point.

Others of the same kind have no run of their own. The statements about the node
are in `MappingNode` and `ImuProcess`, and TLC refutes each of them with the
constants of `mapping_node.cfg`:

* `ScanFits`: left-overs are merged with the next scan, and scans are appended to
  a raw cloud not yet taken, without the cap each of them was held to; the
  registration's rows are made for `kMaxProcPoints`.
* `BufferBinsMatch`: lines 74-80 clear `buffer_cloud_` and leave
  `buffer_cloud_bins_`.
* `RawBinsMatch`: the cap of `ellipselio_pc_` does not apply to the counts handed
  over with it (`lidar_processing.cpp:226-227`).
* `StartTimeOfCurrentScan`: bins without new points keep old ones, and
  `lidar_start_time_` may be theirs.
* `PredictForward` (an action property): the test for late messages is without
  effect until the first push after the initialisation.
* `RawEndIsLatest`: `GetPointCloud` overwrites the end time of a cloud it appends
  to.
* `RowsFit` in `TensorVote`, with the constants of `tensor_vote.cfg` and
  `MaxNeighbours = 1`: two threads pass the test for the last place of a row.
* `SecondHasFirst` in `TensorVote`, with the constants of `tensor_vote.cfg`: a point that stops passing the first filter, here because its
  solve is refused when votes are added, keeps the second filter and the
  ellipsoid of an earlier round (line 349), and is still matched.
* `MeanOfItsVotes` in `TensorVote`, with the constants at the end of
  `MCTensorVote`: a new point sums votes up to `max_neighbours_` (line 244); when
  the limit has risen and votes are added, the sum is divided by the length of
  its list (line 324), which may be longer.

* `MatchIsClosest` in `CamProcess`, with the constants of `cam_process.cfg`:
  `cam_processing.h:79-83` promises the image closest in time, by a binary search;
  the code walks to the last image before the scan (the oldest if there is none),
  as `MatchIsLastBefore` says and `CamMatchIsLastBefore` proves. The run's property,
  `NoImagePassedOver`, is what both have in common.

`MapInTimeOrder` and `UndistortWithinImu` have the premise `~late_points`. Without
it TLC refutes, with the constants of `mapping_node.cfg`, the first for both kinds
of LiDAR and the second for absolute stamps. A scan ends at 3, say, and the next
message is stamped 4: it is not shifted, and a Velodyne's points timed at -2 are
from 2 and mapped after the scan that ended at 3. With absolute stamps the offset
never moves a point. The code does not test for either.

Read off the code, without a model: with `pub_map_n_secs` 0, which line 1202
provides for, `SplitMap` is asked for no parts and divides by zero (lines 453, 495),
so `Publishers` assumes it positive; `lidar_processing.h:83-84` has
`start_bin` as the first non-empty bin and `mean_bin` as the bin with the median
count, where the code has the mean and its clamped copy; `scalar(1/2)` in
`S2.hpp:277` is 0; `esekfom.hpp:1948` takes the posterior's S2 factor at the
propagated state and leaves `x_before`, made for it, unused; the branch of
`UpdateStatesWithLidar` for too few matches is never taken, since nothing in the
repository clears `valid`; `vel_poses_.size() - 100` in line 712 is unsigned and
wraps while there are fewer than 100 poses.

## Proofs

All theorems hold for every value of their module's constants: ring sizes,
bins, caps and limits, numbers of threads, points and rounds, durations,
budgets, sequences of fields, and every bound. The assumptions are those named
in the modules: sizes are positive naturals, a message has finitely many
returns, each in a bin, a batch of the vote is a finite set of points, no bin's
resolution is finer than that of a nearer one, and the unit of length is fine
enough for halves (`Exact`). No theorem has a hypothesis besides.

* **Search.** `SearchTypeOK`, `SearchFindsFirstLater`, `SearchNeverTurnsBack`:
  the invariant says that the buffer is sorted and non-empty, that the place is
  in it, and that the flag is up only at a match. Sortedness turns the local
  exit conditions into the statement about all entries.
* **Node.** `IInv` in `MappingNodeProofs` is inductive (`InitIInv`, `NextIInv`)
  and gives `NodeTypeOK`, `NodeFilterAtTail`, `NodeNeverAhead`,
  `NodeRingInOrder` and `NodeCloudIsInBins`. It has three parts beyond types:
  - `ImuInv`: the ring is sorted and its window
    truthful, the four copies of the newest state agree, no state is ahead of
    its stamp, the ring is empty until the initialisation ends. `NeverAhead`
    is not inductive without the agreement, since a prediction starts from the
    filter and from `kf_state_.time`.
  - `LidarInv`: the cloud is in the bins from its
    assembly on, not only once the flag is up; all points are finitely many,
    which the counts need; each is of a message received.
  - `CarriedNotLater`: the state the loop carries from its copy of the ring to
    the correction is not later than the newest entry nor than any entry after
    the scan's end. `MatchIsNotLater` gives it at the copy, `NotLaterStable`
    keeps it through any number of pushes and evictions, `NotLaterThanMatch`
    uses it at the correction. This is why the correction never puts a state
    ahead of its stamp although the ring has moved on.
* **Counts of bins.** `NodeBinsNeverUndercount` is inductive given `FiniteClouds`: sizes
  are added where clouds are merged, and a cloud that is copied or reduced takes
  its sizes along (`CoverStep`). It is a lower bound only: left-overs are
  cleared in `JudgeWindow` and their sizes are not, and the cap does not apply to
  sizes. Sizes that are too large make `MapIncremental` stop before the end of the
  cloud (`map_processing.cpp:413`), so the theorem does not say that every point
  of a scan is mapped.
* **Time order.** `NodeUndistortWithinImu` and `NodeMapInTimeOrder`, for both
  kinds of LiDAR, are about behaviours as long as no message has brought late
  points: `TimeInductive` is `[](late_points \/ TimeInv)`, and `LateStays` that
  `late_points` stays up. `TimeInv`: what the loop has taken is not
  later than what waits in the bins, and what is mapped not later than what is in
  work or waits (`OrderInv`); the intervals the loop compares are those of the
  points they are kept for, left-overs included (`EndsInv`); the ring is empty
  only before the loop has seen data (`FreshInv`). The window may
  have moved since the loop judged it; what is copied is compared with the
  intervals anew, and `EndsInv` makes of that a statement about the points.
* **Refinement.** `NodeRefinesPointFlow`: the initial state maps to an initial
  state and every step to `Receive`, `Lose`, `Map` or a stutter. `FlowInv` is what
  it needs: no point is in two of the places that hold points, so a point that is
  mapped is in hand no more, and the messages have numbers of their own.
* **Wedge.** `NodeWedgeIsPermanent` follows from `IInv`, from `WindowMovesOn`
  (the window's start never moves back) and from a case for each place the
  loop may be at.

* **Cameras.** `IInv` in `CamProcessProofs` says that the ring is sorted, that a
  search has a ring to search, and that the last match is in the ring or not
  younger than all of it. It gives `CamTypeOK` (the clamped guess and the walk
  stay in the ring), `CamMatchIsLastBefore`, `CamNoImagePassedOver`, which follows
  from it, and `CamNeverAnOlderImage`.
* **Colours.** `ColouringColouredFromItsImage`. `ColourInv` says which of the
  window, the image and the two poses the loop holds are this scan's, by how far
  the scan is. `TimeMatchExists` shows that the walk of `GetTimeMatch` ends at
  one entry in any window, `PoseAround` that the two entries then taken are
  around the time or it is clamped, `MatchIsFirstAfter` that the scan's end gets
  the first state after it or the newest. The walk's end is a first entry, which
  needs a least number: `LeastNatural`, from the library's well-founded order,
  stands in for induction.
* **Octree.** `ScanBinsProofs` proves about a tree as a value which facts each
  step of an insertion keeps, and uses that for the map's tree and for the one
  that thins a bin. `TypesOK`: halves stay exact. `NearOK`: a point lies in its
  leaf's box or `min_extent_` outside it, because the root's bounds are moved
  inwards; while the root grows, that is said of the bounds. `NumbersOK`: a
  number is the place in `map_cloud_`, or the one `added_idxs` will make.
  `BoxesOK` (`Shape`): octants are one in the other or apart, and what is in an
  octant is in one of its children that is an octant.
  `Covered`: a point offered is in the tree, on its way, or near a leaf that can
  split no more and is not empty; that a split keeps it needs what is dropped to
  be dropped only there. `MapIsSoundAlways` follows from the numbers,
  `MapHasNoHolesEver` from `Covered` and `NearOK` (a leaf below twice
  `min_extent_` with a `min_extent_` on either side).
* **Searches.** `SearchesAreExact`, for every tree that insertions leave, any
  depth. `SearchOK`: a leaf with a point that has no match among what was found
  is in a box of a call still to be made, and the calls that may look at points
  are for boxes apart; so an octant is skipped, or a search ended, only if
  nothing in what is left of it is nearer by more than `min_extent_`. For the
  radius, of an octant and those above it there is an outermost one in the ball
  or none (`LeastNatural` over their extents), and the search reaches it.
* **Bins.** `ScanInv` is inductive (`ScanInvariant`); its parts are `MapInv`, the
  facts above about the map, and `ScanOK` and `PendingOK`. `ThinOK`: the octree
  of the bin in work holds that bin's list. `ShapeOK`: what is left of a bin is
  near all there was, by 6 resolutions for each time it was thinned
  (`ThinningKeepsShape`). `PassOK`: a bin a pass has not to do is coarse enough
  for `start_bin_` already. It is kept because a pass goes over the bins before
  the new `start_bin_`, and the others, thinned at their own resolution or a
  coarser one, stay coarse enough; this needs resolutions that do not become
  finer outwards. It gives `ThinnedEnough`.
* **Voting.** `VoteInvariant` is what the race leaves intact, in four parts.
  `Voters`: which points are voted for, and how many turns of its neighbours each
  is through. `Marks`: a point is marked exactly if a voter has asked it.
  `RowsInv`: two threads never give out or reset rows for the same point, and
  each point that has an index has a row of its own; this is why the counter
  gives every thread a row although indices are read without a lock. `Contents`:
  a started row holds this round's votes, or a slot some thread is about to
  write. They give `VoteRowsOfThisRound` for any number of threads.
  `VoteListsStayBounded` needs `Lists` besides (a point not yet in the map has no
  neighbours, one being added has each once, so `AppendVotes` meets each list
  once). The statements about one thread come from `OneThread`: one point is in
  hand at a time, every vote it is through with is in its row or the row is full,
  and none is in it twice; this is `VoteVotesRecorded`. `VoteTensorOfItsVotes`
  rests on `Sums`: a sum is of points in the map and in the list, and what
  passed a filter was made of that sum, in whichever round.
* **Publishers.** `IInv` in `PublishersProofs` says at which place of the loop
  each mutex is held and how many rounds behind each copy is there
  (`LoopProgress`), and that equal rounds mean equal times (`SentBefore`). A test
  made without the mutex that finds two stamps different has therefore found two
  rounds, and what is sent once the mutex is had is of that later round or of one
  later still, although stamps may repeat or go back. `PartsHoldAll` (parts rounded up hold all points, and
  none is asked for behind them) and `PartsSent` follow the parts of a map. They
  give `PublishersTypeOK`,
  `PublishersScanOfItsState`, `PublishersMapOfARound` and
  `PublishersOdometryAdvances`. `PublishersMarkersWithoutGap` needs
  `MultipleBelow` besides: stepping back by the remainder finds the marker.
* **Filter iteration.** `IInv` in `FilterIterationProofs` says where each of the
  two covariances is written and what it holds, by the place in the loop, and
  that an iteration begins within budget. It gives `FilterTypeOK`,
  `FilterSolveTimeBounded` and `FilterCovarianceOfPosterior`.
* **Match loop.** `RegistrationOneRowPerMatch`, for any number of threads and
  points. `RegInv` says that the rows below the counter have owners, a matched
  point each and each its own (`RowsOf`): a row is complete or in the hands of
  the one thread that claimed it, and a matched point owns a row or is about to
  claim one. No point is in two threads' hands, so the counter never passes the
  number of points (`NoMoreRows`). `RegImplements` carries the theorems about
  `FilterIteration` over.
* **Counts of matches.** `RegistrationCountsOfTheCall`: the counters are behind the matches
  by exactly the points that threads have yet to count (`CountInv`).
* **Scores.** `RegistrationLastScores`: `ScoreInv` says which score each row of
  the ring holds, however often the index went round, and `FullRows` and
  `FewScores` turn that into counts.
* **Blocks.** `IInv` in `FilterBlocksProofs`, for every sequence of fields.
  `Structure`: the fields' rows follow one another without a gap and without
  meeting, and the three lists have the fields of their kinds, each once.
  `CarryInv`: at position `it` of the lists the rows and columns of the blocks
  before it have been carried and no others; `RowsCarried` and `ColsCarried` are
  the inner loops, which only read the rows of the block they write.
  `JacobianInv`: what the loops of `predict` have written so far. They give
  `TransportedOnceAlways`, `PosteriorCarriedOnceAlways` and
  `JacobianCompleteAlways`. `OffsetsInv`, where each field is in rows and in
  dimensions, gives `NumbersNameFieldsAlways` for the node's own state.

Only model-checked is liveness (`Terminates`, `RoundsEnd`, `SearchEnds`,
`OdometryFollows`): fairness and ENABLED are out of the prover's reach. That an
insertion, a search and the passes of a scan end is not stated: it would be
liveness too. With the constants of `map_octree.cfg` TLC finds no state in which
one of them has begun and cannot go on (`ENABLED ScanNext` in every state that is
not `MapIdle /\ ~passing /\ pending = <<>>`).

Every other property of the passing runs is stated by one of the theorems.

## Not modelled, and the plan

Not modelled: the linear algebra (numbers in the filter's blocks, scores and
weights of the registration, the loop over its bins, tensors and saliencies),
the operations of the manifold toolkit on single fields, coordinates beyond one
axis, the arithmetic of the projection into an image, analytics, parameters and
the cameras' set-up, logging, deletion and box searches of the octree and the
updates of the toolkit that the node does not call.

The order of work was: the node with its two sensors and the search (what all
else depends on), their proofs, the map (octree, voting), the filter's
iteration, the publishers and the cameras; then what surrounds them: the blocks
of the filter's matrices, the match loop, the poses and colours of a scan, the
thinning of the bins, the parts of the map, the tensors' votes. What is left, in
this order:

1. `Publishers` composed with `ImuProcess`: `PublishImuOdometry`, `pub_mutex_`
   taken inside `imu_mutex_`, and the outputs that can be switched off.
2. The loop over the bins in the registration (732-773), with counts that are
   too large, and the index in line 712.
3. A second axis in `Octree`, and `octant_num` against `octant_max`.
