----------------------------- MODULE Publishers -----------------------------
(***************************************************************************)
(* What leaves the node (map_processing.cpp:448-591, 655-684, 1467-1517):   *)
(* the mapping loop ends a round with the map and the state of that round,  *)
(* and two timers, each in a callback group of its own, publish them.       *)
(* map_mutex_ guards the map, odom_mutex_ the copies the loop makes for     *)
(* PublishLidarOdometry; several reads are made without either, and each of *)
(* those is a step.                                                        *)
(*                                                                         *)
(* Rounds are numbered from 1.  The map is the number of its points and the *)
(* round it was last changed in; a state and a scan are their round, and a  *)
(* state has a time, which a later round may share, or precede: with stamps *)
(* that are absolute (lidar_processing.cpp:251-255, 276-280) a late scan    *)
(* ends earlier, and so does its state.  All outputs are on.                *)
(* PublishScan and PublishMarkers are part of the step of their caller.     *)
(* PublishImuOdometry reads one copy under a mutex and is left to module    *)
(* ImuProcess (pub_kf_state).                                              *)
(***************************************************************************)
EXTENDS Integers, FiniteSets

CONSTANTS
  MarkerStep,   \* 100: every so many points one gets a marker
  NumParts,     \* the parts a map is sent in, ten for each second of
                \* pub_map_n_secs_
  MaxNew,       \* bound on the points a round adds
  MaxRounds,    \* bound on the rounds
  MaxTime       \* bound on the times of states

\* Without a part SplitMap would divide by zero: pub_map_n_secs_ is a positive
\* whole number.
ASSUME PublisherAssumption ==
  /\ MarkerStep \in Nat \ {0} /\ NumParts \in Nat \ {0}
  /\ MaxNew \in Nat /\ MaxRounds \in Nat /\ MaxTime \in Nat

VARIABLES
  loop_pc,        \* where the loop is
  round,          \* the round it is in, or did last
  kf_time,        \* kf_state_.time
  map_counter,    \* map_counter_
  map_mutex,      \* who holds map_mutex_
  odom_mutex,     \* who holds odom_mutex_
  map_cloud,      \* map_cloud_, with whether a round is half way through it
  new_map_size,   \* new_map_size_
  last_map_size,  \* last_map_size_
  kf_state_pub,   \* kf_state_pub_
  scan_pub,       \* the round of scan_cloud_pub_
  odom_pc,        \* where PublishLidarOdometry is
  last_opt_pub,   \* last_opt_pub_time
  odom_sent,      \* output: the last state and scan published
  map_pc,         \* where PublishMap is
  map_msg,        \* map_msg without its stamp
  map_sent,       \* output: the last map published, and how many of its
                  \* points and in how many parts so far
  marked          \* output: the points looked at for a marker so far

loop_vars == <<loop_pc, round, kf_time, map_counter, map_cloud, new_map_size,
               kf_state_pub, scan_pub>>
odom_vars == <<odom_pc, last_opt_pub, odom_sent>>
map_vars == <<map_pc, last_map_size, map_msg, map_sent, marked>>
vars == <<loop_vars, map_mutex, odom_mutex, odom_vars, map_vars>>

Map == [size : Nat, round : Nat, whole : BOOLEAN]
State == [time : Nat, round : Nat]

TypeOK ==
  /\ loop_pc \in {"sync", "map", "mapping", "publish", "publishing", "count"}
  /\ round \in 0 .. MaxRounds /\ kf_time \in Nat
  /\ map_counter \in 0 .. MaxRounds
  /\ map_mutex \in {"free", "loop"} /\ odom_mutex \in {"free", "loop"}
  /\ map_cloud \in Map
  /\ new_map_size \in Nat /\ last_map_size \in 0 .. new_map_size
  /\ kf_state_pub \in State /\ scan_pub \in Nat
  /\ odom_pc \in {"idle", "lock"} /\ last_opt_pub \in Nat
  /\ odom_sent \in [state : State, scan : Nat]
  /\ map_pc \in {"idle", "lock", "stamp", "send"}
  /\ map_msg \in Map
  /\ map_sent \in [map : Map, stamp : State, upto : Nat, parts : Nat]
  /\ marked \subseteq 0 .. new_map_size - 1

NoState == [time |-> 0, round |-> 0]
NoMap == [size |-> 0, round |-> 0, whole |-> TRUE]

Init ==
  /\ loop_pc = "sync" /\ round = 0 /\ kf_time = 0 /\ map_counter = 0
  /\ map_mutex = "free" /\ odom_mutex = "free"
  /\ map_cloud = NoMap /\ new_map_size = 0 /\ last_map_size = 0
  /\ kf_state_pub = NoState /\ scan_pub = 0
  /\ odom_pc = "idle" /\ last_opt_pub = 0
  /\ odom_sent = [state |-> NoState, scan |-> 0]
  /\ map_pc = "idle" /\ map_msg = NoMap
  /\ map_sent = [map |-> NoMap, stamp |-> NoState, upto |-> 0, parts |-> 0]
  /\ marked = {}

-----------------------------------------------------------------------------
(* The mapping loop *)

\* A round has a scan and the state at its end, of any time (0 is the time of
\* no state).
Synchronise ==
  /\ loop_pc = "sync"
  /\ round < MaxRounds
  /\ round' = round + 1
  /\ kf_time' \in 1 .. MaxTime
  /\ loop_pc' = "map"
  /\ UNCHANGED <<map_counter, map_cloud, new_map_size, kf_state_pub, scan_pub,
                 map_mutex, odom_mutex, odom_vars, map_vars>>

\* MapIncremental has map_mutex_ from its first point ...
BeginMap ==
  /\ loop_pc = "map"
  /\ map_mutex = "free"
  /\ map_mutex' = "loop"
  /\ \E new \in 0 .. MaxNew :
       map_cloud' = [size |-> map_cloud.size + new, round |-> round,
                     whole |-> FALSE]
  /\ loop_pc' = "mapping"
  /\ UNCHANGED <<round, kf_time, map_counter, new_map_size, kf_state_pub,
                 scan_pub, odom_mutex, odom_vars, map_vars>>

\* ... to the end of the vote.
EndMap ==
  /\ loop_pc = "mapping"
  /\ map_cloud' = [map_cloud EXCEPT !.whole = TRUE]
  /\ new_map_size' = map_cloud.size
  /\ map_mutex' = "free"
  /\ loop_pc' = "publish"
  /\ UNCHANGED <<round, kf_time, map_counter, kf_state_pub, scan_pub,
                 odom_mutex, odom_vars, map_vars>>

\* The copies for PublishLidarOdometry, first the state ...
CopyState ==
  /\ loop_pc = "publish"
  /\ odom_mutex = "free"
  /\ odom_mutex' = "loop"
  /\ kf_state_pub' = [time |-> kf_time, round |-> round]
  /\ loop_pc' = "publishing"
  /\ UNCHANGED <<round, kf_time, map_counter, map_cloud, new_map_size,
                 scan_pub, map_mutex, odom_vars, map_vars>>

\* Mutant of CopyScan: keeps the mutex
CopyScanNoUnlock ==
  /\ loop_pc = "publishing"
  /\ scan_pub' = round
  /\ loop_pc' = "count"
  /\ UNCHANGED <<round, kf_time, map_counter, map_cloud, new_map_size,
                 kf_state_pub, map_mutex, odom_mutex, odom_vars, map_vars>>

\* ... then the scan; then the round is counted.
CopyScan ==
  /\ loop_pc = "publishing"
  /\ scan_pub' = round
  /\ odom_mutex' = "free"
  /\ loop_pc' = "count"
  /\ UNCHANGED <<round, kf_time, map_counter, map_cloud, new_map_size,
                 kf_state_pub, map_mutex, odom_vars, map_vars>>

CountRound ==
  /\ loop_pc = "count"
  /\ map_counter' = map_counter + 1
  /\ loop_pc' = "sync"
  /\ UNCHANGED <<round, kf_time, map_cloud, new_map_size, kf_state_pub,
                 scan_pub, map_mutex, odom_mutex, odom_vars, map_vars>>

Loop == Synchronise \/ BeginMap \/ EndMap \/ CopyState \/ CopyScan \/ CountRound

-----------------------------------------------------------------------------
(* PublishLidarOdometry *)

\* The timer fires; kf_state_pub_.time is compared before the mutex is taken.
OdometryTimer ==
  /\ odom_pc = "idle"
  /\ map_counter # 0
  /\ last_opt_pub # kf_state_pub.time
  /\ odom_pc' = "lock"
  /\ UNCHANGED <<loop_vars, map_mutex, odom_mutex, last_opt_pub, odom_sent,
                 map_vars>>

\* Mutant of PublishLidarOdometry: does not take the mutex
PublishUnlocked ==
  /\ odom_pc = "lock"
  /\ last_opt_pub' = kf_state_pub.time
  /\ odom_sent' = [state |-> kf_state_pub, scan |-> scan_pub]
  /\ odom_pc' = "idle"
  /\ UNCHANGED <<loop_vars, map_mutex, odom_mutex, map_vars>>

\* Mutant of PublishLidarOdometry: remembers the state of its last publication
\* one too late
RememberLast ==
  /\ odom_pc = "lock"
  /\ odom_mutex = "free"
  /\ last_opt_pub' = odom_sent.state.time
  /\ odom_sent' = [state |-> kf_state_pub, scan |-> scan_pub]
  /\ odom_pc' = "idle"
  /\ UNCHANGED <<loop_vars, map_mutex, odom_mutex, map_vars>>

\* The transform, the analytics and the scan are published under odom_mutex_.
PublishLidarOdometry ==
  /\ odom_pc = "lock"
  /\ odom_mutex = "free"
  /\ last_opt_pub' = kf_state_pub.time
  /\ odom_sent' = [state |-> kf_state_pub, scan |-> scan_pub]
  /\ odom_pc' = "idle"
  /\ UNCHANGED <<loop_vars, map_mutex, odom_mutex, map_vars>>

-----------------------------------------------------------------------------
(* PublishMap *)

\* The timer fires; the map's size is read before the mutex is taken.
MapTimer ==
  /\ map_pc = "idle"
  /\ map_counter # 0
  /\ map_cloud.size # 0
  /\ map_pc' = "lock"
  /\ UNCHANGED <<loop_vars, map_mutex, odom_mutex, odom_vars, last_map_size,
                 map_msg, map_sent, marked>>

\* Mutant of MarkedNow: starts behind the first new point
MarkedAfter ==
  {i \in last_map_size + 1 .. new_map_size - 1 :
     (i - last_map_size) % MarkerStep = 0}

\* PublishMarkers looks at every MarkerStep-th of the points that are new
\* since the last time.
MarkedNow ==
  {i \in last_map_size .. new_map_size - 1 :
     (i - last_map_size) % MarkerStep = 0}

SizeMarked == new_map_size

\* Mutant of MapIsFree: the mutex is not waited for
MapIsOpen == TRUE

MapIsFree == map_mutex = "free"

\* The markers and the copy of the map are made under map_mutex_ ...
CopyMap ==
  /\ map_pc = "lock"
  /\ MapIsFree
  /\ marked' = marked \cup MarkedNow
  /\ last_map_size' = SizeMarked
  /\ map_msg' = map_cloud
  /\ map_pc' = "stamp"
  /\ UNCHANGED <<loop_vars, map_mutex, odom_mutex, odom_vars, map_sent>>

\* ... and the stamp is read without it, or the other mutex.
PublishMap ==
  /\ map_pc = "stamp"
  /\ map_sent' = [map |-> map_msg, stamp |-> kf_state_pub, upto |-> 0,
                  parts |-> 0]
  /\ map_pc' = "send"
  /\ UNCHANGED <<loop_vars, map_mutex, odom_mutex, odom_vars, last_map_size,
                 map_msg, marked>>

ChunkSize(total) == (total + NumParts - 1) \div NumParts

\* SplitMap cuts the copy into parts of chunk_size, the last one shorter, and
\* while they are sent, 100 ms apart, the loop goes on.
SendPart ==
  LET total == map_sent.map.size
      start_point == map_sent.parts * ChunkSize(total)
      end_point == start_point + ChunkSize(total)
  IN  /\ map_pc = "send"
      /\ map_sent.parts < NumParts /\ start_point < total
      /\ map_sent' =
           [map |-> map_sent.map, stamp |-> map_sent.stamp,
            upto |-> IF end_point < total THEN end_point ELSE total,
            parts |-> map_sent.parts + 1]
      /\ UNCHANGED <<loop_vars, map_mutex, odom_mutex, odom_vars, map_pc,
                     last_map_size, map_msg, marked>>

\* All parts are out, and the callback returns.
EndOfParts ==
  /\ map_pc = "send"
  /\ \/ map_sent.parts >= NumParts
     \/ map_sent.parts * ChunkSize(map_sent.map.size) >= map_sent.map.size
  /\ map_pc' = "idle"
  /\ UNCHANGED <<loop_vars, map_mutex, odom_mutex, odom_vars, last_map_size,
                 map_msg, map_sent, marked>>

Next ==
  \/ Loop
  \/ OdometryTimer \/ PublishLidarOdometry
  \/ MapTimer \/ CopyMap \/ PublishMap \/ SendPart \/ EndOfParts

Spec == Init /\ [][Next]_vars

\* Timers fire again and again, and a callback that has started goes on; a
\* mutex that is free again and again is had some time.  A round that has
\* begun ends.  Nothing makes rounds begin.
Fairness ==
  /\ WF_vars(Loop /\ loop_pc # "sync")
  /\ WF_vars(OdometryTimer)
  /\ SF_vars(PublishLidarOdometry)

FairSpec == Spec /\ Fairness

-----------------------------------------------------------------------------
(* Properties *)

\* The states published are of rounds later and later, none twice, although
\* the test for a new one is made without the mutex and on stamps, which may
\* repeat or go back from round to round, and what is published is read after
\* it (map_processing.cpp:663-665, 1510-1514).
OdometryAdvances ==
  [][odom_pc = "lock" /\ odom_pc' = "idle" =>
       odom_sent.state.round < odom_sent'.state.round]_vars

\* The scan published with a state is that of its round
\* (map_processing.cpp:664, 682-683, 1510-1514).
ScanOfItsState == odom_sent.scan = odom_sent.state.round

\* A map is published as some round left it, never half way through one,
\* stamped with the state of the round before it at the earliest, and to its
\* last point by the time the timer may fire again, however it is cut into
\* parts (map_processing.cpp:448-499, 1467-1469, 1511).
MapOfARound ==
  /\ map_sent.map.whole
  /\ map_sent.stamp.round >= map_sent.map.round - 1
  /\ map_pc = "idle" => map_sent.upto = map_sent.map.size

\* No stretch of MarkerStep points is passed over for markers, wherever the
\* rounds and the timer cut the map (map_processing.cpp:522-527, 588).
MarkersWithoutGap ==
  \A k \in 0 .. last_map_size - 1 :
    \E i \in marked : i <= k /\ k < i + MarkerStep

\* Every state the loop hands over is published, or that of a later round,
\* unless the last one published has the stamp of the one that waits
\* (map_processing.cpp:656-665).
OdometryFollows ==
  \A n \in 1 .. MaxRounds :
    kf_state_pub.round = n ~>
      \/ odom_sent.state.round >= n
      \/ odom_sent.state.time = kf_state_pub.time
=============================================================================
