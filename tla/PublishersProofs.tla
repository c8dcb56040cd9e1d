-------------------------- MODULE PublishersProofs --------------------------
(***************************************************************************)
(* What the publishers promise, for any marker step and any sizes.  The     *)
(* invariant says who holds a mutex at which place of the loop, and how old *)
(* the copies are that the loop has made there.                             *)
(***************************************************************************)
EXTENDS Publishers, TLAPS

\* The mutexes are the loop's at one place each; the map is half done only
\* while its mutex is held.
MutexesAtTheirPlaces ==
  /\ map_mutex = IF loop_pc = "mapping" THEN "loop" ELSE "free"
  /\ odom_mutex = IF loop_pc = "publishing" THEN "loop" ELSE "free"
  /\ (map_cloud.whole <=> loop_pc # "mapping")

\* The rounds that are over
Done == IF loop_pc = "sync" THEN round ELSE round - 1

\* What the loop has counted, copied and mapped so far in its round
LoopProgress ==
  /\ map_counter = Done /\ Done >= 0
  /\ map_cloud.round = IF loop_pc \in {"sync", "map"} THEN Done ELSE round
  /\ kf_state_pub.round = IF loop_pc \in {"publishing", "count"} THEN round
                                                                 ELSE Done
  /\ scan_pub = IF loop_pc = "count" THEN round ELSE Done
  /\ new_map_size <= map_cloud.size

\* A state sent was handed over before, and is the one handed over last only
\* if its stamp is: a timer that has found another stamp sends a later round.
SentBefore ==
  /\ last_opt_pub = odom_sent.state.time
  /\ odom_sent.state.round <= kf_state_pub.round
  /\ odom_sent.state.round = kf_state_pub.round =>
       odom_sent.state.time = kf_state_pub.time
  /\ odom_pc = "lock" => odom_sent.state.round < kf_state_pub.round

\* A copy of the map is whole and at most one round ahead of the state.
MapCopied == map_msg.whole /\ map_msg.round <= kf_state_pub.round + 1

\* So is what was sent of it, and it has the stamp of such a state.
MapSent ==
  map_sent.map.whole /\ map_sent.stamp.round >= map_sent.map.round - 1

IInv ==
  /\ TypeOK /\ MutexesAtTheirPlaces /\ LoopProgress
  /\ SentBefore /\ MapCopied
  /\ ScanOfItsState /\ MapSent

\* As many parts as there may be, rounded up, hold all points
\* (map_processing.cpp:453).
LEMMA PartsHoldAll ==
  ASSUME NEW total \in Nat
  PROVE  /\ ChunkSize(total) \in Nat
         /\ NumParts * ChunkSize(total) >= total
<1>1. NumParts \in Nat \ {0}
  BY PublisherAssumption
<1>2. PICK n \in Nat \ {0} : n = NumParts
  BY <1>1
<1>3. PICK x \in Nat : x = total + NumParts - 1
  BY <1>1
<1>4. PICK c \in Int : c = x \div n
  BY <1>2, <1>3
<1>5. PICK r \in 0 .. n - 1 : r = x % n
  BY <1>2, <1>3
<1>6. x = n * c + r
  BY <1>2, <1>3, <1>4, <1>5, SMT
<1> QED
  BY <1>1, <1>2, <1>3, <1>4, <1>5, <1>6 DEF ChunkSize

\* Nothing is published and no round begun.
LEMMA InitIInv == Init => IInv
BY PublisherAssumption
DEF Init, IInv, TypeOK, MutexesAtTheirPlaces, LoopProgress, Done, SentBefore,
    MapCopied, ScanOfItsState, MapSent, NoState, NoMap, Map, State

\* The loop's steps: copies get newer, and what is sent stands.
LEMMA LoopIInv ==
  ASSUME IInv, Loop
  PROVE  IInv'
<1> USE PublisherAssumption
    DEF IInv, TypeOK, MutexesAtTheirPlaces, LoopProgress, Done, SentBefore,
        MapCopied, ScanOfItsState, MapSent, Map, State, odom_vars, map_vars
<1>1. CASE Synchronise
  <2>1. kf_time' \in Nat
    BY <1>1 DEF Synchronise
  <2>2. loop_pc = "sync" /\ loop_pc' = "map" /\ round' = round + 1
        /\ round < MaxRounds
    BY <1>1 DEF Synchronise
  <2> QED
    BY <1>1, <2>1, <2>2 DEF Synchronise
<1>2. CASE BeginMap
  BY <1>2 DEF BeginMap
<1>3. CASE EndMap
  <2>1. /\ map_cloud' \in Map /\ map_cloud'.whole
        /\ map_cloud'.size = map_cloud.size /\ map_cloud'.round = map_cloud.round
    BY <1>3 DEF EndMap
  <2>2. last_map_size' \in 0 .. new_map_size'
        /\ marked' \subseteq 0 .. new_map_size' - 1
    BY <1>3 DEF EndMap
  <2> QED
    BY <1>3, <2>1, <2>2 DEF EndMap
<1>4. CASE CopyState
  BY <1>4 DEF CopyState
<1>5. CASE CopyScan
  BY <1>5 DEF CopyScan
<1>6. CASE CountRound
  BY <1>6 DEF CountRound
<1> QED
  BY <1>1, <1>2, <1>3, <1>4, <1>5, <1>6 DEF Loop

\* The timers' steps: what they send is what the loop has copied.
LEMMA TimersIInv ==
  ASSUME IInv,
         \/ OdometryTimer \/ PublishLidarOdometry
         \/ MapTimer \/ CopyMap \/ PublishMap \/ SendPart \/ EndOfParts
  PROVE  IInv'
<1> USE PublisherAssumption
    DEF IInv, TypeOK, MutexesAtTheirPlaces, LoopProgress, Done, SentBefore,
        MapCopied, ScanOfItsState, MapSent, Map, State, loop_vars,
        odom_vars, map_vars
<1>1. CASE OdometryTimer
  BY <1>1 DEF OdometryTimer
<1>2. CASE PublishLidarOdometry
  BY <1>2 DEF PublishLidarOdometry
<1>3. CASE MapTimer
  BY <1>3 DEF MapTimer
<1>4. CASE CopyMap
  <2>1. MarkedNow \subseteq 0 .. new_map_size - 1
    BY DEF MarkedNow
  <2>2. map_cloud.whole /\ map_cloud.round <= kf_state_pub.round + 1
    BY <1>4 DEF CopyMap, MapIsFree
  <2> QED
    BY <1>4, <2>1, <2>2 DEF CopyMap, SizeMarked
<1>5. CASE PublishMap
  BY <1>5 DEF PublishMap
<1>6. CASE SendPart
  <2> DEFINE total == map_sent.map.size
             end_point == map_sent.parts * ChunkSize(total) + ChunkSize(total)
             upto == IF end_point < total THEN end_point ELSE total
  <2>1. /\ map_sent' = [map |-> map_sent.map, stamp |-> map_sent.stamp,
                        upto |-> upto, parts |-> map_sent.parts + 1]
        /\ UNCHANGED <<loop_vars, map_mutex, odom_mutex, odom_vars, map_pc,
                       last_map_size, map_msg, marked>>
    BY <1>6 DEF SendPart
  <2>2. ChunkSize(total) \in Nat /\ total \in Nat /\ map_sent.parts \in Nat
    BY PartsHoldAll
  <2>3. upto \in Nat
    BY <2>2
  <2> HIDE DEF upto
  <2>4. TypeOK'
    BY <2>1, <2>3
  <2> QED
    BY <2>1, <2>4
<1>7. CASE EndOfParts
  BY <1>7 DEF EndOfParts
<1> QED
  BY <1>1, <1>2, <1>3, <1>4, <1>5, <1>6, <1>7

\* Every step keeps the invariant.
LEMMA NextIInv == IInv /\ [Next]_vars => IInv'
<1>1. ASSUME IInv, UNCHANGED vars PROVE IInv'
  BY <1>1 DEF IInv, TypeOK, MutexesAtTheirPlaces, LoopProgress, Done,
    SentBefore, MapCopied, ScanOfItsState, MapSent, vars, loop_vars,
    odom_vars, map_vars
<1> QED
  BY <1>1, LoopIInv, TimersIInv DEF Next

\* The invariant holds throughout.
LEMMA Inductive == Spec => []IInv
BY InitIInv, NextIInv, PTL DEF Spec

-----------------------------------------------------------------------------
(* The markers                                                             *)

\* Stepping back by the remainder leads to a multiple.
LEMMA MultipleBelow ==
  ASSUME NEW a \in Nat, NEW s \in Nat \ {0}
  PROVE  \E m \in 0 .. a : a < m + s /\ m % s = 0
<1>1. PICK r \in 0 .. s - 1 : r = a % s
  BY SMT
<1>2. r <= a /\ (a - r) % s = 0
  BY <1>1, SMT
<1>3. a - r \in 0 .. a /\ a < (a - r) + s
  BY <1>1, <1>2
<1> QED
  BY <1>2, <1>3

\* The new points leave no gap behind the last publication's
\* (map_processing.cpp:522-527).
LEMMA MarkedNowWithoutGap ==
  ASSUME IInv, NEW k \in last_map_size .. new_map_size - 1
  PROVE  \E i \in MarkedNow : i <= k /\ k < i + MarkerStep
<1>1. last_map_size \in Nat /\ new_map_size \in Nat /\ MarkerStep \in Nat \ {0}
  BY PublisherAssumption DEF IInv, TypeOK
<1>2. PICK a \in Nat : k = last_map_size + a
  <2>1. k - last_map_size \in Nat /\ k = last_map_size + (k - last_map_size)
    BY <1>1
  <2> QED
    BY <2>1
<1>3. PICK m \in 0 .. a : a < m + MarkerStep /\ m % MarkerStep = 0
  BY <1>1, MultipleBelow
<1>4. PICK i \in Nat : i = last_map_size + m
  BY <1>1
<1>5. i \in last_map_size .. new_map_size - 1 /\ i <= k /\ k < i + MarkerStep
  BY <1>1, <1>2, <1>3, <1>4
<1>6. i - last_map_size = m
  BY <1>1, <1>4
<1> QED
  BY <1>3, <1>5, <1>6 DEF MarkedNow

-----------------------------------------------------------------------------
(* The parts of a map                                                      *)

\* The parts sent so far are the first ones, and together have no hole.
PartsSent ==
  LET total == map_sent.map.size
      sent == map_sent.parts * ChunkSize(total)
  IN  /\ map_sent.parts <= NumParts
      /\ IF map_pc = "send"
           THEN map_sent.upto = IF sent < total THEN sent ELSE total
           ELSE map_sent.upto = total

\* Every step keeps that: only SendPart sends, and the timer's callback ends
\* when nothing is left to send.
LEMMA PartsSentKept == IInv /\ PartsSent /\ [Next]_vars => PartsSent'
<1> SUFFICES ASSUME IInv, PartsSent, [Next]_vars PROVE PartsSent'
  OBVIOUS
<1> DEFINE total == map_sent.map.size
           chunk == ChunkSize(total)
<1>1. /\ total \in Nat /\ map_sent.parts \in Nat /\ NumParts \in Nat \ {0}
      /\ chunk \in Nat /\ NumParts * chunk >= total
  BY PartsHoldAll, PublisherAssumption DEF IInv, TypeOK, Map
<1>2. CASE SendPart
  <2>1. PICK n \in Nat : n = map_sent.parts
    BY <1>1
  <2>2. PICK c \in Nat : c = chunk
    BY <1>1
  <2>3. (n + 1) * c = n * c + c
    BY SMT
  <2>4. /\ map_sent'.map.size = total /\ map_sent'.parts = n + 1
        /\ map_pc = "send" /\ map_pc' = "send" /\ n < NumParts
        /\ map_sent'.upto = IF n * c + c < total THEN n * c + c ELSE total
    BY <1>2, <2>1, <2>2 DEF SendPart
  <2>5. ChunkSize(map_sent'.map.size) = c
    BY <2>2, <2>4
  <2>6. map_sent'.parts <= NumParts
    BY <1>1, <2>1, <2>4
  <2> QED
    BY <2>3, <2>4, <2>5, <2>6 DEF PartsSent
<1>3. CASE EndOfParts
  <2>1. /\ map_sent' = map_sent /\ map_pc = "send" /\ map_pc' = "idle"
        /\ map_sent.parts >= NumParts \/ map_sent.parts * chunk >= total
    BY <1>3 DEF EndOfParts
  <2>2. map_sent.parts <= NumParts
    BY DEF PartsSent
  <2>3. map_sent.parts * chunk >= total
    <3>1. CASE map_sent.parts = NumParts
      BY <1>1, <3>1
    <3> QED
      BY <1>1, <2>1, <2>2, <3>1
  <2>4. map_sent.upto = total
    BY <1>1, <2>1, <2>3 DEF PartsSent
  <2> QED
    BY <2>1, <2>2, <2>4 DEF PartsSent
<1>4. CASE PublishMap
  <2>1. /\ map_sent'.map.size = map_msg.size /\ map_sent'.parts = 0
        /\ map_sent'.upto = 0 /\ map_pc' = "send" /\ map_msg.size \in Nat
    BY <1>4 DEF PublishMap, IInv, TypeOK, Map
  <2>2. PICK c \in Nat : c = ChunkSize(map_sent'.map.size)
    BY <2>1, PartsHoldAll
  <2> QED
    BY <1>1, <2>1, <2>2 DEF PartsSent
<1>5. CASE ~(SendPart \/ EndOfParts \/ PublishMap)
  <2>1. map_sent' = map_sent /\ (map_pc' = "send" <=> map_pc = "send")
    BY <1>5 DEF Next, vars, loop_vars, map_vars, odom_vars, Loop, Synchronise,
      BeginMap, EndMap, CopyState, CopyScan, CountRound, OdometryTimer,
      PublishLidarOdometry, MapTimer, CopyMap
  <2> QED
    BY <2>1 DEF PartsSent
<1> QED
  BY <1>2, <1>3, <1>4, <1>5

\* A map is sent without a hole, throughout.
LEMMA PartsSentAlways == Spec => []PartsSent
<1>1. Init => PartsSent
  BY PartsHoldAll, PublisherAssumption DEF Init, PartsSent, NoMap
<1> QED
  BY <1>1, PartsSentKept, Inductive, PTL DEF Spec

-----------------------------------------------------------------------------
(* The theorems                                                            *)

\* Counters stay in their bounds, and markers are of points that are there.
THEOREM PublishersTypeOK == Spec => []TypeOK
BY Inductive, PTL DEF IInv

\* A scan goes out with the state of its own round
\* (map_processing.cpp:664, 682-683, 1510-1514).
THEOREM PublishersScanOfItsState == Spec => []ScanOfItsState
BY Inductive, PTL DEF IInv

\* A map goes out whole, with a stamp of the round before it at the earliest,
\* and to its last point (map_processing.cpp:448-499, 1467-1469, 1511).
THEOREM PublishersMapOfARound == Spec => []MapOfARound
<1>1. IInv /\ PartsSent => MapOfARound
  BY DEF IInv, PartsSent, MapSent, MapOfARound
<1> QED
  BY <1>1, Inductive, PartsSentAlways, PTL

\* Wherever the rounds and the timer cut the map, no stretch of MarkerStep
\* points goes without a marker (map_processing.cpp:522-527, 588).
THEOREM PublishersMarkersWithoutGap == Spec => []MarkersWithoutGap
<1>1. Init => MarkersWithoutGap
  BY DEF Init, MarkersWithoutGap
<1>2. ASSUME IInv, MarkersWithoutGap, [Next]_vars PROVE MarkersWithoutGap'
  <2>1. CASE CopyMap
    <3>1. last_map_size' = new_map_size /\ marked' = marked \cup MarkedNow
      BY <2>1 DEF CopyMap, SizeMarked
    <3>2. last_map_size \in 0 .. new_map_size /\ new_map_size \in Nat
      BY <1>2 DEF IInv, TypeOK
    <3>3. ASSUME NEW k \in 0 .. new_map_size - 1
          PROVE  \E i \in marked' : i <= k /\ k < i + MarkerStep
      <4>1. CASE k < last_map_size
        <5>1. k \in 0 .. last_map_size - 1
          BY <3>2, <4>1
        <5> QED
          BY <1>2, <3>1, <5>1 DEF MarkersWithoutGap
      <4>2. CASE k >= last_map_size
        <5>1. k \in last_map_size .. new_map_size - 1
          BY <3>2, <4>2
        <5> QED
          BY <1>2, <3>1, <5>1, MarkedNowWithoutGap
      <4> QED
        BY <3>2, <4>1, <4>2
    <3> QED
      BY <3>1, <3>3 DEF MarkersWithoutGap
  <2>2. CASE ~CopyMap
    <3>1. UNCHANGED <<last_map_size, marked>>
      BY <1>2, <2>2 DEF Next, vars, map_vars, odom_vars, Loop, Synchronise,
        BeginMap, EndMap, CopyState, CopyScan, CountRound, OdometryTimer,
        PublishLidarOdometry, MapTimer, PublishMap, SendPart, EndOfParts
    <3> QED
      BY <1>2, <3>1 DEF MarkersWithoutGap
  <2> QED
    BY <2>1, <2>2
<1> QED
  BY <1>1, <1>2, Inductive, PTL DEF Spec

\* Odometry goes out in the order of rounds, none twice, whatever the stamps
\* of their states (map_processing.cpp:663-665, 1510-1514).
THEOREM PublishersOdometryAdvances == Spec => OdometryAdvances
<1> DEFINE Sends == odom_pc = "lock" /\ odom_pc' = "idle"
           Later == odom_sent.state.round < odom_sent'.state.round
<1>1. ASSUME IInv, [Next]_vars, Sends PROVE Later
  <2>1. PublishLidarOdometry
    BY <1>1 DEF Next, vars, odom_vars, Loop, Synchronise, BeginMap, EndMap,
      CopyState, CopyScan, CountRound, OdometryTimer, MapTimer, CopyMap,
      PublishMap, SendPart, EndOfParts
  <2>2. odom_sent'.state = kf_state_pub
    BY <2>1 DEF PublishLidarOdometry
  <2> QED
    BY <1>1, <2>2 DEF IInv, SentBefore
<1>2. IInv /\ [Next]_vars => [Sends => Later]_vars
  BY <1>1
<1> QED
  BY <1>2, Inductive, PTL DEF Spec, OdometryAdvances
=============================================================================
