-------------------------- MODULE CamProcessProofs --------------------------
(***************************************************************************)
(* What GetMatchingImageTime finds, for any rate, ring and times.  The      *)
(* invariant says that the ring is sorted and ends where img_end_time_ says,*)
(* that a search has a ring to search, and where the image of the last      *)
(* match is now: in the ring, or older than all of it.  ColourInv says what *)
(* a scan holds of the match while it is undistorted and coloured.          *)
(***************************************************************************)
EXTENDS Colouring, SequenceTheorems, WellFoundedInduction, TLAPS

\* The ring is sorted up to the end of its window.
RingSorted ==
  /\ TimeOrdered(img_buffer)
  /\ \A k \in 1 .. Len(img_buffer) :
       0 <= img_buffer[k] /\ img_buffer[k] <= img_end_time
  /\ 0 <= img_end_time /\ matched_img <= img_end_time

\* Nothing in the ring is older than the last match, or the match is in the
\* ring, and was taken before the time it was looked for.
MatchInRing ==
  \/ \A k \in 1 .. Len(img_buffer) : matched_img <= img_buffer[k]
  \/ /\ matched_img < matched_for
     /\ \E k \in 1 .. Len(img_buffer) : img_buffer[k] = matched_img

IInv ==
  /\ TypeOK /\ RingSorted /\ MatchInRing
  /\ match_pc # "idle" => img_buffer # <<>>

\* Nothing is in the ring, and nothing was looked for.
LEMMA InitIInv == Init => IInv
<1> SUFFICES ASSUME Init PROVE IInv
  OBVIOUS
<1>1. img_buffer = <<>> /\ <<>> \in Seq(Int) /\ Len(<<>>) = 0
  BY EmptySeq DEF Init
<1>2. \A k \in 1 .. Len(img_buffer) : FALSE
  BY <1>1
<1>3. RingSorted /\ MatchInRing
  BY <1>1, <1>2 DEF Init, RingSorted, MatchInRing, TimeOrdered
<1>4. TypeOK
  <2>1. img_buffer \in Seq(Int) /\ Len(img_buffer) <= CamRate
    BY <1>1, CamAssumption
  <2>2. match_pc = "idle" /\ has_img_match \in BOOLEAN
    BY DEF Init
  <2>3. /\ img_end_time \in Int /\ match_time \in Int /\ match_idx \in Int
        /\ matched_img \in Int /\ matched_for \in Int
    BY DEF Init
  <2> QED
    BY <2>1, <2>2, <2>3 DEF TypeOK
<1> QED
  BY <1>3, <1>4 DEF Init, IInv

\* Room for one more: the ring with its oldest image dropped if it is full
Kept == IF Len(img_buffer) < CamRate THEN img_buffer ELSE Tail(img_buffer)

\* Dropping the oldest image keeps a sorted ring, and the last match in it or
\* older than all of it (cam_processing.cpp:35-37).
LEMMA KeptInv ==
  ASSUME IInv
  PROVE  /\ Kept \in Seq(Int) /\ Len(Kept) < CamRate
         /\ TimeOrdered(Kept)
         /\ \A k \in 1 .. Len(Kept) : 0 <= Kept[k] /\ Kept[k] <= img_end_time
         /\ \/ \A k \in 1 .. Len(Kept) : matched_img <= Kept[k]
            \/ /\ matched_img < matched_for
               /\ \E k \in 1 .. Len(Kept) : Kept[k] = matched_img
<1> USE DEF IInv, TypeOK
<1>1. CASE Len(img_buffer) < CamRate
  BY <1>1 DEF Kept, RingSorted, MatchInRing
<1>2. CASE ~(Len(img_buffer) < CamRate)
  <2>1. Len(img_buffer) = CamRate /\ CamRate \in Nat \ {0}
    BY <1>2, CamAssumption
  <2>2. /\ Kept = Tail(img_buffer) /\ Kept \in Seq(Int)
        /\ Len(Kept) = CamRate - 1
        /\ \A k \in 1 .. Len(Kept) : Kept[k] = img_buffer[k + 1]
    BY <1>2, <2>1 DEF Kept
  <2>3. \A k \in 1 .. Len(Kept) : k + 1 \in 1 .. Len(img_buffer)
    BY <2>1, <2>2
  <2>4. TimeOrdered(Kept)
    BY <2>2, <2>3 DEF RingSorted, TimeOrdered
  <2>5. \A k \in 1 .. Len(Kept) : 0 <= Kept[k] /\ Kept[k] <= img_end_time
    BY <2>2, <2>3 DEF RingSorted
  <2>6. CASE \A k \in 1 .. Len(img_buffer) : matched_img <= img_buffer[k]
    BY <2>1, <2>2, <2>3, <2>4, <2>5, <2>6
  <2>7. ASSUME matched_img < matched_for,
               NEW j \in 1 .. Len(img_buffer), img_buffer[j] = matched_img
        PROVE  \/ \A k \in 1 .. Len(Kept) : matched_img <= Kept[k]
               \/ \E k \in 1 .. Len(Kept) : Kept[k] = matched_img
    <3>1. CASE j = 1
      BY <2>2, <2>3, <2>7, <3>1 DEF RingSorted, TimeOrdered
    <3>2. CASE j # 1
      <4>1. j - 1 \in 1 .. Len(Kept) /\ (j - 1) + 1 = j
        BY <2>1, <2>2, <3>2
      <4> QED
        BY <2>2, <2>7, <4>1
    <3> QED
      BY <3>1, <3>2
  <2> QED
    BY <2>1, <2>2, <2>4, <2>5, <2>6, <2>7 DEF MatchInRing
<1> QED
  BY <1>1, <1>2

\* An image that is accepted goes to the end of the ring.
LEMMA CallbackIInv ==
  ASSUME IInv, NEW stamp \in 1 .. MaxTime, CamCallback(stamp)
  PROVE  IInv'
<1> DEFINE ring == Kept
<1>1. /\ img_buffer' = Append(ring, stamp) /\ img_end_time' = stamp
      /\ img_end_time <= stamp /\ stamp \in Nat
      /\ UNCHANGED match_vars
  BY CamAssumption DEF CamCallback, Accepts, Kept
<1>2. /\ ring \in Seq(Int) /\ Len(ring) < CamRate
      /\ TimeOrdered(ring)
      /\ \A k \in 1 .. Len(ring) : 0 <= ring[k] /\ ring[k] <= img_end_time
      /\ \/ \A k \in 1 .. Len(ring) : matched_img <= ring[k]
         \/ /\ matched_img < matched_for
            /\ \E k \in 1 .. Len(ring) : ring[k] = matched_img
  BY KeptInv
<1> HIDE DEF ring
<1>3. /\ img_buffer' \in Seq(Int) /\ Len(img_buffer') = Len(ring) + 1
      /\ img_buffer'[Len(ring) + 1] = stamp
      /\ \A k \in 1 .. Len(ring) : img_buffer'[k] = ring[k]
  BY <1>1, <1>2
<1>4. img_end_time \in Int /\ matched_img \in Int /\ matched_img <= img_end_time
  BY DEF IInv, TypeOK, RingSorted
<1>5. \A k \in 1 .. Len(img_buffer') : k \in 1 .. Len(ring) \/ k = Len(ring) + 1
  BY <1>2, <1>3
<1>6. \A k \in 1 .. Len(img_buffer') :
        0 <= img_buffer'[k] /\ img_buffer'[k] <= stamp
  BY <1>1, <1>2, <1>3, <1>4, <1>5
<1>7. TimeOrdered(img_buffer')
  <2> SUFFICES ASSUME NEW i \in 1 .. Len(img_buffer'),
                      NEW j \in 1 .. Len(img_buffer'), i <= j
               PROVE  img_buffer'[i] <= img_buffer'[j]
    BY DEF TimeOrdered
  <2>1. CASE j \in 1 .. Len(ring)
    <3>1. i \in 1 .. Len(ring)
      BY <1>2, <1>3, <2>1
    <3> QED
      BY <1>2, <1>3, <2>1, <3>1 DEF TimeOrdered
  <2>2. CASE j = Len(ring) + 1
    BY <1>3, <1>6, <2>2
  <2> QED
    BY <1>5, <2>1, <2>2
<1>8. RingSorted'
  BY <1>1, <1>4, <1>6, <1>7 DEF RingSorted, match_vars
<1>9. MatchInRing'
  BY <1>1, <1>2, <1>3, <1>4, <1>5 DEF MatchInRing, match_vars
<1>10. match_pc # "walk" /\ match_pc' # "walk"
  BY <1>1 DEF CamCallback, Accepts, match_vars
<1>11. TypeOK' /\ img_buffer' # <<>>
  BY <1>1, <1>2, <1>3, <1>10, CamAssumption DEF IInv, TypeOK, match_vars
<1> QED
  BY <1>8, <1>9, <1>11 DEF IInv

\* The guess is in the ring, whatever the rate makes of the times
\* (cam_processing.cpp:56-59).
LEMMA GuessInRing ==
  ASSUME NEW ring \in Seq(Int), ring # <<>>, NEW time \in Int
  PROVE  Guess(ring, time) \in 1 .. Len(ring)
<1>1. Len(ring) \in Nat \ {0} /\ ring[1] \in Int
  BY EmptySeq
<1>2. PICK g \in Int : g = ((time - ring[1]) * CamRate) \div TicksPerSec
  BY <1>1, CamAssumption
<1> QED
  BY <1>1, <1>2 DEF Guess

\* Every branch of the search stays in the ring.
LEMMA SearchIInv ==
  ASSUME IInv, Search
  PROVE  IInv'
<1> USE DEF IInv, TypeOK, img_vars
<1>1. CASE LockAndGuess
  <2>1. match_idx' \in 1 .. Len(img_buffer)
    BY <1>1, GuessInRing DEF LockAndGuess
  <2> QED
    BY <1>1, <2>1 DEF LockAndGuess, RingSorted, MatchInRing, TimeOrdered
<1>2. CASE StepForward
  BY <1>2 DEF StepForward, RingSorted, MatchInRing, TimeOrdered
<1>3. CASE StepBack
  BY <1>3 DEF StepBack, RingSorted, MatchInRing, TimeOrdered
<1>4. CASE TakeMatch
  <2>1. /\ match_idx \in 1 .. Len(img_buffer)
        /\ matched_img' = img_buffer[match_idx] /\ matched_img' \in Int
        /\ matched_for' = match_time
        /\ IsMatch(img_buffer, match_time, match_idx)
        /\ UNCHANGED img_vars
    BY <1>4 DEF TakeMatch
  <2>2. MatchInRing'
    <3>1. CASE img_buffer[match_idx] < match_time
      BY <2>1, <3>1 DEF MatchInRing
    <3>2. CASE match_idx = 1
      BY <2>1, <3>2 DEF MatchInRing, RingSorted, TimeOrdered
    <3> QED
      BY <2>1, <3>1, <3>2 DEF IsMatch
  <2>3. RingSorted'
    BY <2>1 DEF RingSorted, TimeOrdered
  <2> QED
    BY <1>4, <2>1, <2>2, <2>3 DEF TakeMatch
<1> QED
  BY <1>1, <1>2, <1>3, <1>4 DEF Search

\* The loop starts a search, if the ring is not empty.
LEMMA AskIInv ==
  ASSUME IInv, NEW time \in 1 .. MaxTime, AskForImage(time)
  PROVE  IInv'
<1>1. /\ UNCHANGED <<img_vars, match_idx, matched_img, matched_for>>
      /\ has_img_match' = FALSE /\ match_time' = time /\ time \in Int
      /\ match_pc' = "idle" \/ (match_pc' = "lock" /\ img_buffer # <<>>)
  BY CamAssumption DEF AskForImage
<1>2. RingSorted' /\ MatchInRing'
  BY <1>1 DEF IInv, RingSorted, MatchInRing, TimeOrdered, img_vars
<1>3. TypeOK'
  BY <1>1 DEF IInv, TypeOK, img_vars
<1> QED
  BY <1>1, <1>2, <1>3 DEF IInv, img_vars

\* Every step keeps the invariant.
LEMMA NextIInv == IInv /\ [Next]_vars => IInv'
<1>1. ASSUME IInv, UNCHANGED vars PROVE IInv'
  BY <1>1 DEF IInv, TypeOK, RingSorted, MatchInRing, TimeOrdered, vars,
    img_vars, match_vars
<1> QED
  BY <1>1, CallbackIInv, AskIInv, SearchIInv DEF Next

\* The invariant holds throughout.
LEMMA Inductive == Spec => []IInv
BY InitIInv, NextIInv, PTL DEF Spec

-----------------------------------------------------------------------------
(* What a scan is moved and coloured with                                  *)

\* A set of naturals that has a member has a least one.
LEMMA LeastNatural ==
  ASSUME NEW S \in SUBSET Nat, S # {}
  PROVE  \E m \in S : \A k \in S : m <= k
<1> DEFINE Less == OpToRel(<, Nat)
<1>1. IsWellFoundedOn(Less, Nat)
  BY NatLessThanWellFounded
<1>2. \A j, k \in Nat : j < k => <<j, k>> \in Less
  BY DEF OpToRel
<1> HIDE DEF Less
<1>3. PICK m \in S : \A k \in S : <<k, m>> \notin Less
  BY <1>1, WFMin
<1>4. \A k \in S : k \in Nat
  OBVIOUS
<1>5. \A k \in S : ~(k < m)
  BY <1>2, <1>3, <1>4, Zenon
<1>6. \A k \in S : m <= k
  BY <1>4, <1>5
<1> QED
  BY <1>6

\* A window that is not empty has a time at each of its places.
LEMMA WindowTimes ==
  ASSUME NEW states \in Seq([time : Int]), states # <<>>
  PROVE  Len(states) \in Nat \ {0} /\ \A k \in 1 .. Len(states) : states[k].time \in Int
<1>1. Len(states) \in Nat \ {0}
  BY EmptySeq
<1>2. \A k \in 1 .. Len(states) : states[k] \in [time : Int]
  BY ElementOfSeq
<1> QED
  BY <1>1, <1>2

\* A window of IMU states has a place for every time (imu_processing.cpp:163-189).
LEMMA TimeMatchExists ==
  ASSUME NEW states \in Seq([time : Int]), states # <<>>, NEW time \in Int
  PROVE  \E m \in 1 .. Len(states) : IsTimeMatch(states, time, m)
<1> DEFINE later == {k \in 1 .. Len(states) : states[k].time > time}
<1>1. Len(states) \in Nat \ {0} /\ \A k \in 1 .. Len(states) : states[k].time \in Int
  BY WindowTimes
<1>2. CASE later = {}
  BY <1>1, <1>2 DEF IsTimeMatch
<1>3. CASE later # {}
  <2>1. PICK m \in later : \A k \in later : m <= k
    <3>1. later \in SUBSET Nat
      BY <1>1
    <3> HIDE DEF later
    <3> QED
      BY <1>3, <3>1, LeastNatural
  <2>2. m # 1 => m - 1 \in 1 .. Len(states) /\ ~(m <= m - 1)
    BY <1>1, <2>1
  <2>3. m # 1 => states[m - 1].time <= time
    BY <1>1, <2>1, <2>2
  <2> QED
    BY <1>1, <2>1, <2>3 DEF IsTimeMatch
<1> QED
  BY <1>2, <1>3

\* A pose read out of a window is made of the states around its time
\* (imu_processing.cpp:213-245).
LEMMA PoseAround ==
  ASSUME NEW states \in ImuWindows, NEW time \in Int
  PROVE  Around(Pose(states, time), states) /\ Pose(states, time).at = time
<1>1. /\ states \in Seq([time : Int]) /\ states # <<>>
      /\ \A j, k \in 1 .. Len(states) : j <= k => states[j].time <= states[k].time
  BY WindowsAssumption DEF Sorted
<1>2. Len(states) \in Nat \ {0} /\ \A k \in 1 .. Len(states) : states[k].time \in Int
  BY <1>1, WindowTimes
<1> DEFINE tail_idx == CHOOSE m \in 1 .. Len(states) : IsTimeMatch(states, time, m)
           head_idx == IF tail_idx = 1 THEN 1 ELSE tail_idx - 1
<1>3. tail_idx \in 1 .. Len(states) /\ IsTimeMatch(states, time, tail_idx)
  BY <1>1, TimeMatchExists
<1>4. Pose(states, time) =
        [head |-> states[head_idx].time, tail |-> states[tail_idx].time, at |-> time]
  BY DEF Pose, Match
<1> HIDE DEF tail_idx
<1>5. head_idx \in 1 .. Len(states)
  BY <1>2, <1>3
<1> DEFINE first == states[1].time
           last == states[Len(states)].time
<1>6. CASE first <= time /\ time < last
  <2>1. states[tail_idx].time > time
    BY <1>2, <1>3, <1>6 DEF IsTimeMatch
  <2>2. tail_idx # 1 /\ head_idx = tail_idx - 1 /\ states[head_idx].time <= time
    BY <1>2, <1>3, <1>6, <2>1 DEF IsTimeMatch
  <2>3. ASSUME NEW k \in 1 .. Len(states)
        PROVE  states[k].time <= states[head_idx].time \/ states[tail_idx].time <= states[k].time
    <3>1. k <= head_idx \/ tail_idx <= k
      BY <1>2, <1>3, <2>2
    <3> QED
      BY <1>1, <1>3, <1>5, <3>1
  <2> QED
    BY <1>4, <1>6, <2>1, <2>2, <2>3 DEF Around
<1>7. CASE time < first
  <2>1. \A k \in 1 .. Len(states) : time < states[k].time
    BY <1>1, <1>2, <1>7
  <2>2. tail_idx = 1
    <3>1. ASSUME tail_idx # 1 PROVE FALSE
      <4>1. tail_idx - 1 \in 1 .. Len(states) /\ states[tail_idx - 1].time <= time
        BY <1>2, <1>3, <2>1, <3>1 DEF IsTimeMatch
      <4> QED
        BY <1>2, <2>1, <4>1
    <3> QED
      BY <3>1
  <2>3. head_idx = 1
    BY <2>2
  <2> HIDE DEF head_idx
  <2> QED
    BY <1>2, <1>4, <1>7, <2>2, <2>3 DEF Around
<1>8. CASE first <= time /\ ~(time < last)
  <2>1. \A k \in 1 .. Len(states) : ~(states[k].time > time)
    BY <1>1, <1>2, <1>8
  <2>2. tail_idx = Len(states)
    BY <1>3, <2>1 DEF IsTimeMatch
  <2> HIDE DEF head_idx
  <2> QED
    BY <1>2, <1>4, <1>8, <2>2 DEF Around
<1>9. Pose(states, time).at = time
  BY <1>4
<1>10. first <= time \/ time < first
  BY <1>2
<1> QED
  BY <1>6, <1>7, <1>8, <1>9, <1>10

\* The state that matches a time is the first one after it, or the newest
\* (imu_processing.cpp:200-210).
LEMMA MatchIsFirstAfter ==
  ASSUME NEW states \in ImuWindows, NEW time \in Int
  PROVE  FirstAfter(StatePose(states[Match(states, time)]), states, time)
<1> DEFINE pose == StatePose(states[Match(states, time)])
           last == states[Len(states)].time
           first == states[1].time
<1>1. /\ states \in Seq([time : Int]) /\ states # <<>>
      /\ \A j, k \in 1 .. Len(states) : j <= k => states[j].time <= states[k].time
  BY WindowsAssumption DEF Sorted
<1>2. Len(states) \in Nat \ {0} /\ \A k \in 1 .. Len(states) : states[k].time \in Int
  BY <1>1, WindowTimes
<1>3. Match(states, time) \in 1 .. Len(states)
  BY <1>1, <1>2, TimeMatchExists DEF Match
<1>4. \E k \in 1 .. Len(states) : pose = StatePose(states[k])
  BY <1>3
<1>5. pose.at = states[Match(states, time)].time /\ pose.at \in Int
  BY <1>2, <1>3 DEF StatePose
<1>6. Pose(states, time).tail = pose.at /\ Pose(states, time).at = time
  BY <1>5 DEF Pose
<1>7. Around(Pose(states, time), states)
  BY PoseAround
<1>8. first \in Int /\ last \in Int
  BY <1>2
<1>9. CASE first <= time /\ time < last
  <2>1. /\ Pose(states, time).head <= time /\ time < pose.at
        /\ \A k \in 1 .. Len(states) :
             states[k].time <= Pose(states, time).head \/ pose.at <= states[k].time
    BY <1>6, <1>7, <1>9 DEF Around
  <2>2. Pose(states, time).head \in Int
    BY <1>2, <1>3 DEF Pose
  <2>3. \A k \in 1 .. Len(states) : states[k].time <= time \/ pose.at <= states[k].time
    BY <1>2, <1>5, <2>1, <2>2
  <2> QED
    BY <1>4, <1>9, <2>1, <2>3 DEF FirstAfter
<1>10. CASE time < first
  <2>1. pose.at = first
    BY <1>6, <1>7, <1>8, <1>10 DEF Around
  <2>2. \A k \in 1 .. Len(states) : first <= states[k].time
    BY <1>1, <1>2
  <2>3. time < last
    BY <1>2, <1>8, <1>10, <2>2
  <2> QED
    BY <1>4, <1>10, <2>1, <2>2, <2>3 DEF FirstAfter
<1>11. CASE last <= time
  <2>1. first <= last
    BY <1>1, <1>2
  <2>2. pose.at = last
    BY <1>6, <1>7, <1>8, <1>11, <2>1 DEF Around
  <2> QED
    BY <1>4, <1>8, <1>11, <2>2 DEF FirstAfter
<1> QED
  BY <1>8, <1>9, <1>10, <1>11

\* What the loop holds, by how far the scan is: the window, the image that
\* was looked for at this scan's end, and the poses of the two times
ColourInv ==
  /\ scan_pc \in {"idle", "images", "points"}
  /\ scan_pc # "images" => match_pc = "idle"
  /\ scan_pc # "idle" => synced_imu_states \in ImuWindows
  /\ match_pc # "idle" => ~has_img_match
  /\ has_img_match => matched_for = match_time
  /\ scan_pc = "points" =>
       /\ T_world_imu_e =
            StatePose(synced_imu_states[Match(synced_imu_states, match_time)])
       /\ has_img_match => T_world_img = Pose(synced_imu_states, matched_img)
       /\ point # NoPoint =>
            /\ \E time \in Int : point.pose = Pose(synced_imu_states, time)
            /\ point.end = T_world_imu_e
            /\ point.colour # NoColour =>
                 has_img_match /\ point.colour = [img |-> matched_img, pose |-> T_world_img]

\* No point is left from the scan before when the points are next taken.
NoPointBetween == scan_pc # "points" => point = NoPoint

\* Each step of the loop, and the images that come meanwhile, keep to it.
LEMMA NextColourInv ==
  ColourInv /\ NoPointBetween /\ [ColourNext]_all_vars => ColourInv' /\ NoPointBetween'
<1> SUFFICES ASSUME ColourInv, NoPointBetween, [ColourNext]_all_vars
             PROVE  ColourInv' /\ NoPointBetween'
  OBVIOUS
<1>1. ASSUME UNCHANGED scan_vars, UNCHANGED match_vars
      PROVE  ColourInv' /\ NoPointBetween'
  BY <1>1 DEF ColourInv, NoPointBetween, scan_vars, match_vars
<1>2. CASE Images
  BY <1>1, <1>2 DEF Images, CamCallback
<1>3. CASE SearchImage
  <2>1. UNCHANGED scan_vars /\ match_pc # "idle" /\ UNCHANGED match_time
    BY <1>3 DEF SearchImage, Search, LockAndGuess, StepForward, StepBack, TakeMatch
  <2>2. scan_pc = "images"
    BY <2>1 DEF ColourInv
  <2>3. \/ match_pc' # "idle" /\ UNCHANGED has_img_match
        \/ match_pc' = "idle" /\ matched_for' = match_time
    BY <1>3 DEF SearchImage, Search, LockAndGuess, StepForward, StepBack, TakeMatch
  <2> QED
    BY <2>1, <2>2, <2>3 DEF ColourInv, NoPointBetween, scan_vars
<1>4. CASE MatchPoses
  BY <1>4 DEF MatchPoses, ColourInv, NoPointBetween, vars, match_vars
<1>5. CASE EndScan
  BY <1>5 DEF EndScan, ColourInv, NoPointBetween, vars, match_vars
<1>6. ASSUME NEW time \in 1 .. MaxTime, NEW states \in ImuWindows, StartScan(time, states)
      PROVE  ColourInv' /\ NoPointBetween'
  BY <1>6 DEF StartScan, AskForImage, ColourInv, NoPointBetween
<1>7. ASSUME NEW time \in 1 .. MaxTime, NEW pixels \in SUBSET {"outside", "black", "colour"},
             UndistortPoint(time, pixels)
      PROVE  ColourInv' /\ NoPointBetween'
  <2>1. time \in Int
    BY CamAssumption
  <2>2. /\ scan_pc = "points" /\ UNCHANGED <<vars, scan_pc, synced_imu_states, T_world_img, T_world_imu_e>>
        /\ point'.pose = Pose(synced_imu_states, time)
        /\ point'.end = T_world_imu_e
        /\ point'.colour = IF has_img_match /\ HasColour(pixels)
                             THEN [img |-> matched_img, pose |-> T_world_img]
                             ELSE NoColour
    BY <1>7 DEF UndistortPoint, ColourImage
  <2> QED
    BY <2>1, <2>2 DEF ColourInv, NoPointBetween, vars, match_vars
<1>8. CASE UNCHANGED all_vars
  BY <1>1, <1>8 DEF all_vars, vars
<1> QED
  BY <1>2, <1>3, <1>4, <1>5, <1>6, <1>7, <1>8 DEF ColourNext

-----------------------------------------------------------------------------
(* The theorems                                                            *)

\* The camera does not see what a scan does between its searches.
LEMMA ColourImplements == ColourSpec => Spec
<1>1. ColourInit => Init
  BY DEF ColourInit
<1>2. [ColourNext]_all_vars => [Next]_vars
  BY DEF ColourNext, all_vars, Images, SearchImage, MatchPoses, EndScan, StartScan,
     UndistortPoint, Next
<1> QED
  BY <1>1, <1>2, PTL DEF ColourSpec, Spec

\* The search never leaves the ring, though the ring may have moved since it
\* was found not to be empty (cam_processing.cpp:45-66).
THEOREM CamTypeOK == ColourSpec => []TypeOK
<1>1. IInv => TypeOK
  BY DEF IInv
<1> QED
  BY <1>1, ColourImplements, Inductive, PTL

\* A search ends in one way only.
LEMMA EndsByTaking ==
  ASSUME [Next]_vars, match_pc = "walk", match_pc' = "idle"
  PROVE  TakeMatch
BY DEF Next, vars, match_vars, CamCallback, AskForImage, Search, LockAndGuess,
  StepForward, StepBack

\* The image is the last one before the time, or the oldest.
LEMMA FoundLastBefore ==
  ASSUME IInv, [Next]_vars, match_pc = "walk", match_pc' = "idle"
  PROVE  \/ /\ matched_img' < match_time
            /\ \A i \in 1 .. Len(img_buffer) :
                 img_buffer[i] < match_time => img_buffer[i] <= matched_img'
         \/ /\ \A i \in 1 .. Len(img_buffer) :
                 match_time <= img_buffer[i] /\ matched_img' <= img_buffer[i]
<1>1. /\ IsMatch(img_buffer, match_time, match_idx)
      /\ matched_img' = img_buffer[match_idx]
  BY EndsByTaking DEF TakeMatch
<1>2. /\ img_buffer \in Seq(Int) /\ match_time \in Int
      /\ match_idx \in 1 .. Len(img_buffer)
      /\ \A i, j \in 1 .. Len(img_buffer) :
           i <= j => img_buffer[i] <= img_buffer[j]
  BY DEF IInv, TypeOK, RingSorted, TimeOrdered
<1>3. CASE img_buffer[match_idx] < match_time
  <2>1. match_idx # Len(img_buffer) => img_buffer[match_idx + 1] >= match_time
    BY <1>1, <1>3 DEF IsMatch
  <2>2. ASSUME NEW i \in 1 .. Len(img_buffer), img_buffer[i] < match_time
        PROVE  i <= match_idx
    <3>1. ASSUME i > match_idx PROVE FALSE
      <4>1. match_idx + 1 \in 1 .. Len(img_buffer) /\ match_idx + 1 <= i
            /\ match_idx # Len(img_buffer)
        BY <1>2, <3>1
      <4>2. img_buffer[match_idx + 1] <= img_buffer[i]
        BY <1>2, <4>1
      <4> QED
        BY <1>2, <2>1, <2>2, <4>1, <4>2
    <3> QED
      BY <1>2, <3>1
  <2> QED
    BY <1>1, <1>2, <1>3, <2>2
<1>4. CASE ~(img_buffer[match_idx] < match_time)
  BY <1>1, <1>2, <1>4 DEF IsMatch
<1> QED
  BY <1>3, <1>4

\* A search takes the last image before the scan's time, or the oldest one
\* (cam_processing.cpp:61-83).
THEOREM CamMatchIsLastBefore == ColourSpec => MatchIsLastBefore
<1> DEFINE Found ==
      match_pc = "walk" /\ match_pc' = "idle" =>
        \/ /\ matched_img' < match_time
           /\ \A i \in 1 .. Len(img_buffer) :
                img_buffer[i] < match_time => img_buffer[i] <= matched_img'
        \/ /\ \A i \in 1 .. Len(img_buffer) :
                match_time <= img_buffer[i] /\ matched_img' <= img_buffer[i]
<1>1. IInv /\ [Next]_vars => [Found]_vars
  BY FoundLastBefore
<1> QED
  BY <1>1, ColourImplements, Inductive, PTL DEF Spec, MatchIsLastBefore

\* No search passes over an image between the one it takes and the scan's time,
\* for any ring and any images that come meanwhile (cam_processing.cpp:45-84).
THEOREM CamNoImagePassedOver == ColourSpec => NoImagePassedOver
<1> DEFINE Found ==
      match_pc = "walk" /\ match_pc' = "idle" =>
        \A i \in 1 .. Len(img_buffer) :
          /\ ~(matched_img' < img_buffer[i] /\ img_buffer[i] < match_time)
          /\ ~(match_time < img_buffer[i] /\ img_buffer[i] < matched_img')
<1>1. ASSUME IInv, [Next]_vars PROVE Found
  <2> SUFFICES ASSUME match_pc = "walk", match_pc' = "idle",
                      NEW i \in 1 .. Len(img_buffer)
               PROVE  /\ ~(matched_img' < img_buffer[i] /\ img_buffer[i] < match_time)
                      /\ ~(match_time < img_buffer[i] /\ img_buffer[i] < matched_img')
    OBVIOUS
  <2>1. match_time \in Int /\ img_buffer[i] \in Int
    BY <1>1 DEF IInv, TypeOK
  <2>2. matched_img' = img_buffer[match_idx] /\ match_idx \in 1 .. Len(img_buffer)
    BY <1>1, EndsByTaking DEF TakeMatch, IInv, TypeOK
  <2>3. matched_img' \in Int
    BY <1>1, <2>2 DEF IInv, TypeOK
  <2> QED
    BY <1>1, <2>1, <2>3, FoundLastBefore
<1>2. IInv /\ [Next]_vars => [Found]_vars
  BY <1>1
<1> QED
  BY <1>2, ColourImplements, Inductive, PTL DEF Spec, NoImagePassedOver

\* Scans whose times do not go back are not coloured with older and older
\* images (cam_processing.cpp:35-37, 61-83).
THEOREM CamNeverAnOlderImage == ColourSpec => NeverAnOlderImage
<1> DEFINE NotOlder ==
      match_pc = "walk" /\ match_pc' = "idle" /\ match_time >= matched_for =>
        matched_img <= matched_img'
<1>1. ASSUME IInv, [Next]_vars PROVE NotOlder
  <2> SUFFICES ASSUME match_pc = "walk", match_pc' = "idle",
                      match_time >= matched_for
               PROVE  matched_img <= matched_img'
    OBVIOUS
  <2>1. /\ IsMatch(img_buffer, match_time, match_idx)
        /\ matched_img' = img_buffer[match_idx]
    BY <1>1, EndsByTaking DEF TakeMatch
  <2>2. /\ img_buffer \in Seq(Int) /\ match_time \in Int
        /\ match_idx \in 1 .. Len(img_buffer)
        /\ matched_img \in Int /\ matched_for \in Int
        /\ \A i, j \in 1 .. Len(img_buffer) :
             i <= j => img_buffer[i] <= img_buffer[j]
    BY <1>1 DEF IInv, TypeOK, RingSorted, TimeOrdered
  <2>3. CASE \A k \in 1 .. Len(img_buffer) : matched_img <= img_buffer[k]
    BY <2>1, <2>2, <2>3
  <2>4. ASSUME matched_img < matched_for,
               NEW k \in 1 .. Len(img_buffer), img_buffer[k] = matched_img
        PROVE  matched_img <= matched_img'
    <3>1. CASE k <= match_idx
      BY <2>1, <2>2, <2>4, <3>1
    <3>2. CASE k > match_idx
      <4>1. match_idx + 1 \in 1 .. Len(img_buffer) /\ match_idx + 1 <= k
            /\ match_idx # Len(img_buffer) /\ match_idx <= k
        BY <2>2, <3>2
      <4>2. img_buffer[match_idx] < match_time
        BY <2>2, <2>4, <4>1
      <4>3. img_buffer[match_idx + 1] >= match_time
        BY <2>1, <4>1, <4>2 DEF IsMatch
      <4>4. img_buffer[match_idx + 1] <= img_buffer[k]
        BY <2>2, <4>1
      <4> QED
        BY <2>2, <2>4, <4>1, <4>3, <4>4
    <3> QED
      BY <2>2, <3>1, <3>2
  <2> QED
    BY <1>1, <2>3, <2>4 DEF IInv, MatchInRing
<1>2. IInv /\ [Next]_vars => [NotOlder]_vars
  BY <1>1
<1> QED
  BY <1>2, ColourImplements, Inductive, PTL DEF Spec, NeverAnOlderImage

\* Each point is moved from the pose of its own time to that of the first state
\* after its scan's end, and its colour is that of the image looked for at this
\* scan's end, seen from the pose of the image's time, for any windows of IMU
\* states and any images that come meanwhile (imu_processing.cpp:199-271,
\* cam_processing.cpp:50-80).
THEOREM ColouringColouredFromItsImage == ColourSpec => []ColouredFromItsImage
<1>1. ColourInit => ColourInv /\ NoPointBetween
  BY DEF ColourInit, Init, ColourInv, NoPointBetween
<1>2. IInv /\ ColourInv => ColouredFromItsImage
  <2> SUFFICES ASSUME IInv, ColourInv, scan_pc = "points", point # NoPoint
               PROVE  /\ Around(point.pose, synced_imu_states)
                      /\ FirstAfter(point.end, synced_imu_states, match_time)
                      /\ point.colour # NoColour =>
                           /\ matched_for = match_time
                           /\ point.colour.img = matched_img
                           /\ point.colour.pose.at = matched_img
                           /\ Around(point.colour.pose, synced_imu_states)
    BY DEF ColouredFromItsImage
  <2>1. synced_imu_states \in ImuWindows /\ match_time \in Int /\ matched_img \in Int
    BY DEF IInv, TypeOK, ColourInv
  <2>2. Around(point.pose, synced_imu_states)
    BY <2>1, PoseAround DEF ColourInv
  <2>3. FirstAfter(point.end, synced_imu_states, match_time)
    BY <2>1, MatchIsFirstAfter DEF ColourInv
  <2>4. ASSUME point.colour # NoColour
        PROVE  /\ matched_for = match_time
               /\ point.colour.img = matched_img
               /\ point.colour.pose = Pose(synced_imu_states, matched_img)
    BY <2>4 DEF ColourInv
  <2> QED
    BY <2>1, <2>2, <2>3, <2>4, PoseAround
<1> QED
  BY <1>1, <1>2, NextColourInv, ColourImplements, Inductive, PTL DEF ColourSpec
=============================================================================
