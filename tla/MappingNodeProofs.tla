-------------------------- MODULE MappingNodeProofs --------------------------
(***************************************************************************)
(* Theorems about the node, for every ring size, number of bins, cap, scan  *)
(* shape and scan duration.  IInv is the inductive invariant: those of the  *)
(* two sensor components, the types and finiteness of the loop's own state, *)
(* and what the loop knows of the state it carries from the synchronisation *)
(* to the correction of the filter.  The lemmas about single operations of  *)
(* ImuProcess and of LidarProcess, and the invariant each of the two keeps, *)
(* come first.                                                             *)
(***************************************************************************)
EXTENDS MappingNodeFlow, SequenceTheorems, FiniteSetTheorems, TLAPS

-----------------------------------------------------------------------------
(* The ring                                                                *)

\* A ring of more than one entry has a first and a second.
LEMMA SecondPlace ==
  ASSUME NEW n \in Nat \ {0}, n # 1
  PROVE  2 \in 1 .. n /\ 1 \in 1 .. n
OBVIOUS

\* The entries of a ring have integer times and instants.
LEMMA RingEntry ==
  ASSUME NEW ring \in Seq(KfState), NEW i \in 1 .. Len(ring)
  PROVE  /\ ring[i] \in KfState
         /\ ring[i].time \in Int
         /\ ring[i].est \in Int
<1>1. ring[i] \in KfState
  BY ElementOfSeq
<1> QED
  BY <1>1 DEF KfState

\* A ring with room takes a new entry at its end and keeps the others in place.
LEMMA PushBackRoom ==
  ASSUME NEW ring \in Seq(KfState), NEW x \in KfState, Len(ring) < Rate
  PROVE  LET pushed == PushBack(ring, x)
         IN  /\ pushed \in Seq(KfState)
             /\ Len(pushed) = Len(ring) + 1
             /\ pushed[Len(pushed)] = x
             /\ \A i \in 1 .. Len(ring) : pushed[i] = ring[i]
BY AppendProperties DEF PushBack

\* A full ring moves every entry down by one and loses the oldest.
LEMMA PushBackFull ==
  ASSUME NEW ring \in Seq(KfState), NEW x \in KfState, ~(Len(ring) < Rate),
         Len(ring) <= Rate
  PROVE  LET pushed == PushBack(ring, x)
         IN  /\ pushed \in Seq(KfState)
             /\ Len(pushed) = Len(ring)
             /\ pushed[Len(pushed)] = x
             /\ \A i \in 1 .. Len(ring) - 1 : pushed[i] = ring[i + 1]
<1>1. Len(ring) \in Nat /\ Len(ring) = Rate /\ ring # <<>>
  BY ImuAssumption, EmptySeq, LenProperties
<1>2. /\ Tail(ring) \in Seq(KfState)
      /\ Len(Tail(ring)) = Len(ring) - 1
      /\ \A i \in 1 .. Len(Tail(ring)) : Tail(ring)[i] = ring[i + 1]
  BY <1>1, HeadTailProperties
<1> DEFINE pushed == Append(Tail(ring), x)
<1>3. /\ pushed \in Seq(KfState)
      /\ Len(pushed) = Len(Tail(ring)) + 1
      /\ \A i \in 1 .. Len(Tail(ring)) : pushed[i] = Tail(ring)[i]
      /\ pushed[Len(Tail(ring)) + 1] = x
  BY <1>2, AppendProperties
<1>4. PushBack(ring, x) = pushed
  BY DEF PushBack
<1> HIDE DEF pushed
<1> QED
  BY <1>1, <1>2, <1>3, <1>4

\* What every push has in common: the ring stays within its capacity, its
\* newest entry is the one pushed.
LEMMA PushBackType ==
  ASSUME NEW ring \in Seq(KfState), NEW x \in KfState, Len(ring) <= Rate
  PROVE  /\ PushBack(ring, x) \in Seq(KfState)
         /\ Len(PushBack(ring, x)) \in 1 .. Rate
         /\ Last(PushBack(ring, x)) = x
<1>1. Len(ring) \in Nat
  BY LenProperties
<1>2. CASE Len(ring) < Rate
  BY <1>1, <1>2, PushBackRoom, ImuAssumption DEF Last
<1>3. CASE ~(Len(ring) < Rate)
  BY <1>1, <1>3, PushBackFull, ImuAssumption DEF Last
<1> QED
  BY <1>2, <1>3

\* Every entry of the ring after a push was in it before or is the one pushed;
\* an empty ring then holds that one alone.
LEMMA PushBackEntries ==
  ASSUME NEW ring \in Seq(KfState), NEW x \in KfState, Len(ring) <= Rate
  PROVE  /\ \A i \in 1 .. Len(PushBack(ring, x)) :
              \/ PushBack(ring, x)[i] = x
              \/ \E j \in 1 .. Len(ring) : PushBack(ring, x)[i] = ring[j]
         /\ ring = <<>> => PushBack(ring, x)[1] = x
<1> DEFINE pushed == PushBack(ring, x)
<1>1. Len(ring) \in Nat
  BY LenProperties
<1>2. CASE Len(ring) < Rate
  <2>1. /\ Len(pushed) = Len(ring) + 1
        /\ pushed[Len(pushed)] = x
        /\ \A i \in 1 .. Len(ring) : pushed[i] = ring[i]
    BY <1>2, PushBackRoom
  <2>2. ring = <<>> => Len(ring) = 0
    BY EmptySeq
  <2> HIDE DEF pushed
  <2>3. \A i \in 1 .. Len(pushed) :
          pushed[i] = x \/ \E j \in 1 .. Len(ring) : pushed[i] = ring[j]
    <3> SUFFICES ASSUME NEW i \in 1 .. Len(pushed)
                 PROVE  pushed[i] = x \/ \E j \in 1 .. Len(ring) :
                                            pushed[i] = ring[j]
      OBVIOUS
    <3>1. i = Len(pushed) \/ i \in 1 .. Len(ring)
      BY <1>1, <2>1
    <3> QED
      BY <2>1, <3>1
  <2>4. ring = <<>> => pushed[1] = x
    BY <2>1, <2>2
  <2> QED
    BY <2>3, <2>4 DEF pushed
<1>3. CASE ~(Len(ring) < Rate)
  <2>1. /\ Len(pushed) = Len(ring)
        /\ pushed[Len(pushed)] = x
        /\ \A i \in 1 .. Len(ring) - 1 : pushed[i] = ring[i + 1]
    BY <1>3, PushBackFull
  <2>2. ring # <<>>
    BY <1>1, <1>3, EmptySeq, ImuAssumption
  <2> HIDE DEF pushed
  <2>3. \A i \in 1 .. Len(pushed) :
          pushed[i] = x \/ \E j \in 1 .. Len(ring) : pushed[i] = ring[j]
    <3> SUFFICES ASSUME NEW i \in 1 .. Len(pushed)
                 PROVE  pushed[i] = x \/ \E j \in 1 .. Len(ring) :
                                            pushed[i] = ring[j]
      OBVIOUS
    <3>1. \/ i = Len(pushed)
          \/ i \in 1 .. Len(ring) - 1 /\ i + 1 \in 1 .. Len(ring)
      BY <1>1, <2>1
    <3> QED
      BY <2>1, <3>1
  <2> QED
    BY <2>2, <2>3 DEF pushed
<1> QED
  BY <1>2, <1>3

\* A ring in time order stays so when the entry pushed is not older than its
\* newest, and its oldest entry never gets older.
LEMMA PushBackSorted ==
  ASSUME NEW ring \in Seq(KfState), NEW x \in KfState, Len(ring) <= Rate,
         Sorted(ring), ring # <<>> => Last(ring).time <= x.time
  PROVE  /\ Sorted(PushBack(ring, x))
         /\ ring # <<>> => ring[1].time <= PushBack(ring, x)[1].time
<1> DEFINE pushed == PushBack(ring, x)
<1>1. Len(ring) \in Nat /\ (ring # <<>> => Len(ring) \in Nat \ {0})
  BY LenProperties, EmptySeq
<1>2. pushed \in Seq(KfState) /\ Len(pushed) \in 1 .. Rate
  BY PushBackType
<1>3. x.time \in Int
  BY DEF KfState
<1>4. \A i \in 1 .. Len(ring) :
         ring[i].time \in Int /\ ring[i].time <= x.time
  <2> SUFFICES ASSUME NEW i \in 1 .. Len(ring)
               PROVE  ring[i].time \in Int /\ ring[i].time <= x.time
    OBVIOUS
  <2>1. ring # <<>> /\ Len(ring) \in 1 .. Len(ring)
    BY <1>1, EmptySeq
  <2>2. ring[i].time <= Last(ring).time
    BY <1>1, <2>1 DEF Sorted, Last
  <2>3. ring[i].time \in Int /\ ring[Len(ring)].time \in Int
    BY <2>1, RingEntry
  <2> QED
    BY <1>3, <2>1, <2>2, <2>3 DEF Last
<1>5. CASE Len(ring) < Rate
  <2>1. /\ Len(pushed) = Len(ring) + 1
        /\ pushed[Len(pushed)] = x
        /\ \A i \in 1 .. Len(ring) : pushed[i] = ring[i]
    BY <1>5, PushBackRoom
  <2> HIDE DEF pushed
  <2>2. Sorted(pushed)
    BY <1>1, <1>3, <1>4, <2>1 DEF Sorted
  <2>3. ring # <<>> => ring[1].time <= pushed[1].time
    BY <1>1, <1>4, <2>1
  <2> QED
    BY <2>2, <2>3 DEF pushed
<1>6. CASE ~(Len(ring) < Rate)
  <2>1. /\ Len(pushed) = Len(ring)
        /\ pushed[Len(pushed)] = x
        /\ \A i \in 1 .. Len(ring) - 1 : pushed[i] = ring[i + 1]
    BY <1>6, PushBackFull
  <2> HIDE DEF pushed
  <2>2. Sorted(pushed)
    <3> SUFFICES ASSUME NEW i \in 1 .. Len(ring), NEW j \in 1 .. Len(ring), i <= j
                 PROVE  pushed[i].time <= pushed[j].time
      BY <2>1 DEF Sorted
    <3>1. Len(ring) \in Nat
      BY LenProperties
    <3>2. CASE j = Len(ring)
      <4>1. i = j \/ (i \in 1 .. Len(ring) - 1 /\ i + 1 \in 1 .. Len(ring))
        BY <3>1, <3>2
      <4> QED
        BY <1>3, <1>4, <2>1, <3>2, <4>1
    <3>3. CASE j # Len(ring)
      <4>1. /\ i \in 1 .. Len(ring) - 1 /\ j \in 1 .. Len(ring) - 1
            /\ i + 1 \in 1 .. Len(ring) /\ j + 1 \in 1 .. Len(ring) /\ i + 1 <= j + 1
        BY <3>1, <3>3
      <4> QED
        BY <1>1, <2>1, <4>1 DEF Sorted
    <3> QED
      BY <3>2, <3>3
  <2>3. ring # <<>> => ring[1].time <= pushed[1].time
    <3> SUFFICES ASSUME ring # <<>> PROVE ring[1].time <= pushed[1].time
      OBVIOUS
    <3>1. CASE Len(ring) = 1
      BY <1>1, <1>4, <2>1, <3>1
    <3>2. CASE Len(ring) # 1
      <4>1. 2 \in 1 .. Len(ring) /\ 1 \in 1 .. Len(ring)
        BY <1>1, <3>2, SecondPlace
      <4>2. ring[1].time <= ring[2].time
        BY <4>1 DEF Sorted
      <4>3. pushed[1] = ring[2]
        BY <1>1, <2>1, <3>2
      <4> QED
        BY <4>2, <4>3
    <3> QED
      BY <3>1, <3>2
  <2> QED
    BY <2>2, <2>3 DEF pushed
<1> QED
  BY <1>5, <1>6

\* The replay keeps the ring's length and times.
LEMMA CorrectedType ==
  ASSUME NEW ring \in Seq(KfState), NEW m \in 1 .. Len(ring),
         NEW posterior \in Int
  PROVE  /\ Corrected(ring, m, posterior) \in Seq(KfState)
         /\ Len(Corrected(ring, m, posterior)) = Len(ring)
         /\ \A i \in 1 .. Len(ring) :
              Corrected(ring, m, posterior)[i].time = ring[i].time
<1> DEFINE fixed == Corrected(ring, m, posterior)
<1>1. Len(ring) \in Nat
  BY LenProperties
<1>2. \A i \in 1 .. Len(ring) :
         ring[i] \in KfState /\ ring[i].time \in Int /\ ring[i].est \in Int
  BY RingEntry
<1>3. fixed \in [1 .. Len(ring) -> KfState]
  BY <1>1, <1>2 DEF Corrected, KfState
<1>4. fixed \in Seq(KfState)
  BY <1>1, <1>3, SeqDef
<1>5. Len(fixed) = Len(ring)
  BY <1>1, <1>3, <1>4, LenProperties
<1>6. \A i \in 1 .. Len(ring) : fixed[i].time = ring[i].time
  BY DEF Corrected
<1> QED
  BY <1>4, <1>5, <1>6

-----------------------------------------------------------------------------
(* The component's invariant, and the operations that keep it              *)

\* NeverAhead is not inductive alone: the next prediction starts from the
\* filter and kf_state_, so they have to agree with each other and with the
\* newest entry.
ImuInv ==
  /\ ImuTypeOK
  /\ RingInOrder
  /\ imu_states = <<>> => imu_start_time = 0 /\ imu_end_time = 0
  /\ imu_busy => imu_states # <<>>
  /\ imu_need_init => imu_states = <<>>
  /\ kf_est = kf_state.est
  /\ FilterAtTail
  /\ NeverAhead

\* The invariant holds of an empty ring.
LEMMA ImuInitInv == ImuInit => ImuInv
<1> SUFFICES ASSUME ImuInit PROVE ImuInv
  OBVIOUS
<1>1. imu_states = <<>> /\ <<>> \in Seq(KfState) /\ Len(<<>>) = 0
  BY EmptySeq DEF ImuInit
<1>2. ImuTypeOK
  <2>1. NoState \in KfState
    BY DEF NoState, KfState
  <2>2. 0 \in 0 .. Rate + 1 /\ 0 <= Rate
    BY ImuAssumption
  <2>3. imu_states \in Seq(KfState) /\ Len(imu_states) <= Rate
    BY <1>1, <2>2
  <2>4. /\ imu_start_time \in Int /\ imu_end_time \in Int
        /\ kf_est \in Int /\ init_iter_num \in 0 .. Rate + 1
    BY <2>2 DEF ImuInit
  <2>5. /\ imu_need_init \in BOOLEAN /\ lidar_ready \in BOOLEAN
        /\ imu_busy \in BOOLEAN
    BY DEF ImuInit
  <2>6. kf_state \in KfState /\ pub_kf_state \in KfState
    BY <2>1 DEF ImuInit
  <2> QED
    BY <2>3, <2>4, <2>5, <2>6 DEF ImuTypeOK
<1> QED
  BY <1>1, <1>2 DEF ImuInit, ImuInv, RingInOrder, Sorted, FilterAtTail,
                    NeverAhead, NoState

\* Averaging touches neither the ring nor its window; setting the state up
\* makes filter and state agree.
LEMMA InitImuInv ==
  ASSUME ImuInv, NEW stamp \in 1 .. MaxTime, InitImu(stamp)
  PROVE  ImuInv' /\ UNCHANGED <<imu_states, imu_start_time>>
<1>1. stamp \in Int /\ imu_states = <<>>
  BY ImuAssumption DEF InitImu, ImuInv
<1>2. ImuTypeOK'
  <2> USE DEF ImuInv, ImuTypeOK, InitImu
  <2>1. init_iter_num' \in 0 .. Rate + 1
    BY ImuAssumption
  <2>2. kf_est' \in Int
    BY <1>1
  <2>3. kf_state' \in KfState
    <3>1. CASE kf_state' = [time |-> stamp, est |-> stamp]
      BY <1>1, <3>1 DEF KfState
    <3>2. CASE kf_state' = kf_state
      BY <3>2
    <3> QED
      BY <3>1, <3>2
  <2>4. imu_need_init' \in BOOLEAN
    OBVIOUS
  <2> QED
    BY <2>1, <2>2, <2>3, <2>4
<1>3. Len(imu_states) = 0
  BY <1>1, EmptySeq
<1>4. kf_est' = kf_state'.est /\ kf_state'.est <= kf_state'.time
  <2>1. CASE kf_state' = [time |-> stamp, est |-> stamp] /\ kf_est' = stamp
    BY <1>1, <2>1
  <2>2. CASE UNCHANGED <<kf_est, kf_state>>
    BY <2>2 DEF ImuInv, NeverAhead
  <2> QED
    BY <2>1, <2>2 DEF InitImu
<1> QED
  BY <1>1, <1>2, <1>3, <1>4
     DEF ImuInv, InitImu, RingInOrder, FilterAtTail, NeverAhead

\* Process: the new entry is predicted from the newest one, so it cannot be
\* ahead of its stamp if that one is not, and it is not older.
LEMMA PropagateInv ==
  ASSUME ImuInv, NEW stamp \in 1 .. MaxTime, PropagateAndPush(stamp)
  PROVE  ImuInv' /\ imu_start_time <= imu_start_time'
<1> DEFINE est == kf_est + (stamp - kf_state.time)
           new == [time |-> stamp, est |-> est]
<1> USE DEF ImuInv
<1>1. /\ stamp \in Int /\ stamp >= 1
      /\ imu_states \in Seq(KfState) /\ Len(imu_states) <= Rate
      /\ kf_est \in Int /\ kf_state \in KfState
      /\ imu_start_time \in Int /\ imu_end_time \in Int
  BY ImuAssumption DEF ImuTypeOK
<1>2. kf_state.time \in Int /\ kf_state.est \in Int
  BY <1>1 DEF KfState
<1>3. est \in Int /\ est <= stamp
  BY <1>1, <1>2 DEF NeverAhead
<1>4. new \in KfState /\ new.time = stamp /\ new.est = est
  BY <1>1, <1>3 DEF KfState
<1> HIDE DEF est
<1>5. /\ kf_est' = est /\ kf_state' = new /\ pub_kf_state' = new
      /\ imu_states' = PushBack(imu_states, new)
      /\ imu_start_time' = imu_states'[1].time
      /\ imu_busy' = TRUE /\ ~imu_busy /\ stamp >= imu_end_time
      /\ UNCHANGED <<imu_end_time, imu_need_init, init_iter_num, lidar_ready>>
  BY DEF PropagateAndPush, Accepts, est
<1> HIDE DEF new
<1>6. /\ imu_states' \in Seq(KfState)
      /\ Len(imu_states') \in 1 .. Rate
      /\ Last(imu_states') = new
  BY <1>1, <1>4, <1>5, PushBackType
<1>7. imu_states' # <<>> /\ Len(imu_states') \in Nat
  BY <1>6, EmptySeq, LenProperties
<1>8. imu_states # <<>> => Last(imu_states).time <= new.time
  BY <1>4, <1>5 DEF RingInOrder
<1>9. /\ Sorted(imu_states')
      /\ imu_states # <<>> => imu_states[1].time <= imu_states'[1].time
  BY <1>1, <1>4, <1>5, <1>8, PushBackSorted DEF RingInOrder
<1>10. imu_states'[1].time \in Int
  BY <1>6, <1>7, RingEntry
<1>11. ImuTypeOK'
  <2>1. imu_states' \in Seq(KfState) /\ Len(imu_states') <= Rate
    BY <1>6, ImuAssumption
  <2>2. imu_start_time' \in Int /\ imu_end_time' \in Int /\ kf_est' \in Int
    BY <1>1, <1>3, <1>5, <1>10
  <2>3. imu_busy' \in BOOLEAN
    BY <1>5
  <2>4. UNCHANGED <<imu_need_init, init_iter_num, lidar_ready>>
    BY <1>5
  <2> QED
    BY <1>4, <1>5, <2>1, <2>2, <2>3, <2>4 DEF ImuTypeOK
<1>12. RingInOrder'
  <2>1. imu_end_time' <= Last(imu_states').time
    BY <1>4, <1>5, <1>6
  <2> QED
    BY <1>5, <1>9, <2>1 DEF RingInOrder
<1>13. FilterAtTail'
  BY <1>4, <1>5, <1>6 DEF FilterAtTail
<1>14. NeverAhead'
  <2>1. kf_state'.est <= kf_state'.time /\ pub_kf_state'.est <= pub_kf_state'.time
    BY <1>3, <1>4, <1>5
  <2>2. \A i \in 1 .. Len(imu_states') :
          imu_states'[i].est <= imu_states'[i].time
    <3>1. \A i \in 1 .. Len(imu_states) :
            imu_states[i].est <= imu_states[i].time
      BY DEF NeverAhead
    <3>2. \A i \in 1 .. Len(imu_states') :
            \/ imu_states'[i] = new
            \/ \E j \in 1 .. Len(imu_states) : imu_states'[i] = imu_states[j]
      BY <1>1, <1>4, <1>5, PushBackEntries
    <3> QED
      BY <1>3, <1>4, <3>1, <3>2
  <2> QED
    BY <2>1, <2>2 DEF NeverAhead
<1>15. imu_start_time <= imu_start_time'
  <2>1. CASE imu_states # <<>>
    BY <1>5, <1>9, <2>1 DEF RingInOrder
  <2>2. CASE imu_states = <<>>
    <3>1. imu_start_time = 0 /\ imu_end_time = 0
      BY <2>2
    <3>2. imu_states'[1] = new
      BY <1>1, <1>4, <1>5, <2>2, PushBackEntries
    <3>3. imu_states'[1].time = stamp
      BY <1>4, <3>2
    <3> QED
      BY <1>1, <1>5, <3>1, <3>3
  <2> QED
    BY <2>1, <2>2
<1>16. ~imu_need_init'
  BY <1>5 DEF PropagateAndPush
<1> QED
  BY <1>4, <1>5, <1>7, <1>11, <1>12, <1>13, <1>14, <1>15, <1>16

\* The window's end catches up with the ring.
LEMMA FinishInv ==
  ASSUME ImuInv, FinishImuCallback
  PROVE  ImuInv' /\ UNCHANGED <<imu_states, imu_start_time>>
<1> USE DEF ImuInv, FinishImuCallback
<1>1. imu_states # <<>>
  OBVIOUS
<1>2. Len(imu_states) \in 1 .. Len(imu_states)
  BY <1>1, EmptySeq DEF ImuTypeOK
<1>3. Last(imu_states).time \in Int
  BY <1>2, RingEntry DEF ImuTypeOK, Last
<1>4. ImuTypeOK'
  BY <1>3 DEF ImuTypeOK
<1>5. RingInOrder'
  BY <1>1, <1>3 DEF RingInOrder
<1>6. FilterAtTail' /\ NeverAhead'
  BY DEF FilterAtTail, NeverAhead
<1> QED
  BY <1>1, <1>4, <1>5, <1>6

\* The callback as a whole; the start of the window never goes back.
LEMMA ImuCallbackInv ==
  ASSUME ImuInv, ImuCallback
  PROVE  ImuInv' /\ imu_start_time <= imu_start_time'
<1>1. imu_start_time \in Int
  BY DEF ImuInv, ImuTypeOK
<1>2. CASE FinishImuCallback
  BY <1>1, <1>2, FinishInv
<1>3. ASSUME NEW stamp \in 1 .. MaxTime, InitImu(stamp)
      PROVE  ImuInv' /\ imu_start_time <= imu_start_time'
  BY <1>1, <1>3, InitImuInv
<1>4. ASSUME NEW stamp \in 1 .. MaxTime, PropagateAndPush(stamp)
      PROVE  ImuInv' /\ imu_start_time <= imu_start_time'
  BY <1>4, PropagateInv
<1> QED
  BY <1>2, <1>3, <1>4 DEF ImuCallback

\* The correction keeps the invariant if the scan was not referred to a later
\* instant than the entry it is written to.
LEMMA ApplyInv ==
  ASSUME ImuInv, NEW m, NEW synced \in KfState, NEW scan_end,
         ApplyLidarUpdate(m, synced, scan_end),
         synced.time <= imu_states[m].time
  PROVE  /\ ImuInv'
         /\ UNCHANGED imu_start_time
         /\ imu_states'[m] \in KfState
<1> USE DEF ImuInv
<1> DEFINE fixed == Corrected(imu_states, m, synced.time)
<1>1. /\ m \in 1 .. Len(imu_states)
      /\ imu_states \in Seq(KfState) /\ Len(imu_states) <= Rate
      /\ synced.time \in Int
  BY DEF ApplyLidarUpdate, TimeMatches, ImuTypeOK, KfState
<1>2. /\ imu_states' = fixed /\ kf_state' = Last(imu_states')
      /\ kf_est' = kf_state'.est /\ pub_kf_state' = kf_state' /\ ~imu_busy
      /\ UNCHANGED <<imu_start_time, imu_end_time, imu_need_init,
                     init_iter_num, lidar_ready, imu_busy>>
  BY DEF ApplyLidarUpdate
<1>3. /\ fixed \in Seq(KfState) /\ Len(fixed) = Len(imu_states)
      /\ \A i \in 1 .. Len(imu_states) : fixed[i].time = imu_states[i].time
  BY <1>1, CorrectedType
<1>4. \A i \in 1 .. Len(imu_states) : fixed[i].est <= fixed[i].time
  <2> SUFFICES ASSUME NEW i \in 1 .. Len(imu_states)
               PROVE  fixed[i].est <= fixed[i].time
    OBVIOUS
  <2>1. imu_states[i].time \in Int /\ imu_states[m].time \in Int
    BY <1>1, RingEntry
  <2>2. CASE i < m
    BY <1>1, <2>2 DEF Corrected, NeverAhead
  <2>3. CASE ~(i < m)
    BY <1>1, <2>1, <2>3 DEF Corrected
  <2> QED
    BY <2>2, <2>3
<1> HIDE DEF fixed
<1>5. /\ Len(imu_states) \in Nat \ {0} /\ imu_states # <<>>
      /\ Len(imu_states') \in 1 .. Len(imu_states')
      /\ 1 \in 1 .. Len(imu_states)
      /\ imu_states' # <<>>
  <2>1. Len(imu_states) \in Nat \ {0}
    BY <1>1, LenProperties
  <2>2. imu_states # <<>> /\ imu_states' # <<>>
    BY <1>1, <1>2, <1>3, <2>1, EmptySeq
  <2> QED
    BY <1>2, <1>3, <2>1, <2>2
<1>6. Last(imu_states') \in KfState
  BY <1>2, <1>3, <1>5, RingEntry DEF Last
<1>7. ImuTypeOK'
  <2>1. /\ imu_states' \in Seq(KfState) /\ Len(imu_states') <= Rate
        /\ kf_state' \in KfState /\ pub_kf_state' \in KfState
    BY <1>1, <1>2, <1>3, <1>6
  <2>2. kf_est' \in Int
    BY <1>2, <1>6 DEF KfState
  <2> QED
    BY <1>2, <2>1, <2>2 DEF ImuTypeOK
<1>8. RingInOrder'
  <2>1. Sorted(imu_states')
    BY <1>2, <1>3 DEF RingInOrder, Sorted
  <2>2. imu_states'[1].time = imu_states[1].time
    BY <1>2, <1>3, <1>5
  <2>3. Last(imu_states').time = Last(imu_states).time
    BY <1>2, <1>3, <1>5 DEF Last
  <2> QED
    BY <1>2, <1>5, <2>1, <2>2, <2>3 DEF RingInOrder
<1>9. FilterAtTail'
  BY <1>2 DEF FilterAtTail
<1>10. NeverAhead'
  <2>1. Last(imu_states').est <= Last(imu_states').time
    BY <1>2, <1>3, <1>4, <1>5 DEF Last
  <2> QED
    BY <1>2, <1>3, <1>4, <2>1 DEF NeverAhead
<1>11. imu_states'[m] \in KfState
  BY <1>1, <1>2, <1>3, RingEntry
<1> QED
  BY <1>2, <1>5, <1>7, <1>8, <1>9, <1>10, <1>11

\* The flag for the initialisation has no part in the invariant.
LEMMA SetLidarReadyInv ==
  ASSUME ImuInv, SetLidarReady
  PROVE  ImuInv' /\ UNCHANGED <<imu_states, imu_start_time>>
<1> USE DEF ImuInv, SetLidarReady
<1>1. ImuTypeOK'
  BY DEF ImuTypeOK
<1>2. RingInOrder' /\ FilterAtTail' /\ NeverAhead'
  BY DEF RingInOrder, FilterAtTail, NeverAhead
<1> QED
  BY <1>1, <1>2

\* Neither has anything else that leaves the component alone.
LEMMA ImuStutterInv ==
  ASSUME ImuInv, UNCHANGED imu_vars
  PROVE  ImuInv' /\ UNCHANGED <<imu_states, imu_start_time>>
<1> USE DEF ImuInv, imu_vars
<1>1. ImuTypeOK'
  BY DEF ImuTypeOK
<1>2. RingInOrder' /\ FilterAtTail' /\ NeverAhead'
  BY DEF RingInOrder, FilterAtTail, NeverAhead
<1> QED
  BY <1>1, <1>2

-----------------------------------------------------------------------------
(* Why the entry a correction is written to is never an earlier one than    *)
(* the scan was referred to, although the ring moved on while the solver    *)
(* ran: s is not later than the newest entry, nor than any entry after t.   *)

NotLater(s, t) ==
  /\ imu_states # <<>>
  /\ s <= Last(imu_states).time
  /\ \A i \in 1 .. Len(imu_states) :
       imu_states[i].time > t => s <= imu_states[i].time

\* A match is such an s when it is found, ...
LEMMA MatchIsNotLater ==
  ASSUME ImuInv, NEW t \in Int, NEW m \in TimeMatches(imu_states, t)
  PROVE  NotLater(imu_states[m].time, t)
<1> USE DEF ImuInv
<1>1. /\ imu_states \in Seq(KfState) /\ m \in 1 .. Len(imu_states)
      /\ IsTimeMatch(imu_states, t, m)
  BY DEF TimeMatches, ImuTypeOK
<1>2. Len(imu_states) \in Nat \ {0} /\ imu_states # <<>>
  BY <1>1, LenProperties, EmptySeq
<1>3. \A i \in 1 .. Len(imu_states) : imu_states[i].time \in Int
  BY <1>1, RingEntry
<1>4. Sorted(imu_states)
  BY DEF RingInOrder
<1>5. imu_states[m].time <= Last(imu_states).time
  BY <1>1, <1>2, <1>4 DEF Sorted, Last
<1>6. ASSUME NEW i \in 1 .. Len(imu_states), imu_states[i].time > t
      PROVE  imu_states[m].time <= imu_states[i].time
  <2>1. CASE imu_states[m].time > t /\ i >= m
    BY <1>1, <1>4, <2>1 DEF Sorted
  <2>2. CASE imu_states[m].time > t /\ ~(i >= m)
    <3>1. m # 1 /\ m - 1 \in 1 .. Len(imu_states) /\ i <= m - 1
      BY <1>1, <1>2, <2>2
    <3>2. imu_states[m - 1].time <= t
      BY <1>1, <2>2, <3>1 DEF IsTimeMatch
    <3>3. imu_states[i].time <= imu_states[m - 1].time
      BY <1>4, <3>1 DEF Sorted
    <3> QED
      BY <1>3, <1>6, <3>1, <3>2, <3>3
  <2>3. CASE ~(imu_states[m].time > t)
    BY <1>1, <1>3, <1>6, <2>3
  <2> QED
    BY <2>1, <2>2, <2>3
<1> QED
  BY <1>2, <1>5, <1>6 DEF NotLater

\* ... stays so whatever the callback pushes, ...
LEMMA NotLaterStable ==
  ASSUME ImuInv, ImuCallback, NEW s \in Int, NEW t \in Int, NotLater(s, t)
  PROVE  NotLater(s, t)'
<1>1. CASE UNCHANGED imu_states
  BY <1>1 DEF NotLater
<1>2. ASSUME NEW stamp \in 1 .. MaxTime, PropagateAndPush(stamp)
      PROVE  NotLater(s, t)'
  <2> DEFINE new == [time |-> stamp, est |-> kf_est + (stamp - kf_state.time)]
  <2>1. /\ imu_states \in Seq(KfState) /\ Len(imu_states) <= Rate
        /\ kf_est \in Int /\ kf_state \in KfState /\ stamp \in Int
    BY ImuAssumption DEF ImuInv, ImuTypeOK
  <2>2. new \in KfState /\ new.time = stamp
    BY <2>1 DEF KfState
  <2>3. imu_states' = PushBack(imu_states, new) /\ stamp >= imu_end_time
        /\ ~imu_busy
    BY <1>2 DEF PropagateAndPush, Accepts
  <2> HIDE DEF new
  <2>4. s <= stamp
    <3>1. imu_states # <<>> /\ s <= Last(imu_states).time
      BY DEF NotLater
    <3>2. Last(imu_states).time = imu_end_time
      BY <2>3, <3>1 DEF ImuInv, RingInOrder
    <3>3. imu_end_time \in Int
      BY DEF ImuInv, ImuTypeOK
    <3> QED
      BY <2>1, <2>3, <3>1, <3>2, <3>3
  <2>5. /\ imu_states' \in Seq(KfState) /\ Len(imu_states') \in 1 .. Rate
        /\ Last(imu_states') = new
    BY <2>1, <2>2, <2>3, PushBackType
  <2>6. imu_states' # <<>>
    BY <2>5, EmptySeq
  <2>7. ASSUME NEW i \in 1 .. Len(imu_states'), imu_states'[i].time > t
        PROVE  s <= imu_states'[i].time
    <3>1. \/ imu_states'[i] = new
          \/ \E j \in 1 .. Len(imu_states) : imu_states'[i] = imu_states[j]
      BY <2>1, <2>2, <2>3, PushBackEntries
    <3> QED
      BY <2>2, <2>4, <2>7, <3>1 DEF NotLater
  <2> QED
    BY <2>2, <2>4, <2>5, <2>6, <2>7 DEF NotLater
<1> QED
  BY <1>1, <1>2 DEF ImuCallback, InitImu, FinishImuCallback

\* ... and so is not later than the match found then.
LEMMA NotLaterThanMatch ==
  ASSUME NEW s, NEW t, NotLater(s, t), NEW m \in TimeMatches(imu_states, t)
  PROVE  s <= imu_states[m].time
BY DEF NotLater, TimeMatches, IsTimeMatch, Last

-----------------------------------------------------------------------------
(* The bins                                                                *)

\* Every point the component still holds
Binned == UNION {bin_pcs[b] : b \in Bins}

\* The cloud comes out of the bins from the moment it is assembled, not only
\* once the flag is up; a point is known by the number of its message.
LidarInv ==
  /\ LidarTypeOK
  /\ IsFiniteSet(Binned)
  /\ \A b \in Bins : \A p \in bin_pcs[b] : p.bin = b
  /\ \A p \in Binned : p.scan <= scans_received
  /\ lidar_busy \/ lidar_has_data => ellipselio_pc \subseteq Binned

\* Bins are finite, so bin_pcs_sizes_ counts them (lidar_processing.cpp:226).
LEMMA BinSizesType ==
  ASSUME LidarInv
  PROVE  BinSizes(bin_pcs) \in [Bins -> Nat]
<1>1. \A b \in Bins : Cardinality(bin_pcs[b]) \in Nat
  <2> TAKE b \in Bins
  <2>1. bin_pcs[b] \subseteq Binned
    BY DEF Binned
  <2> QED
    BY <2>1, FS_Subset, FS_CardinalityType DEF LidarInv
<1> QED
  BY <1>1 DEF BinSizes

\* The invariant holds of empty bins.
LEMMA LidarInitInv == LidarInit => LidarInv
<1> SUFFICES ASSUME LidarInit PROVE LidarInv
  OBVIOUS
<1>1. Binned = {}
  BY DEF LidarInit, Binned
<1>2. LidarTypeOK
  <2>1. bin_pcs \in [Bins -> SUBSET Point] /\ ellipselio_pc \subseteq Point
    BY DEF LidarInit
  <2>2. /\ lidar_start_time \in Int /\ lidar_end_time \in Int
        /\ scans_received \in Nat
    BY DEF LidarInit
  <2>3. /\ lidar_has_data \in BOOLEAN /\ lidar_busy \in BOOLEAN
        /\ late_points \in BOOLEAN /\ lidar_type \in LidarTypes
    BY DEF LidarInit
  <2> QED
    BY <2>1, <2>2, <2>3 DEF LidarTypeOK
<1> QED
  BY <1>1, <1>2, FS_EmptySet DEF LidarInit, LidarInv

\* A message of finitely many returns becomes finitely many points, all new.
LEMMA ConvertedPoints ==
  ASSUME LidarInv, NEW stamp \in 1 .. MaxStamp, NEW shape \in ScanShapes
  PROVE  /\ IsFiniteSet(Converted(stamp, shape))
         /\ Converted(stamp, shape) \subseteq Point
         /\ \A p \in Converted(stamp, shape) : p.scan = scans_received + 1
<1> DEFINE pt(r) == [scan |-> scans_received + 1,
                     t |-> stamp + Shift(stamp) + r.rel, bin |-> r.bin]
           f == [r \in shape |-> pt(r)]
<1>1. IsFiniteSet(shape) /\ shape \subseteq [rel : Int, bin : Bins]
  BY LidarAssumption
<1>2. f \in Surjection(shape, Converted(stamp, shape))
  BY DEF Surjection, Converted
<1>3. IsFiniteSet(Converted(stamp, shape))
  BY <1>1, <1>2, FS_Surjection
<1>4. stamp \in Int /\ scans_received \in Nat /\ lidar_end_time \in Int
  BY LidarAssumption DEF LidarInv, LidarTypeOK
<1>5. Shift(stamp) \in Int
  BY <1>4 DEF Shift
<1>6. \A r \in shape : r.rel \in Int /\ r.bin \in Bins
  BY <1>1
<1>7. \A r \in shape : pt(r) \in Point /\ pt(r).scan = scans_received + 1
  BY <1>4, <1>5, <1>6 DEF Point
<1> QED
  BY <1>3, <1>7 DEF Converted

\* A least or greatest time of a cloud is a time.
LEMMA ExtremeTimes ==
  ASSUME NEW S \in SUBSET Point
  PROVE  Earliest(S) \subseteq Int /\ Latest(S) \subseteq Int
BY DEF Earliest, Latest, Point

\* Filling the bins only adds points of the new message; some older ones go.
LEMMA FillBinsInv ==
  ASSUME LidarInv, NEW stamp \in 1 .. MaxStamp, NEW shape \in ScanShapes,
         FillBins(stamp, shape)
  PROVE  /\ LidarInv'
         /\ scans_received' = scans_received + 1
         /\ \A p \in Binned' :
              p \in Binned \/ (p \in Point /\ p.scan = scans_received')
<1> USE DEF LidarInv
<1>1. PICK kept \in Downsamplings(Converted(stamp, shape)) :
         bin_pcs' = Rebinned(kept)
  BY DEF FillBins
<1>2. /\ IsFiniteSet(kept) /\ kept \subseteq Point
      /\ \A p \in kept : p.scan = scans_received + 1
  <2>1. kept \in SUBSET Converted(stamp, shape)
    BY DEF Downsamplings
  <2> QED
    BY <2>1, ConvertedPoints, FS_Subset
<1>3. \A b \in Bins : /\ bin_pcs'[b] \subseteq bin_pcs[b] \cup kept
                      /\ \A p \in bin_pcs'[b] : p.bin = b
  BY <1>1 DEF Rebinned
<1>4. Binned' \subseteq Binned \cup kept
  BY <1>3 DEF Binned
<1>5. IsFiniteSet(Binned')
  BY <1>2, <1>4, FS_Union, FS_Subset
<1>6. bin_pcs' \in [Bins -> SUBSET Point]
  <2>1. \A b \in Bins : bin_pcs'[b] \subseteq Point
    BY <1>2, <1>3 DEF LidarTypeOK
  <2> QED
    BY <1>1, <2>1 DEF Rebinned
<1>7. ellipselio_pc' \subseteq Binned' /\ ellipselio_pc' \subseteq Point
  <2>1. ellipselio_pc' = UNION {bin_pcs'[b] : b \in Assembled(bin_pcs')}
    BY DEF FillBins
  <2>2. Assembled(bin_pcs') \subseteq Bins
    BY DEF Assembled
  <2> QED
    BY <1>6, <2>1, <2>2 DEF Binned
<1>8. lidar_start_time' \in Int /\ lidar_end_time' \in Int
  <2>1. CASE UNCHANGED <<lidar_start_time, lidar_end_time>>
    BY <2>1 DEF LidarTypeOK
  <2>2. ASSUME NEW b \in FirstAssembled(bin_pcs'),
               lidar_start_time' \in Earliest(bin_pcs'[b]),
               lidar_end_time' \in Latest(bin_pcs'[b])
        PROVE  lidar_start_time' \in Int /\ lidar_end_time' \in Int
    <3>1. bin_pcs'[b] \in SUBSET Point
      BY <1>6 DEF FirstAssembled, Assembled
    <3> QED
      BY <2>2, <3>1, ExtremeTimes
  <2> QED
    BY <2>1, <2>2 DEF FillBins
<1>9. /\ scans_received' = scans_received + 1 /\ scans_received \in Nat
      /\ lidar_busy' = TRUE /\ UNCHANGED <<lidar_type, lidar_has_data>>
      /\ late_points' \in BOOLEAN
  BY DEF FillBins, LidarTypeOK
<1>10. LidarTypeOK'
  BY <1>6, <1>7, <1>8, <1>9 DEF LidarTypeOK
<1>11. \A p \in Binned' :
         \/ p \in Binned /\ p.scan <= scans_received
         \/ p \in Point /\ p.scan = scans_received'
  BY <1>2, <1>4, <1>9
<1>12. \A p \in Binned' : p.scan <= scans_received'
  <2> SUFFICES ASSUME NEW p \in Binned' PROVE p.scan <= scans_received'
    OBVIOUS
  <2>1. p \in Point
    BY <1>6 DEF Binned
  <2>2. p.scan \in Nat
    BY <2>1 DEF Point
  <2> QED
    BY <1>9, <1>11, <2>2
<1> QED
  BY <1>3, <1>5, <1>7, <1>9, <1>10, <1>11, <1>12

\* The end of the callback raises the flag over the cloud assembled from the
\* bins.
LEMMA FinishLidarInv ==
  ASSUME LidarInv, FinishLidarCallback
  PROVE  LidarInv' /\ UNCHANGED <<bin_pcs, scans_received>>
<1> USE DEF LidarInv, FinishLidarCallback
<1>1. lidar_start_time' \in Int /\ lidar_end_time' \in Int
  BY ExtremeTimes DEF LidarTypeOK
<1>2. LidarTypeOK'
  BY <1>1 DEF LidarTypeOK
<1>3. Binned' = Binned
  BY DEF Binned
<1> QED
  BY <1>2, <1>3

\* Emptying the bins takes the flag down, so the cloud left behind is never
\* handed over.
LEMMA EmptyBinsInv ==
  ASSUME LidarInv, EmptyBins
  PROVE  LidarInv' /\ Binned' = {} /\ UNCHANGED scans_received
<1> USE DEF LidarInv, EmptyBins
<1>1. Binned' = {}
  BY DEF Binned, NoPoints
<1>2. LidarTypeOK'
  BY DEF LidarTypeOK, NoPoints
<1> QED
  BY <1>1, <1>2, FS_EmptySet DEF NoPoints

\* A step of another component leaves the invariant and the points held.
LEMMA LidarStutterInv ==
  ASSUME LidarInv, UNCHANGED lidar_vars
  PROVE  LidarInv' /\ Binned' = Binned /\ UNCHANGED scans_received
<1>1. Binned' = Binned
  BY DEF Binned, lidar_vars
<1> QED
  BY <1>1 DEF LidarInv, LidarTypeOK, lidar_vars

\* What the callback does to the points in the bins, in one statement
LEMMA LidarCallbackInv ==
  ASSUME LidarInv, LidarCallback
  PROVE  /\ LidarInv'
         /\ \/ /\ scans_received' = scans_received + 1
               /\ \A p \in Binned' :
                    p \in Binned \/ (p \in Point /\ p.scan = scans_received')
            \/ UNCHANGED scans_received /\ Binned' = Binned
<1>1. CASE FinishLidarCallback
  BY <1>1, FinishLidarInv DEF Binned
<1>2. ASSUME NEW stamp \in 1 .. MaxStamp, NEW shape \in ScanShapes,
             FillBins(stamp, shape)
      PROVE  /\ LidarInv'
             /\ scans_received' = scans_received + 1
             /\ \A p \in Binned' :
                  p \in Binned \/ (p \in Point /\ p.scan = scans_received')
  BY <1>2, FillBinsInv
<1> QED
  BY <1>1, <1>2 DEF LidarCallback
-----------------------------------------------------------------------------
(* The times of the points, while messages are on time                      *)

\* A message on time brings no point from before the end of the scan before
\* it: its points are moved on if its stamp is too early, and the end only
\* moves to the time of a point in the bins (lidar_processing.cpp:94-102,
\* 175-183).
LEMMA FillBinsTimes ==
  ASSUME LidarInv, NEW stamp \in 1 .. MaxStamp, NEW shape \in ScanShapes,
         FillBins(stamp, shape), ~late_points'
  PROVE  /\ \A p \in Binned' : p \in Binned \/ lidar_end_time <= p.t
         /\ \/ UNCHANGED lidar_end_time
            \/ \E p \in Binned' : lidar_end_time' = p.t
<1>1. PICK kept \in Downsamplings(Converted(stamp, shape)) :
         bin_pcs' = Rebinned(kept)
  BY DEF FillBins
<1>2. \A p \in Binned' : p \in Binned \/ p \in Converted(stamp, shape)
  <2>1. kept \subseteq Converted(stamp, shape)
    BY DEF Downsamplings
  <2> QED
    BY <1>1, <2>1 DEF Binned, Rebinned
<1>3. \A p \in Converted(stamp, shape) : lidar_end_time <= p.t
  <2>1. /\ stamp \in Int /\ lidar_end_time \in Int
        /\ shape \subseteq [rel : Int, bin : Bins]
    BY LidarAssumption DEF LidarInv, LidarTypeOK
  <2>2. /\ Shift(stamp) \in Nat
        /\ RelativeTime => lidar_end_time <= stamp + Shift(stamp)
    BY <2>1 DEF Shift
  <2>3. OnTime(stamp, shape)
    BY DEF FillBins
  <2>4. ASSUME NEW r \in shape
        PROVE  lidar_end_time <= stamp + Shift(stamp) + r.rel
    <3>1. r.rel \in Int
      BY <2>1
    <3>2. (RelativeTime /\ r.rel >= 0) \/ stamp + r.rel >= lidar_end_time
      BY <2>3 DEF OnTime
    <3> QED
      BY <2>1, <2>2, <3>1, <3>2
  <2> QED
    BY <2>4 DEF Converted
<1>4. \/ UNCHANGED lidar_end_time
      \/ \E p \in Binned' : lidar_end_time' = p.t
  <2>1. ASSUME NEW b \in FirstAssembled(bin_pcs'),
               lidar_end_time' \in Latest(bin_pcs'[b])
        PROVE  \E p \in Binned' : lidar_end_time' = p.t
    <3>1. bin_pcs'[b] \subseteq Binned'
      BY DEF Binned, FirstAssembled, Assembled
    <3> QED
      BY <2>1, <3>1 DEF Latest
  <2> QED
    BY <2>1 DEF FillBins
<1> QED
  BY <1>2, <1>3, <1>4

\* When the callback frees the mutex the interval it leaves is that of the
\* whole cloud (lidar_processing.cpp:183-193).
LEMMA FinishLidarTimes ==
  ASSUME LidarInv, FinishLidarCallback
  PROVE  /\ \A p \in ellipselio_pc :
              lidar_start_time' <= p.t /\ p.t <= lidar_end_time'
         /\ \/ UNCHANGED lidar_end_time
            \/ \E p \in Binned : lidar_end_time' = p.t
<1>1. ellipselio_pc \subseteq Binned
  BY DEF LidarInv, FinishLidarCallback
<1>2. CASE ellipselio_pc = {}
  BY <1>2 DEF FinishLidarCallback
<1>3. CASE ellipselio_pc # {}
  BY <1>1, <1>3 DEF FinishLidarCallback, Earliest, Latest
<1> QED
  BY <1>2, <1>3

\* The two together
LEMMA LidarCallbackTimes ==
  ASSUME LidarInv, LidarCallback, ~late_points'
  PROVE  /\ \A p \in Binned' : p \in Binned \/ lidar_end_time <= p.t
         /\ \/ UNCHANGED lidar_end_time
            \/ \E p \in Binned' : lidar_end_time' = p.t
         /\ ~lidar_busy' => \A p \in ellipselio_pc' :
              lidar_start_time' <= p.t /\ p.t <= lidar_end_time'
<1>1. CASE FinishLidarCallback
  <2>1. Binned' = Binned /\ ellipselio_pc' = ellipselio_pc
    BY <1>1 DEF FinishLidarCallback, Binned
  <2> QED
    BY <1>1, <2>1, FinishLidarTimes
<1>2. ASSUME NEW stamp \in 1 .. MaxStamp, NEW shape \in ScanShapes,
             FillBins(stamp, shape)
      PROVE  /\ \A p \in Binned' : p \in Binned \/ lidar_end_time <= p.t
             /\ \/ UNCHANGED lidar_end_time
                \/ \E p \in Binned' : lidar_end_time' = p.t
             /\ lidar_busy'
  <2>1. lidar_busy'
    BY <1>2 DEF FillBins
  <2> QED
    BY <1>2, <2>1, FillBinsTimes
<1> QED
  BY <1>1, <1>2 DEF LidarCallback

-----------------------------------------------------------------------------
(* The node: what it knows                                                 *)

CloudTypes ==
  /\ raw_cloud \subseteq Point /\ raw_cloud_bins \in BinCounts
  /\ buffer_cloud \subseteq Point /\ buffer_cloud_bins \in BinCounts
  /\ raw_start_time \in Int /\ raw_end_time \in Int
  /\ buffer_start_time \in Int /\ buffer_end_time \in Int

ScanTypes ==
  /\ scan_cloud \subseteq Point /\ scan_cloud_bins \in BinCounts
  /\ scan_start_time \in Int /\ scan_end_time \in Int

RoundTypes ==
  /\ loop_pc \in Locations
  /\ window \in [start : Int, end : Int]
  /\ last_imu_time \in Int
  /\ synced_imu_states \in Seq(KfState)
  /\ loop_kf_state \in KfState
  /\ map_counter \in 0 .. 1
  /\ mapped \subseteq Point

FiniteClouds ==
  /\ IsFiniteSet(raw_cloud)
  /\ IsFiniteSet(buffer_cloud)
  /\ IsFiniteSet(scan_cloud)

\* The state the loop took, or may take, from its copy of the ring is not
\* later than the entry the end of the scan matches in the ring itself, now
\* or after any message to come.
CarriedNotLater ==
  /\ At("undistort") =>
       \A m \in TimeMatches(synced_imu_states, scan_end_time) :
         NotLater(synced_imu_states[m].time, scan_end_time)
  /\ At("update") => NotLater(loop_kf_state.time, scan_end_time)

IInv ==
  /\ ImuInv
  /\ LidarInv
  /\ CloudTypes
  /\ ScanTypes
  /\ RoundTypes
  /\ FiniteClouds
  /\ CarriedNotLater

-----------------------------------------------------------------------------
(* Counts of points by bin                                                 *)

\* Counts add up to counts (map_processing.cpp:1300).
LEMMA AddCountsType ==
  ASSUME NEW c \in BinCounts, NEW d \in BinCounts
  PROVE  AddCounts(c, d) \in BinCounts
BY DEF AddCounts, BinCounts

\* setZero gives counts (map_processing.cpp:1302).
LEMMA NoCountsType == NoCounts \in BinCounts
BY DEF NoCounts, BinCounts

\* The points of a finite cloud can be counted by bin (map_processing.cpp:1313-1345).
LEMMA CountBinsType ==
  ASSUME NEW S, IsFiniteSet(S)
  PROVE  CountBins(S) \in BinCounts
<1>1. \A b \in Bins : Cardinality({p \in S : p.bin = b}) \in Nat
  <2> TAKE b \in Bins
  <2>1. {p \in S : p.bin = b} \subseteq S
    OBVIOUS
  <2> QED
    BY <2>1, FS_Subset, FS_CardinalityType
<1> QED
  BY <1>1 DEF CountBins, BinCounts

-----------------------------------------------------------------------------
(* The inductive invariant                                                 *)

\* The node starts with empty clouds and no counts.
LEMMA InitIInv == Init => IInv
<1> SUFFICES ASSUME Init PROVE IInv
  OBVIOUS
<1>1. ImuInv /\ LidarInv
  BY ImuInitInv, LidarInitInv DEF Init
<1>2. CloudTypes /\ ScanTypes
  BY NoCountsType DEF Init, CloudTypes, ScanTypes
<1>3. RoundTypes
  <2>1. NoState \in KfState
    BY DEF NoState, KfState
  <2>2. synced_imu_states \in Seq(KfState)
    BY EmptySeq DEF Init
  <2>3. window \in [start : Int, end : Int]
    BY DEF Init, NoWindow
  <2> QED
    BY <2>1, <2>2, <2>3 DEF Init, RoundTypes, Locations
<1>4. FiniteClouds
  BY FS_EmptySet DEF Init, FiniteClouds
<1>5. CarriedNotLater
  BY DEF Init, CarriedNotLater, At
<1> QED
  BY <1>1, <1>2, <1>3, <1>4, <1>5 DEF IInv

\* What the sensors do, the loop standing still
LEMMA SensorsIInv ==
  ASSUME IInv, Sensors
  PROVE  IInv'
<1> USE DEF IInv
<1>1. UNCHANGED loop_vars
  BY DEF Sensors
<1>2. CloudTypes' /\ ScanTypes' /\ RoundTypes' /\ FiniteClouds'
  BY <1>1 DEF loop_vars, cloud_vars, scan_vars, round_vars, map_vars,
              CloudTypes, ScanTypes, RoundTypes, FiniteClouds
<1>3. CASE ImuCallback /\ UNCHANGED lidar_vars
  <2>1. ImuInv' /\ LidarInv'
    BY <1>3, ImuCallbackInv, LidarStutterInv
  <2>2. scan_end_time \in Int
    BY DEF ScanTypes
  <2>3. \A s \in Int : NotLater(s, scan_end_time)
                         => NotLater(s, scan_end_time)'
    BY <1>3, <2>2, <1>1, NotLaterStable DEF loop_vars, scan_vars
  <2>4. \A m \in TimeMatches(synced_imu_states, scan_end_time) :
          synced_imu_states[m].time \in Int
    BY RingEntry DEF TimeMatches, RoundTypes
  <2>5. loop_kf_state.time \in Int
    BY DEF RoundTypes, KfState
  <2>6. CarriedNotLater'
    BY <1>1, <2>3, <2>4, <2>5 DEF CarriedNotLater, At, loop_vars, scan_vars,
                                  round_vars
  <2> QED
    BY <1>2, <2>1, <2>6
<1>4. CASE LidarCallback /\ UNCHANGED imu_vars
  <2>1. ImuInv' /\ LidarInv'
    BY <1>4, LidarCallbackInv, ImuStutterInv
  <2>2. CarriedNotLater'
    BY <1>1, <1>4 DEF CarriedNotLater, NotLater, At, loop_vars, scan_vars,
                      round_vars, imu_vars
  <2> QED
    BY <1>2, <2>1, <2>2
<1> QED
  BY <1>3, <1>4 DEF Sensors

\* A step of the loop that leaves the sensors alone keeps their invariants.
LEMMA SensorsStand ==
  ASSUME IInv, UNCHANGED <<imu_vars, lidar_vars>>
  PROVE  ImuInv' /\ LidarInv'
BY ImuStutterInv, LidarStutterInv DEF IInv

\* The steps of SyncPackages before the synchronisation
LEMMA SyncPackagesIInv ==
  ASSUME IInv,
         \/ StartRound \/ CheckImuFresh \/ CheckLidarStart \/ DropEarlyScan
         \/ TakeScan \/ NoScanToTake \/ ReadWindowStart \/ ReadWindowEnd
         \/ JudgeWindow
  PROVE  IInv'
<1> USE DEF IInv
<1>1. /\ imu_start_time \in Int /\ imu_end_time \in Int
      /\ lidar_start_time \in Int /\ lidar_end_time \in Int
  BY DEF ImuInv, ImuTypeOK, LidarInv, LidarTypeOK
<1>2. ImuInv'
  <2>1. CASE StartRound
    BY <2>1, SetLidarReadyInv DEF StartRound
  <2>2. CASE ~StartRound
    <3>1. UNCHANGED imu_vars
      BY <2>2 DEF CheckImuFresh, CheckLidarStart, DropEarlyScan, TakeScan,
                  NoScanToTake, ReadWindowStart, ReadWindowEnd, JudgeWindow,
                  ReadsOnly
    <3> QED
      BY <3>1, ImuStutterInv
  <2> QED
    BY <2>1, <2>2
<1>3. LidarInv'
  <2>1. CASE EmptyBins
    BY <2>1, EmptyBinsInv
  <2>2. CASE UNCHANGED lidar_vars
    BY <2>2, LidarStutterInv
  <2> QED
    BY <2>1, <2>2 DEF StartRound, CheckImuFresh, CheckLidarStart,
         DropEarlyScan, TakeScan, NoScanToTake, ReadWindowStart,
         ReadWindowEnd, JudgeWindow, ReadsOnly, ClearPointCloud
<1>4. CloudTypes' /\ FiniteClouds'
  <2>1. CASE TakeScan
    <3>1. ellipselio_pc \subseteq Point /\ IsFiniteSet(ellipselio_pc)
      BY <2>1, FS_Subset DEF TakeScan, LidarInv, LidarTypeOK
    <3>2. raw_cloud_bins' \in BinCounts
      BY <2>1, BinSizesType, AddCountsType
      DEF TakeScan, CloudTypes, BinCounts
    <3>3. raw_start_time' \in Int /\ raw_end_time' \in Int
      BY <1>1, <2>1 DEF TakeScan, StartOfRaw, CloudTypes
    <3>4. IsFiniteSet(raw_cloud')
      BY <2>1, <3>1, FS_Union DEF TakeScan, FiniteClouds
    <3> QED
      BY <2>1, <3>1, <3>2, <3>3, <3>4
      DEF TakeScan, CloudTypes, FiniteClouds, scan_vars
  <2>2. CASE JudgeWindow
    <3>1. buffer_cloud' \in {{}, buffer_cloud}
      BY <2>2 DEF JudgeWindow
    <3> QED
      BY <2>2, <3>1, FS_EmptySet DEF JudgeWindow, CloudTypes, FiniteClouds
  <2>3. CASE ~TakeScan /\ ~JudgeWindow
    <3>1. UNCHANGED <<cloud_vars, scan_vars>>
      BY <2>3 DEF StartRound, CheckImuFresh, CheckLidarStart, DropEarlyScan,
                  NoScanToTake, ReadWindowStart, ReadWindowEnd, ReadsOnly
    <3> QED
      BY <3>1 DEF CloudTypes, FiniteClouds, cloud_vars, scan_vars
  <2> QED
    BY <2>1, <2>2, <2>3
<1>5. ScanTypes'
  <2>1. CASE JudgeWindow
    <3>1. PendingStart \in Int /\ PendingEnd \in Int /\ window.start \in Int
      BY DEF PendingStart, PendingEnd, CloudTypes, RoundTypes
    <3> QED
      BY <2>1, <3>1 DEF JudgeWindow, ScanTypes
  <2>2. CASE ~JudgeWindow
    <3>1. UNCHANGED scan_vars
      BY <2>2 DEF StartRound, CheckImuFresh, CheckLidarStart, DropEarlyScan,
                  TakeScan, NoScanToTake, ReadWindowStart, ReadWindowEnd,
                  ReadsOnly
    <3> QED
      BY <3>1 DEF ScanTypes, scan_vars
  <2> QED
    BY <2>1, <2>2
<1>6. loop_pc' \in Locations \ {"undistort", "update"}
  BY DEF GoTo, Locations, StartRound, CheckImuFresh, CheckLidarStart,
         DropEarlyScan, TakeScan, NoScanToTake, ReadWindowStart,
         ReadWindowEnd, JudgeWindow
<1>7. RoundTypes'
  <2>1. window' \in [start : Int, end : Int] /\ last_imu_time' \in Int
    BY <1>1 DEF StartRound, CheckImuFresh, CheckLidarStart,
         DropEarlyScan, TakeScan, NoScanToTake, ReadWindowStart,
         ReadWindowEnd, JudgeWindow, ReadsOnly, round_vars, RoundTypes
  <2>2. UNCHANGED <<synced_imu_states, loop_kf_state, map_vars>>
    BY DEF StartRound, CheckImuFresh, CheckLidarStart,
         DropEarlyScan, TakeScan, NoScanToTake, ReadWindowStart,
         ReadWindowEnd, JudgeWindow, ReadsOnly, round_vars
  <2> QED
    BY <1>6, <2>1, <2>2 DEF RoundTypes, map_vars
<1>8. CarriedNotLater'
  BY <1>6 DEF CarriedNotLater, At
<1> QED
  BY <1>2, <1>3, <1>4, <1>5, <1>7, <1>8

\* The synchronisation: a match found in the copy is not late, for the copy
\* is the ring.
LEMMA SyncIInv ==
  ASSUME IInv, SyncWhole \/ SyncSplit
  PROVE  IInv'
<1> USE DEF IInv
<1>1. SyncWithLidar /\ UNCHANGED <<imu_vars, lidar_vars>>
  BY DEF SyncWhole, SyncSplit, SyncWithLidar
<1>2. ImuInv' /\ LidarInv'
  BY <1>1, SensorsStand
<1>3. /\ imu_start_time \in Int /\ imu_end_time \in Int
      /\ imu_states \in Seq(KfState)
  BY DEF ImuInv, ImuTypeOK
<1>4. PendingStart \in Int /\ PendingEnd \in Int
  BY DEF PendingStart, PendingEnd, CloudTypes
<1>5. /\ scan_start_time' \in Int /\ scan_end_time' \in Int
      /\ buffer_start_time' \in Int /\ buffer_end_time' \in Int
  BY <1>3, <1>4 DEF SyncWhole, SyncSplit, CloudTypes
<1>6. /\ scan_cloud' \subseteq buffer_cloud \cup raw_cloud
      /\ buffer_cloud' \subseteq buffer_cloud \cup raw_cloud
  BY DEF SyncWhole, SyncSplit
<1>7. IsFiniteSet(buffer_cloud \cup raw_cloud)
  BY FS_Union DEF FiniteClouds
<1>8. IsFiniteSet(scan_cloud') /\ IsFiniteSet(buffer_cloud')
  BY <1>6, <1>7, FS_Subset
<1>9. scan_cloud_bins' \in BinCounts /\ buffer_cloud_bins' \in BinCounts
  BY <1>8, CountBinsType, AddCountsType, NoCountsType
  DEF SyncWhole, SyncSplit, CloudTypes
<1>10. raw_cloud' = {} /\ raw_cloud_bins' = NoCounts
       /\ raw_start_time' = 0 /\ raw_end_time' = 0
  BY <1>1 DEF SyncWithLidar
<1>11. CloudTypes' /\ ScanTypes' /\ FiniteClouds'
  BY <1>5, <1>6, <1>8, <1>9, <1>10, NoCountsType, FS_EmptySet
  DEF CloudTypes, ScanTypes, FiniteClouds
<1>12. RoundTypes'
  BY <1>1, <1>3 DEF SyncWithLidar, GoTo, Locations, RoundTypes, map_vars
<1>13. \A m \in TimeMatches(imu_states, scan_end_time') :
         NotLater(imu_states[m].time, scan_end_time')
  BY <1>5, MatchIsNotLater
<1>14. CarriedNotLater'
  <2>1. /\ synced_imu_states' = imu_states /\ imu_states' = imu_states
        /\ loop_pc' = "undistort"
    BY <1>1 DEF SyncWithLidar, GoTo, imu_vars
  <2> QED
    BY <1>13, <2>1 DEF CarriedNotLater, At, NotLater
<1> QED
  BY <1>2, <1>11, <1>12, <1>14

\* Deskewing finds its match in the copy of the ring, which gives CarriedNotLater.
LEMMA UndistortIInv ==
  ASSUME IInv, UndistortPointCloud
  PROVE  IInv'
<1> USE DEF IInv, UndistortPointCloud
<1>1. ImuInv' /\ LidarInv'
  BY SensorsStand
<1>2. CloudTypes' /\ ScanTypes' /\ FiniteClouds'
  BY DEF CloudTypes, ScanTypes, FiniteClouds, cloud_vars, scan_vars
<1>3. PICK m \in TimeMatches(synced_imu_states, scan_end_time) :
         loop_kf_state' = synced_imu_states[m]
  OBVIOUS
<1>4. loop_kf_state' \in KfState
  BY <1>3, RingEntry DEF TimeMatches, RoundTypes
<1>5. loop_pc' \in {"map", "update"}
  BY DEF GoTo
<1>6. RoundTypes'
  BY <1>4, <1>5 DEF RoundTypes, Locations, map_vars
<1>7. NotLater(loop_kf_state'.time, scan_end_time)
  BY <1>3 DEF CarriedNotLater
<1>8. CarriedNotLater'
  BY <1>5, <1>7 DEF CarriedNotLater, At, NotLater, imu_vars, scan_vars
<1> QED
  BY <1>1, <1>2, <1>6, <1>8

\* The correction: what the loop carries is not later than the entry it
\* writes to, so the correction may leave states behind their stamps only.
LEMMA UpdateIInv ==
  ASSUME IInv, UpdateStatesWithLidar
  PROVE  IInv' /\ UNCHANGED <<imu_start_time, lidar_vars>>
<1> USE DEF IInv
<1>1. PICK m \in TimeMatches(imu_states, scan_end_time) :
        /\ ApplyLidarUpdate(m, loop_kf_state, scan_end_time)
        /\ loop_kf_state' = imu_states'[m]
  BY DEF UpdateStatesWithLidar
<1>2. loop_kf_state \in KfState
  BY DEF RoundTypes
<1>3. loop_kf_state.time <= imu_states[m].time
  BY NotLaterThanMatch DEF UpdateStatesWithLidar, CarriedNotLater
<1>4. ImuInv' /\ UNCHANGED imu_start_time /\ loop_kf_state' \in KfState
  BY <1>1, <1>2, <1>3, ApplyInv
<1>5. LidarInv' /\ UNCHANGED lidar_vars
  BY LidarStutterInv DEF UpdateStatesWithLidar
<1>6. CloudTypes' /\ ScanTypes' /\ FiniteClouds'
  BY DEF UpdateStatesWithLidar, CloudTypes, ScanTypes, FiniteClouds,
         cloud_vars, scan_vars
<1>7. loop_pc' = "map"
  BY DEF UpdateStatesWithLidar, GoTo
<1>8. RoundTypes' /\ CarriedNotLater'
  BY <1>4, <1>7 DEF UpdateStatesWithLidar, RoundTypes, Locations, map_vars,
                    CarriedNotLater, At
<1> QED
  BY <1>4, <1>5, <1>6, <1>8

\* Mapping takes points of the scan only and ends the round.
LEMMA MapIInv ==
  ASSUME IInv, MapIncremental
  PROVE  IInv'
<1> USE DEF IInv, MapIncremental
<1>1. ImuInv' /\ LidarInv'
  BY SensorsStand
<1>2. CloudTypes' /\ ScanTypes' /\ FiniteClouds'
  BY DEF CloudTypes, ScanTypes, FiniteClouds, cloud_vars, scan_vars
<1>3. mapped' \subseteq Point
  BY DEF RoundTypes, ScanTypes
<1>4. RoundTypes' /\ CarriedNotLater'
  BY <1>3 DEF RoundTypes, Locations, GoTo, round_vars, CarriedNotLater, At
<1> QED
  BY <1>1, <1>2, <1>4

\* Every step of the loop and of the callbacks keeps the invariant.
LEMMA NextIInv == IInv /\ [Next]_vars => IInv'
<1> SUFFICES ASSUME IInv, [Next]_vars PROVE IInv'
  OBVIOUS
<1>1. CASE UNCHANGED vars
  <2>1. ImuInv' /\ LidarInv'
    BY <1>1, SensorsStand DEF vars
  <2> QED
    BY <1>1, <2>1 DEF IInv, vars, loop_vars, cloud_vars, scan_vars,
         round_vars, map_vars, imu_vars, CloudTypes, ScanTypes, RoundTypes,
         FiniteClouds, CarriedNotLater, At, NotLater
<1>2. CASE Sensors
  BY <1>2, SensorsIInv
<1>3. CASE Loop
  BY <1>3, SyncPackagesIInv, SyncIInv, UndistortIInv, UpdateIInv, MapIInv
  DEF Loop
<1> QED
  BY <1>1, <1>2, <1>3 DEF Next

\* The invariant holds in every state of every behaviour.
LEMMA Inductive == Spec => []IInv
BY InitIInv, NextIInv, PTL DEF Spec

-----------------------------------------------------------------------------
(* The theorems                                                            *)

\* Every variable stays in its type: the ring never outgrows its capacity,
\* and the counts of every cloud's bins stay natural numbers although they
\* are added up from finite sets only.
THEOREM NodeTypeOK == Spec => []TypeOK
<1>1. IInv => TypeOK
  BY DEF IInv, ImuInv, LidarInv, CloudTypes, ScanTypes, RoundTypes, TypeOK
<1> QED
  BY <1>1, Inductive, PTL

\* Filter, published state and newest ring entry agree whenever the mutex is
\* free (imu_processing.cpp:82-108, 350-396).
THEOREM NodeFilterAtTail == Spec => []FilterAtTail
<1>1. IInv => FilterAtTail
  BY DEF IInv, ImuInv
<1> QED
  BY <1>1, Inductive, PTL

\* However long the solver takes and however far the ring moves on meanwhile,
\* the correction leaves no state ahead of its stamp
\* (imu_processing.cpp:329-397).
THEOREM NodeNeverAhead == Spec => []NeverAhead
<1>1. IInv => NeverAhead
  BY DEF IInv, ImuInv
<1> QED
  BY <1>1, Inductive, PTL

\* The ring is in time order and the unlocked window claims nothing it does
\* not hold (imu_processing.cpp:46-109).
THEOREM NodeRingInOrder == Spec => []RingInOrder
<1>1. IInv => RingInOrder
  BY DEF IInv, ImuInv
<1> QED
  BY <1>1, Inductive, PTL

\* While the flag is up the cloud is in the bins, so a scan is handed over
\* whole and once (lidar_processing.cpp:175-233).
THEOREM NodeCloudIsInBins == Spec => []CloudIsInBins
<1>1. IInv => CloudIsInBins
  BY DEF IInv, LidarInv, CloudIsInBins, Binned
<1> QED
  BY <1>1, Inductive, PTL

\* The start of the IMU window never moves back: only the callback moves it,
\* and it drops the oldest entry first.
LEMMA WindowMovesOn ==
  ASSUME IInv, [Next]_vars
  PROVE  imu_start_time <= imu_start_time'
<1>1. imu_start_time \in Int
  BY DEF IInv, ImuInv, ImuTypeOK
<1>2. CASE ImuCallback
  BY <1>2, ImuCallbackInv DEF IInv
<1>3. CASE UNCHANGED imu_start_time
  BY <1>1, <1>3
<1>4. CASE UpdateStatesWithLidar
  BY <1>1, <1>4, UpdateIInv
<1> QED
  BY <1>2, <1>3, <1>4
  DEF Next, Loop, Sensors, vars, imu_vars, StartRound, SetLidarReady,
      CheckImuFresh, CheckLidarStart, DropEarlyScan, TakeScan, NoScanToTake,
      ReadWindowStart, ReadWindowEnd, JudgeWindow, ReadsOnly, SyncWhole,
      SyncSplit, SyncWithLidar, UndistortPointCloud, MapIncremental

\* In a wedged round the test against the window's start always fails, and
\* what it clears is not the raw cloud.
LEMMA WedgedStep ==
  ASSUME IInv, [Next]_vars, Wedged
  PROVE  Wedged' /\ UNCHANGED map_vars
<1> DEFINE before == {"idle", "imu_fresh", "lidar_start", "clear", "take",
                      "window_start"}
           after == {"window_end", "window_seen"}
<1>1. /\ raw_start_time \in Int /\ buffer_start_time \in Int
      /\ imu_start_time \in Int /\ imu_start_time' \in Int
      /\ window \in [start : Int, end : Int]
  BY NextIInv DEF IInv, ImuInv, ImuTypeOK, CloudTypes, RoundTypes
<1>2. /\ raw_cloud # {} /\ raw_start_time < imu_start_time
      /\ buffer_cloud # {} => buffer_start_time <= raw_start_time
      /\ loop_pc \in before \/ (loop_pc \in after /\ raw_start_time < window.start)
  BY DEF Wedged
<1>3. raw_start_time < imu_start_time'
  BY <1>1, <1>2, WindowMovesOn
<1>4. CASE UNCHANGED loop_vars
  BY <1>2, <1>3, <1>4 DEF Wedged, loop_vars, cloud_vars, round_vars, map_vars
<1>5. CASE StartRound \/ CheckImuFresh \/ CheckLidarStart \/ DropEarlyScan
           \/ NoScanToTake
  <2>1. UNCHANGED <<cloud_vars, map_vars>> /\ loop_pc' \in before
    BY <1>2, <1>5 DEF StartRound, CheckImuFresh, CheckLidarStart,
         DropEarlyScan, NoScanToTake, ReadsOnly, GoTo
  <2> QED
    BY <1>2, <1>3, <2>1 DEF Wedged, cloud_vars
<1>6. CASE TakeScan
  <2>1. /\ raw_cloud' # {} /\ raw_start_time' = raw_start_time
        /\ UNCHANGED <<buffer_cloud, buffer_start_time, map_vars>>
    BY <1>2, <1>6 DEF TakeScan, StartOfRaw
  <2>2. loop_pc' = "window_start"
    BY <1>6, <2>1 DEF TakeScan, GoTo
  <2> QED
    BY <1>2, <1>3, <2>1, <2>2 DEF Wedged
<1>7. CASE ReadWindowStart
  <2>1. /\ UNCHANGED <<cloud_vars, map_vars>> /\ loop_pc' = "window_end"
        /\ window'.start = imu_start_time
    BY <1>1, <1>7 DEF ReadWindowStart, GoTo
  <2> QED
    BY <1>2, <1>3, <2>1 DEF Wedged, cloud_vars
<1>8. CASE ReadWindowEnd
  <2>1. loop_pc = "window_end"
    BY <1>8 DEF ReadWindowEnd, At
  <2>2. /\ UNCHANGED <<cloud_vars, map_vars>> /\ loop_pc' = "window_seen"
        /\ window'.start = window.start
    BY <1>1, <1>8 DEF ReadWindowEnd, GoTo
  <2> QED
    BY <1>2, <1>3, <2>1, <2>2 DEF Wedged, cloud_vars
<1>9. CASE JudgeWindow
  <2>1. loop_pc = "window_seen"
    BY <1>9 DEF JudgeWindow, At
  <2>2. window.start > PendingStart
    BY <1>1, <1>2, <2>1 DEF PendingStart
  <2>3. /\ buffer_cloud' = {} /\ loop_pc' = "idle"
        /\ UNCHANGED <<raw_cloud, raw_start_time, map_vars>>
    BY <1>9, <2>2 DEF JudgeWindow, GoTo
  <2> QED
    BY <1>2, <1>3, <2>3 DEF Wedged
<1>10. ~(SyncWhole \/ SyncSplit \/ UndistortPointCloud
         \/ UpdateStatesWithLidar \/ MapIncremental)
  BY <1>2 DEF SyncWhole, SyncSplit, SyncWithLidar, UndistortPointCloud,
              UpdateStatesWithLidar, MapIncremental, At
<1> QED
  BY <1>4, <1>5, <1>6, <1>7, <1>8, <1>9, <1>10
  DEF Next, Loop, Sensors, vars

\* Once the oldest raw point is older than the IMU window no scan is ever
\* registered or mapped again, whatever the sensors send
\* (map_processing.cpp:74-80).
THEOREM NodeWedgeIsPermanent == Spec => WedgeIsPermanent
<1>1. IInv /\ [Next]_vars => [Wedged => Wedged' /\ UNCHANGED map_vars]_vars
  BY WedgedStep
<1> QED
  BY <1>1, Inductive, PTL DEF Spec, WedgeIsPermanent

-----------------------------------------------------------------------------
(* The bins' sizes                                                         *)

OfBin(S, b) == {p \in S : p.bin = b}

\* Counting a finite cloud by bin (map_processing.cpp:1313-1345)
LEMMA OfBinCount ==
  ASSUME NEW S, IsFiniteSet(S), NEW b \in Bins
  PROVE  /\ IsFiniteSet(OfBin(S, b))
         /\ Cardinality(OfBin(S, b)) \in Nat
         /\ CountBins(S)[b] = Cardinality(OfBin(S, b))
<1>1. OfBin(S, b) \subseteq S
  BY DEF OfBin
<1> QED
  BY <1>1, FS_Subset, FS_CardinalityType DEF OfBin, CountBins

\* Sizes that cover two clouds cover their union when added up, whether the
\* clouds share points or not (map_processing.cpp:1300).
LEMMA CoverUnion ==
  ASSUME NEW S, NEW T, IsFiniteSet(S), IsFiniteSet(T),
         NEW c \in BinCounts, NEW d \in BinCounts,
         CountsCover(c, S), CountsCover(d, T)
  PROVE  CountsCover(AddCounts(c, d), S \cup T)
<1> SUFFICES ASSUME NEW b \in Bins
             PROVE  CountBins(S \cup T)[b] <= AddCounts(c, d)[b]
  BY DEF CountsCover
<1> DEFINE U == S \cup T
           nS == Cardinality(OfBin(S, b))
           nT == Cardinality(OfBin(T, b))
<1>1. IsFiniteSet(U)
  BY FS_Union
<1>2. OfBin(U, b) = OfBin(S, b) \cup OfBin(T, b)
  BY DEF OfBin
<1> HIDE DEF U
<1>3. /\ IsFiniteSet(OfBin(S, b)) /\ nS \in Nat /\ CountBins(S)[b] = nS
      /\ IsFiniteSet(OfBin(T, b)) /\ nT \in Nat /\ CountBins(T)[b] = nT
      /\ CountBins(U)[b] = Cardinality(OfBin(U, b))
  BY <1>1, OfBinCount
<1>4. /\ Cardinality(OfBin(S, b) \cap OfBin(T, b)) \in Nat
      /\ Cardinality(OfBin(U, b))
           = nS + nT - Cardinality(OfBin(S, b) \cap OfBin(T, b))
  BY <1>2, <1>3, FS_Union, FS_Intersection, FS_CardinalityType
<1>5. CountBins(S)[b] <= c[b] /\ CountBins(T)[b] <= d[b]
  BY DEF CountsCover
<1>6. AddCounts(c, d)[b] = c[b] + d[b] /\ c[b] \in Nat /\ d[b] \in Nat
  BY DEF AddCounts, BinCounts
<1> HIDE DEF nS, nT
<1>7. CountBins(U)[b] <= AddCounts(c, d)[b]
  BY <1>3, <1>4, <1>5, <1>6
<1> QED
  BY <1>7 DEF U

\* An empty cloud is covered by any sizes, a counted cloud by its counts.
LEMMA CoverTrivially ==
  /\ \A c \in BinCounts : CountsCover(c, {})
  /\ \A S : CountsCover(CountBins(S), S) \/ ~IsFiniteSet(S)
<1>1. ASSUME NEW c \in BinCounts PROVE CountsCover(c, {})
  <2>1. \A b \in Bins : CountBins({})[b] = Cardinality({})
    <3> TAKE b \in Bins
    <3>1. OfBin({}, b) = {}
      BY DEF OfBin
    <3> QED
      BY <3>1, FS_EmptySet, OfBinCount
  <2>2. \A b \in Bins : 0 <= c[b]
    BY DEF BinCounts
  <2> QED
    BY <2>1, <2>2, FS_EmptySet DEF CountsCover
<1>2. ASSUME NEW S, IsFiniteSet(S) PROVE CountsCover(CountBins(S), S)
  <2>1. \A b \in Bins : CountBins(S)[b] \in Nat
    BY <1>2, OfBinCount
  <2> QED
    BY <2>1 DEF CountsCover
<1> QED
  BY <1>1, <1>2

\* The points GetPointCloud hands over are covered by the sizes that go with
\* them: each is still in its bin (lidar_processing.cpp:175-192, 226-227).
LEMMA SizesCoverCloud ==
  ASSUME LidarInv, lidar_has_data
  PROVE  /\ CountsCover(BinSizes(bin_pcs), ellipselio_pc)
         /\ IsFiniteSet(ellipselio_pc)
<1> USE DEF LidarInv
<1>1. IsFiniteSet(ellipselio_pc)
  BY FS_Subset
<1>2. ASSUME NEW b \in Bins
      PROVE  CountBins(ellipselio_pc)[b] <= BinSizes(bin_pcs)[b]
  <2>1. IsFiniteSet(bin_pcs[b])
    <3>1. bin_pcs[b] \subseteq Binned
      BY DEF Binned
    <3> QED
      BY <3>1, FS_Subset
  <2>2. OfBin(ellipselio_pc, b) \subseteq bin_pcs[b]
    BY DEF OfBin, Binned
  <2>3. Cardinality(OfBin(ellipselio_pc, b)) <= Cardinality(bin_pcs[b])
    BY <2>1, <2>2, FS_Subset
  <2>4. CountBins(ellipselio_pc)[b] = Cardinality(OfBin(ellipselio_pc, b))
    BY <1>1, OfBinCount
  <2>5. BinSizes(bin_pcs)[b] = Cardinality(bin_pcs[b])
    BY DEF BinSizes
  <2> QED
    BY <2>3, <2>4, <2>5
<1> QED
  BY <1>1, <1>2 DEF CountsCover

\* Every step keeps every cloud covered.
LEMMA CoverStep ==
  ASSUME IInv, [Next]_vars, BinsNeverUndercount
  PROVE  BinsNeverUndercount'
<1> USE DEF BinsNeverUndercount
<1>1. /\ raw_cloud_bins \in BinCounts /\ buffer_cloud_bins \in BinCounts
      /\ IsFiniteSet(raw_cloud) /\ IsFiniteSet(buffer_cloud)
  BY DEF IInv, CloudTypes, FiniteClouds
<1>2. CASE UNCHANGED <<raw_cloud, raw_cloud_bins, buffer_cloud,
                       buffer_cloud_bins, scan_cloud, scan_cloud_bins>>
  BY <1>2 DEF CountsCover, CountBins
<1>3. CASE TakeScan
  <2>1. /\ CountsCover(BinSizes(bin_pcs), ellipselio_pc)
        /\ IsFiniteSet(ellipselio_pc)
        /\ BinSizes(bin_pcs) \in BinCounts
    BY <1>3, SizesCoverCloud, BinSizesType DEF TakeScan, IInv, BinCounts
  <2>2. CountsCover(raw_cloud_bins, raw_cloud)'
    BY <1>1, <1>3, <2>1, CoverUnion DEF TakeScan, CountsCover, CountBins
  <2> QED
    BY <1>3, <2>2 DEF TakeScan, scan_vars, CountsCover, CountBins
<1>4. CASE JudgeWindow
  <2>1. CountsCover(buffer_cloud_bins, buffer_cloud)'
    BY <1>1, <1>4, CoverTrivially DEF JudgeWindow, CountsCover, CountBins
  <2> QED
    BY <1>4, <2>1 DEF JudgeWindow, CountsCover, CountBins
<1>5. CASE SyncWhole
  <2>1. CountsCover(AddCounts(buffer_cloud_bins, raw_cloud_bins),
                    buffer_cloud \cup raw_cloud)
    BY <1>1, CoverUnion
  <2>2. CountsCover(NoCounts, {})
    BY NoCountsType, CoverTrivially
  <2> QED
    BY <1>5, <2>1, <2>2 DEF SyncWhole, SyncWithLidar, CountsCover, CountBins
<1>6. CASE SyncSplit
  <2>1. IsFiniteSet(scan_cloud') /\ IsFiniteSet(buffer_cloud')
    BY <1>6, SyncIInv DEF IInv, FiniteClouds
  <2>2. /\ CountsCover(CountBins(scan_cloud'), scan_cloud')
        /\ CountsCover(CountBins(buffer_cloud'), buffer_cloud')
        /\ CountsCover(NoCounts, {})
    BY <2>1, NoCountsType, CoverTrivially
  <2> QED
    BY <1>6, <2>2 DEF SyncSplit, SyncWithLidar, CountsCover, CountBins
<1> QED
  BY <1>2, <1>3, <1>4, <1>5, <1>6
  DEF Next, Loop, Sensors, vars, loop_vars, cloud_vars, scan_vars, StartRound,
      CheckImuFresh, CheckLidarStart, DropEarlyScan, NoScanToTake,
      ReadWindowStart, ReadWindowEnd, ReadsOnly, UndistortPointCloud,
      UpdateStatesWithLidar, MapIncremental

\* The sizes that go with the raw, the left-over and the scan's cloud are never
\* too small for it, for any number of bins, scans and rounds
\* (lidar_processing.cpp:226-227, map_processing.cpp:78, 1300-1302, 1345-1346).
\* It is a lower bound: sizes that are too large occur.
THEOREM NodeBinsNeverUndercount == Spec => []BinsNeverUndercount
<1>1. Init => BinsNeverUndercount
  BY NoCountsType, CoverTrivially
  DEF Init, BinsNeverUndercount, CountsCover, CountBins
<1>2. IInv /\ [Next]_vars /\ BinsNeverUndercount => BinsNeverUndercount'
  BY CoverStep
<1> QED
  BY <1>1, <1>2, Inductive, PTL DEF Spec

-----------------------------------------------------------------------------
(* The order of the points in time.  It is there while messages are on      *)
(* time, for which LidarProcess moves a scan on that would start before the *)
(* end of the last one, if its points are timed relative to its stamp.      *)

InWork == IF loop_pc \in {"undistort", "update", "map"} THEN scan_cloud ELSE {}

Waiting == raw_cloud \cup buffer_cloud

Taken == Waiting \cup InWork \cup mapped

Before(S, T) == \A p \in S, q \in T : p.t <= q.t

\* The points are passed on in time order, and no later one than the end of
\* the interval LidarProcess shows is among those taken from it.
OrderInv ==
  /\ Before(Taken, Binned)
  /\ \A p \in Taken : p.t <= lidar_end_time
  /\ Before(mapped, Waiting \cup InWork)
  /\ Before(InWork, Waiting)

\* The intervals hold the points they are kept for.  A left-over interval is
\* that of the raw points too, as far as its start goes, and a raw one that of
\* the left-overs, as far as its end goes.
EndsInv ==
  /\ ~lidar_busy => \A p \in ellipselio_pc :
                      lidar_start_time <= p.t /\ p.t <= lidar_end_time
  /\ \A p \in raw_cloud : raw_start_time <= p.t
  /\ raw_cloud # {} => \A p \in Waiting : p.t <= raw_end_time
  /\ buffer_cloud # {} => \A p \in Waiting : buffer_start_time <= p.t
  /\ \A p \in buffer_cloud : p.t <= buffer_end_time

\* The loop gets past the test for fresh IMU data only when the ring holds
\* some.
FreshInv ==
  imu_states = <<>> => last_imu_time = 0 /\ loop_pc \in {"idle", "imu_fresh"}

\* What UndistortWithinImu says of the scan being undistorted
WithinImu ==
  At("undistort") =>
    /\ synced_imu_states # <<>>
    /\ \A p \in scan_cloud : /\ synced_imu_states[1].time <= p.t
                             /\ p.t <= Last(synced_imu_states).time

TimeInv == OrderInv /\ EndsInv /\ FreshInv /\ WithinImu

\* The times the comparisons are between are integers.
LEMMA Times ==
  ASSUME IInv
  PROVE  /\ \A p \in Taken \cup Binned \cup ellipselio_pc : p.t \in Int
         /\ lidar_start_time \in Int /\ lidar_end_time \in Int
         /\ raw_start_time \in Int /\ raw_end_time \in Int
         /\ buffer_start_time \in Int /\ buffer_end_time \in Int
         /\ imu_start_time \in Int /\ imu_end_time \in Int
         /\ last_imu_time \in Int
<1>1. Taken \cup Binned \cup ellipselio_pc \subseteq Point
  BY DEF IInv, CloudTypes, ScanTypes, RoundTypes, LidarInv, LidarTypeOK,
         Taken, Waiting, InWork, Binned
<1>2. \A p \in Point : p.t \in Int
  BY DEF Point
<1> QED
  BY <1>1, <1>2 DEF IInv, CloudTypes, RoundTypes, LidarInv, LidarTypeOK,
                    ImuInv, ImuTypeOK

\* The ring never empties again (imu_processing.cpp:46-109, 329-397).
LEMMA RingStays ==
  ASSUME IInv, [Next]_vars, imu_states # <<>>
  PROVE  imu_states' # <<>>
<1>1. CASE ImuCallback
  <2>1. ASSUME NEW stamp \in 1 .. MaxTime, PropagateAndPush(stamp)
        PROVE  imu_states' # <<>>
    <3>1. imu_busy' /\ ImuInv'
      BY <2>1, PropagateInv DEF PropagateAndPush, IInv
    <3> QED
      BY <3>1 DEF ImuInv
  <2> QED
    BY <1>1, <2>1 DEF ImuCallback, InitImu, FinishImuCallback
<1>2. CASE UpdateStatesWithLidar
  <2>1. /\ imu_states' = [i \in 1 .. Len(imu_states) |-> imu_states'[i]]
        /\ imu_states \in Seq(KfState)
    BY <1>2 DEF UpdateStatesWithLidar, ApplyLidarUpdate, Corrected, IInv,
                ImuInv, ImuTypeOK
  <2>2. Len(imu_states) \in Nat \ {0}
    BY <2>1, LenProperties, EmptySeq
  <2>3. 1 \in DOMAIN imu_states'
    BY <2>1, <2>2
  <2> QED
    BY <2>3
<1>3. CASE UNCHANGED imu_states
  BY <1>3
<1> QED
  BY <1>1, <1>2, <1>3
  DEF Next, Loop, Sensors, vars, imu_vars, StartRound, SetLidarReady,
      CheckImuFresh, CheckLidarStart, DropEarlyScan, TakeScan, NoScanToTake,
      ReadWindowStart, ReadWindowEnd, JudgeWindow, ReadsOnly, SyncWhole,
      SyncSplit, SyncWithLidar, UndistortPointCloud, MapIncremental

\* ... so the loop is never past that test with an empty one.
LEMMA FreshStep ==
  ASSUME IInv, [Next]_vars, FreshInv
  PROVE  FreshInv'
<1> SUFFICES ASSUME imu_states' = <<>>
             PROVE  last_imu_time' = 0 /\ loop_pc' \in {"idle", "imu_fresh"}
  BY DEF FreshInv
<1>1. /\ imu_states = <<>> /\ last_imu_time = 0
      /\ loop_pc \in {"idle", "imu_fresh"}
  BY RingStays DEF FreshInv
<1>2. imu_end_time = 0
  BY <1>1 DEF IInv, ImuInv
<1>3. CASE StartRound
  BY <1>1, <1>3 DEF StartRound, GoTo
<1>4. CASE CheckImuFresh
  BY <1>1, <1>2, <1>4 DEF CheckImuFresh, GoTo, ReadsOnly
<1>5. CASE UNCHANGED loop_vars
  BY <1>1, <1>5 DEF loop_vars
<1> QED
  BY <1>1, <1>3, <1>4, <1>5
  DEF Next, Loop, Sensors, vars, At, CheckLidarStart, DropEarlyScan, TakeScan,
      NoScanToTake, ReadWindowStart, ReadWindowEnd, JudgeWindow, SyncWhole,
      SyncSplit, SyncWithLidar, UndistortPointCloud, UpdateStatesWithLidar,
      MapIncremental

Working == loop_pc \in {"undistort", "update", "map"}

\* Steps that move no point.  Of the steps that leave the loop working on the
\* scan, or leave it not working, only the synchronisation leads to
\* "undistort".
LEMMA QuietStep ==
  ASSUME OrderInv, EndsInv,
         UNCHANGED <<lidar_vars, cloud_vars, scan_vars, map_vars>>,
         Working' = Working
  PROVE  OrderInv' /\ EndsInv'
<1>1. UNCHANGED <<Binned, Taken, Waiting, InWork>>
  BY DEF lidar_vars, cloud_vars, scan_vars, map_vars, Binned, Taken, Waiting,
         InWork, Working
<1> QED
  BY <1>1 DEF OrderInv, EndsInv, Before, lidar_vars, cloud_vars, scan_vars,
              map_vars

\* The callback of the LiDAR brings later points than any taken before, if
\* they are on time.
LEMMA LidarTimeStep ==
  ASSUME IInv, OrderInv, EndsInv, LidarCallback, ~late_points',
         UNCHANGED <<imu_vars, loop_vars>>
  PROVE  OrderInv' /\ EndsInv'
<1>1. UNCHANGED <<Taken, Waiting, InWork, mapped>>
  BY DEF loop_vars, cloud_vars, scan_vars, map_vars, Taken, Waiting, InWork
<1>2. /\ \A p \in Binned' : p \in Binned \/ lidar_end_time <= p.t
      /\ \/ UNCHANGED lidar_end_time
         \/ \E p \in Binned' : lidar_end_time' = p.t
      /\ ~lidar_busy' => \A p \in ellipselio_pc' :
           lidar_start_time' <= p.t /\ p.t <= lidar_end_time'
  BY LidarCallbackTimes DEF IInv
<1>3. /\ \A p \in Taken : p.t \in Int
      /\ lidar_end_time \in Int
      /\ \A p \in Binned' : p.t \in Int
  <2>1. LidarInv'
    BY LidarCallbackInv DEF IInv
  <2>2. Binned' \subseteq Point
    BY <2>1 DEF LidarInv, LidarTypeOK, Binned
  <2> QED
    BY <2>2, Times DEF Point
<1>4. ASSUME NEW p \in Taken, NEW q \in Binned' PROVE p.t <= q.t
  <2>1. p.t <= lidar_end_time
    BY DEF OrderInv
  <2>2. CASE q \in Binned
    BY <2>2 DEF OrderInv, Before
  <2>3. CASE lidar_end_time <= q.t
    BY <1>3, <2>1, <2>3
  <2> QED
    BY <1>2, <2>2, <2>3
<1>5. \A p \in Taken : p.t <= lidar_end_time'
  BY <1>2, <1>4 DEF OrderInv
<1>6. OrderInv'
  BY <1>1, <1>4, <1>5 DEF OrderInv, Before
<1>7. UNCHANGED <<raw_cloud, raw_start_time, raw_end_time, buffer_cloud,
                  buffer_start_time, buffer_end_time>>
  BY DEF loop_vars, cloud_vars
<1>8. EndsInv'
  BY <1>1, <1>2, <1>7 DEF EndsInv
<1> QED
  BY <1>6, <1>8

\* Taking LidarProcess's points, which are later than those taken before and
\* within its interval
LEMMA TakeTimeStep ==
  ASSUME IInv, OrderInv, EndsInv, TakeScan
  PROVE  OrderInv' /\ EndsInv'
<1>1. /\ ~lidar_busy /\ ellipselio_pc \subseteq Binned
      /\ InWork = {} /\ InWork' = {} /\ Binned' = {}
  BY EmptyBinsInv DEF TakeScan, EmptyBins, InWork, At, GoTo, IInv, LidarInv
<1>2. /\ raw_cloud' = raw_cloud \cup ellipselio_pc
      /\ raw_end_time' = lidar_end_time /\ raw_start_time' = StartOfRaw
      /\ UNCHANGED <<buffer_cloud, buffer_start_time, buffer_end_time, mapped,
                     ellipselio_pc, lidar_start_time, lidar_end_time,
                     lidar_busy>>
  BY DEF TakeScan, EmptyBins, map_vars
<1>3. /\ \A p \in Taken \cup ellipselio_pc : p.t \in Int
      /\ lidar_start_time \in Int /\ lidar_end_time \in Int
      /\ raw_start_time \in Int /\ buffer_start_time \in Int
  BY Times
<1>4. \A p \in ellipselio_pc :
        lidar_start_time <= p.t /\ p.t <= lidar_end_time
  BY <1>1 DEF EndsInv
<1>5. \A p \in Taken, q \in ellipselio_pc : p.t <= q.t
  BY <1>1 DEF OrderInv, Before
<1>6. /\ Waiting' = Waiting \cup ellipselio_pc
      /\ Taken' = Taken \cup ellipselio_pc
      /\ raw_cloud \subseteq Waiting /\ buffer_cloud \subseteq Waiting
      /\ Waiting \subseteq Taken /\ mapped \subseteq Taken
  BY <1>1, <1>2 DEF Waiting, Taken
<1>7. \A p \in Taken' : p.t <= lidar_end_time
  BY <1>4, <1>6 DEF OrderInv
<1>8. Before(mapped, Waiting')
  BY <1>5, <1>6 DEF OrderInv, Before
<1>9. OrderInv'
  BY <1>1, <1>2, <1>7, <1>8 DEF OrderInv, Before
<1>10. \A p \in raw_cloud' : raw_start_time' <= p.t
  <2>1. CASE raw_cloud = {}
    BY <1>2, <1>4, <2>1 DEF StartOfRaw
  <2>2. ASSUME NEW r \in raw_cloud, NEW p \in ellipselio_pc
        PROVE  raw_start_time <= p.t
    <3>1. raw_start_time <= r.t /\ r.t <= p.t /\ r.t \in Int /\ p.t \in Int
      BY <1>3, <1>5, <1>6 DEF EndsInv
    <3> QED
      BY <1>3, <3>1
  <2> QED
    BY <1>2, <2>1, <2>2 DEF StartOfRaw, EndsInv
<1>11. buffer_cloud # {} => \A p \in Waiting' : buffer_start_time <= p.t
  <2>1. ASSUME NEW r \in buffer_cloud, NEW p \in ellipselio_pc
        PROVE  buffer_start_time <= p.t
    <3>1. /\ buffer_start_time <= r.t /\ r.t <= p.t
          /\ r.t \in Int /\ p.t \in Int
      BY <1>3, <1>5, <1>6 DEF EndsInv
    <3> QED
      BY <1>3, <3>1
  <2> QED
    BY <1>6, <2>1 DEF EndsInv
<1>12. EndsInv'
  <2>1. \A p \in Waiting' : p.t <= raw_end_time'
    BY <1>2, <1>6, <1>7
  <2> QED
    BY <1>2, <1>4, <1>10, <1>11, <2>1 DEF EndsInv
<1> QED
  BY <1>9, <1>12

\* Dropping a scan or the left-overs
LEMMA DropTimeStep ==
  ASSUME IInv, OrderInv, EndsInv, DropEarlyScan \/ JudgeWindow
  PROVE  OrderInv' /\ EndsInv'
<1>1. CASE DropEarlyScan
  <2>1. /\ Binned' = {} /\ InWork = {} /\ InWork' = {}
        /\ UNCHANGED <<Waiting, raw_cloud, raw_start_time, raw_end_time,
                       buffer_cloud, buffer_start_time, buffer_end_time,
                       mapped, ellipselio_pc, lidar_start_time,
                       lidar_end_time, lidar_busy>>
    BY <1>1, EmptyBinsInv DEF DropEarlyScan, ClearPointCloud, EmptyBins, InWork,
       At, GoTo, IInv, Waiting, cloud_vars, map_vars
  <2>2. OrderInv'
    BY <2>1 DEF OrderInv, Before, Taken
  <2>3. EndsInv'
    BY <2>1 DEF EndsInv
  <2> QED
    BY <2>2, <2>3
<1>2. CASE JudgeWindow
  <2>1. /\ InWork = {} /\ InWork' = {}
        /\ buffer_cloud' \in {{}, buffer_cloud}
        /\ UNCHANGED <<Binned, raw_cloud, raw_start_time, raw_end_time,
                       buffer_start_time, buffer_end_time,
                       mapped, ellipselio_pc, lidar_start_time,
                       lidar_end_time, lidar_busy>>
    BY <1>2 DEF JudgeWindow, InWork, At, GoTo, Binned, lidar_vars, map_vars
  <2>2. Waiting' \subseteq Waiting /\ Taken' \subseteq Taken
    BY <2>1 DEF Waiting, Taken
  <2>3. OrderInv'
    BY <2>1, <2>2 DEF OrderInv, Before
  <2>4. EndsInv'
    BY <2>1, <2>2 DEF EndsInv
  <2> QED
    BY <2>3, <2>4
<1> QED
  BY <1>1, <1>2

\* The interval of the points in hand holds them all (map_processing.cpp:65-73).
LEMMA PendingHoldsAll ==
  ASSUME EndsInv
  PROVE  \A p \in Waiting : PendingStart <= p.t /\ p.t <= PendingEnd
<1> SUFFICES ASSUME NEW p \in Waiting
             PROVE  PendingStart <= p.t /\ p.t <= PendingEnd
  OBVIOUS
<1>1. p \in raw_cloud \/ p \in buffer_cloud
  BY DEF Waiting
<1>2. PendingStart <= p.t
  BY <1>1 DEF EndsInv, PendingStart
<1>3. p.t <= PendingEnd
  BY <1>1 DEF EndsInv, PendingEnd
<1> QED
  BY <1>2, <1>3

\* What the synchronisation does to the points, in both its branches: the scan
\* is made of points in hand within the IMU data, what is left over is later.
LEMMA SyncSplitsInTime ==
  ASSUME IInv, EndsInv, SyncWhole \/ SyncSplit
  PROVE  /\ scan_cloud' \subseteq Waiting /\ buffer_cloud' \subseteq Waiting
         /\ raw_cloud' = {}
         /\ \A p \in scan_cloud' : imu_start_time <= p.t /\ p.t <= imu_end_time
         /\ \A p \in scan_cloud', q \in buffer_cloud' : p.t <= q.t
         /\ \A p \in buffer_cloud' : /\ buffer_start_time' <= p.t
                                     /\ p.t <= buffer_end_time'
<1>1. /\ \A p \in Waiting : p.t \in Int
      /\ imu_start_time \in Int /\ imu_end_time \in Int
      /\ PendingStart \in Int /\ PendingEnd \in Int
  BY Times DEF Taken, PendingStart, PendingEnd
<1>2. \A p \in Waiting : PendingStart <= p.t /\ p.t <= PendingEnd
  BY PendingHoldsAll
<1>3. raw_cloud' = {}
  BY DEF SyncWhole, SyncSplit, SyncWithLidar
<1>4. CASE SyncWhole
  <2>1. /\ scan_cloud' = Waiting /\ buffer_cloud' = {}
        /\ imu_start_time < PendingStart /\ imu_end_time > PendingEnd
    BY <1>4 DEF SyncWhole, Waiting, IsBracketed
  <2>2. \A p \in Waiting : imu_start_time <= p.t /\ p.t <= imu_end_time
    BY <1>1, <1>2, <2>1
  <2> QED
    BY <1>3, <2>1, <2>2
<1>5. CASE SyncSplit
  <2> DEFINE from == scan_start_time'
             to == scan_end_time'
  <2>1. /\ scan_cloud' = {p \in Waiting : from <= p.t /\ p.t <= to}
        /\ buffer_cloud' = {p \in Waiting : from <= p.t /\ p.t > to}
    <3>1. \A p \in Waiting : p.t >= from <=> from <= p.t
      BY <1>1, <1>5 DEF SyncSplit
    <3> QED
      BY <1>5, <3>1 DEF SyncSplit, Waiting
  <2>2. /\ from \in Int /\ imu_start_time <= from
        /\ to \in Int /\ to <= imu_end_time
    BY <1>1, <1>5 DEF SyncSplit
  <2>3. CASE imu_end_time < PendingEnd
    <3>1. /\ to = imu_end_time /\ buffer_start_time' = imu_end_time
          /\ buffer_end_time' = PendingEnd
      BY <1>5, <2>3 DEF SyncSplit
    <3> HIDE DEF from, to
    <3> QED
      BY <1>1, <1>2, <1>3, <2>1, <2>2, <3>1
  <2>4. CASE ~(imu_end_time < PendingEnd)
    <3>1. to = PendingEnd
      BY <1>5, <2>4 DEF SyncSplit
    <3> HIDE DEF from, to
    <3>2. buffer_cloud' = {}
      BY <1>1, <1>2, <2>1, <2>2, <3>1
    <3> QED
      BY <1>1, <1>2, <1>3, <2>1, <2>2, <3>2
  <2> QED
    BY <2>3, <2>4
<1> QED
  BY <1>4, <1>5

\* The synchronisation keeps the order, and its scan is within the copy of the
\* ring it takes.
LEMMA SyncTimeStep ==
  ASSUME IInv, TimeInv, SyncWhole \/ SyncSplit
  PROVE  OrderInv' /\ EndsInv' /\ WithinImu'
<1> USE DEF TimeInv
<1>1. SyncWithLidar /\ At("sync") /\ ~imu_busy
  BY DEF SyncWhole, SyncSplit, SyncWithLidar
<1>2. /\ synced_imu_states' = imu_states /\ loop_pc' = "undistort"
      /\ UNCHANGED <<Binned, mapped, ellipselio_pc, lidar_start_time,
                     lidar_end_time, lidar_busy>>
  BY <1>1 DEF SyncWithLidar, GoTo, lidar_vars, map_vars, Binned
<1>3. /\ InWork = {} /\ InWork' = scan_cloud'
  BY <1>1, <1>2 DEF InWork, At
<1>4. /\ scan_cloud' \subseteq Waiting /\ buffer_cloud' \subseteq Waiting
      /\ raw_cloud' = {}
      /\ \A p \in scan_cloud' : imu_start_time <= p.t /\ p.t <= imu_end_time
      /\ \A p \in scan_cloud', q \in buffer_cloud' : p.t <= q.t
      /\ \A p \in buffer_cloud' : /\ buffer_start_time' <= p.t
                                  /\ p.t <= buffer_end_time'
  BY SyncSplitsInTime
<1>5. /\ Waiting' = buffer_cloud'
      /\ Waiting' \subseteq Waiting /\ InWork' \subseteq Waiting
      /\ Taken' \subseteq Taken
  BY <1>2, <1>3, <1>4 DEF Waiting, Taken
<1>6. OrderInv'
  BY <1>2, <1>3, <1>4, <1>5 DEF OrderInv, Before
<1>7. EndsInv'
  BY <1>2, <1>4, <1>5 DEF EndsInv
<1>8. /\ imu_states # <<>>
      /\ imu_start_time = imu_states[1].time
      /\ imu_end_time = Last(imu_states).time
  BY <1>1 DEF FreshInv, At, IInv, ImuInv, RingInOrder
<1>9. WithinImu'
  BY <1>2, <1>4, <1>8 DEF WithinImu, Last
<1> QED
  BY <1>6, <1>7, <1>9

\* The scan goes to the map, and with it the last points of before those that
\* wait.
LEMMA MapTimeStep ==
  ASSUME OrderInv, EndsInv, MapIncremental
  PROVE  OrderInv' /\ EndsInv'
<1>1. /\ InWork = scan_cloud /\ InWork' = {}
      /\ mapped' \subseteq mapped \cup scan_cloud
      /\ UNCHANGED <<Binned, Waiting, raw_cloud, raw_start_time, raw_end_time,
                     buffer_cloud, buffer_start_time, buffer_end_time,
                     ellipselio_pc, lidar_start_time, lidar_end_time,
                     lidar_busy>>
  BY DEF MapIncremental, InWork, At, GoTo, Binned, Waiting, lidar_vars,
         cloud_vars
<1>2. Taken' \subseteq Taken
  BY <1>1 DEF Taken
<1>3. OrderInv'
  BY <1>1, <1>2 DEF OrderInv, Before
<1>4. EndsInv'
  BY <1>1 DEF EndsInv
<1> QED
  BY <1>3, <1>4

\* Every step keeps the order, if it brings no late point.
LEMMA TimeStep ==
  ASSUME IInv, TimeInv, [Next]_vars, ~late_points'
  PROVE  TimeInv'
<1>1. FreshInv'
  BY FreshStep DEF TimeInv
<1> USE DEF TimeInv
<1>2. CASE LidarCallback /\ UNCHANGED <<imu_vars, loop_vars>>
  <2>1. OrderInv' /\ EndsInv'
    BY <1>2, LidarTimeStep
  <2> QED
    BY <1>1, <1>2, <2>1 DEF WithinImu, Last, At, loop_vars, scan_vars,
                            round_vars
<1>3. CASE TakeScan
  <2>1. loop_pc' # "undistort"
    BY <1>3 DEF TakeScan, GoTo
  <2> QED
    BY <1>1, <1>3, <2>1, TakeTimeStep DEF WithinImu, At
<1>4. CASE DropEarlyScan \/ JudgeWindow
  <2>1. loop_pc' # "undistort"
    BY <1>4 DEF DropEarlyScan, JudgeWindow, GoTo
  <2> QED
    BY <1>1, <1>4, <2>1, DropTimeStep DEF WithinImu, At
<1>5. CASE SyncWhole \/ SyncSplit
  BY <1>1, <1>5, SyncTimeStep
<1>6. CASE MapIncremental
  <2>1. loop_pc' # "undistort"
    BY <1>6 DEF MapIncremental, GoTo
  <2> QED
    BY <1>1, <1>6, <2>1, MapTimeStep DEF WithinImu, At
<1>7. CASE /\ UNCHANGED <<lidar_vars, cloud_vars, scan_vars, map_vars>>
           /\ Working' = Working
           /\ \/ loop_pc' # "undistort"
              \/ UNCHANGED <<loop_pc, synced_imu_states>>
  <2>1. OrderInv' /\ EndsInv'
    BY <1>7, QuietStep
  <2>2. WithinImu'
    BY <1>7 DEF WithinImu, Last, At, scan_vars
  <2> QED
    BY <1>1, <2>1, <2>2
<1>8. CASE UNCHANGED loop_vars /\ UNCHANGED lidar_vars
  BY <1>7, <1>8 DEF Working, loop_vars, round_vars
<1>9. CASE UndistortPointCloud \/ UpdateStatesWithLidar
  BY <1>7, <1>9 DEF UndistortPointCloud, UpdateStatesWithLidar, Working, At,
                    GoTo
<1>10. CASE StartRound \/ CheckImuFresh \/ CheckLidarStart \/ NoScanToTake
            \/ ReadWindowStart \/ ReadWindowEnd
  BY <1>7, <1>10 DEF StartRound, CheckImuFresh, CheckLidarStart, NoScanToTake,
                     ReadWindowStart, ReadWindowEnd, ReadsOnly, Working, At,
                     GoTo
<1> QED
  BY <1>2, <1>3, <1>4, <1>5, <1>6, <1>8, <1>9, <1>10
  DEF Next, Loop, Sensors, vars

\* There are no points at the start.
LEMMA InitTimeInv == Init => TimeInv
<1> SUFFICES ASSUME Init PROVE TimeInv
  OBVIOUS
<1>1. Taken = {} /\ Binned = {} /\ Waiting = {} /\ InWork = {} /\ mapped = {}
  BY DEF Init, LidarInit, Taken, Waiting, InWork, Binned
<1>2. OrderInv
  BY <1>1 DEF OrderInv, Before
<1>3. EndsInv
  BY <1>1 DEF EndsInv, Init, LidarInit
<1> QED
  BY <1>2, <1>3 DEF TimeInv, FreshInv, WithinImu, At, Init

\* A point that was late once stays part of the history.
LEMMA LateStays ==
  ASSUME IInv, [Next]_vars, late_points
  PROVE  late_points'
<1>1. CASE LidarCallback
  BY <1>1 DEF LidarCallback, FillBins, FinishLidarCallback
<1>2. CASE UNCHANGED lidar_vars
  BY <1>2 DEF lidar_vars
<1>3. CASE DropEarlyScan \/ TakeScan
  BY <1>3 DEF DropEarlyScan, ClearPointCloud, TakeScan, EmptyBins
<1> QED
  BY <1>1, <1>2, <1>3
  DEF Next, Loop, Sensors, vars, StartRound, CheckImuFresh, CheckLidarStart,
      NoScanToTake, ReadWindowStart, ReadWindowEnd, JudgeWindow, ReadsOnly,
      SyncWhole, SyncSplit, SyncWithLidar, UndistortPointCloud,
      UpdateStatesWithLidar, MapIncremental

\* The order holds until a message brings late points.
LEMMA TimeInductive == Spec => [](late_points \/ TimeInv)
<1>1. Init => late_points \/ TimeInv
  BY InitTimeInv
<1>2. /\ IInv /\ [Next]_vars /\ (late_points \/ TimeInv)
      => (late_points \/ TimeInv)'
  BY TimeStep, LateStays
<1> QED
  BY <1>1, <1>2, Inductive, PTL DEF Spec

\* While no message brought a point from before the end of the scan it
\* followed, the points that are undistorted were measured within the IMU data
\* the loop copied, which is not empty
\* (map_processing.cpp:1289-1342, imu_processing.cpp:199-235).
THEOREM NodeUndistortWithinImu == Spec => []UndistortWithinImu
<1>1. late_points \/ TimeInv => UndistortWithinImu
  BY DEF TimeInv, WithinImu, UndistortWithinImu
<1> QED
  BY <1>1, TimeInductive, PTL

\* While no message brought a point from before the end of the scan it
\* followed, no round maps a point measured before one an earlier round mapped,
\* however scans are moved on, split, merged and taken over
\* (lidar_processing.cpp:94-102, map_processing.cpp:1283-1371).
THEOREM NodeMapInTimeOrder == Spec => MapInTimeOrder
<1> DEFINE inOrder ==
      ~late_points => \A p \in mapped' \ mapped, q \in mapped : q.t <= p.t
<1>1. ASSUME late_points \/ TimeInv, [Next]_vars
      PROVE  inOrder \/ UNCHANGED vars
  <2>1. CASE MapIncremental
    <3>1. mapped' \subseteq mapped \cup scan_cloud /\ InWork = scan_cloud
      BY <2>1 DEF MapIncremental, InWork, At
    <3> QED
      BY <1>1, <3>1 DEF TimeInv, OrderInv, Before
  <2>2. CASE UNCHANGED mapped
    BY <2>2
  <2> QED
    BY <1>1, <2>1, <2>2
    DEF Next, Loop, Sensors, vars, loop_vars, map_vars, StartRound,
        CheckImuFresh, CheckLidarStart, DropEarlyScan, TakeScan, NoScanToTake,
        ReadWindowStart, ReadWindowEnd, JudgeWindow, ReadsOnly, SyncWhole,
        SyncSplit, SyncWithLidar, UndistortPointCloud, UpdateStatesWithLidar
<1>2. (late_points \/ TimeInv) /\ [Next]_vars => [inOrder]_vars
  BY <1>1
<1> QED
  BY <1>2, TimeInductive, PTL DEF Spec, MapInTimeOrder

-----------------------------------------------------------------------------
(* The refinement of PointFlow                                             *)

\* No point is in two of the places that hold points, so none is in hand any
\* more when the scan it was in has been mapped.
FlowInv ==
  /\ \A p \in Waiting \cup InWork : p.scan <= scans_received
  /\ Binned \cap (Waiting \cup InWork) = {}
  /\ InWork \cap Waiting = {}

\* The points in hand, by the place that holds them
LEMMA InHandParts ==
  /\ InHand = Binned \cup Waiting \cup InWork
  /\ InHand' = Binned' \cup Waiting' \cup InWork'
<1>1. InHand = Binned \cup raw_cloud \cup buffer_cloud \cup InWork
  BY DEF InHand, Binned, InWork
<1>2. InHand' = Binned' \cup raw_cloud' \cup buffer_cloud' \cup InWork'
  BY DEF InHand, Binned, InWork
<1> QED
  BY <1>1, <1>2 DEF Waiting

\* A message brings points with a number no point in hand has.
LEMMA LidarFlowStep ==
  ASSUME IInv, FlowInv, LidarCallback, UNCHANGED <<imu_vars, loop_vars>>
  PROVE  FlowInv' /\ (Flow!FlowNext \/ UNCHANGED <<scans_received, InHand, mapped>>)
<1>1. UNCHANGED <<Waiting, InWork, mapped>>
  BY DEF loop_vars, cloud_vars, scan_vars, map_vars, Waiting, InWork
<1>2. scans_received \in Nat
  BY DEF IInv, LidarInv, LidarTypeOK
<1>3. CASE /\ scans_received' = scans_received + 1
           /\ \A p \in Binned' :
                p \in Binned \/ (p \in Point /\ p.scan = scans_received')
  <2>1. \A p \in Waiting \cup InWork :
          p.scan <= scans_received /\ p.scan # scans_received + 1
    BY <1>2 DEF FlowInv
  <2>2. \A p \in Waiting \cup InWork : p.scan <= scans_received + 1
    <3>1. Waiting \cup InWork \subseteq Point
      BY DEF IInv, CloudTypes, ScanTypes, Waiting, InWork
    <3>2. \A p \in Waiting \cup InWork : p.scan \in Nat
      BY <3>1 DEF Point
    <3> QED
      BY <1>2, <2>1, <3>2
  <2>3. Binned' \cap (Waiting \cup InWork) = {}
    BY <1>3, <2>1 DEF FlowInv
  <2>4. FlowInv'
    BY <1>1, <1>3, <2>2, <2>3 DEF FlowInv
  <2>5. InHand' \in SUBSET (InHand \cup {p \in Point : p.scan = scans_received + 1})
    BY <1>1, <1>3, InHandParts
  <2> QED
    BY <1>1, <1>3, <2>4, <2>5 DEF Flow!FlowNext, Flow!Receive
<1>4. CASE UNCHANGED scans_received /\ Binned' = Binned
  BY <1>1, <1>4, InHandParts DEF FlowInv
<1> QED
  BY <1>3, <1>4, LidarCallbackInv DEF IInv

\* The steps of the loop before the mapping hand points on or drop them.
LEMMA LoopFlowStep ==
  ASSUME IInv, FlowInv, Loop, ~MapIncremental
  PROVE  FlowInv' /\ Flow!Lose
<1>1. UNCHANGED <<scans_received, mapped>>
  BY DEF Loop, StartRound, CheckImuFresh, CheckLidarStart, DropEarlyScan,
         ClearPointCloud, EmptyBins, TakeScan, NoScanToTake, ReadWindowStart,
         ReadWindowEnd, JudgeWindow, ReadsOnly, SyncWhole, SyncSplit,
         SyncWithLidar, UndistortPointCloud, UpdateStatesWithLidar, lidar_vars,
         map_vars
<1>2. SUFFICES /\ FlowInv'
               /\ Binned' \cup Waiting' \cup InWork'
                    \subseteq Binned \cup Waiting \cup InWork
  BY <1>1, InHandParts DEF Flow!Lose
<1>3. CASE UNCHANGED <<Binned, Waiting, InWork>>
  BY <1>1, <1>3 DEF FlowInv
<1>4. CASE TakeScan
  <2>1. /\ ellipselio_pc \subseteq Binned /\ Binned' = {}
        /\ InWork = {} /\ InWork' = {}
        /\ Waiting' = Waiting \cup ellipselio_pc
    BY <1>4, EmptyBinsInv DEF TakeScan, InWork, At, GoTo, IInv, LidarInv,
                              Waiting
  <2>2. \A p \in ellipselio_pc : p.scan <= scans_received
    BY <2>1 DEF IInv, LidarInv
  <2> QED
    BY <1>1, <2>1, <2>2 DEF FlowInv
<1>5. CASE DropEarlyScan
  <2>1. Binned' = {} /\ UNCHANGED Waiting /\ InWork = {} /\ InWork' = {}
    BY <1>5, EmptyBinsInv DEF DropEarlyScan, ClearPointCloud, InWork, At, GoTo,
                              IInv, cloud_vars, Waiting
  <2> QED
    BY <1>1, <2>1 DEF FlowInv
<1>6. CASE JudgeWindow
  <2>1. /\ UNCHANGED Binned /\ Waiting' \subseteq Waiting
        /\ InWork = {} /\ InWork' = {}
    BY <1>6 DEF JudgeWindow, InWork, At, GoTo, Binned, lidar_vars, Waiting
  <2> QED
    BY <1>1, <2>1 DEF FlowInv
<1>7. CASE SyncWhole \/ SyncSplit
  <2>1. UNCHANGED Binned /\ InWork = {} /\ InWork' = scan_cloud'
    BY <1>7 DEF SyncWhole, SyncSplit, SyncWithLidar, At, GoTo, InWork, Binned,
                lidar_vars
  <2>2. /\ scan_cloud' \subseteq Waiting /\ Waiting' \subseteq Waiting
        /\ scan_cloud' \cap Waiting' = {}
    <3>1. CASE SyncWhole
      BY <3>1 DEF SyncWhole, SyncWithLidar, Waiting
    <3>2. CASE SyncSplit
      <4>1. /\ Waiting' = buffer_cloud'
            /\ \A p \in scan_cloud' : p.t <= scan_end_time' /\ p \in Waiting
            /\ \A p \in buffer_cloud' : p.t > scan_end_time' /\ p \in Waiting
        BY <3>2 DEF SyncSplit, SyncWithLidar, Waiting
      <4>2. \A p \in Waiting : p.t \in Int
        BY Times DEF Taken
      <4>3. scan_end_time' \in Int
        BY <1>7, SyncIInv DEF IInv, ScanTypes
      <4> QED
        BY <4>1, <4>2, <4>3
    <3> QED
      BY <1>7, <3>1, <3>2
  <2> QED
    BY <1>1, <2>1, <2>2 DEF FlowInv
<1>8. CASE UndistortPointCloud \/ UpdateStatesWithLidar
  BY <1>3, <1>8 DEF UndistortPointCloud, UpdateStatesWithLidar, At, GoTo,
    InWork, Binned, Waiting, lidar_vars, cloud_vars, scan_vars
<1>9. CASE StartRound \/ CheckImuFresh \/ CheckLidarStart \/ NoScanToTake
           \/ ReadWindowStart \/ ReadWindowEnd
  BY <1>3, <1>9 DEF StartRound, CheckImuFresh, CheckLidarStart, NoScanToTake,
    ReadWindowStart, ReadWindowEnd, ReadsOnly, At, GoTo, InWork, Binned,
    Waiting, lidar_vars, cloud_vars, scan_vars
<1> QED
  BY <1>4, <1>5, <1>6, <1>7, <1>8, <1>9 DEF Loop

\* The mapped points were in the scan and are in hand no more.
LEMMA MapFlowStep ==
  ASSUME FlowInv, MapIncremental
  PROVE  FlowInv' /\ Flow!Map
<1>1. /\ InWork = scan_cloud /\ InWork' = {}
      /\ mapped' \subseteq mapped \cup scan_cloud /\ mapped \subseteq mapped'
      /\ UNCHANGED <<Binned, Waiting, scans_received>>
  BY DEF MapIncremental, InWork, At, GoTo, Binned, Waiting, lidar_vars,
         cloud_vars
<1>2. InHand' \subseteq InHand /\ scan_cloud \subseteq InHand \ InHand'
  BY <1>1, InHandParts DEF FlowInv
<1> QED
  BY <1>1, <1>2 DEF FlowInv, Flow!Map

\* Every step of the node is a step of PointFlow, or none.
LEMMA FlowStep ==
  ASSUME IInv, FlowInv, [Next]_vars
  PROVE  FlowInv' /\ (Flow!FlowNext \/ UNCHANGED <<scans_received, InHand, mapped>>)
<1>1. CASE LidarCallback /\ UNCHANGED <<imu_vars, loop_vars>>
  BY <1>1, LidarFlowStep
<1>2. CASE Loop /\ ~MapIncremental
  BY <1>2, LoopFlowStep DEF Flow!FlowNext
<1>3. CASE MapIncremental
  BY <1>3, MapFlowStep DEF Flow!FlowNext
<1>4. CASE UNCHANGED <<lidar_vars, loop_vars>>
  BY <1>4 DEF FlowInv, InHand, Binned, Waiting, InWork, lidar_vars, loop_vars,
              cloud_vars, scan_vars, map_vars
<1> QED
  BY <1>1, <1>2, <1>3, <1>4 DEF Next, Sensors, vars

\* MappingNode implements PointFlow: no interleaving of the callback with the
\* loop's taking, merging, splitting, clearing and mapping of clouds maps a
\* point twice, makes one up or brings back one that was dropped
\* (lidar_processing.cpp:205-233, map_processing.cpp:1283-1371).
THEOREM NodeRefinesPointFlow == Spec => RefinesPointFlow
<1>1. Init => Flow!FlowInit /\ FlowInv
  <2> SUFFICES ASSUME Init PROVE Flow!FlowInit /\ FlowInv
    OBVIOUS
  <2>1. Binned = {} /\ Waiting = {} /\ InWork = {}
    BY DEF Init, LidarInit, Waiting, InWork, Binned
  <2>2. scans_received = 0 /\ InHand = {} /\ mapped = {}
    BY <2>1, InHandParts DEF Init, LidarInit
  <2> QED
    BY <2>1, <2>2 DEF Flow!FlowInit, FlowInv
<1>2. IInv /\ FlowInv /\ [Next]_vars
        => FlowInv' /\ [Flow!FlowNext]_(Flow!flow_vars)
  BY FlowStep DEF Flow!flow_vars
<1> QED
  BY <1>1, <1>2, Inductive, PTL DEF Spec, RefinesPointFlow, Flow!FlowSpec

=============================================================================
