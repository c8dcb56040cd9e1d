------------------------- MODULE TimeMatchLoopProofs -------------------------
(***************************************************************************)
(* Proofs about the search of GetTimeMatch, for every ring, every guess and *)
(* every nominal rate.                                                     *)
(***************************************************************************)
EXTENDS TimeMatchLoop, SequenceTheorems, TLAPS

\* The entries of a ring have times that can be compared.
LEMMA EntryTime ==
  ASSUME NEW buf \in Seq([time : Int]), NEW i \in 1 .. Len(buf)
  PROVE  buf[i].time \in Int
<1>1. buf[i] \in [time : Int]
  BY ElementOfSeq
<1> QED
  BY <1>1

\* The clamped guess is a place in the ring (imu_processing.cpp:169-172).
LEMMA GuessInRing ==
  ASSUME NEW buf \in Seq([time : Int]), buf # <<>>, NEW t \in Int
  PROVE  Guess(buf, t) \in 1 .. Len(buf)
<1>1. Len(buf) \in Nat \ {0}
  OBVIOUS
<1>2. buf[1].time \in Int
  BY <1>1, EntryTime
<1> DEFINE g == ((t - buf[1].time) * Rate) \div TicksPerSec
<1>3. g \in Int
  BY <1>2, LoopAssumption
<1> HIDE DEF g
<1>4. Guess(buf, t) =
        IF g < 0 THEN 1 ELSE IF g > Len(buf) - 1 THEN Len(buf) ELSE g + 1
  BY DEF Guess, g
<1> QED
  BY <1>1, <1>3, <1>4

\* What the search never loses: its inputs, and the order of the ring; once it
\* is over it stands at a place where an exit condition holds.
IInv ==
  /\ TypeOK
  /\ Sorted(imu_states)
  /\ match_flag => IsTimeMatch(imu_states, match_time, match_idx)

\* A search starts inside its buffer.
LEMMA InitIInv == Init => IInv
<1> SUFFICES ASSUME Init PROVE IInv
  OBVIOUS
<1>1. PICK n \in 1 .. MaxLen : imu_states \in [1 .. n -> [time : 0 .. MaxTime]]
  BY DEF Init, Buffers
<1>2. n \in Nat \ {0}
  BY LoopAssumption
<1>3. imu_states \in [1 .. n -> [time : Int]]
  BY <1>1, LoopAssumption
<1>4. imu_states \in Seq([time : Int]) /\ Len(imu_states) = n
  <2>1. imu_states \in Seq([time : Int])
    BY <1>2, <1>3, SeqDef
  <2> QED
    BY <1>2, <1>3, <2>1, LenProperties
<1>5. match_time \in Int
  BY LoopAssumption DEF Init
<1>6. match_idx \in 1 .. Len(imu_states)
  BY <1>2, <1>4, <1>5, GuessInRing DEF Init
<1> QED
  BY <1>2, <1>4, <1>5, <1>6 DEF Init, IInv, TypeOK

\* Every branch of the loop stays inside it.
LEMMA NextIInv == IInv /\ [Next]_vars => IInv'
<1> SUFFICES ASSUME IInv, [Next]_vars PROVE IInv'
  OBVIOUS
<1> USE DEF IInv, TypeOK
<1>1. CASE StepBack
  BY <1>1 DEF StepBack, Sorted
<1>2. CASE StepForward
  BY <1>2 DEF StepForward, Sorted
<1>3. CASE Stop
  BY <1>3 DEF Stop, TimeMatches, Sorted, IsTimeMatch
<1>4. CASE UNCHANGED vars
  BY <1>4 DEF vars, Sorted, IsTimeMatch
<1> QED
  BY <1>1, <1>2, <1>3, <1>4 DEF Next

\* The index is a place in the ring at every turn of the loop, for every ring,
\* guess and rate (imu_processing.cpp:169-188).
THEOREM SearchTypeOK == Spec => []TypeOK
<1>1. IInv => TypeOK
  BY DEF IInv
<1> QED
  BY <1>1, InitIInv, NextIInv, PTL DEF Spec

\* In a ring in time order the place found is the earliest entry later than
\* the time looked for, or the newest if there is none
\* (imu_processing.cpp:174-188).
THEOREM SearchFindsFirstLater == Spec => []FindsFirstLater
<1>1. ASSUME IInv PROVE FindsFirstLater
  <2> SUFFICES ASSUME match_flag PROVE FindsFirstLater
    BY DEF FindsFirstLater
  <2> USE <1>1 DEF IInv, TypeOK
  <2>1. IsTimeMatch(imu_states, match_time, match_idx)
    OBVIOUS
  <2>2. \A i \in 1 .. Len(imu_states) : imu_states[i].time \in Int
    BY EntryTime
  <2>3. CASE Later(match_idx)
    <3>1. \A i \in 1 .. match_idx - 1 : ~Later(i)
      <4> SUFFICES ASSUME NEW i \in 1 .. match_idx - 1 PROVE ~Later(i)
        OBVIOUS
      <4>1. /\ match_idx # 1 /\ i <= match_idx - 1
            /\ i \in 1 .. Len(imu_states) /\ match_idx - 1 \in 1 .. Len(imu_states)
        OBVIOUS
      <4> HIDE DEF IInv, TypeOK
      <4>2. imu_states[match_idx - 1].time <= match_time
        BY <2>1, <2>3, <4>1 DEF IsTimeMatch, Later
      <4>3. Sorted(imu_states)
        BY <1>1 DEF IInv
      <4>4. imu_states[i].time <= imu_states[match_idx - 1].time
        BY <4>1, <4>3 DEF Sorted
      <4>5. match_time \in Int
        BY <1>1 DEF IInv, TypeOK
      <4> QED
        BY <2>2, <4>1, <4>2, <4>4, <4>5 DEF Later
    <3> QED
      BY <2>3, <3>1 DEF FindsFirstLater
  <2>4. CASE ~Later(match_idx)
    <3>1. match_idx = Len(imu_states)
      BY <2>1, <2>4 DEF IsTimeMatch, Later
    <3>2. \A i \in 1 .. Len(imu_states) : ~Later(i)
      <4> SUFFICES ASSUME NEW i \in 1 .. Len(imu_states) PROVE ~Later(i)
        OBVIOUS
      <4>1. imu_states[i].time <= imu_states[match_idx].time
        BY <3>1 DEF Sorted
      <4> QED
        BY <2>2, <2>4, <4>1 DEF Later
    <3> QED
      BY <3>1, <3>2 DEF FindsFirstLater
  <2> QED
    BY <2>3, <2>4
<1> QED
  BY <1>1, InitIInv, NextIInv, PTL DEF Spec

\* A step forward onto a later entry ends the search
\* (imu_processing.cpp:174-188).
THEOREM SearchNeverTurnsBack == Spec => NeverTurnsBack
<1>1. ASSUME IInv, [Next]_vars
      PROVE  [(match_idx' > match_idx /\ Later(match_idx)') =>
                 IsTimeMatch(imu_states, match_time, match_idx')]_vars
  <2> SUFFICES ASSUME match_idx' > match_idx, Later(match_idx)'
               PROVE  IsTimeMatch(imu_states, match_time, match_idx')
    OBVIOUS
  <2> USE <1>1 DEF IInv, TypeOK
  <2>1. CASE StepForward
    <3>1. imu_states[match_idx].time \in Int
      BY EntryTime
    <3>2. imu_states[match_idx].time <= match_time
      BY <2>1, <3>1 DEF StepForward, Later
    <3>3. imu_states[match_idx'].time > match_time
      BY <2>1 DEF StepForward, Later
    <3> QED
      BY <2>1, <3>2, <3>3 DEF StepForward, IsTimeMatch
  <2>2. CASE StepBack
    BY <2>2 DEF StepBack
  <2>3. CASE Stop \/ UNCHANGED vars
    BY <2>3 DEF Stop, vars
  <2> QED
    BY <1>1, <2>1, <2>2, <2>3 DEF Next
<1> QED
  BY <1>1, InitIInv, NextIInv, PTL DEF Spec, NeverTurnsBack
=============================================================================
