--------------------------- MODULE TimeMatchLoop ---------------------------
(***************************************************************************)
(* The search of ImuProcess::GetTimeMatch (imu_processing.cpp:163-189), one *)
(* action per branch of its loop.  The callers hand it a buffer they hold   *)
(* a lock on, or a private copy, so nothing else runs on it meanwhile.      *)
(*                                                                         *)
(* Time is counted in ticks, TicksPerSec to the second, and the ring is     *)
(* addressed from 1.  An empty buffer is not a legal input: the code reads  *)
(* front() before anything else.                                           *)
(***************************************************************************)
EXTENDS TimeMatch

CONSTANTS
  Rate,          \* params_.rate, the nominal IMU rate in Hz
  TicksPerSec,   \* the resolution of the model's clock
  MaxTime,       \* measurement times and the time looked for are 0 .. MaxTime
  MaxLen         \* bound on the length of the buffers searched

ASSUME LoopAssumption ==
  /\ Rate \in Nat \ {0}
  /\ TicksPerSec \in Nat \ {0}
  /\ MaxTime \in Nat
  /\ MaxLen \in Nat \ {0}

VARIABLES
  imu_states,    \* the buffer
  match_time,    \* the time looked for
  match_idx,     \* *match_idx
  match_flag     \* match_flag: the loop is over

vars == <<imu_states, match_time, match_idx, match_flag>>

Buffers == UNION {[1 .. n -> [time : 0 .. MaxTime]] : n \in 1 .. MaxLen}

\* std::floor(time_diff * params_.rate), clamped to the buffer on both sides
Guess(buf, t) ==
  LET g == ((t - buf[1].time) * Rate) \div TicksPerSec
  IN  IF g < 0 THEN 1
      ELSE IF g > Len(buf) - 1 THEN Len(buf)
      ELSE g + 1

TypeOK ==
  /\ imu_states \in Seq([time : Int]) /\ imu_states # <<>>
  /\ match_time \in Int
  /\ match_idx \in 1 .. Len(imu_states)
  /\ match_flag \in BOOLEAN

Init ==
  /\ imu_states \in {b \in Buffers : Sorted(b)}
  /\ match_time \in 0 .. MaxTime
  /\ match_idx = Guess(imu_states, match_time)
  /\ match_flag = FALSE

Later(i) == imu_states[i].time > match_time

\* The entry is later than the time looked for and so is the one before it.
StepBack ==
  /\ ~match_flag
  /\ Later(match_idx) /\ match_idx # 1 /\ Later(match_idx - 1)
  /\ match_idx' = match_idx - 1
  /\ UNCHANGED <<imu_states, match_time, match_flag>>

\* Mutant of StepForward: strides over an entry
StrideForward ==
  /\ ~match_flag
  /\ ~Later(match_idx) /\ match_idx # Len(imu_states)
  /\ match_idx' = IF match_idx + 2 > Len(imu_states) THEN Len(imu_states)
                                                     ELSE match_idx + 2
  /\ UNCHANGED <<imu_states, match_time, match_flag>>

\* The entry is not later than the time looked for and is not the last one.
StepForward ==
  /\ ~match_flag
  /\ ~Later(match_idx) /\ match_idx # Len(imu_states)
  /\ match_idx' = match_idx + 1
  /\ UNCHANGED <<imu_states, match_time, match_flag>>

\* Mutant of Stop: any later entry will do
StopAtAnyLater ==
  /\ ~match_flag
  /\ ~Later(match_idx) => match_idx = Len(imu_states)
  /\ match_flag' = TRUE
  /\ UNCHANGED <<imu_states, match_time, match_idx>>

\* Mutant of Stop: the newest entry does not end the search
NoStopAtNewest ==
  /\ ~match_flag
  /\ Later(match_idx)
  /\ match_idx # 1 => ~Later(match_idx - 1)
  /\ match_flag' = TRUE
  /\ UNCHANGED <<imu_states, match_time, match_idx>>

\* The three places where the code sets match_flag.
Stop ==
  /\ ~match_flag
  /\ match_idx \in TimeMatches(imu_states, match_time)
  /\ match_flag' = TRUE
  /\ UNCHANGED <<imu_states, match_time, match_idx>>

Next == StepBack \/ StepForward \/ Stop

\* The loop is sequential code: it runs until it is over.
Spec == Init /\ [][Next]_vars /\ WF_vars(Next)

-----------------------------------------------------------------------------
(* Properties *)

\* What the callers use: when the search is over, the entry found is the
\* earliest one measured after the time looked for, or the newest entry of
\* all when there is none (imu_processing.cpp:174-188).
FindsFirstLater ==
  match_flag =>
    \/ /\ Later(match_idx)
       /\ \A i \in 1 .. match_idx - 1 : ~Later(i)
    \/ /\ match_idx = Len(imu_states)
       /\ \A i \in 1 .. Len(imu_states) : ~Later(i)

\* The walk never changes direction: a step forward that lands on a later
\* entry is the last one, so a search cannot bounce between two entries
\* (imu_processing.cpp:174-188).
NeverTurnsBack ==
  [][(match_idx' > match_idx /\ Later(match_idx)') =>
        IsTimeMatch(imu_states, match_time, match_idx')]_vars

\* The loop has no bound of its own; it comes to an end from every guess
\* (imu_processing.cpp:174-188).
Terminates == <>match_flag
=============================================================================
