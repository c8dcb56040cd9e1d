----------------------------- MODULE TimeMatch -----------------------------
(***************************************************************************)
(* What ImuProcess::GetTimeMatch returns (imu_processing.cpp:163-189).     *)
(*                                                                         *)
(* A buffer is a sequence of records with a field "time".  The search      *)
(* starts at a guess and walks until one of its three exit conditions      *)
(* holds.  IsTimeMatch is those exit conditions and nothing else: it does  *)
(* not say that the buffer is sorted and does not say which of several     *)
(* such places the walk ends at.  Module TimeMatchLoop has the walk.       *)
(* Places are numbered from 1 here, from 0 in the code.                    *)
(***************************************************************************)
EXTENDS Integers, Sequences

IsTimeMatch(buf, match_time, m) ==
  IF buf[m].time > match_time
    THEN m = 1 \/ buf[m - 1].time <= match_time
    ELSE m = Len(buf)

TimeMatches(buf, match_time) ==
  {m \in 1 .. Len(buf) : IsTimeMatch(buf, match_time, m)}

Sorted(buf) ==
  \A i, j \in 1 .. Len(buf) : i <= j => buf[i].time <= buf[j].time
=============================================================================
