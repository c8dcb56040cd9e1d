----------------------------- MODULE ImuProcess -----------------------------
(***************************************************************************)
(* ImuProcess (imu_processing.h, imu_processing.cpp): the ring of IMU       *)
(* measurements with the filter state at each of them, the initialisation,  *)
(* the propagation of the filter by every message, and the correction that  *)
(* the mapping loop writes into the ring under the same mutex.              *)
(*                                                                         *)
(* The filter's numbers are abstracted to the one thing the properties ask  *)
(* of them: the instant at which they describe the vehicle.  A KfState is   *)
(* [time, est]: "time" is the stamp the code puts on it (KfState::time) and *)
(* "est" the instant its mean is an estimate for.  predict(dt) moves est by *)
(* dt; a LiDAR update makes est the instant the scan was referred to.       *)
(*                                                                         *)
(* The module has the operations and no next-state relation of its own:     *)
(* module MappingNode calls them.                                          *)
(***************************************************************************)
EXTENDS TimeMatch

CONSTANTS
  Rate,      \* params_.rate: the capacity of the ring, and the number of
             \* messages the initialisation averages
  MaxTime    \* bound: sensor stamps are 1 .. MaxTime

ASSUME ImuAssumption ==
  /\ Rate \in Nat \ {0}
  /\ MaxTime \in Nat \ {0}

VARIABLES
  imu_states,       \* imu_states_, the ring: each entry's KfState
  imu_start_time,   \* imu_start_time_, read by the loop without the mutex
  imu_end_time,     \* imu_end_time_, read by the loop without the mutex
  imu_need_init,    \* imu_need_init_
  init_iter_num,    \* init_iter_num_, counted up to Rate + 1
  lidar_ready,      \* lidar_ready_, set by the mapping loop
  kf_est,           \* kf_: the instant its mean is an estimate for
  kf_state,         \* kf_state_, the state after the newest message
  pub_kf_state,     \* pub_kf_state_, the copy the odometry publisher reads
  imu_busy          \* a callback holds imu_mutex_ between its two steps

imu_vars == <<imu_states, imu_start_time, imu_end_time, imu_need_init,
              init_iter_num, lidar_ready, kf_est, kf_state, pub_kf_state,
              imu_busy>>

KfState == [time : Int, est : Int]

NoState == [time |-> 0, est |-> 0]

Last(s) == s[Len(s)]

ImuTypeOK ==
  /\ imu_states \in Seq(KfState) /\ Len(imu_states) <= Rate
  /\ imu_start_time \in Int
  /\ imu_end_time \in Int
  /\ imu_need_init \in BOOLEAN
  /\ init_iter_num \in 0 .. Rate + 1
  /\ lidar_ready \in BOOLEAN
  /\ kf_est \in Int
  /\ kf_state \in KfState
  /\ pub_kf_state \in KfState
  /\ imu_busy \in BOOLEAN

ImuInit ==
  /\ imu_states = <<>>
  /\ imu_start_time = 0
  /\ imu_end_time = 0
  /\ imu_need_init = TRUE
  /\ init_iter_num = 0
  /\ lidar_ready = FALSE
  /\ kf_est = 0
  /\ kf_state = NoState
  /\ pub_kf_state = NoState
  /\ imu_busy = FALSE

\* boost::circular_buffer::push_back: a full ring loses its oldest entry
PushBack(ring, x) ==
  IF Len(ring) < Rate THEN Append(ring, x) ELSE Append(Tail(ring), x)

-----------------------------------------------------------------------------
(* The subscription's callback.  Its callback group is mutually exclusive,  *)
(* so one message is handled at a time; imu_end_time_ is written by no one  *)
(* else, so the test before the lock is as good as one under it.            *)

\* Mutant of Accepts: no test of the order
AcceptsAnyOrder(stamp) == ~imu_busy

\* ImuCallback takes the message: it is not older than the newest one.
Accepts(stamp) == ~imu_busy /\ stamp >= imu_end_time

\* Process while imu_need_init_: InitImu averages, and once it has more than
\* Rate messages and the loop has seen a LiDAR scan it sets the state up.
\* imu_end_time_ stays where it is.
InitImu(stamp) ==
  /\ Accepts(stamp)
  /\ imu_need_init
  /\ init_iter_num' = IF init_iter_num > Rate THEN init_iter_num
                                              ELSE init_iter_num + 1
  /\ IF init_iter_num' > Rate /\ lidar_ready
       THEN /\ imu_need_init' = FALSE
            /\ kf_est' = stamp
            /\ kf_state' = [time |-> stamp, est |-> stamp]
       ELSE UNCHANGED <<imu_need_init, kf_est, kf_state>>
  /\ UNCHANGED <<imu_states, imu_start_time, imu_end_time, lidar_ready,
                 pub_kf_state, imu_busy>>

\* Process after the initialisation: predict from kf_state_.time to the
\* message, publish, push, and set the window's start (the lines up to 107).
PropagateAndPush(stamp) ==
  /\ Accepts(stamp)
  /\ ~imu_need_init
  /\ LET est == kf_est + (stamp - kf_state.time)
         new == [time |-> stamp, est |-> est]
     IN  /\ kf_est' = est
         /\ kf_state' = new
         /\ pub_kf_state' = new
         /\ imu_states' = PushBack(imu_states, new)
  /\ imu_start_time' = imu_states'[1].time
  /\ imu_busy' = TRUE
  /\ UNCHANGED <<imu_end_time, imu_need_init, init_iter_num, lidar_ready>>

\* The window's end (line 108), and the unlock.
FinishImuCallback ==
  /\ imu_busy
  /\ imu_end_time' = Last(imu_states).time
  /\ imu_busy' = FALSE
  /\ UNCHANGED <<imu_states, imu_start_time, imu_need_init, init_iter_num,
                 lidar_ready, kf_est, kf_state, pub_kf_state>>

ImuCallback ==
  \/ \E stamp \in 1 .. MaxTime : InitImu(stamp) \/ PropagateAndPush(stamp)
  \/ FinishImuCallback

-----------------------------------------------------------------------------
(* What the mapping loop calls.                                            *)

\* Mutant of Corrected: the posterior goes to the entry before the match
CorrectedOneEarlier(ring, m, posterior) ==
  LET first == IF m = 1 THEN 1 ELSE m - 1
  IN  [i \in 1 .. Len(ring) |->
         IF i < first THEN ring[i]
         ELSE [time |-> ring[i].time,
               est  |-> posterior + (ring[i].time - ring[first].time)]]

\* The ring after the replay of UpdateStatesWithLidar: the posterior at m,
\* and every later entry predicted anew from the one before it.
Corrected(ring, m, posterior) ==
  [i \in 1 .. Len(ring) |->
     IF i < m THEN ring[i]
     ELSE [time |-> ring[i].time,
           est  |-> posterior + (ring[i].time - ring[m].time)]]

\* Mutant of ApplyLidarUpdate: kf_state_ is not taken from the ring's end
ApplyWithoutTail(m, synced, lidar_end_time) ==
  /\ ~imu_busy
  /\ m \in TimeMatches(imu_states, lidar_end_time)
  /\ imu_states' = Corrected(imu_states, m, synced.time)
  /\ kf_est' = Last(imu_states').est
  /\ UNCHANGED <<imu_start_time, imu_end_time, imu_need_init, init_iter_num,
                 lidar_ready, kf_state, pub_kf_state, imu_busy>>

\* UpdateStatesWithLidar after the solver, which ran without the mutex on a
\* copy of the filter carrying the caller's state.  The scan was referred to
\* the instant synced.time, so the posterior is an estimate for it.  The entry
\* it goes to is looked up in the ring as it is now.
ApplyLidarUpdate(m, synced, lidar_end_time) ==
  /\ ~imu_busy
  /\ m \in TimeMatches(imu_states, lidar_end_time)
  /\ imu_states' = Corrected(imu_states, m, synced.time)
  /\ kf_state' = Last(imu_states')
  /\ kf_est' = kf_state'.est
  /\ pub_kf_state' = kf_state'
  /\ UNCHANGED <<imu_start_time, imu_end_time, imu_need_init, init_iter_num,
                 lidar_ready, imu_busy>>

\* SyncPackages tells the initialisation that LiDAR data has arrived.
SetLidarReady ==
  /\ lidar_ready' = TRUE
  /\ UNCHANGED <<imu_states, imu_start_time, imu_end_time, imu_need_init,
                 init_iter_num, kf_est, kf_state, pub_kf_state, imu_busy>>

-----------------------------------------------------------------------------
(* Properties of the component, checked where it is composed.              *)

\* The filter, the state it is propagated from, the state the odometry
\* publisher reads and the newest ring entry are one and the same whenever
\* the mutex is free, although a callback and the loop's correction both
\* write all four (imu_processing.cpp:82-108, 350-396).  A correction that
\* forgot one of them would make the next prediction start from a state of
\* before the scan.
FilterAtTail ==
  imu_states # <<>> =>
    /\ kf_state = Last(imu_states)
    /\ pub_kf_state = Last(imu_states)
    /\ kf_est = Last(imu_states).est

\* No state is stamped earlier than the instant it describes: the correction
\* and the replay after it may leave a state behind its stamp, never ahead
\* (imu_processing.cpp:350-395).
NeverAhead ==
  /\ \A i \in 1 .. Len(imu_states) : imu_states[i].est <= imu_states[i].time
  /\ kf_state.est <= kf_state.time
  /\ pub_kf_state.est <= pub_kf_state.time

\* A state in the ring is the state at its measurement's own time.  The code does
\* not see to it; the run late_posterior is about it.
EstimateAtItsTime ==
  \A i \in 1 .. Len(imu_states) : imu_states[i].est = imu_states[i].time

\* The ring is in time order, and the window the loop reads without the mutex
\* never claims data the ring does not hold: its start is the oldest entry's
\* time, its end is not after the newest entry's, and is that when no callback
\* is half way (imu_processing.cpp:106-108).
RingInOrder ==
  /\ Sorted(imu_states)
  /\ imu_states # <<>> =>
       /\ imu_start_time = imu_states[1].time
       /\ imu_end_time <= Last(imu_states).time
       /\ ~imu_busy => imu_end_time = Last(imu_states).time

\* The filter is never propagated backwards in time: a message older than
\* the state would be "Imu time out of order" (imu_processing.cpp:46-48).  The
\* code does not see to it during the initialisation; see the README.
PredictForward ==
  [][kf_state'.time >= kf_state.time]_<<kf_state>>
=============================================================================
