----------------------------- MODULE CamProcess -----------------------------
(***************************************************************************)
(* CamProcess (cam_processing.h, cam_processing.cpp:25-84): the callback    *)
(* keeps the last images of one camera in a ring, and the mapping loop asks *)
(* for the image that goes with a scan.  The search has the ring's mutex    *)
(* from its first index to its last, so it is one action per branch of its  *)
(* loop with the callback's insertion held off meanwhile; only the test for *)
(* an empty ring is made before the lock.                                  *)
(*                                                                         *)
(* An image is its time stamp.  img_start_time_ and cam_has_data_ are left  *)
(* out: nothing depends on them.                                           *)
(***************************************************************************)
EXTENDS Integers, Sequences

CONSTANTS
  CamRate,       \* params_.rate, the nominal rate in Hz and the capacity of
                 \* the ring
  TicksPerSec,   \* the resolution of the model's clock
  MaxTime        \* bound: stamps, and the times looked for, are 1 .. MaxTime

ASSUME CamAssumption ==
  /\ CamRate \in Nat \ {0}
  /\ TicksPerSec \in Nat \ {0}
  /\ MaxTime \in Nat

VARIABLES
  img_buffer,     \* the times of img_buffer_
  img_end_time,   \* img_end_time_
  match_pc,       \* where GetMatchingImageTime is: "idle", "lock" or "walk"
  match_time,     \* the time it looks for
  match_idx,      \* match_idx, from 1
  has_img_match,  \* has_img_match_
  matched_img,    \* the time of matched_img_
  matched_for     \* history: the time matched_img was looked for

img_vars == <<img_buffer, img_end_time>>
match_vars == <<match_pc, match_time, match_idx, has_img_match, matched_img,
                matched_for>>
vars == <<img_vars, match_vars>>

\* match_idx is a place in the ring while the search runs.
TypeOK ==
  /\ img_buffer \in Seq(Int) /\ Len(img_buffer) <= CamRate
  /\ img_end_time \in Int
  /\ match_pc \in {"idle", "lock", "walk"}
  /\ match_time \in Int
  /\ match_idx \in Int
  /\ match_pc = "walk" => match_idx \in 1 .. Len(img_buffer)
  /\ has_img_match \in BOOLEAN
  /\ matched_img \in Int /\ matched_for \in Int

Init ==
  /\ img_buffer = <<>>
  /\ img_end_time = 0
  /\ match_pc = "idle"
  /\ match_time = 0
  /\ match_idx = 0
  /\ has_img_match = FALSE
  /\ matched_img = 0 /\ matched_for = 0

-----------------------------------------------------------------------------
(* The callback *)

\* Mutant of Accepts: images are taken in any order
AcceptsAnyOrder(stamp) == match_pc # "walk"

\* The image is not older than the newest one, and the mutex is free.
Accepts(stamp) == match_pc # "walk" /\ stamp >= img_end_time

CamCallback(stamp) ==
  /\ Accepts(stamp)
  /\ img_buffer' = IF Len(img_buffer) < CamRate
                     THEN Append(img_buffer, stamp)
                     ELSE Append(Tail(img_buffer), stamp)
  /\ img_end_time' = stamp
  /\ UNCHANGED match_vars

-----------------------------------------------------------------------------
(* GetMatchingImageTime *)

\* The loop asks; an empty ring is seen without the mutex.
AskForImage(t) ==
  /\ match_pc = "idle"
  /\ has_img_match' = FALSE
  /\ match_time' = t
  /\ match_pc' = IF img_buffer = <<>> THEN "idle" ELSE "lock"
  /\ UNCHANGED <<img_vars, match_idx, matched_img, matched_for>>

\* std::floor(time_diff * params_.rate), clamped to the ring
Guess(ring, t) ==
  LET g == ((t - ring[1]) * CamRate) \div TicksPerSec
  IN  IF g < 0 THEN 1 ELSE IF g >= Len(ring) THEN Len(ring) ELSE g + 1

LockAndGuess ==
  /\ match_pc = "lock"
  /\ match_idx' = Guess(img_buffer, match_time)
  /\ match_pc' = "walk"
  /\ UNCHANGED <<img_vars, match_time, has_img_match, matched_img,
                 matched_for>>

IsBefore(i) == img_buffer[i] < match_time

\* The image is earlier than the time and so is the next one.
StepForward ==
  /\ match_pc = "walk"
  /\ IsBefore(match_idx) /\ match_idx # Len(img_buffer)
  /\ IsBefore(match_idx + 1)
  /\ match_idx' = match_idx + 1
  /\ UNCHANGED <<img_vars, match_pc, match_time, has_img_match, matched_img,
                 matched_for>>

\* The image is not earlier than the time and is not the first one.
StepBack ==
  /\ match_pc = "walk"
  /\ ~IsBefore(match_idx) /\ match_idx # 1
  /\ match_idx' = match_idx - 1
  /\ UNCHANGED <<img_vars, match_pc, match_time, has_img_match, matched_img,
                 matched_for>>

\* Mutant of IsMatch: the oldest image does not end the search
IsMatchInside(ring, t, i) ==
  ring[i] < t /\ (i # Len(ring) => ring[i + 1] >= t)

\* Mutant of IsMatch: any earlier image ends it
IsAnyBefore(ring, t, i) == ring[i] >= t => i = 1

\* The places where the code sets match_flag
IsMatch(ring, t, i) ==
  IF ring[i] < t THEN i # Len(ring) => ring[i + 1] >= t ELSE i = 1

\* The search is over: the image is copied and the mutex freed.
TakeMatch ==
  /\ match_pc = "walk"
  /\ IsMatch(img_buffer, match_time, match_idx)
  /\ has_img_match' = TRUE
  /\ matched_img' = img_buffer[match_idx]
  /\ matched_for' = match_time
  /\ match_pc' = "idle"
  /\ UNCHANGED <<img_vars, match_time, match_idx>>

Search == LockAndGuess \/ StepForward \/ StepBack \/ TakeMatch

Next ==
  \/ \E stamp \in 1 .. MaxTime : CamCallback(stamp)
  \/ \E t \in 1 .. MaxTime : AskForImage(t)
  \/ Search

\* A search that has begun is sequential code and goes on; the callback gives
\* the mutex back after every image.  Nothing makes images arrive or the loop
\* ask for one.
Spec == Init /\ [][Next]_vars

FairSpec == Spec /\ SF_vars(Search)

-----------------------------------------------------------------------------
(* Properties *)

TimeOrdered(ring) ==
  \A i, j \in 1 .. Len(ring) : i <= j => ring[i] <= ring[j]

\* A search passes over no image: there is none in the ring between the one it
\* takes and the scan's time, on whichever side of that time; the ring may have
\* moved between the test for emptiness and the lock, and the guess may be off
\* on either side (cam_processing.cpp:45-84).
NoImagePassedOver ==
  [][match_pc = "walk" /\ match_pc' = "idle" =>
       \A i \in 1 .. Len(img_buffer) :
         /\ ~(matched_img' < img_buffer[i] /\ img_buffer[i] < match_time)
         /\ ~(match_time < img_buffer[i] /\ img_buffer[i] < matched_img')
    ]_vars

\* Of the images around the scan's time it is the one before, or the oldest in
\* the ring if all are later (cam_processing.cpp:63-81).
MatchIsLastBefore ==
  [][match_pc = "walk" /\ match_pc' = "idle" =>
       \/ /\ matched_img' < match_time
          /\ \A i \in 1 .. Len(img_buffer) :
               img_buffer[i] < match_time => img_buffer[i] <= matched_img'
       \/ /\ \A i \in 1 .. Len(img_buffer) :
               match_time <= img_buffer[i] /\ matched_img' <= img_buffer[i]
    ]_vars

\* Every search ends, with the mutex free again (cam_processing.cpp:63-83).
SearchEnds == match_pc # "idle" ~> match_pc = "idle"

\* Scans do not go back to older images: a search for the time of the last
\* match, or a later one, never takes an image older than that match, although
\* the ring drops images and a match may be later than the scan
\* (cam_processing.cpp:35-37, 63-81).
NeverAnOlderImage ==
  [][match_pc = "walk" /\ match_pc' = "idle" /\ match_time >= matched_for =>
       matched_img <= matched_img']_vars

\* What cam_processing.h:79-83 says of the search: no image in the ring is
\* nearer to the scan's time than the one it takes.  The code takes the one
\* before, and the constants of cam_process are enough for TLC to refute this.
TimeBetween(s, t) == IF s <= t THEN t - s ELSE s - t

MatchIsClosest ==
  [][match_pc = "walk" /\ match_pc' = "idle" =>
       \A i \in 1 .. Len(img_buffer) :
         TimeBetween(matched_img', match_time)
           <= TimeBetween(img_buffer[i], match_time)]_vars

=============================================================================
