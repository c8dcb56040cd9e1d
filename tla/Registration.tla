---------------------------- MODULE Registration ----------------------------
(***************************************************************************)
(* The match loop of TensorRegistration (map_processing.cpp:686-975), a     *)
(* parallel for over the scan, inside the filter's iterations: a thread     *)
(* that finds a neighbour for its point claims a row of the arrays          *)
(* ekfom_data_* with ++feat_cnt and fills it in, one array after the other; *)
(* behind the loop the first feat_cnt rows go to the filter.                *)
(*                                                                         *)
(* The arrays live from call to call.  Of what is in a row the model has    *)
(* the point it was computed from, and of what earlier calls left that it   *)
(* is Stale.  The neighbour, and the three conditions under which it is     *)
(* passed over, are a choice.  (The loop over the bins before, and what is  *)
(* made of the rows' sums after it, are scores: FilterIteration has them    *)
(* as Scores.)                                                              *)
(***************************************************************************)
EXTENDS FilterIteration

CONSTANTS
  Threads,    \* the threads of the team
  NumPoints   \* the points of a scan

ASSUME RegistrationAssumption == NumPoints \in Nat \ {0}

Points == 1 .. NumPoints
Primitives == {"plane", "line", "ball"}
Stale == 0

VARIABLES
  phase,           \* "none", or "match" in the loop
  ekfom_iter_cnt,  \* ekfom_iter_cnt_
  todo,            \* the points no thread has begun
  thread,          \* what each thread is at: its point and its row
  found,           \* what a point matched: a primitive, or "none"
  feat_cnt, prim_cnts,
  w, h_v, h_x_v,   \* the rows of ekfom_data_w_ (_ot_, _or_), _h_v_ and _h_x_v_
  data             \* h, h_x and h_x_R as the filter gets them, row by row

rows_vars == <<w, h_v, h_x_v>>
count_vars == <<feat_cnt, prim_cnts>>
reg_vars == <<phase, ekfom_iter_cnt, todo, thread, found, count_vars, rows_vars, data>>
all_vars == <<vars, reg_vars>>

RegInit ==
  /\ Init
  /\ phase = "none" /\ ekfom_iter_cnt = 0
  /\ todo = {} /\ thread = [th \in Threads |-> [at |-> "idle", pt |-> 0, feat_num |-> 0]]
  /\ found = [p \in Points |-> "none"]
  /\ feat_cnt = 0 /\ prim_cnts = [s \in Primitives |-> 0]
  /\ w = [r \in Points |-> Stale] /\ h_v = w /\ h_x_v = w
  /\ data = <<>>

-----------------------------------------------------------------------------

\* Mutant of IterationsAtStart: nobody starts the count over
IterationsKept == ekfom_iter_cnt

\* ekfom_iter_cnt_ = 0
IterationsAtStart == 0

\* TimerCallback, then the filter
StartRound ==
  /\ StartUpdate
  /\ ekfom_iter_cnt' = IterationsAtStart
  /\ UNCHANGED <<phase, todo, thread, found, count_vars, rows_vars, data>>

\* The counters are the call's own.
StartMatch ==
  /\ pc = "registration" /\ phase = "none"
  /\ phase' = "match"
  /\ todo' = Points
  /\ found' = [p \in Points |-> "none"]
  /\ feat_cnt' = 0 /\ prim_cnts' = [s \in Primitives |-> 0]
  /\ w' = [r \in Points |-> Stale] /\ h_v' = w' /\ h_x_v' = w'
  /\ data' = <<>>
  /\ UNCHANGED <<vars, ekfom_iter_cnt, thread>>

Goes(th, at, pt, feat_num) ==
  thread' = [thread EXCEPT ![th] = [at |-> at, pt |-> pt, feat_num |-> feat_num]]

\* A point of the thread's share: no neighbour within the radius, one whose
\* ellipsoid is not there, one left out for where it lies on the path, or a match.
SearchPoint(th) ==
  /\ phase = "match" /\ thread[th].at = "idle"
  /\ \E p \in todo :
       /\ todo' = todo \ {p}
       /\ \/ UNCHANGED <<thread, found>>
          \/ \E s \in Primitives :
               /\ Goes(th, "claim", p, 0)
               /\ found' = [found EXCEPT ![p] = s]
  /\ UNCHANGED <<vars, phase, ekfom_iter_cnt, count_vars, rows_vars, data>>

\* feat_num = ++feat_cnt
ClaimRow(th) ==
  /\ thread[th].at = "claim"
  /\ feat_cnt' = feat_cnt + 1
  /\ Goes(th, "count", thread[th].pt, feat_cnt + 1)
  /\ UNCHANGED <<vars, phase, ekfom_iter_cnt, todo, found, prim_cnts, rows_vars, data>>

\* prim_num = ++prim_cnts[sali_idx]
CountPrimitive(th) ==
  /\ thread[th].at = "count"
  /\ prim_cnts' = [prim_cnts EXCEPT ![found[thread[th].pt]] = @ + 1]
  /\ Goes(th, "weigh", thread[th].pt, thread[th].feat_num)
  /\ UNCHANGED <<vars, phase, ekfom_iter_cnt, todo, found, feat_cnt, rows_vars, data>>

\* Mutant of RowOf: the counter again, which may have gone on
RowOfCounter(th) == feat_cnt

\* The row, feat_num - 1, counted from 1
RowOf(th) == thread[th].feat_num

WriteWeight(th) ==
  /\ thread[th].at = "weigh"
  /\ w' = [w EXCEPT ![RowOf(th)] = thread[th].pt]
  /\ Goes(th, "observe", thread[th].pt, thread[th].feat_num)
  /\ UNCHANGED <<vars, phase, ekfom_iter_cnt, todo, found, count_vars, h_v, h_x_v, data>>

WriteObservation(th) ==
  /\ thread[th].at = "observe"
  /\ h_v' = [h_v EXCEPT ![RowOf(th)] = thread[th].pt]
  /\ h_x_v' = [h_x_v EXCEPT ![RowOf(th)] = thread[th].pt]
  /\ Goes(th, "idle", 0, 0)
  /\ UNCHANGED <<vars, phase, ekfom_iter_cnt, todo, found, count_vars, w, data>>

\* The loop's end waits for all; the first feat_tot rows are handed over.
HandOver ==
  /\ phase = "match" /\ todo = {}
  /\ \A th \in Threads : thread[th].at = "idle"
  /\ TensorRegistration
  /\ data' = [r \in 1 .. feat_cnt |-> [h |-> h_v[r], h_x |-> h_x_v[r], w |-> w[r]]]
  /\ ekfom_iter_cnt' = ekfom_iter_cnt + 1
  /\ phase' = "none"
  /\ UNCHANGED <<todo, thread, found, count_vars, rows_vars>>

\* The filter goes on by itself.
FilterGoesOn ==
  /\ FilterStep \/ Iterate \/ Finish
  /\ UNCHANGED reg_vars

RegNext ==
  \/ StartRound \/ StartMatch \/ HandOver \/ FilterGoesOn
  \/ \E th \in Threads :
       \/ SearchPoint(th) \/ ClaimRow(th) \/ CountPrimitive(th)
       \/ WriteWeight(th) \/ WriteObservation(th)

RegSpec == RegInit /\ [][RegNext]_all_vars

-----------------------------------------------------------------------------
(* Properties *)

Matched == {p \in Points : found[p] # "none"}

\* What the filter takes its step from has a row for each matched point and no
\* other: no row is an earlier call's, none is two points' mixed by two threads,
\* and the weight is that of the residual and the Jacobian beside it
\* (map_processing.cpp:870-879).
OneRowPerMatch ==
  pc = "step" =>
    /\ \A r \in DOMAIN data : data[r].h = data[r].h_x /\ data[r].h = data[r].w
    /\ \A q, r \in DOMAIN data : data[q].h = data[r].h => q = r
    /\ {data[r].h : r \in DOMAIN data} = Matched

\* The planes, lines and balls reported are the features reported, each
\* counted once, and the search radius is narrowed by the number of the
\* filter's iteration, which the node counts for itself
\* (map_processing.cpp:803, 870-872, 974, 1459).
CountsOfTheCall ==
  /\ pc = "step" =>
       /\ \A s \in Primitives : prim_cnts[s] = Cardinality({p \in Points : found[p] = s})
       /\ feat_cnt = Cardinality(Matched)
  /\ pc = "registration" => ekfom_iter_cnt = i + 1
=============================================================================
