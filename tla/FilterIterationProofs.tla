----------------------- MODULE FilterIterationProofs -----------------------
(***************************************************************************)
(* The iterated update for any number of iterations, any budget and any     *)
(* steps: its time stays bounded, and its covariance is that of its         *)
(* posterior.  The match loop, and what it counts, for any number of        *)
(* threads and points; and the scores kept, for any number of rows.         *)
(***************************************************************************)
EXTENDS Registration, FiniteSetTheorems, SequenceTheorems, TLAPS

\* A covariance holds the information of one registration of each of the
\* rounds up to r, and of no other.
HoldsEach(C, r) ==
  /\ \A h \in C.holds : h[1] \in 1 .. r
  /\ \A s \in 1 .. r :
       \E last \in Iterations : {h \in C.holds : h[1] = s} = {<<s, last>>}

\* What the propagated covariance and the one in hand are, by where the
\* update is
Covariances ==
  /\ pc = "idle" => P.at = x /\ HoldsEach(P, round)
  /\ pc # "idle" => /\ P_propagated.at = x_propagated
                    /\ round >= 1 /\ HoldsEach(P_propagated, round - 1)
  /\ pc = "judge" => P.at = x - dx /\ P.holds = P_propagated.holds

\* An iteration begins only while there is budget and it has not converged
\* twice.
Going ==
  /\ pc \in {"registration", "step"} => t <= 1 /\ 2 * solve_time <= MaxSolveTime
  /\ SolveTimeBounded

IInv == TypeOK /\ Covariances /\ Going

\* The filter starts with a prior that holds nothing.
LEMMA InitIInv == Init => IInv
<1> SUFFICES ASSUME Init PROVE IInv
  OBVIOUS
<1>1. scored \in Seq(Scores)
  BY DEF Init
<1>2. mean_cnt \in -1 .. NumRows - 1 /\ i \in Iterations
  BY FilterAssumption DEF Init, Iterations
<1>3. TypeOK
  BY <1>1, <1>2, FilterAssumption DEF Init, TypeOK, Prior, Covariance
<1>4. Covariances
  BY DEF Init, Covariances, HoldsEach, Prior
<1>5. Going
  BY FilterAssumption DEF Init, Going, SolveTimeBounded
<1> QED
  BY <1>3, <1>4, <1>5 DEF IInv

\* The next row is a row (map_processing.cpp:925).
LEMMA NextRowIsRow ==
  ASSUME mean_cnt \in -1 .. NumRows - 1
  PROVE  NextRow \in 0 .. NumRows - 1
<1>1. PICK n \in Nat : n = mean_cnt + 1
  BY FilterAssumption
<1>2. n % NumRows \in 0 .. NumRows - 1
  BY FilterAssumption, SMT
<1> QED
  BY <1>1, <1>2 DEF NextRow

\* A round begins with the covariance and the state predicted alike.
LEMMA StartIInv ==
  ASSUME IInv, StartUpdate
  PROVE  IInv'
<1>1. /\ pc = "idle" /\ pc' = "registration" /\ round' = round + 1
      /\ round' \in 1 .. MaxRounds /\ round \in Nat
      /\ UNCHANGED score_vars
      /\ i' = -1 /\ t' = 0 /\ solve_time' = 0 /\ dx' = 0
  BY FilterAssumption DEF IInv, TypeOK, StartUpdate
<1>2. PICK d \in Moves : x' = x + d /\ P' = Carried(P, d)
  BY DEF StartUpdate
<1>3. d \in Int /\ x \in Int /\ P \in Covariance
  BY <1>2, FilterAssumption DEF IInv, TypeOK, Moves
<1>4. /\ x' \in Int /\ x_propagated' = x' /\ P_propagated' = P'
      /\ P' \in Covariance /\ P'.at = P.at + d /\ P'.holds = P.holds
  BY <1>2, <1>3 DEF StartUpdate, Carried, Covariance
<1>5. TypeOK'
  BY <1>1, <1>4, FilterAssumption DEF IInv, TypeOK, Iterations, score_vars
<1>6. Covariances'
  BY <1>1, <1>2, <1>3, <1>4 DEF IInv, Covariances, HoldsEach
<1>7. Going'
  BY <1>1, FilterAssumption DEF Going, SolveTimeBounded
<1> QED
  BY <1>5, <1>6, <1>7 DEF IInv

\* A registration writes one score or fills the rows, and leaves the filter.
LEMMA RegistrationIInv ==
  ASSUME IInv, TensorRegistration
  PROVE  IInv'
<1>1. /\ pc = "registration" /\ pc' = "step"
      /\ UNCHANGED <<round, filter_vars>> /\ mean_cnt' = NextRow
  BY DEF TensorRegistration
<1>2. PICK s \in Scores : mean_score' = WithScore(s) /\ scored' = Append(scored, s)
  BY DEF TensorRegistration
<1>3. mean_cnt' \in -1 .. NumRows - 1
  BY <1>1, NextRowIsRow, FilterAssumption DEF IInv, TypeOK
<1>4. mean_score' \in [0 .. NumRows - 1 -> Nat]
  BY <1>2, FilterAssumption DEF IInv, TypeOK, WithScore
<1>5. scored' \in Seq(Scores)
  BY <1>2 DEF IInv, TypeOK
<1>6. TypeOK'
  BY <1>1, <1>3, <1>4, <1>5 DEF IInv, TypeOK, filter_vars
<1>7. Covariances' /\ Going'
  BY <1>1 DEF IInv, Covariances, HoldsEach, Going, SolveTimeBounded, filter_vars
<1> QED
  BY <1>6, <1>7 DEF IInv

\* A step starts from the propagated covariance, wherever earlier iterations
\* had led (esekfom.hpp:1784-1834).
LEMMA StepIInv ==
  ASSUME IInv, FilterStep
  PROVE  IInv'
<1>1. /\ pc = "step" /\ pc' = "judge"
      /\ UNCHANGED <<round, x_propagated, P_propagated, i, score_vars>>
      /\ P' = Carried(P_propagated, x - x_propagated)
      /\ dx' \in Int /\ x' = x + dx'
  BY FilterAssumption DEF FilterStep, AtThisState, Moves
<1>2. PICK d \in 0 .. MaxRegTime : solve_time' = solve_time + d
  BY DEF FilterStep
<1>3. /\ x \in Int /\ x_propagated \in Int /\ P_propagated \in Covariance
      /\ t \in 0 .. 1 /\ solve_time \in Nat /\ 2 * solve_time <= MaxSolveTime
      /\ P_propagated.at = x_propagated
  BY <1>1 DEF IInv, TypeOK, Going, Covariances
<1>4. /\ x' \in Int /\ P' \in Covariance
      /\ P'.at = x /\ P'.holds = P_propagated.holds
  BY <1>1, <1>3 DEF Carried, Covariance
<1>5. t' \in 0 .. 2
  BY <1>3 DEF FilterStep
<1>6. solve_time' \in Nat /\ 2 * solve_time' <= MaxSolveTime + 2 * MaxRegTime
  BY <1>2, <1>3, FilterAssumption
<1>7. TypeOK'
  BY <1>1, <1>4, <1>5, <1>6 DEF IInv, TypeOK, score_vars
<1>8. Covariances'
  BY <1>1, <1>3, <1>4 DEF IInv, Covariances, HoldsEach
<1>9. Going'
  BY <1>1, <1>6 DEF Going, SolveTimeBounded
<1> QED
  BY <1>7, <1>8, <1>9 DEF IInv

\* Another iteration has its number below maximum_iter.
LEMMA IterateIInv ==
  ASSUME IInv, Iterate
  PROVE  IInv'
<1>1. /\ pc = "judge" /\ pc' = "registration" /\ ~IsLast
      /\ i + 1 < MaximumIter /\ i' = i + 1
      /\ UNCHANGED <<round, x, x_propagated, P, P_propagated, dx, t,
                     solve_time, score_vars>>
  BY DEF Iterate
<1>2. i' \in Iterations
  BY <1>1, FilterAssumption DEF IInv, TypeOK, Iterations
<1>3. TypeOK'
  BY <1>1, <1>2 DEF IInv, TypeOK, score_vars
<1>4. Covariances'
  BY <1>1 DEF IInv, Covariances, HoldsEach
<1>5. Going'
  BY <1>1, FilterAssumption DEF IInv, TypeOK, IsLast, Going, SolveTimeBounded
<1> QED
  BY <1>3, <1>4, <1>5 DEF IInv

\* The last step carries the covariance to the posterior, and the round's one
\* registration is added to those it holds (esekfom.hpp:1906-1969).
LEMMA FinishIInv ==
  ASSUME IInv, Finish
  PROVE  IInv'
<1>1. /\ pc = "judge" /\ pc' = "idle"
      /\ P' = [Carried(P, dx) EXCEPT !.holds = @ \cup {<<round, i>>}]
      /\ UNCHANGED <<round, x, x_propagated, P_propagated, dx, i, t,
                     solve_time, score_vars>>
  BY DEF Finish
<1>2. /\ x \in Int /\ dx \in Int /\ P \in Covariance /\ P.at = x - dx
      /\ round \in 1 .. MaxRounds /\ i \in Iterations
      /\ P.holds = P_propagated.holds /\ HoldsEach(P_propagated, round - 1)
  BY <1>1, FilterAssumption DEF IInv, TypeOK, Covariances
<1>3. P' = [at |-> P.at + dx, holds |-> P.holds \cup {<<round, i>>}]
  BY <1>1, <1>2 DEF Carried, Covariance
<1>4. P'.at = x /\ P'.holds = P.holds \cup {<<round, i>>}
  BY <1>2, <1>3
<1>5. P' \in Covariance
  <2>1. <<round, i>> \in Nat \X Int
    BY <1>2, FilterAssumption DEF Iterations
  <2> QED
    BY <1>2, <1>3, <2>1 DEF Covariance
<1>6. HoldsEach(P', round)
  <2>1. \A h \in P'.holds : h[1] \in 1 .. round
    BY <1>2, <1>4 DEF HoldsEach
  <2>2. ASSUME NEW s \in 1 .. round
        PROVE  \E last \in Iterations :
                 {h \in P'.holds : h[1] = s} = {<<s, last>>}
    <3>1. CASE s = round
      <4>1. \A h \in P.holds : h[1] # round
        BY <1>2 DEF HoldsEach
      <4>2. {h \in P'.holds : h[1] = s} = {<<s, i>>}
        BY <1>4, <3>1, <4>1
      <4> QED
        BY <1>2, <4>2
    <3>2. CASE s # round
      <4>1. s \in 1 .. round - 1
        BY <1>2, <3>2
      <4>2. PICK last \in Iterations : {h \in P.holds : h[1] = s} = {<<s, last>>}
        BY <1>2, <4>1 DEF HoldsEach
      <4>3. {h \in P'.holds : h[1] = s} = {h \in P.holds : h[1] = s}
        BY <1>4, <3>2
      <4> QED
        BY <4>2, <4>3
    <3> QED
      BY <3>1, <3>2
  <2> QED
    BY <2>1, <2>2 DEF HoldsEach
<1>7. TypeOK'
  BY <1>1, <1>5 DEF IInv, TypeOK, score_vars
<1>8. Covariances' /\ Going'
  BY <1>1, <1>4, <1>6 DEF IInv, Covariances, Going, SolveTimeBounded, HoldsEach
<1> QED
  BY <1>7, <1>8 DEF IInv

\* Every step keeps the invariant.
LEMMA NextIInv == IInv /\ [Next]_vars => IInv'
<1>1. ASSUME IInv, UNCHANGED vars PROVE IInv'
  BY <1>1 DEF IInv, TypeOK, Covariances, HoldsEach, Going, SolveTimeBounded,
    vars, filter_vars, score_vars
<1> QED
  BY <1>1, StartIInv, RegistrationIInv, StepIInv, IterateIInv, FinishIInv
  DEF Next

\* The invariant holds throughout.
LEMMA Inductive == Spec => []IInv
BY InitIInv, NextIInv, PTL DEF Spec

-----------------------------------------------------------------------------
(* The match loop *)

\* Whatever the threads do, the filter sees one registration.
LEMMA RegImplements == RegSpec => Spec
<1>1. RegInit => Init
  BY DEF RegInit
<1>2. [RegNext]_all_vars => [Next]_vars
  <2> SUFFICES ASSUME RegNext \/ UNCHANGED all_vars PROVE Next \/ UNCHANGED vars
    OBVIOUS
  <2>1. CASE StartRound \/ HandOver \/ FilterGoesOn
    BY <2>1 DEF StartRound, HandOver, FilterGoesOn, Next
  <2>2. CASE StartMatch
    BY <2>2 DEF StartMatch
  <2>3. ASSUME NEW th \in Threads,
               \/ SearchPoint(th) \/ ClaimRow(th) \/ CountPrimitive(th)
               \/ WriteWeight(th) \/ WriteObservation(th)
        PROVE  UNCHANGED vars
    BY <2>3 DEF SearchPoint, ClaimRow, CountPrimitive, WriteWeight, WriteObservation
  <2>4. CASE UNCHANGED all_vars
    BY <2>4 DEF all_vars
  <2> QED
    BY <2>1, <2>2, <2>3, <2>4 DEF RegNext
<1> QED
  BY <1>1, <1>2, PTL DEF RegSpec, Spec

Writing == {"count", "weigh", "observe"}
Rows == 1 .. feat_cnt
Complete(r, p) == w[r] = p /\ h_v[r] = p /\ h_x_v[r] = p

RegTypes ==
  /\ phase \in {"none", "match"} /\ (phase = "match" => pc = "registration")
  /\ todo \subseteq Points /\ feat_cnt \in Nat
  /\ thread \in [Threads -> [at : {"idle", "claim"} \cup Writing,
                             pt : 0 .. NumPoints, feat_num : Nat]]
  /\ found \in [Points -> Primitives \cup {"none"}]
  /\ w \in [Points -> 0 .. NumPoints] /\ h_v \in [Points -> 0 .. NumPoints]
  /\ h_x_v \in [Points -> 0 .. NumPoints]

\* own says whose each claimed row is: a row is a thread's that is filling it
\* in, or complete.
RowsOf(own) ==
  /\ own \in [Rows -> Points]
  /\ \A q, r \in Rows : own[q] = own[r] => q = r
  /\ \A p \in todo : found[p] = "none"
  /\ \A r \in Rows : found[own[r]] # "none"
  /\ \A r \in Rows :
       \/ \E th \in Threads : thread[th].at \in Writing /\ thread[th].feat_num = r
       \/ Complete(r, own[r])
  /\ \A th \in Threads :
       thread[th].at \in Writing => /\ thread[th].feat_num \in Rows
                                    /\ own[thread[th].feat_num] = thread[th].pt
  /\ \A th \in Threads :
       thread[th].at = "observe" => w[thread[th].feat_num] = thread[th].pt
  /\ \A th \in Threads :
       thread[th].at = "claim" => /\ thread[th].pt \in Points
                                  /\ found[thread[th].pt] # "none"
                                  /\ \A r \in Rows : own[r] # thread[th].pt
  /\ \A th, u \in Threads :
       thread[th].at # "idle" /\ thread[u].at # "idle"
         /\ thread[th].pt = thread[u].pt => th = u
  /\ \A p \in Points :
       found[p] # "none" => \/ \E r \in Rows : own[r] = p
                            \/ \E th \in Threads : /\ thread[th].at = "claim"
                                                   /\ thread[th].pt = p

RegInv ==
  /\ RegTypes
  /\ phase = "match" => \E own : RowsOf(own)
  /\ phase = "none" => \A th \in Threads : thread[th].at = "idle"
  /\ OneRowPerMatch

\* Rows with a point each are no more than the points.
LEMMA NoMoreRows ==
  ASSUME NEW m \in Nat, NEW own \in [1 .. m -> Points],
         \A q, r \in 1 .. m : own[q] = own[r] => q = r
  PROVE  m <= NumPoints
<1> SUFFICES ASSUME m > NumPoints PROVE FALSE
  BY RegistrationAssumption
<1>1. /\ IsFiniteSet(1 .. m) /\ Cardinality(1 .. m) = m
      /\ IsFiniteSet(Points) /\ Cardinality(Points) = NumPoints
  BY RegistrationAssumption, FS_Interval DEF Points
<1>2. \E q, r \in 1 .. m : q # r /\ own[q] = own[r]
  BY <1>1, RegistrationAssumption, FS_PigeonHole
<1> QED
  BY <1>2

\* The threads begin idle.
LEMMA InitRegInv == RegInit => RegInv
BY RegistrationAssumption
DEF RegInit, RegInv, RegTypes, Points, Stale, Init, OneRowPerMatch

\* At the start of the loop no row is claimed.
LEMMA StartMatchInv ==
  ASSUME RegInv, StartMatch
  PROVE  RegInv'
<1>1. RegTypes'
  BY RegistrationAssumption DEF RegInv, RegTypes, StartMatch, vars, Points, Stale
<1>2. \A th \in Threads : thread'[th].at = "idle"
  BY DEF RegInv, StartMatch
<1>3. RowsOf([r \in 1 .. 0 |-> 1])'
  BY <1>2 DEF StartMatch, RowsOf, Rows, Writing, Points
<1> QED
  BY <1>1, <1>3 DEF RegInv, StartMatch, OneRowPerMatch, vars


\* A thread that is done searching for a point has it alone.
LEMMA SearchPointInv ==
  ASSUME RegInv, NEW th \in Threads, SearchPoint(th)
  PROVE  RegInv'
<1>1. PICK p \in todo :
        /\ todo' = todo \ {p}
        /\ \/ thread' = thread /\ found' = found
           \/ \E s \in Primitives :
                /\ Goes(th, "claim", p, 0)
                /\ found' = [found EXCEPT ![p] = s]
  BY DEF SearchPoint
<1>2. /\ phase = "match" /\ phase' = phase /\ pc' = pc /\ pc = "registration"
      /\ thread[th].at = "idle" /\ feat_cnt' = feat_cnt /\ w' = w
      /\ h_v' = h_v /\ h_x_v' = h_x_v /\ RegTypes /\ Rows' = Rows
  BY DEF SearchPoint, RegInv, RegTypes, vars, count_vars, rows_vars, Rows
<1>3. PICK own : RowsOf(own)
  BY <1>2 DEF RegInv
<1>4. p \in Points /\ found[p] = "none"
  BY <1>1, <1>2, <1>3 DEF RegTypes, RowsOf
<1>5. CASE thread' = thread /\ found' = found
  <2>1. RegTypes'
    BY <1>1, <1>2, <1>5 DEF RegTypes
  <2>2. RowsOf(own)'
    BY <1>1, <1>2, <1>3, <1>5 DEF RowsOf, Complete
  <2> QED
    BY <1>2, <2>1, <2>2 DEF RegInv, OneRowPerMatch
<1>6. ASSUME NEW s \in Primitives,
             Goes(th, "claim", p, 0),
             found' = [found EXCEPT ![p] = s]
      PROVE  RegInv'
  <2>1. /\ s # "none" /\ found' \in [Points -> Primitives \cup {"none"}]
        /\ \A q \in Points : found'[q] = IF q = p THEN s ELSE found[q]
    BY <1>2, <1>4, <1>6 DEF RegTypes, Primitives
  <2>2. /\ thread'[th].at = "claim" /\ thread'[th].pt = p
        /\ \A u \in Threads : u # th => thread'[u] = thread[u]
        /\ thread' \in [Threads -> [at : {"idle", "claim"} \cup Writing,
                                    pt : 0 .. NumPoints, feat_num : Nat]]
    BY <1>2, <1>4, <1>6 DEF RegTypes, Points, Goes
  <2>3. RegTypes'
    BY <1>1, <1>2, <2>1, <2>2 DEF RegTypes
  <2>4. \A u \in Threads : thread[u].at # "idle" => thread[u].pt # p /\ u # th
    <3> SUFFICES ASSUME NEW u \in Threads, thread[u].at # "idle"
                 PROVE  thread[u].pt # p
      BY <1>2
    <3>1. thread[u].at \in Writing \/ thread[u].at = "claim"
      BY <1>2 DEF RegTypes
    <3> QED
      BY <1>3, <1>4, <3>1 DEF RowsOf
  <2>5. \A r \in Rows : own[r] # p /\ own[r] \in Points
    BY <1>3, <1>4 DEF RowsOf
  <2>6. RowsOf(own)'
    <3>1. /\ own \in [Rows -> Points]
          /\ \A q, r \in Rows : own[q] = own[r] => q = r
          /\ \A q \in todo' : found'[q] = "none"
          /\ \A r \in Rows : found'[own[r]] # "none"
      BY <1>1, <1>2, <1>3, <2>1, <2>5 DEF RowsOf, RegTypes
    <3>2. \A r \in Rows :
            \/ \E u \in Threads : thread'[u].at \in Writing /\ thread'[u].feat_num = r
            \/ Complete(r, own[r])'
      <4> SUFFICES ASSUME NEW r \in Rows, ~Complete(r, own[r])
                   PROVE  \E u \in Threads : /\ thread'[u].at \in Writing
                                             /\ thread'[u].feat_num = r
        BY <1>2 DEF Complete
      <4>1. PICK u \in Threads : thread[u].at \in Writing /\ thread[u].feat_num = r
        BY <1>3 DEF RowsOf
      <4>2. u # th
        BY <1>2, <4>1 DEF Writing
      <4> QED
        BY <2>2, <4>1, <4>2
    <3>3. \A u \in Threads : thread'[u].at # "claim" => u # th /\ thread'[u] = thread[u]
      BY <2>2
    <3>4. \A u \in Threads :
            thread'[u].at \in Writing => /\ thread'[u].feat_num \in Rows
                                         /\ own[thread'[u].feat_num] = thread'[u].pt
      BY <1>3, <3>3 DEF RowsOf, Writing
    <3>5. \A u \in Threads :
            thread'[u].at = "observe" => w'[thread'[u].feat_num] = thread'[u].pt
      BY <1>2, <1>3, <3>3 DEF RowsOf
    <3>6. \A u \in Threads :
            thread'[u].at = "claim" => /\ thread'[u].pt \in Points
                                       /\ found'[thread'[u].pt] # "none"
                                       /\ \A r \in Rows : own[r] # thread'[u].pt
      <4> SUFFICES ASSUME NEW u \in Threads, thread'[u].at = "claim"
                   PROVE  /\ thread'[u].pt \in Points /\ found'[thread'[u].pt] # "none"
                          /\ \A r \in Rows : own[r] # thread'[u].pt
        OBVIOUS
      <4>1. CASE u = th
        BY <1>4, <2>1, <2>2, <2>5, <4>1
      <4>2. CASE u # th
        BY <1>3, <2>1, <2>2, <4>2 DEF RowsOf
      <4> QED
        BY <4>1, <4>2
    <3>7. \A u, v \in Threads :
            thread'[u].at # "idle" /\ thread'[v].at # "idle"
              /\ thread'[u].pt = thread'[v].pt => u = v
      <4> SUFFICES ASSUME NEW u \in Threads, NEW v \in Threads, u # v,
                          thread'[u].at # "idle", thread'[v].at # "idle"
                   PROVE  thread'[u].pt # thread'[v].pt
        OBVIOUS
      <4>1. CASE u = th
        BY <2>2, <2>4, <4>1
      <4>2. CASE v = th
        BY <2>2, <2>4, <4>2
      <4>3. CASE u # th /\ v # th
        BY <1>3, <2>2, <4>3 DEF RowsOf
      <4> QED
        BY <4>1, <4>2, <4>3
    <3>8. \A q \in Points :
            found'[q] # "none" => \/ \E r \in Rows : own[r] = q
                                  \/ \E u \in Threads : /\ thread'[u].at = "claim"
                                                        /\ thread'[u].pt = q
      <4> SUFFICES ASSUME NEW q \in Points, found'[q] # "none", \A r \in Rows : own[r] # q
                   PROVE  \E u \in Threads : thread'[u].at = "claim" /\ thread'[u].pt = q
        OBVIOUS
      <4>1. CASE q = p
        BY <2>2, <4>1
      <4>2. CASE q # p
        <5>1. PICK u \in Threads : thread[u].at = "claim" /\ thread[u].pt = q
          BY <1>3, <2>1, <4>2 DEF RowsOf
        <5> QED
          BY <1>2, <2>2, <5>1
      <4> QED
        BY <4>1, <4>2
    <3> QED
      BY <1>2, <3>1, <3>2, <3>4, <3>5, <3>6, <3>7, <3>8 DEF RowsOf
  <2> QED
    BY <1>2, <2>3, <2>6 DEF RegInv, OneRowPerMatch
<1> QED
  BY <1>1, <1>5, <1>6

\* A thread that fills a row in has the row alone, and it is a row.
LEMMA WritingFacts ==
  ASSUME RegTypes, NEW own, RowsOf(own), NEW th \in Threads, thread[th].at \in Writing
  PROVE  /\ thread[th].feat_num \in Points /\ thread[th].feat_num \in Rows
         /\ thread[th].pt \in Points /\ own[thread[th].feat_num] = thread[th].pt
         /\ \A u \in Threads : u # th /\ thread[u].at \in Writing =>
              thread[u].feat_num # thread[th].feat_num
<1>1. /\ thread[th].feat_num \in Rows /\ own[thread[th].feat_num] = thread[th].pt
      /\ own \in [Rows -> Points]
  BY DEF RowsOf
<1>2. feat_cnt <= NumPoints
  BY NoMoreRows DEF RowsOf, Rows, RegTypes
<1>3. \A u \in Threads : u # th /\ thread[u].at \in Writing =>
        thread[u].feat_num # thread[th].feat_num
  <2> SUFFICES ASSUME NEW u \in Threads, u # th, thread[u].at \in Writing,
                      thread[u].feat_num = thread[th].feat_num
               PROVE  FALSE
    OBVIOUS
  <2>1. thread[u].pt = thread[th].pt
    BY DEF RowsOf
  <2> QED
    BY <2>1 DEF RowsOf, Writing
<1> QED
  BY <1>1, <1>2, <1>3, RegistrationAssumption DEF Rows, Points, RegTypes

\* A row more, and the claiming thread's point is its.
LEMMA ClaimRowInv ==
  ASSUME RegInv, NEW th \in Threads, ClaimRow(th)
  PROVE  RegInv'
<1> DEFINE p == thread[th].pt
           n == feat_cnt + 1
<1>1. /\ thread[th].at = "claim" /\ feat_cnt' = n /\ Goes(th, "count", p, n)
      /\ phase' = phase /\ pc' = pc /\ todo' = todo /\ found' = found
      /\ w' = w /\ h_v' = h_v /\ h_x_v' = h_x_v
      /\ phase = "match" /\ pc = "registration" /\ RegTypes
  BY DEF ClaimRow, RegInv, RegTypes, vars, rows_vars
<1>2. PICK own : RowsOf(own)
  BY <1>1 DEF RegInv
<1>a. PICK more : more = [r \in 1 .. n |-> IF r = n THEN p ELSE own[r]]
  OBVIOUS
<1>3. /\ Rows' = 1 .. n /\ n \in Rows' /\ \A r \in Rows' : r # n => r \in Rows
      /\ \A r \in Rows : r # n /\ r \in Rows' /\ n \in Nat
  BY <1>1 DEF Rows, RegTypes
<1>4. /\ p \in Points /\ found[p] # "none" /\ \A r \in Rows : own[r] # p
      /\ own \in [Rows -> Points]
  BY <1>1, <1>2 DEF RowsOf
<1>5. /\ more[n] = p /\ \A r \in Rows : more[r] = own[r]
      /\ more \in [Rows' -> Points]
  BY <1>a, <1>3, <1>4
<1>6. /\ thread'[th].at = "count" /\ thread'[th].pt = p /\ thread'[th].feat_num = n
      /\ \A u \in Threads : u # th => thread'[u] = thread[u]
      /\ thread' \in [Threads -> [at : {"idle", "claim"} \cup Writing,
                                  pt : 0 .. NumPoints, feat_num : Nat]]
  BY <1>1, <1>3, <1>4 DEF RegTypes, Goes, Writing, Points
<1>7. RegTypes'
  BY <1>1, <1>3, <1>6 DEF RegTypes
<1> HIDE DEF n
<1>8. RowsOf(more)'
  <2>1. \A q, r \in Rows' : more[q] = more[r] => q = r
    BY <1>2, <1>3, <1>4, <1>5 DEF RowsOf
  <2>2. \A q \in todo' : found'[q] = "none"
    BY <1>1, <1>2 DEF RowsOf
  <2>3. \A r \in Rows' : found'[more[r]] # "none"
    BY <1>1, <1>2, <1>3, <1>4, <1>5 DEF RowsOf
  <2>4. \A r \in Rows' :
          \/ \E u \in Threads : thread'[u].at \in Writing /\ thread'[u].feat_num = r
          \/ Complete(r, more[r])'
    <3> SUFFICES ASSUME NEW r \in Rows', ~Complete(r, more[r])'
                 PROVE  \E u \in Threads : /\ thread'[u].at \in Writing
                                           /\ thread'[u].feat_num = r
      OBVIOUS
    <3>1. CASE r = n
      BY <1>6, <3>1 DEF Writing
    <3>2. CASE r # n
      <4>1. r \in Rows /\ ~Complete(r, own[r])
        BY <1>1, <1>3, <1>5, <3>2 DEF Complete
      <4>2. PICK u \in Threads : thread[u].at \in Writing /\ thread[u].feat_num = r
        BY <1>2, <4>1 DEF RowsOf
      <4>3. u # th
        BY <1>1, <4>2 DEF Writing
      <4> QED
        BY <1>6, <4>2, <4>3
    <3> QED
      BY <3>1, <3>2
  <2>5. \A u \in Threads :
          thread'[u].at \in Writing => /\ thread'[u].feat_num \in Rows'
                                       /\ more[thread'[u].feat_num] = thread'[u].pt
    <3> SUFFICES ASSUME NEW u \in Threads, thread'[u].at \in Writing
                 PROVE  /\ thread'[u].feat_num \in Rows'
                        /\ more[thread'[u].feat_num] = thread'[u].pt
      OBVIOUS
    <3>1. CASE u = th
      BY <1>3, <1>5, <1>6, <3>1
    <3>2. CASE u # th
      <4>1. thread[u].feat_num \in Rows /\ own[thread[u].feat_num] = thread[u].pt
        BY <1>2, <1>6, <3>2 DEF RowsOf
      <4> QED
        BY <1>3, <1>5, <1>6, <3>2, <4>1
    <3> QED
      BY <3>1, <3>2
  <2>6. \A u \in Threads :
          thread'[u].at = "observe" => w'[thread'[u].feat_num] = thread'[u].pt
    BY <1>1, <1>2, <1>6 DEF RowsOf
  <2>7. \A u \in Threads :
          thread'[u].at = "claim" => /\ thread'[u].pt \in Points
                                     /\ found'[thread'[u].pt] # "none"
                                     /\ \A r \in Rows' : more[r] # thread'[u].pt
    <3> SUFFICES ASSUME NEW u \in Threads, thread'[u].at = "claim"
                 PROVE  /\ thread'[u].pt \in Points /\ found'[thread'[u].pt] # "none"
                        /\ \A r \in Rows' : more[r] # thread'[u].pt
      OBVIOUS
    <3>1. u # th /\ thread[u].at = "claim" /\ thread'[u].pt = thread[u].pt
      BY <1>6
    <3>2. thread[u].pt # p
      BY <1>1, <1>2, <3>1 DEF RowsOf
    <3> QED
      BY <1>1, <1>2, <1>3, <1>5, <3>1, <3>2 DEF RowsOf
  <2>8. \A u, v \in Threads :
          thread'[u].at # "idle" /\ thread'[v].at # "idle"
            /\ thread'[u].pt = thread'[v].pt => u = v
    <3>1. \A u \in Threads : thread'[u].pt = thread[u].pt
      BY <1>6
    <3>2. \A u \in Threads : thread'[u].at # "idle" => thread[u].at # "idle"
      BY <1>1, <1>6
    <3> QED
      BY <1>2, <3>1, <3>2 DEF RowsOf
  <2>9. \A q \in Points :
          found'[q] # "none" => \/ \E r \in Rows' : more[r] = q
                                \/ \E u \in Threads : /\ thread'[u].at = "claim"
                                                      /\ thread'[u].pt = q
    <3> SUFFICES ASSUME NEW q \in Points, found'[q] # "none", \A r \in Rows' : more[r] # q
                 PROVE  \E u \in Threads : thread'[u].at = "claim" /\ thread'[u].pt = q
      OBVIOUS
    <3>1. q # p /\ \A r \in Rows : own[r] # q
      BY <1>3, <1>5
    <3>2. PICK u \in Threads : thread[u].at = "claim" /\ thread[u].pt = q
      BY <1>1, <1>2, <3>1 DEF RowsOf
    <3> QED
      BY <1>6, <3>1, <3>2
  <2> QED
    BY <1>5, <2>1, <2>2, <2>3, <2>4, <2>5, <2>6, <2>7, <2>8, <2>9 DEF RowsOf
<1> QED
  BY <1>1, <1>7, <1>8 DEF RegInv, OneRowPerMatch

\* A thread goes on filling its row in: to the next array, or it is done with
\* the row complete.
LEMMA WriteInv ==
  ASSUME RegInv, phase = "match", NEW th \in Threads, thread[th].at \in Writing,
         NEW own, RowsOf(own), NEW n, NEW p,
         n = thread[th].feat_num, p = thread[th].pt,
         UNCHANGED <<phase, pc, todo, found, feat_cnt>>,
         w' \in [Points -> 0 .. NumPoints], h_v' \in [Points -> 0 .. NumPoints],
         h_x_v' \in [Points -> 0 .. NumPoints],
         \A r \in Points : r # n =>
           w'[r] = w[r] /\ h_v'[r] = h_v[r] /\ h_x_v'[r] = h_x_v[r],
         \/ \E a \in Writing : Goes(th, a, p, n) /\ (a = "observe" => w'[n] = p)
         \/ Goes(th, "idle", 0, 0) /\ Complete(n, p)'
  PROVE  RegInv'
<1>1. RegTypes /\ pc = "registration"
  BY DEF RegInv, RegTypes
<1>2. /\ n \in Points /\ n \in Rows /\ p \in Points /\ own[n] = p /\ n \in Nat
      /\ \A u \in Threads : u # th /\ thread[u].at \in Writing => thread[u].feat_num # n
  BY <1>1, WritingFacts DEF Points
<1>3. Rows' = Rows /\ Rows \subseteq Points
  <2>1. feat_cnt <= NumPoints
    BY <1>1, NoMoreRows DEF RowsOf, Rows, RegTypes
  <2> QED
    BY <1>1, <2>1, RegistrationAssumption DEF Rows, Points, RegTypes
<1>4. /\ \A u \in Threads : u # th => thread'[u] = thread[u]
      /\ thread' \in [Threads -> [at : {"idle", "claim"} \cup Writing,
                                  pt : 0 .. NumPoints, feat_num : Nat]]
      /\ \/ /\ thread'[th].at \in Writing /\ thread'[th].pt = p /\ thread'[th].feat_num = n
            /\ thread'[th].at = "observe" => w'[n] = p
         \/ thread'[th].at = "idle" /\ Complete(n, p)'
  <2>1. ASSUME NEW a \in {"idle"} \cup Writing, NEW q \in 0 .. NumPoints, NEW m \in Nat,
               Goes(th, a, q, m)
        PROVE  /\ thread'[th].at = a /\ thread'[th].pt = q /\ thread'[th].feat_num = m
               /\ \A u \in Threads : u # th => thread'[u] = thread[u]
               /\ thread' \in [Threads -> [at : {"idle", "claim"} \cup Writing,
                                           pt : 0 .. NumPoints, feat_num : Nat]]
    BY <1>1, <2>1 DEF RegTypes, Goes
  <2>2. p \in 0 .. NumPoints /\ 0 \in 0 .. NumPoints
    BY <1>2, RegistrationAssumption DEF Points
  <2>3. ASSUME NEW a \in Writing, Goes(th, a, p, n), a = "observe" => w'[n] = p
        PROVE  <1>4!:
    <3>1. /\ thread'[th].at = a /\ thread'[th].pt = p /\ thread'[th].feat_num = n
          /\ \A u \in Threads : u # th => thread'[u] = thread[u]
          /\ thread' \in [Threads -> [at : {"idle", "claim"} \cup Writing,
                                      pt : 0 .. NumPoints, feat_num : Nat]]
      BY <1>2, <2>1, <2>2, <2>3
    <3>2. thread'[th].at \in Writing /\ (thread'[th].at = "observe" => w'[n] = p)
      BY <2>3, <3>1
    <3> QED
      BY <3>1, <3>2, Zenon
  <2>4. ASSUME Goes(th, "idle", 0, 0), Complete(n, p)'
        PROVE  <1>4!:
    BY <2>1, <2>2, <2>4
  <2> QED
    BY <2>3, <2>4
<1>5. RegTypes'
  BY <1>1, <1>4 DEF RegTypes
<1>6. RowsOf(own)'
  <2>1. /\ own \in [Rows' -> Points]
        /\ \A q, r \in Rows' : own[q] = own[r] => q = r
        /\ \A q \in todo' : found'[q] = "none"
        /\ \A r \in Rows' : found'[own[r]] # "none"
    BY <1>3 DEF RowsOf
  <2>2. \A r \in Rows' :
          \/ \E u \in Threads : thread'[u].at \in Writing /\ thread'[u].feat_num = r
          \/ Complete(r, own[r])'
    <3> SUFFICES ASSUME NEW r \in Rows, ~Complete(r, own[r])'
                 PROVE  \E u \in Threads : /\ thread'[u].at \in Writing
                                           /\ thread'[u].feat_num = r
      BY <1>3
    <3>1. CASE r = n
      BY <1>2, <1>4, <3>1
    <3>2. CASE r # n
      <4>1. ~Complete(r, own[r])
        BY <1>3, <3>2 DEF Complete
      <4>2. PICK u \in Threads : thread[u].at \in Writing /\ thread[u].feat_num = r
        BY <4>1 DEF RowsOf
      <4>3. u # th
        BY <3>2, <4>2
      <4> QED
        BY <1>4, <4>2, <4>3
    <3> QED
      BY <3>1, <3>2
  <2>3. \A u \in Threads :
          thread'[u].at \in Writing => /\ thread'[u].feat_num \in Rows'
                                       /\ own[thread'[u].feat_num] = thread'[u].pt
    <3> SUFFICES ASSUME NEW u \in Threads, thread'[u].at \in Writing
                 PROVE  /\ thread'[u].feat_num \in Rows'
                        /\ own[thread'[u].feat_num] = thread'[u].pt
      OBVIOUS
    <3>1. CASE u = th
      BY <1>2, <1>3, <1>4, <3>1 DEF Writing
    <3>2. CASE u # th
      BY <1>3, <1>4, <3>2 DEF RowsOf
    <3> QED
      BY <3>1, <3>2
  <2>4. \A u \in Threads :
          thread'[u].at = "observe" => w'[thread'[u].feat_num] = thread'[u].pt
    <3> SUFFICES ASSUME NEW u \in Threads, thread'[u].at = "observe"
                 PROVE  w'[thread'[u].feat_num] = thread'[u].pt
      OBVIOUS
    <3>1. CASE u = th
      BY <1>4, <3>1
    <3>2. CASE u # th
      <4>1. thread[u].at = "observe" /\ thread[u].at \in Writing /\ thread'[u] = thread[u]
        BY <1>4, <3>2 DEF Writing
      <4>2. thread[u].feat_num \in Points /\ thread[u].feat_num # n
        BY <1>2, <1>3, <3>2, <4>1 DEF RowsOf
      <4> QED
        BY <4>1, <4>2 DEF RowsOf
    <3> QED
      BY <3>1, <3>2
  <2>5. \A u \in Threads : thread'[u].at = "claim" =>
          u # th /\ thread[u].at = "claim" /\ thread'[u] = thread[u]
    BY <1>4 DEF Writing
  <2>6. \A u \in Threads :
          thread'[u].at = "claim" => /\ thread'[u].pt \in Points
                                     /\ found'[thread'[u].pt] # "none"
                                     /\ \A r \in Rows' : own[r] # thread'[u].pt
    BY <1>3, <2>5 DEF RowsOf
  <2>7. \A u, v \in Threads :
          thread'[u].at # "idle" /\ thread'[v].at # "idle"
            /\ thread'[u].pt = thread'[v].pt => u = v
    <3>1. \A u \in Threads : thread'[u].at # "idle" =>
            thread[u].at # "idle" /\ thread'[u].pt = thread[u].pt
      BY <1>4 DEF Writing
    <3> QED
      BY <3>1 DEF RowsOf
  <2>8. \A q \in Points :
          found'[q] # "none" => \/ \E r \in Rows' : own[r] = q
                                \/ \E u \in Threads : /\ thread'[u].at = "claim"
                                                      /\ thread'[u].pt = q
    <3> SUFFICES ASSUME NEW q \in Points, found'[q] # "none", \A r \in Rows : own[r] # q
                 PROVE  \E u \in Threads : thread'[u].at = "claim" /\ thread'[u].pt = q
      BY <1>3
    <3>1. PICK u \in Threads : thread[u].at = "claim" /\ thread[u].pt = q
      BY DEF RowsOf
    <3>2. u # th
      BY <3>1 DEF Writing
    <3> QED
      BY <1>4, <3>1, <3>2
  <2> QED
    BY <2>1, <2>2, <2>3, <2>4, <2>6, <2>7, <2>8 DEF RowsOf
<1> QED
  BY <1>1, <1>5, <1>6 DEF RegInv, OneRowPerMatch

\* The loop's end: every claimed row is complete.
LEMMA HandOverInv ==
  ASSUME RegInv, HandOver
  PROVE  RegInv'
<1>1. /\ phase = "match" /\ todo = {} /\ \A th \in Threads : thread[th].at = "idle"
      /\ data' = [r \in 1 .. feat_cnt |-> [h |-> h_v[r], h_x |-> h_x_v[r], w |-> w[r]]]
      /\ phase' = "none" /\ UNCHANGED <<todo, thread, found, count_vars, rows_vars>>
  BY DEF HandOver
<1>2. PICK own : RowsOf(own)
  BY <1>1 DEF RegInv
<1>3. \A r \in Rows : data'[r].h = own[r] /\ data'[r].h_x = own[r] /\ data'[r].w = own[r]
  BY <1>1, <1>2 DEF RowsOf, Complete, Writing, Rows
<1>4. DOMAIN data' = Rows /\ Matched' = Matched
  BY <1>1 DEF Rows, Matched
<1>5. {own[r] : r \in Rows} = Matched
  BY <1>1, <1>2 DEF RowsOf, Matched
<1>6. {data'[r].h : r \in DOMAIN data'} = Matched'
  BY <1>3, <1>4, <1>5
<1>7. OneRowPerMatch'
  BY <1>2, <1>3, <1>4, <1>6 DEF OneRowPerMatch, RowsOf
<1>8. RegTypes'
  BY <1>1 DEF RegInv, RegTypes, count_vars, rows_vars
<1> QED
  BY <1>1, <1>7, <1>8 DEF RegInv

\* A step outside the loop changes nothing of it.
LEMMA OutsideInv ==
  ASSUME RegInv, UNCHANGED <<phase, todo, thread, found, count_vars, rows_vars, data>>,
         \/ phase = "none" /\ pc' # "step"
         \/ UNCHANGED pc
  PROVE  RegInv'
<1>1. RegTypes'
  BY DEF RegInv, RegTypes, count_vars, rows_vars
<1>2. ASSUME NEW own, RowsOf(own) PROVE RowsOf(own)'
  BY <1>2 DEF RowsOf, Rows, Complete, count_vars, rows_vars
<1>3. OneRowPerMatch'
  BY DEF RegInv, OneRowPerMatch, Matched
<1> QED
  BY <1>1, <1>2, <1>3 DEF RegInv

\* Every step of the registration keeps the invariant.
LEMMA NextRegInv == RegInv /\ [RegNext]_all_vars => RegInv'
<1> SUFFICES ASSUME RegInv, RegNext \/ UNCHANGED all_vars PROVE RegInv'
  OBVIOUS
<1>1. CASE StartRound
  <2>1. pc = "idle" /\ pc' = "registration"
    BY <1>1 DEF StartRound, StartUpdate
  <2> QED
    BY <1>1, <2>1, OutsideInv DEF StartRound, RegInv, RegTypes
<1>2. CASE StartMatch
  BY <1>2, StartMatchInv
<1>3. CASE HandOver
  BY <1>3, HandOverInv
<1>4. CASE FilterGoesOn
  <2>1. pc \in {"step", "judge"} /\ pc' # "step"
    BY <1>4 DEF FilterGoesOn, FilterStep, Iterate, Finish
  <2>2. UNCHANGED <<phase, todo, thread, found, count_vars, rows_vars, data>>
    BY <1>4 DEF FilterGoesOn, reg_vars
  <2> QED
    BY <2>1, <2>2, OutsideInv DEF RegInv, RegTypes
<1>5. ASSUME NEW th \in Threads, SearchPoint(th) PROVE RegInv'
  BY <1>5, SearchPointInv
<1>6. ASSUME NEW th \in Threads, ClaimRow(th) PROVE RegInv'
  BY <1>6, ClaimRowInv
<1>7. ASSUME NEW th \in Threads,
             thread[th].at \in Writing,
             CountPrimitive(th) \/ WriteWeight(th) \/ WriteObservation(th)
      PROVE  RegInv'
  <2>1. RegTypes /\ phase = "match"
    BY <1>7 DEF RegInv, RegTypes, Writing
  <2>2. PICK own : RowsOf(own)
    BY <2>1 DEF RegInv
  <2>3. PICK n, p : n = thread[th].feat_num /\ p = thread[th].pt
    OBVIOUS
  <2>4. n \in Points /\ p \in Points
    BY <1>7, <2>1, <2>2, <2>3, WritingFacts
  <2>5. UNCHANGED <<phase, pc, todo, found, feat_cnt>>
    BY <1>7 DEF CountPrimitive, WriteWeight, WriteObservation, vars, count_vars
  <2>6. /\ w \in [Points -> 0 .. NumPoints] /\ h_v \in [Points -> 0 .. NumPoints]
        /\ h_x_v \in [Points -> 0 .. NumPoints] /\ p \in 0 .. NumPoints
    BY <2>1, <2>4, RegistrationAssumption DEF RegTypes, Points
  <2>7. CASE CountPrimitive(th)
    <3>1. Goes(th, "weigh", p, n) /\ UNCHANGED <<w, h_v, h_x_v>>
      BY <2>3, <2>7 DEF CountPrimitive, rows_vars
    <3> QED
      BY <1>7, <2>1, <2>2, <2>3, <2>5, <2>6, <3>1, WriteInv DEF Writing
  <2>8. CASE WriteWeight(th)
    <3>1. Goes(th, "observe", p, n) /\ w' = [w EXCEPT ![n] = p] /\ UNCHANGED <<h_v, h_x_v>>
      BY <2>3, <2>8 DEF WriteWeight, RowOf
    <3> QED
      BY <1>7, <2>1, <2>2, <2>3, <2>4, <2>5, <2>6, <3>1, WriteInv DEF Writing
  <2>9. CASE WriteObservation(th)
    <3>1. /\ Goes(th, "idle", 0, 0) /\ w' = w /\ thread[th].at = "observe"
          /\ h_v' = [h_v EXCEPT ![n] = p] /\ h_x_v' = [h_x_v EXCEPT ![n] = p]
      BY <2>3, <2>9 DEF WriteObservation, RowOf
    <3>2. w[n] = p
      BY <2>2, <2>3, <3>1 DEF RowsOf
    <3>3. Complete(n, p)'
      BY <2>4, <2>6, <3>1, <3>2 DEF Complete
    <3> QED
      BY <1>7, <2>1, <2>2, <2>3, <2>4, <2>5, <2>6, <3>1, <3>3, WriteInv
  <2> QED
    BY <1>7, <2>7, <2>8, <2>9
<1>8. CASE UNCHANGED all_vars
  BY <1>8, OutsideInv DEF all_vars, reg_vars, vars
<1>9. ASSUME NEW th \in Threads,
             CountPrimitive(th) \/ WriteWeight(th) \/ WriteObservation(th)
      PROVE  RegInv'
  <2>1. thread[th].at \in Writing
    BY <1>9 DEF CountPrimitive, WriteWeight, WriteObservation, Writing
  <2> QED
    BY <1>7, <1>9, <2>1
<1> QED
  BY <1>1, <1>2, <1>3, <1>4, <1>5, <1>6, <1>8, <1>9 DEF RegNext

-----------------------------------------------------------------------------
(* The counters of the match loop                                          *)

\* The points in the hands of the threads that are at one of the places
AtPlaces(places) ==
  {p \in Points : \E th \in Threads : thread[th].at \in places /\ thread[th].pt = p}

Claimed == Matched \ AtPlaces({"claim"})
Counted(s) == {p \in Points : found[p] = s} \ AtPlaces({"claim", "count"})

\* The counters are behind by the points that threads have yet to count, and
\* the node's number of the iteration is ahead of the filter's by the calls.
CountInv ==
  /\ feat_cnt = Cardinality(Claimed)
  /\ \A s \in Primitives : prim_cnts[s] = Cardinality(Counted(s))
  /\ prim_cnts \in [Primitives -> Nat]
  /\ pc = "registration" => ekfom_iter_cnt = i + 1
  /\ pc \in {"step", "judge"} => ekfom_iter_cnt = i + 2

\* Sets of points are finite.
LEMMA SomePoints ==
  ASSUME NEW S \in SUBSET Points
  PROVE  IsFiniteSet(S) /\ Cardinality(S) \in Nat
<1>1. IsFiniteSet(Points)
  BY RegistrationAssumption, FS_Interval DEF Points
<1> QED
  BY <1>1, FS_Subset, FS_CardinalityType

\* The point in a thread's hand is a matched one, begun, and no other
\* thread's.
LEMMA InHandFacts ==
  ASSUME RegTypes, NEW own, RowsOf(own), NEW th \in Threads,
         thread[th].at # "idle"
  PROVE  /\ thread[th].pt \in Points /\ found[thread[th].pt] \in Primitives
         /\ thread[th].pt \notin todo
         /\ \A u \in Threads : thread[u].at # "idle" /\ u # th =>
              thread[u].pt # thread[th].pt
<1>1. thread[th].at = "claim" \/ thread[th].at \in Writing
  BY DEF RegTypes
<1>2. thread[th].pt \in Points /\ found[thread[th].pt] # "none"
  <2>1. CASE thread[th].at = "claim"
    BY <2>1 DEF RowsOf
  <2>2. CASE thread[th].at \in Writing
    <3>1. /\ thread[th].feat_num \in Rows
          /\ own[thread[th].feat_num] = thread[th].pt
      BY <2>2 DEF RowsOf
    <3> QED
      BY <3>1 DEF RowsOf
  <2> QED
    BY <1>1, <2>1, <2>2
<1> QED
  BY <1>2 DEF RowsOf, RegTypes

\* Searching: the point begun is matched and in hand at once.
LEMMA SearchPointCount ==
  ASSUME RegInv, CountInv, NEW th \in Threads, SearchPoint(th)
  PROVE  CountInv'
<1>1. PICK p \in todo :
        \/ thread' = thread /\ found' = found
        \/ \E s \in Primitives :
             /\ Goes(th, "claim", p, 0)
             /\ found' = [found EXCEPT ![p] = s]
  BY DEF SearchPoint
<1>2. /\ RegTypes /\ thread[th].at = "idle" /\ p \in Points
      /\ UNCHANGED <<pc, i, ekfom_iter_cnt, feat_cnt, prim_cnts>>
  BY DEF SearchPoint, RegInv, RegTypes, vars, filter_vars, count_vars
<1>3. PICK own : RowsOf(own)
  BY DEF RegInv, SearchPoint
<1>4. found[p] = "none" /\ found \in [Points -> Primitives \cup {"none"}]
  BY <1>2, <1>3 DEF RowsOf, RegTypes
<1>5. Claimed' = Claimed /\ \A s \in Primitives : Counted(s)' = Counted(s)
  <2>1. CASE thread' = thread /\ found' = found
    BY <2>1 DEF Claimed, Counted, Matched, AtPlaces
  <2>2. ASSUME NEW s \in Primitives, Goes(th, "claim", p, 0),
               found' = [found EXCEPT ![p] = s]
        PROVE  <1>5!:
    <3>1. /\ \A q \in Points : q # p => found'[q] = found[q]
          /\ found[p] = "none" /\ \A k \in Primitives : found[p] # k
      BY <1>4, <2>2 DEF Primitives
    <3>2. /\ thread'[th].at = "claim" /\ thread'[th].pt = p
          /\ \A u \in Threads : u # th => thread'[u] = thread[u]
      BY <1>2, <2>2 DEF Goes, RegTypes
    <3>3. ASSUME NEW places, "claim" \in places, "idle" \notin places
          PROVE  AtPlaces(places)' = AtPlaces(places) \cup {p}
      BY <1>2, <3>2, <3>3 DEF AtPlaces
    <3>4. /\ AtPlaces({"claim"})' = AtPlaces({"claim"}) \cup {p}
          /\ AtPlaces({"claim", "count"})' = AtPlaces({"claim", "count"}) \cup {p}
      BY <3>3
    <3> QED
      BY <3>1, <3>4 DEF Claimed, Counted, Matched
  <2> QED
    BY <1>1, <2>1, <2>2
<1> QED
  BY <1>2, <1>5 DEF CountInv

\* Claiming: one row more for one point that has one.
LEMMA ClaimRowCount ==
  ASSUME RegInv, CountInv, NEW th \in Threads, ClaimRow(th)
  PROVE  CountInv'
<1> DEFINE p == thread[th].pt
<1>1. /\ RegTypes /\ thread[th].at = "claim" /\ feat_cnt' = feat_cnt + 1
      /\ Goes(th, "count", p, feat_cnt + 1) /\ phase = "match"
      /\ UNCHANGED <<pc, i, ekfom_iter_cnt, found, prim_cnts>>
  BY DEF ClaimRow, RegInv, RegTypes, vars, filter_vars
<1>2. PICK own : RowsOf(own)
  BY <1>1 DEF RegInv
<1>3. /\ p \in Points /\ found[p] \in Primitives
      /\ \A u \in Threads : thread[u].at # "idle" /\ u # th => thread[u].pt # p
  BY <1>1, <1>2, InHandFacts
<1>4. /\ thread'[th].at = "count" /\ thread'[th].pt = p
      /\ \A u \in Threads : u # th => thread'[u] = thread[u]
  BY <1>1 DEF Goes, RegTypes
<1> HIDE DEF p
<1>5. AtPlaces({"claim", "count"})' = AtPlaces({"claim", "count"})
  BY <1>1, <1>4 DEF AtPlaces, p
<1>6. AtPlaces({"claim"})' = AtPlaces({"claim"}) \ {p} /\ p \in AtPlaces({"claim"})
  BY <1>1, <1>3, <1>4 DEF AtPlaces, p
<1>7. \A s \in Primitives : Counted(s)' = Counted(s)
  BY <1>1, <1>5 DEF Counted
<1>8. Claimed' = Claimed \cup {p} /\ p \notin Claimed
  BY <1>1, <1>3, <1>6 DEF Claimed, Matched, Primitives
<1>9. Cardinality(Claimed') = Cardinality(Claimed) + 1
  <2>1. Claimed \subseteq Points
    BY DEF Claimed, Matched
  <2> QED
    BY <1>8, <2>1, SomePoints, FS_AddElement
<1> QED
  BY <1>1, <1>7, <1>9 DEF CountInv

\* Counting the primitive of the point in hand
LEMMA CountPrimitiveCount ==
  ASSUME RegInv, CountInv, NEW th \in Threads, CountPrimitive(th)
  PROVE  CountInv'
<1> DEFINE p == thread[th].pt
           k == found[p]
<1>1. /\ RegTypes /\ thread[th].at = "count" /\ phase = "match"
      /\ prim_cnts' = [prim_cnts EXCEPT ![k] = @ + 1]
      /\ Goes(th, "weigh", p, thread[th].feat_num)
      /\ UNCHANGED <<pc, i, ekfom_iter_cnt, found, feat_cnt>>
  BY DEF CountPrimitive, RegInv, RegTypes, vars, filter_vars
<1>2. PICK own : RowsOf(own)
  BY <1>1 DEF RegInv
<1>3. /\ p \in Points /\ k \in Primitives
      /\ \A u \in Threads : thread[u].at # "idle" /\ u # th => thread[u].pt # p
  BY <1>1, <1>2, InHandFacts
<1>4. /\ thread'[th].at = "weigh" /\ thread'[th].pt = p
      /\ \A u \in Threads : u # th => thread'[u] = thread[u]
  BY <1>1 DEF Goes, RegTypes
<1> HIDE DEF p, k
<1>5. AtPlaces({"claim"})' = AtPlaces({"claim"})
  BY <1>1, <1>4 DEF AtPlaces
<1>6. /\ AtPlaces({"claim", "count"})' = AtPlaces({"claim", "count"}) \ {p}
      /\ p \in AtPlaces({"claim", "count"})
  BY <1>1, <1>3, <1>4 DEF AtPlaces, p
<1>7. Claimed' = Claimed
  BY <1>1, <1>5 DEF Claimed, Matched
<1>8. ASSUME NEW s \in Primitives PROVE prim_cnts'[s] = Cardinality(Counted(s)')
  <2>1. /\ Counted(s) \subseteq Points
        /\ prim_cnts[s] = Cardinality(Counted(s))
        /\ prim_cnts \in [Primitives -> Nat]
    BY DEF CountInv, Counted
  <2>2. CASE s = k
    <3>1. Counted(s)' = Counted(s) \cup {p} /\ p \notin Counted(s)
      BY <1>1, <1>3, <1>6, <2>2 DEF Counted, k
    <3>2. Cardinality(Counted(s)') = Cardinality(Counted(s)) + 1
      BY <2>1, <3>1, SomePoints, FS_AddElement
    <3> QED
      BY <1>1, <2>1, <2>2, <3>2
  <2>3. CASE s # k
    <3>1. Counted(s)' = Counted(s)
      BY <1>1, <1>3, <1>6, <2>3 DEF Counted, k
    <3> QED
      BY <1>1, <1>3, <2>1, <2>3, <3>1
  <2> QED
    BY <2>2, <2>3
<1>9. prim_cnts' \in [Primitives -> Nat]
  BY <1>1, <1>3 DEF CountInv
<1> QED
  BY <1>1, <1>7, <1>8, <1>9 DEF CountInv

\* Filling a row in is behind the counting.
LEMMA WriteCount ==
  ASSUME RegInv, CountInv, NEW th \in Threads,
         WriteWeight(th) \/ WriteObservation(th)
  PROVE  CountInv'
<1>1. /\ RegTypes /\ thread[th].at \notin {"claim", "count"}
      /\ UNCHANGED <<pc, i, ekfom_iter_cnt, found, feat_cnt, prim_cnts>>
  BY DEF WriteWeight, WriteObservation, RegInv, vars, filter_vars, count_vars
<1>2. /\ thread'[th].at \notin {"claim", "count"}
      /\ \A u \in Threads : u # th => thread'[u] = thread[u]
  BY <1>1 DEF WriteWeight, WriteObservation, Goes, RegTypes
<1>3. /\ AtPlaces({"claim"})' = AtPlaces({"claim"})
      /\ AtPlaces({"claim", "count"})' = AtPlaces({"claim", "count"})
  BY <1>1, <1>2 DEF AtPlaces
<1> QED
  BY <1>1, <1>3 DEF CountInv, Claimed, Counted, Matched

\* Every step of the registration and of the filter keeps the counters.
LEMMA NextCount ==
  ASSUME IInv, RegInv, CountInv, [RegNext]_all_vars
  PROVE  CountInv'
<1>1. i \in Int
  BY FilterAssumption DEF IInv, TypeOK, Iterations
<1>2. ASSUME UNCHANGED <<thread, found, feat_cnt, prim_cnts>>,
             \/ UNCHANGED <<pc, i, ekfom_iter_cnt>>
             \/ /\ pc' = "registration" => ekfom_iter_cnt' = i' + 1
                /\ pc' \in {"step", "judge"} => ekfom_iter_cnt' = i' + 2
      PROVE  CountInv'
  BY <1>2 DEF CountInv, Claimed, Counted, Matched, AtPlaces
<1>3. CASE StartRound
  BY <1>2, <1>3 DEF StartRound, StartUpdate, IterationsAtStart, count_vars
<1>4. CASE StartMatch
  <2>1. /\ Matched' = {} /\ \A s \in Primitives : {p \in Points : found'[p] = s} = {}
    BY <1>4 DEF StartMatch, Matched, Primitives
  <2>2. /\ Claimed' = {} /\ \A s \in Primitives : Counted(s)' = {}
    BY <2>1 DEF Claimed, Counted
  <2> QED
    BY <1>4, <2>2, FS_EmptySet DEF StartMatch, CountInv, vars, filter_vars
<1>5. CASE HandOver
  <2>1. /\ pc = "registration" /\ pc' = "step" /\ i' = i
        /\ ekfom_iter_cnt' = ekfom_iter_cnt + 1
        /\ UNCHANGED <<thread, found, feat_cnt, prim_cnts>>
    BY <1>5 DEF HandOver, TensorRegistration, filter_vars, count_vars
  <2> QED
    BY <1>1, <1>2, <2>1 DEF CountInv
<1>6. CASE FilterGoesOn
  <2>1. /\ UNCHANGED <<thread, found, feat_cnt, prim_cnts, ekfom_iter_cnt>>
        /\ \/ pc = "step" /\ pc' = "judge" /\ i' = i
           \/ pc = "judge" /\ pc' = "registration" /\ i' = i + 1
           \/ pc' = "idle"
    BY <1>6 DEF FilterGoesOn, FilterStep, Iterate, Finish, reg_vars, count_vars
  <2> QED
    BY <1>1, <1>2, <2>1 DEF CountInv
<1>7. CASE UNCHANGED all_vars
  BY <1>2, <1>7 DEF all_vars, vars, filter_vars, reg_vars, count_vars
<1> QED
  BY <1>3, <1>4, <1>5, <1>6, <1>7, SearchPointCount, ClaimRowCount,
     CountPrimitiveCount, WriteCount
  DEF RegNext

\* Nothing is counted at the start.
LEMMA InitCount == RegInit => CountInv
<1> SUFFICES ASSUME RegInit PROVE CountInv
  OBVIOUS
<1>1. Claimed = {} /\ \A s \in Primitives : Counted(s) = {}
  BY DEF RegInit, Claimed, Counted, Matched, Primitives
<1> QED
  BY <1>1, FS_EmptySet DEF RegInit, Init, CountInv

\* When the filter has the rows nobody has a point in hand.
LEMMA CountsAtStep == RegInv /\ CountInv => CountsOfTheCall
<1> SUFFICES ASSUME RegInv, CountInv PROVE CountsOfTheCall
  OBVIOUS
<1>1. ASSUME pc = "step"
      PROVE  /\ \A s \in Primitives :
                  prim_cnts[s] = Cardinality({p \in Points : found[p] = s})
             /\ feat_cnt = Cardinality(Matched)
  <2>1. \A th \in Threads : thread[th].at = "idle"
    BY <1>1 DEF RegInv, RegTypes
  <2>2. AtPlaces({"claim"}) = {} /\ AtPlaces({"claim", "count"}) = {}
    BY <2>1 DEF AtPlaces
  <2>3. Claimed = Matched /\ \A s \in Primitives : Counted(s) = {p \in Points : found[p] = s}
    BY <2>2 DEF Claimed, Counted
  <2> QED
    BY <2>3 DEF CountInv
<1> QED
  BY <1>1 DEF CountsOfTheCall, CountInv

-----------------------------------------------------------------------------
(* The running scores *)

\* The score that row r of mean_score_wt_ holds, counted in the history: rows
\* below the index were written since it last was 0.
Wrapped(r) == Len(scored) - mean_cnt + 1 + r - IF r < mean_cnt THEN 0 ELSE NumRows
Slot(r) == IF Wrapped(r) < 1 THEN 1 ELSE Wrapped(r)

\* The index goes round behind the scores, and what a row holds is the last
\* score written to it, or the first.
ScoreInv ==
  /\ scored = <<>> => /\ mean_cnt = -1
                      /\ \A r \in 0 .. NumRows - 1 : mean_score[r] = 0
  /\ scored # <<>> =>
       /\ mean_cnt >= 0 /\ mean_cnt <= Len(scored) - 1
       /\ Len(scored) <= NumRows => mean_cnt = Len(scored) - 1
       /\ \A r \in 0 .. NumRows - 1 : mean_score[r] = scored[Slot(r)]

\* The next row is the one behind, or the first again (map_processing.cpp:925).
LEMMA NextRowIs ==
  ASSUME mean_cnt \in -1 .. NumRows - 1
  PROVE  NextRow = IF mean_cnt = NumRows - 1 THEN 0 ELSE mean_cnt + 1
<1> DEFINE n == mean_cnt + 1
<1>1. n \in 0 .. NumRows /\ NumRows \in Nat /\ NumRows > 0
  BY FilterAssumption
<1> HIDE DEF n
<1>2. CASE n = NumRows
  <2>1. n % n = 0
    BY <1>1, <1>2, SMT
  <2> QED
    BY <1>2, <2>1, FilterAssumption DEF NextRow, n
<1>3. CASE n < NumRows
  <2>1. n % NumRows = n
    BY <1>1, <1>3, SMT
  <2> QED
    BY <1>3, <2>1, FilterAssumption DEF NextRow, n
<1> QED
  BY <1>1, <1>2, <1>3


\* A score takes the row of the one that is longest ago (map_processing.cpp:914-925).
LEMMA RegistrationScores ==
  ASSUME IInv, ScoreInv, TensorRegistration
  PROVE  ScoreInv'
<1> DEFINE n == Len(scored)
           c == mean_cnt
           Rows0 == 0 .. NumRows - 1
<1>1. /\ scored \in Seq(Scores) /\ n \in Nat /\ c \in -1 .. NumRows - 1
      /\ mean_score \in [Rows0 -> Nat] /\ NumRows \in Nat /\ NumRows > 0
      /\ (scored = <<>>) = (n = 0)
  BY FilterAssumption, EmptySeq DEF IInv, TypeOK
<1>2. PICK s \in Scores : mean_score' = WithScore(s) /\ scored' = Append(scored, s)
  BY DEF TensorRegistration
<1>3. /\ Len(scored') = n + 1 /\ scored' # <<>>
      /\ \A k \in 1 .. n : scored'[k] = scored[k]
      /\ scored'[n + 1] = s
  BY <1>1, <1>2, AppendProperties
<1>4. mean_cnt' = IF c = NumRows - 1 THEN 0 ELSE c + 1
  BY <1>1, NextRowIs DEF TensorRegistration
<1> HIDE DEF n, c
<1>5. s \in Nat
  BY FilterAssumption
<1>6. CASE n = 0
  <2>1. c = -1 /\ \A r \in Rows0 : mean_score[r] = 0
    BY <1>1, <1>6 DEF ScoreInv, c
  <2>2. mean_cnt' = 0
    BY <1>1, <1>4, <2>1
  <2>3. \A r \in Rows0 : mean_score'[r] = s
    BY <1>1, <1>2, <1>5, <2>1 DEF WithScore, c
  <2>4. \A r \in Rows0 : Slot(r)' = 1
    BY <1>1, <1>3, <1>6, <2>2 DEF Slot, Wrapped
  <2> QED
    BY <1>1, <1>3, <1>6, <2>2, <2>3, <2>4 DEF ScoreInv
<1>7. CASE n > 0
  <2>1. /\ c >= 0 /\ c <= n - 1
        /\ n <= NumRows => c = n - 1
        /\ \A r \in Rows0 : mean_score[r] = scored[Slot(r)]
    BY <1>1, <1>7 DEF ScoreInv, n, c
  <2>2. \A r \in Rows0 : mean_score'[r] = IF r = c THEN s ELSE mean_score[r]
    BY <1>1, <1>2, <2>1 DEF WithScore, c
  <2>3. ASSUME NEW r \in Rows0
        PROVE  /\ Slot(r) \in 1 .. n
               /\ Slot(r)' = IF r = c THEN n + 1 ELSE Slot(r)
    <3>1. Wrapped(r) = IF r < c THEN n - c + 1 + r ELSE n - c + 1 + r - NumRows
      BY <1>1, <2>1 DEF Wrapped, n, c
    <3>2. Wrapped(r)' = IF r < mean_cnt' THEN n + 1 - mean_cnt' + 1 + r
                                         ELSE n + 1 - mean_cnt' + 1 + r - NumRows
      BY <1>1, <1>3, <1>4, <2>1 DEF Wrapped
    <3>3. Wrapped(r)' = IF r = c THEN n + 1 ELSE Wrapped(r)
      BY <1>1, <1>4, <2>1, <3>1, <3>2
    <3> QED
      BY <1>1, <1>7, <2>1, <3>1, <3>3 DEF Slot
  <2>4. \A r \in Rows0 : mean_score'[r] = scored'[Slot(r)']
    BY <1>3, <2>1, <2>2, <2>3
  <2>5. /\ mean_cnt' >= 0 /\ mean_cnt' <= n
        /\ n + 1 <= NumRows => mean_cnt' = n
    BY <1>1, <1>4, <1>7, <2>1
  <2> QED
    BY <1>1, <1>3, <2>4, <2>5 DEF ScoreInv
<1> QED
  BY <1>1, <1>6, <1>7

\* Only a registration scores.
LEMMA NextScores == IInv /\ ScoreInv /\ [Next]_vars => ScoreInv'
<1> SUFFICES ASSUME IInv, ScoreInv, [Next]_vars PROVE ScoreInv'
  OBVIOUS
<1>1. CASE UNCHANGED score_vars
  BY <1>1 DEF score_vars, ScoreInv, Slot, Wrapped
<1> QED
  BY <1>1, RegistrationScores
  DEF Next, StartUpdate, FilterStep, Iterate, Finish, vars

\* The rows start without a score.
LEMMA InitScores == Init => ScoreInv
BY DEF Init, ScoreInv

\* Two finite sets are as large as each other when a function pairs them off.
LEMMA SameSize ==
  ASSUME NEW S, NEW T, NEW f \in [S -> T], IsFiniteSet(S),
         \A a, b \in S : f[a] = f[b] => a = b,
         \A b \in T : \E a \in S : f[a] = b
  PROVE  Cardinality(T) = Cardinality(S)
<1>1. f \in Bijection(S, T)
  BY DEF Bijection, Injection, Surjection, IsInjective
<1> QED
  BY <1>1, FS_Bijection DEF ExistsBijection

\* With a score for every row, the rows pair off with the last scores.
LEMMA FullRows ==
  ASSUME IInv, ScoreInv, Len(scored) >= NumRows, NEW s
  PROVE  Cardinality({r \in DOMAIN mean_score : mean_score[r] = s})
           = Count(s, SubSeq(scored, Len(scored) - NumRows + 1, Len(scored)))
<1> DEFINE n == Len(scored)
           c == mean_cnt
           N == NumRows
           last == SubSeq(scored, n - N + 1, n)
           have == {r \in 0 .. N - 1 : mean_score[r] = s}
           get == {k \in 1 .. N : last[k] = s}
           row(k) == IF k < N - c + 1 THEN k + c - 1 ELSE k + c - 1 - N
<1>1. /\ scored \in Seq(Scores) /\ n \in Nat /\ N \in Nat /\ N > 0 /\ n >= N
      /\ c \in 0 .. N - 1 /\ c <= n - 1
      /\ DOMAIN mean_score = 0 .. N - 1
      /\ \A r \in 0 .. N - 1 : mean_score[r] = scored[Slot(r)]
  BY FilterAssumption, EmptySeq DEF IInv, TypeOK, ScoreInv
<1>2. \A k \in n - N + 1 .. n : scored[k] \in Scores
  BY <1>1, ElementOfSeq
<1>3. /\ last \in Seq(Scores) /\ Len(last) = N
      /\ \A k \in 1 .. N : last[k] = scored[n - N + k]
  <2> DEFINE m == n - N + 1
  <2>1. m \in Int /\ n \in Int /\ \A k \in m .. n : scored[k] \in Scores
    BY <1>1, <1>2
  <2>2. n - m + 1 = N /\ m <= n /\ \A k \in 1 .. N : m + k - 1 = n - N + k
    BY <1>1
  <2> HIDE DEF m, n, N
  <2>3. /\ SubSeq(scored, m, n) \in Seq(Scores)
        /\ Len(SubSeq(scored, m, n)) = IF m <= n THEN n - m + 1 ELSE 0
        /\ \A k \in 1 .. n - m + 1 : SubSeq(scored, m, n)[k] = scored[m + k - 1]
    BY <2>1, SubSeqProperties
  <2>4. last = SubSeq(scored, m, n)
    BY DEF m
  <2> HIDE DEF last
  <2> QED
    BY <2>2, <2>3, <2>4
<1>4. Count(s, last) = Cardinality(get)
  <2>1. DOMAIN last = 1 .. N
    BY <1>3
  <2> QED
    BY <2>1 DEF Count
<1>5. ASSUME NEW r \in 0 .. N - 1
      PROVE  Slot(r) = IF r < c THEN n - c + 1 + r ELSE n - c + 1 + r - N
  <2>1. Wrapped(r) = IF r < c THEN n - c + 1 + r ELSE n - c + 1 + r - N
    BY <1>1 DEF Wrapped
  <2> HIDE DEF n, c, N
  <2>2. Wrapped(r) >= 1
    BY <1>1, <2>1
  <2> QED
    BY <1>1, <2>1, <2>2 DEF Slot
<1> HIDE DEF n, c, N, last
<1>6. ASSUME NEW k \in 1 .. N
      PROVE  row(k) \in 0 .. N - 1 /\ Slot(row(k)) = n - N + k
  <2>1. row(k) \in 0 .. N - 1 /\ (row(k) < c <=> ~(k < N - c + 1))
    BY <1>1
  <2>2. CASE k < N - c + 1
    BY <1>1, <1>5, <2>1, <2>2
  <2>3. CASE ~(k < N - c + 1)
    BY <1>1, <1>5, <2>1, <2>3
  <2> QED
    BY <2>1, <2>2, <2>3
<1>7. \A k \in 1 .. N : mean_score[row(k)] = last[k]
  <2> TAKE k \in 1 .. N
  <2>1. row(k) \in 0 .. N - 1 /\ Slot(row(k)) = n - N + k
    BY <1>6
  <2>2. mean_score[row(k)] = scored[Slot(row(k))]
    BY <1>1, <2>1
  <2> QED
    BY <1>3, <2>1, <2>2
<1>8. \A j, k \in 1 .. N : row(j) = row(k) => j = k
  BY <1>1
<1>9. \A r \in 0 .. N - 1 : \E k \in 1 .. N : row(k) = r
  <2> TAKE r \in 0 .. N - 1
  <2>1. CASE r < c
    <3>1. r + N - c + 1 \in 1 .. N /\ row(r + N - c + 1) = r
      BY <1>1, <2>1
    <3> QED
      BY <3>1
  <2>2. CASE ~(r < c)
    <3>1. r - c + 1 \in 1 .. N /\ row(r - c + 1) = r
      BY <1>1, <2>2
    <3> QED
      BY <3>1
  <2> QED
    BY <2>1, <2>2
<1> HIDE DEF row
<1>10. Cardinality(have) = Cardinality(get)
  <2> DEFINE f == [k \in get |-> row(k)]
  <2>1. f \in [get -> have]
    BY <1>6, <1>7
  <2>2. \A a, b \in get : f[a] = f[b] => a = b
    BY <1>8
  <2>3. \A r \in have : \E k \in get : f[k] = r
    BY <1>7, <1>9
  <2>4. IsFiniteSet(get)
    <3>1. IsFiniteSet(1 .. N)
      BY <1>1, FS_Interval
    <3> QED
      BY <3>1, FS_Subset
  <2> HIDE DEF f, get, have
  <2> QED
    BY <2>1, <2>2, <2>3, <2>4, SameSize
<1> QED
  BY <1>1, <1>4, <1>10 DEF n, N, last

\* With fewer scores than rows, the first stands in the rows that are left.
LEMMA FewScores ==
  ASSUME IInv, ScoreInv, Len(scored) > 0, Len(scored) < NumRows, NEW s
  PROVE  Cardinality({r \in DOMAIN mean_score : mean_score[r] = s})
           = Count(s, SubSeq(scored, 1, Len(scored)))
               + IF s = scored[1] THEN NumRows - Len(scored) ELSE 0
<1> DEFINE n == Len(scored)
           N == NumRows
           last == SubSeq(scored, 1, n)
           have == {r \in 0 .. N - 1 : mean_score[r] = s}
           written == {r \in 0 .. n - 1 : mean_score[r] = s}
           left == IF s = scored[1] THEN n .. N - 1 ELSE {}
           get == {k \in 1 .. n : scored[k] = s}
           row(k) == IF k = 1 THEN n - 1 ELSE k - 2
<1>1. /\ scored \in Seq(Scores) /\ n \in Nat /\ N \in Nat /\ n > 0 /\ n < N
      /\ mean_cnt = n - 1
      /\ DOMAIN mean_score = 0 .. N - 1
      /\ \A r \in 0 .. N - 1 : mean_score[r] = scored[Slot(r)]
  BY FilterAssumption, EmptySeq DEF IInv, TypeOK, ScoreInv
<1>2. Count(s, last) = Cardinality(get)
  <2>1. \A k \in 1 .. n : scored[k] \in Scores
    BY <1>1, ElementOfSeq
  <2>2. /\ last \in Seq(Scores) /\ Len(last) = n
        /\ \A k \in 1 .. n : last[k] = scored[k]
    <3>1. n - 1 + 1 = n /\ 1 <= n /\ \A k \in 1 .. n : 1 + k - 1 = k
      BY <1>1
    <3>2. 1 \in Int /\ n \in Int
      BY <1>1
    <3> HIDE DEF n
    <3> QED
      BY <2>1, <3>1, <3>2, SubSeqProperties
  <2>3. DOMAIN last = 1 .. n
    BY <2>2
  <2> HIDE DEF last
  <2>4. {k \in DOMAIN last : last[k] = s} = get
    BY <2>2, <2>3
  <2> QED
    BY <2>4 DEF Count
<1>3. ASSUME NEW r \in 0 .. N - 1
      PROVE  Slot(r) = IF r < n - 1 THEN r + 2 ELSE 1
  BY <1>1 DEF Slot, Wrapped
<1> HIDE DEF n, N, last
<1>4. \A r \in n - 1 .. N - 1 : mean_score[r] = scored[1]
  BY <1>1, <1>3
<1>5. \A k \in 1 .. n : row(k) \in 0 .. n - 1 /\ mean_score[row(k)] = scored[k]
  <2> TAKE k \in 1 .. n
  <2>1. row(k) \in 0 .. n - 1 /\ row(k) \in 0 .. N - 1 /\ Slot(row(k)) = k
    BY <1>1, <1>3
  <2> QED
    BY <1>1, <2>1
<1>6. Cardinality(written) = Cardinality(get) /\ IsFiniteSet(written)
  <2> DEFINE f == [k \in get |-> row(k)]
  <2>1. f \in [get -> written]
    BY <1>5
  <2>2. \A a, b \in get : f[a] = f[b] => a = b
    BY <1>1
  <2>3. \A r \in written : \E k \in get : f[k] = r
    <3> TAKE r \in written
    <3>1. PICK k \in 1 .. n : row(k) = r
      <4>1. CASE r = n - 1
        BY <1>1, <4>1
      <4>2. CASE r # n - 1
        <5>1. r + 2 \in 1 .. n /\ row(r + 2) = r
          BY <1>1, <4>2
        <5> QED
          BY <5>1
      <4> QED
        BY <4>1, <4>2
    <3>2. k \in get
      BY <1>5, <3>1
    <3> QED
      BY <3>1, <3>2
  <2>4. IsFiniteSet(get) /\ IsFiniteSet(written)
    <3>1. IsFiniteSet(1 .. n) /\ IsFiniteSet(0 .. n - 1)
      BY <1>1, FS_Interval
    <3> QED
      BY <3>1, FS_Subset
  <2> HIDE DEF f, get, written
  <2> QED
    BY <2>1, <2>2, <2>3, <2>4, SameSize
<1>7. have = written \cup left /\ written \cap left = {}
  BY <1>1, <1>4
<1>8. IsFiniteSet(left) /\ Cardinality(left) = IF s = scored[1] THEN N - n ELSE 0
  <2>1. IsFiniteSet(n .. N - 1) /\ Cardinality(n .. N - 1) = N - n
    BY <1>1, FS_Interval
  <2> QED
    BY <2>1, FS_EmptySet
<1>9. Cardinality(have) = Cardinality(get) + IF s = scored[1] THEN N - n ELSE 0
  <2> HIDE DEF have, written, left, get
  <2>1. Cardinality(have) = Cardinality(written) + Cardinality(left) - Cardinality({})
    BY <1>6, <1>7, <1>8, FS_Union
  <2>2. Cardinality(written) \in Nat
    BY <1>6, FS_CardinalityType
  <2> QED
    BY <1>1, <1>6, <1>8, <2>1, <2>2, FS_EmptySet
<1> QED
  BY <1>1, <1>2, <1>9 DEF n, N, last

\* What the rows hold is the last scores and, for those missing, the first.
LEMMA RowsHoldLastScores == IInv /\ ScoreInv => LastScores
<1> SUFFICES ASSUME IInv, ScoreInv, Len(scored) > 0, NEW s \in Scores
             PROVE  LET n == Len(scored)
                        missing == IF n < NumRows THEN NumRows - n ELSE 0
                        last == SubSeq(scored, n + missing - NumRows + 1, n)
                        expected(z) == Count(z, last) + IF z = scored[1] THEN missing ELSE 0
                    IN  Cardinality({r \in DOMAIN mean_score : mean_score[r] = s}) = expected(s)
  BY DEF LastScores
<1>1. Len(scored) \in Nat /\ NumRows \in Nat
  BY FilterAssumption, EmptySeq DEF IInv, TypeOK
<1>2. CASE Len(scored) < NumRows
  <2>1. Len(scored) + (NumRows - Len(scored)) - NumRows + 1 = 1
    BY <1>1
  <2> QED
    BY <1>2, <2>1, FewScores
<1>3. CASE ~(Len(scored) < NumRows)
  <2>1. /\ Len(scored) + 0 - NumRows + 1 = Len(scored) - NumRows + 1
        /\ Len(scored) >= NumRows
    BY <1>1, <1>3
  <2>2. Cardinality({r \in DOMAIN mean_score : mean_score[r] = s}) \in Nat
    <3>1. IsFiniteSet(0 .. NumRows - 1)
      BY <1>1, FS_Interval
    <3>2. DOMAIN mean_score = 0 .. NumRows - 1
      BY DEF IInv, TypeOK
    <3> QED
      BY <3>1, <3>2, FS_Subset, FS_CardinalityType
  <2>3. \A a \in Nat : a + 0 = a
    OBVIOUS
  <2> QED
    BY <1>3, <2>1, <2>2, <2>3, FullRows
<1> QED
  BY <1>2, <1>3

-----------------------------------------------------------------------------
(* The theorems                                                            *)

\* The index into the running scores is a row at every write.
THEOREM FilterTypeOK == Spec => []TypeOK
BY Inductive, PTL DEF IInv

\* However long an iteration may take, a solve overruns half its budget by one
\* iteration at most (esekfom.hpp:1903-1905).
THEOREM FilterSolveTimeBounded == RegSpec => []SolveTimeBounded
<1>1. IInv => SolveTimeBounded
  BY DEF IInv, Going
<1> QED
  BY <1>1, RegImplements, Inductive, PTL

\* The covariance is that of the posterior and holds each scan's information
\* once (esekfom.hpp:1788-1834, 1906-1968).
THEOREM FilterCovarianceOfPosterior == RegSpec => []CovarianceOfPosterior
<1>1. IInv => CovarianceOfPosterior
  BY DEF IInv, Covariances, HoldsEach, CovarianceOfPosterior
<1> QED
  BY <1>1, RegImplements, Inductive, PTL

\* For any number of threads and points the filter gets one row of each match,
\* whole (map_processing.cpp:871-881, 929-940).
THEOREM RegistrationOneRowPerMatch == RegSpec => []OneRowPerMatch
<1>1. RegInv => OneRowPerMatch
  BY DEF RegInv
<1> QED
  BY <1>1, InitRegInv, NextRegInv, PTL DEF RegSpec

\* The features and primitives reported are those of the rows the filter gets,
\* each counted once by whatever thread, and the node's number of the iteration
\* is the filter's (map_processing.cpp:803, 870-872, 974, 1459).
THEOREM RegistrationCountsOfTheCall == RegSpec => []CountsOfTheCall
<1>1. IInv /\ IInv' /\ RegInv /\ CountInv /\ [RegNext]_all_vars => CountInv'
  BY NextCount
<1> QED
  BY <1>1, InitRegInv, NextRegInv, InitCount, CountsAtStep, RegImplements, Inductive, PTL
  DEF RegSpec

\* After any number of registrations the rows of mean_score_wt_ hold the last
\* scores, each as often as it was given, and the first for those there are not
\* yet (map_processing.cpp:914-925).
THEOREM RegistrationLastScores == RegSpec => []LastScores
<1>1. IInv /\ IInv' /\ ScoreInv /\ [Next]_vars => ScoreInv'
  BY NextScores
<1>2. Spec => []LastScores
  BY <1>1, InitScores, RowsHoldLastScores, Inductive, PTL DEF Spec
<1> QED
  BY <1>2, RegImplements, PTL
=============================================================================
