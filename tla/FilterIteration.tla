-------------------------- MODULE FilterIteration --------------------------
(***************************************************************************)
(* The iterated update of the filter (esekfom.hpp:1754-1973) as a round of  *)
(* the mapping loop runs it on its own copy, and the scores that the         *)
(* registration (map_processing.cpp:686-975) keeps from one call to the      *)
(* next.                                                                    *)
(*                                                                         *)
(* The state is a place on a line, and the error state of a place is the    *)
(* distance from it.  Of a covariance the model has the place whose tangent *)
(* space it is written in, and the registrations whose information it       *)
(* holds: carrying it along an error state (the products with A_matrix, and *)
(* with Nx * Mx) moves the place by as much.  What the gain makes of the    *)
(* residuals, and how long a registration takes, is any of a small set.     *)
(* valid is never cleared by the registration, so the update never fails.   *)
(***************************************************************************)
EXTENDS Integers, Sequences, FiniteSets

CONSTANTS
  MaximumIter,    \* maximum_iter, 10
  Limit,          \* limit: a step this small counts as converged
  MaxSolveTime,   \* max_solve_time, in ticks
  NumRows,        \* the rows of mean_score_wt_, 100
  MaxMove,        \* bound on how far one step moves the state
  MaxRegTime,     \* bound on how long an iteration takes
  Scores,         \* what a registration may be scored with, above 0
  MaxRounds       \* bound on the rounds

ASSUME FilterAssumption ==
  /\ MaximumIter \in Nat /\ Limit \in Nat /\ MaxSolveTime \in Nat
  /\ NumRows \in Nat \ {0}
  /\ MaxMove \in Nat /\ MaxRegTime \in Nat /\ MaxRounds \in Nat
  /\ Scores \subseteq Nat \ {0}

VARIABLES
  pc,             \* "idle", "registration", "step" or "judge"
  round,          \* the rounds begun
  x,              \* x_
  x_propagated,   \* x_propagated
  P,              \* P_
  P_propagated,   \* P_propagated
  dx,             \* dx_, the last step
  i,              \* i, from -1
  t,              \* t, the iterations that converged
  solve_time,     \* solve_time
  mean_cnt,       \* ekfom_mean_cnt_
  mean_score,     \* a column of mean_score_wt_
  scored          \* history: the scores of all registrations

filter_vars == <<x, x_propagated, P, P_propagated, dx, i, t, solve_time>>
score_vars == <<mean_cnt, mean_score, scored>>
vars == <<pc, round, filter_vars, score_vars>>

Iterations == -1 .. MaximumIter - 1
Moves == -MaxMove .. MaxMove
Covariance == [at : Int, holds : SUBSET (Nat \X Int)]

\* The index into mean_score_wt_ is a row of it or the -1 of the start, and
\* an iteration is under way or none.
TypeOK ==
  /\ pc \in {"idle", "registration", "step", "judge"}
  /\ round \in 0 .. MaxRounds
  /\ x \in Int /\ x_propagated \in Int /\ dx \in Int
  /\ P \in Covariance /\ P_propagated \in Covariance
  /\ i \in Iterations /\ t \in 0 .. 2
  /\ solve_time \in Nat
  /\ mean_cnt \in -1 .. NumRows - 1
  /\ mean_score \in [0 .. NumRows - 1 -> Nat]
  /\ scored \in Seq(Scores)

Prior == [at |-> 0, holds |-> {}]

Init ==
  /\ pc = "idle" /\ round = 0
  /\ x = 0 /\ x_propagated = 0
  /\ P = Prior /\ P_propagated = Prior
  /\ dx = 0 /\ i = -1 /\ t = 0 /\ solve_time = 0
  /\ mean_cnt = -1
  /\ mean_score = [r \in 0 .. NumRows - 1 |-> 0]
  /\ scored = <<>>

-----------------------------------------------------------------------------

\* A covariance is carried along an error state.
Carried(C, d) == [C EXCEPT !.at = @ + d]

\* A round hands its predicted state over; the prediction moves both.
StartUpdate ==
  /\ pc = "idle"
  /\ round < MaxRounds
  /\ round' = round + 1
  /\ \E predicted \in Moves :
       /\ x' = x + predicted
       /\ P' = Carried(P, predicted)
  /\ x_propagated' = x' /\ P_propagated' = P'
  /\ i' = -1 /\ t' = 0 /\ solve_time' = 0 /\ dx' = 0
  /\ pc' = "registration"
  /\ UNCHANGED score_vars

\* (ekfom_mean_cnt_ + 1) % rows
NextRow == (mean_cnt + 1) % NumRows

\* Mutant of WithScore: the first score goes to one row only
WithScoreInOne(s) == [mean_score EXCEPT ![IF mean_cnt < 0 THEN 0 ELSE mean_cnt] = s]

\* The first score goes to all rows.
WithScore(s) ==
  IF mean_cnt < 0 THEN [r \in 0 .. NumRows - 1 |-> mean_score[r] + s]
                  ELSE [mean_score EXCEPT ![mean_cnt] = s]

\* h_dyn_share: the registration against the map
TensorRegistration ==
  /\ pc = "registration"
  /\ \E s \in Scores :
       /\ mean_score' = WithScore(s)
       /\ scored' = Append(scored, s)
  /\ mean_cnt' = NextRow
  /\ pc' = "step"
  /\ UNCHANGED <<round, filter_vars>>

\* Mutant of AtThisState: from the covariance of the iteration before
CarriedAgain == Carried(P, x - x_propagated)

\* P_ = P_propagated, carried to the state of this iteration
AtThisState == Carried(P_propagated, x - x_propagated)

\* The step, and whether it is small.  (converge is for a registration that
\* would read it.)
FilterStep ==
  /\ pc = "step"
  /\ P' = AtThisState
  /\ dx' \in Moves
  /\ x' = x + dx'
  /\ t' = IF dx' \in -Limit .. Limit THEN t + 1 ELSE t
  /\ \E d \in 0 .. MaxRegTime : solve_time' = solve_time + d
  /\ pc' = "judge"
  /\ UNCHANGED <<round, x_propagated, P_propagated, i, score_vars>>

\* Mutant of IsLast: the time is not looked at
IsLastByCount == t > 1 \/ i = MaximumIter - 1

IsLast == t > 1 \/ i = MaximumIter - 1 \/ 2 * solve_time > MaxSolveTime

\* Once more.  The loop ends before maximum_iter and returns false below it,
\* which IsLast keeps it from reaching.
Iterate ==
  /\ pc = "judge"
  /\ ~IsLast
  /\ i + 1 < MaximumIter
  /\ i' = i + 1
  /\ pc' = "registration"
  /\ UNCHANGED <<round, x, x_propagated, P, P_propagated, dx, t, solve_time,
                 score_vars>>

\* The covariance is carried along the last step and takes the information of
\* the last registration in; the posterior is the caller's.
Finish ==
  /\ pc = "judge"
  /\ IsLast
  /\ P' = [Carried(P, dx) EXCEPT !.holds = @ \cup {<<round, i>>}]
  /\ pc' = "idle"
  /\ UNCHANGED <<round, x, x_propagated, P_propagated, dx, i, t, solve_time,
                 score_vars>>

Next ==
  StartUpdate \/ TensorRegistration \/ FilterStep \/ Iterate \/ Finish

Spec == Init /\ [][Next]_vars

-----------------------------------------------------------------------------
(* Properties *)

\* The posterior's covariance is written in the tangent space of the posterior,
\* however many steps led there, and holds the information of one registration
\* of each round, although a round registers its scan many times
\* (esekfom.hpp:1788-1834, 1906-1968).
CovarianceOfPosterior ==
  pc = "idle" =>
    /\ P.at = x
    /\ \A r \in 1 .. round :
         \E last \in Iterations : {h \in P.holds : h[1] = r} = {<<r, last>>}

\* An update takes no more than half its budget and one iteration
\* (esekfom.hpp:1903-1905).
SolveTimeBounded == 2 * solve_time <= MaxSolveTime + 2 * MaxRegTime

\* mean_score_wt_ has the last scores; those there are not yet stand for the
\* first (map_processing.cpp:914-925).
Count(s, seq) == Cardinality({k \in DOMAIN seq : seq[k] = s})

LastScores ==
  LET n == Len(scored)
      missing == IF n < NumRows THEN NumRows - n ELSE 0
      last == SubSeq(scored, n + missing - NumRows + 1, n)
      expected(s) == Count(s, last) + IF s = scored[1] THEN missing ELSE 0
  IN  n > 0 =>
        \A s \in Scores :
          Cardinality({r \in DOMAIN mean_score : mean_score[r] = s}) = expected(s)
============================================================================
