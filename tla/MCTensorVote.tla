---------------------------- MODULE MCTensorVote ----------------------------
(* Values for the constants of TensorVote that a .cfg cannot write. *)
EXTENDS TensorVote

\* Two points, then three, then three: the second round finds rows that were
\* never used, the third those of the second.
TwoThreeThree == <<{0, 1}, {2, 3, 4}, {5, 6, 7}>>

\* Of the second round, 2 is between the first two, 3 is near one of them, and
\* 4 looks further than the others and finds one that does not look as far.
\* Of the third, 5 is near 3 only, 6 near 1 and 3, 7 near 1 and 2.
Places == [p \in 0 .. 7 |-> <<0, 4, 2, 6, -1, 7, 5, 3>>[p + 1]]
OneFarBin == [p \in 0 .. 7 |-> IF p = 4 THEN 2 ELSE 1]
TwoRadii == <<3, 6>>

\* For the statement MeanOfItsVotes, with MinNeighbours = 1, MaxNeighbours = 4:
\* the list of 0 is longer than its limit, which the second round raises.
FourThenOne == <<{0, 1, 2, 3}, {4}>>
SideBySide == [p \in 0 .. 4 |-> <<0, 1, 2, 3, -1>>[p + 1]]
NearFarNear == [p \in 0 .. 4 |-> IF p \in {0, 4} THEN 2 ELSE 1]
NoneOrFar == <<0, 6>>
=============================================================================
