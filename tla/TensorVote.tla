----------------------------- MODULE TensorVote -----------------------------
(***************************************************************************)
(* The voting passes of the map update (map_processing.cpp:190-372).  Every *)
(* round adds points to the map.  A point that is added looks its           *)
(* neighbours up, one thread per point, and announces itself to those that  *)
(* were there before: the first to announce itself to a neighbour claims a  *)
(* row of new_neighbours_ for it, the others append to that row.  Then the  *)
(* rows are appended to the neighbours' own lists.                         *)
(*                                                                         *)
(* Between two barriers only the announcing touches what other threads      *)
(* touch, so it is taken apart into its reads and writes and everything     *)
(* else is one step.  update_idx_ is not atomic; its read and its write     *)
(* race, and a reader gets what is there before or after.  The inner        *)
(* parallel loops are nested, which runs them on their own thread.         *)
(*                                                                         *)
(* Points are on a line and numbered from 0 in the order of the map, rows   *)
(* from 0.  The octree's answer is the points within the radius (module     *)
(* MapOctree).  A tensor is the sequence of the points that voted for it, the *)
(* ellipsoid made of it the round it was made in; the solver of eigenvalues *)
(* may refuse the tensors of some points.                                  *)
(***************************************************************************)
EXTENDS Integers, SequencesExt

CONSTANTS
  Batches,         \* the sequence of the rounds' new_idxs, each a set
  Position,        \* where a point is
  BinOf,           \* bin_idx
  Radius,          \* search_radii_, by bin
  MinNeighbours,   \* kMinNeighbours
  MaxNeighbours,   \* kMaxNeighbours, the length of a row
  NumThreads,      \* bound on the threads of a parallel loop
  MayFail          \* the points whose tensors the eigen solver may refuse

Points == UNION Range(Batches)
VoteBins == DOMAIN Radius
Rows == 0 .. Cardinality(Points) - 1
Slots == 0 .. MaxNeighbours - 1

ASSUME VoteAssumption ==
  /\ Batches \in Seq(SUBSET Nat)
  /\ \A r \in DOMAIN Batches : IsFiniteSet(Batches[r])
  /\ \A r, s \in DOMAIN Batches : r # s => Batches[r] \cap Batches[s] = {}
  /\ Position \in [Points -> Int] /\ BinOf \in [Points -> VoteBins]
  /\ Radius \in [VoteBins -> Nat]
  /\ MinNeighbours \in Nat /\ MaxNeighbours \in Nat /\ NumThreads \in Nat \ {0}
  /\ MayFail \subseteq Points

VARIABLES
  threads,         \* how many threads a parallel loop has, as OpenMP is set up
  round,           \* the round, counted in batches begun
  phase,           \* "vote" from the start of a round to its end, else "map"
  neighbours,      \* neighbours_
  updated_pt,      \* updated_pt_
  update_idx,      \* update_idx_: the row of a point
  rows_used,       \* new_neighbours_idx
  row_pt,          \* new_neighbours_map_idx_
  row_size,        \* new_neighbours_size_
  row,             \* new_neighbours_
  filters,         \* filters_
  tensors_p1,      \* tensors_p1_: the votes summed
  tensors_p2,      \* tensors_p2_: the votes it was made of, and divided by what
  ellipsoid,       \* the round that made eigenvectors_ and salivalues_, or 0
  n_means,         \* n_means_, which min_neighbours_ and max_neighbours_ follow
  cnt_neighbours,  \* cnt_neighbours_
  at,              \* where a new point's thread is
  turn,            \* j, the place of the neighbour it is at, from 1
  slot             \* the row and the slot it is about to write

row_vars == <<updated_pt, update_idx, rows_used, row_pt, row_size, row>>
thread_vars == <<at, turn, slot>>
tensor_vars == <<filters, tensors_p1, tensors_p2, ellipsoid>>
mean_vars == <<n_means, cnt_neighbours>>
vars == <<threads, round, phase, neighbours, tensor_vars, row_vars, mean_vars, thread_vars>>

MinNeigh(p) == n_means[BinOf[p]]
MaxNeigh(p) == Min({2 * n_means[BinOf[p]], MaxNeighbours})

NoSlot == <<0, 0>>

LargestBatch == Max({Cardinality(Batches[r]) : r \in DOMAIN Batches})

\* A point is marked once by every point of one round, never more.
TypeOK ==
  /\ threads \in 1 .. NumThreads
  /\ round \in 0 .. Len(Batches)
  /\ phase \in {"map", "vote"}
  /\ neighbours \in [Points -> Seq(Points)]
  /\ updated_pt \in [Points -> 0 .. LargestBatch]
  /\ update_idx \in [Points -> Rows]
  /\ rows_used \in 0 .. Cardinality(Points)
  /\ row_pt \in [Rows -> Points \cup {0}]
  /\ row_size \in [Rows -> Nat]
  /\ row \in [Rows -> [Slots -> Points \cup {0}]]
  /\ filters \in [Points -> [first : BOOLEAN, second : BOOLEAN]]
  /\ tensors_p1 \in [Points -> Seq(Points)]
  /\ tensors_p2 \in [Points -> [votes : Seq(Points), over : Nat]]
  /\ ellipsoid \in [Points -> 0 .. Len(Batches)]
  /\ n_means \in [VoteBins -> 0 .. MaxNeighbours]
  /\ cnt_neighbours \in [VoteBins -> Nat]
  /\ at \in [Points -> {"off", "start", "next", "claim", "index", "reset",
                        "check", "reserve", "write"}]
  /\ turn \in [Points -> Nat]
  /\ slot \in [Points -> Rows \X Nat]

Init ==
  /\ threads \in 1 .. NumThreads
  /\ round = 0
  /\ phase = "map"
  /\ neighbours = [p \in Points |-> <<>>]
  /\ updated_pt = [p \in Points |-> 0]
  /\ update_idx = [p \in Points |-> 0]
  /\ rows_used = 0
  /\ row_pt = [u \in Rows |-> 0]
  /\ row_size = [u \in Rows |-> 0]
  /\ row = [u \in Rows |-> [s \in Slots |-> 0]]
  /\ filters = [p \in Points |-> [first |-> FALSE, second |-> FALSE]]
  /\ tensors_p1 = [p \in Points |-> <<>>]
  /\ tensors_p2 = [p \in Points |-> [votes |-> <<>>, over |-> 0]]
  /\ ellipsoid = [p \in Points |-> 0]
  /\ n_means = [b \in VoteBins |-> 0]
  /\ cnt_neighbours = [b \in VoteBins |-> 1]
  /\ at = [p \in Points |-> "off"]
  /\ turn = [p \in Points |-> 0]
  /\ slot = [p \in Points |-> NoSlot]

Added == Batches[round]

\* Points of the map before the round, map_j < old_map_size
OldPoints == UNION {Batches[r] : r \in 1 .. round - 1}

-----------------------------------------------------------------------------
(* The loops before the vote (lines 196-230) *)

Distance(p, q) ==
  IF Position[p] > Position[q] THEN Position[p] - Position[q]
                               ELSE Position[q] - Position[p]

InRadius(p, q) == Distance(p, q) <= Radius[BinOf[p]]

\* RadiusNeighbors among the points that are in the map, in some order (it is
\* the octree's)
NeighboursOf(p, inMap) ==
  SetToSeq({q \in inMap : Distance(p, q) # 0 /\ Distance(p, q) < Radius[BinOf[p]]})

\* n_means_ of a bin that got new points: the mean over all points so far of
\* how many neighbours they had when they were added, within its limits
NewMean(b, new, found) ==
  LET points == {p \in new : BinOf[p] = b}
      count == cnt_neighbours[b] + Cardinality(points)
      pairs == {pq \in points \X Points : pq[2] \in Range(found[pq[1]])}
      sum == n_means[b] * cnt_neighbours[b] + Cardinality(pairs)
  IN  Min({Max({sum \div count, MinNeighbours}), MaxNeighbours})

StartRound ==
  /\ phase = "map"
  /\ round < Len(Batches)
  /\ round' = round + 1
  /\ phase' = "vote"
  /\ LET new == Batches[round + 1]
         inMap == new \cup UNION {Batches[r] : r \in 1 .. round}
         found == [p \in new |-> NeighboursOf(p, inMap)]
         In(b) == {p \in new : BinOf[p] = b}
     IN  /\ neighbours' = [p \in Points |->
                             IF p \in new THEN found[p] ELSE neighbours[p]]
         /\ updated_pt' = [p \in Points |->
                             IF p \in new THEN 0 ELSE updated_pt[p]]
         /\ n_means' = [b \in VoteBins |->
                          IF In(b) = {} THEN n_means[b]
                                        ELSE NewMean(b, new, found)]
         /\ cnt_neighbours' = [b \in VoteBins |->
                                 cnt_neighbours[b] + Cardinality(In(b))]
         /\ at' = [p \in Points |-> IF p \in new THEN "start" ELSE "off"]
  /\ rows_used' = 0
  /\ turn' = [p \in Points |-> 0]
  /\ UNCHANGED <<threads, tensor_vars, update_idx, row_pt, row_size, row, slot>>

-----------------------------------------------------------------------------
(* A new point i and the neighbour it is at (lines 232-282) *)

Current(i) == neighbours[i][turn[i]]

LoopCount(i) == Min({Len(neighbours[i]), MaxNeigh(i)})

GoTo(i, there) == at' = [at EXCEPT ![i] = there]

VoteFrame == UNCHANGED <<threads, round, phase, neighbours, mean_vars>>

Running == {i \in Points : at[i] \notin {"off", "start"}}

\* A thread takes the point up.
Begin(i) ==
  /\ at[i] = "start"
  /\ Cardinality(Running) < threads
  /\ GoTo(i, "next")
  /\ VoteFrame
  /\ UNCHANGED <<tensor_vars, row_vars, turn, slot>>

\* A neighbour is asked if it was in the map before and i is in its radius.
IsAsked(i, j) == j \in OldPoints /\ InRadius(j, i)

\* Whether the solver finds the eigenvalues of a tensor of p
Solves(p) == IF p \in MayFail THEN BOOLEAN ELSE {TRUE}

\* Mutant of TensorOf: a point that has passed before keeps its tensor
OldTensorOf(i, passes, votes, over) ==
  IF passes /\ ~filters[i].first THEN [votes |-> votes, over |-> over]
                                 ELSE tensors_p2[i]

\* The mean of its votes is the tensor a point votes with in the second pass,
\* if they are enough and its eigenvalues are found.
TensorOf(i, passes, votes, over) ==
  IF passes THEN [votes |-> votes, over |-> over] ELSE tensors_p2[i]

\* On to the next neighbour; after the last one the votes are summed and the
\* point has its filter.
NextNeighbour(i) ==
  /\ at[i] = "next"
  /\ IF turn[i] < LoopCount(i)
       THEN /\ turn' = [turn EXCEPT ![i] = @ + 1]
            /\ GoTo(i, IF IsAsked(i, neighbours[i][turn[i] + 1]) THEN "claim"
                                                                 ELSE "next")
            /\ UNCHANGED tensor_vars
       ELSE \E solved \in Solves(i) :
              LET votes == SubSeq(neighbours[i], 1, LoopCount(i))
                  passes == LoopCount(i) >= MinNeigh(i) /\ solved
              IN  /\ tensors_p1' = [tensors_p1 EXCEPT ![i] = votes]
                  /\ filters' = [filters EXCEPT ![i].first = passes]
                  /\ tensors_p2' = [tensors_p2 EXCEPT ![i] =
                                      TensorOf(i, passes, votes, LoopCount(i))]
                  /\ GoTo(i, "off")
                  /\ UNCHANGED <<ellipsoid, turn>>
  /\ VoteFrame
  /\ UNCHANGED <<row_vars, slot>>

\* updated_pt_[map_j]++ (line 264)
Claim(i) ==
  LET j == Current(i)
  IN  /\ at[i] = "claim"
      /\ updated_pt' = [updated_pt EXCEPT ![j] = @ + 1]
      /\ GoTo(i, IF updated_pt[j] = 0 THEN "index" ELSE "check")
      /\ VoteFrame
      /\ UNCHANGED <<tensor_vars, update_idx, rows_used, row_pt, row_size, row,
                     turn, slot>>

\* The first to announce itself takes the next row (line 265) ...
WriteIndex(i) ==
  /\ at[i] = "index"
  /\ update_idx' = [update_idx EXCEPT ![Current(i)] = rows_used]
  /\ rows_used' = rows_used + 1
  /\ GoTo(i, "reset")
  /\ VoteFrame
  /\ UNCHANGED <<tensor_vars, updated_pt, row_pt, row_size, row, turn, slot>>

\* Mutant of Emptied: the row keeps the size of an earlier round
NotEmptied(sizes, u) == sizes

Emptied(sizes, u) == [sizes EXCEPT ![u] = 0]

\* ... and starts it (lines 266-267).
ResetRow(i) ==
  LET u == update_idx[Current(i)]
  IN  /\ at[i] = "reset"
      /\ row_pt' = [row_pt EXCEPT ![u] = Current(i)]
      /\ row_size' = Emptied(row_size, u)
      /\ GoTo(i, "reserve")
      /\ VoteFrame
      /\ UNCHANGED <<tensor_vars, updated_pt, update_idx, rows_used, row, turn,
                     slot>>

\* Any other tests whether the row is full (line 270).
CheckRow(i) ==
  /\ at[i] = "check"
  /\ GoTo(i, IF row_size[update_idx[Current(i)]] < MaxNeighbours THEN "reserve"
                                                                 ELSE "next")
  /\ VoteFrame
  /\ UNCHANGED <<tensor_vars, row_vars, turn, slot>>

\* new_neighbours_size_[...]++, and the write to the slot it gave (lines
\* 268-269, 271-272); a slot past the end is not in the row.
Reserve(i) ==
  LET u == update_idx[Current(i)]
  IN  /\ at[i] = "reserve"
      /\ slot' = [slot EXCEPT ![i] = <<u, row_size[u]>>]
      /\ row_size' = [row_size EXCEPT ![u] = @ + 1]
      /\ GoTo(i, "write")
      /\ VoteFrame
      /\ UNCHANGED <<tensor_vars, updated_pt, update_idx, rows_used, row_pt, row,
                     turn>>

WriteSlot(i) ==
  LET u == slot[i][1]
      s == slot[i][2]
  IN  /\ at[i] = "write"
      /\ row' = IF s \in Slots THEN [row EXCEPT ![u][s] = i] ELSE row
      /\ GoTo(i, "next")
      /\ VoteFrame
      /\ UNCHANGED <<tensor_vars, updated_pt, update_idx, rows_used, row_pt,
                     row_size, turn, slot>>

Vote(i) ==
  \/ Begin(i) \/ NextNeighbour(i) \/ Claim(i) \/ WriteIndex(i)
  \/ ResetRow(i) \/ CheckRow(i) \/ Reserve(i) \/ WriteSlot(i)

-----------------------------------------------------------------------------
(* The loops after the vote (lines 286-327), and the second pass (330-372). *)
(* A thread works on one point's data; row_pt gives every row another.     *)

VoteIsOver == phase = "vote" /\ \A p \in Points : at[p] = "off"

UsedRows == 0 .. rows_used - 1

Asked == {row_pt[u] : u \in UsedRows}

RowOf(p) == CHOOSE u \in UsedRows : row_pt[u] = p

\* Those whose list is full stay as they are.
Updated == {p \in Asked : Len(neighbours[p]) < MaxNeigh(p)}

\* Mutant of Taken: the whole row
WholeRow(p) == Min({row_size[RowOf(p)], MaxNeighbours})

\* How much of its row a point takes
Taken(p) == Min({row_size[RowOf(p)], MaxNeigh(p) - Len(neighbours[p])})

\* The votes a point finds in its row
NewVotes(p) == [k \in 1 .. Taken(p) |-> row[RowOf(p)][k - 1]]

\* Mutant of Released: the marks of the points asked stay
KeepMarks(marks) == marks

Released(marks) == [p \in Points |-> IF p \in Asked THEN 0 ELSE marks[p]]

\* The second pass counts the neighbours that passed the first.
PassesSecond(p, lists, first) ==
  LET counted == 1 .. Min({Len(lists[p]), MaxNeigh(p)})
  IN  /\ first[p]
      /\ Cardinality({k \in counted : first[lists[p][k]]}) >= MinNeigh(p)

AppendVotes ==
  /\ VoteIsOver
  /\ \E refused \in SUBSET (MayFail \cap Updated),
        refused2 \in SUBSET (MayFail \cap (Added \cup Updated)) :
       LET votes == [p \in Updated |-> NewVotes(p)]
           lists == [p \in Points |->
                       IF p \in Updated THEN neighbours[p] \o votes[p] ELSE neighbours[p]]
           first == [p \in Points |->
                       IF p \in Updated THEN Len(lists[p]) >= MinNeigh(p) /\ p \notin refused
                                        ELSE filters[p].first]
           second == {p \in Added \cup Updated : PassesSecond(p, lists, first)}
       IN  /\ neighbours' = lists
           /\ tensors_p1' = [p \in Points |->
                IF p \in Updated THEN tensors_p1[p] \o votes[p] ELSE tensors_p1[p]]
           /\ tensors_p2' = [p \in Points |->
                IF p \in Updated
                  THEN TensorOf(p, first[p], tensors_p1[p] \o votes[p], Len(lists[p]))
                  ELSE tensors_p2[p]]
           /\ filters' = [p \in Points |->
                [first |-> first[p],
                 second |-> IF p \in second THEN p \notin refused2
                                            ELSE filters[p].second]]
           /\ ellipsoid' = [p \in Points |->
                IF p \in second \ refused2 THEN round ELSE ellipsoid[p]]
  /\ updated_pt' = Released(updated_pt)
  /\ phase' = "map"
  /\ UNCHANGED <<threads, round, update_idx, rows_used, row_pt, row_size, row,
                 mean_vars, thread_vars>>

Next == StartRound \/ (\E i \in Points : Vote(i)) \/ AppendVotes

\* A parallel loop ends, and so does the round.
Spec == Init /\ [][Next]_vars

-----------------------------------------------------------------------------
(* Properties *)

\* When the vote is over the rows are those of the points that were asked, one
\* row each, whoever came first: the loop over the rows and the second pass
\* give every thread a point of its own.  What is read of a row was written to
\* it in this round: rows are used again in every round, and their sizes reset
\* by one thread while others append
\* (map_processing.cpp:264-273, 286-294, 303-313, 334-339).
RowsOfThisRound ==
  VoteIsOver =>
    /\ \A u, v \in UsedRows : u # v => row_pt[u] # row_pt[v]
    /\ Asked = {p \in Points : updated_pt[p] > 0}
    /\ Asked = UNION {{j \in Range(SubSeq(neighbours[i], 1, LoopCount(i))) :
                         IsAsked(i, j)} : i \in Added}
    /\ \A u \in UsedRows, s \in Slots : s < row_size[u] => row[u][s] \in Added

\* The lists of the points in the map grow to max_neighbours_ and no longer,
\* whatever the rows hold and although the limits move from round to round
\* (map_processing.cpp:296-306).
ListsStayBounded ==
  [][\A p \in Points :
       neighbours[p] # <<>> /\ Len(neighbours'[p]) > Len(neighbours[p]) =>
         Len(neighbours'[p]) <= MaxNeigh(p)]_vars

\* With one thread a vote is in the row of the point it is for, or the row is
\* full; with two the race on update_idx_ may send it elsewhere
\* (map_processing.cpp:264-273).
VotesRecorded ==
  VoteIsOver /\ threads = 1 =>
    \A i \in Added :
      \A k \in 1 .. LoopCount(i) :
        LET j == neighbours[i][k]
        IN  IsAsked(i, j) =>
              \E u \in UsedRows :
                /\ row_pt[u] = j
                /\ row_size[u] < MaxNeighbours =>
                     \E s \in Slots : s < row_size[u] /\ row[u][s] = i

\* After every round a point that passes the first filter votes in the second
\* pass with the tensor made of all the votes it has had, each of which is in
\* its list and, with one thread, counted once; one that passes the second has
\* had its ellipsoid made.  Its list grows in later rounds, its limits move and
\* the solver may refuse, and the sum is only ever added to
\* (map_processing.cpp:137-155, 275-281, 318-325, 366-370).
TensorOfItsVotes ==
  phase = "map" =>
    \A p \in Points :
      /\ filters[p].first => tensors_p2[p].votes = tensors_p1[p]
      /\ filters[p].second => ellipsoid[p] # 0
      /\ Range(tensors_p1[p]) \subseteq Range(neighbours[p])
      /\ threads = 1 => IsInjective(tensors_p1[p])

\* What the code does not keep: the sum is divided by the number of its votes.
\* A list that was longer than its limit gave votes up to the limit only; when
\* the limit has risen the sum is divided by the length of the list.  (Refuted
\* with the constants LongList of MCTensorVote.)
MeanOfItsVotes ==
  \A p \in Points : filters[p].first => tensors_p2[p].over = Len(tensors_p1[p])

\* Nor this: a point that has passed the second filter still passes the first.
\* (Refuted with the constants of the run.)
SecondHasFirst == \A p \in Points : filters[p].second => filters[p].first

\* What the repository says and two threads undo: no row is longer than
\* kMaxNeighbours, which is tested before it is incremented.  (Refuted with
\* MaxNeighbours = 1.)
RowsFit == \A u \in Rows : row_size[u] <= MaxNeighbours

\* A point's neighbours are within its search radius; the run vote_wrong_row is
\* about this one.
NeighboursInRadius ==
  \A p \in Points : \A q \in Range(neighbours[p]) : InRadius(p, q)
=============================================================================
