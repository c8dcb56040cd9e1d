-------------------------- MODULE TensorVoteProofs --------------------------
(***************************************************************************)
(* The voting passes for any number of threads, points, rounds and any      *)
(* limits.  VoteInv is what the race leaves intact: who is where (Voters),   *)
(* that a point is marked by those that have announced themselves to it     *)
(* (Marks), that it has one row which one thread has given it and started   *)
(* (RowsInv), and that a started row holds this round's votes, or slots a    *)
(* thread is about to write (Contents).  Lists says what a point has before  *)
(* it is in the map, OneThread that the lone thread loses and repeats no     *)
(* vote, and Sums relates a tensor to the list and to the votes.            *)
(***************************************************************************)
EXTENDS TensorVote, FiniteSetTheorems, SequenceTheorems, TLAPS

-----------------------------------------------------------------------------
(* Points, limits and lists                                                *)

\* The smaller and the larger of two
LEMMA OfTwo ==
  ASSUME NEW a \in Int, NEW b \in Int
  PROVE  /\ Min({a, b}) = IF a <= b THEN a ELSE b
         /\ Max({a, b}) = IF a >= b THEN a ELSE b
<1>1. /\ \E x \in {a, b} : \A y \in {a, b} : x =< y
      /\ \E x \in {a, b} : \A y \in {a, b} : x >= y
  OBVIOUS
<1>2. /\ Min({a, b}) \in {a, b} /\ \A y \in {a, b} : Min({a, b}) =< y
      /\ Max({a, b}) \in {a, b} /\ \A y \in {a, b} : Max({a, b}) >= y
  BY <1>1 DEF Min, Max
<1> QED
  BY <1>2

\* There are finitely many points, and those of a round are among them.
LEMMA FinitePoints ==
  /\ IsFiniteSet(Points) /\ Cardinality(Points) \in Nat
  /\ \A r \in DOMAIN Batches : Batches[r] \subseteq Points
  /\ DOMAIN Batches = 1 .. Len(Batches) /\ Len(Batches) \in Nat
<1>1. /\ DOMAIN Batches = 1 .. Len(Batches) /\ Len(Batches) \in Nat
      /\ \A r \in DOMAIN Batches : IsFiniteSet(Batches[r])
  BY VoteAssumption, LenProperties
<1>2. IsFiniteSet(DOMAIN Batches)
  BY <1>1, FS_Interval
<1>3. IsFiniteSet(Range(Batches)) /\ \A B \in Range(Batches) : IsFiniteSet(B)
  <2> DEFINE f == [r \in DOMAIN Batches |-> Batches[r]]
  <2>1. f \in Surjection(DOMAIN Batches, Range(Batches))
    BY DEF Surjection, Range
  <2> HIDE DEF f
  <2>2. IsFiniteSet(Range(Batches))
    BY <1>2, <2>1, FS_Surjection
  <2> QED
    BY <1>1, <2>2 DEF Range
<1>4. \A r \in DOMAIN Batches : Batches[r] \subseteq Points
  BY DEF Points, Range
<1>5. IsFiniteSet(Points)
  BY <1>3, FS_UNION DEF Points
<1> QED
  BY <1>1, <1>4, <1>5, FS_CardinalityType

\* The octree's answer has each neighbour once.
LEMMA AnswerIsList ==
  ASSUME NEW S \in SUBSET Points
  PROVE  /\ SetToSeq(S) \in Seq(S)
         /\ \A j, k \in 1 .. Len(SetToSeq(S)) : SetToSeq(S)[j] = SetToSeq(S)[k] => j = k
<1> DEFINE n == Cardinality(S)
<1>1. n \in Nat /\ ExistsBijection(1 .. n, S)
  BY FinitePoints, FS_Subset, FS_CardinalityType
<1>2. \E f \in [1 .. n -> S] : IsInjective(f)
  BY <1>1 DEF ExistsBijection, Bijection, Injection
<1>3. SetToSeq(S) \in [1 .. n -> S] /\ IsInjective(SetToSeq(S))
  BY <1>2 DEF SetToSeq
<1>4. SetToSeq(S) \in Seq(S) /\ Len(SetToSeq(S)) = n
  BY <1>1, <1>3
<1> QED
  BY <1>3, <1>4 DEF IsInjective

-----------------------------------------------------------------------------
(* The invariant                                                           *)

\* The types of the state; of TypeOK, all but how often a point can be marked.
VoteTypes ==
  /\ threads \in 1 .. NumThreads
  /\ round \in 0 .. Len(Batches)
  /\ phase \in {"map", "vote"}
  /\ neighbours \in [Points -> Seq(Points)]
  /\ updated_pt \in [Points -> Nat]
  /\ update_idx \in [Points -> Rows]
  /\ rows_used \in Nat
  /\ row_pt \in [Rows -> Points \cup {0}]
  /\ row_size \in [Rows -> Nat]
  /\ row \in [Rows -> [Slots -> Points \cup {0}]]
  /\ filters \in [Points -> [first : BOOLEAN, second : BOOLEAN]]
  /\ tensors_p1 \in [Points -> Seq(Points)]
  /\ tensors_p2 \in [Points -> [votes : Seq(Points), over : Nat]]
  /\ ellipsoid \in [Points -> 0 .. Len(Batches)]
  /\ n_means \in [VoteBins -> 0 .. MaxNeighbours]
  /\ cnt_neighbours \in [VoteBins -> Nat \ {0}]
  /\ at \in [Points -> {"off", "start", "next", "claim", "index", "reset",
                        "check", "reserve", "write"}]
  /\ turn \in [Points -> Nat]
  /\ slot \in [Points -> Rows \X Nat]

\* The places at which a thread has a neighbour in hand
Asking == {"claim", "index", "reset", "check", "reserve", "write"}

\* Between the rounds nothing is marked.
AtRest == phase = "map" => \A p \in Points : at[p] = "off" /\ updated_pt[p] = 0

\* The points of the round, and how far each is
Voters ==
  phase = "vote" =>
    /\ round >= 1
    /\ \A i \in Points :
         /\ at[i] # "off" => i \in Added
         /\ i \in Added => /\ turn[i] <= LoopCount(i)
                           /\ at[i] = "off" => turn[i] = LoopCount(i)
                           /\ at[i] = "start" => turn[i] = 0
         /\ at[i] \in Asking => turn[i] >= 1 /\ IsAsked(i, Current(i))

\* i has announced itself to its k-th neighbour, j.
HasAsked(i, k, j) ==
  neighbours[i][k] = j /\ IsAsked(i, j) /\ (k = turn[i] => at[i] # "claim")

\* A point is marked by those that have announced themselves to it.
Marks ==
  phase = "vote" =>
    \A j \in Points :
      updated_pt[j] > 0 <=> \E i \in Added : \E k \in 1 .. turn[i] : HasAsked(i, k, j)

\* A thread is at the place with j in hand.
InHandAt(there, j) == \E i \in Points : at[i] = there /\ Current(i) = j

\* The points that have a row, and those whose row has been started
Indexed == {j \in Points : updated_pt[j] > 0 /\ ~InHandAt("index", j)}
Started == {j \in Indexed : ~InHandAt("reset", j)}

\* The first to announce itself to a point is the only one to give it a row
\* and to start it; the rows used are those of the points that have one.
RowsInv ==
  phase = "vote" =>
    /\ \A i, k \in Points :
         at[i] \in {"index", "reset"} /\ at[k] \in {"index", "reset"}
           /\ Current(i) = Current(k) => i = k
    /\ \A j \in Indexed : update_idx[j] \in UsedRows
    /\ \A j, k \in Indexed : update_idx[j] = update_idx[k] => j = k
    /\ \A u \in UsedRows : \E j \in Indexed : update_idx[j] = u
    /\ \A j \in Started : row_pt[update_idx[j]] = j

\* What a started row has up to its size was written since, or a thread is about to.
Contents ==
  phase = "vote" =>
    \A j \in Started : \A s \in Slots :
      s < row_size[update_idx[j]] =>
        \/ row[update_idx[j]][s] \in Added
        \/ \E i \in Points : at[i] = "write" /\ slot[i] = <<update_idx[j], s>>

VoteInv == VoteTypes /\ AtRest /\ Voters /\ Marks /\ RowsInv /\ Contents

\* The limits of a point, and how many neighbours it takes
LEMMA Limits ==
  ASSUME VoteTypes, NEW p \in Points
  PROVE  /\ MinNeigh(p) \in Nat /\ MaxNeigh(p) \in 0 .. MaxNeighbours
         /\ Len(neighbours[p]) \in Nat
         /\ LoopCount(p) \in 0 .. Len(neighbours[p])
<1>1. MinNeigh(p) \in 0 .. MaxNeighbours /\ MaxNeighbours \in Nat
  BY VoteAssumption DEF VoteTypes, MinNeigh
<1>2. MaxNeigh(p) = Min({2 * MinNeigh(p), MaxNeighbours})
  BY DEF MaxNeigh, MinNeigh
<1>3. MaxNeigh(p) \in 0 .. MaxNeighbours
  BY <1>1, <1>2, OfTwo
<1>4. Len(neighbours[p]) \in Nat
  BY DEF VoteTypes
<1>5. LoopCount(p) \in 0 .. Len(neighbours[p])
  BY <1>3, <1>4, OfTwo DEF LoopCount
<1> QED
  BY <1>1, <1>3, <1>4, <1>5

\* The neighbour in hand is a point of the map, and marked once it is claimed.
LEMMA InHandFacts ==
  ASSUME VoteInv, NEW i \in Points, at[i] \in Asking
  PROVE  /\ phase = "vote" /\ i \in Added
         /\ turn[i] \in 1 .. LoopCount(i)
         /\ IsAsked(i, Current(i)) /\ Current(i) \in Points
         /\ at[i] # "claim" => updated_pt[Current(i)] > 0
<1>1. phase = "vote"
  BY DEF VoteInv, AtRest, VoteTypes, Asking
<1>2. i \in Added /\ turn[i] \in 1 .. LoopCount(i) /\ IsAsked(i, Current(i))
  <2>1. at[i] # "off" /\ VoteTypes
    BY DEF VoteInv, Asking
  <2>2. /\ i \in Added /\ turn[i] <= LoopCount(i) /\ turn[i] >= 1
        /\ IsAsked(i, Current(i))
    BY <1>1, <2>1 DEF VoteInv, Voters
  <2>3. turn[i] \in Nat /\ LoopCount(i) \in Nat
    <3>1. turn[i] \in Nat
      BY <2>1 DEF VoteTypes
    <3>2. LoopCount(i) \in 0 .. Len(neighbours[i]) /\ Len(neighbours[i]) \in Nat
      BY <2>1, Limits
    <3> QED
      BY <3>1, <3>2
  <2> QED
    BY <2>2, <2>3
<1>3. Current(i) \in Points
  <2>1. \A r \in 1 .. round - 1 : r \in DOMAIN Batches
    BY FinitePoints DEF VoteInv, VoteTypes
  <2> QED
    BY <1>2, <2>1, FinitePoints DEF IsAsked, OldPoints
<1>4. ASSUME at[i] # "claim" PROVE updated_pt[Current(i)] > 0
  <2>1. turn[i] \in 1 .. turn[i] /\ HasAsked(i, turn[i], Current(i))
    BY <1>2, <1>4 DEF HasAsked, Current, VoteInv, VoteTypes
  <2> QED
    BY <1>1, <1>2, <1>3, <2>1 DEF VoteInv, Marks
<1> QED
  BY <1>1, <1>2, <1>3, <1>4

-----------------------------------------------------------------------------
(* The steps of the vote                                                   *)

\* What no step of the vote changes
LEMMA Frame ==
  ASSUME VoteFrame
  PROVE  /\ Added' = Added /\ OldPoints' = OldPoints
         /\ \A i \in Points : LoopCount(i)' = LoopCount(i)
         /\ \A i, j : IsAsked(i, j)' = IsAsked(i, j)
BY DEF VoteFrame, mean_vars, Added, OldPoints, LoopCount, MaxNeigh, IsAsked

\* One thread goes on, the others stay where they are.
LEMMA OneGoes ==
  ASSUME VoteTypes, NEW i \in Points, NEW there, GoTo(i, there)
  PROVE  /\ at'[i] = there
         /\ \A k \in Points : k # i => at'[k] = at[k]
BY DEF GoTo, VoteTypes

\* A step that neither claims a row nor starts one leaves the rows as they are.
LEMMA QuietRows ==
  ASSUME VoteInv, NEW i \in Points, NEW there, GoTo(i, there), VoteFrame,
         at[i] \notin {"index", "reset"}, there \notin {"index", "reset"},
         UNCHANGED <<updated_pt, update_idx, rows_used, row_pt>>,
         \A k \in Points : k # i => turn'[k] = turn[k]
  PROVE  Indexed' = Indexed /\ Started' = Started /\ RowsInv'
<1>1. /\ at'[i] = there /\ \A k \in Points : k # i => at'[k] = at[k]
      /\ neighbours' = neighbours /\ phase' = phase /\ UsedRows' = UsedRows
  BY OneGoes DEF VoteInv, VoteFrame, UsedRows
<1>2. \A k \in Points : k # i => Current(k)' = Current(k)
  BY <1>1 DEF Current
<1>3. \A j : /\ InHandAt("index", j)' = InHandAt("index", j)
             /\ InHandAt("reset", j)' = InHandAt("reset", j)
  BY <1>1, <1>2 DEF InHandAt
<1>4. Indexed' = Indexed /\ Started' = Started
  BY <1>3 DEF Indexed, Started
<1>5. RowsInv'
  BY <1>1, <1>2, <1>4 DEF VoteInv, RowsInv
<1> QED
  BY <1>4, <1>5

\* The round's points are points.
LEMMA AddedPoints ==
  ASSUME VoteInv, phase = "vote"
  PROVE  Added \subseteq Points
<1>1. round \in DOMAIN Batches
  BY FinitePoints DEF VoteInv, Voters, VoteTypes
<1> QED
  BY <1>1, FinitePoints DEF Added

\* A step of a thread that has claimed its neighbour, or of one that begins,
\* keeps the marks.
LEMMA QuietMarks ==
  ASSUME VoteInv, NEW i \in Points, NEW there, GoTo(i, there), VoteFrame,
         \/ at[i] \in Asking \ {"claim"} /\ there \in (Asking \cup {"next"}) \ {"claim"}
         \/ at[i] = "start" /\ there = "next",
         UNCHANGED <<updated_pt, turn>>
  PROVE  Voters' /\ Marks' /\ AtRest'
<1>1. /\ at'[i] = there /\ \A k \in Points : k # i => at'[k] = at[k]
      /\ neighbours' = neighbours /\ phase' = phase /\ round' = round
  BY OneGoes DEF VoteInv, VoteFrame
<1>2. /\ Added' = Added
      /\ \A k \in Points : LoopCount(k)' = LoopCount(k)
      /\ \A k, j : IsAsked(k, j)' = IsAsked(k, j)
  BY Frame
<1>3. \A k \in Points : Current(k)' = Current(k)
  BY <1>1 DEF Current
<1>4. at[i] # "off" /\ phase = "vote" /\ there \notin {"off", "start", "claim"}
      /\ at[i] # "claim"
  BY DEF Asking, VoteInv, AtRest, VoteTypes
<1>5. Marks'
  <2>1. Added \subseteq Points
    BY <1>4, AddedPoints
  <2>2. \A k \in Added : at[k] # "claim" <=> at'[k] # "claim"
    BY <1>1, <1>4, <2>1
  <2>3. \A k \in Added : \A n, j : HasAsked(k, n, j)' <=> HasAsked(k, n, j)
    BY <1>1, <1>2, <2>2 DEF HasAsked
  <2> QED
    BY <1>1, <1>2, <2>3 DEF VoteInv, Marks
<1>6. Voters'
  <2>1. at'[i] \in Asking => at[i] \in Asking
    BY <1>1 DEF Asking
  <2> QED
    BY <1>1, <1>2, <1>3, <1>4, <2>1 DEF VoteInv, Voters
<1> QED
  BY <1>1, <1>4, <1>5, <1>6 DEF AtRest

\* The first step of a point
LEMMA BeginInv ==
  ASSUME VoteInv, NEW i \in Points, Begin(i)
  PROVE  VoteInv'
<1>1. /\ VoteTypes /\ at[i] = "start" /\ GoTo(i, "next") /\ VoteFrame
      /\ UNCHANGED <<tensor_vars, row_vars, turn, slot>>
  BY DEF Begin, VoteInv
<1>2. /\ at'[i] = "next" /\ \A k \in Points : k # i => at'[k] = at[k]
      /\ Added' = Added
      /\ UNCHANGED <<phase, updated_pt, update_idx, rows_used, row_pt, row_size, row, turn, slot>>
  BY <1>1, OneGoes, Frame DEF VoteFrame, row_vars
<1>3. VoteTypes'
  BY <1>1 DEF VoteTypes, VoteFrame, GoTo, tensor_vars, row_vars, mean_vars
<1>4. Started' = Started /\ RowsInv'
  BY <1>1, <1>2, QuietRows
<1>5. Voters' /\ Marks' /\ AtRest'
  BY <1>1, <1>2, QuietMarks
<1>6. Contents'
  BY <1>1, <1>2, <1>4 DEF VoteInv, Contents
<1> QED
  BY <1>3, <1>4, <1>5, <1>6 DEF VoteInv

\* On to the next neighbour, or the end of a point
LEMMA NextNeighbourInv ==
  ASSUME VoteInv, NEW i \in Points, NextNeighbour(i)
  PROVE  VoteInv'
<1>1. /\ VoteTypes /\ at[i] = "next" /\ VoteFrame /\ phase = "vote"
      /\ UNCHANGED <<row_vars, slot>>
  BY DEF NextNeighbour, VoteInv, AtRest, VoteTypes
<1>2. /\ i \in Added /\ turn[i] \in Nat /\ turn[i] <= LoopCount(i)
      /\ LoopCount(i) \in Nat /\ LoopCount(i) <= Len(neighbours[i]) /\ Len(neighbours[i]) \in Nat
      /\ Added \subseteq Points
  <2>1. i \in Added /\ turn[i] <= LoopCount(i)
    BY <1>1 DEF VoteInv, Voters
  <2>2. turn[i] \in Nat
    BY <1>1 DEF VoteTypes
  <2>3. LoopCount(i) \in 0 .. Len(neighbours[i]) /\ Len(neighbours[i]) \in Nat
    BY <1>1, Limits
  <2>4. Added \subseteq Points
    BY <1>1, AddedPoints
  <2> QED
    BY <2>1, <2>2, <2>3, <2>4
<1>3. /\ Added' = Added
      /\ \A k \in Points : LoopCount(k)' = LoopCount(k)
      /\ \A k, j : IsAsked(k, j)' = IsAsked(k, j)
      /\ UNCHANGED <<phase, round, neighbours, updated_pt, update_idx, rows_used, row_pt,
                     row_size, row, slot>>
  BY <1>1, Frame DEF VoteFrame, row_vars
<1>4. ASSUME NEW there \in {"claim", "next", "off"}, GoTo(i, there),
             turn' = [turn EXCEPT ![i] = turn'[i]], turn'[i] \in turn[i] .. LoopCount(i),
             there = "off" => turn'[i] = LoopCount(i),
             there = "claim" => turn'[i] = turn[i] + 1 /\ IsAsked(i, neighbours[i][turn'[i]]),
             \A k \in turn[i] + 1 .. turn'[i] :
               there # "claim" => ~IsAsked(i, neighbours[i][k]),
             VoteTypes'
      PROVE  VoteInv'
  <2>1. /\ at'[i] = there
        /\ \A k \in Points : k # i => at'[k] = at[k] /\ turn'[k] = turn[k]
        /\ turn'[i] \in Nat
    BY <1>1, <1>2, <1>4, OneGoes DEF VoteTypes
  <2>2. \A k \in Points : k # i => Current(k)' = Current(k)
    BY <1>3, <2>1 DEF Current
  <2>3. Started' = Started /\ RowsInv'
    BY <1>1, <1>3, <1>4, <2>1, QuietRows
  <2>4. Contents'
    BY <1>1, <1>3, <2>1, <2>3 DEF VoteInv, Contents
  <2>5. Voters'
    <3>1. ASSUME NEW k \in Points, k # i
          PROVE  /\ at'[k] = at[k] /\ turn'[k] = turn[k] /\ Current(k)' = Current(k)
                 /\ LoopCount(k)' = LoopCount(k)
                 /\ IsAsked(k, Current(k))' = IsAsked(k, Current(k))
      BY <1>3, <2>1, <2>2, <3>1
    <3>2. /\ turn'[i] <= LoopCount(i)' /\ at'[i] # "start"
          /\ at'[i] = "off" => turn'[i] = LoopCount(i)'
      BY <1>2, <1>3, <1>4, <2>1
    <3>3. at'[i] \in Asking => turn'[i] >= 1 /\ IsAsked(i, Current(i))'
      BY <1>2, <1>3, <1>4, <2>1 DEF Asking, Current
    <3> QED
      BY <1>1, <1>2, <1>3, <3>1, <3>2, <3>3 DEF VoteInv, Voters
  <2>6. Marks'
    <3>1. ASSUME NEW k \in Added, k # i, NEW n, NEW j
          PROVE  HasAsked(k, n, j)' <=> HasAsked(k, n, j)
      BY <1>2, <1>3, <2>1, <3>1 DEF HasAsked
    <3>2. ASSUME NEW n \in 1 .. turn[i], NEW j
          PROVE  n \in 1 .. turn'[i] /\ (HasAsked(i, n, j)' <=> HasAsked(i, n, j))
      BY <1>1, <1>2, <1>3, <1>4, <2>1, <3>2 DEF HasAsked
    <3>3. ASSUME NEW n \in 1 .. turn'[i], n \notin 1 .. turn[i], NEW j
          PROVE  ~HasAsked(i, n, j)'
      BY <1>1, <1>2, <1>3, <1>4, <2>1, <3>3 DEF HasAsked
    <3>4. \A j \in Points :
            (\E k \in Added : \E n \in 1 .. turn'[k] : HasAsked(k, n, j)')
              <=> \E k \in Added : \E n \in 1 .. turn[k] : HasAsked(k, n, j)
      BY <1>2, <2>1, <3>1, <3>2, <3>3
    <3> QED
      BY <1>1, <1>3, <3>4 DEF VoteInv, Marks
  <2>7. AtRest'
    BY <1>1, <1>3 DEF AtRest
  <2> QED
    BY <1>4, <2>3, <2>4, <2>5, <2>6, <2>7 DEF VoteInv
<1>5. CASE turn[i] < LoopCount(i)
  <2>1. PICK there \in {"claim", "next"} :
          /\ GoTo(i, there) /\ turn' = [turn EXCEPT ![i] = @ + 1]
          /\ there = "claim" <=> IsAsked(i, neighbours[i][turn[i] + 1])
          /\ UNCHANGED tensor_vars
    BY <1>5 DEF NextNeighbour
  <2>2. turn'[i] = turn[i] + 1
    BY <1>1, <2>1 DEF VoteTypes
  <2>3. VoteTypes'
    <3>1. at' \in [Points -> {"off", "start", "next", "claim", "index", "reset",
                              "check", "reserve", "write"}]
      BY <1>1, <2>1 DEF VoteTypes, GoTo
    <3>2. turn' \in [Points -> Nat]
      <4>1. turn \in [Points -> Nat]
        BY <1>1 DEF VoteTypes
      <4> QED
        BY <2>1, <4>1
    <3> QED
      BY <1>1, <2>1, <3>1, <3>2 DEF VoteTypes, VoteFrame, tensor_vars, row_vars, mean_vars
  <2>4. turn' = [turn EXCEPT ![i] = turn'[i]] /\ turn'[i] \in turn[i] .. LoopCount(i)
    <3>1. turn' = [turn EXCEPT ![i] = turn[i] + 1]
      BY <2>1
    <3>2. turn'[i] \in turn[i] .. LoopCount(i)
      BY <1>2, <1>5, <2>2
    <3> QED
      BY <2>2, <3>1, <3>2
  <2>5. \A k \in turn[i] + 1 .. turn'[i] : k = turn[i] + 1
    BY <1>2, <2>2
  <2>6. /\ there = "claim" => IsAsked(i, neighbours[i][turn'[i]])
        /\ \A k \in turn[i] + 1 .. turn'[i] : there # "claim" => ~IsAsked(i, neighbours[i][k])
    BY <2>1, <2>2, <2>5
  <2> QED
    BY <1>4, <2>1, <2>2, <2>3, <2>4, <2>6
<1>6. CASE ~(turn[i] < LoopCount(i))
  <2>1. PICK solved \in Solves(i) :
          LET votes == SubSeq(neighbours[i], 1, LoopCount(i))
              passes == LoopCount(i) >= MinNeigh(i) /\ solved
          IN  /\ tensors_p1' = [tensors_p1 EXCEPT ![i] = votes]
              /\ filters' = [filters EXCEPT ![i].first = passes]
              /\ tensors_p2' = [tensors_p2 EXCEPT ![i] =
                                  TensorOf(i, passes, votes, LoopCount(i))]
              /\ GoTo(i, "off")
              /\ UNCHANGED <<ellipsoid, turn>>
    BY <1>6 DEF NextNeighbour
  <2>2. turn' = [turn EXCEPT ![i] = turn'[i]] /\ turn'[i] = LoopCount(i) /\ turn[i] = LoopCount(i)
    BY <1>1, <1>2, <1>6, <2>1 DEF VoteTypes
  <2>3. VoteTypes'
    <3> DEFINE votes == SubSeq(neighbours[i], 1, LoopCount(i))
               passes == LoopCount(i) >= MinNeigh(i) /\ solved
    <3>1. votes \in Seq(Points) /\ passes \in BOOLEAN
      <4>1. neighbours[i] \in Seq(Points) /\ LoopCount(i) \in 0 .. Len(neighbours[i])
        BY <1>1, <1>2 DEF VoteTypes
      <4>2. \A k \in 1 .. LoopCount(i) : neighbours[i][k] \in Points
        BY <4>1, ElementOfSeq
      <4>3. votes \in Seq(Points)
        BY <4>1, <4>2, SubSeqProperties
      <4> QED
        BY <4>3, <2>1
    <3>2. TensorOf(i, passes, votes, LoopCount(i)) \in [votes : Seq(Points), over : Nat]
      BY <1>1, <1>2, <3>1 DEF TensorOf, VoteTypes
    <3> HIDE DEF votes, passes
    <3>3. /\ tensors_p1' \in [Points -> Seq(Points)]
          /\ filters' \in [Points -> [first : BOOLEAN, second : BOOLEAN]]
          /\ tensors_p2' \in [Points -> [votes : Seq(Points), over : Nat]]
      <4>1. tensors_p1' = [tensors_p1 EXCEPT ![i] = votes]
        BY <2>1 DEF votes
      <4>2. filters' = [filters EXCEPT ![i].first = passes]
        BY <2>1 DEF passes
      <4>3. tensors_p2' = [tensors_p2 EXCEPT ![i] = TensorOf(i, passes, votes, LoopCount(i))]
        BY <2>1 DEF votes, passes
      <4>4. tensors_p1' \in [Points -> Seq(Points)]
        BY <1>1, <3>1, <4>1 DEF VoteTypes
      <4>5. filters' \in [Points -> [first : BOOLEAN, second : BOOLEAN]]
        <5>1. filters \in [Points -> [first : BOOLEAN, second : BOOLEAN]]
          BY <1>1 DEF VoteTypes
        <5>2. [filters[i] EXCEPT !.first = passes] \in [first : BOOLEAN, second : BOOLEAN]
          BY <3>1, <5>1
        <5>3. filters' = [filters EXCEPT ![i] = [filters[i] EXCEPT !.first = passes]]
          BY <4>2, <5>1
        <5> QED
          BY <5>1, <5>2, <5>3
      <4>6. tensors_p2' \in [Points -> [votes : Seq(Points), over : Nat]]
        BY <1>1, <3>2, <4>3 DEF VoteTypes
      <4> QED
        BY <4>4, <4>5, <4>6
    <3> QED
      BY <1>1, <2>1, <3>3 DEF VoteTypes, VoteFrame, GoTo, row_vars, mean_vars
  <2> QED
    BY <1>2, <1>4, <2>1, <2>2, <2>3
<1> QED
  BY <1>2, <1>5, <1>6

\* Looking whether the row is full
LEMMA CheckRowInv ==
  ASSUME VoteInv, NEW i \in Points, CheckRow(i)
  PROVE  VoteInv'
<1>1. PICK there \in {"reserve", "next"} : GoTo(i, there)
  BY DEF CheckRow
<1>2. /\ VoteTypes /\ at[i] = "check" /\ VoteFrame
      /\ UNCHANGED <<tensor_vars, row_vars, turn, slot>>
  BY DEF CheckRow, VoteInv
<1>3. /\ at'[i] = there /\ \A k \in Points : k # i => at'[k] = at[k]
      /\ Added' = Added
      /\ UNCHANGED <<phase, updated_pt, update_idx, rows_used, row_pt, row_size, row, turn, slot>>
  BY <1>1, <1>2, OneGoes, Frame DEF VoteFrame, row_vars
<1>4. VoteTypes'
  BY <1>1, <1>2 DEF VoteTypes, VoteFrame, GoTo, tensor_vars, row_vars, mean_vars
<1>5. Started' = Started /\ RowsInv'
  BY <1>1, <1>2, <1>3, QuietRows
<1>6. Voters' /\ Marks' /\ AtRest'
  BY <1>1, <1>2, <1>3, QuietMarks DEF Asking
<1>7. Contents'
  BY <1>2, <1>3, <1>5 DEF VoteInv, Contents
<1> QED
  BY <1>4, <1>5, <1>6, <1>7 DEF VoteInv

\* A slot is taken before it is written.
LEMMA ReserveInv ==
  ASSUME VoteInv, NEW i \in Points, Reserve(i)
  PROVE  VoteInv'
<1> DEFINE u == update_idx[Current(i)]
<1>1. /\ VoteTypes /\ at[i] = "reserve" /\ VoteFrame /\ GoTo(i, "write")
      /\ slot' = [slot EXCEPT ![i] = <<u, row_size[u]>>]
      /\ row_size' = [row_size EXCEPT ![u] = @ + 1]
      /\ UNCHANGED <<tensor_vars, updated_pt, update_idx, rows_used, row_pt, row, turn>>
  BY DEF Reserve, VoteInv
<1>2. Current(i) \in Points /\ u \in Rows /\ row_size[u] \in Nat
  BY <1>1, InHandFacts DEF Asking, VoteTypes
<1> HIDE DEF u
<1>3. /\ at'[i] = "write" /\ \A k \in Points : k # i => at'[k] = at[k]
      /\ slot'[i] = <<u, row_size[u]>> /\ \A k \in Points : k # i => slot'[k] = slot[k]
      /\ row_size'[u] = row_size[u] + 1 /\ \A v \in Rows : v # u => row_size'[v] = row_size[v]
      /\ Added' = Added
      /\ UNCHANGED <<phase, updated_pt, update_idx, rows_used, row_pt, row, turn>>
  BY <1>1, <1>2, OneGoes, Frame DEF VoteFrame, VoteTypes
<1>4. VoteTypes'
  <2>1. /\ at' \in [Points -> {"off", "start", "next", "claim", "index", "reset",
                               "check", "reserve", "write"}]
        /\ slot' \in [Points -> Rows \X Nat]
    BY <1>1, <1>2 DEF VoteTypes, GoTo
  <2>2. row_size' \in [Rows -> Nat]
    <3>1. row_size \in [Rows -> Nat]
      BY <1>1 DEF VoteTypes
    <3>2. row_size' = [row_size EXCEPT ![u] = row_size[u] + 1]
      BY <1>1
    <3> QED
      BY <1>2, <3>1, <3>2
  <2> QED
    BY <1>1, <2>1, <2>2 DEF VoteTypes, VoteFrame, tensor_vars, mean_vars
<1>5. Started' = Started /\ RowsInv'
  BY <1>1, <1>3, QuietRows
<1>6. Voters' /\ Marks' /\ AtRest'
  BY <1>1, <1>3, QuietMarks DEF Asking
<1>7. Contents'
  <2> SUFFICES ASSUME phase = "vote", NEW j \in Started, NEW s \in Slots,
                      s < row_size'[update_idx[j]]
               PROVE  \/ row[update_idx[j]][s] \in Added
                      \/ \E k \in Points : at'[k] = "write" /\ slot'[k] = <<update_idx[j], s>>
    BY <1>3, <1>5 DEF Contents
  <2>1. update_idx[j] \in Rows /\ row_size[update_idx[j]] \in Nat /\ s \in Int
    BY <1>1, VoteAssumption DEF Started, Indexed, VoteTypes, Slots
  <2>2. CASE update_idx[j] = u /\ s = row_size[u]
    BY <1>3, <2>2
  <2>3. CASE ~(update_idx[j] = u /\ s = row_size[u])
    <3>1. s < row_size[update_idx[j]]
      BY <1>2, <1>3, <2>1, <2>3
    <3> QED
      BY <1>1, <1>3, <3>1 DEF VoteInv, Contents
  <2> QED
    BY <2>2, <2>3
<1> QED
  BY <1>4, <1>5, <1>6, <1>7 DEF VoteInv

\* The slot is written.
LEMMA WriteSlotInv ==
  ASSUME VoteInv, NEW i \in Points, WriteSlot(i)
  PROVE  VoteInv'
<1> DEFINE u == slot[i][1]
           s == slot[i][2]
<1>1. /\ VoteTypes /\ at[i] = "write" /\ VoteFrame /\ GoTo(i, "next")
      /\ row' = IF s \in Slots THEN [row EXCEPT ![u][s] = i] ELSE row
      /\ UNCHANGED <<tensor_vars, updated_pt, update_idx, rows_used, row_pt, row_size, turn, slot>>
  BY DEF WriteSlot, VoteInv
<1>2. /\ u \in Rows /\ s \in Nat /\ slot[i] = <<u, s>>
      /\ phase = "vote" /\ i \in Added
  <2>1. slot[i] \in Rows \X Nat
    BY <1>1 DEF VoteTypes
  <2>2. phase = "vote" /\ i \in Added
    BY <1>1, InHandFacts DEF Asking
  <2> QED
    BY <2>1, <2>2
<1> HIDE DEF u, s
<1>3. /\ at'[i] = "next" /\ \A k \in Points : k # i => at'[k] = at[k]
      /\ Added' = Added
      /\ UNCHANGED <<phase, updated_pt, update_idx, rows_used, row_pt, row_size, turn, slot>>
  BY <1>1, <1>2, OneGoes, Frame DEF VoteFrame
<1>4. \A v \in Rows, z \in Slots :
        row'[v][z] = IF v = u /\ z = s THEN i ELSE row[v][z]
  BY <1>1, <1>2 DEF VoteTypes
<1>5. VoteTypes'
  <2>1. at' \in [Points -> {"off", "start", "next", "claim", "index", "reset",
                            "check", "reserve", "write"}]
    BY <1>1 DEF VoteTypes, GoTo
  <2>2. row' \in [Rows -> [Slots -> Points \cup {0}]]
    <3>1. row \in [Rows -> [Slots -> Points \cup {0}]]
      BY <1>1 DEF VoteTypes
    <3>2. s \in Slots => [row[u] EXCEPT ![s] = i] \in [Slots -> Points \cup {0}]
      BY <1>2, <3>1
    <3> QED
      BY <1>1, <1>2, <3>1, <3>2
  <2> QED
    BY <1>1, <2>1, <2>2 DEF VoteTypes, VoteFrame, tensor_vars, mean_vars
<1>6. Started' = Started /\ RowsInv'
  BY <1>1, <1>3, QuietRows
<1>7. Voters' /\ Marks' /\ AtRest'
  BY <1>1, <1>3, QuietMarks DEF Asking
<1>8. Contents'
  <2> SUFFICES ASSUME NEW j \in Started, NEW z \in Slots, z < row_size[update_idx[j]]
               PROVE  \/ row'[update_idx[j]][z] \in Added
                      \/ \E k \in Points : at'[k] = "write" /\ slot[k] = <<update_idx[j], z>>
    BY <1>3, <1>6 DEF Contents
  <2>1. update_idx[j] \in Rows
    BY <1>1 DEF Started, Indexed, VoteTypes
  <2>2. \/ row[update_idx[j]][z] \in Added
        \/ \E k \in Points : at[k] = "write" /\ slot[k] = <<update_idx[j], z>>
    BY <1>2 DEF VoteInv, Contents
  <2>3. CASE update_idx[j] = u /\ z = s
    BY <1>2, <1>4, <2>1, <2>3
  <2>4. CASE ~(update_idx[j] = u /\ z = s)
    <3>1. row'[update_idx[j]][z] = row[update_idx[j]][z]
      BY <1>4, <2>1, <2>4
    <3>2. \A k \in Points : slot[k] = <<update_idx[j], z>> => k # i
      BY <1>2, <2>4
    <3> QED
      BY <1>3, <2>2, <3>1, <3>2
  <2> QED
    BY <2>3, <2>4
<1> QED
  BY <1>5, <1>6, <1>7, <1>8 DEF VoteInv

\* Announcing oneself marks the neighbour.
LEMMA ClaimInv ==
  ASSUME VoteInv, NEW i \in Points, Claim(i)
  PROVE  VoteInv' /\ Started' = Started
<1> DEFINE j == Current(i)
           there == IF updated_pt[j] = 0 THEN "index" ELSE "check"
<1>1. /\ VoteTypes /\ at[i] = "claim" /\ VoteFrame /\ GoTo(i, there)
      /\ updated_pt' = [updated_pt EXCEPT ![j] = @ + 1]
      /\ UNCHANGED <<tensor_vars, update_idx, rows_used, row_pt, row_size, row, turn, slot>>
  BY DEF Claim, VoteInv
<1>2. /\ j \in Points /\ updated_pt[j] \in Nat /\ phase = "vote" /\ i \in Added
      /\ turn[i] \in 1 .. LoopCount(i) /\ turn[i] \in Nat /\ IsAsked(i, j)
      /\ Added \subseteq Points
  BY <1>1, InHandFacts, AddedPoints DEF Asking, VoteTypes
<1>3. j = neighbours[i][turn[i]]
  BY DEF Current
<1>4. there \in {"index", "check"}
  OBVIOUS
<1>5. \A k \in Points : k # i => at'[k] = at[k]
  BY <1>1, OneGoes
<1>6. /\ at'[i] = there
      /\ updated_pt'[j] = updated_pt[j] + 1
      /\ \A p \in Points : p # j => updated_pt'[p] = updated_pt[p]
      /\ Added' = Added
      /\ \A k \in Points : LoopCount(k)' = LoopCount(k)
      /\ \A k, p : IsAsked(k, p)' = IsAsked(k, p)
      /\ UNCHANGED <<phase, round, neighbours, update_idx, rows_used, row_pt, row_size, row, turn, slot>>
  BY <1>1, <1>2, OneGoes, Frame DEF VoteFrame, VoteTypes
<1>7. /\ \A k \in Points : Current(k)' = Current(k)
      /\ UsedRows' = UsedRows
  BY <1>6 DEF Current, UsedRows
<1>8. \A k \in Points : at[k] \in {"index", "reset"} /\ Current(k) = j => updated_pt[j] > 0
  BY InHandFacts DEF Asking
<1>9. updated_pt[j] = 0 => there = "index"
  OBVIOUS
<1>10. updated_pt[j] > 0 => there = "check"
  BY <1>2
<1> HIDE DEF there
<1>11. VoteTypes'
  <2>1. at' \in [Points -> {"off", "start", "next", "claim", "index", "reset",
                            "check", "reserve", "write"}]
    BY <1>1, <1>4 DEF VoteTypes, GoTo
  <2>2. updated_pt' \in [Points -> Nat]
    <3>1. updated_pt \in [Points -> Nat]
      BY <1>1 DEF VoteTypes
    <3>2. updated_pt' = [updated_pt EXCEPT ![j] = updated_pt[j] + 1]
      BY <1>1
    <3> QED
      BY <1>2, <3>1, <3>2
  <2> QED
    BY <1>1, <2>1, <2>2 DEF VoteTypes, VoteFrame, tensor_vars, mean_vars
<1> HIDE DEF j
<1>12. Voters' /\ AtRest'
  BY <1>1, <1>2, <1>4, <1>5, <1>6, <1>7 DEF VoteInv, Voters, AtRest, j
<1>13. Marks'
  <2>1. ASSUME NEW k \in Added, NEW n, NEW p
        PROVE  HasAsked(k, n, p)' <=> HasAsked(k, n, p) \/ (k = i /\ n = turn[i] /\ p = j)
    <3>1. CASE k # i
      BY <1>2, <1>5, <1>6, <3>1 DEF HasAsked
    <3>2. CASE k = i
      BY <1>1, <1>2, <1>3, <1>4, <1>6, <3>2 DEF HasAsked
    <3> QED
      BY <3>1, <3>2
  <2>2. turn[i] \in 1 .. turn[i]
    BY <1>2
  <2>3. ASSUME NEW p \in Points
        PROVE  updated_pt'[p] > 0 <=> updated_pt[p] > 0 \/ p = j
    <3>1. updated_pt'[j] > 0
      BY <1>2, <1>6
    <3> QED
      BY <1>6, <3>1
  <2> QED
    BY <1>2, <1>6, <2>1, <2>2, <2>3 DEF VoteInv, Marks
<1>14. Indexed' = Indexed /\ Started' = Started
  <2>1. CASE updated_pt[j] = 0
    <3>1. there = "index" /\ j \notin Indexed
      BY <1>9, <2>1 DEF Indexed
    <3>2. j \notin Indexed'
      BY <1>6, <1>7, <3>1 DEF Indexed, InHandAt, j
    <3>3. ASSUME NEW p \in Points, p # j
          PROVE  /\ InHandAt("index", p)' <=> InHandAt("index", p)
                 /\ InHandAt("reset", p)' <=> InHandAt("reset", p)
      BY <1>1, <1>5, <1>6, <1>7, <3>1, <3>3 DEF InHandAt, j
    <3> QED
      BY <1>6, <3>1, <3>2, <3>3 DEF Indexed, Started
  <2>2. CASE updated_pt[j] > 0
    <3>1. there = "check"
      BY <1>10, <2>2
    <3>2. ASSUME NEW p
          PROVE  /\ InHandAt("index", p)' <=> InHandAt("index", p)
                 /\ InHandAt("reset", p)' <=> InHandAt("reset", p)
      BY <1>1, <1>5, <1>6, <1>7, <3>1 DEF InHandAt
    <3>3. updated_pt'[j] > 0
      BY <1>2, <1>6, <2>2
    <3>4. \A p \in Points : updated_pt'[p] > 0 <=> updated_pt[p] > 0
      BY <1>6, <2>2, <3>3
    <3>5. Indexed' = Indexed
      BY <3>2, <3>4 DEF Indexed
    <3> QED
      BY <3>2, <3>5 DEF Started
  <2> QED
    BY <1>2, <2>1, <2>2
<1>15. RowsInv'
  <2>1. ASSUME NEW k \in Points, NEW l \in Points,
               at'[k] \in {"index", "reset"}, at'[l] \in {"index", "reset"},
               Current(k) = Current(l)
        PROVE  k = l
    <3>1. ASSUME NEW m \in Points, m # i, at'[m] \in {"index", "reset"},
                 at'[i] \in {"index", "reset"}, Current(m) = j
          PROVE  FALSE
      <4>1. at[m] \in {"index", "reset"}
        BY <1>5, <3>1
      <4>2. updated_pt[j] > 0
        BY <1>8, <3>1, <4>1
      <4> QED
        BY <1>6, <1>10, <3>1, <4>2
    <3>2. CASE k # i /\ l # i
      BY <1>2, <1>5, <2>1, <3>2 DEF VoteInv, RowsInv
    <3>3. CASE k = i /\ l # i
      BY <2>1, <3>1, <3>3 DEF j
    <3>4. CASE k # i /\ l = i
      BY <2>1, <3>1, <3>4 DEF j
    <3> QED
      BY <3>2, <3>3, <3>4
  <2> QED
    BY <1>2, <1>6, <1>7, <1>14, <2>1 DEF VoteInv, RowsInv
<1>16. Contents'
  <2>1. \A k \in Points : at[k] = "write" => at'[k] = "write"
    BY <1>1, <1>5
  <2> QED
    BY <1>2, <1>6, <1>14, <2>1 DEF VoteInv, Contents
<1> QED
  BY <1>11, <1>12, <1>13, <1>14, <1>15, <1>16 DEF VoteInv

\* There is a row left for a point that has none.
LEMMA RoomForRow ==
  ASSUME VoteInv, phase = "vote", NEW p \in Points, p \notin Indexed
  PROVE  rows_used \in Rows
<1> DEFINE f == [j \in Indexed |-> update_idx[j]]
<1>1. /\ IsFiniteSet(Points) /\ Cardinality(Points) \in Nat /\ Indexed \subseteq Points
      /\ rows_used \in Nat
  BY FinitePoints DEF Indexed, VoteInv, VoteTypes
<1>2. /\ \A j \in Indexed : update_idx[j] \in UsedRows
      /\ \A j, k \in Indexed : update_idx[j] = update_idx[k] => j = k
      /\ \A u \in UsedRows : \E j \in Indexed : update_idx[j] = u
  BY DEF VoteInv, RowsInv
<1>3. f \in Bijection(Indexed, UsedRows)
  BY <1>2 DEF Bijection, Injection, Surjection, IsInjective
<1>4. IsFiniteSet(Indexed) /\ Cardinality(Indexed) = Cardinality(UsedRows)
  <2>1. IsFiniteSet(Indexed)
    BY <1>1, FS_Subset
  <2>2. ExistsBijection(Indexed, UsedRows)
    BY <1>3, Zenon DEF ExistsBijection
  <2> QED
    BY <2>1, <2>2, FS_Bijection
<1>5. Cardinality(UsedRows) = rows_used
  <2>1. rows_used - 1 \in Int /\ (0 > rows_used - 1 <=> rows_used = 0)
    BY <1>1
  <2> QED
    BY <1>1, <2>1, FS_Interval DEF UsedRows
<1>6. Cardinality(Indexed \cup {p}) = rows_used + 1
  BY <1>4, <1>5, FS_AddElement
<1>7. Cardinality(Indexed \cup {p}) <= Cardinality(Points)
  <2>1. Indexed \cup {p} \in SUBSET Points
    BY <1>1
  <2> QED
    BY <1>1, <2>1, FS_Subset
<1> QED
  BY <1>1, <1>6, <1>7 DEF Rows

\* A thread that gives a point its row, or starts it, is the only one at it.
LEMMA OwnRow ==
  ASSUME VoteInv, NEW i \in Points, at[i] \in {"index", "reset"}
  PROVE  /\ \A k \in Points : k # i /\ at[k] \in {"index", "reset"} => Current(k) # Current(i)
         /\ Current(i) \in Indexed <=> at[i] = "reset"
         /\ Current(i) \notin Started
<1>1. phase = "vote" /\ Current(i) \in Points /\ updated_pt[Current(i)] > 0
  BY InHandFacts DEF Asking
<1>2. \A k \in Points : k # i /\ at[k] \in {"index", "reset"} => Current(k) # Current(i)
  BY <1>1 DEF VoteInv, RowsInv
<1>3. Current(i) \in Indexed <=> at[i] = "reset"
  BY <1>1, <1>2 DEF Indexed, InHandAt
<1>4. Current(i) \notin Started
  BY <1>3 DEF Started, InHandAt
<1> QED
  BY <1>2, <1>3, <1>4

\* The first to announce itself takes the next row.
LEMMA WriteIndexInv ==
  ASSUME VoteInv, NEW i \in Points, WriteIndex(i)
  PROVE  VoteInv' /\ Started' = Started
<1> DEFINE j == Current(i)
<1>1. /\ VoteTypes /\ at[i] = "index" /\ VoteFrame /\ GoTo(i, "reset")
      /\ update_idx' = [update_idx EXCEPT ![j] = rows_used]
      /\ rows_used' = rows_used + 1
      /\ UNCHANGED <<tensor_vars, updated_pt, row_pt, row_size, row, turn, slot>>
  BY DEF WriteIndex, VoteInv
<1>2. j \in Points /\ phase = "vote" /\ rows_used \in Nat
  BY <1>1, InHandFacts DEF Asking, VoteTypes
<1>3. /\ \A k \in Points : k # i /\ at[k] \in {"index", "reset"} => Current(k) # j
      /\ j \notin Indexed /\ j \notin Started
      /\ updated_pt[j] > 0
  BY <1>1, OwnRow, InHandFacts DEF Asking
<1>4. rows_used \in Rows
  BY <1>2, <1>3, RoomForRow
<1>5. /\ at'[i] = "reset" /\ \A k \in Points : k # i => at'[k] = at[k]
      /\ update_idx'[j] = rows_used
      /\ \A p \in Points : p # j => update_idx'[p] = update_idx[p]
      /\ Added' = Added
      /\ UNCHANGED <<phase, neighbours, updated_pt, row_pt, row_size, row, turn, slot>>
  BY <1>1, <1>2, OneGoes, Frame DEF VoteFrame, VoteTypes
<1>6. \A k \in Points : Current(k)' = Current(k)
  BY <1>5 DEF Current
<1>7. UsedRows' = UsedRows \cup {rows_used} /\ rows_used \notin UsedRows
  BY <1>1, <1>2 DEF UsedRows
<1> HIDE DEF j
<1>8. VoteTypes'
  <2>1. at' \in [Points -> {"off", "start", "next", "claim", "index", "reset",
                            "check", "reserve", "write"}]
    BY <1>1 DEF VoteTypes, GoTo
  <2>2. update_idx' \in [Points -> Rows]
    BY <1>1, <1>4 DEF VoteTypes
  <2>3. rows_used' \in Nat
    BY <1>1, <1>2
  <2> QED
    BY <1>1, <2>1, <2>2, <2>3 DEF VoteTypes, VoteFrame, tensor_vars, mean_vars
<1>9. Voters' /\ Marks' /\ AtRest'
  BY <1>1, <1>5, QuietMarks DEF Asking
<1>10. /\ \A p \in Points : p = j => InHandAt("reset", p)' /\ ~InHandAt("index", p)'
       /\ \A p \in Points : p # j => /\ InHandAt("index", p)' <=> InHandAt("index", p)
                                     /\ InHandAt("reset", p)' <=> InHandAt("reset", p)
  BY <1>1, <1>3, <1>5, <1>6 DEF InHandAt, j
<1>11. Indexed' = Indexed \cup {j} /\ Started' = Started
  <2>1. j \in Indexed' /\ j \notin Started'
    BY <1>2, <1>3, <1>5, <1>10 DEF Indexed, Started
  <2>2. \A p \in Points : p # j => (p \in Indexed' <=> p \in Indexed)
    BY <1>5, <1>10 DEF Indexed
  <2>3. Indexed \subseteq Points /\ Indexed' \subseteq Points
    BY DEF Indexed
  <2>4. Indexed' = Indexed \cup {j}
    BY <1>2, <2>1, <2>2, <2>3
  <2>5. \A p \in Points : p # j => (p \in Started' <=> p \in Started)
    BY <1>10, <2>2 DEF Started
  <2>6. Started \subseteq Points /\ Started' \subseteq Points
    BY <2>3 DEF Started
  <2>7. Started' = Started
    BY <1>3, <2>1, <2>5, <2>6
  <2> QED
    BY <2>4, <2>7
<1>12. RowsInv'
  <2>1. /\ \A k \in Indexed : update_idx[k] \in UsedRows
        /\ \A k, l \in Indexed : update_idx[k] = update_idx[l] => k = l
        /\ \A u \in UsedRows : \E k \in Indexed : update_idx[k] = u
        /\ \A k \in Started : row_pt[update_idx[k]] = k
    BY <1>2 DEF VoteInv, RowsInv
  <2>2. \A k \in Indexed : k \in Points /\ k # j /\ update_idx'[k] = update_idx[k]
    BY <1>3, <1>5 DEF Indexed
  <2>3. \A k \in Indexed' : update_idx'[k] \in UsedRows'
    BY <1>5, <1>7, <1>11, <2>1, <2>2
  <2>4. \A k, l \in Indexed' : update_idx'[k] = update_idx'[l] => k = l
    BY <1>5, <1>7, <1>11, <2>1, <2>2
  <2>5. \A u \in UsedRows' : \E k \in Indexed' : update_idx'[k] = u
    BY <1>5, <1>7, <1>11, <2>1, <2>2
  <2>6. \A k \in Started' : row_pt'[update_idx'[k]] = k
    BY <1>5, <1>11, <2>1, <2>2 DEF Started
  <2>7. \A k, l \in Points :
          at'[k] \in {"index", "reset"} /\ at'[l] \in {"index", "reset"}
            /\ Current(k) = Current(l) => k = l
    BY <1>1, <1>2, <1>3, <1>5 DEF VoteInv, RowsInv, j
  <2> QED
    BY <1>6, <2>3, <2>4, <2>5, <2>6, <2>7 DEF RowsInv
<1>13. Contents'
  <2>1. \A k \in Started : update_idx'[k] = update_idx[k]
    BY <1>3, <1>5 DEF Started, Indexed
  <2>2. \A k \in Points : at[k] = "write" => at'[k] = "write"
    BY <1>1, <1>5
  <2> QED
    BY <1>2, <1>5, <1>11, <2>1, <2>2 DEF VoteInv, Contents
<1> QED
  BY <1>8, <1>9, <1>11, <1>12, <1>13 DEF VoteInv

\* ... and starts it.
LEMMA ResetRowInv ==
  ASSUME VoteInv, NEW i \in Points, ResetRow(i)
  PROVE  VoteInv' /\ Started' = Started \cup {Current(i)}
<1> DEFINE j == Current(i)
           u == update_idx[j]
<1>1. /\ VoteTypes /\ at[i] = "reset" /\ VoteFrame /\ GoTo(i, "reserve")
      /\ row_pt' = [row_pt EXCEPT ![u] = j]
      /\ row_size' = [row_size EXCEPT ![u] = 0]
      /\ UNCHANGED <<tensor_vars, updated_pt, update_idx, rows_used, row, turn, slot>>
  BY DEF ResetRow, Emptied, VoteInv
<1>2. j \in Points /\ phase = "vote" /\ u \in Rows
  BY <1>1, InHandFacts DEF Asking, VoteTypes
<1>3. /\ \A k \in Points : k # i /\ at[k] \in {"index", "reset"} => Current(k) # j
      /\ j \in Indexed /\ j \notin Started
  BY <1>1, OwnRow
<1>4. /\ at'[i] = "reserve" /\ \A k \in Points : k # i => at'[k] = at[k]
      /\ row_pt'[u] = j /\ row_size'[u] = 0
      /\ \A v \in Rows : v # u => row_pt'[v] = row_pt[v] /\ row_size'[v] = row_size[v]
      /\ Added' = Added
      /\ UNCHANGED <<phase, neighbours, updated_pt, update_idx, rows_used, row, turn, slot>>
  BY <1>1, <1>2, OneGoes, Frame DEF VoteFrame, VoteTypes
<1>5. /\ \A k \in Points : Current(k)' = Current(k)
      /\ UsedRows' = UsedRows
  BY <1>4 DEF Current, UsedRows
<1> HIDE DEF j, u
<1>6. VoteTypes'
  <2>1. at' \in [Points -> {"off", "start", "next", "claim", "index", "reset",
                            "check", "reserve", "write"}]
    BY <1>1 DEF VoteTypes, GoTo
  <2>2. row_pt' \in [Rows -> Points \cup {0}] /\ row_size' \in [Rows -> Nat]
    BY <1>1, <1>2 DEF VoteTypes
  <2> QED
    BY <1>1, <2>1, <2>2 DEF VoteTypes, VoteFrame, tensor_vars, mean_vars
<1>7. Voters' /\ Marks' /\ AtRest'
  BY <1>1, <1>4, QuietMarks DEF Asking
<1>8. /\ \A p \in Points : p = j => ~InHandAt("reset", p)'
      /\ \A p \in Points : InHandAt("index", p)' <=> InHandAt("index", p)
      /\ \A p \in Points : p # j => (InHandAt("reset", p)' <=> InHandAt("reset", p))
  BY <1>1, <1>3, <1>4, <1>5 DEF InHandAt, j
<1>9. Indexed' = Indexed /\ Started' = Started \cup {j}
  <2>1. Indexed' = Indexed
    BY <1>4, <1>8 DEF Indexed
  <2>2. j \in Started'
    BY <1>2, <1>3, <1>8, <2>1 DEF Started
  <2>3. \A p \in Points : p # j => (p \in Started' <=> p \in Started)
    BY <1>8, <2>1 DEF Started
  <2>4. Started \subseteq Points /\ Started' \subseteq Points
    BY DEF Started, Indexed
  <2>5. Started' = Started \cup {j}
    BY <1>2, <2>2, <2>3, <2>4
  <2> QED
    BY <2>1, <2>5
<1>10. \A k \in Started : update_idx[k] # u /\ update_idx[k] \in Rows
  BY <1>1, <1>2, <1>3 DEF VoteInv, RowsInv, Started, Indexed, VoteTypes, u
<1>11. RowsInv'
  <2>1. \A k \in Started' : row_pt'[update_idx[k]] = k
    BY <1>2, <1>4, <1>9, <1>10 DEF VoteInv, RowsInv, u
  <2>2. \A k, l \in Points :
          at'[k] \in {"index", "reset"} /\ at'[l] \in {"index", "reset"}
            /\ Current(k) = Current(l) => k = l
    BY <1>2, <1>4 DEF VoteInv, RowsInv
  <2> QED
    BY <1>2, <1>4, <1>5, <1>9, <2>1, <2>2 DEF VoteInv, RowsInv
<1>12. Contents'
  <2>1. \A k \in Points : at[k] = "write" => at'[k] = "write"
    BY <1>1, <1>4
  <2>2. \A z \in Slots : ~(z < 0)
    BY VoteAssumption DEF Slots
  <2>3. ASSUME NEW k \in Started, NEW z \in Slots, z < row_size'[update_idx[k]]
        PROVE  \/ row[update_idx[k]][z] \in Added
               \/ \E l \in Points : at'[l] = "write" /\ slot[l] = <<update_idx[k], z>>
    BY <1>2, <1>4, <1>10, <2>1, <2>3 DEF VoteInv, Contents
  <2>4. ASSUME NEW z \in Slots, z < row_size'[update_idx[j]] PROVE FALSE
    BY <1>4, <2>2, <2>4 DEF u
  <2> QED
    BY <1>4, <1>9, <2>3, <2>4 DEF Contents
<1> QED
  BY <1>6, <1>7, <1>9, <1>11, <1>12 DEF VoteInv, j

-----------------------------------------------------------------------------
(* The steps between the votes                                             *)

\* Before the first round there is nothing.
LEMMA InitVoteInv == Init => VoteInv
<1> SUFFICES ASSUME Init PROVE VoteInv
  OBVIOUS
<1>1. /\ phase = "map" /\ \A p \in Points : at[p] = "off" /\ updated_pt[p] = 0
  BY DEF Init
<1>2. ASSUME NEW p \in Points PROVE 0 \in Rows
  <2>1. Cardinality(Points) # 0
    BY FinitePoints, FS_EmptySet
  <2> QED
    BY <2>1, FinitePoints DEF Rows
<1>3. <<>> \in Seq(Points)
  OBVIOUS
<1>4. NoSlot \in {0} \X Nat
  BY DEF NoSlot
<1>5. VoteTypes
  <2>1. /\ update_idx \in [Points -> Rows] /\ slot \in [Points -> Rows \X Nat]
    BY <1>2, <1>4 DEF Init, NoSlot
  <2>2. /\ neighbours \in [Points -> Seq(Points)] /\ tensors_p1 \in [Points -> Seq(Points)]
        /\ tensors_p2 \in [Points -> [votes : Seq(Points), over : Nat]]
    BY <1>3 DEF Init
  <2>3. /\ filters \in [Points -> [first : BOOLEAN, second : BOOLEAN]]
        /\ n_means \in [VoteBins -> 0 .. MaxNeighbours]
        /\ ellipsoid \in [Points -> 0 .. Len(Batches)]
        /\ round \in 0 .. Len(Batches)
    BY VoteAssumption, FinitePoints DEF Init
  <2> QED
    BY <2>1, <2>2, <2>3 DEF Init, VoteTypes
<1> QED
  BY <1>1, <1>5 DEF VoteInv, AtRest, Voters, Marks, RowsInv, Contents

\* The mean stays within its limits.
LEMMA NewMeanIsLimit ==
  ASSUME VoteTypes, NEW b \in VoteBins, NEW new \in SUBSET Points, NEW found
  PROVE  NewMean(b, new, found) \in 0 .. MaxNeighbours
<1> DEFINE points == {p \in new : BinOf[p] = b}
           count == cnt_neighbours[b] + Cardinality(points)
           pairs == {pq \in points \X Points : pq[2] \in Range(found[pq[1]])}
           sum == n_means[b] * cnt_neighbours[b] + Cardinality(pairs)
<1>1. /\ MinNeighbours \in Nat /\ MaxNeighbours \in Nat /\ IsFiniteSet(Points)
      /\ n_means[b] \in Nat /\ cnt_neighbours[b] \in Nat \ {0}
  BY VoteAssumption, FinitePoints DEF VoteTypes
<1>2. Cardinality(points) \in Nat /\ IsFiniteSet(points)
  BY <1>1, FS_Subset, FS_CardinalityType
<1>3. Cardinality(pairs) \in Nat
  <2>1. IsFiniteSet(points \X Points)
    BY <1>1, <1>2, FS_Product
  <2>2. pairs \subseteq points \X Points
    OBVIOUS
  <2> QED
    BY <2>1, <2>2, FS_Subset, FS_CardinalityType
<1>4. NewMean(b, new, found) = Min({Max({sum \div count, MinNeighbours}), MaxNeighbours})
  BY DEF NewMean
<1> HIDE DEF points, pairs
<1>5. count \in Nat \ {0} /\ sum \in Nat
  BY <1>1, <1>2, <1>3
<1> HIDE DEF count, sum
<1> DEFINE mean == sum \div count
           raised == Max({mean, MinNeighbours})
<1>6. mean \in Nat
  BY <1>5
<1> HIDE DEF mean
<1>7. raised \in Nat
  <2>1. mean \in Int /\ MinNeighbours \in Int
    BY <1>1, <1>6
  <2>2. Max({mean, MinNeighbours}) = IF mean >= MinNeighbours THEN mean ELSE MinNeighbours
    BY <2>1, OfTwo
  <2> QED
    BY <1>1, <1>6, <2>2
<1>8. NewMean(b, new, found) = Min({raised, MaxNeighbours})
  BY <1>4 DEF raised, mean
<1> HIDE DEF raised
<1>9. Min({raised, MaxNeighbours}) = IF raised <= MaxNeighbours THEN raised ELSE MaxNeighbours
  BY <1>1, <1>7, OfTwo
<1> QED
  BY <1>1, <1>7, <1>8, <1>9

\* A round begins with no point marked and no row used.
LEMMA StartRoundInv ==
  ASSUME VoteInv, StartRound
  PROVE  VoteInv' /\ Started' = {}
<1> DEFINE new == Batches[round + 1]
           inMap == new \cup UNION {Batches[r] : r \in 1 .. round}
           found == [p \in new |-> NeighboursOf(p, inMap)]
<1>1. /\ VoteTypes /\ phase = "map" /\ round' = round + 1 /\ phase' = "vote"
      /\ round \in Nat /\ round < Len(Batches) /\ Len(Batches) \in Nat
      /\ rows_used' = 0 /\ turn' = [p \in Points |-> 0]
      /\ neighbours' = [p \in Points |-> IF p \in new THEN found[p] ELSE neighbours[p]]
      /\ updated_pt' = [p \in Points |-> IF p \in new THEN 0 ELSE updated_pt[p]]
      /\ at' = [p \in Points |-> IF p \in new THEN "start" ELSE "off"]
      /\ UNCHANGED <<threads, tensor_vars, update_idx, row_pt, row_size, row, slot>>
  BY FinitePoints DEF StartRound, VoteInv, VoteTypes
<1>2. new \subseteq Points /\ inMap \subseteq Points
  <2>1. round + 1 \in DOMAIN Batches /\ \A r \in 1 .. round : r \in DOMAIN Batches
    BY <1>1, FinitePoints
  <2> QED
    BY <2>1, FinitePoints
<1>3. Added' = new
  BY <1>1 DEF Added
<1>4. \A p \in new : found[p] \in Seq(Points)
  <2> SUFFICES ASSUME NEW p \in new PROVE NeighboursOf(p, inMap) \in Seq(Points)
    OBVIOUS
  <2> DEFINE S == {q \in inMap : Distance(p, q) # 0 /\ Distance(p, q) < Radius[BinOf[p]]}
  <2>1. S \in SUBSET Points
    BY <1>2
  <2>2. SetToSeq(S) \in Seq(S)
    BY <2>1, AnswerIsList
  <2>3. SetToSeq(S) \in Seq(Points)
    <3> HIDE DEF S
    <3> QED
      BY <2>1, <2>2
  <2> QED
    BY <2>3 DEF NeighboursOf
<1>5. n_means' \in [VoteBins -> 0 .. MaxNeighbours] /\ cnt_neighbours' \in [VoteBins -> Nat \ {0}]
  <2>1. n_means' = [b \in VoteBins |-> IF {p \in new : BinOf[p] = b} = {}
                                         THEN n_means[b] ELSE NewMean(b, new, found)]
        /\ cnt_neighbours' = [b \in VoteBins |->
                                cnt_neighbours[b] + Cardinality({p \in new : BinOf[p] = b})]
    BY DEF StartRound
  <2> HIDE DEF found
  <2>2. \A b \in VoteBins : Cardinality({p \in new : BinOf[p] = b}) \in Nat
    <3> SUFFICES ASSUME NEW b \in VoteBins PROVE Cardinality({p \in new : BinOf[p] = b}) \in Nat
      OBVIOUS
    <3>1. {p \in new : BinOf[p] = b} \subseteq Points
      BY <1>2
    <3> QED
      BY <3>1, FinitePoints, FS_Subset, FS_CardinalityType
  <2>3. \A b \in VoteBins : NewMean(b, new, found) \in 0 .. MaxNeighbours
    BY <1>1, <1>2, NewMeanIsLimit
  <2> HIDE DEF new
  <2>4. n_means \in [VoteBins -> 0 .. MaxNeighbours] /\ cnt_neighbours \in [VoteBins -> Nat \ {0}]
    BY <1>1 DEF VoteTypes
  <2>5. n_means' \in [VoteBins -> 0 .. MaxNeighbours]
    BY <2>1, <2>3, <2>4
  <2>6. \A b \in VoteBins : cnt_neighbours[b] + Cardinality({p \in new : BinOf[p] = b}) \in Nat \ {0}
    BY <2>2, <2>4
  <2> QED
    BY <2>1, <2>5, <2>6
<1> HIDE DEF new, inMap, found
<1>6. VoteTypes'
  <2>1. neighbours' \in [Points -> Seq(Points)] /\ updated_pt' \in [Points -> Nat]
    BY <1>1, <1>4 DEF VoteTypes
  <2>2. round' \in 0 .. Len(Batches) /\ rows_used' \in Nat
    BY <1>1
  <2> QED
    BY <1>1, <1>5, <2>1, <2>2 DEF VoteTypes, tensor_vars
<1>7. \A p \in Points : /\ updated_pt'[p] = 0 /\ turn'[p] = 0
                        /\ p \in new => at'[p] = "start"
                        /\ p \notin new => at'[p] = "off"
  BY <1>1 DEF VoteInv, AtRest
<1>8. \A p \in Points : LoopCount(p)' >= 0
  <2> SUFFICES ASSUME NEW p \in Points PROVE LoopCount(p)' >= 0
    OBVIOUS
  <2>1. Len(neighbours'[p]) \in Nat
    BY <1>6 DEF VoteTypes
  <2>2. n_means'[BinOf[p]] \in Nat /\ MaxNeighbours \in Nat
    BY <1>6, VoteAssumption DEF VoteTypes
  <2>3. MaxNeigh(p)' \in Nat
    <3>1. 2 * n_means'[BinOf[p]] \in Nat
      BY <2>2
    <3> QED
      BY <2>2, <3>1, OfTwo DEF MaxNeigh
  <2>4. LoopCount(p)' = Min({Len(neighbours'[p]), MaxNeigh(p)'})
    BY DEF LoopCount
  <2> HIDE DEF LoopCount, MaxNeigh
  <2> QED
    BY <2>1, <2>3, <2>4, OfTwo
<1>9. Voters'
  BY <1>1, <1>2, <1>3, <1>7, <1>8 DEF Voters, Asking
<1>10. Marks'
  <2>1. \A p \in Points : ~(updated_pt'[p] > 0) /\ 1 .. turn'[p] = {}
    BY <1>7
  <2> QED
    BY <1>2, <1>3, <2>1 DEF Marks
<1>11. Indexed' = {} /\ Started' = {} /\ UsedRows' = {}
  <2>1. \A p \in Points : ~(updated_pt'[p] > 0)
    BY <1>7
  <2>2. UsedRows' = {}
    BY <1>1 DEF UsedRows
  <2> QED
    BY <2>1, <2>2 DEF Indexed, Started
<1>12. RowsInv' /\ Contents' /\ AtRest'
  <2>1. \A p \in Points : at'[p] \notin {"index", "reset"}
    BY <1>7
  <2> QED
    BY <1>1, <1>11, <2>1 DEF RowsInv, Contents, AtRest
<1> QED
  BY <1>6, <1>9, <1>10, <1>11, <1>12 DEF VoteInv

\* When the vote is over every row is of one marked point, and started.
LEMMA OverFacts ==
  ASSUME VoteInv, VoteIsOver
  PROVE  /\ Started = {p \in Points : updated_pt[p] > 0} /\ Asked = Started
         /\ \A u, v \in UsedRows : u # v => row_pt[u] # row_pt[v]
         /\ \A p \in Asked : RowOf(p) = update_idx[p] /\ RowOf(p) \in UsedRows /\ RowOf(p) \in Rows
         /\ \A p \in Asked : \A s \in Slots : s < row_size[RowOf(p)] => row[RowOf(p)][s] \in Added
<1>1. phase = "vote" /\ \A p \in Points : at[p] = "off"
  BY DEF VoteIsOver
<1>2. /\ Indexed = {p \in Points : updated_pt[p] > 0}
      /\ Started = {p \in Points : updated_pt[p] > 0}
  BY <1>1 DEF Indexed, Started, InHandAt
<1>3. /\ \A p \in Started : update_idx[p] \in UsedRows /\ row_pt[update_idx[p]] = p
      /\ \A u \in UsedRows : \E p \in Started : update_idx[p] = u
  BY <1>1, <1>2 DEF VoteInv, RowsInv
<1>4. Asked = Started
  BY <1>3 DEF Asked
<1>5. \A u, v \in UsedRows : u # v => row_pt[u] # row_pt[v]
  BY <1>3
<1>6. ASSUME NEW p \in Asked
      PROVE  RowOf(p) = update_idx[p] /\ RowOf(p) \in UsedRows /\ RowOf(p) \in Rows
  <2>1. update_idx[p] \in UsedRows /\ row_pt[update_idx[p]] = p
    BY <1>3, <1>4
  <2>2. RowOf(p) \in UsedRows /\ row_pt[RowOf(p)] = p
    BY <2>1 DEF RowOf
  <2>3. RowOf(p) = update_idx[p]
    BY <1>5, <2>1, <2>2
  <2>4. update_idx[p] \in Rows
    BY <1>2, <1>4 DEF VoteInv, VoteTypes
  <2> QED
    BY <2>2, <2>3, <2>4
<1>7. ASSUME NEW p \in Asked, NEW s \in Slots, s < row_size[RowOf(p)]
      PROVE  row[RowOf(p)][s] \in Added
  BY <1>1, <1>4, <1>6, <1>7 DEF VoteInv, Contents
<1> QED
  BY <1>2, <1>4, <1>5, <1>6, <1>7

\* A point takes votes of this round's points, and not beyond its limit.
LEMMA TakenVotes ==
  ASSUME VoteInv, VoteIsOver, NEW p \in Updated
  PROVE  /\ p \in Points /\ Taken(p) \in Nat /\ Taken(p) <= row_size[RowOf(p)]
         /\ Len(neighbours[p]) + Taken(p) <= MaxNeigh(p)
         /\ NewVotes(p) \in Seq(Added) /\ Len(NewVotes(p)) = Taken(p)
         /\ \A k \in 1 .. Taken(p) : k - 1 \in Slots
<1>1. /\ p \in Asked /\ p \in Points /\ Len(neighbours[p]) < MaxNeigh(p)
      /\ RowOf(p) \in Rows /\ \A s \in Slots : s < row_size[RowOf(p)] => row[RowOf(p)][s] \in Added
  BY OverFacts DEF Updated
<1>2. /\ row_size[RowOf(p)] \in Nat /\ Len(neighbours[p]) \in Nat
      /\ MaxNeigh(p) \in 0 .. MaxNeighbours /\ MaxNeighbours \in Nat
  BY <1>1, Limits, VoteAssumption DEF VoteInv, VoteTypes
<1>3. /\ Taken(p) \in Nat /\ Taken(p) <= row_size[RowOf(p)]
      /\ Taken(p) <= MaxNeigh(p) - Len(neighbours[p])
  <2> DEFINE size == row_size[RowOf(p)]
             space == MaxNeigh(p) - Len(neighbours[p])
  <2>1. space \in Nat /\ size \in Nat
    BY <1>1, <1>2
  <2>2. Taken(p) = Min({size, space})
    BY DEF Taken
  <2> HIDE DEF size, space
  <2>3. Taken(p) = IF size <= space THEN size ELSE space
    BY <2>1, <2>2, OfTwo
  <2>4. Taken(p) \in Nat /\ Taken(p) <= size /\ Taken(p) <= space
    BY <2>1, <2>3
  <2> QED
    BY <2>4 DEF size, space
<1>4. \A k \in 1 .. Taken(p) : k - 1 \in Slots /\ k - 1 < row_size[RowOf(p)]
  <2> HIDE DEF Taken
  <2> SUFFICES ASSUME NEW k \in 1 .. Taken(p)
               PROVE  k - 1 \in Slots /\ k - 1 < row_size[RowOf(p)]
    OBVIOUS
  <2>1. k \in Nat /\ k >= 1 /\ k <= Taken(p)
    BY <1>3
  <2>2. Taken(p) <= MaxNeighbours
    BY <1>2, <1>3
  <2> QED
    BY <1>2, <1>3, <2>1, <2>2 DEF Slots
<1>5. NewVotes(p) \in [1 .. Taken(p) -> Added]
  BY <1>1, <1>4 DEF NewVotes
<1>6. NewVotes(p) \in Seq(Added) /\ Len(NewVotes(p)) = Taken(p)
  BY <1>3, <1>5
<1> QED
  BY <1>1, <1>2, <1>3, <1>4, <1>6

\* What the loops after the vote do to the lists and the sums
LEMMA AppendedVotes ==
  ASSUME VoteInv, AppendVotes
  PROVE  /\ VoteIsOver /\ phase' = "map" /\ updated_pt' = Released(updated_pt)
         /\ UNCHANGED <<threads, round, update_idx, rows_used, row_pt, row_size, row,
                        mean_vars, thread_vars>>
         /\ \A p \in Points :
              /\ neighbours'[p] =
                   IF p \in Updated THEN neighbours[p] \o NewVotes(p) ELSE neighbours[p]
              /\ tensors_p1'[p] =
                   IF p \in Updated THEN tensors_p1[p] \o NewVotes(p) ELSE tensors_p1[p]
              /\ p \notin Updated => filters'[p].first = filters[p].first
                                     /\ tensors_p2'[p] = tensors_p2[p]
              /\ filters'[p].first /\ p \in Updated => tensors_p2'[p].votes = tensors_p1'[p]
              /\ filters'[p].second => \/ ellipsoid'[p] = round
                                       \/ filters[p].second /\ ellipsoid'[p] = ellipsoid[p]
         /\ VoteTypes'
<1>1. PICK refused \in SUBSET (MayFail \cap Updated),
           refused2 \in SUBSET (MayFail \cap (Added \cup Updated)) :
       LET votes == [p \in Updated |-> NewVotes(p)]
           lists == [p \in Points |->
                       IF p \in Updated THEN neighbours[p] \o votes[p] ELSE neighbours[p]]
           first == [p \in Points |->
                       IF p \in Updated THEN Len(lists[p]) >= MinNeigh(p) /\ p \notin refused
                                        ELSE filters[p].first]
           second == {p \in Added \cup Updated : PassesSecond(p, lists, first)}
       IN  /\ neighbours' = lists
           /\ tensors_p1' = [p \in Points |->
                IF p \in Updated THEN tensors_p1[p] \o votes[p] ELSE tensors_p1[p]]
           /\ tensors_p2' = [p \in Points |->
                IF p \in Updated
                  THEN TensorOf(p, first[p], tensors_p1[p] \o votes[p], Len(lists[p]))
                  ELSE tensors_p2[p]]
           /\ filters' = [p \in Points |->
                [first |-> first[p],
                 second |-> IF p \in second THEN p \notin refused2
                                            ELSE filters[p].second]]
           /\ ellipsoid' = [p \in Points |->
                IF p \in second \ refused2 THEN round ELSE ellipsoid[p]]
  BY DEF AppendVotes
<1> DEFINE votes == [p \in Updated |-> NewVotes(p)]
           lists == [p \in Points |->
                       IF p \in Updated THEN neighbours[p] \o votes[p] ELSE neighbours[p]]
           first == [p \in Points |->
                       IF p \in Updated THEN Len(lists[p]) >= MinNeigh(p) /\ p \notin refused
                                        ELSE filters[p].first]
           second == {p \in Added \cup Updated : PassesSecond(p, lists, first)}
<1>2. /\ neighbours' = lists
      /\ tensors_p1' = [p \in Points |->
           IF p \in Updated THEN tensors_p1[p] \o votes[p] ELSE tensors_p1[p]]
      /\ tensors_p2' = [p \in Points |->
           IF p \in Updated
             THEN TensorOf(p, first[p], tensors_p1[p] \o votes[p], Len(lists[p]))
             ELSE tensors_p2[p]]
      /\ filters' = [p \in Points |->
           [first |-> first[p],
            second |-> IF p \in second THEN p \notin refused2 ELSE filters[p].second]]
      /\ ellipsoid' = [p \in Points |->
           IF p \in second \ refused2 THEN round ELSE ellipsoid[p]]
  BY <1>1
<1>3. /\ VoteIsOver /\ phase' = "map" /\ updated_pt' = Released(updated_pt)
      /\ UNCHANGED <<threads, round, update_idx, rows_used, row_pt, row_size, row,
                     mean_vars, thread_vars>>
      /\ VoteTypes
  BY DEF AppendVotes, VoteInv
<1> HIDE DEF second
<1>4. \A p \in Points : /\ p \in Updated => lists[p] = neighbours[p] \o NewVotes(p)
                                            /\ votes[p] = NewVotes(p)
                        /\ p \notin Updated => lists[p] = neighbours[p]
                        /\ p \notin Updated => first[p] = filters[p].first
  OBVIOUS
<1>5. \A p \in Points : first[p] \in BOOLEAN
  BY <1>3 DEF VoteTypes
<1>6. \A p \in Updated : NewVotes(p) \in Seq(Points)
  <2>1. Added \subseteq Points
    BY <1>3, AddedPoints DEF VoteIsOver
  <2> SUFFICES ASSUME NEW p \in Updated PROVE NewVotes(p) \in Seq(Points)
    OBVIOUS
  <2>2. NewVotes(p) \in Seq(Added)
    BY <1>3, TakenVotes
  <2> QED
    BY <2>1, <2>2
<1>7. \A p \in Points : lists[p] \in Seq(Points) /\ tensors_p1'[p] \in Seq(Points)
  <2> SUFFICES ASSUME NEW p \in Points
               PROVE  lists[p] \in Seq(Points) /\ tensors_p1'[p] \in Seq(Points)
    OBVIOUS
  <2>1. neighbours[p] \in Seq(Points) /\ tensors_p1[p] \in Seq(Points)
    BY <1>3 DEF VoteTypes
  <2>2. tensors_p1'[p] = IF p \in Updated THEN tensors_p1[p] \o NewVotes(p) ELSE tensors_p1[p]
    BY <1>2, <1>4
  <2>3. lists[p] = IF p \in Updated THEN neighbours[p] \o NewVotes(p) ELSE neighbours[p]
    BY <1>4
  <2> HIDE DEF lists
  <2>4. CASE p \in Updated
    <3>1. NewVotes(p) \in Seq(Points)
      BY <1>6, <2>4
    <3>2. /\ neighbours[p] \o NewVotes(p) \in Seq(Points)
          /\ tensors_p1[p] \o NewVotes(p) \in Seq(Points)
      BY <2>1, <3>1, ConcatProperties
    <3> QED
      BY <2>2, <2>3, <2>4, <3>2
  <2> QED
    BY <2>1, <2>2, <2>3, <2>4
<1>8. VoteTypes'
  <2>1. neighbours' \in [Points -> Seq(Points)]
    <3>1. neighbours' = [p \in Points |-> lists[p]]
      BY <1>2
    <3> HIDE DEF lists
    <3> QED
      BY <1>7, <3>1
  <2>2. tensors_p1' \in [Points -> Seq(Points)]
    <3>1. tensors_p1' = [p \in Points |-> tensors_p1'[p]]
      BY <1>2
    <3> QED
      BY <1>7, <3>1
  <2>3. tensors_p2' \in [Points -> [votes : Seq(Points), over : Nat]]
    <3> DEFINE T(p) == TensorOf(p, first[p], tensors_p1[p] \o votes[p], Len(lists[p]))
    <3>1. ASSUME NEW p \in Updated PROVE T(p) \in [votes : Seq(Points), over : Nat]
      <4>1. p \in Points
        BY <1>3, OverFacts DEF Updated
      <4>2. tensors_p1'[p] = tensors_p1[p] \o votes[p]
        BY <1>2, <4>1
      <4>3. tensors_p2[p] \in [votes : Seq(Points), over : Nat]
        BY <1>3, <4>1 DEF VoteTypes
      <4> HIDE DEF lists, votes, first
      <4>4. tensors_p1'[p] \in Seq(Points) /\ lists[p] \in Seq(Points)
        BY <1>7, <4>1
      <4>5. Len(lists[p]) \in Nat
        BY <4>4, LenProperties
      <4>6. tensors_p1[p] \o votes[p] \in Seq(Points) /\ Len(lists[p]) \in Nat
        BY <4>2, <4>4, <4>5, Zenon
      <4> QED
        BY <4>3, <4>6 DEF TensorOf
    <3>2. tensors_p2' = [p \in Points |-> IF p \in Updated THEN T(p) ELSE tensors_p2[p]]
      BY <1>2
    <3> HIDE DEF T
    <3>3. tensors_p2 \in [Points -> [votes : Seq(Points), over : Nat]]
      BY <1>3 DEF VoteTypes
    <3> QED
      BY <3>1, <3>2, <3>3
  <2>4. filters' \in [Points -> [first : BOOLEAN, second : BOOLEAN]]
    <3>1. \A p \in Points : filters[p].second \in BOOLEAN
      BY <1>3 DEF VoteTypes
    <3> HIDE DEF first
    <3> QED
      BY <1>2, <1>5, <3>1
  <2>5. ellipsoid' \in [Points -> 0 .. Len(Batches)]
    BY <1>2, <1>3 DEF VoteTypes
  <2>6. updated_pt' \in [Points -> Nat]
    BY <1>3 DEF VoteTypes, Released
  <2> QED
    BY <1>3, <2>1, <2>2, <2>3, <2>4, <2>5, <2>6 DEF VoteTypes, mean_vars, thread_vars
<1>9. ASSUME NEW p \in Points
      PROVE  /\ neighbours'[p] =
                  IF p \in Updated THEN neighbours[p] \o NewVotes(p) ELSE neighbours[p]
             /\ tensors_p1'[p] =
                  IF p \in Updated THEN tensors_p1[p] \o NewVotes(p) ELSE tensors_p1[p]
             /\ p \notin Updated => filters'[p].first = filters[p].first
                                    /\ tensors_p2'[p] = tensors_p2[p]
             /\ filters'[p].first /\ p \in Updated => tensors_p2'[p].votes = tensors_p1'[p]
             /\ filters'[p].second => \/ ellipsoid'[p] = round
                                      \/ filters[p].second /\ ellipsoid'[p] = ellipsoid[p]
  <2>1. /\ neighbours'[p] = lists[p]
        /\ tensors_p1'[p] = IF p \in Updated THEN tensors_p1[p] \o votes[p] ELSE tensors_p1[p]
        /\ tensors_p2'[p] =
             IF p \in Updated
               THEN TensorOf(p, first[p], tensors_p1[p] \o votes[p], Len(lists[p]))
               ELSE tensors_p2[p]
        /\ filters'[p].first = first[p]
        /\ filters'[p].second = IF p \in second THEN p \notin refused2 ELSE filters[p].second
        /\ ellipsoid'[p] = IF p \in second \ refused2 THEN round ELSE ellipsoid[p]
    <3> HIDE DEF lists, votes, first
    <3> QED
      BY <1>2
  <2>2. /\ p \in Updated => lists[p] = neighbours[p] \o NewVotes(p)
                            /\ votes[p] = NewVotes(p)
        /\ p \notin Updated => lists[p] = neighbours[p] /\ first[p] = filters[p].first
    BY <1>4
  <2> HIDE DEF lists, votes, first
  <2>3. /\ neighbours'[p] =
             IF p \in Updated THEN neighbours[p] \o NewVotes(p) ELSE neighbours[p]
        /\ tensors_p1'[p] =
             IF p \in Updated THEN tensors_p1[p] \o NewVotes(p) ELSE tensors_p1[p]
    BY <2>1, <2>2
  <2>4. /\ p \notin Updated => filters'[p].first = filters[p].first
                               /\ tensors_p2'[p] = tensors_p2[p]
    BY <2>1, <2>2
  <2>5. filters'[p].first /\ p \in Updated => tensors_p2'[p].votes = tensors_p1'[p]
    <3>1. CASE p \in Updated /\ first[p]
      <4> DEFINE sum == tensors_p1[p] \o votes[p]
      <4>1. tensors_p2'[p] = [votes |-> sum, over |-> Len(lists[p])]
        BY <2>1, <3>1 DEF TensorOf
      <4>2. tensors_p1'[p] = sum
        BY <2>1, <3>1
      <4> HIDE DEF sum
      <4> QED
        BY <4>1, <4>2
    <3> QED
      BY <2>1, <3>1
  <2>6. filters'[p].second => \/ ellipsoid'[p] = round
                              \/ filters[p].second /\ ellipsoid'[p] = ellipsoid[p]
    BY <2>1
  <2> QED
    BY <2>3, <2>4, <2>5, <2>6
<1> QED
  BY <1>3, <1>8, <1>9

\* The appending takes the marks away.
LEMMA AppendVotesInv ==
  ASSUME VoteInv, AppendVotes
  PROVE  VoteInv'
<1>1. /\ VoteIsOver /\ phase' = "map" /\ updated_pt' = Released(updated_pt)
      /\ at' = at /\ VoteTypes'
  BY AppendedVotes DEF thread_vars
<1>2. \A p \in Points : updated_pt'[p] = 0
  <2>1. Asked = {p \in Points : updated_pt[p] > 0}
    BY <1>1, OverFacts
  <2>2. \A p \in Points : updated_pt[p] \in Nat
    BY DEF VoteInv, VoteTypes
  <2> QED
    BY <1>1, <2>1, <2>2 DEF Released
<1> QED
  BY <1>1, <1>2 DEF VoteInv, VoteIsOver, AtRest, Voters, Marks, RowsInv, Contents

\* Every step keeps the invariant.
LEMMA NextVoteInv == VoteInv /\ [Next]_vars => VoteInv'
<1> SUFFICES ASSUME VoteInv, [Next]_vars PROVE VoteInv'
  OBVIOUS
<1>1. CASE StartRound
  BY <1>1, StartRoundInv
<1>2. ASSUME NEW i \in Points, Vote(i) PROVE VoteInv'
  <2>1. CASE Begin(i)
    BY <2>1, BeginInv
  <2>2. CASE NextNeighbour(i)
    BY <2>2, NextNeighbourInv
  <2>3. CASE Claim(i)
    BY <2>3, ClaimInv
  <2>4. CASE WriteIndex(i)
    BY <2>4, WriteIndexInv
  <2>5. CASE ResetRow(i)
    BY <2>5, ResetRowInv
  <2>6. CASE CheckRow(i)
    BY <2>6, CheckRowInv
  <2>7. CASE Reserve(i)
    BY <2>7, ReserveInv
  <2>8. CASE WriteSlot(i)
    BY <2>8, WriteSlotInv
  <2> QED
    BY <1>2, <2>1, <2>2, <2>3, <2>4, <2>5, <2>6, <2>7, <2>8 DEF Vote
<1>3. CASE AppendVotes
  BY <1>3, AppendVotesInv
<1>4. CASE UNCHANGED vars
  <2>1. /\ UNCHANGED <<threads, round, phase, neighbours, filters, tensors_p1, tensors_p2,
                      ellipsoid, n_means, cnt_neighbours, at, turn, slot>>
        /\ UNCHANGED <<updated_pt, update_idx, rows_used, row_pt, row_size, row>>
    BY <1>4 DEF vars, row_vars, thread_vars, tensor_vars, mean_vars
  <2>2. VoteTypes' /\ AtRest'
    BY <2>1 DEF VoteInv, VoteTypes, AtRest
  <2>3. /\ Added' = Added /\ UsedRows' = UsedRows
        /\ \A i : Current(i)' = Current(i) /\ LoopCount(i)' = LoopCount(i)
        /\ \A i, j : IsAsked(i, j)' = IsAsked(i, j)
    BY <2>1 DEF Added, UsedRows, Current, LoopCount, MaxNeigh, IsAsked, OldPoints
  <2>4. /\ \A i, k, j : HasAsked(i, k, j)' <=> HasAsked(i, k, j)
        /\ Indexed' = Indexed /\ Started' = Started
    BY <2>1, <2>3 DEF HasAsked, Indexed, Started, InHandAt, Current
  <2>5. Voters' /\ Marks'
    BY <2>1, <2>3, <2>4 DEF VoteInv, Voters, Marks
  <2>6. RowsInv' /\ Contents'
    BY <2>1, <2>3, <2>4 DEF VoteInv, RowsInv, Contents
  <2> QED
    BY <2>2, <2>5, <2>6 DEF VoteInv
<1> QED
  BY <1>1, <1>2, <1>3, <1>4 DEF Next

\* The invariant holds throughout.
THEOREM VoteInvariant == Spec => []VoteInv
<1> QED
  BY InitVoteInv, NextVoteInv, PTL DEF Spec

\* When the vote is over every point that was asked has one row, started in
\* this round, and what is read of a row was written to it in this round: for
\* any number of threads, whichever thread comes first
\* (map_processing.cpp:264-273, 286-294, 303-313, 334-339).
THEOREM VoteRowsOfThisRound == Spec => []RowsOfThisRound
<1>1. VoteInv => RowsOfThisRound
  <2> SUFFICES ASSUME VoteInv, VoteIsOver
               PROVE  /\ \A u, v \in UsedRows : u # v => row_pt[u] # row_pt[v]
                      /\ Asked = {p \in Points : updated_pt[p] > 0}
                      /\ Asked = UNION {{j \in Range(SubSeq(neighbours[i], 1, LoopCount(i))) :
                                           IsAsked(i, j)} : i \in Added}
                      /\ \A u \in UsedRows, s \in Slots : s < row_size[u] => row[u][s] \in Added
    BY DEF RowsOfThisRound
  <2>1. /\ Asked = {p \in Points : updated_pt[p] > 0}
        /\ \A u, v \in UsedRows : u # v => row_pt[u] # row_pt[v]
    BY OverFacts
  <2>2. ASSUME NEW u \in UsedRows, NEW s \in Slots, s < row_size[u] PROVE row[u][s] \in Added
    <3>1. row_pt[u] \in Asked
      BY DEF Asked
    <3>2. RowOf(row_pt[u]) \in UsedRows /\ row_pt[RowOf(row_pt[u])] = row_pt[u]
      BY DEF RowOf
    <3>3. RowOf(row_pt[u]) = u
      BY <2>1, <3>2
    <3> QED
      BY <2>2, <3>1, <3>3, OverFacts
  <2>3. /\ phase = "vote" /\ Added \subseteq Points /\ VoteTypes
        /\ \A i \in Added : at[i] = "off" /\ turn[i] = LoopCount(i)
    <3>1. phase = "vote" /\ VoteTypes /\ Added \subseteq Points /\ \A p \in Points : at[p] = "off"
      BY AddedPoints DEF VoteIsOver, VoteInv
    <3> QED
      BY <3>1 DEF VoteInv, Voters
  <2>4. ASSUME NEW i \in Added
        PROVE  Range(SubSeq(neighbours[i], 1, LoopCount(i))) =
                 {neighbours[i][k] : k \in 1 .. LoopCount(i)}
    <3>1. neighbours[i] \in Seq(Points) /\ LoopCount(i) \in 0 .. Len(neighbours[i])
          /\ Len(neighbours[i]) \in Nat
      BY <2>3, Limits DEF VoteTypes
    <3> DEFINE sub == SubSeq(neighbours[i], 1, LoopCount(i))
    <3>2. DOMAIN sub = 1 .. LoopCount(i) /\ \A k \in 1 .. LoopCount(i) : sub[k] = neighbours[i][k]
      BY <3>1
    <3> HIDE DEF sub
    <3>3. Range(sub) = {neighbours[i][k] : k \in 1 .. LoopCount(i)}
      BY <3>2 DEF Range
    <3> QED
      BY <3>3 DEF sub
  <2>5. ASSUME NEW j \in Points
        PROVE  j \in Asked <=> \E i \in Added :
                 j \in {neighbours[i][k] : k \in 1 .. LoopCount(i)} /\ IsAsked(i, j)
    BY <2>1, <2>3 DEF VoteInv, Marks, HasAsked
  <2>6. \A i \in Added : \A j : IsAsked(i, j) => j \in Points
    <3>1. \A r \in 1 .. round - 1 : r \in DOMAIN Batches
      BY <2>3, FinitePoints DEF VoteTypes
    <3> QED
      BY <3>1, FinitePoints DEF IsAsked, OldPoints
  <2>7. Asked = UNION {{j \in Range(SubSeq(neighbours[i], 1, LoopCount(i))) :
                          IsAsked(i, j)} : i \in Added}
    <3> DEFINE By(i) == {j \in Range(SubSeq(neighbours[i], 1, LoopCount(i))) : IsAsked(i, j)}
    <3>1. \A i \in Added : \A j : j \in By(i) <=>
            j \in {neighbours[i][k] : k \in 1 .. LoopCount(i)} /\ IsAsked(i, j)
      BY <2>4
    <3> HIDE DEF By
    <3>2. Asked = UNION {By(i) : i \in Added}
      BY <2>1, <2>5, <2>6, <3>1
    <3> QED
      BY <3>2 DEF By
  <2> QED
    BY <2>1, <2>2, <2>7
<1> QED
  BY <1>1, VoteInvariant, PTL

-----------------------------------------------------------------------------
(* The lists and the sums                                                  *)

\* The points of the first r rounds
UpTo(r) == UNION {Batches[q] : q \in 1 .. r}

\* A point that is not in the map yet has nothing; the new points' lists have
\* each neighbour once.
Lists ==
  /\ \A p \in Points : p \notin UpTo(round) =>
       neighbours[p] = <<>> /\ tensors_p1[p] = <<>> /\ ~filters[p].first /\ ~filters[p].second
  /\ phase = "vote" => \A i \in Added :
       /\ Range(neighbours[i]) \subseteq UpTo(round)
       /\ \A j, k \in 1 .. Len(neighbours[i]) : neighbours[i][j] = neighbours[i][k] => j = k

\* The points of the rounds so far, of those before and of this one
LEMMA RoundsApart ==
  ASSUME VoteTypes
  PROVE  /\ UpTo(round) \subseteq Points
         /\ round < Len(Batches) => UpTo(round + 1) = UpTo(round) \cup Batches[round + 1]
                                    /\ UpTo(round) \cap Batches[round + 1] = {}
                                    /\ Batches[round + 1] \subseteq Points
         /\ round >= 1 => /\ UpTo(round) = UpTo(round - 1) \cup Added
                          /\ UpTo(round - 1) \cap Added = {} /\ OldPoints = UpTo(round - 1)
<1>1. round \in 0 .. Len(Batches) /\ Len(Batches) \in Nat /\ DOMAIN Batches = 1 .. Len(Batches)
  BY FinitePoints DEF VoteTypes
<1>2. UpTo(round) \subseteq Points
  <2>1. \A q \in 1 .. round : q \in DOMAIN Batches
    BY <1>1
  <2> QED
    BY <2>1, FinitePoints DEF UpTo
<1>3. ASSUME NEW r \in Nat, r < Len(Batches)
      PROVE  /\ UpTo(r + 1) = UpTo(r) \cup Batches[r + 1]
             /\ UpTo(r) \cap Batches[r + 1] = {}
  <2>1. 1 .. r + 1 = (1 .. r) \cup {r + 1}
    BY <1>3
  <2>2. /\ r + 1 \in DOMAIN Batches
        /\ \A q \in 1 .. r : q \in DOMAIN Batches /\ q # r + 1
    BY <1>1, <1>3
  <2>3. \A q \in 1 .. r : Batches[q] \cap Batches[r + 1] = {}
    BY <2>2, VoteAssumption
  <2> QED
    BY <2>1, <2>3 DEF UpTo
<1>4. round < Len(Batches) => Batches[round + 1] \subseteq Points
  <2>1. round < Len(Batches) => round + 1 \in DOMAIN Batches
    BY <1>1
  <2> QED
    BY <2>1, FinitePoints
<1>5. ASSUME round >= 1
      PROVE  /\ UpTo(round) = UpTo(round - 1) \cup Added
             /\ UpTo(round - 1) \cap Added = {} /\ OldPoints = UpTo(round - 1)
  <2>1. round - 1 \in Nat /\ round - 1 < Len(Batches) /\ (round - 1) + 1 = round
    BY <1>1, <1>5
  <2> QED
    BY <1>3, <2>1 DEF Added, OldPoints, UpTo
<1> QED
  BY <1>1, <1>2, <1>3, <1>4, <1>5

\* What a new point finds is in the map, each point once.
LEMMA FoundLists ==
  ASSUME VoteTypes, StartRound
  PROVE  /\ \A p \in Points \ Batches[round + 1] : neighbours'[p] = neighbours[p]
         /\ \A p \in Batches[round + 1] :
              /\ Range(neighbours'[p]) \subseteq UpTo(round')
              /\ \A j, k \in 1 .. Len(neighbours'[p]) :
                   neighbours'[p][j] = neighbours'[p][k] => j = k
<1> DEFINE new == Batches[round + 1]
           inMap == new \cup UNION {Batches[r] : r \in 1 .. round}
           found == [p \in new |-> NeighboursOf(p, inMap)]
<1>1. /\ neighbours' = [p \in Points |-> IF p \in new THEN found[p] ELSE neighbours[p]]
      /\ round' = round + 1 /\ round < Len(Batches)
  BY DEF StartRound
<1>2. inMap = UpTo(round') /\ inMap \subseteq Points /\ new \subseteq Points
  BY <1>1, RoundsApart DEF UpTo
<1>3. ASSUME NEW p \in new
      PROVE  /\ Range(neighbours'[p]) \subseteq inMap
             /\ \A j, k \in 1 .. Len(neighbours'[p]) :
                  neighbours'[p][j] = neighbours'[p][k] => j = k
  <2> DEFINE S == {q \in inMap : Distance(p, q) # 0 /\ Distance(p, q) < Radius[BinOf[p]]}
  <2>1. neighbours'[p] = SetToSeq(S)
    BY <1>1, <1>2 DEF NeighboursOf
  <2>2. S \subseteq inMap /\ S \in SUBSET Points
    BY <1>2
  <2> HIDE DEF S
  <2>3. Range(SetToSeq(S)) \subseteq S
    <3>1. SetToSeq(S) \in Seq(S)
      BY <2>2, AnswerIsList
    <3> QED
      BY <3>1 DEF Range
  <2> QED
    BY <2>1, <2>2, <2>3, AnswerIsList
<1> QED
  BY <1>1, <1>2, <1>3

\* Who takes votes was in the map before the round.
LEMMA UpdatedAreOld ==
  ASSUME VoteInv, VoteIsOver, NEW p \in Updated
  PROVE  /\ p \in Points /\ p \in UpTo(round - 1) /\ p \in UpTo(round) /\ p \notin Added
         /\ p \in Started /\ round >= 1 /\ phase = "vote"
<1>1. /\ p \in Points /\ updated_pt[p] > 0 /\ p \in Started /\ phase = "vote"
  BY OverFacts DEF Updated, VoteIsOver
<1>2. PICK i \in Added : \E k \in 1 .. turn[i] : HasAsked(i, k, p)
  BY <1>1 DEF VoteInv, Marks
<1>3. p \in OldPoints /\ round >= 1
  BY <1>1, <1>2 DEF HasAsked, IsAsked, VoteInv, Voters
<1> QED
  BY <1>1, <1>3, RoundsApart DEF VoteInv

\* Only a new round gives a point a list, and only new points; the votes of a
\* point change nothing of the others.
LEMMA ListsInv == VoteInv /\ Lists /\ [Next]_vars => Lists'
<1> SUFFICES ASSUME VoteInv, Lists, [Next]_vars PROVE Lists'
  OBVIOUS
<1>1. CASE StartRound
  <2>1. /\ VoteTypes /\ round' = round + 1 /\ round < Len(Batches)
        /\ UNCHANGED <<tensors_p1, filters>>
    BY <1>1 DEF VoteInv, StartRound, tensor_vars
  <2>2. /\ Added' = Batches[round + 1]
        /\ UpTo(round)' = UpTo(round) \cup Batches[round + 1]
    BY <2>1, RoundsApart DEF Added, UpTo
  <2> QED
    BY <1>1, <2>1, <2>2, FoundLists DEF Lists, UpTo
<1>2. ASSUME NEW i \in Points, Vote(i) PROVE Lists'
  <2>1. VoteFrame
    BY <1>2 DEF Vote, Begin, NextNeighbour, Claim, WriteIndex, ResetRow, CheckRow, Reserve, WriteSlot
  <2>2. ASSUME NEW p \in Points, p # i
        PROVE  tensors_p1'[p] = tensors_p1[p] /\ filters'[p] = filters[p]
    BY <1>2, <2>2 DEF Vote, Begin, NextNeighbour, Claim, WriteIndex, ResetRow, CheckRow, Reserve,
       WriteSlot, tensor_vars, VoteInv, VoteTypes
  <2>3. i \in UpTo(round)
    <3>1. phase = "vote" /\ at[i] # "off"
      BY <1>2 DEF Vote, Begin, NextNeighbour, Claim, WriteIndex, ResetRow, CheckRow, Reserve,
         WriteSlot, VoteInv, AtRest, VoteTypes
    <3> QED
      BY <3>1, RoundsApart DEF VoteInv, Voters
  <2>4. Added' = Added /\ UpTo(round)' = UpTo(round)
    BY <2>1, Frame DEF VoteFrame, UpTo
  <2> QED
    BY <2>1, <2>2, <2>3, <2>4 DEF Lists, VoteFrame
<1>3. CASE AppendVotes
  <2>1. VoteIsOver /\ phase' = "map" /\ round' = round
    BY <1>3, AppendedVotes
  <2>2. ASSUME NEW p \in Points, p \notin UpTo(round)
        PROVE  /\ neighbours'[p] = <<>> /\ tensors_p1'[p] = <<>>
               /\ ~filters'[p].first /\ ~filters'[p].second
    <3>1. p \notin Updated
      BY <2>1, <2>2, UpdatedAreOld
    <3>2. neighbours'[p] = <<>> /\ tensors_p1'[p] = <<>> /\ ~filters'[p].first
      BY <1>3, <2>2, <3>1, AppendedVotes DEF Lists
    <3>3. ~filters'[p].second
      <4>1. p \notin Added
        BY <2>1, <2>2, RoundsApart DEF VoteInv, VoteIsOver, Voters
      <4> QED
        BY <1>3, <2>2, <3>1, <4>1 DEF AppendVotes, Lists
    <3> QED
      BY <3>2, <3>3
  <2>3. UpTo(round)' = UpTo(round)
    BY <2>1 DEF UpTo
  <2> QED
    BY <2>1, <2>2, <2>3 DEF Lists
<1>4. CASE UNCHANGED vars
  BY <1>4 DEF Lists, UpTo, Added, vars, tensor_vars
<1> QED
  BY <1>1, <1>2, <1>3, <1>4 DEF Next

\* Lists holds throughout.
LEMMA ListsInvariant == Spec => []Lists
<1>1. Init => Lists
  BY DEF Init, Lists
<1> QED
  BY <1>1, ListsInv, VoteInvariant, PTL DEF Spec

\* The list of a point that has one grows to max_neighbours_ at most, in any
\* round and whatever its row holds (map_processing.cpp:296-306).
THEOREM VoteListsStayBounded == Spec => ListsStayBounded
<1>1. VoteInv /\ Lists /\ [Next]_vars =>
        \A p \in Points :
          neighbours[p] # <<>> /\ Len(neighbours'[p]) > Len(neighbours[p]) =>
            Len(neighbours'[p]) <= MaxNeigh(p)
  <2> SUFFICES ASSUME VoteInv, Lists, [Next]_vars, NEW p \in Points, neighbours[p] # <<>>,
                      Len(neighbours'[p]) > Len(neighbours[p])
               PROVE  Len(neighbours'[p]) <= MaxNeigh(p)
    OBVIOUS
  <2>1. neighbours[p] \in Seq(Points) /\ Len(neighbours[p]) \in Nat
    BY DEF VoteInv, VoteTypes
  <2>2. neighbours'[p] # neighbours[p]
    BY <2>1
  <2>3. CASE StartRound
    <3>1. p \notin Batches[round + 1]
      <4>1. p \in UpTo(round)
        BY DEF Lists
      <4> QED
        BY <2>3, <4>1, RoundsApart DEF VoteInv, StartRound
    <3> QED
      BY <2>2, <2>3, <3>1, FoundLists DEF VoteInv
  <2>4. CASE AppendVotes
    <3>1. VoteIsOver /\ p \in Updated /\ neighbours'[p] = neighbours[p] \o NewVotes(p)
      BY <2>2, <2>4, AppendedVotes
    <3>2. /\ NewVotes(p) \in Seq(Added) /\ Len(NewVotes(p)) = Taken(p)
          /\ Len(neighbours[p]) + Taken(p) <= MaxNeigh(p)
      BY <3>1, TakenVotes
    <3>3. Len(neighbours'[p]) = Len(neighbours[p]) + Len(NewVotes(p))
      <4>1. Added \subseteq Points
        BY <3>1, AddedPoints DEF VoteIsOver
      <4>2. NewVotes(p) \in Seq(Points)
        BY <3>2, <4>1
      <4> QED
        BY <2>1, <3>1, <4>2, ConcatProperties
    <3> QED
      BY <3>2, <3>3
  <2>5. ASSUME NEW i \in Points, Vote(i) PROVE FALSE
    BY <2>2, <2>5 DEF Vote, Begin, NextNeighbour, Claim, WriteIndex, ResetRow, CheckRow, Reserve,
       WriteSlot, VoteFrame
  <2>6. CASE UNCHANGED vars
    BY <2>2, <2>6 DEF vars
  <2> QED
    BY <2>3, <2>4, <2>5, <2>6 DEF Next
<1> QED
  BY <1>1, VoteInvariant, ListsInvariant, PTL DEF Spec, ListsStayBounded

-----------------------------------------------------------------------------
(* One thread                                                              *)

\* A thread has a point from its first step to its last.
Holds(i) == at[i] \notin {"off", "start"}

\* A slot below the row's size that no thread is about to write
Written(u, s) ==
  /\ s < row_size[u]
  /\ ~\E i \in Points : at[i] = "write" /\ slot[i] = <<u, s>>

\* i is through with its k-th neighbour, j.
Through(i, k, j) == neighbours[i][k] = j /\ (k = turn[i] => at[i] \notin Asking)

\* One thread takes one point after the other, and a row that it does not
\* start has been started; it writes the slot it has just taken.
OneAtATime ==
  /\ \A i, k \in Points : Holds(i) /\ Holds(k) => i = k
  /\ phase = "vote" => \A i \in Points :
       /\ at[i] \in {"check", "reserve", "write"} => Current(i) \in Started
       /\ at[i] = "write" => LET u == update_idx[Current(i)]
                             IN  slot[i] = <<u, row_size[u] - 1>>

\* So a vote it is through with is in its row, or the row is full ...
VotesAreIn ==
  phase = "vote" =>
    \A i \in Added : \A k \in 1 .. turn[i] : \A j \in Points :
      Through(i, k, j) /\ IsAsked(i, j) =>
        /\ j \in Started
        /\ row_size[update_idx[j]] < MaxNeighbours =>
             \E s \in Slots : Written(update_idx[j], s) /\ row[update_idx[j]][s] = i

\* ... and what is in the row are votes it is through with, each once.
VotesAreOnce ==
  phase = "vote" =>
    \A j \in Started : \A s \in Slots :
      Written(update_idx[j], s) =>
        /\ \E i \in Added : /\ row[update_idx[j]][s] = i
                            /\ \E k \in 1 .. turn[i] : Through(i, k, j)
        /\ \A t \in Slots : Written(update_idx[j], t)
             /\ row[update_idx[j]][s] = row[update_idx[j]][t] => s = t

Serial == OneAtATime /\ VotesAreIn /\ VotesAreOnce

OneThread == threads = 1 => Serial

\* A sum is of points that were in the map, in the point's list, and with one
\* thread each counted once; what passed a filter was made of it.
Sums ==
  \A p \in Points :
    /\ filters[p].first => tensors_p2[p].votes = tensors_p1[p]
    /\ filters[p].second => ellipsoid[p] # 0
    /\ Range(tensors_p1[p]) \subseteq Range(neighbours[p])
    /\ threads = 1 => IsInjective(tensors_p1[p])
    /\ Range(tensors_p1[p]) \subseteq UpTo(round)
    /\ phase = "vote" /\ p \notin Added => Range(tensors_p1[p]) \subseteq UpTo(round - 1)

\* The thread that has a point goes on, and no other has one.
LEMMA SerialStep ==
  ASSUME VoteInv, OneAtATime, NEW i \in Points, Holds(i), NEW there, GoTo(i, there),
         there \in {"check", "reserve", "write"} => Current(i)' \in Started',
         there = "write" => LET u == update_idx[Current(i)]
                            IN  slot'[i] = <<u', row_size'[u'] - 1>>
  PROVE  /\ OneAtATime' /\ at'[i] = there
         /\ \A k \in Points : k # i => at'[k] = at[k] /\ at[k] \in {"off", "start"}
<1>1. /\ at'[i] = there /\ \A k \in Points : k # i => at'[k] = at[k]
  BY OneGoes DEF VoteInv
<1>2. \A k \in Points : k # i => at[k] \in {"off", "start"}
  BY DEF OneAtATime, Holds
<1>3. \A k, l \in Points : Holds(k)' /\ Holds(l)' => k = l
  BY <1>1, <1>2 DEF Holds
<1>4. ASSUME NEW k \in Points
      PROVE  /\ at'[k] \in {"check", "reserve", "write"} => Current(k)' \in Started'
             /\ at'[k] = "write" => LET u == update_idx[Current(k)]
                                    IN  slot'[k] = <<u', row_size'[u'] - 1>>
  <2>1. CASE k # i
    BY <1>1, <1>2, <2>1
  <2>2. CASE k = i
    BY <1>1, <2>2
  <2> QED
    BY <2>1, <2>2
<1> QED
  BY <1>1, <1>2, <1>3, <1>4 DEF OneAtATime

\* A step that writes no row keeps the votes.
LEMMA SameVotes ==
  ASSUME VoteInv, VotesAreIn, VotesAreOnce, phase = "vote",
         NEW i \in Points, NEW there, GoTo(i, there), VoteFrame,
         at[i] # "write", there # "write", UNCHANGED <<row_size, row, slot>>,
         Started' = Started, \A j \in Started : update_idx'[j] = update_idx[j],
         \A k \in Points : k # i => turn'[k] = turn[k],
         \A n \in 1 .. turn'[i], j \in Points : Through(i, n, j)' /\ IsAsked(i, j) =>
           \/ n \in 1 .. turn[i] /\ Through(i, n, j)
           \/ j \in Started /\ ~(row_size[update_idx[j]] < MaxNeighbours),
         \A n \in 1 .. turn[i], j \in Points :
           Through(i, n, j) => n \in 1 .. turn'[i] /\ Through(i, n, j)'
  PROVE  VotesAreIn' /\ VotesAreOnce'
<1>1. /\ at'[i] = there /\ \A k \in Points : k # i => at'[k] = at[k]
      /\ neighbours' = neighbours /\ Added' = Added /\ phase' = phase /\ Added \subseteq Points
      /\ \A k, j : IsAsked(k, j)' = IsAsked(k, j)
  BY OneGoes, Frame, AddedPoints DEF VoteInv, VoteFrame
<1>2. \A u, s : Written(u, s)' <=> Written(u, s)
  <2>1. \A k \in Points : at'[k] = "write" <=> at[k] = "write"
    BY <1>1
  <2> QED
    BY <2>1 DEF Written
<1>3. \A k \in Added : k # i => \A n, j : Through(k, n, j)' <=> Through(k, n, j)
  BY <1>1 DEF Through
<1>4. ASSUME NEW k \in Added, NEW n \in 1 .. turn'[k], NEW j \in Points,
             Through(k, n, j)', IsAsked(k, j)
      PROVE  /\ j \in Started
             /\ row_size[update_idx[j]] < MaxNeighbours =>
                  \E s \in Slots : Written(update_idx[j], s) /\ row[update_idx[j]][s] = k
  <2>1. CASE j \in Started /\ ~(row_size[update_idx[j]] < MaxNeighbours)
    BY <2>1
  <2>2. CASE n \in 1 .. turn[k] /\ Through(k, n, j)
    BY <1>4, <2>2 DEF VotesAreIn
  <2> QED
    BY <1>1, <1>3, <1>4, <2>1, <2>2
<1>5. VotesAreIn'
  BY <1>1, <1>2, <1>4 DEF VotesAreIn
<1>6. ASSUME NEW j \in Started, NEW s \in Slots, Written(update_idx[j], s)
      PROVE  \E k \in Added : /\ row[update_idx[j]][s] = k
                              /\ \E n \in 1 .. turn'[k] : Through(k, n, j)'
  <2>1. PICK k \in Added : /\ row[update_idx[j]][s] = k
                           /\ \E n \in 1 .. turn[k] : Through(k, n, j)
    BY <1>6 DEF VotesAreOnce
  <2>2. PICK n \in 1 .. turn[k] : Through(k, n, j)
    BY <2>1
  <2>3. j \in Points
    BY DEF Started, Indexed
  <2>4. n \in 1 .. turn'[k] /\ Through(k, n, j)'
    BY <1>1, <1>3, <2>2, <2>3
  <2> QED
    BY <2>1, <2>4
<1>7. VotesAreOnce'
  BY <1>1, <1>2, <1>6 DEF VotesAreOnce
<1> QED
  BY <1>5, <1>7

\* The lone thread takes a point up.
LEMMA BeginSerial ==
  ASSUME VoteInv, Serial, threads = 1, NEW i \in Points, Begin(i)
  PROVE  Serial'
<1>1. /\ at[i] = "start" /\ GoTo(i, "next") /\ VoteFrame /\ phase = "vote"
      /\ Cardinality(Running) < threads
      /\ UNCHANGED <<updated_pt, update_idx, rows_used, row_pt, row_size, row, turn, slot>>
  BY DEF Begin, row_vars, VoteInv, AtRest, VoteTypes
<1>2. \A k \in Points : ~Holds(k)
  <2>1. IsFiniteSet(Running) /\ Cardinality(Running) \in Nat
    <3>1. Running \subseteq Points
      BY DEF Running
    <3> QED
      BY <3>1, FinitePoints, FS_Subset, FS_CardinalityType
  <2>2. Running = {}
    BY <1>1, <2>1, FS_EmptySet
  <2> QED
    BY <2>2 DEF Running, Holds
<1>3. /\ at'[i] = "next" /\ \A k \in Points : k # i => at'[k] = at[k]
  BY <1>1, OneGoes DEF VoteInv
<1>4. OneAtATime'
  BY <1>2, <1>3 DEF OneAtATime, Holds
<1>5. Started' = Started
  BY <1>1, QuietRows
<1>6. \A n, j : Through(i, n, j)' <=> Through(i, n, j)
  BY <1>1, <1>3 DEF Through, Asking, VoteFrame
<1> QED
  BY <1>1, <1>4, <1>5, <1>6, SameVotes DEF Serial

\* It goes on to the next neighbour.
LEMMA NextNeighbourSerial ==
  ASSUME VoteInv, Serial, NEW i \in Points, NextNeighbour(i)
  PROVE  Serial'
<1>1. /\ at[i] = "next" /\ VoteFrame /\ Holds(i) /\ phase = "vote" /\ turn[i] \in Nat
      /\ UNCHANGED <<updated_pt, update_idx, rows_used, row_pt, row_size, row, slot>>
  BY DEF NextNeighbour, row_vars, Holds, VoteInv, AtRest, VoteTypes
<1>2. PICK there \in {"claim", "next", "off"} :
        /\ GoTo(i, there)
        /\ \/ turn' = turn /\ there = "off"
           \/ /\ turn' = [turn EXCEPT ![i] = @ + 1]
              /\ IsAsked(i, neighbours[i][turn[i] + 1]) => there = "claim"
  BY DEF NextNeighbour
<1>3. OneAtATime'
  BY <1>1, <1>2, SerialStep DEF Serial
<1>4. /\ at'[i] = there /\ \A k \in Points : k # i => turn'[k] = turn[k]
      /\ \/ turn'[i] = turn[i] /\ there = "off"
         \/ /\ turn'[i] = turn[i] + 1
            /\ IsAsked(i, neighbours[i][turn[i] + 1]) => there = "claim"
  <2>1. VoteTypes /\ turn \in [Points -> Nat]
    BY DEF VoteInv, VoteTypes
  <2>2. at'[i] = there
    BY <1>2, <2>1, OneGoes
  <2>3. CASE turn' = turn /\ there = "off"
    BY <2>2, <2>3
  <2>4. CASE /\ turn' = [turn EXCEPT ![i] = @ + 1]
             /\ IsAsked(i, neighbours[i][turn[i] + 1]) => there = "claim"
    <3>1. turn'[i] = turn[i] + 1 /\ \A k \in Points : k # i => turn'[k] = turn[k]
      BY <2>1, <2>4
    <3> QED
      BY <2>2, <2>4, <3>1
  <2> QED
    BY <1>2, <2>3, <2>4
<1>5. Started' = Started
  BY <1>1, <1>2, <1>4, QuietRows
<1>6. ASSUME NEW n \in 1 .. turn'[i], NEW j \in Points, Through(i, n, j)', IsAsked(i, j)
      PROVE  n \in 1 .. turn[i] /\ Through(i, n, j)
  <2>1. neighbours[i][n] = j
    BY <1>1, <1>6 DEF Through, VoteFrame
  <2>2. n \in 1 .. turn[i]
    <3>1. CASE n = turn[i] + 1 /\ turn'[i] = turn[i] + 1
      BY <1>4, <1>6, <2>1, <3>1 DEF Through, Asking
    <3> QED
      BY <1>1, <1>4, <3>1
  <2> QED
    BY <1>1, <2>1, <2>2 DEF Through, Asking
<1>7. ASSUME NEW n \in 1 .. turn[i], NEW j \in Points, Through(i, n, j)
      PROVE  n \in 1 .. turn'[i] /\ Through(i, n, j)'
  BY <1>1, <1>4, <1>7 DEF Through, Asking, VoteFrame
<1>8. VotesAreIn' /\ VotesAreOnce'
  BY <1>1, <1>2, <1>4, <1>5, <1>6, <1>7, SameVotes DEF Serial
<1> QED
  BY <1>3, <1>8 DEF Serial

\* It announces itself: a point that is marked has its row started.
LEMMA ClaimSerial ==
  ASSUME VoteInv, Serial, NEW i \in Points, Claim(i)
  PROVE  Serial'
<1> DEFINE there == IF updated_pt[Current(i)] = 0 THEN "index" ELSE "check"
<1>1. /\ at[i] = "claim" /\ VoteFrame /\ Holds(i) /\ phase = "vote" /\ GoTo(i, there)
      /\ UNCHANGED <<update_idx, rows_used, row_pt, row_size, row, turn, slot>>
  BY DEF Claim, Holds, VoteInv, AtRest, VoteTypes
<1>2. Started' = Started
  BY ClaimInv
<1>3. Current(i) \in Points /\ updated_pt[Current(i)] \in Nat
  BY <1>1, InHandFacts DEF Asking, VoteInv, VoteTypes
<1>4. Current(i)' = Current(i)
  BY <1>1 DEF Current, VoteFrame
<1>5. there = "check" => Current(i) \in Started
  <2>1. \A k \in Points : at[k] \notin {"index", "reset"}
    BY <1>1 DEF Serial, OneAtATime, Holds
  <2> QED
    BY <1>3, <2>1 DEF Started, Indexed, InHandAt
<1>6. there \in {"index", "check"}
  OBVIOUS
<1> HIDE DEF there
<1>7. OneAtATime' /\ at'[i] = there
  BY <1>1, <1>2, <1>4, <1>5, <1>6, SerialStep DEF Serial
<1>8. \A n, j : Through(i, n, j)' <=> Through(i, n, j)
  BY <1>1, <1>6, <1>7 DEF Through, Asking, VoteFrame
<1>9. VotesAreIn' /\ VotesAreOnce'
  BY <1>1, <1>2, <1>6, <1>8, SameVotes DEF Serial
<1> QED
  BY <1>7, <1>9 DEF Serial

\* It takes a row.
LEMMA WriteIndexSerial ==
  ASSUME VoteInv, Serial, NEW i \in Points, WriteIndex(i)
  PROVE  Serial'
<1>1. /\ at[i] = "index" /\ VoteFrame /\ Holds(i) /\ phase = "vote" /\ GoTo(i, "reset")
      /\ update_idx' = [update_idx EXCEPT ![Current(i)] = rows_used]
      /\ UNCHANGED <<row_size, row, turn, slot>>
  BY DEF WriteIndex, Holds, VoteInv, AtRest, VoteTypes
<1>2. Started' = Started
  BY WriteIndexInv
<1>3. \A j \in Started : update_idx'[j] = update_idx[j]
  <2>1. Current(i) \notin Started
    BY <1>1, OwnRow
  <2> QED
    BY <1>1, <2>1 DEF Started, Indexed, VoteInv, VoteTypes
<1>4. OneAtATime' /\ at'[i] = "reset"
  BY <1>1, SerialStep DEF Serial
<1>5. \A n, j : Through(i, n, j)' <=> Through(i, n, j)
  BY <1>1, <1>4 DEF Through, Asking, VoteFrame
<1>6. VotesAreIn' /\ VotesAreOnce'
  BY <1>1, <1>2, <1>3, <1>5, SameVotes DEF Serial
<1> QED
  BY <1>4, <1>6 DEF Serial

\* It finds the row full, or not.
LEMMA CheckRowSerial ==
  ASSUME VoteInv, Serial, NEW i \in Points, CheckRow(i)
  PROVE  Serial'
<1>1. PICK there \in {"reserve", "next"} :
        /\ GoTo(i, there)
        /\ there = "next" => ~(row_size[update_idx[Current(i)]] < MaxNeighbours)
  BY DEF CheckRow
<1>2. /\ at[i] = "check" /\ VoteFrame /\ Holds(i) /\ phase = "vote" /\ turn[i] \in Nat
      /\ UNCHANGED <<updated_pt, update_idx, rows_used, row_pt, row_size, row, turn, slot>>
  BY DEF CheckRow, row_vars, Holds, VoteInv, AtRest, VoteTypes
<1>3. Started' = Started /\ Current(i) \in Started /\ Current(i)' = Current(i)
  <2>1. Started' = Started
    BY <1>1, <1>2, QuietRows
  <2> QED
    BY <1>2, <2>1 DEF Serial, OneAtATime, Current, VoteFrame
<1>4. OneAtATime' /\ at'[i] = there
  BY <1>1, <1>2, <1>3, SerialStep DEF Serial
<1>5. ASSUME NEW n \in 1 .. turn'[i], NEW j \in Points, Through(i, n, j)'
      PROVE  \/ n \in 1 .. turn[i] /\ Through(i, n, j)
             \/ j \in Started /\ ~(row_size[update_idx[j]] < MaxNeighbours)
  <2>1. neighbours[i][n] = j /\ n \in 1 .. turn[i]
    BY <1>2, <1>5 DEF Through, VoteFrame
  <2>2. CASE n = turn[i]
    <3>1. there = "next" /\ j = Current(i)
      BY <1>1, <1>2, <1>4, <1>5, <2>1, <2>2 DEF Through, Asking, Current
    <3> QED
      BY <1>1, <1>3, <3>1
  <2> QED
    BY <2>1, <2>2 DEF Through
<1>6. ASSUME NEW n \in 1 .. turn[i], NEW j \in Points, Through(i, n, j)
      PROVE  n \in 1 .. turn'[i] /\ Through(i, n, j)'
  BY <1>2, <1>6 DEF Through, Asking, VoteFrame
<1>7. VotesAreIn' /\ VotesAreOnce'
  BY <1>1, <1>2, <1>3, <1>5, <1>6, SameVotes DEF Serial
<1> QED
  BY <1>4, <1>7 DEF Serial

\* The lone thread has not been through with the neighbour in hand: its list
\* has it once.
LEMMA NotYet ==
  ASSUME VoteInv, Lists, NEW i \in Points, at[i] \in Asking
  PROVE  \A n \in 1 .. turn[i] : ~Through(i, n, Current(i))
<1>1. phase = "vote" /\ i \in Added /\ turn[i] \in 1 .. LoopCount(i)
  BY InHandFacts
<1>2. LoopCount(i) \in 0 .. Len(neighbours[i]) /\ Len(neighbours[i]) \in Nat
  BY Limits DEF VoteInv
<1>3. turn[i] \in 1 .. Len(neighbours[i]) /\ 1 .. turn[i] \subseteq 1 .. Len(neighbours[i])
  BY <1>1, <1>2
<1>4. ASSUME NEW n \in 1 .. turn[i], Through(i, n, Current(i)) PROVE FALSE
  <2>1. neighbours[i][n] = neighbours[i][turn[i]] /\ n # turn[i]
    BY <1>4 DEF Through, Current
  <2> QED
    BY <1>1, <1>3, <2>1 DEF Lists
<1> QED
  BY <1>4

\* The rows of the points whose row is started are different rows.
LEMMA RowsDiffer ==
  ASSUME VoteInv, phase = "vote"
  PROVE  /\ \A j \in Started : j \in Points /\ update_idx[j] \in Rows
         /\ \A j, k \in Started : update_idx[j] = update_idx[k] => j = k
BY DEF VoteInv, VoteTypes, RowsInv, Started, Indexed

\* It takes a slot: the row is longer by the slot it is about to write.
LEMMA ReserveSerial ==
  ASSUME VoteInv, Serial, NEW i \in Points, Reserve(i)
  PROVE  Serial'
<1> DEFINE u == update_idx[Current(i)]
<1>1. /\ at[i] = "reserve" /\ VoteFrame /\ Holds(i) /\ phase = "vote" /\ GoTo(i, "write")
      /\ slot' = [slot EXCEPT ![i] = <<u, row_size[u]>>]
      /\ row_size' = [row_size EXCEPT ![u] = @ + 1]
      /\ UNCHANGED <<updated_pt, update_idx, rows_used, row_pt, row, turn>>
  BY DEF Reserve, Holds, VoteInv, AtRest, VoteTypes
<1>2. /\ Current(i) \in Started /\ u \in Rows /\ \A v \in Rows : row_size[v] \in Nat
      /\ Current(i)' = Current(i) /\ u' = u /\ Added \subseteq Points
  BY <1>1, RowsDiffer, AddedPoints
     DEF Serial, OneAtATime, VoteInv, VoteTypes, Current, VoteFrame
<1> HIDE DEF u
<1>3. Started' = Started
  BY <1>1, QuietRows
<1>4. /\ slot'[i] = <<u, row_size[u]>> /\ row_size'[u] = row_size[u] + 1
      /\ \A v \in Rows : v # u => row_size'[v] = row_size[v]
  BY <1>1, <1>2 DEF VoteInv, VoteTypes
<1>5. /\ OneAtATime' /\ at'[i] = "write"
      /\ \A k \in Points : k # i => at'[k] = at[k] /\ at[k] \in {"off", "start"}
  <2>1. slot'[i] = <<u', row_size'[u'] - 1>>
    BY <1>2, <1>4
  <2> QED
    BY <1>1, <1>2, <1>3, <2>1, SerialStep DEF Serial, u
<1>6. ASSUME NEW v \in Rows, NEW s \in Slots
      PROVE  Written(v, s)' <=> Written(v, s)
  <2>1. Written(v, s) <=> s < row_size[v]
    BY <1>1, <1>5 DEF Written
  <2>2. Written(v, s)' <=> s < row_size'[v] /\ <<v, s>> # <<u, row_size[u]>>
    BY <1>4, <1>5 DEF Written
  <2>3. s \in Int
    BY VoteAssumption DEF Slots
  <2> QED
    BY <1>2, <1>4, <2>1, <2>2, <2>3
<1>7. \A k \in Added : \A n, j : Through(k, n, j)' <=> Through(k, n, j)
  BY <1>1, <1>2, <1>5 DEF Through, Asking, VoteFrame
<1>8. /\ Added' = Added /\ phase' = phase /\ \A k, j : IsAsked(k, j)' = IsAsked(k, j)
      /\ \A j \in Started : j \in Points /\ update_idx[j] \in Rows
  BY <1>1, Frame, RowsDiffer DEF VoteFrame
<1>9. VotesAreIn'
  <2>1. \A v \in Rows : row_size'[v] < MaxNeighbours => row_size[v] < MaxNeighbours
    BY <1>2, <1>4, VoteAssumption
  <2> QED
    BY <1>1, <1>3, <1>6, <1>7, <1>8, <2>1 DEF Serial, VotesAreIn
<1>10. VotesAreOnce'
  BY <1>1, <1>3, <1>6, <1>7, <1>8 DEF Serial, VotesAreOnce
<1> QED
  BY <1>5, <1>9, <1>10 DEF Serial

\* It starts a row, which is empty.
LEMMA ResetRowSerial ==
  ASSUME VoteInv, Serial, NEW i \in Points, ResetRow(i)
  PROVE  Serial'
<1> DEFINE c == Current(i)
           u == update_idx[c]
<1>1. /\ at[i] = "reset" /\ VoteFrame /\ Holds(i) /\ phase = "vote" /\ GoTo(i, "reserve")
      /\ row_size' = [row_size EXCEPT ![u] = 0]
      /\ UNCHANGED <<updated_pt, update_idx, rows_used, row, turn, slot>>
  BY DEF ResetRow, Emptied, Holds, VoteInv, AtRest, VoteTypes
<1>2. Started' = Started \cup {c} /\ VoteInv'
  BY ResetRowInv
<1>3. c \notin Started /\ c' = c /\ u' = u
  BY <1>1, OwnRow DEF Current, VoteFrame
<1>4. /\ \A j \in Started' : j \in Points /\ update_idx[j] \in Rows
      /\ \A j \in Started : update_idx[j] # u
  <2>1. phase' = "vote" /\ update_idx' = update_idx
    BY <1>1 DEF VoteFrame
  <2>2. /\ \A j \in Started' : j \in Points /\ update_idx[j] \in Rows
        /\ \A j, k \in Started' : update_idx[j] = update_idx[k] => j = k
    <3>1. /\ \A j \in Started' : j \in Indexed' /\ j \in Points
          /\ \A j \in Points : update_idx'[j] \in Rows
          /\ \A j, k \in Indexed' : update_idx'[j] = update_idx'[k] => j = k
      BY <1>2, <2>1 DEF VoteInv, VoteTypes, RowsInv, Started, Indexed
    <3> QED
      BY <2>1, <3>1
  <2> QED
    BY <1>2, <1>3, <2>2
<1>5. /\ row_size'[u] = 0 /\ \A v \in Rows : v # u => row_size'[v] = row_size[v]
  BY <1>1, <1>2, <1>4 DEF VoteInv, VoteTypes
<1>6. /\ OneAtATime' /\ at'[i] = "reserve"
      /\ \A k \in Points : k # i => at'[k] = at[k] /\ at[k] \in {"off", "start"}
  BY <1>1, <1>2, <1>3, SerialStep DEF Serial
<1> HIDE DEF c, u
<1>7. ASSUME NEW j \in Started, NEW s
      PROVE  Written(update_idx[j], s)' <=> Written(update_idx[j], s)
  <2>1. Written(update_idx[j], s) <=> s < row_size[update_idx[j]]
    BY <1>1, <1>6 DEF Written
  <2>2. update_idx' = update_idx
    BY <1>1
  <2>3. Written(update_idx[j], s)' <=> s < row_size'[update_idx[j]]
    BY <1>6, <2>2 DEF Written
  <2>4. row_size'[update_idx[j]] = row_size[update_idx[j]]
    BY <1>2, <1>4, <1>5
  <2> QED
    BY <2>1, <2>3, <2>4
<1>8. ASSUME NEW s \in Slots PROVE ~Written(update_idx[c], s)'
  <2>1. ~(s < row_size'[u])
    BY <1>5, VoteAssumption DEF Slots
  <2> QED
    BY <1>3, <2>1 DEF Written, u
<1>9. \A k \in Added : \A n, j : Through(k, n, j)' <=> Through(k, n, j)
  <2>1. Added \subseteq Points
    BY <1>1, AddedPoints
  <2> QED
    BY <1>1, <1>6, <2>1 DEF Through, Asking, VoteFrame
<1>10. Added' = Added /\ phase' = phase /\ \A k, j : IsAsked(k, j)' = IsAsked(k, j)
  BY <1>1, Frame DEF VoteFrame
<1>11. VotesAreIn'
  <2> SUFFICES ASSUME NEW k \in Added, NEW n \in 1 .. turn[k], NEW j \in Points,
                      Through(k, n, j), IsAsked(k, j)
               PROVE  /\ j \in Started'
                      /\ row_size'[update_idx[j]] < MaxNeighbours =>
                           \E s \in Slots : Written(update_idx[j], s)' /\ row[update_idx[j]][s] = k
    BY <1>1, <1>9, <1>10 DEF VotesAreIn
  <2>1. /\ j \in Started
        /\ row_size[update_idx[j]] < MaxNeighbours =>
             \E s \in Slots : Written(update_idx[j], s) /\ row[update_idx[j]][s] = k
    BY <1>1 DEF Serial, VotesAreIn
  <2>2. row_size'[update_idx[j]] = row_size[update_idx[j]]
    BY <1>2, <1>4, <1>5, <2>1
  <2> QED
    BY <1>2, <1>7, <2>1, <2>2
<1>12. VotesAreOnce'
  <2> SUFFICES ASSUME NEW j \in Started', NEW s \in Slots, Written(update_idx[j], s)'
               PROVE  /\ \E k \in Added : /\ row[update_idx[j]][s] = k
                                          /\ \E n \in 1 .. turn[k] : Through(k, n, j)
                      /\ \A t \in Slots : Written(update_idx[j], t)'
                           /\ row[update_idx[j]][s] = row[update_idx[j]][t] => s = t
    BY <1>1, <1>9, <1>10 DEF VotesAreOnce
  <2>1. j \in Started
    <3>1. CASE j = c
      BY <1>3, <1>8, <3>1
    <3> QED
      BY <1>2, <3>1
  <2> QED
    BY <1>1, <1>7, <2>1 DEF Serial, VotesAreOnce
<1> QED
  BY <1>6, <1>11, <1>12 DEF Serial

\* It writes its vote, the only one of it in the row.
LEMMA WriteSlotSerial ==
  ASSUME VoteInv, Lists, Serial, NEW i \in Points, WriteSlot(i)
  PROVE  Serial'
<1> DEFINE c == Current(i)
           u == update_idx[c]
           z == row_size[u] - 1
<1>1. /\ at[i] = "write" /\ VoteFrame /\ Holds(i) /\ phase = "vote" /\ GoTo(i, "next")
      /\ UNCHANGED <<updated_pt, update_idx, rows_used, row_pt, row_size, turn, slot>>
  BY DEF WriteSlot, Holds, VoteInv, AtRest, VoteTypes
<1>2. slot[i] = <<u, z>> /\ c \in Started
  BY <1>1 DEF Serial, OneAtATime
<1>3. /\ \A j \in Started : j \in Points /\ update_idx[j] \in Rows
      /\ \A j, k \in Started : update_idx[j] = update_idx[k] => j = k
  BY <1>1, RowsDiffer
<1>4. z \in Nat /\ z < row_size[u] /\ u \in Rows /\ row_size[u] = z + 1
  <2>1. slot[i] \in Rows \X Nat /\ row_size \in [Rows -> Nat]
    BY DEF VoteInv, VoteTypes
  <2>2. u \in Rows /\ row_size[u] \in Nat
    BY <1>2, <1>3, <2>1
  <2> QED
    BY <1>2, <2>1, <2>2
<1>5. Started' = Started
  BY <1>1, QuietRows
<1>6. /\ OneAtATime' /\ at'[i] = "next"
      /\ \A k \in Points : k # i => at'[k] = at[k] /\ at[k] \in {"off", "start"}
  BY <1>1, SerialStep DEF Serial
<1>7. i \in Added /\ turn[i] \in 1 .. turn[i] /\ IsAsked(i, c) /\ Added \subseteq Points
  <2>1. at[i] \in Asking
    BY <1>1 DEF Asking
  <2>2. i \in Added /\ turn[i] \in 1 .. LoopCount(i) /\ IsAsked(i, c) /\ turn[i] \in Nat
    BY <2>1, InHandFacts DEF VoteInv, VoteTypes
  <2>3. Added \subseteq Points
    BY <1>1, AddedPoints
  <2>4. turn[i] \in 1 .. turn[i]
    BY <2>2
  <2> QED
    BY <2>2, <2>3, <2>4
<1>8. \A n \in 1 .. turn[i] : ~Through(i, n, c)
  BY <1>1, NotYet DEF Asking
<1>9. \A v \in Rows, s \in Slots : row'[v][s] = IF v = u /\ s = z THEN i ELSE row[v][s]
  <2>1. slot[i][1] = u /\ slot[i][2] = z
    BY <1>2
  <2>2. /\ row' = IF z \in Slots THEN [row EXCEPT ![u][z] = i] ELSE row
        /\ row \in [Rows -> [Slots -> Points \cup {0}]]
    BY <2>1 DEF WriteSlot, VoteInv, VoteTypes
  <2> HIDE DEF u, z
  <2> QED
    BY <1>4, <2>2
<1>10. \A k \in Added : \A n, j :
         Through(k, n, j)' <=> Through(k, n, j) \/ (k = i /\ n = turn[i] /\ j = c)
  BY <1>1, <1>6, <1>7 DEF Through, Asking, VoteFrame, Current
<1> HIDE DEF c, u, z
<1>11. ASSUME NEW v, NEW s
       PROVE  /\ Written(v, s) <=> s < row_size[v] /\ <<v, s>> # <<u, z>>
              /\ Written(v, s)' <=> Written(v, s) \/ (v = u /\ s = z)
  <2>1. Written(v, s) <=> s < row_size[v] /\ <<v, s>> # <<u, z>>
    BY <1>1, <1>2, <1>6 DEF Written
  <2>2. Written(v, s)' <=> s < row_size[v]
    BY <1>1, <1>6 DEF Written
  <2> QED
    BY <1>4, <2>1, <2>2
<1>12. Added' = Added /\ phase' = phase /\ \A k, j : IsAsked(k, j)' = IsAsked(k, j)
  BY <1>1, Frame DEF VoteFrame
<1>13. \A v \in Rows, s \in Slots : Written(v, s) => row'[v][s] = row[v][s]
  BY <1>9, <1>11
<1>14. VotesAreIn'
  <2> SUFFICES ASSUME NEW k \in Added, NEW n \in 1 .. turn[k], NEW j \in Points,
                      Through(k, n, j)', IsAsked(k, j)
               PROVE  /\ j \in Started
                      /\ row_size[update_idx[j]] < MaxNeighbours =>
                           \E s \in Slots : Written(update_idx[j], s)' /\ row'[update_idx[j]][s] = k
    BY <1>1, <1>5, <1>12 DEF VotesAreIn
  <2>1. CASE Through(k, n, j)
    <3>1. /\ j \in Started
          /\ row_size[update_idx[j]] < MaxNeighbours =>
               \E s \in Slots : Written(update_idx[j], s) /\ row[update_idx[j]][s] = k
      BY <1>1, <2>1 DEF Serial, VotesAreIn
    <3>2. \A s \in Slots : Written(update_idx[j], s) =>
            Written(update_idx[j], s)' /\ row'[update_idx[j]][s] = row[update_idx[j]][s]
      BY <1>1, <1>3, <1>11, <1>13, <3>1
    <3> QED
      BY <3>1, <3>2
  <2>2. CASE k = i /\ n = turn[i] /\ j = c
    <3>1. ASSUME row_size[u] < MaxNeighbours PROVE z \in Slots
      BY <1>4, <3>1, VoteAssumption DEF Slots
    <3>2. update_idx[j] = u
      BY <2>2 DEF u
    <3>3. ASSUME NEW s \in Slots, s = z
          PROVE  Written(update_idx[j], s)' /\ row'[update_idx[j]][s] = k
      BY <1>1, <1>4, <1>9, <1>11, <2>2, <3>2, <3>3
    <3> QED
      BY <1>2, <2>2, <3>1, <3>2, <3>3
  <2> QED
    BY <1>10, <2>1, <2>2
<1>15. VotesAreOnce'
  <2>1. ASSUME NEW j \in Started, NEW s \in Slots, Written(update_idx[j], s)
        PROVE  /\ \E k \in Added : /\ row[update_idx[j]][s] = k
                                   /\ \E n \in 1 .. turn[k] : Through(k, n, j)
               /\ \A t \in Slots : Written(update_idx[j], t)
                    /\ row[update_idx[j]][s] = row[update_idx[j]][t] => s = t
               /\ j = c => row[update_idx[j]][s] # i
    <3>1. /\ \E k \in Added : /\ row[update_idx[j]][s] = k
                              /\ \E n \in 1 .. turn[k] : Through(k, n, j)
          /\ \A t \in Slots : Written(update_idx[j], t)
               /\ row[update_idx[j]][s] = row[update_idx[j]][t] => s = t
      BY <1>1, <2>1 DEF Serial, VotesAreOnce
    <3> QED
      BY <1>8, <3>1
  <2>2. ASSUME NEW j \in Started, NEW s \in Slots, Written(update_idx[j], s)'
        PROVE  \/ Written(update_idx[j], s) /\ row'[update_idx[j]][s] = row[update_idx[j]][s]
               \/ j = c /\ s = z /\ row'[update_idx[j]][s] = i
    <3>1. CASE Written(update_idx[j], s)
      BY <1>3, <1>13, <3>1
    <3>2. CASE update_idx[j] = u /\ s = z
      BY <1>2, <1>3, <1>4, <1>9, <3>2 DEF u
    <3> QED
      BY <1>1, <1>11, <2>2, <3>1, <3>2
  <2>3. ASSUME NEW j \in Started, NEW s \in Slots, Written(update_idx[j], s)'
        PROVE  /\ \E k \in Added : /\ row'[update_idx[j]][s] = k
                                   /\ \E n \in 1 .. turn[k] : Through(k, n, j)'
               /\ \A t \in Slots : Written(update_idx[j], t)'
                    /\ row'[update_idx[j]][s] = row'[update_idx[j]][t] => s = t
    <3>1. \E k \in Added : /\ row'[update_idx[j]][s] = k
                           /\ \E n \in 1 .. turn[k] : Through(k, n, j)'
      <4>1. CASE Written(update_idx[j], s) /\ row'[update_idx[j]][s] = row[update_idx[j]][s]
        BY <1>10, <2>1, <4>1
      <4>2. CASE j = c /\ s = z /\ row'[update_idx[j]][s] = i
        BY <1>7, <1>10, <4>2
      <4> QED
        BY <2>2, <2>3, <4>1, <4>2
    <3>2. ASSUME NEW t \in Slots, Written(update_idx[j], t)',
                 row'[update_idx[j]][s] = row'[update_idx[j]][t]
          PROVE  s = t
      <4>1. /\ \/ Written(update_idx[j], s) /\ row'[update_idx[j]][s] = row[update_idx[j]][s]
               \/ j = c /\ s = z /\ row'[update_idx[j]][s] = i
            /\ \/ Written(update_idx[j], t) /\ row'[update_idx[j]][t] = row[update_idx[j]][t]
               \/ j = c /\ t = z /\ row'[update_idx[j]][t] = i
        BY <2>2, <2>3, <3>2
      <4> QED
        BY <2>1, <3>2, <4>1
    <3> QED
      BY <3>1, <3>2
  <2> QED
    BY <1>1, <1>5, <1>12, <2>3 DEF VotesAreOnce
<1> QED
  BY <1>6, <1>14, <1>15 DEF Serial

\* Every step of the lone thread keeps its invariant.
LEMMA OneThreadInv == VoteInv /\ Lists /\ OneThread /\ [Next]_vars => OneThread'
<1> SUFFICES ASSUME VoteInv, Lists, OneThread, [Next]_vars, threads' = 1 PROVE Serial'
  BY DEF OneThread
<1>1. threads' = threads
  BY DEF Next, StartRound, AppendVotes, Vote, Begin, NextNeighbour, Claim, WriteIndex, ResetRow,
     CheckRow, Reserve, WriteSlot, VoteFrame, vars
<1>2. Serial /\ threads = 1
  BY <1>1 DEF OneThread
<1>3. CASE StartRound
  <2>1. /\ at' = [p \in Points |-> IF p \in Batches[round + 1] THEN "start" ELSE "off"]
        /\ turn' = [p \in Points |-> 0] /\ round' = round + 1 /\ Started' = {}
        /\ Batches[round + 1] \subseteq Points
    BY <1>3, StartRoundInv, RoundsApart DEF StartRound, VoteInv
  <2>2. \A p \in Points : at'[p] \in {"start", "off"} /\ 1 .. turn'[p] = {}
    BY <2>1
  <2>3. Added' \subseteq Points
    BY <2>1 DEF Added
  <2> QED
    BY <2>1, <2>2, <2>3 DEF Serial, OneAtATime, VotesAreIn, VotesAreOnce, Holds
<1>4. ASSUME NEW i \in Points, Vote(i) PROVE Serial'
  BY <1>2, <1>4, BeginSerial, NextNeighbourSerial, ClaimSerial, WriteIndexSerial, ResetRowSerial,
     CheckRowSerial, ReserveSerial, WriteSlotSerial DEF Vote
<1>5. CASE AppendVotes
  <2>1. phase' = "map" /\ at' = at
    BY <1>5 DEF AppendVotes, thread_vars
  <2> QED
    BY <1>2, <2>1 DEF Serial, OneAtATime, VotesAreIn, VotesAreOnce, Holds
<1>6. CASE UNCHANGED vars
  <2>1. UNCHANGED <<round, phase, neighbours, updated_pt, update_idx, row_size, row, at, turn, slot>>
    BY <1>6 DEF vars, row_vars, thread_vars
  <2>2. /\ Added' = Added /\ \A i : Current(i)' = Current(i)
        /\ \A i, j : IsAsked(i, j)' = IsAsked(i, j)
    BY <2>1 DEF Added, Current, IsAsked, OldPoints
  <2>3. Started' = Started
    BY <2>1, <2>2 DEF Started, Indexed, InHandAt, Current
  <2>4. /\ \A i, k, j : Through(i, k, j)' <=> Through(i, k, j)
        /\ \A u, t : Written(u, t)' <=> Written(u, t)
    BY <2>1 DEF Through, Written
  <2>5. OneAtATime'
    BY <1>2, <2>1, <2>2, <2>3 DEF Serial, OneAtATime, Holds
  <2>6. VotesAreIn' /\ VotesAreOnce'
    BY <1>2, <2>1, <2>2, <2>3, <2>4 DEF Serial, VotesAreIn, VotesAreOnce
  <2> QED
    BY <2>5, <2>6 DEF Serial
<1> QED
  BY <1>3, <1>4, <1>5, <1>6 DEF Next

\* It holds throughout.
LEMMA OneThreadInvariant == Spec => []OneThread
<1>1. Init => OneThread
  BY DEF Init, OneThread, Serial, OneAtATime, VotesAreIn, VotesAreOnce, Holds
<1> QED
  BY <1>1, OneThreadInv, VoteInvariant, ListsInvariant, PTL DEF Spec

\* With one thread every vote is in the row of the point it is for, or that row
\* is full (map_processing.cpp:264-273).
THEOREM VoteVotesRecorded == Spec => []VotesRecorded
<1>1. VoteInv /\ OneThread => VotesRecorded
  <2> SUFFICES ASSUME VoteInv, OneThread, VoteIsOver, threads = 1, NEW i \in Added,
                      NEW k \in 1 .. LoopCount(i), IsAsked(i, neighbours[i][k])
               PROVE  \E u \in UsedRows :
                        /\ row_pt[u] = neighbours[i][k]
                        /\ row_size[u] < MaxNeighbours =>
                             \E s \in Slots : s < row_size[u] /\ row[u][s] = i
    BY DEF VotesRecorded
  <2> DEFINE j == neighbours[i][k]
  <2>1. /\ phase = "vote" /\ i \in Points /\ at[i] = "off" /\ turn[i] = LoopCount(i)
        /\ VotesAreIn /\ VoteTypes
    BY AddedPoints DEF VoteIsOver, VoteInv, Voters, OneThread, Serial
  <2>2. j \in Points
    <3>1. \A r \in 1 .. round - 1 : r \in DOMAIN Batches
      BY <2>1, FinitePoints DEF VoteTypes
    <3> QED
      BY <3>1, FinitePoints DEF IsAsked, OldPoints
  <2>3. Through(i, k, j)
    BY <2>1 DEF Through, Asking
  <2>4. /\ j \in Started
        /\ row_size[update_idx[j]] < MaxNeighbours =>
             \E s \in Slots : Written(update_idx[j], s) /\ row[update_idx[j]][s] = i
    BY <2>1, <2>2, <2>3 DEF VotesAreIn
  <2>5. update_idx[j] \in UsedRows /\ row_pt[update_idx[j]] = j
    BY <2>1, <2>4 DEF VoteInv, RowsInv, Started
  <2> QED
    BY <2>4, <2>5 DEF Written
<1> QED
  BY <1>1, VoteInvariant, OneThreadInvariant, PTL

-----------------------------------------------------------------------------
(* What a tensor is made of                                                *)

\* Two lists of other entries, each once, are together a list of each once.
LEMMA Together ==
  ASSUME NEW S, NEW a \in Seq(S), NEW b \in Seq(S)
  PROVE  /\ Range(a \o b) = Range(a) \cup Range(b)
         /\ IsInjective(a) /\ IsInjective(b) /\ Range(a) \cap Range(b) = {} => IsInjective(a \o b)
<1> DEFINE c == a \o b
<1>1. /\ Len(a) \in Nat /\ Len(b) \in Nat /\ Len(c) = Len(a) + Len(b)
      /\ DOMAIN a = 1 .. Len(a) /\ DOMAIN b = 1 .. Len(b) /\ DOMAIN c = 1 .. Len(c)
      /\ \A k \in 1 .. Len(c) : c[k] = IF k <= Len(a) THEN a[k] ELSE b[k - Len(a)]
  BY ConcatProperties, LenProperties
<1> HIDE DEF c
<1>2. \A k \in 1 .. Len(c) : \/ k \in 1 .. Len(a) /\ c[k] = a[k]
                             \/ k - Len(a) \in 1 .. Len(b) /\ c[k] = b[k - Len(a)]
  BY <1>1
<1>3. Range(c) = Range(a) \cup Range(b)
  <2>1. Range(c) \subseteq Range(a) \cup Range(b)
    BY <1>1, <1>2 DEF Range
  <2>2. \A k \in 1 .. Len(a) : k \in 1 .. Len(c) /\ c[k] = a[k]
    BY <1>1
  <2>3. \A k \in 1 .. Len(b) : k + Len(a) \in 1 .. Len(c) /\ c[k + Len(a)] = b[k]
    BY <1>1
  <2>4. Range(a) \subseteq Range(c)
    BY <1>1, <2>2 DEF Range
  <2>5. Range(b) \subseteq Range(c)
    BY <1>1, <2>3 DEF Range
  <2> QED
    BY <2>1, <2>4, <2>5
<1>4. ASSUME IsInjective(a), IsInjective(b), Range(a) \cap Range(b) = {},
             NEW k \in 1 .. Len(c), NEW l \in 1 .. Len(c), c[k] = c[l]
      PROVE  k = l
  <2>1. \A m \in 1 .. Len(a), n \in 1 .. Len(b) : a[m] # b[n]
    BY <1>1, <1>4 DEF Range
  <2>2. /\ \A m, n \in 1 .. Len(a) : a[m] = a[n] => m = n
        /\ \A m, n \in 1 .. Len(b) : b[m] = b[n] => m = n
    BY <1>1, <1>4 DEF IsInjective
  <2>3. \/ k \in 1 .. Len(a) /\ l \in 1 .. Len(a) /\ a[k] = a[l]
        \/ k - Len(a) \in 1 .. Len(b) /\ l - Len(a) \in 1 .. Len(b) /\ b[k - Len(a)] = b[l - Len(a)]
    BY <1>2, <1>4, <2>1
  <2> QED
    BY <1>1, <2>2, <2>3
<1>5. IsInjective(a) /\ IsInjective(b) /\ Range(a) \cap Range(b) = {} => IsInjective(c)
  BY <1>1, <1>4 DEF IsInjective
<1> QED
  BY <1>3, <1>5 DEF c

\* With one thread the votes a point takes are different.
LEMMA VotesDiffer ==
  ASSUME VoteInv, OneThread, threads = 1, VoteIsOver, NEW p \in Updated
  PROVE  IsInjective(NewVotes(p))
<1>1. /\ p \in Started /\ p \in Points /\ phase = "vote" /\ p \in Asked
      /\ \A q \in Points : at[q] = "off"
  BY UpdatedAreOld DEF Updated, VoteIsOver
<1>2. /\ Taken(p) \in Nat /\ Taken(p) <= row_size[update_idx[p]] /\ RowOf(p) = update_idx[p]
      /\ \A k \in 1 .. Taken(p) : k - 1 \in Slots
      /\ row_size[update_idx[p]] \in Nat
  <2>1. RowOf(p) = update_idx[p] /\ RowOf(p) \in Rows
    BY <1>1, OverFacts
  <2>2. row_size[RowOf(p)] \in Nat
    BY <2>1 DEF VoteInv, VoteTypes
  <2> QED
    BY <2>1, <2>2, TakenVotes
<1>3. \A k \in 1 .. Taken(p) : Written(update_idx[p], k - 1)
  BY <1>1, <1>2 DEF Written
<1>4. \A s, t \in Slots : Written(update_idx[p], s) /\ Written(update_idx[p], t)
        /\ row[update_idx[p]][s] = row[update_idx[p]][t] => s = t
  BY <1>1 DEF OneThread, Serial, VotesAreOnce
<1>5. /\ DOMAIN NewVotes(p) = 1 .. Taken(p)
      /\ \A k \in 1 .. Taken(p) : NewVotes(p)[k] = row[update_idx[p]][k - 1]
  BY <1>2 DEF NewVotes
<1>6. ASSUME NEW k \in 1 .. Taken(p), NEW l \in 1 .. Taken(p), NewVotes(p)[k] = NewVotes(p)[l]
      PROVE  k = l
  <2>1. k - 1 = l - 1
    BY <1>2, <1>3, <1>4, <1>5, <1>6
  <2> QED
    BY <1>2, <2>1
<1> QED
  BY <1>5, <1>6 DEF IsInjective

\* A new point's sum is the head of its list.
LEMMA SumIsHead ==
  ASSUME VoteInv, Lists, NEW i \in Points, at[i] = "next"
  PROVE  LET votes == SubSeq(neighbours[i], 1, LoopCount(i))
         IN  IsInjective(votes) /\ Range(votes) \subseteq Range(neighbours[i])
               /\ Range(votes) \subseteq UpTo(round) /\ i \in Added /\ phase = "vote"
<1> DEFINE votes == SubSeq(neighbours[i], 1, LoopCount(i))
<1>1. /\ phase = "vote" /\ i \in Added /\ neighbours[i] \in Seq(Points)
      /\ LoopCount(i) \in 0 .. Len(neighbours[i]) /\ Len(neighbours[i]) \in Nat
  BY Limits DEF VoteInv, VoteTypes, AtRest, Voters
<1>2. DOMAIN votes = 1 .. LoopCount(i) /\ \A k \in 1 .. LoopCount(i) : votes[k] = neighbours[i][k]
  BY <1>1
<1> HIDE DEF votes
<1>3. 1 .. LoopCount(i) \subseteq 1 .. Len(neighbours[i]) /\ DOMAIN neighbours[i] = 1 .. Len(neighbours[i])
  BY <1>1
<1>4. IsInjective(votes)
  BY <1>1, <1>2, <1>3 DEF IsInjective, Lists
<1>5. Range(votes) \subseteq Range(neighbours[i])
  BY <1>2, <1>3 DEF Range
<1> QED
  BY <1>1, <1>4, <1>5 DEF votes, Lists

\* Every step keeps the sums.
LEMMA SumsInv == VoteInv /\ Lists /\ OneThread /\ Sums /\ [Next]_vars => Sums'
<1> SUFFICES ASSUME VoteInv, Lists, OneThread, Sums, [Next]_vars PROVE Sums'
  OBVIOUS
<1>1. CASE StartRound
  <2>1. /\ phase' = "vote" /\ round' = round + 1 /\ round < Len(Batches) /\ round \in Nat
        /\ UNCHANGED <<threads, tensor_vars>> /\ VoteTypes
    BY <1>1, FinitePoints DEF StartRound, VoteInv, VoteTypes
  <2>2. /\ UpTo(round)' = UpTo(round) \cup Batches[round + 1] /\ UpTo(round - 1)' = UpTo(round)
        /\ Added' = Batches[round + 1] /\ UpTo(round) \cap Batches[round + 1] = {}
    BY <2>1, RoundsApart DEF Added, UpTo
  <2>3. ASSUME NEW p \in Points
        PROVE  /\ filters[p].first => tensors_p2[p].votes = tensors_p1[p]
               /\ filters[p].second => ellipsoid[p] # 0
               /\ Range(tensors_p1[p]) \subseteq Range(neighbours'[p])
               /\ threads = 1 => IsInjective(tensors_p1[p])
               /\ Range(tensors_p1[p]) \subseteq UpTo(round)
    <3>1. CASE p \in Batches[round + 1]
      <4>1. tensors_p1[p] = <<>>
        BY <2>2, <3>1 DEF Lists
      <4>2. Range(tensors_p1[p]) = {}
        BY <4>1 DEF Range
      <4> QED
        BY <4>2 DEF Sums
    <3>2. CASE p \notin Batches[round + 1]
      BY <1>1, <2>1, <3>2, FoundLists DEF Sums
    <3> QED
      BY <3>1, <3>2
  <2> QED
    BY <2>1, <2>2, <2>3 DEF Sums, tensor_vars
<1>2. ASSUME NEW i \in Points, Vote(i) PROVE Sums'
  <2>1. VoteFrame
    BY <1>2 DEF Vote, Begin, NextNeighbour, Claim, WriteIndex, ResetRow, CheckRow, Reserve, WriteSlot
  <2>2. /\ Added' = Added /\ UpTo(round)' = UpTo(round) /\ UpTo(round - 1)' = UpTo(round - 1)
        /\ UNCHANGED <<threads, phase, neighbours>>
    BY <2>1, Frame DEF VoteFrame, UpTo
  <2>3. CASE UNCHANGED tensor_vars
    BY <2>2, <2>3 DEF Sums, tensor_vars
  <2>4. CASE ~UNCHANGED tensor_vars
    <3> DEFINE votes == SubSeq(neighbours[i], 1, LoopCount(i))
    <3>1. NextNeighbour(i)
      BY <1>2, <2>4 DEF Vote, Begin, Claim, WriteIndex, ResetRow, CheckRow, Reserve, WriteSlot
    <3>2. PICK passes \in BOOLEAN :
            /\ tensors_p1' = [tensors_p1 EXCEPT ![i] = votes]
            /\ filters' = [filters EXCEPT ![i].first = passes]
            /\ tensors_p2' = [tensors_p2 EXCEPT ![i] = TensorOf(i, passes, votes, LoopCount(i))]
            /\ UNCHANGED ellipsoid
      <4>1. ~(turn[i] < LoopCount(i))
        BY <2>4, <3>1 DEF NextNeighbour
      <4>2. PICK solved \in Solves(i) :
              LET passes == LoopCount(i) >= MinNeigh(i) /\ solved
              IN  /\ tensors_p1' = [tensors_p1 EXCEPT ![i] = votes]
                  /\ filters' = [filters EXCEPT ![i].first = passes]
                  /\ tensors_p2' = [tensors_p2 EXCEPT ![i] = TensorOf(i, passes, votes, LoopCount(i))]
                  /\ UNCHANGED ellipsoid
        BY <3>1, <4>1 DEF NextNeighbour
      <4>3. (LoopCount(i) >= MinNeigh(i) /\ solved) \in BOOLEAN
        BY DEF Solves
      <4> QED
        BY <4>2, <4>3
    <3>3. IsInjective(votes) /\ Range(votes) \subseteq Range(neighbours[i])
            /\ Range(votes) \subseteq UpTo(round) /\ i \in Added /\ phase = "vote"
      BY <3>1, SumIsHead DEF NextNeighbour
    <3> HIDE DEF votes
    <3>4. ASSUME NEW p \in Points, p # i
          PROVE  /\ tensors_p1'[p] = tensors_p1[p] /\ filters'[p] = filters[p]
                 /\ tensors_p2'[p] = tensors_p2[p]
      BY <3>2, <3>4 DEF VoteInv, VoteTypes
    <3>5. /\ tensors_p1'[i] = votes /\ filters'[i].first = passes
          /\ filters'[i].second = filters[i].second
          /\ passes => tensors_p2'[i].votes = votes
      <4>1. tensors_p1'[i] = votes
        BY <3>2 DEF VoteInv, VoteTypes
      <4>2. filters'[i].first = passes /\ filters'[i].second = filters[i].second
        BY <3>2 DEF VoteInv, VoteTypes
      <4>3. passes => tensors_p2'[i] = [votes |-> votes, over |-> LoopCount(i)]
        BY <3>2 DEF VoteInv, VoteTypes, TensorOf
      <4> QED
        BY <4>1, <4>2, <4>3
    <3>6. ASSUME NEW p \in Points
          PROVE  /\ filters'[p].first => tensors_p2'[p].votes = tensors_p1'[p]
                 /\ filters'[p].second => ellipsoid'[p] # 0
                 /\ Range(tensors_p1'[p]) \subseteq Range(neighbours[p])
                 /\ threads = 1 => IsInjective(tensors_p1'[p])
                 /\ Range(tensors_p1'[p]) \subseteq UpTo(round)
                 /\ phase = "vote" /\ p \notin Added =>
                      Range(tensors_p1'[p]) \subseteq UpTo(round - 1)
      <4>1. CASE p = i
        BY <3>2, <3>3, <3>5, <4>1 DEF Sums
      <4>2. CASE p # i
        BY <3>2, <3>4, <4>2 DEF Sums
      <4> QED
        BY <4>1, <4>2
    <3> QED
      BY <2>2, <3>6 DEF Sums
  <2> QED
    BY <2>3, <2>4
<1>3. CASE AppendVotes
  <2>1. /\ VoteIsOver /\ phase' = "map" /\ threads' = threads /\ UpTo(round)' = UpTo(round)
        /\ phase = "vote" /\ round >= 1 /\ VoteTypes
    BY <1>3, AppendedVotes DEF VoteIsOver, VoteInv, Voters, UpTo
  <2>2. /\ UpTo(round) = UpTo(round - 1) \cup Added /\ UpTo(round - 1) \cap Added = {}
        /\ Added \subseteq Points
    BY <2>1, RoundsApart, AddedPoints
  <2>3. ASSUME NEW p \in Points
        PROVE  /\ filters'[p].first => tensors_p2'[p].votes = tensors_p1'[p]
               /\ filters'[p].second => ellipsoid'[p] # 0
               /\ Range(tensors_p1'[p]) \subseteq Range(neighbours'[p])
               /\ threads = 1 => IsInjective(tensors_p1'[p])
               /\ Range(tensors_p1'[p]) \subseteq UpTo(round)
    <3>1. filters'[p].second => ellipsoid'[p] # 0
      BY <1>3, <2>1, AppendedVotes DEF Sums
    <3>2. CASE p \notin Updated
      BY <1>3, <3>1, <3>2, AppendedVotes DEF Sums
    <3>3. CASE p \in Updated
      <4>1. /\ neighbours'[p] = neighbours[p] \o NewVotes(p)
            /\ tensors_p1'[p] = tensors_p1[p] \o NewVotes(p)
            /\ filters'[p].first => tensors_p2'[p].votes = tensors_p1'[p]
        BY <1>3, <3>3, AppendedVotes
      <4>2. /\ neighbours[p] \in Seq(Points) /\ tensors_p1[p] \in Seq(Points)
            /\ NewVotes(p) \in Seq(Points) /\ Range(NewVotes(p)) \subseteq Added
        <5>1. NewVotes(p) \in Seq(Added)
          BY <2>1, <3>3, TakenVotes
        <5> QED
          BY <2>1, <2>2, <5>1 DEF VoteTypes, Range
      <4>3. /\ Range(neighbours'[p]) = Range(neighbours[p]) \cup Range(NewVotes(p))
            /\ Range(tensors_p1'[p]) = Range(tensors_p1[p]) \cup Range(NewVotes(p))
        BY <4>1, <4>2, Together
      <4>4. p \notin Added
        BY <2>1, <3>3, UpdatedAreOld
      <4>5. Range(tensors_p1[p]) \subseteq UpTo(round - 1)
        BY <2>1, <4>4 DEF Sums
      <4>6. threads = 1 => IsInjective(tensors_p1'[p])
        <5> SUFFICES ASSUME threads = 1 PROVE IsInjective(tensors_p1'[p])
          OBVIOUS
        <5>1. IsInjective(tensors_p1[p]) /\ IsInjective(NewVotes(p))
          BY <2>1, <3>3, VotesDiffer DEF Sums
        <5>2. Range(tensors_p1[p]) \cap Range(NewVotes(p)) = {}
          BY <2>2, <4>2, <4>5
        <5> QED
          BY <4>1, <4>2, <5>1, <5>2, Together
      <4> QED
        BY <2>2, <3>1, <4>1, <4>2, <4>3, <4>5, <4>6 DEF Sums
    <3> QED
      BY <3>2, <3>3
  <2> QED
    BY <2>1, <2>3 DEF Sums
<1>4. CASE UNCHANGED vars
  BY <1>4 DEF Sums, UpTo, Added, vars, tensor_vars
<1> QED
  BY <1>1, <1>2, <1>3, <1>4 DEF Next

\* Between the rounds a point that passes the first filter has the tensor made
\* of all its votes, which are in its list and, with one thread, there once each;
\* one that passes the second has had its ellipsoid made
\* (map_processing.cpp:137-155, 275-281, 318-325, 366-370).
THEOREM VoteTensorOfItsVotes == Spec => []TensorOfItsVotes
<1>1. Init => Sums
  <2>1. IsInjective(<<>>) /\ Range(<<>>) = {}
    BY DEF IsInjective, Range
  <2> QED
    BY <2>1 DEF Init, Sums
<1>2. Sums => TensorOfItsVotes
  BY DEF Sums, TensorOfItsVotes
<1> QED
  BY <1>1, <1>2, SumsInv, VoteInvariant, ListsInvariant, OneThreadInvariant, PTL DEF Spec

=============================================================================
