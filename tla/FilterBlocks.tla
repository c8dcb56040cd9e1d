---------------------------- MODULE FilterBlocks ----------------------------
(***************************************************************************)
(* The blocks of the filter's matrices (esekfom.hpp:280-408, 1777-1969):    *)
(* where MTK_BUILD_MANIFOLD puts the fields of the state, the lists of them *)
(* that build_*_state fills, the prediction's Jacobian put together from    *)
(* the lists, and the covariance carried block by block, in place, through  *)
(* an iterated update.                                                      *)
(*                                                                         *)
(* A field has DOF rows from IDX in what is written in the tangent space    *)
(* and DIM rows from DIM in what f, f_x and f_w return; the two differ       *)
(* behind an S2.  Of an entry of a covariance the model has how often the    *)
(* factor of its row's field has been multiplied from the left, and that of *)
(* its column's from the right, since P_propagated: numbers are left out.   *)
(***************************************************************************)
EXTENDS Integers, Sequences

CONSTANTS
  Layouts,   \* manifolds a program declares: the kinds of their fields
  ObsCols    \* the columns of h_x_, 6

Kinds == {"vect", "SO3", "S2"}
DOF == [k \in Kinds |-> IF k = "S2" THEN 2 ELSE 3]
DIM == 3

ASSUME LayoutsAssumption == Layouts \subseteq Seq(Kinds) /\ ObsCols \in Nat \ {0}

VARIABLES
  pc,          \* where the filter is
  layout,      \* the entries MTK_BUILD_MANIFOLD is given
  entries,     \* the fields, each with its IDX and DIM
  dof, dim,    \* the offsets so far, at the end DOF and DIM of the state
  vect_state, SO3_state, S2_state,
  built,       \* the fields build_*_state has been through
  it,          \* the position in a list
  f_x_final,   \* the rows of f_x_ (and f_w_) each row is made of
  turned,      \* the rows in which F_x1 has a block of its own
  P_, L_, K_x

list_vars == <<vect_state, SO3_state, S2_state, built>>
layout_vars == <<layout, entries, dof, dim>>
predict_vars == <<f_x_final, turned>>
update_vars == <<P_, L_, K_x>>
vars == <<pc, it, layout_vars, list_vars, predict_vars, update_vars>>

Rows == 0 .. dof - 1
Segment(first, size) == first .. first + size - 1

\* getStartIdx and getDof; getStartIdx_ and getDim
FieldRows(e) == Segment(e.IDX, DOF[e.kind])
FieldDims(e) == Segment(e.DIM, DIM)

Init ==
  /\ pc = "declare" /\ it = 1
  /\ layout \in Layouts
  /\ entries = <<>> /\ dof = 0 /\ dim = 0
  /\ vect_state = <<>> /\ SO3_state = <<>> /\ S2_state = <<>> /\ built = 0
  /\ f_x_final = <<>> /\ turned = {}
  /\ P_ = <<>> /\ L_ = <<>> /\ K_x = <<>>

-----------------------------------------------------------------------------
(* The manifold and its lists *)

\* One entry of the declaration: it starts where those before it end.
EntriesNext ==
  /\ pc = "declare"
  /\ Len(entries) < Len(layout)
  /\ LET kind == layout[Len(entries) + 1]
     IN  /\ entries' = Append(entries, [kind |-> kind, IDX |-> dof, DIM |-> dim])
         /\ dof' = dof + DOF[kind]
         /\ dim' = dim + DIM
  /\ UNCHANGED <<pc, it, layout, list_vars, predict_vars, update_vars>>

\* init_dyn_share builds the lists of x_, which has none.
InitDynShare ==
  /\ pc = "declare"
  /\ Len(entries) = Len(layout)
  /\ pc' = "build"
  /\ UNCHANGED <<it, layout_vars, list_vars, predict_vars, update_vars>>

\* A list with the field at the end, if it is of its kind
With(list, kind, e) ==
  IF e.kind = kind THEN Append(list, [idx |-> e.IDX, dim |-> e.DIM]) ELSE list

\* build_S2_state, build_SO3_state and build_vect_state go through the fields,
\* here at the same pace.
BuildState ==
  /\ pc = "build"
  /\ built < Len(entries)
  /\ LET e == entries[built + 1]
     IN  /\ S2_state' = With(S2_state, "S2", e)
         /\ SO3_state' = With(SO3_state, "SO3", e)
         /\ vect_state' = With(vect_state, "vect", e)
  /\ built' = built + 1
  /\ UNCHANGED <<pc, it, layout_vars, predict_vars, update_vars>>

Built ==
  /\ pc = "build"
  /\ built = Len(entries)
  /\ pc' = "ready"
  /\ UNCHANGED <<it, layout_vars, list_vars, predict_vars, update_vars>>

\* change_x: the state handed over brings its lists, the ones of the x_ it was
\* copied from; they are built when it has none.
ChangeX ==
  /\ pc = "ready"
  /\ entries # <<>>
  /\ vect_state' = <<>> /\ SO3_state' = <<>> /\ S2_state' = <<>>
  /\ built' = 0
  /\ pc' = "build"
  /\ UNCHANGED <<it, layout_vars, predict_vars, update_vars>>

-----------------------------------------------------------------------------
(* predict *)

\* The loops over SO3_state and then over S2_state take these blocks.
Curved ==
  [j \in 1 .. Len(SO3_state) + Len(S2_state) |->
     IF j <= Len(SO3_state)
     THEN [idx |-> SO3_state[j].idx, dim |-> SO3_state[j].dim, size |-> 3]
     ELSE LET s == S2_state[j - Len(SO3_state)]
          IN  [idx |-> s.idx, dim |-> s.dim, size |-> 2]]

BlockRows(b) == Segment(b.idx, b.size)

\* The matrices are not initialised, but for F_x1.
StartPredict ==
  /\ pc = "ready"
  /\ f_x_final' = [r \in Rows |-> {}] /\ turned' = {}
  /\ it' = 1
  /\ pc' = "vect"
  /\ UNCHANGED <<layout_vars, list_vars, update_vars>>

\* Mutant of VectRows: by its place in the tangent space
VectRowsByIdx(v) == [r \in Rows |->
  IF r \in Segment(v.idx, 3) THEN {r} ELSE f_x_final[r]]

\* f_x_final(idx + j, .) = f_x_(dim + j, .)
VectRows(v) == [r \in Rows |->
  IF r \in Segment(v.idx, 3) THEN {v.dim + (r - v.idx)} ELSE f_x_final[r]]

PredictVect ==
  /\ pc = "vect"
  /\ it <= Len(vect_state)
  /\ f_x_final' = VectRows(vect_state[it])
  /\ it' = it + 1
  /\ UNCHANGED <<pc, turned, layout_vars, list_vars, update_vars>>

VectDone ==
  /\ pc = "vect"
  /\ it > Len(vect_state)
  /\ it' = 1
  /\ pc' = "curved"
  /\ UNCHANGED <<layout_vars, list_vars, predict_vars, update_vars>>

\* A block of rows is a matrix times the DIM rows of f_x_, the matrix a
\* function of as many rows of f_.
PredictCurved ==
  /\ pc = "curved"
  /\ it <= Len(Curved)
  /\ LET b == Curved[it]
     IN  /\ f_x_final' = [r \in Rows |->
              IF r \in BlockRows(b) THEN Segment(b.dim, DIM) ELSE f_x_final[r]]
         /\ turned' = turned \cup BlockRows(b)
  /\ it' = it + 1
  /\ UNCHANGED <<pc, layout_vars, list_vars, update_vars>>

\* P_ = F_x1 * P_ * F_x1' + ...: the blocks are in place.
Predicted ==
  /\ pc = "curved"
  /\ it > Len(Curved)
  /\ pc' = "predicted"
  /\ UNCHANGED <<it, layout_vars, list_vars, predict_vars, update_vars>>

-----------------------------------------------------------------------------
(* update_iterated_dyn_share_modified_R *)

Cell == [l : Nat, r : Nat, ok : BOOLEAN]
Square == Rows \X Rows

\* The entries of P_propagated
Propagated == [p \in Square |-> [l |-> 0, r |-> 0, ok |-> TRUE]]

OwnRows(b) == \E a \in DOMAIN entries : BlockRows(b) = FieldRows(entries[a])

\* A product combines the rows of a block: it means something when they are
\* those of one field, and have been through the same.
Times(S, p, block, whole) ==
  whole /\ \A q \in block : S[q].ok /\ S[q].l = S[p].l /\ S[q].r = S[p].r

\* The rows of a block of T are the factor times those of S.
CarryRows(T, S, b) ==
  [p \in DOMAIN T |->
     IF p[1] \in BlockRows(b)
     THEN [l |-> S[p].l + 1, r |-> S[p].r,
           ok |-> Times(S, p, BlockRows(b) \X {p[2]}, OwnRows(b))]
     ELSE T[p]]

\* The columns of a block of T are multiplied by the factor's transpose.
CarryCols(T, b) ==
  [p \in DOMAIN T |->
     IF p[2] \in BlockRows(b)
     THEN [l |-> T[p].l, r |-> T[p].r + 1,
           ok |-> Times(T, p, {p[1]} \X BlockRows(b), OwnRows(b))]
     ELSE T[p]]

\* An iteration: h_dyn_share, then P_ = P_propagated.  (block<6, 6> has the
\* compiler see to the size.)
StartIteration ==
  /\ pc \in {"ready", "judge"}
  /\ ObsCols <= dof
  /\ P_' = Propagated
  /\ it' = 1
  /\ pc' = "carry"
  /\ UNCHANGED <<layout_vars, list_vars, predict_vars, L_, K_x>>

\* Mutant of Transported: the columns are left as they are
TransportedRows(b) == CarryRows(P_, P_, b)

\* Both loops over rows and columns, in place
Transported(b) == CarryCols(CarryRows(P_, P_, b), b)

Transport ==
  /\ pc = "carry"
  /\ it <= Len(Curved)
  /\ P_' = Transported(Curved[it])
  /\ it' = it + 1
  /\ UNCHANGED <<pc, layout_vars, list_vars, predict_vars, L_, K_x>>

\* The gain is made of P_, and K_x has columns for the first ObsCols rows.
Gain ==
  /\ pc = "carry"
  /\ it > Len(Curved)
  /\ K_x' = [p \in Rows \X (0 .. ObsCols - 1) |-> P_[p]]
  /\ pc' = "judge"
  /\ UNCHANGED <<it, layout_vars, list_vars, predict_vars, P_, L_>>

\* The last iteration: L_ = P_
StartPosterior ==
  /\ pc = "judge"
  /\ L_' = P_
  /\ it' = 1
  /\ pc' = "posterior"
  /\ UNCHANGED <<layout_vars, list_vars, predict_vars, P_, K_x>>

\* Mutant of PCols: P_ stays as the gain had it
PColsKept(b) == P_

\* P_'s columns, for the product with K_x
PCols(b) == CarryCols(P_, b)

\* One block: the rows of L_ and K_x, then the columns of L_ and P_, whose rows
\* stay as they are.
CarryPosterior ==
  /\ pc = "posterior"
  /\ it <= Len(Curved)
  /\ LET b == Curved[it]
     IN  /\ L_' = CarryCols(CarryRows(L_, P_, b), b)
         /\ K_x' = CarryRows(K_x, K_x, b)
         /\ P_' = PCols(b)
  /\ it' = it + 1
  /\ UNCHANGED <<pc, layout_vars, list_vars, predict_vars>>

\* The terms of a difference, and the factors of a product, fit.
Fits(p, k) ==
  LET g == K_x[<<p[1], k>>]
      q == P_[<<k, p[2]>>]
  IN  g.ok /\ q.ok /\ g.l = L_[p].l /\ q.r = L_[p].r /\ q.l = g.r

\* P_ = L_ - K_x * P_
Posterior ==
  /\ pc = "posterior"
  /\ it > Len(Curved)
  /\ P_' = [p \in Square |->
       [l |-> L_[p].l, r |-> L_[p].r,
        ok |-> L_[p].ok /\ \A k \in 0 .. ObsCols - 1 : Fits(p, k)]]
  /\ pc' = "updated"
  /\ UNCHANGED <<it, layout_vars, list_vars, predict_vars, L_, K_x>>

\* The locals of a call are gone after it.
Return ==
  /\ pc \in {"predicted", "updated"}
  /\ f_x_final' = <<>> /\ turned' = {}
  /\ P_' = <<>> /\ L_' = <<>> /\ K_x' = <<>>
  /\ it' = 1
  /\ pc' = "ready"
  /\ UNCHANGED <<layout_vars, list_vars>>

Next ==
  \/ EntriesNext \/ InitDynShare \/ BuildState \/ Built \/ ChangeX
  \/ StartPredict \/ PredictVect \/ VectDone \/ PredictCurved \/ Predicted
  \/ StartIteration \/ Transport \/ Gain \/ StartPosterior \/ CarryPosterior
  \/ Posterior \/ Return

Spec == Init /\ [][Next]_vars

-----------------------------------------------------------------------------
(* The indices written out as numbers, against the layout of state_ikfom *)

\* pos, rot, offset_R_L_I, offset_T_L_I, vel, bg, ba, grav
StateIkfom ==
  <<"vect", "SO3", "SO3", "vect", "vect", "vect", "vect", "S2">>
pos == 1
rot == 2
vel == 5
bg == 6
ba == 7
grav == 8

\* ng, na, nbg, nba: the noise is four vectors.
NoiseRows(n) == Segment(3 * (n - 1), 3)

Block(row, rows, col, cols) ==
  [rows |-> Segment(row, rows), cols |-> Segment(col, cols)]

\* What GetF writes, and from what: <<first row, field>>
GetF == {<<0, pos>>, <<3, rot>>, <<12, vel>>}

\* Mutant of DfDx: the bias of the gyroscope for that of the accelerometer
DfDxOtherBias ==
  {<<Block(0, 3, 12, 3), pos, vel>>, <<Block(12, 3, 3, 3), vel, rot>>,
   <<Block(12, 3, 15, 3), vel, ba>>, <<Block(12, 3, 21, 2), vel, grav>>,
   <<Block(3, 3, 15, 3), rot, bg>>}

\* The blocks of DfDx, and the derivative of which field by which they are
DfDx ==
  {<<Block(0, 3, 12, 3), pos, vel>>, <<Block(12, 3, 3, 3), vel, rot>>,
   <<Block(12, 3, 18, 3), vel, ba>>, <<Block(12, 3, 21, 2), vel, grav>>,
   <<Block(3, 3, 15, 3), rot, bg>>}

\* The blocks of DfDw, by ng, na, nbg and nba
DfDw ==
  {<<Block(3, 3, 0, 3), rot, 1>>, <<Block(12, 3, 3, 3), vel, 2>>,
   <<Block(15, 3, 6, 3), bg, 3>>, <<Block(18, 3, 9, 3), ba, 4>>}

\* What PublishImuOdometry takes out of the covariance: <<first, size, fields>>
OdometryBlocks == {<<0, 6, {pos, rot}>>, <<12, 3, {vel}>>}

-----------------------------------------------------------------------------
(* Properties *)

FieldOf(r) == CHOOSE a \in DOMAIN entries : r \in FieldRows(entries[a])

\* How often a row is carried along in one pass: once in a curved field
Curvature(r) == IF entries[FieldOf(r)].kind = "vect" THEN 0 ELSE 1

CarriedTimes(M, n) ==
  \A p \in Square : M[p] = [l |-> n * Curvature(p[1]), r |-> n * Curvature(p[2]),
                            ok |-> TRUE]

\* The covariance an iteration makes its gain of is the propagated one with
\* every curved field carried along once on each side, each by its own factor
\* and no half of a field, although rows and columns are overwritten one block
\* after the other (esekfom.hpp:1784-1834).
TransportedOnce == pc = "carry" /\ it > Len(Curved) => CarriedTimes(P_, 1)

\* The posterior's terms fit: L_ has been carried on both sides, K_x on the
\* left and P_ on the right only, so that in the product each factor occurs as
\* often as in L_ (esekfom.hpp:1906-1968).
PosteriorCarriedOnce == pc = "updated" => CarriedTimes(P_, 2)

\* After the loops of a prediction no row of the Jacobian is left
\* uninitialised, each is made of the rows that f_x returned for its own
\* field, behind an S2 too, and F_x1 turns the curved fields and no other
\* (esekfom.hpp:299-402).
JacobianComplete ==
  pc = "predicted" =>
    \A a \in DOMAIN entries : \A j \in 0 .. DOF[entries[a].kind] - 1 :
      LET r == entries[a].IDX + j
          curved == entries[a].kind # "vect"
      IN  /\ f_x_final[r] = IF curved THEN FieldDims(entries[a])
                                     ELSE {entries[a].DIM + j}
          /\ r \in turned <=> curved

\* The indices the process model, its derivatives and the odometry have as
\* numbers are those of the fields they are meant for, in the layout of
\* state_ikfom: rows count dimensions, columns degrees of freedom
\* (use_ikfom.h:46-92, map_processing.cpp:642-645).
NumbersNameFields ==
  layout = StateIkfom /\ pc = "ready" =>
    /\ \A f \in GetF : Segment(f[1], 3) = FieldDims(entries[f[2]])
    /\ \A b \in DfDx : /\ b[1].rows = FieldDims(entries[b[2]])
                       /\ b[1].cols = FieldRows(entries[b[3]])
    /\ \A b \in DfDw : /\ b[1].rows = FieldDims(entries[b[2]])
                       /\ b[1].cols = NoiseRows(b[3])
    /\ \A o \in OdometryBlocks :
         Segment(o[1], o[2]) = UNION {FieldRows(entries[a]) : a \in o[3]}
=============================================================================
