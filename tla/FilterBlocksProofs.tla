------------------------- MODULE FilterBlocksProofs -------------------------
(***************************************************************************)
(* For every layout of vectors, rotations and directions: the lists hold    *)
(* each field once, the Jacobian is put together from them completely, and  *)
(* the covariance is carried along each curved field once on either side.   *)
(* For the filter's own layout: the numbers in the code name its fields.    *)
(***************************************************************************)
EXTENDS FilterBlocks, TLAPS

Entry == [kind : Kinds, IDX : Nat, DIM : Nat]
Listed == [idx : Nat, dim : Nat]

\* The fields follow one another and leave no row out.
Consecutive(en, d) ==
  /\ en \in Seq(Entry) /\ d \in Nat
  /\ \A a \in 1 .. Len(en) : en[a].IDX + DOF[en[a].kind] <= d
  /\ \A a, b \in 1 .. Len(en) :
       a < b => en[a].IDX + DOF[en[a].kind] <= en[b].IDX
  /\ \A r \in 0 .. d - 1 : \E a \in 1 .. Len(en) : r \in FieldRows(en[a])

Same(v, e) == v.idx = e.IDX /\ v.dim = e.DIM

\* A list has those of the first n fields that are of its kind, in order.
ListOf(list, kind, en, n) ==
  /\ list \in Seq(Listed)
  /\ \A j \in 1 .. Len(list) :
       \E a \in 1 .. n : en[a].kind = kind /\ Same(list[j], en[a])
  /\ \A a \in 1 .. n :
       en[a].kind = kind => \E j \in 1 .. Len(list) : Same(list[j], en[a])
  /\ \A j, k \in 1 .. Len(list) : j < k => list[j].idx < list[k].idx

LayoutInv ==
  /\ layout \in Seq(Kinds) /\ dim \in Nat
  /\ Consecutive(entries, dof)

ListsInv ==
  /\ built \in 0 .. Len(entries)
  /\ pc \notin {"declare", "build"} => built = Len(entries)
  /\ pc = "declare" => built = 0 /\ vect_state = <<>> /\ SO3_state = <<>> /\ S2_state = <<>>
  /\ ListOf(vect_state, "vect", entries, built)
  /\ ListOf(SO3_state, "SO3", entries, built)
  /\ ListOf(S2_state, "S2", entries, built)

Structure == LayoutInv /\ ListsInv

\* A field has two or three rows.
LEMMA EntryFacts ==
  ASSUME NEW e \in Entry
  PROVE  /\ e.kind \in Kinds /\ e.IDX \in Nat /\ e.DIM \in Nat
         /\ DOF[e.kind] \in {2, 3}
BY DEF Entry, DOF

\* How many rows each kind has
LEMMA DOFs == DOF["vect"] = 3 /\ DOF["SO3"] = 3 /\ DOF["S2"] = 2
BY DEF DOF, Kinds

\* There is nothing on a list of no fields.
LEMMA NoList == ASSUME NEW kind, NEW en PROVE ListOf(<<>>, kind, en, 0)
BY DEF ListOf

\* Before the first field there is no row and nothing on a list.
LEMMA InitStructure == Init => Structure
<1> SUFFICES ASSUME Init PROVE Structure
  OBVIOUS
<1>1. layout \in Seq(Kinds)
  BY LayoutsAssumption DEF Init
<1>2. Consecutive(<<>>, 0)
  BY DEF Consecutive
<1> QED
  BY <1>1, <1>2, NoList DEF Init, Structure, LayoutInv, ListsInv

\* Structure is kept by what leaves the layout and the lists alone.
LEMMA StructureUnchanged ==
  ASSUME Structure, UNCHANGED <<layout_vars, list_vars>>,
         pc' = "declare" => pc = "declare",
         \/ pc' \in {"declare", "build"} \/ pc \notin {"declare", "build"}
         \/ built = Len(entries)
  PROVE  Structure'
<1>1. LayoutInv'
  BY DEF Structure, LayoutInv, layout_vars
<1>2. ListsInv'
  BY DEF Structure, ListsInv, layout_vars, list_vars
<1> QED
  BY <1>1, <1>2 DEF Structure

\* A field begins where the last one ended.
LEMMA Append1 ==
  ASSUME NEW en, NEW d, Consecutive(en, d), NEW e \in Entry, e.IDX = d
  PROVE  Consecutive(Append(en, e), d + DOF[e.kind])
<1> DEFINE new == Append(en, e)
           n == Len(en) + 1
<1>1. /\ DOF[e.kind] \in {2, 3} /\ d \in Nat /\ Len(en) \in Nat /\ e.IDX \in Nat
      /\ en \in Seq(Entry)
  BY EntryFacts DEF Consecutive
<1>2. /\ new \in Seq(Entry) /\ Len(new) = n /\ new[n] = e
      /\ \A a \in 1 .. Len(en) : new[a] = en[a] /\ en[a] \in Entry
  BY <1>1
<1>3. \A a \in 1 .. n : a # n => a \in 1 .. Len(en)
  BY <1>1
<1>4. \A a \in 1 .. Len(en) :
        en[a].IDX \in Nat /\ DOF[en[a].kind] \in {2, 3}
        /\ en[a].IDX + DOF[en[a].kind] <= d
  BY <1>2, EntryFacts DEF Consecutive
<1>5. ASSUME NEW a \in 1 .. n
      PROVE  new[a].IDX + DOF[new[a].kind] <= d + DOF[e.kind]
  <2>1. CASE a = n
    BY <1>1, <1>2, <2>1
  <2>2. CASE a # n
    <3> DEFINE x == en[a].IDX
               y == DOF[en[a].kind]
    <3>1. new[a] = en[a] /\ x \in Nat /\ y \in {2, 3} /\ x + y <= d
      BY <1>2, <1>3, <1>4, <2>2
    <3> HIDE DEF x, y
    <3>2. x + y <= d + DOF[e.kind]
      BY <1>1, <3>1
    <3> QED
      BY <3>1, <3>2 DEF x, y
  <2> QED
    BY <2>1, <2>2
<1>6. ASSUME NEW a \in 1 .. n, NEW b \in 1 .. n, a < b
      PROVE  new[a].IDX + DOF[new[a].kind] <= new[b].IDX
  <2>1. a \in 1 .. Len(en) /\ new[a] = en[a]
    BY <1>1, <1>2, <1>6
  <2>2. CASE b = n
    BY <1>2, <1>4, <2>1, <2>2
  <2>3. CASE b # n
    BY <1>2, <1>3, <1>6, <2>1, <2>3 DEF Consecutive
  <2> QED
    BY <2>2, <2>3
<1>7. ASSUME NEW r \in 0 .. (d + DOF[e.kind]) - 1
      PROVE  \E a \in 1 .. n : r \in FieldRows(new[a])
  <2>1. CASE r < d
    <3>1. r \in 0 .. d - 1
      BY <1>1, <2>1
    <3>2. PICK a \in 1 .. Len(en) : r \in FieldRows(en[a])
      BY <3>1 DEF Consecutive
    <3>3. a \in 1 .. n /\ new[a] = en[a]
      BY <1>1, <1>2
    <3> HIDE DEF new, n
    <3> QED
      BY <3>2, <3>3
  <2>2. CASE r >= d
    BY <1>1, <1>2, <2>2 DEF FieldRows, Segment
  <2> QED
    BY <1>1, <2>1, <2>2
<1>8. d + DOF[e.kind] \in Nat
  BY <1>1
<1> HIDE DEF new, n
<1>9. /\ \A a \in 1 .. Len(new) : new[a].IDX + DOF[new[a].kind] <= d + DOF[e.kind]
      /\ \A a, b \in 1 .. Len(new) :
           a < b => new[a].IDX + DOF[new[a].kind] <= new[b].IDX
  BY <1>2, <1>5, <1>6
<1>10. \A r \in 0 .. (d + DOF[e.kind]) - 1 : \E a \in 1 .. Len(new) : r \in FieldRows(new[a])
  BY <1>2, <1>7
<1>11. new \in Seq(Entry)
  BY <1>2
<1>12. Consecutive(new, d + DOF[e.kind])
  BY <1>8, <1>9, <1>10, <1>11 DEF Consecutive
<1> QED
  BY <1>12 DEF new

\* A field more leaves no row out and none to two fields.
LEMMA EntriesNextStructure ==
  ASSUME Structure, EntriesNext
  PROVE  Structure'
<1> DEFINE kind == layout[Len(entries) + 1]
           e == [kind |-> kind, IDX |-> dof, DIM |-> dim]
<1>1. /\ pc = "declare" /\ pc' = pc /\ UNCHANGED <<layout, list_vars>>
      /\ Len(entries) < Len(layout)
      /\ entries' = Append(entries, e) /\ dof' = dof + DOF[kind] /\ dim' = dim + DIM
  BY DEF EntriesNext
<1>2. entries \in Seq(Entry) /\ layout \in Seq(Kinds) /\ dof \in Nat /\ dim \in Nat
  BY DEF Structure, LayoutInv, Consecutive
<1>3. kind \in Kinds
  BY <1>1, <1>2
<1>4. e \in Entry /\ e.kind = kind /\ e.IDX = dof
  BY <1>2, <1>3 DEF Entry
<1>5. Consecutive(entries', dof')
  BY <1>1, <1>4, Append1 DEF Structure, LayoutInv
<1>6. LayoutInv'
  BY <1>1, <1>2, <1>5 DEF LayoutInv, DIM
<1>7. ListsInv'
  <2>1. built' = 0 /\ vect_state' = <<>> /\ SO3_state' = <<>> /\ S2_state' = <<>>
    BY <1>1 DEF Structure, ListsInv, list_vars
  <2>2. Len(entries') \in Nat
    BY <1>5 DEF Consecutive
  <2> QED
    BY <1>1, <2>1, <2>2, NoList DEF ListsInv
<1> QED
  BY <1>6, <1>7 DEF Structure

\* Behind a field there is none that begins before it.
LEMMA Later ==
  ASSUME NEW en, NEW d, Consecutive(en, d),
         NEW a \in 1 .. Len(en), NEW b \in 1 .. Len(en), a < b
  PROVE  en[a].IDX < en[b].IDX
<1>1. en \in Seq(Entry) /\ en[a] \in Entry /\ en[b] \in Entry
  BY DEF Consecutive
<1>2. en[a].IDX + DOF[en[a].kind] <= en[b].IDX
  BY DEF Consecutive
<1> QED
  BY <1>1, <1>2, EntryFacts

\* The next field goes to the end of its list, and changes no other.
LEMMA WithLists ==
  ASSUME NEW en, NEW d, Consecutive(en, d), NEW n \in Nat, n < Len(en),
         NEW kind, NEW list, ListOf(list, kind, en, n)
  PROVE  ListOf(With(list, kind, en[n + 1]), kind, en, n + 1)
<1> DEFINE e == en[n + 1]
           longer == With(list, kind, e)
<1>1. /\ n + 1 \in 1 .. Len(en) /\ n \in Nat /\ en \in Seq(Entry) /\ e \in Entry
      /\ list \in Seq(Listed) /\ Len(list) \in Nat
  BY DEF ListOf, Consecutive
<1>2. \A a \in 1 .. n + 1 : a # n + 1 => a \in 1 .. n
  OBVIOUS
<1>3. CASE e.kind # kind
  <2>1. longer = list
    BY <1>3 DEF With
  <2>2. \A a \in 1 .. n : a \in 1 .. n + 1
    OBVIOUS
  <2> QED
    BY <1>2, <1>3, <2>1, <2>2 DEF ListOf
<1>4. CASE e.kind = kind
  <2> DEFINE new == [idx |-> e.IDX, dim |-> e.DIM]
             m == Len(list) + 1
  <2>1. new \in Listed /\ longer = Append(list, new) /\ Same(new, e)
    BY <1>1, <1>4, EntryFacts DEF With, Listed, Same
  <2>2. /\ longer \in Seq(Listed) /\ Len(longer) = m /\ longer[m] = new
        /\ \A j \in 1 .. Len(list) : longer[j] = list[j]
    BY <1>1, <2>1
  <2>3. \A j \in 1 .. m : j # m => j \in 1 .. Len(list)
    BY <1>1
  <2>4. ASSUME NEW j \in 1 .. m
        PROVE  \E a \in 1 .. n + 1 : en[a].kind = kind /\ Same(longer[j], en[a])
    <3>1. CASE j = m
      BY <1>1, <1>4, <2>1, <2>2, <3>1
    <3>2. CASE j # m
      <4>1. PICK a \in 1 .. n : en[a].kind = kind /\ Same(list[j], en[a])
        BY <2>3, <3>2 DEF ListOf
      <4> QED
        BY <2>2, <2>3, <3>2, <4>1
    <3> QED
      BY <3>1, <3>2
  <2>5. ASSUME NEW a \in 1 .. n + 1, en[a].kind = kind
        PROVE  \E j \in 1 .. m : Same(longer[j], en[a])
    <3>1. CASE a = n + 1
      BY <1>1, <2>1, <2>2, <3>1
    <3>2. CASE a # n + 1
      <4>1. PICK j \in 1 .. Len(list) : Same(list[j], en[a])
        BY <1>2, <2>5, <3>2 DEF ListOf
      <4> QED
        BY <1>1, <2>2, <4>1
    <3> QED
      BY <3>1, <3>2
  <2>6. ASSUME NEW j \in 1 .. Len(list)
        PROVE  list[j].idx < new.idx
    <3>1. PICK a \in 1 .. n : en[a].kind = kind /\ Same(list[j], en[a])
      BY DEF ListOf
    <3>2. a \in 1 .. Len(en) /\ a < n + 1
      BY <1>1
    <3>3. en[a].IDX < e.IDX
      BY <1>1, <3>2, Later
    <3> QED
      BY <3>1, <3>3 DEF Same
  <2>7. ASSUME NEW j \in 1 .. m, NEW k \in 1 .. m, j < k
        PROVE  longer[j].idx < longer[k].idx
    <3>1. j \in 1 .. Len(list) /\ longer[j] = list[j]
      BY <1>1, <2>2, <2>7
    <3>2. CASE k = m
      BY <2>2, <2>6, <3>1, <3>2
    <3>3. CASE k # m
      BY <2>2, <2>3, <2>7, <3>1, <3>3 DEF ListOf
    <3> QED
      BY <3>2, <3>3
  <2> QED
    BY <2>2, <2>4, <2>5, <2>7 DEF ListOf
<1> QED
  BY <1>3, <1>4

\* A pass over a field puts it on its list.
LEMMA BuildStateStructure ==
  ASSUME Structure, BuildState
  PROVE  Structure'
<1>1. /\ pc = "build" /\ pc' = pc /\ UNCHANGED layout_vars
      /\ built < Len(entries) /\ built' = built + 1
      /\ S2_state' = With(S2_state, "S2", entries[built + 1])
      /\ SO3_state' = With(SO3_state, "SO3", entries[built + 1])
      /\ vect_state' = With(vect_state, "vect", entries[built + 1])
  BY DEF BuildState
<1>2. /\ built \in Nat /\ Len(entries) \in Nat /\ built' \in 0 .. Len(entries)
      /\ Consecutive(entries, dof)
  BY <1>1 DEF Structure, ListsInv, LayoutInv, Consecutive
<1>3. /\ ListOf(S2_state', "S2", entries, built')
      /\ ListOf(SO3_state', "SO3", entries, built')
      /\ ListOf(vect_state', "vect", entries, built')
  BY <1>1, <1>2, WithLists DEF Structure, ListsInv
<1>4. ListsInv'
  BY <1>1, <1>2, <1>3 DEF ListsInv, layout_vars
<1>5. LayoutInv'
  BY <1>1 DEF Structure, LayoutInv, layout_vars
<1> QED
  BY <1>4, <1>5 DEF Structure

\* A state without lists has them built from the first field.
LEMMA ChangeXStructure ==
  ASSUME Structure, ChangeX
  PROVE  Structure'
<1>1. LayoutInv'
  BY DEF Structure, LayoutInv, ChangeX, layout_vars
<1>2. Len(entries) \in Nat
  BY DEF Structure, LayoutInv, Consecutive
<1>3. ListsInv'
  BY <1>2, NoList DEF ListsInv, ChangeX, layout_vars
<1> QED
  BY <1>1, <1>3 DEF Structure

-----------------------------------------------------------------------------
(* The curved fields, one block each *)

Blocks == 1 .. Len(SO3_state) + Len(S2_state)

\* Block j is that of field a.
Of(j, a) ==
  /\ entries[a].kind # "vect"
  /\ Curved[j].idx = entries[a].IDX /\ Curved[j].dim = entries[a].DIM
  /\ Curved[j].size = DOF[entries[a].kind]

\* No row is two fields'.
LEMMA FieldsDisjoint ==
  ASSUME NEW en, NEW d, Consecutive(en, d),
         NEW a \in 1 .. Len(en), NEW b \in 1 .. Len(en), a # b, NEW r,
         r \in FieldRows(en[a])
  PROVE  r \notin FieldRows(en[b])
<1>1. /\ en[a] \in Entry /\ en[b] \in Entry
      /\ a < b => en[a].IDX + DOF[en[a].kind] <= en[b].IDX
      /\ b < a => en[b].IDX + DOF[en[b].kind] <= en[a].IDX
  BY DEF Consecutive
<1>2. a < b \/ b < a
  OBVIOUS
<1>3. /\ en[a].IDX \in Nat /\ DOF[en[a].kind] \in {2, 3}
      /\ en[b].IDX \in Nat /\ DOF[en[b].kind] \in {2, 3}
  BY <1>1, EntryFacts
<1> DEFINE x == en[a].IDX
           y == en[b].IDX
           u == DOF[en[a].kind]
           v == DOF[en[b].kind]
<1>4. /\ x \in Nat /\ y \in Nat /\ u \in {2, 3} /\ v \in {2, 3}
      /\ x + u <= y \/ y + v <= x
      /\ r \in x .. x + u - 1
  BY <1>1, <1>2, <1>3 DEF FieldRows, Segment
<1> HIDE DEF x, y, u, v
<1>5. r \notin y .. y + v - 1
  BY <1>4
<1> QED
  BY <1>5 DEF FieldRows, Segment, y, v

\* The loops' blocks are the curved fields, each once.
LEMMA CurvedFacts ==
  ASSUME Structure, built = Len(entries)
  PROVE  /\ Len(SO3_state) + Len(S2_state) \in Nat
         /\ Len(Curved) = Len(SO3_state) + Len(S2_state)
         /\ \A j \in Blocks : \E a \in 1 .. Len(entries) : Of(j, a)
         /\ \A a \in 1 .. Len(entries) :
              entries[a].kind # "vect" => \E j \in Blocks : Of(j, a)
         /\ \A j, k \in Blocks : j # k =>
              \A r \in BlockRows(Curved[j]) : r \notin BlockRows(Curved[k])
<1> DEFINE m == Len(SO3_state)
           n == Len(S2_state)
<1>1. /\ SO3_state \in Seq(Listed) /\ S2_state \in Seq(Listed)
      /\ m \in Nat /\ n \in Nat /\ entries \in Seq(Entry)
      /\ ListOf(SO3_state, "SO3", entries, Len(entries))
      /\ ListOf(S2_state, "S2", entries, Len(entries))
      /\ Consecutive(entries, dof)
  BY DEF Structure, ListsInv, LayoutInv, ListOf, Consecutive
<1>2. \A j \in 1 .. m :
        /\ j \in Blocks
        /\ Curved[j].idx = SO3_state[j].idx /\ Curved[j].dim = SO3_state[j].dim
        /\ Curved[j].size = 3
  <2> SUFFICES ASSUME NEW j \in 1 .. m
               PROVE  /\ j \in Blocks
                      /\ Curved[j].idx = SO3_state[j].idx
                      /\ Curved[j].dim = SO3_state[j].dim /\ Curved[j].size = 3
    OBVIOUS
  <2>1. j \in 1 .. m + n /\ j <= m
    BY <1>1
  <2>2. Curved[j] = [idx |-> SO3_state[j].idx, dim |-> SO3_state[j].dim, size |-> 3]
    BY <2>1 DEF Curved
  <2> QED
    BY <2>1, <2>2 DEF Blocks
<1>3. \A j \in 1 .. n :
        /\ m + j \in Blocks
        /\ Curved[m + j].idx = S2_state[j].idx /\ Curved[m + j].dim = S2_state[j].dim
        /\ Curved[m + j].size = 2
  <2> SUFFICES ASSUME NEW j \in 1 .. n
               PROVE  /\ m + j \in Blocks
                      /\ Curved[m + j].idx = S2_state[j].idx
                      /\ Curved[m + j].dim = S2_state[j].dim
                      /\ Curved[m + j].size = 2
    OBVIOUS
  <2>1. m + j \in 1 .. m + n /\ ~(m + j <= m) /\ (m + j) - m = j
    BY <1>1
  <2>2. Curved[m + j] = [idx |-> S2_state[j].idx, dim |-> S2_state[j].dim, size |-> 2]
    BY <2>1 DEF Curved
  <2> QED
    BY <2>1, <2>2 DEF Blocks
<1>4. \A j \in Blocks : j \in 1 .. m \/ \E k \in 1 .. n : j = m + k
  <2> SUFFICES ASSUME NEW j \in Blocks, j > m PROVE \E k \in 1 .. n : j = m + k
    BY <1>1 DEF Blocks
  <2>1. j - m \in 1 .. n /\ j = m + (j - m)
    BY <1>1 DEF Blocks
  <2> QED
    BY <2>1
<1>5. Len(Curved) = m + n
  <2>1. m + n \in Nat
    BY <1>1
  <2> QED
    BY <2>1 DEF Curved
<1>6. ASSUME NEW j \in 1 .. m
      PROVE  \E a \in 1 .. Len(entries) : entries[a].kind = "SO3" /\ Of(j, a)
  <2>1. PICK a \in 1 .. Len(entries) :
          entries[a].kind = "SO3" /\ Same(SO3_state[j], entries[a])
    BY <1>1 DEF ListOf
  <2>2. Of(j, a)
    BY <1>2, <2>1, DOFs DEF Same, Of
  <2> QED
    BY <2>1, <2>2
<1>7. ASSUME NEW j \in 1 .. n
      PROVE  \E a \in 1 .. Len(entries) : entries[a].kind = "S2" /\ Of(m + j, a)
  <2>1. PICK a \in 1 .. Len(entries) :
          entries[a].kind = "S2" /\ Same(S2_state[j], entries[a])
    BY <1>1 DEF ListOf
  <2>2. Of(m + j, a)
    BY <1>3, <2>1, DOFs DEF Same, Of
  <2> QED
    BY <2>1, <2>2
<1>8. ASSUME NEW j \in Blocks PROVE \E a \in 1 .. Len(entries) : Of(j, a)
  BY <1>4, <1>6, <1>7
<1>9. ASSUME NEW a \in 1 .. Len(entries), entries[a].kind # "vect"
      PROVE  \E j \in Blocks : Of(j, a)
  <2>1. entries[a].kind \in {"SO3", "S2"}
    BY <1>1, <1>9, EntryFacts DEF Kinds
  <2>2. CASE entries[a].kind = "SO3"
    <3>1. PICK j \in 1 .. m : Same(SO3_state[j], entries[a])
      BY <1>1, <2>2 DEF ListOf
    <3>2. Of(j, a)
      BY <1>2, <2>2, <3>1, DOFs DEF Same, Of
    <3> QED
      BY <1>2, <3>2
  <2>3. CASE entries[a].kind = "S2"
    <3>1. PICK j \in 1 .. n : Same(S2_state[j], entries[a])
      BY <1>1, <2>3 DEF ListOf
    <3>2. Of(m + j, a)
      BY <1>3, <2>3, <3>1, DOFs DEF Same, Of
    <3> QED
      BY <1>3, <3>2
  <2> QED
    BY <2>1, <2>2, <2>3
<1>10. ASSUME NEW j \in Blocks, NEW a \in 1 .. Len(entries), Of(j, a)
       PROVE  BlockRows(Curved[j]) = FieldRows(entries[a])
  BY <1>10 DEF Of, BlockRows, FieldRows
<1>11. ASSUME NEW j \in Blocks, NEW k \in Blocks, j < k,
              NEW a \in 1 .. Len(entries), Of(j, a), Of(k, a)
       PROVE  FALSE
  <2>1. CASE entries[a].kind = "SO3"
    <3>1. k \in 1 .. m /\ j \in 1 .. m
      <4>1. Curved[j].size = 3 /\ Curved[k].size = 3
        BY <1>11, <2>1, DOFs DEF Of
      <4>2. \A q \in 1 .. n : Curved[m + q].size = 2
        BY <1>3
      <4> QED
        BY <1>4, <1>11, <4>1, <4>2
    <3>2. SO3_state[j].idx < SO3_state[k].idx
      BY <1>1, <1>11, <3>1 DEF ListOf
    <3>3. SO3_state[j].idx = SO3_state[k].idx
      BY <1>2, <1>11, <3>1 DEF Of
    <3>4. SO3_state[k] \in Listed
      BY <1>1, <3>1
    <3>5. SO3_state[k].idx \in Nat
      BY <3>4 DEF Listed
    <3> QED
      BY <3>2, <3>3, <3>5
  <2>2. CASE entries[a].kind = "S2"
    <3>1. j \notin 1 .. m /\ k \notin 1 .. m
      <4>1. Curved[j].size = 2 /\ Curved[k].size = 2
        BY <1>11, <2>2, DOFs DEF Of
      <4>2. \A q \in 1 .. m : Curved[q].size = 3
        BY <1>2
      <4> QED
        BY <4>1, <4>2
    <3>2. PICK u \in 1 .. n : j = m + u
      BY <1>4, <3>1
    <3>3. PICK v \in 1 .. n : k = m + v
      BY <1>4, <3>1
    <3>4. u < v
      BY <1>1, <1>11, <3>2, <3>3
    <3>5. S2_state[u].idx < S2_state[v].idx
      BY <1>1, <3>4 DEF ListOf
    <3>6. S2_state[u].idx = S2_state[v].idx
      BY <1>3, <1>11, <3>2, <3>3 DEF Of
    <3>7. S2_state[v] \in Listed
      BY <1>1
    <3>8. S2_state[v].idx \in Nat
      BY <3>7 DEF Listed
    <3> QED
      BY <3>5, <3>6, <3>8
  <2> QED
    BY <1>1, <1>11, <2>1, <2>2, EntryFacts DEF Of, Kinds
<1>12. ASSUME NEW j \in Blocks, NEW k \in Blocks, j # k,
              NEW r \in BlockRows(Curved[j])
       PROVE  r \notin BlockRows(Curved[k])
  <2>1. PICK a \in 1 .. Len(entries) : Of(j, a)
    BY <1>8
  <2>2. PICK b \in 1 .. Len(entries) : Of(k, b)
    BY <1>8
  <2>3. a # b
    <3>1. j \in Int /\ k \in Int
      BY DEF Blocks
    <3> QED
      BY <1>11, <1>12, <2>1, <2>2, <3>1
  <2>4. r \in FieldRows(entries[a])
    BY <1>10, <2>1
  <2> QED
    BY <1>1, <1>10, <2>2, <2>3, <2>4, FieldsDisjoint
<1> HIDE DEF m, n
<1> QED
  BY <1>1, <1>5, <1>8, <1>9, <1>12 DEF m, n

-----------------------------------------------------------------------------
(* Carrying a covariance *)

\* A matrix whose rows have been carried along as often as f says, and its
\* columns as often as g says
Mat(f, g, X, Y) == [p \in X \X Y |-> [l |-> f[p[1]], r |-> g[p[2]], ok |-> TRUE]]

\* 1 for the rows of the blocks before block n
Done(n) == [r \in Rows |->
  IF \E j \in Blocks : j < n /\ r \in BlockRows(Curved[j]) THEN 1 ELSE 0]

Bend == [r \in Rows |-> Curvature(r)]
Plus(f, g) == [r \in Rows |-> f[r] + g[r]]

\* A block is one field's, its rows are rows, none is done and all are curved.
LEMMA BlockFacts ==
  ASSUME Structure, built = Len(entries), NEW n \in Blocks
  PROVE  /\ OwnRows(Curved[n])
         /\ \A r \in BlockRows(Curved[n]) :
              r \in Rows /\ Done(n)[r] = 0 /\ Bend[r] = 1
<1> DEFINE b == Curved[n]
<1>1. PICK a \in 1 .. Len(entries) : Of(n, a)
  BY CurvedFacts
<1>2. BlockRows(b) = FieldRows(entries[a])
  BY <1>1 DEF Of, BlockRows, FieldRows
<1>3. entries \in Seq(Entry) /\ Consecutive(entries, dof) /\ dof \in Nat
  BY DEF Structure, LayoutInv, Consecutive
<1>4. OwnRows(b)
  BY <1>2, <1>3 DEF OwnRows
<1>5. ASSUME NEW r \in BlockRows(b)
      PROVE  r \in Rows /\ Done(n)[r] = 0 /\ Bend[r] = 1
  <2>1. r \in Rows
    <3> DEFINE x == entries[a].IDX
               u == DOF[entries[a].kind]
    <3>1. x \in Nat /\ u \in {2, 3} /\ x + u <= dof /\ r \in x .. x + u - 1
      BY <1>2, <1>3, <1>5, EntryFacts DEF Consecutive, FieldRows, Segment
    <3> HIDE DEF x, u
    <3> QED
      BY <1>3, <3>1 DEF Rows
  <2>2. ~\E j \in Blocks : j < n /\ r \in BlockRows(Curved[j])
    <3> SUFFICES ASSUME NEW j \in Blocks, j < n, r \in BlockRows(Curved[j])
                 PROVE  FALSE
      OBVIOUS
    <3>1. j # n
      BY DEF Blocks
    <3> QED
      BY <1>5, <3>1, CurvedFacts
  <2>3. FieldOf(r) = a
    <3>1. a \in DOMAIN entries /\ r \in FieldRows(entries[a])
      BY <1>2, <1>3, <1>5
    <3>2. ASSUME NEW c \in DOMAIN entries, r \in FieldRows(entries[c]) PROVE c = a
      <4>1. a \in 1 .. Len(entries) /\ c \in 1 .. Len(entries)
        BY <1>3
      <4> QED
        BY <1>3, <3>1, <3>2, <4>1, FieldsDisjoint
    <3> QED
      BY <3>1, <3>2 DEF FieldOf
  <2>4. Curvature(r) = 1
    BY <1>1, <2>3 DEF Curvature, Of
  <2> QED
    BY <2>1, <2>2, <2>4 DEF Done, Bend
<1> QED
  BY <1>4, <1>5

\* Nothing is done before the first block, and a block more after each.
LEMMA DoneFacts ==
  ASSUME Structure, built = Len(entries)
  PROVE  /\ Done(1) = [r \in Rows |-> 0]
         /\ \A n \in Blocks : Done(n + 1) =
              [r \in Rows |-> IF r \in BlockRows(Curved[n]) THEN Done(n)[r] + 1
                                                            ELSE Done(n)[r]]
         /\ \A n \in Nat : n > Len(Curved) => Done(n) = Bend
<1>1. Done(1) = [r \in Rows |-> 0]
  BY DEF Done, Blocks
<1>2. ASSUME NEW n \in Blocks
      PROVE  Done(n + 1) =
               [r \in Rows |-> IF r \in BlockRows(Curved[n]) THEN Done(n)[r] + 1
                                                             ELSE Done(n)[r]]
  <2> SUFFICES ASSUME NEW r \in Rows
               PROVE  Done(n + 1)[r] = IF r \in BlockRows(Curved[n])
                                       THEN Done(n)[r] + 1 ELSE Done(n)[r]
    BY DEF Done
  <2>1. n \in Int /\ \A j \in Blocks : j \in Int /\ (j < n + 1 <=> j < n \/ j = n)
    BY DEF Blocks
  <2>2. CASE r \in BlockRows(Curved[n])
    <3>1. Done(n)[r] = 0
      BY <2>2, BlockFacts
    <3>2. Done(n + 1)[r] = 1
      BY <2>1, <2>2 DEF Done
    <3> QED
      BY <2>2, <3>1, <3>2
  <2>3. CASE r \notin BlockRows(Curved[n])
    BY <2>1, <2>3 DEF Done
  <2> QED
    BY <2>2, <2>3
<1>3. ASSUME NEW n \in Nat, n > Len(Curved)
      PROVE  Done(n) = Bend
  <2> SUFFICES ASSUME NEW r \in Rows PROVE Done(n)[r] = Bend[r]
    BY DEF Done, Bend
  <2>1. \A j \in Blocks : j < n
    BY <1>3, CurvedFacts DEF Blocks
  <2>2. PICK a \in 1 .. Len(entries) : r \in FieldRows(entries[a])
    BY DEF Structure, LayoutInv, Consecutive, Rows
  <2>3. FieldOf(r) \in 1 .. Len(entries) /\ r \in FieldRows(entries[FieldOf(r)])
    <3>1. entries \in Seq(Entry)
      BY DEF Structure, LayoutInv, Consecutive
    <3>2. \E c \in DOMAIN entries : r \in FieldRows(entries[c])
      BY <2>2, <3>1
    <3> QED
      BY <3>1, <3>2 DEF FieldOf
  <2>4. CASE entries[FieldOf(r)].kind = "vect"
    <3>1. Curvature(r) = 0
      BY <2>4 DEF Curvature
    <3>2. Bend[r] # 1
      BY <3>1 DEF Bend
    <3>3. ~\E j \in Blocks : r \in BlockRows(Curved[j])
      BY <3>2, BlockFacts
    <3> QED
      BY <3>1, <3>3 DEF Done, Bend
  <2>5. CASE entries[FieldOf(r)].kind # "vect"
    <3>1. PICK j \in Blocks : Of(j, FieldOf(r))
      BY <2>3, <2>5, CurvedFacts
    <3>2. r \in BlockRows(Curved[j])
      BY <2>3, <3>1 DEF Of, BlockRows, FieldRows
    <3> QED
      BY <2>1, <2>5, <3>2 DEF Done, Bend, Curvature
  <2> QED
    BY <2>4, <2>5
<1> QED
  BY <1>1, <1>2, <1>3

\* Rows multiplied: T's rows in the block become the factor times S's, and S's
\* are as T's there.
LEMMA RowsCarried ==
  ASSUME NEW X, NEW Y, NEW f, NEW h, NEW g, NEW b, OwnRows(b),
         \A r \in BlockRows(b) : r \in X /\ h[r] = f[r]
                                 /\ \A q \in BlockRows(b) : h[q] = h[r]
  PROVE  CarryRows(Mat(f, g, X, Y), Mat(h, g, X, Y), b) =
           Mat([r \in X |-> IF r \in BlockRows(b) THEN f[r] + 1 ELSE f[r]], g, X, Y)
<1> DEFINE T == Mat(f, g, X, Y)
           S == Mat(h, g, X, Y)
           k == [r \in X |-> IF r \in BlockRows(b) THEN f[r] + 1 ELSE f[r]]
<1>1. DOMAIN T = X \X Y
  BY DEF Mat
<1> SUFFICES ASSUME NEW p \in X \X Y
             PROVE  CarryRows(T, S, b)[p] = [l |-> k[p[1]], r |-> g[p[2]], ok |-> TRUE]
  BY <1>1 DEF CarryRows, Mat
<1>2. p[1] \in X /\ p[2] \in Y
  OBVIOUS
<1>3. CASE p[1] \notin BlockRows(b)
  BY <1>1, <1>2, <1>3 DEF CarryRows, Mat
<1>4. CASE p[1] \in BlockRows(b)
  <2>1. Times(S, p, BlockRows(b) \X {p[2]}, OwnRows(b))
    <3> SUFFICES ASSUME NEW q \in BlockRows(b) \X {p[2]}
                 PROVE  S[q].ok /\ S[q].l = S[p].l /\ S[q].r = S[p].r
      BY DEF Times
    <3>1. q \in X \X Y /\ q[2] = p[2] /\ q[1] \in BlockRows(b)
      BY <1>2
    <3>2. S[q] = [l |-> h[q[1]], r |-> g[q[2]], ok |-> TRUE]
      BY <3>1 DEF Mat
    <3>3. S[p] = [l |-> h[p[1]], r |-> g[p[2]], ok |-> TRUE]
      BY DEF Mat
    <3>4. h[q[1]] = h[p[1]]
      BY <1>4, <3>1
    <3> QED
      BY <3>1, <3>2, <3>3, <3>4
  <2>2. S[p].l = f[p[1]] /\ S[p].r = g[p[2]]
    BY <1>4 DEF Mat
  <2> QED
    BY <1>1, <1>2, <1>4, <2>1, <2>2 DEF CarryRows
<1> QED
  BY <1>3, <1>4

\* Columns multiplied
LEMMA ColsCarried ==
  ASSUME NEW X, NEW Y, NEW f, NEW g, NEW b, OwnRows(b),
         \A c \in BlockRows(b) : c \in Y /\ \A q \in BlockRows(b) : g[q] = g[c]
  PROVE  CarryCols(Mat(f, g, X, Y), b) =
           Mat(f, [c \in Y |-> IF c \in BlockRows(b) THEN g[c] + 1 ELSE g[c]], X, Y)
<1> DEFINE T == Mat(f, g, X, Y)
           k == [c \in Y |-> IF c \in BlockRows(b) THEN g[c] + 1 ELSE g[c]]
<1>1. DOMAIN T = X \X Y
  BY DEF Mat
<1> SUFFICES ASSUME NEW p \in X \X Y
             PROVE  CarryCols(T, b)[p] = [l |-> f[p[1]], r |-> k[p[2]], ok |-> TRUE]
  BY <1>1 DEF CarryCols, Mat
<1>2. p[1] \in X /\ p[2] \in Y
  OBVIOUS
<1>3. CASE p[2] \notin BlockRows(b)
  BY <1>1, <1>2, <1>3 DEF CarryCols, Mat
<1>4. CASE p[2] \in BlockRows(b)
  <2>1. Times(T, p, {p[1]} \X BlockRows(b), OwnRows(b))
    <3> SUFFICES ASSUME NEW q \in {p[1]} \X BlockRows(b)
                 PROVE  T[q].ok /\ T[q].l = T[p].l /\ T[q].r = T[p].r
      BY DEF Times
    <3>1. q \in X \X Y /\ q[1] = p[1] /\ q[2] \in BlockRows(b)
      BY <1>2
    <3>2. T[q] = [l |-> f[q[1]], r |-> g[q[2]], ok |-> TRUE]
      BY <3>1 DEF Mat
    <3>3. T[p] = [l |-> f[p[1]], r |-> g[p[2]], ok |-> TRUE]
      BY DEF Mat
    <3>4. g[q[2]] = g[p[2]]
      BY <1>4, <3>1
    <3> QED
      BY <3>1, <3>2, <3>3, <3>4
  <2>2. T[p].l = f[p[1]] /\ T[p].r = g[p[2]]
    BY DEF Mat
  <2> QED
    BY <1>1, <1>2, <1>4, <2>1, <2>2 DEF CarryCols
<1> QED
  BY <1>3, <1>4

-----------------------------------------------------------------------------
(* The invariant *)

Cols == 0 .. ObsCols - 1

\* The covariances on their way through an iteration
CarryInv ==
  /\ pc \in {"carry", "judge", "posterior"} => ObsCols <= dof
  /\ pc \in {"carry", "posterior"} => it \in Nat /\ 1 <= it /\ it <= Len(Curved) + 1
  /\ pc = "carry" => P_ = Mat(Done(it), Done(it), Rows, Rows)
  /\ pc = "judge" => /\ P_ = Mat(Bend, Bend, Rows, Rows)
                     /\ K_x = Mat(Bend, Bend, Rows, Cols)
  /\ pc = "posterior" =>
       /\ L_ = Mat(Plus(Bend, Done(it)), Plus(Bend, Done(it)), Rows, Rows)
       /\ K_x = Mat(Plus(Bend, Done(it)), Bend, Rows, Cols)
       /\ P_ = Mat(Bend, Plus(Bend, Done(it)), Rows, Rows)
  /\ pc = "updated" => P_ = Mat(Plus(Bend, Bend), Plus(Bend, Bend), Rows, Rows)

\* The rows of the Jacobian that the loops have been through
VectTo(F, n) ==
  \A j \in 1 .. Len(vect_state) : j < n =>
    \A r \in Segment(vect_state[j].idx, 3) :
      F[r] = {vect_state[j].dim + (r - vect_state[j].idx)}
CurvedTo(F, n) ==
  \A j \in Blocks : j < n => \A r \in BlockRows(Curved[j]) :
    F[r] = Segment(Curved[j].dim, DIM)

JacobianInv ==
  /\ pc \in {"vect", "curved"} => it \in Nat /\ it >= 1
  /\ pc = "vect" => /\ VectTo(f_x_final, it)
                    /\ turned = {}
  /\ pc = "curved" =>
       /\ VectTo(f_x_final, Len(vect_state) + 1) /\ CurvedTo(f_x_final, it)
       /\ turned = {r \in Rows : Done(it)[r] = 1}
  /\ JacobianComplete

IInv == Structure /\ CarryInv /\ JacobianInv

\* What is defined by the layout and the lists stays with them.
LEMMA Frame ==
  ASSUME UNCHANGED <<layout_vars, list_vars>>
  PROVE  /\ Rows' = Rows /\ Curved' = Curved /\ Blocks' = Blocks /\ Bend' = Bend
         /\ Done(it)' = Done(it') /\ entries' = entries /\ vect_state' = vect_state
         /\ dof' = dof /\ built' = built
<1>1. /\ entries' = entries /\ dof' = dof /\ built' = built
      /\ vect_state' = vect_state /\ SO3_state' = SO3_state /\ S2_state' = S2_state
  BY DEF layout_vars, list_vars
<1>2. Rows' = Rows
  BY <1>1 DEF Rows
<1>3. Curved' = Curved /\ Blocks' = Blocks
  BY <1>1 DEF Curved, Blocks
<1>4. Bend' = Bend
  BY <1>1, <1>2 DEF Bend, Curvature, FieldOf, FieldRows
<1>5. Done(it)' = Done(it')
  BY <1>2, <1>3 DEF Done
<1> QED
  BY <1>1, <1>2, <1>3, <1>4, <1>5

\* A row is carried along once or never.
LEMMA BendNat ==
  ASSUME NEW r \in Rows
  PROVE  Bend[r] \in 0 .. 1 /\ Bend[r] = Curvature(r)
BY DEF Bend, Curvature

\* An iteration starts with what was propagated.
LEMMA StartIterationInv ==
  ASSUME IInv, StartIteration
  PROVE  CarryInv'
<1>1. /\ pc' = "carry" /\ it' = 1 /\ P_' = Propagated /\ ObsCols <= dof
      /\ UNCHANGED <<layout_vars, list_vars>> /\ pc \notin {"declare", "build"}
  BY DEF StartIteration
<1>2. built = Len(entries)
  BY <1>1 DEF IInv, Structure, ListsInv
<1>3. Done(1) = [r \in Rows |-> 0] /\ Len(Curved) \in Nat
  BY <1>2, DoneFacts, CurvedFacts DEF IInv
<1>4. P_' = Mat(Done(1), Done(1), Rows, Rows)
  BY <1>1, <1>3 DEF Propagated, Square, Mat
<1> QED
  BY <1>1, <1>3, <1>4, Frame DEF CarryInv

\* One more block is carried along, on both sides.
LEMMA TransportInv ==
  ASSUME IInv, Transport
  PROVE  CarryInv'
<1> DEFINE b == Curved[it]
           X == Rows
           f == Done(it)
           g == Done(it + 1)
<1>1. /\ pc = "carry" /\ pc' = pc /\ it <= Len(Curved) /\ it' = it + 1
      /\ P_' = CarryCols(CarryRows(P_, P_, b), b)
      /\ UNCHANGED <<layout_vars, list_vars>>
  BY DEF Transport, Transported
<1>2. /\ built = Len(entries) /\ Structure /\ ObsCols <= dof
      /\ it \in Nat /\ 1 <= it /\ P_ = Mat(f, f, X, X)
  BY <1>1 DEF IInv, Structure, ListsInv, CarryInv
<1>3. /\ it \in Blocks /\ Len(Curved) \in Nat
  BY <1>1, <1>2, CurvedFacts DEF Blocks
<1>4. /\ OwnRows(b)
      /\ \A r \in BlockRows(b) : r \in X /\ f[r] = 0
      /\ g = [r \in X |-> IF r \in BlockRows(b) THEN f[r] + 1 ELSE f[r]]
  BY <1>2, <1>3, BlockFacts, DoneFacts
<1> HIDE DEF b, X, f, g
<1>5. CarryRows(P_, P_, b) = Mat(g, f, X, X)
  BY <1>2, <1>4, RowsCarried
<1>6. CarryCols(Mat(g, f, X, X), b) = Mat(g, g, X, X)
  BY <1>4, ColsCarried
<1>7. P_' = Mat(g, g, X, X)
  BY <1>1, <1>5, <1>6
<1>8. it' \in Nat /\ 1 <= it' /\ it' <= Len(Curved) + 1
  BY <1>1, <1>2, <1>3
<1> QED
  BY <1>1, <1>2, <1>7, <1>8, Frame DEF CarryInv, g, X

\* The gain has P_'s first columns, all carried along.
LEMMA GainInv ==
  ASSUME IInv, Gain
  PROVE  CarryInv'
<1>1. /\ pc = "carry" /\ pc' = "judge" /\ it > Len(Curved)
      /\ K_x' = [p \in Rows \X Cols |-> P_[p]] /\ P_' = P_
      /\ UNCHANGED <<layout_vars, list_vars>>
  BY DEF Gain, Cols
<1>2. /\ built = Len(entries) /\ Structure /\ ObsCols <= dof
      /\ it \in Nat /\ P_ = Mat(Done(it), Done(it), Rows, Rows) /\ dof \in Nat
  BY <1>1 DEF IInv, Structure, ListsInv, LayoutInv, Consecutive, CarryInv
<1>3. Done(it) = Bend
  BY <1>1, <1>2, DoneFacts
<1>4. P_' = Mat(Bend, Bend, Rows, Rows)
  BY <1>1, <1>2, <1>3
<1>5. \A c \in Cols : c \in Rows
  BY <1>2, LayoutsAssumption DEF Cols, Rows
<1>6. K_x' = Mat(Bend, Bend, Rows, Cols)
  BY <1>1, <1>2, <1>3, <1>5 DEF Mat
<1> QED
  BY <1>1, <1>2, <1>4, <1>6, Frame DEF CarryInv, Cols

\* L_ starts as P_.
LEMMA StartPosteriorInv ==
  ASSUME IInv, StartPosterior
  PROVE  CarryInv'
<1>1. /\ pc = "judge" /\ pc' = "posterior" /\ it' = 1 /\ L_' = P_
      /\ P_' = P_ /\ K_x' = K_x /\ UNCHANGED <<layout_vars, list_vars>>
  BY DEF StartPosterior
<1>2. /\ built = Len(entries) /\ Structure /\ ObsCols <= dof
      /\ P_ = Mat(Bend, Bend, Rows, Rows) /\ K_x = Mat(Bend, Bend, Rows, Cols)
  BY <1>1 DEF IInv, Structure, ListsInv, CarryInv
<1>3. Done(1) = [r \in Rows |-> 0] /\ Len(Curved) \in Nat
  BY <1>2, DoneFacts, CurvedFacts
<1>4. Plus(Bend, Done(1)) = Bend
  BY <1>3, BendNat DEF Plus, Bend
<1> QED
  BY <1>1, <1>2, <1>3, <1>4, Frame DEF CarryInv, Plus, Cols

\* L_'s rows are made of P_'s, which are L_'s before the block.
LEMMA CarryPosteriorInv ==
  ASSUME IInv, CarryPosterior
  PROVE  CarryInv'
<1> DEFINE b == Curved[it]
           X == Rows
           u == Bend
           f == Plus(Bend, Done(it))
           g == Plus(Bend, Done(it + 1))
<1>1. /\ pc = "posterior" /\ pc' = pc /\ it <= Len(Curved) /\ it' = it + 1
      /\ L_' = CarryCols(CarryRows(L_, P_, b), b)
      /\ K_x' = CarryRows(K_x, K_x, b)
      /\ P_' = CarryCols(P_, b)
      /\ UNCHANGED <<layout_vars, list_vars>>
  BY DEF CarryPosterior, PCols
<1>2. /\ built = Len(entries) /\ Structure /\ ObsCols <= dof
      /\ it \in Nat /\ 1 <= it
      /\ L_ = Mat(f, f, X, X) /\ K_x = Mat(f, u, X, Cols) /\ P_ = Mat(u, f, X, X)
  BY <1>1 DEF IInv, Structure, ListsInv, CarryInv
<1>3. it \in Blocks /\ Len(Curved) \in Nat
  BY <1>1, <1>2, CurvedFacts DEF Blocks
<1>4. /\ OwnRows(b)
      /\ \A r \in BlockRows(b) : r \in X /\ Done(it)[r] = 0 /\ u[r] = 1
      /\ Done(it + 1) =
           [r \in X |-> IF r \in BlockRows(b) THEN Done(it)[r] + 1 ELSE Done(it)[r]]
  BY <1>2, <1>3, BlockFacts, DoneFacts
<1>5. \A r \in BlockRows(b) : r \in X /\ f[r] = 1 /\ u[r] = 1
  BY <1>4 DEF Plus
<1>6. g = [r \in X |-> IF r \in BlockRows(b) THEN f[r] + 1 ELSE f[r]]
  <2>1. \A r \in X : u[r] \in Int /\ Done(it)[r] \in Int
    BY BendNat DEF Done
  <2> QED
    BY <1>4, <2>1 DEF Plus
<1> HIDE DEF b, X, u, f, g
<1>7. CarryRows(L_, P_, b) = Mat(g, f, X, X)
  BY <1>2, <1>4, <1>5, <1>6, RowsCarried
<1>8. CarryCols(Mat(g, f, X, X), b) = Mat(g, g, X, X)
  BY <1>4, <1>5, <1>6, ColsCarried
<1>9. CarryRows(K_x, K_x, b) = Mat(g, u, X, Cols)
  BY <1>2, <1>4, <1>5, <1>6, RowsCarried
<1>10. CarryCols(P_, b) = Mat(u, g, X, X)
  BY <1>2, <1>4, <1>5, <1>6, ColsCarried
<1>11. /\ L_' = Mat(g, g, X, X) /\ K_x' = Mat(g, u, X, Cols) /\ P_' = Mat(u, g, X, X)
  BY <1>1, <1>7, <1>8, <1>9, <1>10
<1>12. it' \in Nat /\ 1 <= it' /\ it' <= Len(Curved) + 1
  BY <1>1, <1>2, <1>3
<1> QED
  BY <1>1, <1>2, <1>11, <1>12, Frame DEF CarryInv, g, u, X, Plus, Cols

\* The difference and the product of what has been carried along fit.
LEMMA PosteriorInv ==
  ASSUME IInv, Posterior
  PROVE  CarryInv'
<1> DEFINE w == Plus(Bend, Bend)
<1>1. /\ pc = "posterior" /\ pc' = "updated" /\ it > Len(Curved)
      /\ P_' = [p \in Square |->
                  [l |-> L_[p].l, r |-> L_[p].r,
                   ok |-> L_[p].ok /\ \A k \in 0 .. ObsCols - 1 : Fits(p, k)]]
      /\ UNCHANGED <<layout_vars, list_vars>>
  BY DEF Posterior
<1>2. /\ built = Len(entries) /\ Structure /\ ObsCols <= dof /\ it \in Nat
      /\ L_ = Mat(Plus(Bend, Done(it)), Plus(Bend, Done(it)), Rows, Rows)
      /\ K_x = Mat(Plus(Bend, Done(it)), Bend, Rows, Cols)
      /\ P_ = Mat(Bend, Plus(Bend, Done(it)), Rows, Rows) /\ dof \in Nat
  BY <1>1 DEF IInv, Structure, ListsInv, LayoutInv, Consecutive, CarryInv
<1>3. Done(it) = Bend
  BY <1>1, <1>2, DoneFacts
<1>4. /\ L_ = Mat(w, w, Rows, Rows) /\ K_x = Mat(w, Bend, Rows, Cols)
      /\ P_ = Mat(Bend, w, Rows, Rows)
  BY <1>2, <1>3
<1>5. \A c \in Cols : c \in Rows
  BY <1>2, LayoutsAssumption DEF Cols, Rows
<1> HIDE DEF w
<1>6. ASSUME NEW p \in Rows \X Rows
      PROVE  P_'[p] = [l |-> w[p[1]], r |-> w[p[2]], ok |-> TRUE]
  <2>1. L_[p] = [l |-> w[p[1]], r |-> w[p[2]], ok |-> TRUE]
    BY <1>4 DEF Mat
  <2>2. ASSUME NEW k \in Cols PROVE Fits(p, k)
    <3>1. p[1] \in Rows /\ p[2] \in Rows /\ k \in Rows
      BY <1>5
    <3>2. K_x[<<p[1], k>>] = [l |-> w[p[1]], r |-> Bend[k], ok |-> TRUE]
      BY <1>4, <3>1 DEF Mat
    <3>3. P_[<<k, p[2]>>] = [l |-> Bend[k], r |-> w[p[2]], ok |-> TRUE]
      BY <1>4, <3>1 DEF Mat
    <3> QED
      BY <2>1, <3>2, <3>3 DEF Fits
  <2> DEFINE fits == L_[p].ok /\ \A k \in 0 .. ObsCols - 1 : Fits(p, k)
  <2>3. fits = TRUE
    <3>1. L_[p].ok = TRUE
      BY <2>1
    <3>2. \A k \in 0 .. ObsCols - 1 : Fits(p, k)
      BY <2>2 DEF Cols
    <3> QED
      BY <3>1, <3>2, Zenon
  <2>4. P_'[p] = [l |-> L_[p].l, r |-> L_[p].r, ok |-> fits]
    BY <1>1, Zenon DEF Square
  <2>5. P_'[p] = [l |-> L_[p].l, r |-> L_[p].r, ok |-> TRUE]
    BY <2>3, <2>4, Zenon
  <2> QED
    BY <2>1, <2>5
<1>7. P_' = Mat(w, w, Rows, Rows)
  BY <1>1, <1>6 DEF Mat, Square
<1> QED
  BY <1>1, <1>7, Frame DEF CarryInv, w, Plus

-----------------------------------------------------------------------------
(* The Jacobian *)

VectSegment(j) == Segment(vect_state[j].idx, 3)

\* The vectors of the list are the flat fields, each once.
LEMMA VectFacts ==
  ASSUME Structure, built = Len(entries)
  PROVE  /\ Len(vect_state) \in Nat
         /\ \A a \in 1 .. Len(entries) : entries[a].kind = "vect" =>
              \E j \in 1 .. Len(vect_state) : Same(vect_state[j], entries[a])
         /\ \A j \in 1 .. Len(vect_state) :
              /\ VectSegment(j) \subseteq Rows
              /\ \A k \in 1 .. Len(vect_state) : j # k =>
                   \A r \in VectSegment(j) : r \notin VectSegment(k)
              /\ \A k \in Blocks :
                   \A r \in VectSegment(j) : r \notin BlockRows(Curved[k])
<1>1. /\ vect_state \in Seq(Listed) /\ Len(vect_state) \in Nat
      /\ ListOf(vect_state, "vect", entries, Len(entries))
      /\ entries \in Seq(Entry) /\ Consecutive(entries, dof) /\ dof \in Nat
  <2>1. ListOf(vect_state, "vect", entries, Len(entries)) /\ Consecutive(entries, dof)
    BY DEF Structure, ListsInv, LayoutInv
  <2>2. vect_state \in Seq(Listed) /\ entries \in Seq(Entry) /\ dof \in Nat
    BY <2>1 DEF ListOf, Consecutive
  <2> QED
    BY <2>1, <2>2
<1> DEFINE Is(j, a) == entries[a].kind = "vect" /\ Same(vect_state[j], entries[a])
<1>2. ASSUME NEW j \in 1 .. Len(vect_state)
      PROVE  \E a \in 1 .. Len(entries) : Is(j, a)
  BY <1>1 DEF ListOf
<1>3. ASSUME NEW j \in 1 .. Len(vect_state), NEW a \in 1 .. Len(entries), Is(j, a)
      PROVE  VectSegment(j) = FieldRows(entries[a])
  BY <1>3, DOFs DEF Same, VectSegment, FieldRows
<1>4. ASSUME NEW j \in 1 .. Len(vect_state), NEW r \in VectSegment(j)
      PROVE  r \in Rows
  <2>1. PICK a \in 1 .. Len(entries) : Is(j, a)
    BY <1>2
  <2> DEFINE x == entries[a].IDX
             u == DOF[entries[a].kind]
  <2>2. r \in FieldRows(entries[a])
    BY <1>3, <1>4, <2>1
  <2>3. x \in Nat /\ u \in {2, 3} /\ x + u <= dof /\ r \in x .. x + u - 1
    BY <1>1, <2>2, EntryFacts DEF Consecutive, FieldRows, Segment
  <2> HIDE DEF x, u
  <2> QED
    BY <1>1, <2>3 DEF Rows
<1>5. ASSUME NEW j \in 1 .. Len(vect_state), NEW k \in 1 .. Len(vect_state), j < k,
             NEW a \in 1 .. Len(entries), Is(j, a), Is(k, a)
      PROVE  FALSE
  <2>1. vect_state[j].idx < vect_state[k].idx
    BY <1>1, <1>5 DEF ListOf
  <2>2. vect_state[j].idx = vect_state[k].idx
    BY <1>5 DEF Same
  <2>3. vect_state[k] \in Listed
    BY <1>1
  <2>4. vect_state[k].idx \in Nat
    BY <2>3 DEF Listed
  <2> QED
    BY <2>1, <2>2, <2>4
<1>6. ASSUME NEW j \in 1 .. Len(vect_state), NEW k \in 1 .. Len(vect_state), j # k,
             NEW r \in VectSegment(j)
      PROVE  r \notin VectSegment(k)
  <2>1. PICK a \in 1 .. Len(entries) : Is(j, a)
    BY <1>2
  <2>2. PICK b \in 1 .. Len(entries) : Is(k, b)
    BY <1>2
  <2>3. a # b
    <3>1. j < k \/ k < j
      BY <1>6
    <3> QED
      BY <1>5, <2>1, <2>2, <3>1
  <2>4. r \in FieldRows(entries[a]) /\ VectSegment(k) = FieldRows(entries[b])
    BY <1>3, <1>6, <2>1, <2>2
  <2> QED
    BY <1>1, <2>3, <2>4, FieldsDisjoint
<1>7. ASSUME NEW j \in 1 .. Len(vect_state), NEW k \in Blocks, NEW r \in VectSegment(j)
      PROVE  r \notin BlockRows(Curved[k])
  <2>1. PICK a \in 1 .. Len(entries) : Is(j, a)
    BY <1>2
  <2>2. PICK b \in 1 .. Len(entries) : Of(k, b)
    BY CurvedFacts
  <2>3. a # b /\ BlockRows(Curved[k]) = FieldRows(entries[b])
    BY <2>1, <2>2 DEF Of, BlockRows, FieldRows
  <2>4. r \in FieldRows(entries[a])
    BY <1>3, <1>7, <2>1
  <2> QED
    BY <1>1, <2>3, <2>4, FieldsDisjoint
<1>8. \A a \in 1 .. Len(entries) : entries[a].kind = "vect" =>
        \E j \in 1 .. Len(vect_state) : Same(vect_state[j], entries[a])
  BY <1>1 DEF ListOf
<1> QED
  BY <1>1, <1>4, <1>6, <1>7, <1>8

\* The loop over the vectors: what it has written stays.
LEMMA PredictVectInv ==
  ASSUME IInv, PredictVect
  PROVE  JacobianInv'
<1> DEFINE n == Len(vect_state)
<1>1. /\ pc = "vect" /\ pc' = pc /\ it <= n /\ it' = it + 1 /\ turned' = turned
      /\ f_x_final' = [r \in Rows |->
           IF r \in VectSegment(it) THEN {vect_state[it].dim + (r - vect_state[it].idx)}
                                    ELSE f_x_final[r]]
      /\ UNCHANGED <<layout_vars, list_vars>>
  BY DEF PredictVect, VectRows, VectSegment
<1>2. /\ Structure /\ built = Len(entries) /\ it \in Nat /\ it >= 1
      /\ VectTo(f_x_final, it) /\ turned = {}
  BY <1>1 DEF IInv, Structure, ListsInv, JacobianInv
<1>3. it \in 1 .. n /\ n \in Nat
  BY <1>1, <1>2, VectFacts
<1>4. ASSUME NEW j \in 1 .. n, j < it + 1, NEW r \in VectSegment(j)
      PROVE  f_x_final'[r] = {vect_state[j].dim + (r - vect_state[j].idx)}
  <2>1. r \in Rows
    BY <1>2, <1>4, VectFacts
  <2>2. CASE j = it
    BY <1>1, <1>4, <2>1, <2>2
  <2>3. CASE j # it
    <3>1. r \notin VectSegment(it)
      BY <1>2, <1>3, <1>4, <2>3, VectFacts
    <3>2. f_x_final[r] = {vect_state[j].dim + (r - vect_state[j].idx)}
      BY <1>2, <1>3, <1>4, <2>3 DEF VectTo, VectSegment
    <3> QED
      BY <1>1, <2>1, <3>1, <3>2
  <2> QED
    BY <2>2, <2>3
<1>5. VectTo(f_x_final', it')
  BY <1>1, <1>4 DEF VectTo, VectSegment
<1>6. VectTo(f_x_final, it)'
  BY <1>1, <1>5, Frame DEF VectTo
<1> QED
  BY <1>1, <1>2, <1>6 DEF JacobianInv, JacobianComplete

\* Nothing is turned before the loops over the curved fields.
LEMMA VectDoneInv ==
  ASSUME IInv, VectDone
  PROVE  JacobianInv'
<1>1. /\ pc = "vect" /\ pc' = "curved" /\ it > Len(vect_state) /\ it' = 1
      /\ turned' = turned /\ f_x_final' = f_x_final
      /\ UNCHANGED <<layout_vars, list_vars>>
  BY DEF VectDone, predict_vars
<1>2. /\ Structure /\ built = Len(entries) /\ it \in Nat
      /\ VectTo(f_x_final, it) /\ turned = {}
  BY <1>1 DEF IInv, Structure, ListsInv, JacobianInv
<1>3. \A j \in 1 .. Len(vect_state) : j < it
  BY <1>1, <1>2, VectFacts
<1>4. VectTo(f_x_final, Len(vect_state) + 1)'
  BY <1>1, <1>2, <1>3, Frame DEF VectTo
<1>5. CurvedTo(f_x_final, 1)'
  BY DEF CurvedTo, Blocks
<1>6. turned' = {r \in Rows : Done(1)[r] = 1}
  BY <1>1, <1>2, DoneFacts
<1>7. Done(it)' = Done(1) /\ Rows' = Rows
  BY <1>1, Frame
<1>8. turned' = {r \in Rows : Done(it)[r] = 1}'
  BY <1>6, <1>7
<1>9. CurvedTo(f_x_final, it)'
  BY <1>1, <1>5
<1> QED
  BY <1>1, <1>4, <1>8, <1>9 DEF JacobianInv, JacobianComplete

\* The loops over the curved fields: a block more is written and turned.
LEMMA PredictCurvedInv ==
  ASSUME IInv, PredictCurved
  PROVE  JacobianInv'
<1> DEFINE b == Curved[it]
<1>1. /\ pc = "curved" /\ pc' = pc /\ it <= Len(Curved) /\ it' = it + 1
      /\ f_x_final' = [r \in Rows |->
           IF r \in BlockRows(b) THEN Segment(b.dim, DIM) ELSE f_x_final[r]]
      /\ turned' = turned \cup BlockRows(b)
      /\ UNCHANGED <<layout_vars, list_vars>>
  BY DEF PredictCurved
<1>2. /\ Structure /\ built = Len(entries) /\ it \in Nat /\ it >= 1
      /\ VectTo(f_x_final, Len(vect_state) + 1) /\ CurvedTo(f_x_final, it)
      /\ turned = {r \in Rows : Done(it)[r] = 1}
  BY <1>1 DEF IInv, Structure, ListsInv, JacobianInv
<1>3. it \in Blocks /\ Len(vect_state) \in Nat
  BY <1>1, <1>2, CurvedFacts, VectFacts DEF Blocks
<1>4. VectTo(f_x_final', Len(vect_state) + 1)
  <2> SUFFICES ASSUME NEW j \in 1 .. Len(vect_state), NEW r \in VectSegment(j)
               PROVE  f_x_final'[r] = {vect_state[j].dim + (r - vect_state[j].idx)}
    BY DEF VectTo, VectSegment
  <2>1. r \in Rows /\ r \notin BlockRows(b)
    BY <1>2, <1>3, VectFacts
  <2>2. f_x_final[r] = {vect_state[j].dim + (r - vect_state[j].idx)}
    BY <1>2, <1>3 DEF VectTo, VectSegment
  <2> QED
    BY <1>1, <2>1, <2>2
<1>5. CurvedTo(f_x_final', it + 1)
  <2> SUFFICES ASSUME NEW j \in Blocks, j < it + 1, NEW r \in BlockRows(Curved[j])
               PROVE  f_x_final'[r] = Segment(Curved[j].dim, DIM)
    BY DEF CurvedTo
  <2>1. r \in Rows
    BY <1>2, BlockFacts
  <2>2. CASE j = it
    BY <1>1, <2>1, <2>2
  <2>3. CASE j # it
    <3>1. j < it
      BY <1>2, <2>3 DEF Blocks
    <3>2. r \notin BlockRows(b)
      BY <1>2, <1>3, <2>3, CurvedFacts
    <3>3. f_x_final[r] = Segment(Curved[j].dim, DIM)
      BY <1>2, <3>1 DEF CurvedTo
    <3> QED
      BY <1>1, <2>1, <3>2, <3>3
  <2> QED
    BY <2>2, <2>3
<1>6. turned' = {r \in Rows : Done(it + 1)[r] = 1}
  <2>1. \A r \in Rows : Done(it + 1)[r] = IF r \in BlockRows(b) THEN Done(it)[r] + 1
                                                               ELSE Done(it)[r]
    BY <1>2, <1>3, DoneFacts
  <2>2. \A r \in BlockRows(b) : r \in Rows /\ Done(it)[r] = 0
    BY <1>2, <1>3, BlockFacts
  <2> QED
    BY <1>1, <1>2, <2>1, <2>2
<1>7. Done(it)' = Done(it + 1) /\ Rows' = Rows
  BY <1>1, Frame
<1>8. turned' = {r \in Rows : Done(it)[r] = 1}'
  BY <1>6, <1>7
<1>9. VectTo(f_x_final, Len(vect_state) + 1)'
  BY <1>4, <1>1, Frame DEF VectTo
<1>10. CurvedTo(f_x_final, it)'
  BY <1>1, <1>5, Frame DEF CurvedTo
<1> QED
  BY <1>1, <1>2, <1>8, <1>9, <1>10 DEF JacobianInv, JacobianComplete

\* Only one field has a row.
LEMMA FieldOfRow ==
  ASSUME Consecutive(entries, dof), NEW a \in 1 .. Len(entries),
         NEW r \in FieldRows(entries[a])
  PROVE  FieldOf(r) = a
<1>1. DOMAIN entries = 1 .. Len(entries)
  BY DEF Consecutive
<1>2. \A c \in 1 .. Len(entries) : r \in FieldRows(entries[c]) => c = a
  BY FieldsDisjoint
<1> QED
  BY <1>1, <1>2 DEF FieldOf

\* Behind the loops every row of every field is there.
LEMMA PredictedInv ==
  ASSUME IInv, Predicted
  PROVE  JacobianInv'
<1>1. /\ pc = "curved" /\ pc' = "predicted" /\ it > Len(Curved)
      /\ f_x_final' = f_x_final /\ turned' = turned
      /\ entries' = entries
  BY DEF Predicted, predict_vars, layout_vars
<1>2. /\ Structure /\ built = Len(entries) /\ it \in Nat
      /\ VectTo(f_x_final, Len(vect_state) + 1) /\ CurvedTo(f_x_final, it)
      /\ turned = {r \in Rows : Done(it)[r] = 1}
      /\ entries \in Seq(Entry) /\ Consecutive(entries, dof) /\ dof \in Nat
  BY <1>1 DEF IInv, Structure, ListsInv, LayoutInv, Consecutive, JacobianInv
<1>3. Done(it) = Bend
  BY <1>1, <1>2, DoneFacts
<1>4. ASSUME NEW a \in 1 .. Len(entries), NEW j \in 0 .. DOF[entries[a].kind] - 1
      PROVE  /\ f_x_final[entries[a].IDX + j] =
                  IF entries[a].kind # "vect" THEN FieldDims(entries[a])
                                              ELSE {entries[a].DIM + j}
             /\ entries[a].IDX + j \in turned <=> entries[a].kind # "vect"
  <2> DEFINE x == entries[a].IDX
             u == DOF[entries[a].kind]
             r == x + j
  <2>1. entries[a] \in Entry /\ x \in Nat /\ u \in {2, 3} /\ x + u <= dof
    BY <1>2, EntryFacts DEF Consecutive
  <2>2. r \in x .. x + u - 1 /\ r \in Rows /\ r - x = j
    <3>1. j \in 0 .. u - 1
      OBVIOUS
    <3> HIDE DEF x, u
    <3> QED
      BY <1>2, <2>1, <3>1 DEF Rows
  <2>3. r \in FieldRows(entries[a])
    BY <2>2 DEF FieldRows, Segment
  <2>4. r \in turned <=> entries[a].kind # "vect"
    <3>1. FieldOf(r) = a
      BY <1>2, <2>3, FieldOfRow
    <3>2. Bend[r] = IF entries[a].kind = "vect" THEN 0 ELSE 1
      BY <2>2, <3>1 DEF Bend, Curvature
    <3> HIDE DEF r
    <3> QED
      BY <1>2, <1>3, <2>2, <3>2
  <2>5. CASE entries[a].kind = "vect"
    <3>1. PICK k \in 1 .. Len(vect_state) : Same(vect_state[k], entries[a])
      BY <1>2, <2>5, VectFacts
    <3>2. r \in Segment(vect_state[k].idx, 3)
      BY <2>3, <2>5, <3>1, DOFs DEF FieldRows, Same
    <3>3. k < Len(vect_state) + 1
      BY <1>2, VectFacts
    <3>4. f_x_final[r] = {vect_state[k].dim + (r - vect_state[k].idx)}
      BY <1>2, <3>2, <3>3 DEF VectTo
    <3>5. f_x_final[r] = {entries[a].DIM + (r - x)}
      BY <3>1, <3>4 DEF Same
    <3>6. f_x_final[r] = {entries[a].DIM + j}
      BY <2>2, <3>5
    <3> HIDE DEF r
    <3> QED
      BY <2>4, <2>5, <3>6 DEF r
  <2>6. CASE entries[a].kind # "vect"
    <3>1. PICK k \in Blocks : Of(k, a)
      BY <1>2, <2>6, CurvedFacts
    <3>2. r \in BlockRows(Curved[k])
      BY <2>3, <3>1 DEF Of, BlockRows, FieldRows
    <3>3. k < it
      BY <1>1, <1>2, CurvedFacts DEF Blocks
    <3>4. f_x_final[r] = Segment(Curved[k].dim, DIM)
      BY <1>2, <3>2, <3>3 DEF CurvedTo
    <3>5. f_x_final[r] = FieldDims(entries[a])
      BY <3>1, <3>4 DEF Of, FieldDims
    <3> HIDE DEF r
    <3> QED
      BY <2>4, <2>6, <3>5 DEF r
  <2> QED
    BY <2>5, <2>6
<1>5. DOMAIN entries = 1 .. Len(entries)
  BY <1>2
<1>6. \A a \in DOMAIN entries : \A j \in 0 .. DOF[entries[a].kind] - 1 :
        /\ f_x_final[entries[a].IDX + j] =
             IF entries[a].kind # "vect" THEN FieldDims(entries[a])
                                         ELSE {entries[a].DIM + j}
        /\ entries[a].IDX + j \in turned <=> entries[a].kind # "vect"
  BY <1>4, <1>5
<1>7. JacobianComplete'
  BY <1>1, <1>6, Zenon DEF JacobianComplete, FieldDims
<1> QED
  BY <1>1, <1>7 DEF JacobianInv

-----------------------------------------------------------------------------
(* The theorems *)

\* The steps that leave the layout and the lists as they are
LEMMA OtherStructure ==
  ASSUME Structure,
         \/ InitDynShare \/ Built \/ StartPredict \/ PredictVect \/ VectDone
         \/ PredictCurved \/ Predicted \/ StartIteration \/ Transport \/ Gain
         \/ StartPosterior \/ CarryPosterior \/ Posterior \/ Return
         \/ UNCHANGED vars
  PROVE  Structure'
<1>1. UNCHANGED <<layout_vars, list_vars>>
  BY DEF InitDynShare, Built, StartPredict, PredictVect, VectDone, PredictCurved,
     Predicted, StartIteration, Transport, Gain, StartPosterior, CarryPosterior,
     Posterior, Return, vars
<1>2. pc' = "declare" => pc = "declare"
  BY DEF InitDynShare, Built, StartPredict, PredictVect, VectDone, PredictCurved,
     Predicted, StartIteration, Transport, Gain, StartPosterior, CarryPosterior,
     Posterior, Return, vars
<1>3. \/ pc' \in {"declare", "build"} \/ pc \notin {"declare", "build"}
      \/ built = Len(entries)
  BY DEF InitDynShare, Built, StartPredict, PredictVect, VectDone, PredictCurved,
     Predicted, StartIteration, Transport, Gain, StartPosterior, CarryPosterior,
     Posterior, Return, vars
<1> QED
  BY <1>1, <1>2, <1>3, StructureUnchanged

\* Nothing is claimed of the matrices outside a call.
LEMMA Idle ==
  ASSUME pc' \in {"declare", "build", "ready"}
  PROVE  CarryInv' /\ JacobianInv'
BY DEF CarryInv, JacobianInv, JacobianComplete

\* A step of the prediction is none of the update,
LEMMA Predicting ==
  ASSUME pc' \in {"vect", "curved", "predicted"}
  PROVE  CarryInv'
BY DEF CarryInv

\* ... and the other way round.
LEMMA Updating ==
  ASSUME pc' \in {"carry", "judge", "posterior", "updated"}
  PROVE  JacobianInv'
BY DEF JacobianInv, JacobianComplete

\* At the start of a prediction nothing is written.
LEMMA StartPredictInv ==
  ASSUME IInv, StartPredict
  PROVE  JacobianInv'
<1>1. pc' = "vect" /\ it' = 1 /\ turned' = {}
  BY DEF StartPredict
<1>2. VectTo(f_x_final, 1)'
  <2> SUFFICES ASSUME NEW j \in (1 .. Len(vect_state))', j < 1 PROVE FALSE
    BY DEF VectTo
  <2> QED
    OBVIOUS
<1>3. VectTo(f_x_final, it)'
  BY <1>1, <1>2
<1> QED
  BY <1>1, <1>3 DEF JacobianInv, JacobianComplete

\* A step that changes nothing
LEMMA Stutter ==
  ASSUME IInv, UNCHANGED vars
  PROVE  CarryInv' /\ JacobianInv'
<1>1. /\ UNCHANGED <<layout_vars, list_vars>>
      /\ it' = it /\ pc' = pc /\ P_' = P_ /\ L_' = L_ /\ K_x' = K_x
      /\ f_x_final' = f_x_final /\ turned' = turned
  BY DEF vars, update_vars, predict_vars
<1>2. CarryInv'
  BY <1>1, Frame DEF IInv, CarryInv, Mat, Plus, Cols
<1>3. VectTo(f_x_final, it)' = VectTo(f_x_final, it)
  BY <1>1, Frame DEF VectTo
<1>4. /\ VectTo(f_x_final, Len(vect_state) + 1)' = VectTo(f_x_final, Len(vect_state) + 1)
      /\ CurvedTo(f_x_final, it)' = CurvedTo(f_x_final, it)
  BY <1>1, Frame DEF VectTo, CurvedTo
<1>5. {r \in Rows : Done(it)[r] = 1}' = {r \in Rows : Done(it)[r] = 1}
  BY <1>1, Frame
<1>6. JacobianComplete' = JacobianComplete
  BY <1>1, Frame DEF JacobianComplete
<1>7. JacobianInv'
  BY <1>1, <1>3, <1>4, <1>5, <1>6 DEF IInv, JacobianInv
<1> QED
  BY <1>2, <1>7

\* IInv is inductive: the initial states have it.
LEMMA InitIInv == Init => IInv
<1> SUFFICES ASSUME Init PROVE IInv
  OBVIOUS
<1>1. pc = "declare"
  BY DEF Init
<1> QED
  BY <1>1, InitStructure DEF IInv, CarryInv, JacobianInv, JacobianComplete

\* ... and every step keeps it.
LEMMA NextIInv == IInv /\ [Next]_vars => IInv'
<1> SUFFICES ASSUME IInv, [Next]_vars PROVE IInv'
  OBVIOUS
<1> USE DEF IInv
<1>1. CASE EntriesNext
  BY <1>1, EntriesNextStructure, Idle DEF EntriesNext
<1>2. CASE InitDynShare
  BY <1>2, OtherStructure, Idle DEF InitDynShare
<1>3. CASE BuildState
  BY <1>3, BuildStateStructure, Idle DEF BuildState
<1>4. CASE Built
  BY <1>4, OtherStructure, Idle DEF Built
<1>5. CASE ChangeX
  BY <1>5, ChangeXStructure, Idle DEF ChangeX
<1>6. CASE StartPredict
  BY <1>6, OtherStructure, StartPredictInv, Predicting DEF StartPredict
<1>7. CASE PredictVect
  BY <1>7, OtherStructure, PredictVectInv, Predicting DEF PredictVect
<1>8. CASE VectDone
  BY <1>8, OtherStructure, VectDoneInv, Predicting DEF VectDone
<1>9. CASE PredictCurved
  BY <1>9, OtherStructure, PredictCurvedInv, Predicting DEF PredictCurved
<1>10. CASE Predicted
  BY <1>10, OtherStructure, PredictedInv, Predicting DEF Predicted
<1>11. CASE StartIteration
  BY <1>11, OtherStructure, StartIterationInv, Updating DEF StartIteration
<1>12. CASE Transport
  BY <1>12, OtherStructure, TransportInv, Updating DEF Transport
<1>13. CASE Gain
  BY <1>13, OtherStructure, GainInv, Updating DEF Gain
<1>14. CASE StartPosterior
  BY <1>14, OtherStructure, StartPosteriorInv, Updating DEF StartPosterior
<1>15. CASE CarryPosterior
  BY <1>15, OtherStructure, CarryPosteriorInv, Updating DEF CarryPosterior
<1>16. CASE Posterior
  BY <1>16, OtherStructure, PosteriorInv, Updating DEF Posterior
<1>17. CASE Return
  BY <1>17, OtherStructure, Idle DEF Return
<1>18. CASE UNCHANGED vars
  BY <1>18, OtherStructure, Stutter
<1> QED
  BY <1>1, <1>2, <1>3, <1>4, <1>5, <1>6, <1>7, <1>8, <1>9, <1>10, <1>11, <1>12,
     <1>13, <1>14, <1>15, <1>16, <1>17, <1>18 DEF Next

\* The layout, the lists and the matrices are as IInv has them, always.
THEOREM Inductive == Spec => []IInv
BY InitIInv, NextIInv, PTL DEF Spec

\* What once and twice are
LEMMA OnceTwice == ASSUME NEW c \in 0 .. 1 PROVE 1 * c = c /\ 2 * c = c + c
OBVIOUS

\* For every layout the gain is made of a covariance with every curved field
\* carried along once on each side (esekfom.hpp:1784-1834).
THEOREM TransportedOnceAlways == Spec => []TransportedOnce
<1>1. IInv => TransportedOnce
  <2> SUFFICES ASSUME IInv, pc = "carry", it > Len(Curved)
               PROVE  CarriedTimes(P_, 1)
    BY DEF TransportedOnce
  <2>1. /\ Structure /\ built = Len(entries) /\ it \in Nat
        /\ P_ = Mat(Done(it), Done(it), Rows, Rows)
    BY DEF IInv, Structure, ListsInv, CarryInv
  <2>2. P_ = Mat(Bend, Bend, Rows, Rows)
    BY <2>1, DoneFacts
  <2> SUFFICES ASSUME NEW p \in Rows \X Rows
               PROVE  P_[p] = [l |-> 1 * Curvature(p[1]), r |-> 1 * Curvature(p[2]),
                               ok |-> TRUE]
    BY DEF CarriedTimes, Square
  <2>3. /\ Bend[p[1]] = Curvature(p[1]) /\ Bend[p[2]] = Curvature(p[2])
        /\ Bend[p[1]] \in 0 .. 1 /\ Bend[p[2]] \in 0 .. 1
    BY BendNat
  <2>4. P_[p] = [l |-> Bend[p[1]], r |-> Bend[p[2]], ok |-> TRUE]
    BY <2>2 DEF Mat
  <2>5. 1 * Curvature(p[1]) = Bend[p[1]] /\ 1 * Curvature(p[2]) = Bend[p[2]]
    BY <2>3, OnceTwice
  <2> QED
    BY <2>4, <2>5, Zenon
<1> QED
  BY <1>1, Inductive, PTL

\* For every layout the terms of the posterior fit (esekfom.hpp:1906-1968).
THEOREM PosteriorCarriedOnceAlways == Spec => []PosteriorCarriedOnce
<1>1. IInv => PosteriorCarriedOnce
  <2> SUFFICES ASSUME IInv, pc = "updated" PROVE CarriedTimes(P_, 2)
    BY DEF PosteriorCarriedOnce
  <2>1. P_ = Mat(Plus(Bend, Bend), Plus(Bend, Bend), Rows, Rows)
    BY DEF IInv, CarryInv
  <2> SUFFICES ASSUME NEW p \in Rows \X Rows
               PROVE  P_[p] = [l |-> 2 * Curvature(p[1]), r |-> 2 * Curvature(p[2]),
                               ok |-> TRUE]
    BY DEF CarriedTimes, Square
  <2>2. /\ Bend[p[1]] = Curvature(p[1]) /\ Bend[p[2]] = Curvature(p[2])
        /\ Bend[p[1]] \in 0 .. 1 /\ Bend[p[2]] \in 0 .. 1
    BY BendNat
  <2>3. P_[p] = [l |-> Bend[p[1]] + Bend[p[1]], r |-> Bend[p[2]] + Bend[p[2]],
                 ok |-> TRUE]
    BY <2>1 DEF Mat, Plus
  <2>4. /\ 2 * Curvature(p[1]) = Bend[p[1]] + Bend[p[1]]
        /\ 2 * Curvature(p[2]) = Bend[p[2]] + Bend[p[2]]
    BY <2>2, OnceTwice
  <2> QED
    BY <2>3, <2>4, Zenon
<1> QED
  BY <1>1, Inductive, PTL

\* For every layout the loops of a prediction fill the Jacobian, each field
\* with its own rows (esekfom.hpp:299-402).
THEOREM JacobianCompleteAlways == Spec => []JacobianComplete
<1>1. IInv => JacobianComplete
  BY DEF IInv, JacobianInv
<1> QED
  BY <1>1, Inductive, PTL

-----------------------------------------------------------------------------
(* The numbers                                                             *)

\* Where the fields are: each behind the one before, three dimensions apart.
OffsetsInv ==
  /\ pc # "declare" => Len(entries) = Len(layout)
  /\ dim = 3 * Len(entries)
  /\ \A a \in 1 .. Len(entries) : entries[a].kind = layout[a] /\ entries[a].DIM = 3 * (a - 1)
  /\ \A a \in 1 .. Len(entries) :
       LET end == entries[a].IDX + DOF[entries[a].kind]
       IN  /\ a = 1 => entries[a].IDX = 0
           /\ a < Len(entries) => entries[a + 1].IDX = end
           /\ a = Len(entries) => dof = end
  /\ Len(entries) = 0 => dof = 0

\* Another field goes behind the last.
LEMMA EntriesNextOffsets ==
  ASSUME Structure, OffsetsInv, EntriesNext
  PROVE  OffsetsInv'
<1> DEFINE n == Len(entries)
           e == [kind |-> layout[n + 1], IDX |-> dof, DIM |-> dim]
<1>1. /\ n \in Nat /\ n < Len(layout) /\ entries \in Seq(Entry) /\ layout \in Seq(Kinds)
      /\ entries' = Append(entries, e) /\ dof' = dof + DOF[layout[n + 1]] /\ dim' = dim + 3
      /\ UNCHANGED layout /\ pc' = "declare"
  BY DEF EntriesNext, Structure, LayoutInv, Consecutive, DIM
<1>2. Len(entries') = n + 1 /\ entries'[n + 1] = e /\ \A a \in 1 .. n : entries'[a] = entries[a]
  BY <1>1
<1>3. dim' = 3 * (n + 1)
  BY <1>1 DEF OffsetsInv
<1>4. ASSUME NEW a \in 1 .. n + 1
      PROVE  entries'[a].kind = layout[a] /\ entries'[a].DIM = 3 * (a - 1)
  <2>1. CASE a = n + 1
    BY <1>1, <1>2, <2>1 DEF OffsetsInv
  <2>2. CASE a # n + 1
    BY <1>1, <1>2, <2>2 DEF OffsetsInv
  <2> QED
    BY <2>1, <2>2
<1>5. ASSUME NEW a \in 1 .. n + 1
      PROVE  LET end == entries'[a].IDX + DOF[entries'[a].kind]
             IN  /\ a = 1 => entries'[a].IDX = 0
                 /\ a < n + 1 => entries'[a + 1].IDX = end
                 /\ a = n + 1 => dof' = end
  <2>1. CASE a = n + 1
    <3>1. a = 1 => dof = 0
      BY <1>1, <2>1 DEF OffsetsInv
    <3> QED
      BY <1>1, <1>2, <2>1, <3>1
  <2>2. CASE a \in 1 .. n
    <3>1. entries'[a] = entries[a] /\ (a = 1 => entries[a].IDX = 0)
      BY <1>2, <2>2 DEF OffsetsInv
    <3>2. CASE a = n
      <4>1. entries'[a + 1].IDX = dof /\ dof = entries[a].IDX + DOF[entries[a].kind]
        BY <1>2, <2>2, <3>2 DEF OffsetsInv
      <4> QED
        BY <1>1, <3>1, <3>2, <4>1
    <3>3. CASE a # n
      <4>1. a + 1 \in 1 .. n /\ a < n
        BY <1>1, <2>2, <3>3
      <4>2. entries'[a + 1].IDX = entries[a].IDX + DOF[entries[a].kind]
        BY <1>2, <2>2, <4>1 DEF OffsetsInv
      <4> QED
        BY <1>1, <3>1, <4>1, <4>2
    <3> QED
      BY <3>2, <3>3
  <2>3. a = n + 1 \/ a \in 1 .. n
    BY <1>1
  <2> QED
    BY <2>1, <2>2, <2>3
<1> HIDE DEF n, e
<1>6. Len(entries') # 0
  BY <1>1, <1>2
<1> QED
  BY <1>1, <1>2, <1>3, <1>4, <1>5, <1>6 DEF OffsetsInv

\* The offsets are so always: nothing else moves a field.
LEMMA OffsetsAlways == Spec => []OffsetsInv
<1>1. Init => OffsetsInv
  BY DEF Init, OffsetsInv
<1>2. IInv /\ OffsetsInv /\ [Next]_vars => OffsetsInv'
  <2> SUFFICES ASSUME IInv, OffsetsInv, [Next]_vars PROVE OffsetsInv'
    OBVIOUS
  <2>1. CASE EntriesNext
    BY <2>1, EntriesNextOffsets DEF IInv
  <2>2. CASE UNCHANGED vars
    BY <2>2 DEF OffsetsInv, vars, layout_vars
  <2>3. CASE ~EntriesNext /\ ~UNCHANGED vars
    <3>1. UNCHANGED layout_vars /\ (pc' # "declare" => Len(entries) = Len(layout))
      BY <2>3 DEF Next, InitDynShare, BuildState, Built, ChangeX, StartPredict, PredictVect, VectDone,
         PredictCurved, Predicted, StartIteration, Transport, Gain, StartPosterior, CarryPosterior,
         Posterior, Return, OffsetsInv
    <3> QED
      BY <3>1 DEF OffsetsInv, layout_vars
  <2> QED
    BY <2>1, <2>2, <2>3
<1> QED
  BY <1>1, <1>2, Inductive, PTL DEF Spec

\* In the layout of the filter's state the numbers written into the process
\* model, its derivatives and the odometry are those of the fields meant
\* (use_ikfom.h:46-92, map_processing.cpp:642-645).
THEOREM NumbersNameFieldsAlways == Spec => []NumbersNameFields
<1>1. ASSUME OffsetsInv PROVE NumbersNameFields
  <2> SUFFICES ASSUME layout = StateIkfom, pc = "ready"
               PROVE  /\ \A f \in GetF : Segment(f[1], 3) = FieldDims(entries[f[2]])
                      /\ \A b \in DfDx : /\ b[1].rows = FieldDims(entries[b[2]])
                                         /\ b[1].cols = FieldRows(entries[b[3]])
                      /\ \A b \in DfDw : /\ b[1].rows = FieldDims(entries[b[2]])
                                         /\ b[1].cols = NoiseRows(b[3])
                      /\ \A o \in OdometryBlocks :
                           Segment(o[1], o[2]) = UNION {FieldRows(entries[a]) : a \in o[3]}
    BY DEF NumbersNameFields
  <2>1. Len(layout) = 8 /\ Len(entries) = 8
    BY <1>1 DEF OffsetsInv, StateIkfom
  <2>2. \A a \in 1 .. 8 : entries[a].kind = layout[a] /\ entries[a].DIM = 3 * (a - 1)
    BY <1>1, <2>1 DEF OffsetsInv
  <2>3. /\ entries[1].IDX = 0
        /\ \A a \in 1 .. 7 : entries[a + 1].IDX = entries[a].IDX + DOF[entries[a].kind]
    BY <1>1, <2>1 DEF OffsetsInv
  <2>4. /\ entries[1].kind = "vect" /\ entries[2].kind = "SO3" /\ entries[3].kind = "SO3"
        /\ entries[4].kind = "vect" /\ entries[5].kind = "vect" /\ entries[6].kind = "vect"
        /\ entries[7].kind = "vect" /\ entries[8].kind = "S2"
    BY <2>2 DEF StateIkfom
  <2>5. /\ entries[1].DIM = 0 /\ entries[2].DIM = 3 /\ entries[5].DIM = 12
        /\ entries[6].DIM = 15 /\ entries[7].DIM = 18
    BY <2>2
  <2>6. /\ entries[2].IDX = entries[1].IDX + DOF[entries[1].kind]
        /\ entries[3].IDX = entries[2].IDX + DOF[entries[2].kind]
        /\ entries[4].IDX = entries[3].IDX + DOF[entries[3].kind]
        /\ entries[5].IDX = entries[4].IDX + DOF[entries[4].kind]
        /\ entries[6].IDX = entries[5].IDX + DOF[entries[5].kind]
        /\ entries[7].IDX = entries[6].IDX + DOF[entries[6].kind]
        /\ entries[8].IDX = entries[7].IDX + DOF[entries[7].kind]
    BY <2>3
  <2>7. /\ entries[1].IDX = 0 /\ entries[2].IDX = 3 /\ entries[5].IDX = 12
        /\ entries[6].IDX = 15 /\ entries[7].IDX = 18 /\ entries[8].IDX = 21
    BY <2>3, <2>4, <2>6, DOFs
  <2>8. /\ FieldRows(entries[1]) = Segment(0, 3) /\ FieldRows(entries[2]) = Segment(3, 3)
        /\ FieldRows(entries[5]) = Segment(12, 3) /\ FieldRows(entries[6]) = Segment(15, 3)
        /\ FieldRows(entries[7]) = Segment(18, 3) /\ FieldRows(entries[8]) = Segment(21, 2)
    BY <2>4, <2>7, DOFs DEF FieldRows
  <2>9. /\ FieldDims(entries[1]) = Segment(0, 3) /\ FieldDims(entries[2]) = Segment(3, 3)
        /\ FieldDims(entries[5]) = Segment(12, 3) /\ FieldDims(entries[6]) = Segment(15, 3)
        /\ FieldDims(entries[7]) = Segment(18, 3)
    BY <2>5 DEF FieldDims, DIM
  <2>10. \A f \in GetF : Segment(f[1], 3) = FieldDims(entries[f[2]])
    BY <2>9 DEF GetF, pos, rot, vel
  <2>11. \A b \in DfDx : /\ b[1].rows = FieldDims(entries[b[2]])
                         /\ b[1].cols = FieldRows(entries[b[3]])
    BY <2>8, <2>9 DEF DfDx, Block, pos, rot, vel, bg, ba, grav
  <2>12. \A b \in DfDw : /\ b[1].rows = FieldDims(entries[b[2]])
                         /\ b[1].cols = NoiseRows(b[3])
    BY <2>9 DEF DfDw, Block, NoiseRows, rot, vel, bg, ba
  <2>13. ASSUME NEW o \in OdometryBlocks
         PROVE  Segment(o[1], o[2]) = UNION {FieldRows(entries[a]) : a \in o[3]}
    <3>1. CASE o = <<0, 6, {pos, rot}>>
      <4>1. UNION {FieldRows(entries[a]) : a \in o[3]} = Segment(0, 3) \cup Segment(3, 3)
        BY <2>8, <3>1 DEF pos, rot
      <4> QED
        BY <3>1, <4>1 DEF Segment
    <3>2. CASE o = <<12, 3, {vel}>>
      BY <2>8, <3>2 DEF vel
    <3> QED
      BY <3>1, <3>2 DEF OdometryBlocks
  <2> QED
    BY <2>10, <2>11, <2>12, <2>13
<1> QED
  BY <1>1, OffsetsAlways, PTL

=============================================================================
