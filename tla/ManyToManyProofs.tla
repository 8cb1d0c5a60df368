-------------------------- MODULE ManyToManyProofs ---------------------------
(***************************************************************************)
(* What the many-to-many relation guarantees for any entities, edits,      *)
(* loads and flushes, when the application keeps to the restrictions of    *)
(* Careful.                                                                *)
(*                                                                         *)
(* The argument is about one pair of entities at a time.  What memory      *)
(* makes of a pair (Held) is its join row, or, without one, the table; all *)
(* that is known of the pair is relative to it: what each side shows       *)
(* (SideOk), and what the row knows of the table (RowOk).  A set that      *)
(* waits for its load is the one thing the application asked for that      *)
(* Held does not have yet.                                                 *)
(***************************************************************************)
EXTENDS ManyToMany, TLAPS

\* The restrictions under which no edit is lost; a failure may come anywhere but while a
\* flush waits for its loads and after its write.
Careful ==
  /\ ~BlindEdits /\ ~ReAdds /\ ~OverlappingSets /\ ~StaleLoads /\ ~LateSets /\ ~JoinOnlyRounds
  /\ {"awaiting", "written"} \cap FailAt = {}

----------------------------------------------------------------------------
(* A pair p of x and y: the collection c of x, the row r, the table T, what is wanted W. *)

IsSet(c) == c.kind = "pendingSet"
Held(r, p, T) == IF r = NoRow THEN p \in T ELSE ~r.deleted
Assumed(r, p, T) == r # NoRow /\ r.persisted /\ r.deleted /\ p \notin T
IsNew(r) == r # NoRow /\ ~r.persisted /\ ~r.deleted

\* What x's collection says of y.
SideOk(c, y, r, p, T, W) ==
  /\ IsSet(c) => (y \in c.members <=> p \in W)
  /\ c.kind = "loaded" => ((y \in c.members <=> Held(r, p, T)) /\ (p \in T => r # NoRow /\ r.persisted))
  /\ c.kind = "addedRemoved" => ((y \in c.members => r # NoRow /\ ~r.deleted) /\ (y \in c.removed => p \notin W))
  /\ IsNew(r) => y \in c.members

\* What the row says of the table; a new row may be one that the table has while a set waits.
RowOk(r, p, T, W, waits) ==
  /\ ~waits => (p \in W <=> Held(r, p, T))
  /\ p \in W => ~Assumed(r, p, T)
  /\ IsNew(r) => r.op = "pending"
  /\ r # NoRow /\ r.persisted /\ ~r.deleted => p \in T
  /\ r # NoRow /\ r.deleted /\ p \in T => r.op = "pending" /\ r.persisted
  /\ r # NoRow /\ ~r.persisted /\ p \in T => waits

PairOk(x, y, c, d, r, p, T, W) ==
  /\ ~(IsSet(c) /\ IsSet(d))
  /\ SideOk(c, y, r, p, T, W) /\ SideOk(d, x, r, p, T, W)
  /\ RowOk(r, p, T, W, IsSet(c) \/ IsSet(d))

PairsAt(C, R, T, W) ==
  \A x \in Entity : \A y \in Others(x) :
    PairOk(x, y, C[x], C[y], R[Link(x, y)], Link(x, y), T, W)
PairsOk == PairsAt(coll, rows, tx, wanted)

----------------------------------------------------------------------------
(* The flush and the loads. *)

\* The table that is read is tx; nothing can fail when it is not committed.
TableOk ==
  /\ inTx \/ db = tx
  /\ (pc \in {"write", "written", "commit"} \/ (rounds > 0 /\ pc # "committed")) => inTx
  /\ rounds = 0 /\ pc \notin {"written", "commit"} => db = tx
  /\ pc = "idle" => rounds = 0
  /\ pc = "query" => rounds > 0
  /\ pc = "committed" => db = tx

\* What a load has read is still so when it is applied.
ReadingOk ==
  \A x \in Entity : reading[x] # NotReading => ~IsLoaded(x) /\ reading[x] = LinksOf(x) \cap tx

\* A set waits for a load that this flush, or the next one, waits for.
SetsOk ==
  /\ \A x \in Entity : IsSet(coll[x]) =>
       /\ rounds = 0
       /\ \/ pc \in {"idle", "loads"} /\ x \in pendingLoads
          \/ pc = "awaiting" /\ x \in awaiting
  /\ pc = "awaiting" => \A x \in awaiting : reading[x] # NotReading \/ IsLoaded(x)

\* The todos are what there is to write, and once it is written there is nothing left.
TodoIs(p) ==
  /\ (p \in todo.inserts) <=> IsInsert(rows[p])
  /\ p \in todo.deletes => IsDelete(rows[p])
  /\ IsDelete(rows[p]) /\ p \in tx => p \in todo.deletes
TodoOk ==
  /\ pc \in {"validate", "write"} => \A p \in Pair : TodoIs(p)
  /\ pc \in {"written", "commit", "committed"} => \A p \in Pair : Held(rows[p], p, tx) <=> p \in tx

PhaseOk == TableOk /\ ReadingOk /\ SetsOk /\ TodoOk

\* A collection nobody has touched has no changes.
CollOk(x, c) ==
  /\ c \in Collections
  /\ c.members \cup c.removed \subseteq Others(x) /\ c.members \cap c.removed = {}
  /\ c.kind = "pristine" => c.members = {} /\ c.removed = {}
CollsOk(C) == DOMAIN C = Entity /\ C \in [Entity -> Collections] /\ \A x \in Entity : CollOk(x, C[x])
Row == Tracked \cup {NoRow}
MemOk == CollsOk(coll) /\ rows \in [Pair -> Row] /\ PairsOk

\* The types of everything else.
RestOk ==
  /\ pendingLoads \subseteq Entity /\ awaiting \subseteq Entity
  /\ DOMAIN reading = Entity
  /\ \A x \in Entity : reading[x] # NotReading => reading[x] \subseteq Pair
  /\ db \subseteq Pair /\ tx \subseteq Pair /\ wanted \subseteq Pair /\ inTx \in BOOLEAN
  /\ pc \in {"idle", "loads", "awaiting", "hooks", "validate", "write", "written", "query",
             "commit", "committed"}
  /\ todo \in Todos
  /\ rounds \in Nat /\ edits \in Nat /\ flushes \in Nat

\* The inductive invariant.
Inv == MemOk /\ RestOk /\ PhaseOk

----------------------------------------------------------------------------
(* Links. *)

\* The two sides of a pair are different entities, and either of them names the pair.
LEMMA Links ==
  ASSUME NEW x \in Entity, NEW y \in Others(x)
  PROVE  /\ y \in Entity /\ x \in Others(y) /\ x # y
         /\ Link(x, y) \in Pair /\ Link(y, x) = Link(x, y)
BY ManyToManyAssumption DEF Entity, Others, Link, Pair

\* A pair has no other names.
LEMMA SameLink ==
  ASSUME NEW x \in Entity, NEW y \in Others(x), NEW u \in Entity, NEW v \in Others(u),
         Link(x, y) = Link(u, v)
  PROVE  (u = x /\ v = y) \/ (u = y /\ v = x)
BY ManyToManyAssumption DEF Entity, Others, Link

\* Every pair is the link of two entities.
LEMMA PairIsLink ==
  ASSUME NEW p \in Pair
  PROVE  p[1] \in Entity /\ p[2] \in Others(p[1]) /\ p = Link(p[1], p[2])
BY ManyToManyAssumption DEF Entity, Others, Link, Pair

----------------------------------------------------------------------------
(* The operations of a join row. *)

\* NoRow is none of the rows that are tracked, which have three fields.
LEMMA Rows ==
  \A r \in Tracked : /\ r # NoRow /\ r.op \in {"pending", "flushed", "completed"}
                     /\ r.persisted \in BOOLEAN /\ r.deleted \in BOOLEAN
BY NoRowAssumption DEF Tracked

\* The rows that operations make of NoRow.
LEMMA SomeRow ==
  ASSUME NEW r, \/ r = [op |-> "pending", persisted |-> FALSE, deleted |-> FALSE]
                \/ r = [op |-> "pending", persisted |-> TRUE, deleted |-> TRUE]
                \/ r = [op |-> "completed", persisted |-> TRUE, deleted |-> FALSE]
  PROVE  r \in Tracked /\ r # NoRow
<1>1. r \in Tracked
  <2>1. CASE r = [op |-> "pending", persisted |-> FALSE, deleted |-> FALSE]
    BY <2>1 DEF Tracked
  <2>2. CASE r = [op |-> "pending", persisted |-> TRUE, deleted |-> TRUE]
    BY <2>2 DEF Tracked
  <2>3. CASE r = [op |-> "completed", persisted |-> TRUE, deleted |-> FALSE]
    BY <2>3 DEF Tracked
  <2> QED
    BY <2>1, <2>2, <2>3
<1> QED
  BY <1>1, NoRowAssumption

\* An added row is live and pending, and as persisted as it was.
LEMMA AddNewRow ==
  ASSUME NEW r \in Row
  PROVE  /\ AddNew(r) \in Tracked /\ AddNew(r) # NoRow
         /\ AddNew(r).deleted = FALSE /\ AddNew(r).op = "pending"
         /\ r = NoRow => AddNew(r).persisted = FALSE
         /\ r # NoRow => AddNew(r).persisted = r.persisted
<1>1. CASE r = NoRow
  <2>1. AddNew(r) = [op |-> "pending", persisted |-> FALSE, deleted |-> FALSE]
    BY <1>1 DEF AddNew
  <2> QED
    BY <1>1, <2>1, SomeRow
<1>2. CASE r \in Tracked
  BY <1>2, NoRowAssumption DEF AddNew, Tracked
<1> QED
  BY <1>1, <1>2 DEF Row

\* A removed row is forgotten if it was only ever in memory, and else deleted and pending.
LEMMA AddRemoveRow ==
  ASSUME NEW r \in Row
  PROVE  /\ AddRemove(r) \in Row
         /\ r # NoRow /\ ~r.persisted => AddRemove(r) = NoRow
         /\ r = NoRow \/ r.persisted =>
              /\ AddRemove(r) \in Tracked /\ AddRemove(r) # NoRow
              /\ AddRemove(r).deleted = TRUE /\ AddRemove(r).persisted = TRUE
              /\ AddRemove(r).op = "pending"
<1>1. CASE r = NoRow
  <2>1. AddRemove(r) = [op |-> "pending", persisted |-> TRUE, deleted |-> TRUE]
    BY <1>1 DEF AddRemove
  <2> QED
    BY <1>1, <2>1, SomeRow DEF Row
<1>2. CASE r \in Tracked
  BY <1>2, NoRowAssumption DEF AddRemove, Tracked, Row
<1> QED
  BY <1>1, <1>2 DEF Row

\* What loadRows makes of the row of a pair p, when T is what the query read.
ReadRow(r, p, T) == LoadRow(r, p \in T)

\* A row that the query returned is persisted, and one that it did not return is deleted.
LEMMA ReadRowRow ==
  ASSUME NEW r \in Row, NEW p, NEW T
  PROVE  /\ ReadRow(r, p, T) \in Row
         /\ r = NoRow /\ p \notin T => ReadRow(r, p, T) = NoRow
         /\ r # NoRow \/ p \in T => ReadRow(r, p, T) # NoRow
         /\ r = NoRow /\ p \in T => ReadRow(r, p, T).deleted = FALSE /\ ReadRow(r, p, T).op = "completed"
         /\ p \in T => ReadRow(r, p, T).persisted = TRUE
         /\ r # NoRow => ReadRow(r, p, T).op = r.op
         /\ r # NoRow /\ p \in T => ReadRow(r, p, T).deleted = r.deleted
         /\ r # NoRow /\ p \notin T => ReadRow(r, p, T).deleted = TRUE /\ ReadRow(r, p, T).persisted = r.persisted
<1>1. CASE r = NoRow
  <2>1. ReadRow(r, p, T) = IF p \in T THEN [op |-> "completed", persisted |-> TRUE, deleted |-> FALSE] ELSE NoRow
    BY <1>1 DEF ReadRow, LoadRow
  <2> QED
    BY <1>1, <2>1, SomeRow DEF Row
<1>2. CASE r \in Tracked
  <2>1. CASE p \in T
    BY <1>2, <2>1, NoRowAssumption DEF ReadRow, LoadRow, Tracked, Row
  <2>2. CASE p \notin T
    BY <1>2, <2>2, NoRowAssumption DEF ReadRow, LoadRow, Tracked, Row
  <2> QED
    BY <2>1, <2>2
<1> QED
  BY <1>1, <1>2 DEF Row

----------------------------------------------------------------------------
(* What an edit, a load or a write makes of one pair. *)

SameKind(c, c2) == c2.kind = c.kind \/ (c.kind = "pristine" /\ c2.kind = "addedRemoved")
SameFor(c, c2, y) ==
  /\ SameKind(c, c2)
  /\ y \in c2.members <=> y \in c.members
  /\ c2.kind = "addedRemoved" => (y \in c2.removed <=> y \in c.removed)
  /\ c.kind = "pristine" => y \notin c.members /\ y \notin c.removed

\* The pair is the same from either side.
LEMMA PairSwap ==
  ASSUME NEW x, NEW y, NEW c, NEW d, NEW r, NEW p, NEW T, NEW W, PairOk(x, y, c, d, r, p, T, W)
  PROVE  PairOk(y, x, d, c, r, p, T, W)
BY DEF PairOk, RowOk

\* A pair that nobody changes, though either collection may change elsewhere.
LEMMA PairKept ==
  ASSUME NEW x, NEW y, NEW c, NEW d, NEW c2, NEW d2, NEW r, NEW p, NEW T, NEW W, NEW W2,
         PairOk(x, y, c, d, r, p, T, W),
         SameFor(c, c2, y), SameFor(d, d2, x), p \in W2 <=> p \in W
  PROVE  PairOk(x, y, c2, d2, r, p, T, W2)
<1>1. IsSet(c2) <=> IsSet(c)
  BY DEF SameFor, SameKind, IsSet
<1>2. IsSet(d2) <=> IsSet(d)
  BY DEF SameFor, SameKind, IsSet
<1>3. SideOk(c2, y, r, p, T, W2)
  BY DEF PairOk, SideOk, SameFor, SameKind, IsSet
<1>4. SideOk(d2, x, r, p, T, W2)
  BY DEF PairOk, SideOk, SameFor, SameKind, IsSet
<1>5. RowOk(r, p, T, W2, IsSet(c2) \/ IsSet(d2))
  BY <1>1, <1>2 DEF PairOk, RowOk
<1> QED
  BY <1>1, <1>2, <1>3, <1>4, <1>5 DEF PairOk

\* A link that is not there is added, on both sides.
LEMMA PairAdded ==
  ASSUME NEW x, NEW y, NEW c, NEW d, NEW c2, NEW d2, NEW r \in Row, NEW p, NEW T, NEW W, NEW W2,
         PairOk(x, y, c, d, r, p, T, W), SameKind(c, c2), SameKind(d, d2),
         y \in c2.members, y \notin c2.removed, x \in d2.members, x \notin d2.removed,
         p \notin W, p \in W2, ~Assumed(r, p, T)
  PROVE  PairOk(x, y, c2, d2, AddNew(r), p, T, W2)
<1> DEFINE r2 == AddNew(r)
<1>1. r2 # NoRow /\ ~r2.deleted /\ r2.op = "pending" /\ (r2.persisted <=> r # NoRow /\ r.persisted)
  BY AddNewRow
<1>2. IsSet(c2) <=> IsSet(c)
  BY DEF SameKind, IsSet
<1>3. IsSet(d2) <=> IsSet(d)
  BY DEF SameKind, IsSet
<1> HIDE DEF r2
<1>4. SideOk(c2, y, r2, p, T, W2)
  BY <1>1 DEF PairOk, SideOk, SameKind, IsSet, Held, IsNew
<1>5. SideOk(d2, x, r2, p, T, W2)
  BY <1>1 DEF PairOk, SideOk, SameKind, IsSet, Held, IsNew
<1>6. RowOk(r2, p, T, W2, IsSet(c2) \/ IsSet(d2))
  BY <1>1, <1>2, <1>3 DEF PairOk, RowOk, Held, IsNew, Assumed
<1> QED
  BY <1>2, <1>3, <1>4, <1>5, <1>6 DEF PairOk, r2

\* A link that is there is removed, on both sides.
LEMMA PairRemoved ==
  ASSUME NEW x, NEW y, NEW c, NEW d, NEW c2, NEW d2, NEW r \in Row, NEW p, NEW T, NEW W, NEW W2,
         PairOk(x, y, c, d, r, p, T, W), SameKind(c, c2), SameKind(d, d2),
         y \notin c2.members, x \notin d2.members, p \in W, p \notin W2
  PROVE  PairOk(x, y, c2, d2, AddRemove(r), p, T, W2)
<1> DEFINE r2 == AddRemove(r)
<1>1. CASE r # NoRow /\ ~r.persisted
  <2>1. r2 = NoRow
    BY <1>1, AddRemoveRow
  <2> QED
    BY <1>1, <2>1 DEF PairOk, SideOk, RowOk, SameKind, IsSet, Held, IsNew, Assumed
<1>2. CASE r = NoRow \/ r.persisted
  <2>1. r2 # NoRow /\ r2.deleted /\ r2.persisted /\ r2.op = "pending"
    BY <1>2, AddRemoveRow
  <2> HIDE DEF r2
  <2>2. SideOk(c2, y, r2, p, T, W2) /\ SideOk(d2, x, r2, p, T, W2)
    BY <2>1 DEF PairOk, SideOk, SameKind, IsSet, Held, IsNew
  <2>3. RowOk(r2, p, T, W2, IsSet(c2) \/ IsSet(d2))
    BY <2>1 DEF PairOk, RowOk, Held, IsNew, Assumed
  <2>4. ~(IsSet(c2) /\ IsSet(d2))
    BY DEF PairOk, SameKind, IsSet
  <2> QED
    BY <2>2, <2>3, <2>4 DEF PairOk, r2
<1> QED
  BY <1>1, <1>2

\* What the load of a collection c makes of a row of it: that of a change made before the load
\* is registered again.
LoadedRow(c, y, r, p, T) ==
  LET r1 == ReadRow(r, p, T)
      gone == IF IsSet(c) THEN Live(r1) /\ y \notin c.members ELSE y \in c.removed
      new == y \in c.members /\ ~Live(r1)
  IN CASE gone -> AddRemove(r1) [] new /\ ~gone -> AddNew(r1) [] OTHER -> r1

\* The row of a pair after the load of one of its sides.
LEMMA RowLoaded ==
  ASSUME NEW x, NEW y, NEW c, NEW d, NEW r \in Row, NEW p, NEW T, NEW W,
         PairOk(x, y, c, d, r, p, T, W), c.kind \in {"pristine", "addedRemoved", "pendingSet"},
         y \in c.members => y \notin c.removed,
         c.kind = "pristine" => y \notin c.members /\ y \notin c.removed
  PROVE  LET r2 == LoadedRow(c, y, r, p, T)
         IN /\ r2 \in Row
            /\ RowOk(r2, p, T, W, IsSet(d))
            /\ p \in T => r2 # NoRow /\ r2.persisted
            /\ IsNew(r2) => p \in W
            /\ ~IsSet(d) => (Held(r2, p, T) <=> p \in W)
            /\ ~IsSet(c) /\ ~IsSet(d) => /\ IsNew(r2) <=> IsNew(r)
                                         /\ IsDelete(r) => IsDelete(r2)
                                         /\ p \in T /\ IsDelete(r2) => IsDelete(r)
<1> DEFINE r1 == ReadRow(r, p, T)
           gone == IF IsSet(c) THEN Live(r1) /\ y \notin c.members ELSE y \in c.removed
           new == y \in c.members /\ ~Live(r1)
           r2 == LoadedRow(c, y, r, p, T)
<1> SUFFICES /\ r2 \in Row
             /\ RowOk(r2, p, T, W, IsSet(d))
             /\ p \in T => r2 # NoRow /\ r2.persisted
             /\ IsNew(r2) => p \in W
             /\ ~IsSet(c) /\ ~IsSet(d) => /\ IsNew(r2) <=> IsNew(r)
                                          /\ IsDelete(r) => IsDelete(r2)
                                          /\ p \in T /\ IsDelete(r2) => IsDelete(r)
  BY DEF RowOk
<1>1. /\ r1 \in Row
      /\ r = NoRow /\ p \notin T => r1 = NoRow
      /\ r # NoRow \/ p \in T => r1 # NoRow
      /\ r = NoRow /\ p \in T => r1.deleted = FALSE /\ r1.op = "completed"
      /\ p \in T => r1.persisted = TRUE
      /\ r # NoRow => r1.op = r.op
      /\ r # NoRow /\ p \in T => r1.deleted = r.deleted
      /\ r # NoRow /\ p \notin T => r1.deleted = TRUE /\ r1.persisted = r.persisted
  BY ReadRowRow
<1>2. r # NoRow => r.op \in {"pending", "flushed", "completed"} /\ r.persisted \in BOOLEAN /\ r.deleted \in BOOLEAN
  BY Rows DEF Row
<1>3. CASE gone
  <2>1. r2 = AddRemove(r1)
    BY <1>3 DEF LoadedRow
  <2> HIDE DEF r2, r1
  <2>2. /\ r2 \in Row
        /\ r1 # NoRow /\ ~r1.persisted => r2 = NoRow
        /\ r1 = NoRow \/ r1.persisted => /\ r2 # NoRow /\ r2.op = "pending"
                                         /\ r2.deleted = TRUE /\ r2.persisted = TRUE
    BY <1>1, <2>1, AddRemoveRow
  <2>3. p \notin W
    BY <1>1, <1>2, <1>3 DEF PairOk, SideOk, RowOk, IsSet, Held, Live
  <2>4. RowOk(r2, p, T, W, IsSet(d)) /\ ~IsNew(r2)
    BY <1>1, <1>2, <2>2, <2>3 DEF PairOk, SideOk, RowOk, IsSet, Held, IsNew, Assumed
  <2>5. ~IsSet(c) /\ ~IsSet(d) => /\ IsNew(r2) <=> IsNew(r)
                                  /\ IsDelete(r) => IsDelete(r2)
                                  /\ p \in T /\ IsDelete(r2) => IsDelete(r)
    BY <1>1, <1>2, <2>2, <2>3 DEF PairOk, SideOk, RowOk, IsSet, Held, IsNew, Assumed, IsDelete
  <2>6. p \in T => r2 # NoRow /\ r2.persisted
    BY <1>1, <2>2
  <2> QED
    BY <2>2, <2>3, <2>4, <2>5, <2>6
<1>4. CASE ~gone /\ new
  <2>1. r2 = AddNew(r1)
    BY <1>4 DEF LoadedRow
  <2> HIDE DEF r2, r1
  <2>2. /\ r2 \in Row /\ r2 # NoRow /\ r2.op = "pending" /\ r2.deleted = FALSE
        /\ r2.persisted <=> r1 # NoRow /\ r1.persisted
    BY <1>1, <2>1, AddNewRow DEF Row
  <2>3. RowOk(r2, p, T, W, IsSet(d)) /\ (IsNew(r2) => p \in W) /\ (~IsSet(d) => p \in W)
    BY <1>1, <1>2, <1>4, <2>2 DEF PairOk, SideOk, RowOk, IsSet, Held, IsNew, Assumed, Live
  <2>4. ~IsSet(c) /\ ~IsSet(d) => /\ IsNew(r2) <=> IsNew(r)
                                  /\ IsDelete(r) => IsDelete(r2)
                                  /\ p \in T /\ IsDelete(r2) => IsDelete(r)
    BY <1>1, <1>2, <1>4, <2>2 DEF PairOk, SideOk, RowOk, IsSet, Held, IsNew, Assumed, IsDelete, Live
  <2> QED
    BY <1>1, <2>2, <2>3, <2>4
<1>5. CASE ~gone /\ ~new
  <2>1. r2 = r1
    BY <1>5 DEF LoadedRow
  <2> HIDE DEF r2, r1
  <2>2. RowOk(r2, p, T, W, IsSet(d)) /\ (IsNew(r2) => p \in W)
    BY <1>1, <1>2, <1>5, <2>1 DEF PairOk, SideOk, RowOk, IsSet, Held, IsNew, Assumed, Live
  <2>3. ~IsSet(c) /\ ~IsSet(d) => /\ IsNew(r2) <=> IsNew(r)
                                  /\ IsDelete(r) => IsDelete(r2)
                                  /\ p \in T /\ IsDelete(r2) => IsDelete(r)
    BY <1>1, <1>2, <1>5, <2>1 DEF PairOk, SideOk, RowOk, IsSet, Held, IsNew, Assumed, IsDelete, Live
  <2> QED
    BY <1>1, <2>1, <2>2, <2>3
<1> QED
  BY <1>3, <1>4, <1>5

\* The pair after the load of x: its collection c2 shows the row, and the other side d2 heard
\* of what a set made of the row.
LEMMA PairLoaded ==
  ASSUME NEW x, NEW y, NEW c, NEW d, NEW c2, NEW d2, NEW r \in Row, NEW r2, NEW p, NEW T, NEW W,
         PairOk(x, y, c, d, r, p, T, W), c.kind \in {"pristine", "addedRemoved", "pendingSet"},
         y \in c.members => y \notin c.removed,
         c.kind = "pristine" => y \notin c.members /\ y \notin c.removed,
         r2 = LoadedRow(c, y, r, p, T),
         c2.kind = "loaded",
         y \in c2.members <=> IF IsSet(c) THEN y \in c.members
                              ELSE (Live(ReadRow(r, p, T)) \/ y \in c.members) /\ y \notin c.removed,
         IF IsSet(c) /\ Live(ReadRow(r, p, T)) /\ y \notin c.members THEN SameKind(d, d2) /\ x \notin d2.members
         ELSE IF IsSet(c) /\ ~Live(ReadRow(r, p, T)) /\ y \in c.members
         THEN SameKind(d, d2) /\ x \in d2.members /\ x \notin d2.removed
         ELSE SameFor(d, d2, x)
  PROVE  PairOk(x, y, c2, d2, r2, p, T, W)
<1> DEFINE r1 == ReadRow(r, p, T)
           gone == IF IsSet(c) THEN Live(r1) /\ y \notin c.members ELSE y \in c.removed
           new == y \in c.members /\ ~Live(r1)
<1>1. /\ r1 \in Row
      /\ r = NoRow /\ p \notin T => r1 = NoRow
      /\ r # NoRow \/ p \in T => r1 # NoRow
      /\ r = NoRow /\ p \in T => r1.deleted = FALSE /\ r1.op = "completed"
      /\ p \in T => r1.persisted = TRUE
      /\ r # NoRow => r1.op = r.op
      /\ r # NoRow /\ p \in T => r1.deleted = r.deleted
      /\ r # NoRow /\ p \notin T => r1.deleted = TRUE /\ r1.persisted = r.persisted
  BY ReadRowRow
<1> HIDE DEF r1
<1>2. r # NoRow => r.op \in {"pending", "flushed", "completed"} /\ r.persisted \in BOOLEAN /\ r.deleted \in BOOLEAN
  BY Rows DEF Row
<1>3. /\ r2 \in Row
      /\ RowOk(r2, p, T, W, IsSet(d))
      /\ p \in T => r2 # NoRow /\ r2.persisted
      /\ IsNew(r2) => p \in W
      /\ ~IsSet(d) => (Held(r2, p, T) <=> p \in W)
      /\ ~IsSet(c) /\ ~IsSet(d) => (IsNew(r2) <=> IsNew(r))
  BY RowLoaded
<1>4. /\ gone => r2 = AddRemove(r1) /\ ~Live(r2) /\ ~IsNew(r2)
      /\ ~gone /\ new => r2 = AddNew(r1) /\ Live(r2)
      /\ ~gone /\ ~new => r2 = r1
  <2>1. /\ gone => r2 = AddRemove(r1)
        /\ ~gone /\ new => r2 = AddNew(r1)
        /\ ~gone /\ ~new => r2 = r1
    BY DEF LoadedRow, r1
  <2>2. ~Live(AddRemove(r1)) /\ ~IsNew(AddRemove(r1))
    BY <1>1, AddRemoveRow DEF Live, IsNew
  <2>3. Live(AddNew(r1))
    BY <1>1, AddNewRow DEF Live
  <2> QED
    BY <2>1, <2>2, <2>3
<1>0. ReadRow(r, p, T) = r1
  BY DEF r1
<1>5. y \in c2.members <=> Live(r2)
  BY <1>0, <1>4
<1>6. Held(r2, p, T) <=> Live(r2)
  BY <1>3 DEF Held, Live
<1>7. SameKind(d, d2) /\ (IsSet(d2) <=> IsSet(d))
  BY DEF SameKind, SameFor, IsSet
<1>8. SideOk(c2, y, r2, p, T, W)
  BY <1>3, <1>5, <1>6 DEF SideOk, IsSet, IsNew, Live
<1>9. RowOk(r2, p, T, W, IsSet(c2) \/ IsSet(d2))
  BY <1>3, <1>7 DEF RowOk, IsSet
<1>10. SideOk(d2, x, r2, p, T, W)
  <2>1. CASE IsSet(c)
    <3>1. ~IsSet(d) /\ ~IsSet(d2) /\ (y \in c.members <=> p \in W)
      BY <2>1, <1>7 DEF PairOk, SideOk
    <3>2. CASE gone
      BY <2>1, <3>1, <3>2, <1>0, <1>3, <1>4, <1>6, <1>7 DEF SideOk
    <3>3. CASE ~gone /\ new
      BY <2>1, <3>1, <3>3, <1>0, <1>3, <1>4, <1>6, <1>7 DEF SideOk, Live
    <3>4. CASE ~gone /\ ~new
      <4>1. r2 = r1 /\ SameFor(d, d2, x)
        BY <1>0, <2>1, <3>4, <1>4
      <4> QED
        BY <2>1, <3>1, <3>4, <4>1, <1>1, <1>2, <1>3, <1>6 DEF PairOk, SideOk, RowOk, Live, SameFor, SameKind, IsSet, Held, IsNew
    <3> QED
      BY <3>2, <3>3, <3>4
  <2>2. CASE ~IsSet(c)
    <3>1. SameFor(d, d2, x)
      BY <2>2
    <3>2. CASE IsSet(d)
      BY <2>2, <3>1, <3>2, <1>3, <1>7 DEF PairOk, SideOk, SameFor, IsSet
    <3>3. CASE ~IsSet(d)
      <4>1. /\ Held(r, p, T) <=> p \in W
            /\ Held(r2, p, T) <=> p \in W
            /\ IsNew(r2) <=> IsNew(r)
        BY <2>2, <3>3, <1>3 DEF PairOk, RowOk
      <4> QED
        BY <3>1, <3>3, <4>1, <1>3, <1>6 DEF PairOk, SideOk, SameFor, SameKind, IsSet, Live, Held
    <3> QED
      BY <3>2, <3>3
  <2> QED
    BY <2>1, <2>2
<1> QED
  BY <1>8, <1>9, <1>10 DEF PairOk, IsSet

\* A set that waits for its load changes neither the row nor the other side, and no other
\* change to the pair waits.
LEMMA PairSetLater ==
  ASSUME NEW x, NEW y, NEW c, NEW d, NEW c2, NEW r, NEW p, NEW T, NEW W, NEW W2,
         PairOk(x, y, c, d, r, p, T, W), IsSet(c2), ~IsSet(d), y \in c2.members <=> p \in W2,
         d.kind = "addedRemoved" => x \notin d.members \cup d.removed,
         r # NoRow => r.op # "pending", p \in W2 => ~Assumed(r, p, T)
  PROVE  PairOk(x, y, c2, d, r, p, T, W2)
<1>1. SideOk(c2, y, r, p, T, W2)
  BY DEF PairOk, SideOk, RowOk, IsSet, IsNew
<1>2. SideOk(d, x, r, p, T, W2)
  BY DEF PairOk, SideOk, RowOk, IsSet, IsNew
<1>3. RowOk(r, p, T, W2, IsSet(c2) \/ IsSet(d))
  BY DEF PairOk, RowOk
<1> QED
  BY <1>1, <1>2, <1>3 DEF PairOk

\* A row once the todos I and D are written.
WrittenRow(r, p, I, D) ==
  CASE r # NoRow /\ p \in I -> Inserted(r)
    [] r # NoRow /\ p \in D -> Removed(r)
    [] OTHER -> r

\* A row that was written, and the table T2 that has it or not.
LEMMA PairWritten ==
  ASSUME NEW x, NEW y, NEW c, NEW d, NEW r \in Row, NEW p, NEW T, NEW T2, NEW W, NEW I, NEW D,
         PairOk(x, y, c, d, r, p, T, W), ~IsSet(c), ~IsSet(d),
         p \in I <=> IsInsert(r), p \in D => IsDelete(r), IsDelete(r) /\ p \in T => p \in D,
         p \in T2 <=> (p \in T \/ p \in I) /\ p \notin D
  PROVE  LET r2 == WrittenRow(r, p, I, D)
         IN /\ r2 \in Row
            /\ PairOk(x, y, c, d, r2, p, T2, W)
            /\ Held(r2, p, T2) <=> p \in T2
<1> DEFINE r2 == WrittenRow(r, p, I, D)
<1> SUFFICES /\ r2 \in Row
             /\ PairOk(x, y, c, d, r2, p, T2, W)
             /\ Held(r2, p, T2) <=> p \in T2
  OBVIOUS
<1>1. r # NoRow => r.op \in {"pending", "flushed", "completed"} /\ r.persisted \in BOOLEAN /\ r.deleted \in BOOLEAN
  BY Rows DEF Row
<1>2. /\ SideOk(c, y, r, p, T, W) /\ SideOk(d, x, r, p, T, W)
      /\ RowOk(r, p, T, W, FALSE)
  BY DEF PairOk, RowOk
<1>3. CASE p \in I
  <2>1. r \in Tracked /\ r # NoRow /\ ~r.persisted /\ ~r.deleted /\ p \notin D /\ p \in T2 /\ p \notin T
    BY <1>2, <1>3 DEF IsInsert, IsDelete, Row, RowOk
  <2>2. r2 \in Tracked /\ r2.op = "flushed" /\ r2.persisted = TRUE /\ r2.deleted = r.deleted
    BY <1>3, <2>1 DEF WrittenRow, Inserted, Tracked
  <2>3. r2 # NoRow
    BY <2>2, Rows
  <2> HIDE DEF r2
  <2>4. SideOk(c, y, r2, p, T2, W) /\ SideOk(d, x, r2, p, T2, W)
    BY <1>2, <2>1, <2>2, <2>3 DEF SideOk, Held, IsNew, IsSet
  <2>5. RowOk(r2, p, T2, W, IsSet(c) \/ IsSet(d))
    BY <1>2, <2>1, <2>2, <2>3 DEF RowOk, Held, IsNew, Assumed
  <2>6. r2 \in Row /\ (Held(r2, p, T2) <=> p \in T2)
    BY <2>1, <2>2, <2>3 DEF Row, Held
  <2> QED
    BY <2>4, <2>5, <2>6 DEF PairOk
<1>4. CASE p \in D
  <2>1. r \in Tracked /\ r # NoRow /\ r.persisted /\ r.deleted /\ p \notin I /\ p \notin T2
    BY <1>2, <1>4 DEF IsInsert, IsDelete, Row, RowOk
  <2>2. r2 \in Tracked /\ r2.op = "flushed" /\ r2.persisted = FALSE /\ r2.deleted = r.deleted
    BY <1>4, <2>1 DEF WrittenRow, Removed, Tracked
  <2>3. r2 # NoRow
    BY <2>2, Rows
  <2> HIDE DEF r2
  <2>4. SideOk(c, y, r2, p, T2, W) /\ SideOk(d, x, r2, p, T2, W)
    BY <1>2, <2>1, <2>2, <2>3 DEF SideOk, Held, IsNew, IsSet
  <2>5. RowOk(r2, p, T2, W, IsSet(c) \/ IsSet(d))
    BY <1>2, <2>1, <2>2, <2>3 DEF RowOk, Held, IsNew, Assumed
  <2>6. r2 \in Row /\ (Held(r2, p, T2) <=> p \in T2)
    BY <2>1, <2>2, <2>3 DEF Row, Held
  <2> QED
    BY <2>4, <2>5, <2>6 DEF PairOk
<1>5. CASE p \notin I /\ p \notin D
  <2>1. r2 = r /\ (p \in T2 <=> p \in T)
    BY <1>5 DEF WrittenRow
  <2>2. ~IsInsert(r) /\ (IsDelete(r) => p \notin T)
    BY <1>5
  <2>3. SideOk(c, y, r, p, T2, W) /\ SideOk(d, x, r, p, T2, W)
    BY <1>2, <2>1 DEF SideOk, Held, IsNew, IsSet
  <2>4. RowOk(r, p, T2, W, IsSet(c) \/ IsSet(d))
    BY <1>2, <2>1 DEF RowOk, Held, IsNew, Assumed
  <2>5. Held(r, p, T2) <=> p \in T2
    BY <1>1, <1>2, <2>1, <2>2 DEF Held, RowOk, IsInsert, IsDelete, IsNew
  <2> QED
    BY <2>1, <2>3, <2>4, <2>5 DEF PairOk
<1> QED
  BY <1>3, <1>4, <1>5

\* A row that says what the table says may be forgotten to be pending.
LEMMA PairReset ==
  ASSUME NEW x, NEW y, NEW c, NEW d, NEW r \in Row, NEW p, NEW T, NEW W,
         PairOk(x, y, c, d, r, p, T, W), ~IsSet(c), ~IsSet(d), Held(r, p, T) <=> p \in T
  PROVE  ResetAfterFlushed(r) \in Row /\ PairOk(x, y, c, d, ResetAfterFlushed(r), p, T, W)
<1>1. CASE r = NoRow
  BY <1>1 DEF ResetAfterFlushed, Row
<1>2. CASE r \in Tracked
  <2> DEFINE r2 == ResetAfterFlushed(r)
  <2>1. r # NoRow
    BY <1>2, Rows
  <2>2. r2 \in Tracked /\ r2.op = "completed" /\ r2.persisted = r.persisted /\ r2.deleted = r.deleted
    BY <1>2, <2>1 DEF ResetAfterFlushed, Tracked
  <2>3. r2 # NoRow
    BY <2>2, Rows
  <2>4. RowOk(r, p, T, W, FALSE)
    BY DEF PairOk, RowOk
  <2> HIDE DEF r2
  <2>5. SideOk(c, y, r2, p, T, W) /\ SideOk(d, x, r2, p, T, W)
    BY <2>1, <2>2, <2>3 DEF PairOk, SideOk, Held, IsNew, IsSet
  <2>6. RowOk(r2, p, T, W, IsSet(c) \/ IsSet(d))
    BY <2>1, <2>2, <2>3, <2>4 DEF RowOk, Held, IsNew, Assumed
  <2> QED
    BY <2>2, <2>5, <2>6 DEF PairOk, Row, r2
<1> QED
  BY <1>1, <1>2 DEF Row

----------------------------------------------------------------------------
(* What the operations make of all collections and rows. *)

\* An entity is added to a collection, and no other one is touched.
LEMMA AddToColl ==
  ASSUME NEW x \in Entity, NEW c, CollOk(x, c), NEW y \in Others(x)
  PROVE  /\ CollOk(x, AddTo(c, y)) /\ SameKind(c, AddTo(c, y))
         /\ y \in AddTo(c, y).members /\ y \notin AddTo(c, y).removed
         /\ \A z : z # y => SameFor(c, AddTo(c, y), z)
<1> DEFINE c2 == AddTo(c, y)
<1>1. y \in Entity
  BY Links
<1>2. CASE c.kind = "pristine"
  <2>1. c2 = [kind |-> "addedRemoved", members |-> {y}, removed |-> {}]
    BY <1>2 DEF AddTo
  <2>2. c2 \in Collections
    BY <1>1, <2>1 DEF Collections
  <2> HIDE DEF c2
  <2>3. c2.kind = "addedRemoved" /\ c2.members = {y} /\ c2.removed = {}
    BY <2>1
  <2> QED
    BY <1>2, <2>2, <2>3 DEF c2, CollOk, SameKind, SameFor
<1>3. CASE c.kind # "pristine"
  <2>1. c2 = [c EXCEPT !.members = @ \cup {y}, !.removed = @ \ {y}]
    BY <1>3 DEF AddTo
  <2>2. c2 \in Collections
    <3>1. c.kind \in {"pristine", "addedRemoved", "pendingSet", "loaded"} /\ c.members \subseteq Entity /\ c.removed \subseteq Entity
      BY DEF CollOk, Collections
    <3>2. c2 = [kind |-> c.kind, members |-> c.members \cup {y}, removed |-> c.removed \ {y}]
      BY <2>1 DEF CollOk, Collections
    <3> QED
      BY <1>1, <3>1, <3>2 DEF Collections
  <2> HIDE DEF c2
  <2>3. c2.kind = c.kind /\ c2.members = c.members \cup {y} /\ c2.removed = c.removed \ {y}
    BY <2>1 DEF CollOk, Collections
  <2> QED
    BY <1>3, <2>2, <2>3 DEF c2, CollOk, SameKind, SameFor
<1> QED
  BY <1>2, <1>3

\* An entity is removed from a collection, and no other one is touched.
LEMMA RemoveFromColl ==
  ASSUME NEW x \in Entity, NEW c, CollOk(x, c), NEW y \in Others(x)
  PROVE  /\ CollOk(x, RemoveFrom(c, y)) /\ SameKind(c, RemoveFrom(c, y))
         /\ y \notin RemoveFrom(c, y).members
         /\ \A z : z # y => SameFor(c, RemoveFrom(c, y), z)
<1> DEFINE c2 == RemoveFrom(c, y)
<1>1. y \in Entity
  BY Links
<1>2. CASE c.kind = "pristine"
  <2>1. c2 = [kind |-> "addedRemoved", members |-> {}, removed |-> {y}]
    BY <1>2 DEF RemoveFrom
  <2>2. c2 \in Collections
    BY <1>1, <2>1 DEF Collections
  <2> HIDE DEF c2
  <2>3. c2.kind = "addedRemoved" /\ c2.members = {} /\ c2.removed = {y}
    BY <2>1
  <2> QED
    BY <1>2, <2>2, <2>3 DEF c2, CollOk, SameKind, SameFor
<1>3. CASE c.kind = "addedRemoved"
  <2>1. c2 = [c EXCEPT !.members = @ \ {y}, !.removed = @ \cup {y}]
    BY <1>3 DEF RemoveFrom
  <2>2. c2 \in Collections
    <3>1. c.kind \in {"pristine", "addedRemoved", "pendingSet", "loaded"} /\ c.members \subseteq Entity /\ c.removed \subseteq Entity
      BY DEF CollOk, Collections
    <3>2. c2 = [kind |-> c.kind, members |-> c.members \ {y}, removed |-> c.removed \cup {y}]
      BY <2>1 DEF CollOk, Collections
    <3> QED
      BY <1>1, <3>1, <3>2 DEF Collections
  <2> HIDE DEF c2
  <2>3. c2.kind = c.kind /\ c2.members = c.members \ {y} /\ c2.removed = c.removed \cup {y}
    BY <2>1 DEF CollOk, Collections
  <2> QED
    BY <1>3, <2>2, <2>3 DEF c2, CollOk, SameKind, SameFor
<1>4. CASE c.kind \in {"pendingSet", "loaded"}
  <2>1. c2 = [c EXCEPT !.members = @ \ {y}]
    BY <1>4 DEF RemoveFrom
  <2>2. c2 \in Collections
    BY <1>1, <2>1 DEF Collections, CollOk
  <2> HIDE DEF c2
  <2>3. c2.kind = c.kind /\ c2.members = c.members \ {y} /\ c2.removed = c.removed
    BY <2>1 DEF CollOk, Collections
  <2> QED
    BY <1>4, <2>2, <2>3 DEF c2, CollOk, SameKind, SameFor
<1> QED
  BY <1>2, <1>3, <1>4 DEF CollOk, Collections

\* The collections after x became c2.
After(C, x, gone, new, c2) == [Percolated(C, x, gone, new) EXCEPT ![x] = c2]

Heard(C, C2, x, c2, gone, new) ==
  /\ CollsOk(C2) /\ C2[x] = c2
  /\ \A z \in Entity : z # x =>
       /\ SameKind(C[z], C2[z])
       /\ z \in gone => x \notin C2[z].members
       /\ z \in new => x \in C2[z].members /\ x \notin C2[z].removed
       /\ z \notin gone /\ z \notin new => C2[z] = C[z]
       /\ \A v : v # x => SameFor(C[z], C2[z], v)

\* The entities that x drops and gains hear of x, and nothing else changes for anybody.
LEMMA Percolates ==
  ASSUME NEW C, NEW C2, NEW x \in Entity, NEW c2, NEW gone, NEW new, CollsOk(C), CollOk(x, c2),
         gone \subseteq Others(x), new \subseteq Others(x), \A z \in gone : z \notin new,
         C2 = After(C, x, gone, new, c2)
  PROVE  Heard(C, C2, x, c2, gone, new)
<1>1. DOMAIN C2 = Entity /\ C2[x] = c2
  BY DEF After, Percolated
<1>2. ASSUME NEW z \in Entity, z # x
      PROVE  C2[z] = CASE z \in gone -> RemoveFrom(C[z], x) [] z \in new -> AddTo(C[z], x) [] OTHER -> C[z]
  BY <1>2 DEF After, Percolated
<1>3. ASSUME NEW z \in Entity, z # x
      PROVE  /\ CollOk(z, C2[z]) /\ SameKind(C[z], C2[z])
             /\ z \in gone => x \notin C2[z].members
             /\ z \in new => x \in C2[z].members /\ x \notin C2[z].removed
             /\ z \notin gone /\ z \notin new => C2[z] = C[z]
             /\ \A v : v # x => SameFor(C[z], C2[z], v)
  <2>1. CollOk(z, C[z])
    BY DEF CollsOk
  <2> PICK d : d = C2[z]
    OBVIOUS
  <2>2. CASE z \in gone
    <3>1. x \in Others(z) /\ d = RemoveFrom(C[z], x)
      BY <1>2, <1>3, <2>2, Links
    <3> QED
      BY <2>1, <2>2, <3>1, RemoveFromColl
  <2>3. CASE z \in new
    <3>1. x \in Others(z) /\ d = AddTo(C[z], x)
      BY <1>2, <1>3, <2>3, Links
    <3> QED
      BY <2>1, <2>3, <3>1, AddToColl
  <2>4. CASE z \notin gone /\ z \notin new
    <3>1. d = C[z]
      BY <1>2, <1>3, <2>4
    <3>2. \A v : SameFor(C[z], C[z], v)
      BY <2>1 DEF CollOk, SameFor, SameKind
    <3> QED
      BY <2>1, <2>4, <3>1, <3>2 DEF SameKind
  <2> QED
    BY <2>2, <2>3, <2>4
<1>4. \A z \in Entity : CollOk(z, C2[z])
  BY <1>1, <1>3
<1>5. C2 \in [Entity -> Collections]
  <2>1. C2 = [z \in Entity |-> C2[z]]
    BY <1>1 DEF After, Percolated
  <2> QED
    BY <1>4, <2>1 DEF CollOk
<1> QED
  BY <1>1, <1>3, <1>4, <1>5 DEF CollsOk, Heard

\* Only links of x change, and they are in order afterwards.
ChangedAt(x, C, C2, R, R2, T, W, W2) ==
  /\ \A y \in Others(x) : PairOk(x, y, C2[x], C2[y], R2[Link(x, y)], Link(x, y), T, W2)
  /\ \A z \in Entity : z # x => \A v : v # x => SameFor(C[z], C2[z], v)
  /\ \A p \in Pair : p \notin LinksOf(x) => R2[p] = R[p] /\ (p \in W2 <=> p \in W)

\* Changes to the links of one x leave every other pair as it was.
LEMMA Frame ==
  ASSUME NEW C, NEW C2, NEW R, NEW R2, NEW T, NEW W, NEW W2, PairsAt(C, R, T, W), NEW x \in Entity,
         ChangedAt(x, C, C2, R, R2, T, W, W2)
  PROVE  PairsAt(C2, R2, T, W2)
<1> SUFFICES ASSUME NEW u \in Entity, NEW v \in Others(u)
             PROVE  PairOk(u, v, C2[u], C2[v], R2[Link(u, v)], Link(u, v), T, W2)
  BY DEF PairsAt
<1>1. v \in Entity /\ u \in Others(v) /\ u # v /\ Link(u, v) \in Pair /\ Link(v, u) = Link(u, v)
  BY Links
<1>2. CASE u = x
  BY <1>2 DEF ChangedAt
<1>3. CASE v = x
  <2>1. PairOk(v, u, C2[v], C2[u], R2[Link(u, v)], Link(u, v), T, W2)
    BY <1>1, <1>3 DEF ChangedAt
  <2> QED
    BY <2>1, PairSwap
<1>4. CASE u # x /\ v # x
  <2>1. Link(u, v) \notin LinksOf(x)
    BY <1>4, SameLink DEF LinksOf
  <2>2. PairOk(u, v, C[u], C[v], R[Link(u, v)], Link(u, v), T, W)
    BY DEF PairsAt
  <2>3. SameFor(C[u], C2[u], v) /\ SameFor(C[v], C2[v], u)
    BY <1>1, <1>4 DEF ChangedAt
  <2>4. R2[Link(u, v)] = R[Link(u, v)] /\ (Link(u, v) \in W2 <=> Link(u, v) \in W)
    BY <1>1, <2>1 DEF ChangedAt
  <2> QED
    BY <2>2, <2>3, <2>4, PairKept
<1> QED
  BY <1>2, <1>3, <1>4

\* RowsAfter registers the rows of what is gone and what is new, and no other one.
LEMMA Registers ==
  ASSUME NEW R \in [Pair -> Row], NEW x \in Entity, NEW gone, NEW new,
         gone \subseteq Others(x), new \subseteq Others(x), \A z \in gone : z \notin new
  PROVE  LET R2 == RowsAfter(R, x, gone, new)
         IN /\ R2 \in [Pair -> Row]
            /\ \A y \in Others(x) : /\ y \in gone => R2[Link(x, y)] = AddRemove(R[Link(x, y)])
                                    /\ y \in new => R2[Link(x, y)] = AddNew(R[Link(x, y)])
                                    /\ y \notin gone /\ y \notin new => R2[Link(x, y)] = R[Link(x, y)]
            /\ \A p \in Pair : p \notin LinksOf(x) => R2[p] = R[p]
<1> DEFINE G == {Link(x, y) : y \in gone}
           N == {Link(x, y) : y \in new}
           R2 == RowsAfter(R, x, gone, new)
<1>1. R2 = [p \in Pair |-> CASE p \in G -> AddRemove(R[p]) [] p \in N -> AddNew(R[p]) [] OTHER -> R[p]]
  BY DEF RowsAfter
<1>2. G \cap N = {}
  BY SameLink
<1>3. ASSUME NEW p \in Pair
      PROVE  /\ R2[p] \in Row
             /\ p \in G => R2[p] = AddRemove(R[p])
             /\ p \in N => R2[p] = AddNew(R[p])
             /\ p \notin G \cup N => R2[p] = R[p]
  <2>1. R[p] \in Row /\ AddRemove(R[p]) \in Row /\ AddNew(R[p]) \in Row
    BY AddRemoveRow, AddNewRow DEF Row
  <2> HIDE DEF G, N, R2
  <2> QED
    BY <1>1, <1>2, <2>1
<1>4. ASSUME NEW y \in Others(x)
      PROVE  /\ Link(x, y) \in Pair
             /\ Link(x, y) \in G <=> y \in gone
             /\ Link(x, y) \in N <=> y \in new
  BY SameLink, Links
<1>5. G \cup N \subseteq LinksOf(x)
  BY DEF LinksOf
<1>6. R2 \in [Pair -> Row]
  <2> HIDE DEF G, N
  <2>1. R2 = [p \in Pair |-> R2[p]]
    BY <1>1
  <2> HIDE DEF R2
  <2> QED
    BY <1>3, <2>1
<1> HIDE DEF G, N, R2
<1>7. \A y \in Others(x) : /\ y \in gone => R2[Link(x, y)] = AddRemove(R[Link(x, y)])
                           /\ y \in new => R2[Link(x, y)] = AddNew(R[Link(x, y)])
                           /\ y \notin gone /\ y \notin new => R2[Link(x, y)] = R[Link(x, y)]
  BY <1>3, <1>4
<1>8. \A p \in Pair : p \notin LinksOf(x) => R2[p] = R[p]
  BY <1>3, <1>5
<1> QED
  BY <1>6, <1>7, <1>8 DEF R2

----------------------------------------------------------------------------
(* Edits. *)

\* x drops and gains links that were, and were not, there.
LEMMA Changed ==
  ASSUME MemOk, NEW x \in Entity, NEW gone, NEW new, gone \subseteq Others(x), new \subseteq Others(x),
         \A y \in gone : y \notin new, NEW c2, CollOk(x, c2), SameKind(coll[x], c2), tx' = tx,
         coll' = After(coll, x, gone, new, c2), rows' = RowsAfter(rows, x, gone, new),
         \A y \in gone : y \notin c2.members /\ Link(x, y) \in wanted /\ Link(x, y) \notin wanted',
         \A y \in new : /\ y \in c2.members /\ y \notin c2.removed
                        /\ Link(x, y) \notin wanted /\ Link(x, y) \in wanted' /\ Link(x, y) \notin AssumedRows,
         \A y \in Others(x) : y \notin gone /\ y \notin new =>
           SameFor(coll[x], c2, y) /\ (Link(x, y) \in wanted' <=> Link(x, y) \in wanted),
         \A p \in Pair : p \notin LinksOf(x) => (p \in wanted' <=> p \in wanted)
  PROVE  MemOk' /\ \A z \in Entity : SameKind(coll[z], coll'[z])
<1>1. /\ CollsOk(coll') /\ coll'[x] = c2
      /\ \A z \in Entity : z # x =>
           /\ SameKind(coll[z], coll'[z])
           /\ z \in gone => x \notin coll'[z].members
           /\ z \in new => x \in coll'[z].members /\ x \notin coll'[z].removed
           /\ z \notin gone /\ z \notin new => coll'[z] = coll[z]
           /\ \A v : v # x => SameFor(coll[z], coll'[z], v)
  <2>1. CollsOk(coll)
    BY DEF MemOk
  <2>2. Heard(coll, coll', x, c2, gone, new)
    BY <2>1, Percolates
  <2> QED
    BY <2>2 DEF Heard
<1>2. /\ rows' \in [Pair -> Row]
      /\ \A y \in Others(x) : /\ y \in gone => rows'[Link(x, y)] = AddRemove(rows[Link(x, y)])
                              /\ y \in new => rows'[Link(x, y)] = AddNew(rows[Link(x, y)])
                              /\ y \notin gone /\ y \notin new => rows'[Link(x, y)] = rows[Link(x, y)]
      /\ \A p \in Pair : p \notin LinksOf(x) => rows'[p] = rows[p]
  BY Registers DEF MemOk
<1>3. ASSUME NEW y \in Others(x)
      PROVE  PairOk(x, y, coll'[x], coll'[y], rows'[Link(x, y)], Link(x, y), tx, wanted')
  <2>1. PairOk(x, y, coll[x], coll[y], rows[Link(x, y)], Link(x, y), tx, wanted)
    BY DEF MemOk, PairsOk, PairsAt
  <2>2. y \in Entity /\ y # x /\ Link(x, y) \in Pair
    BY Links
  <2>3. rows[Link(x, y)] \in Row /\ SameKind(coll[y], coll'[y])
    BY <1>1, <2>2 DEF MemOk
  <2>4. CASE y \in gone
    <3>1. rows'[Link(x, y)] = AddRemove(rows[Link(x, y)]) /\ coll'[x] = c2 /\ x \notin coll'[y].members
      BY <1>1, <1>2, <2>2, <2>4
    <3>2. y \notin c2.members /\ Link(x, y) \in wanted /\ Link(x, y) \notin wanted'
      BY <2>4
    <3>3. PairOk(x, y, c2, coll'[y], AddRemove(rows[Link(x, y)]), Link(x, y), tx, wanted')
      BY <2>1, <2>3, <3>1, <3>2, PairRemoved
    <3> QED
      BY <3>1, <3>3
  <2>5. CASE y \in new
    <3>1. ~Assumed(rows[Link(x, y)], Link(x, y), tx)
      BY <2>2, <2>5 DEF Assumed, AssumedRows
    <3>2. /\ rows'[Link(x, y)] = AddNew(rows[Link(x, y)]) /\ coll'[x] = c2
          /\ x \in coll'[y].members /\ x \notin coll'[y].removed
      BY <1>1, <1>2, <2>2, <2>5
    <3>3. y \in c2.members /\ y \notin c2.removed /\ Link(x, y) \notin wanted /\ Link(x, y) \in wanted'
      BY <2>5
    <3>4. PairOk(x, y, c2, coll'[y], AddNew(rows[Link(x, y)]), Link(x, y), tx, wanted')
      BY <2>1, <2>3, <3>1, <3>2, <3>3, PairAdded
    <3> QED
      BY <3>2, <3>4
  <2>6. CASE y \notin gone /\ y \notin new
    <3>1. SameFor(coll[y], coll'[y], x)
      BY <1>1, <2>2, <2>6 DEF MemOk, CollsOk, CollOk, SameFor, SameKind
    <3> QED
      BY <1>1, <1>2, <2>1, <2>6, <3>1, PairKept
  <2> QED
    BY <2>4, <2>5, <2>6
<1>4. ChangedAt(x, coll, coll', rows, rows', tx, wanted, wanted')
  BY <1>1, <1>2, <1>3 DEF ChangedAt
<1>5. PairsAt(coll', rows', tx, wanted')
  BY <1>4, Frame DEF MemOk, PairsOk
<1> QED
  BY <1>1, <1>2, <1>5 DEF MemOk, PairsOk

\* What an edit does to the kinds of collections: a set may begin to wait, and nothing else
\* stops or begins to be loaded or to wait.
KindsOk ==
  /\ pendingLoads \subseteq pendingLoads' /\ pendingLoads' \subseteq Entity
  /\ \A z \in Entity : \/ SameKind(coll[z], coll'[z])
                       \/ pc = "idle" /\ ~IsLoaded(z) /\ IsSet(coll'[z]) /\ z \in pendingLoads'

\* A link that is not there is added.
LEMMA LinkAdded ==
  ASSUME MemOk, NEW x \in Entity, NEW y \in Others(x), Add(x, y), tx' = tx, pendingLoads \subseteq Entity,
         y \notin coll[x].members, Link(x, y) \notin wanted, Link(x, y) \notin AssumedRows,
         wanted' = wanted \cup {Link(x, y)}
  PROVE  MemOk' /\ KindsOk
<1>1. PICK gone, new, c2 : gone = {} /\ new = {y} /\ c2 = AddTo(coll[x], y)
  OBVIOUS
<1>2. /\ coll' = After(coll, x, gone, new, c2) /\ rows' = RowsAfter(rows, x, gone, new)
      /\ pendingLoads' = pendingLoads
  BY <1>1 DEF Add, After
<1>3. /\ CollOk(x, c2) /\ SameKind(coll[x], c2)
      /\ y \in c2.members /\ y \notin c2.removed
      /\ \A z : z # y => SameFor(coll[x], c2, z)
  BY <1>1, AddToColl DEF MemOk, CollsOk
<1>4. \A z \in Others(x) : z # y => Link(x, z) # Link(x, y)
  BY SameLink
<1>5. Link(x, y) \in LinksOf(x)
  BY DEF LinksOf
<1>6. \A z \in Others(x) : z \notin gone /\ z \notin new =>
        SameFor(coll[x], c2, z) /\ (Link(x, z) \in wanted' <=> Link(x, z) \in wanted)
  BY <1>1, <1>3, <1>4
<1>7. \A p \in Pair : p \notin LinksOf(x) => (p \in wanted' <=> p \in wanted)
  BY <1>5
<1>8. MemOk' /\ \A z \in Entity : SameKind(coll[z], coll'[z])
  BY <1>1, <1>2, <1>3, <1>6, <1>7, Changed
<1> QED
  BY <1>2, <1>8 DEF KindsOk

\* A link that is there is removed.
LEMMA LinkRemoved ==
  ASSUME MemOk, NEW x \in Entity, NEW y \in Others(x), Remove(x, y), tx' = tx, pendingLoads \subseteq Entity,
         Link(x, y) \in wanted, wanted' = wanted \ {Link(x, y)}
  PROVE  MemOk' /\ KindsOk
<1>1. PICK gone, new, c2 : gone = {y} /\ new = {} /\ c2 = RemoveFrom(coll[x], y)
  OBVIOUS
<1>2. /\ coll' = After(coll, x, gone, new, c2) /\ rows' = RowsAfter(rows, x, gone, new)
      /\ pendingLoads' = pendingLoads
  BY <1>1 DEF Remove, After
<1>3. /\ CollOk(x, c2) /\ SameKind(coll[x], c2) /\ y \notin c2.members
      /\ \A z : z # y => SameFor(coll[x], c2, z)
  BY <1>1, RemoveFromColl DEF MemOk, CollsOk
<1>4. \A z \in Others(x) : z # y => Link(x, z) # Link(x, y)
  BY SameLink
<1>5. Link(x, y) \in LinksOf(x)
  BY DEF LinksOf
<1>6. \A z \in Others(x) : z \notin gone /\ z \notin new =>
        SameFor(coll[x], c2, z) /\ (Link(x, z) \in wanted' <=> Link(x, z) \in wanted)
  BY <1>1, <1>3, <1>4
<1>7. \A p \in Pair : p \notin LinksOf(x) => (p \in wanted' <=> p \in wanted)
  BY <1>5
<1>8. MemOk' /\ \A z \in Entity : SameKind(coll[z], coll'[z])
  BY <1>1, <1>2, <1>3, <1>6, <1>7, Changed
<1> QED
  BY <1>2, <1>8 DEF KindsOk

\* A loaded collection is set: what it has too much is removed, what it lacks is added.
LEMMA LoadedSet ==
  ASSUME MemOk, NEW x \in Entity, NEW S \in SUBSET Others(x), SetTo(x, S), IsLoaded(x), tx' = tx,
         pendingLoads \subseteq Entity, \A y \in Others(x) : ~IsSet(coll[y]), wanted' \cap AssumedRows = {},
         wanted' = (wanted \ LinksOf(x)) \cup {Link(x, y) : y \in S}
  PROVE  MemOk' /\ KindsOk
<1>1. PICK gone, new, c2 : gone = coll[x].members \ S /\ new = S \ coll[x].members /\ c2 = Loaded(S)
  OBVIOUS
<1>2. /\ coll' = After(coll, x, gone, new, c2) /\ rows' = RowsAfter(rows, x, gone, new)
      /\ pendingLoads' = pendingLoads
  BY <1>1 DEF SetTo, After
<1>3. c2.kind = "loaded" /\ c2.members = S /\ c2.removed = {} /\ c2 \in Collections
  <2>1. S \subseteq Entity
    BY Links
  <2> QED
    BY <1>1, <2>1 DEF Loaded, Collections
<1>4. coll[x].kind = "loaded" /\ coll[x].members \subseteq Others(x) /\ CollOk(x, c2)
  BY <1>3 DEF IsLoaded, MemOk, CollsOk, CollOk
<1>5. \A y \in Others(x) : y \in coll[x].members <=> Link(x, y) \in wanted
  BY <1>4 DEF MemOk, PairsOk, PairsAt, PairOk, SideOk, RowOk, IsSet
<1>6. \A y \in Others(x) : Link(x, y) \in wanted' <=> y \in S
  BY SameLink DEF LinksOf
<1>7. \A y \in new : Link(x, y) \notin AssumedRows
  BY <1>1, <1>6
<1>8. \A y \in Others(x) : y \notin gone /\ y \notin new =>
        SameFor(coll[x], c2, y) /\ (Link(x, y) \in wanted' <=> Link(x, y) \in wanted)
  BY <1>1, <1>3, <1>4, <1>5, <1>6 DEF SameFor, SameKind
<1>9. \A p \in Pair : p \notin LinksOf(x) => (p \in wanted' <=> p \in wanted)
  BY DEF LinksOf
<1>10. /\ SameKind(coll[x], c2) /\ gone \subseteq Others(x) /\ new \subseteq Others(x)
       /\ \A y \in gone : y \notin new
  BY <1>1, <1>3, <1>4 DEF SameKind
<1>11. \A y \in gone : y \notin c2.members /\ Link(x, y) \in wanted /\ Link(x, y) \notin wanted'
  BY <1>1, <1>3, <1>5, <1>6, <1>10
<1>12. \A y \in new : /\ y \in c2.members /\ y \notin c2.removed
                      /\ Link(x, y) \notin wanted /\ Link(x, y) \in wanted' /\ Link(x, y) \notin AssumedRows
  BY <1>1, <1>3, <1>5, <1>6, <1>7, <1>10
<1>13. MemOk' /\ \A z \in Entity : SameKind(coll[z], coll'[z])
  BY <1>2, <1>4, <1>8, <1>9, <1>10, <1>11, <1>12, Changed
<1> QED
  BY <1>2, <1>13 DEF KindsOk

\* Any other collection that is set waits for its load.
LEMMA UnloadedSet ==
  ASSUME MemOk, NEW x \in Entity, NEW S \in SUBSET Others(x), SetTo(x, S), ~IsLoaded(x), tx' = tx, ~Overlaps(x),
         pc = "idle", pendingLoads \subseteq Entity, IsSet(coll[x]) => x \in pendingLoads,
         wanted' \cap AssumedRows = {}, wanted' = (wanted \ LinksOf(x)) \cup {Link(x, y) : y \in S}
  PROVE  MemOk' /\ KindsOk
<1>1. PICK c2 : c2 = [kind |-> "pendingSet", members |-> S, removed |-> {}]
  OBVIOUS
<1>2. /\ coll' = [coll EXCEPT ![x] = c2] /\ rows' = rows
      /\ pendingLoads \subseteq pendingLoads' /\ pendingLoads' \subseteq Entity /\ x \in pendingLoads'
  BY <1>1 DEF SetTo, IsSet
<1>3. c2.kind = "pendingSet" /\ c2.members = S /\ c2.removed = {} /\ c2 \in Collections /\ CollOk(x, c2)
  <2>1. S \subseteq Entity
    BY Links
  <2> QED
    BY <1>1, <2>1 DEF Collections, CollOk
<1>4. CollsOk(coll')
  BY <1>2, <1>3 DEF MemOk, CollsOk
<1>5. \A y \in Others(x) : Link(x, y) \in wanted' <=> y \in S
  BY SameLink DEF LinksOf
<1>6. ASSUME NEW y \in Others(x)
      PROVE  PairOk(x, y, coll'[x], coll'[y], rows'[Link(x, y)], Link(x, y), tx, wanted')
  <2>1. PairOk(x, y, coll[x], coll[y], rows[Link(x, y)], Link(x, y), tx, wanted)
    BY DEF MemOk, PairsOk, PairsAt
  <2>2. y \in Entity /\ y # x /\ Link(x, y) \in Pair
    BY Links
  <2>3. coll'[x] = c2 /\ coll'[y] = coll[y] /\ rows'[Link(x, y)] = rows[Link(x, y)]
    BY <1>2, <2>2 DEF MemOk, CollsOk
  <2>4. /\ ~IsSet(coll[y])
        /\ coll[y].kind = "addedRemoved" => x \notin coll[y].members \cup coll[y].removed
        /\ rows[Link(x, y)] # NoRow => rows[Link(x, y)].op # "pending"
    BY DEF Overlaps, Waits, IsSet
  <2>5. Link(x, y) \in wanted' => ~Assumed(rows[Link(x, y)], Link(x, y), tx)
    BY <2>2 DEF Assumed, AssumedRows
  <2>6. IsSet(c2) /\ (y \in c2.members <=> Link(x, y) \in wanted')
    BY <1>3, <1>5 DEF IsSet
  <2>7. PairOk(x, y, c2, coll[y], rows[Link(x, y)], Link(x, y), tx, wanted')
    BY <2>1, <2>4, <2>5, <2>6, PairSetLater
  <2> QED
    BY <2>3, <2>7
<1>7. \A z \in Entity : z # x => coll'[z] = coll[z] /\ \A v : v # x => SameFor(coll[z], coll'[z], v)
  BY <1>2 DEF MemOk, CollsOk, CollOk, SameFor, SameKind
<1>8. \A p \in Pair : p \notin LinksOf(x) => rows'[p] = rows[p] /\ (p \in wanted' <=> p \in wanted)
  BY <1>2 DEF LinksOf
<1>9. ChangedAt(x, coll, coll', rows, rows', tx, wanted, wanted')
  BY <1>6, <1>7, <1>8 DEF ChangedAt
<1>10. PairsAt(coll', rows', tx, wanted')
  BY <1>9, Frame DEF MemOk, PairsOk
<1>11. MemOk'
  BY <1>2, <1>4, <1>10 DEF MemOk, PairsOk
<1>12. \A z \in Entity : z # x => SameKind(coll[z], coll'[z])
  BY <1>7 DEF SameKind
<1>13. IsSet(coll'[x])
  BY <1>2, <1>3 DEF IsSet, MemOk, CollsOk
<1> QED
  BY <1>2, <1>11, <1>12, <1>13 DEF KindsOk

----------------------------------------------------------------------------
(* Loads. *)

\* The result of a load is applied: the collection and its rows are as PairLoaded has it, and
\* nothing else changes.
LEMMA LoadApplied ==
  ASSUME MemOk, ReadingOk, RestOk, NEW x \in Entity, ApplyLoad(x)
  PROVE  /\ MemOk' /\ ~IsLoaded(x) /\ coll'[x].kind = "loaded"
         /\ \A z \in Entity : z # x => SameKind(coll[z], coll'[z])
         /\ \A y \in Others(x) : rows'[Link(x, y)] = LoadedRow(coll[x], y, rows[Link(x, y)], Link(x, y), tx)
         /\ \A p \in Pair : p \notin LinksOf(x) => rows'[p] = rows[p]
<1> DEFINE c == coll[x]
<1>1. PICK R : R = [p \in Pair |-> IF p \in LinksOf(x) THEN LoadRow(rows[p], p \in reading[x]) ELSE rows[p]]
  OBVIOUS
<1>2. PICK found : found = {y \in Others(x) : Live(R[Link(x, y)])}
  OBVIOUS
<1>3. \/ /\ c.kind = "pristine"
         /\ coll' = [coll EXCEPT ![x] = Loaded(found)] /\ rows' = R
      \/ c.kind = "addedRemoved" /\ MergeAddedRemoved(R, x, found)
      \/ c.kind = "pendingSet" /\ ApplyPendingSet(R, x, found)
  BY <1>1, <1>2 DEF ApplyLoad
<1>4. reading[x] = LinksOf(x) \cap tx /\ ~IsLoaded(x)
  BY DEF ApplyLoad, ReadingOk
<1>5. /\ R \in [Pair -> Row]
      /\ \A y \in Others(x) : Link(x, y) \in Pair /\ R[Link(x, y)] = ReadRow(rows[Link(x, y)], Link(x, y), tx)
      /\ \A p \in Pair : p \notin LinksOf(x) => R[p] = rows[p]
  <2>1. ASSUME NEW p \in Pair, p \in LinksOf(x)
        PROVE  R[p] = ReadRow(rows[p], p, tx) /\ R[p] \in Row
    <3>1. LoadRow(rows[p], p \in reading[x]) = LoadRow(rows[p], p \in tx)
      BY <1>4, <2>1 DEF LoadRow
    <3>2. R[p] = ReadRow(rows[p], p, tx)
      BY <1>1, <2>1, <3>1 DEF ReadRow
    <3>3. rows[p] \in Row
      BY DEF MemOk
    <3>4. ReadRow(rows[p], p, tx) \in Row
      BY <3>3, ReadRowRow
    <3> QED
      BY <3>2, <3>4
  <2>2. ASSUME NEW p \in Pair, p \notin LinksOf(x)
        PROVE  R[p] = rows[p] /\ R[p] \in Row
    BY <1>1, <2>2 DEF MemOk
  <2>3. R = [p \in Pair |-> R[p]]
    BY <1>1
  <2>4. \A p \in Pair : R[p] \in Row
    BY <2>1, <2>2
  <2>5. R \in [Pair -> Row]
    BY <2>3, <2>4
  <2> QED
    BY <2>1, <2>2, <2>5, Links DEF LinksOf
<1>6. CollOk(x, c) /\ c.kind \in {"pristine", "addedRemoved", "pendingSet"}
  BY <1>4 DEF MemOk, CollsOk, CollOk, Collections, IsLoaded
<1>7. PICK gone, new, c2 :
        /\ gone = IF IsSet(c) THEN found \ c.members ELSE c.removed
        /\ new = c.members \ found
        /\ c2 = IF IsSet(c) THEN Loaded(c.members) ELSE Loaded((found \cup c.members) \ c.removed)
  OBVIOUS
<1>8. /\ gone \subseteq Others(x) /\ new \subseteq Others(x) /\ \A y \in gone : y \notin new
      /\ c2.kind = "loaded" /\ CollOk(x, c2)
      /\ \A y \in Others(x) : y \in c2.members <=> IF IsSet(c) THEN y \in c.members
                              ELSE (Live(R[Link(x, y)]) \/ y \in c.members) /\ y \notin c.removed
  <2>1. found \subseteq Others(x) /\ c.members \subseteq Others(x) /\ c.removed \subseteq Others(x) /\ c.members \cap c.removed = {}
    BY <1>2, <1>6 DEF CollOk
  <2>2. PICK S : S \subseteq Others(x) /\ c2 = Loaded(S) /\ S = IF IsSet(c) THEN c.members ELSE (found \cup c.members) \ c.removed
    BY <1>7, <2>1
  <2>3. S \subseteq Entity
    BY <2>2, Links
  <2>4. c2 \in Collections /\ c2.kind = "loaded" /\ c2.members = S /\ c2.removed = {}
    BY <2>2, <2>3 DEF Loaded, Collections
  <2>5. CollOk(x, c2)
    BY <2>2, <2>4 DEF CollOk
  <2> QED
    BY <1>2, <1>7, <2>1, <2>2, <2>4, <2>5
<1>9. /\ rows' \in [Pair -> Row]
      /\ \A y \in Others(x) : /\ y \in gone => rows'[Link(x, y)] = AddRemove(R[Link(x, y)])
                              /\ y \in new => rows'[Link(x, y)] = AddNew(R[Link(x, y)])
                              /\ y \notin gone /\ y \notin new => rows'[Link(x, y)] = R[Link(x, y)]
      /\ \A p \in Pair : p \notin LinksOf(x) => rows'[p] = rows[p]
  <2>1. CASE c.kind = "pristine"
    <3>1. rows' = R /\ gone = {} /\ new = {}
      BY <1>3, <1>6, <1>7, <2>1 DEF IsSet, CollOk
    <3> QED
      BY <1>5, <3>1
  <2>2. CASE c.kind # "pristine"
    <3>1. rows' = RowsAfter(R, x, gone, new)
      BY <1>3, <1>6, <1>7, <2>2 DEF IsSet, MergeAddedRemoved, ApplyPendingSet
    <3> QED
      BY <1>5, <1>8, <3>1, Registers
  <2> QED
    BY <2>1, <2>2
<1>10. /\ CollsOk(coll') /\ coll'[x] = c2
       /\ \A z \in Entity : z # x =>
            /\ SameKind(coll[z], coll'[z])
            /\ ~IsSet(c) => coll'[z] = coll[z]
            /\ IsSet(c) /\ z \in gone => x \notin coll'[z].members
            /\ IsSet(c) /\ z \in new => x \in coll'[z].members /\ x \notin coll'[z].removed
            /\ z \notin gone /\ z \notin new => coll'[z] = coll[z]
            /\ \A v : v # x => SameFor(coll[z], coll'[z], v)
  <2>1. CASE ~IsSet(c)
    <3>1. coll' = [coll EXCEPT ![x] = c2]
      BY <1>3, <1>6, <1>7, <2>1 DEF IsSet, MergeAddedRemoved, CollOk
    <3> QED
      BY <1>8, <2>1, <3>1 DEF MemOk, CollsOk, CollOk, SameFor, SameKind
  <2>2. CASE IsSet(c)
    <3>1. coll' = After(coll, x, gone, new, c2)
      <4>1. c.kind = "pendingSet"
        BY <2>2 DEF IsSet
      <4>2. coll' = [Percolated(coll, x, gone, new) EXCEPT ![x] = Loaded(@.members)]
        BY <1>3, <1>7, <2>2, <4>1 DEF ApplyPendingSet
      <4>3. Percolated(coll, x, gone, new)[x] = c
        <5>1. x \notin gone /\ x \notin new
          BY <1>8, Links
        <5> QED
          BY <5>1 DEF Percolated
      <4> QED
        BY <1>7, <2>2, <4>2, <4>3 DEF After
    <3>2. CollsOk(coll)
      BY DEF MemOk
    <3>3. CollOk(x, c2) /\ gone \subseteq Others(x) /\ new \subseteq Others(x) /\ \A y \in gone : y \notin new
      BY <1>8
    <3>4. Heard(coll, coll', x, c2, gone, new)
      BY <3>1, <3>2, <3>3, Percolates
    <3> QED
      BY <2>2, <3>4 DEF Heard
  <2> QED
    BY <2>1, <2>2
<1>11. ASSUME NEW y \in Others(x)
       PROVE  /\ rows'[Link(x, y)] = LoadedRow(c, y, rows[Link(x, y)], Link(x, y), tx)
              /\ PairOk(x, y, coll'[x], coll'[y], rows'[Link(x, y)], Link(x, y), tx, wanted)
  <2> DEFINE p == Link(x, y)
             r1 == ReadRow(rows[p], p, tx)
  <2>1. y \in Entity /\ y # x /\ p \in Pair /\ R[p] = r1
    BY <1>5, Links
  <2>2. /\ y \in found <=> Live(r1)
        /\ y \in gone <=> IF IsSet(c) THEN Live(r1) /\ y \notin c.members ELSE y \in c.removed
        /\ y \in new <=> y \in c.members /\ ~Live(r1)
    BY <1>2, <1>7, <2>1
  <2>3. rows'[p] = LoadedRow(c, y, rows[p], p, tx)
    <3>1. /\ y \in gone => rows'[p] = AddRemove(r1)
          /\ y \in new => rows'[p] = AddNew(r1)
          /\ y \notin gone /\ y \notin new => rows'[p] = r1
          /\ y \in gone => y \notin new
      BY <1>8, <1>9, <2>1
    <3> QED
      BY <2>2, <3>1 DEF LoadedRow
  <2>4. PairOk(x, y, c, coll[y], rows[p], p, tx, wanted) /\ rows[p] \in Row
    BY <2>1 DEF MemOk, PairsOk, PairsAt
  <2>5. /\ y \in c.members => y \notin c.removed
        /\ c.kind = "pristine" => y \notin c.members /\ y \notin c.removed
    BY <1>6 DEF CollOk
  <2>6. y \in c2.members <=> IF IsSet(c) THEN y \in c.members ELSE (Live(r1) \/ y \in c.members) /\ y \notin c.removed
    BY <1>8, <2>1
  <2>7. IF IsSet(c) /\ Live(r1) /\ y \notin c.members THEN SameKind(coll[y], coll'[y]) /\ x \notin coll'[y].members
        ELSE IF IsSet(c) /\ ~Live(r1) /\ y \in c.members
        THEN SameKind(coll[y], coll'[y]) /\ x \in coll'[y].members /\ x \notin coll'[y].removed
        ELSE SameFor(coll[y], coll'[y], x)
    <3>1. SameFor(coll[y], coll[y], x)
      BY <2>1 DEF MemOk, CollsOk, CollOk, SameFor, SameKind
    <3>2. /\ SameKind(coll[y], coll'[y])
          /\ ~IsSet(c) => coll'[y] = coll[y]
          /\ IsSet(c) /\ y \in gone => x \notin coll'[y].members
          /\ IsSet(c) /\ y \in new => x \in coll'[y].members /\ x \notin coll'[y].removed
          /\ y \notin gone /\ y \notin new => coll'[y] = coll[y]
      BY <1>10, <2>1
    <3> HIDE DEF c, r1, p
    <3>3. CASE ~IsSet(c)
      BY <3>1, <3>2, <3>3
    <3>4. CASE IsSet(c) /\ y \in gone
      BY <2>2, <3>2, <3>4
    <3>5. CASE IsSet(c) /\ y \in new
      BY <2>2, <3>2, <3>5
    <3>6. CASE IsSet(c) /\ y \notin gone /\ y \notin new
      BY <2>2, <3>1, <3>2, <3>6
    <3> QED
      BY <3>3, <3>4, <3>5, <3>6
  <2>8. PICK r, r2, C2, d, d2 : r = rows[p] /\ r2 = LoadedRow(c, y, r, p, tx) /\ C2 = coll' /\ d = coll[y] /\ d2 = coll'[y]
    OBVIOUS
  <2>9. PairOk(x, y, c2, d2, r2, p, tx, wanted)
    <3> HIDE DEF c, p
    <3> QED
      BY <1>6, <1>8, <2>4, <2>5, <2>6, <2>7, <2>8, PairLoaded DEF r1
  <2> QED
    BY <1>10, <2>3, <2>8, <2>9
<1>12. wanted' = wanted /\ tx' = tx
  BY DEF ApplyLoad, tableVars
<1>13. ChangedAt(x, coll, coll', rows, rows', tx, wanted, wanted)
  BY <1>9, <1>10, <1>11 DEF ChangedAt
<1>14. PairsAt(coll', rows', tx, wanted)
  BY <1>13, Frame DEF MemOk, PairsOk
<1>15. MemOk'
  BY <1>9, <1>10, <1>12, <1>14 DEF MemOk, PairsOk
<1> QED
  BY <1>4, <1>8, <1>9, <1>10, <1>11, <1>15

\* Of a pair that no set waits for: it is wanted if it is held, and a new row is one to insert.
LEMMA NoSet ==
  ASSUME MemOk, NEW p \in Pair, \A x \in Entity : ~IsSet(coll[x])
  PROVE  /\ p \in wanted <=> Held(rows[p], p, tx)
         /\ IsInsert(rows[p]) <=> IsNew(rows[p])
<1>1. p[1] \in Entity /\ p[2] \in Entity /\ PairOk(p[1], p[2], coll[p[1]], coll[p[2]], rows[p], p, tx, wanted)
  BY PairIsLink, Links DEF MemOk, PairsOk, PairsAt
<1> QED
  BY <1>1 DEF PairOk, RowOk, IsInsert, IsNew

\* An edit keeps the invariant.
LEMMA EditOk ==
  ASSUME Careful, Inv, Edit
  PROVE  Inv'
<1>1. /\ pc \in {"idle", "hooks", "query"} /\ edits' = edits + 1 /\ wanted' \cap AssumedRows = {}
      /\ UNCHANGED <<reading, db, tx, inTx, pc, awaiting, todo, rounds, flushes>>
  BY DEF Edit, Careful, tableVars, flushVars
<1>2. pendingLoads \subseteq Entity /\ MemOk /\ wanted \subseteq Pair
  BY DEF Inv, RestOk
<1>3. MemOk' /\ KindsOk /\ wanted' \subseteq Pair
  <2>1. CASE AddsOrRemoves
    <3>0. PICK x \in Entity : \E y \in Others(x) :
            \/ Link(x, y) \notin wanted /\ y \notin coll[x].members /\ Add(x, y) /\ wanted' = wanted \cup {Link(x, y)}
            \/ Link(x, y) \in wanted /\ Remove(x, y) /\ wanted' = wanted \ {Link(x, y)}
      BY <2>1 DEF AddsOrRemoves, Careful
    <3>1. PICK y \in Others(x) :
            \/ Link(x, y) \notin wanted /\ y \notin coll[x].members /\ Add(x, y) /\ wanted' = wanted \cup {Link(x, y)}
            \/ Link(x, y) \in wanted /\ Remove(x, y) /\ wanted' = wanted \ {Link(x, y)}
      BY <3>0
    <3>2. Link(x, y) \in Pair
      BY Links
    <3>3. CASE Link(x, y) \notin wanted /\ y \notin coll[x].members /\ Add(x, y) /\ wanted' = wanted \cup {Link(x, y)}
      <4>1. Link(x, y) \notin AssumedRows
        BY <1>1, <3>3
      <4> QED
        BY <1>1, <1>2, <3>2, <3>3, <4>1, LinkAdded
    <3>4. CASE Link(x, y) \in wanted /\ Remove(x, y) /\ wanted' = wanted \ {Link(x, y)}
      BY <1>1, <1>2, <3>4, LinkRemoved
    <3> QED
      BY <3>1, <3>3, <3>4
  <2>2. CASE Sets
    <3>0. PICK x \in Entity : \E S \in SUBSET Others(x) :
            /\ pc = "idle" \/ IsLoaded(x)
            /\ ~Overlaps(x) /\ SetTo(x, S)
            /\ wanted' = (wanted \ LinksOf(x)) \cup {Link(x, y) : y \in S}
      BY <2>2 DEF Sets, Careful
    <3>1. PICK S \in SUBSET Others(x) :
            /\ pc = "idle" \/ IsLoaded(x)
            /\ ~Overlaps(x) /\ SetTo(x, S)
            /\ wanted' = (wanted \ LinksOf(x)) \cup {Link(x, y) : y \in S}
      BY <3>0
    <3>2. wanted' \subseteq Pair
      BY <1>2, <3>1, Links
    <3>3. CASE IsLoaded(x)
      <4>1. \A y \in Others(x) : ~IsSet(coll[y])
        BY <3>1 DEF Overlaps, IsSet
      <4> QED
        BY <1>1, <1>2, <3>1, <3>2, <3>3, <4>1, LoadedSet
    <3>4. CASE ~IsLoaded(x)
      <4>1. pc = "idle" /\ (IsSet(coll[x]) => x \in pendingLoads)
        BY <3>1, <3>4 DEF Inv, PhaseOk, SetsOk
      <4> QED
        BY <1>1, <1>2, <3>1, <3>2, <3>4, <4>1, UnloadedSet
    <3> QED
      BY <3>3, <3>4
  <2> QED
    BY <2>1, <2>2 DEF Edit
<1>4. RestOk'
  BY <1>1, <1>3 DEF Inv, RestOk, KindsOk
<1>5. TableOk'
  BY <1>1 DEF Inv, PhaseOk, TableOk
<1>6. ReadingOk'
  BY <1>1, <1>3 DEF Inv, PhaseOk, ReadingOk, KindsOk, IsLoaded, IsSet, SameKind
<1>7. SetsOk'
  <2>1. pc # "awaiting"
    BY <1>1
  <2>2. ASSUME NEW z \in Entity, IsSet(coll'[z])
        PROVE  rounds = 0 /\ pc = "idle" /\ z \in pendingLoads'
    BY <1>1, <1>3, <2>2 DEF Inv, PhaseOk, SetsOk, KindsOk, IsSet, SameKind, TableOk
  <2> QED
    BY <1>1, <2>1, <2>2 DEF SetsOk
<1>8. TodoOk'
  BY <1>1 DEF TodoOk
<1> QED
  BY <1>3, <1>4, <1>5, <1>6, <1>7, <1>8 DEF Inv, PhaseOk

\* The result of a load keeps the invariant: no todo changes, as no set waits by then.
LEMMA ApplyLoadOk ==
  ASSUME Inv, NEW x \in Entity, ApplyLoad(x)
  PROVE  Inv'
<1>1. /\ reading' = [reading EXCEPT ![x] = NotReading] /\ reading[x] # NotReading
      /\ UNCHANGED <<pendingLoads, db, tx, inTx, pc, awaiting, todo, rounds, edits, flushes, wanted>>
  BY DEF ApplyLoad, tableVars, flushVars
<1>2. /\ MemOk' /\ ~IsLoaded(x) /\ coll'[x].kind = "loaded"
      /\ \A z \in Entity : z # x => SameKind(coll[z], coll'[z])
      /\ \A y \in Others(x) : rows'[Link(x, y)] = LoadedRow(coll[x], y, rows[Link(x, y)], Link(x, y), tx)
      /\ \A p \in Pair : p \notin LinksOf(x) => rows'[p] = rows[p]
  BY LoadApplied DEF Inv, PhaseOk
<1>3. MemOk /\ RestOk /\ TableOk /\ ReadingOk /\ SetsOk /\ TodoOk
  BY DEF Inv, PhaseOk
<1>4. RestOk'
  BY <1>1, <1>3 DEF RestOk
<1>5. TableOk'
  BY <1>1, <1>3 DEF TableOk
<1>6. reading'[x] = NotReading /\ \A z \in Entity : z # x => reading'[z] = reading[z]
  BY <1>1, <1>3 DEF RestOk
<1>7. ReadingOk'
  BY <1>1, <1>2, <1>3, <1>6 DEF ReadingOk, IsLoaded, SameKind
<1>8. SetsOk'
  <2>1. ASSUME NEW z \in Entity, IsSet(coll'[z])
        PROVE  IsSet(coll[z])
    BY <1>2, <2>1 DEF IsSet, SameKind
  <2>2. ASSUME NEW z \in Entity, reading[z] # NotReading \/ IsLoaded(z)
        PROVE  reading'[z] # NotReading \/ coll'[z].kind = "loaded"
    BY <1>2, <1>6, <2>2 DEF IsLoaded, SameKind
  <2> QED
    BY <1>1, <1>3, <2>1, <2>2 DEF SetsOk, IsLoaded, RestOk
<1>9. TodoOk'
  <2> SUFFICES ASSUME pc \in {"validate", "write", "written", "commit", "committed"}
               PROVE  TodoOk'
    BY <1>1 DEF TodoOk
  <2>1. \A z \in Entity : ~IsSet(coll[z])
    BY <1>3 DEF SetsOk
  <2>2. \A z \in Entity : ~IsSet(coll'[z])
    BY <1>2, <2>1 DEF IsSet, SameKind
  <2>3. ASSUME NEW p \in Pair
        PROVE  /\ Held(rows'[p], p, tx) <=> Held(rows[p], p, tx)
               /\ IsInsert(rows'[p]) <=> IsInsert(rows[p])
               /\ IsDelete(rows[p]) => IsDelete(rows'[p])
               /\ p \in tx /\ IsDelete(rows'[p]) => IsDelete(rows[p])
    <3>1. CASE p \notin LinksOf(x)
      BY <1>2, <3>1
    <3>2. CASE p \in LinksOf(x)
      <4>1. PICK y \in Others(x) : p = Link(x, y)
        BY <3>2 DEF LinksOf
      <4>2. rows'[p] = LoadedRow(coll[x], y, rows[p], p, tx)
        BY <1>2, <4>1
      <4>3. PairOk(x, y, coll[x], coll[y], rows[p], p, tx, wanted) /\ rows[p] \in Row /\ y \in Entity
        BY <1>3, <4>1, Links DEF MemOk, PairsOk, PairsAt
      <4>4. PairOk(x, y, coll'[x], coll'[y], rows'[p], p, tx, wanted)
        BY <1>1, <1>2, <4>1 DEF MemOk, PairsOk, PairsAt
      <4>5. /\ coll[x].kind \in {"pristine", "addedRemoved", "pendingSet"}
            /\ y \in coll[x].members => y \notin coll[x].removed
            /\ coll[x].kind = "pristine" => y \notin coll[x].members /\ y \notin coll[x].removed
        BY <1>2, <1>3 DEF IsLoaded, MemOk, CollsOk, CollOk, Collections
      <4>6. /\ IsNew(rows'[p]) <=> IsNew(rows[p])
            /\ IsDelete(rows[p]) => IsDelete(rows'[p])
            /\ p \in tx /\ IsDelete(rows'[p]) => IsDelete(rows[p])
        BY <2>1, <4>2, <4>3, <4>5, RowLoaded
      <4>7. /\ Held(rows'[p], p, tx) <=> Held(rows[p], p, tx)
            /\ IsInsert(rows'[p]) <=> IsNew(rows'[p])
            /\ IsInsert(rows[p]) <=> IsNew(rows[p])
        BY <2>1, <2>2, <4>3, <4>4 DEF PairOk, RowOk, IsInsert, IsNew
      <4> QED
        BY <4>6, <4>7
    <3> QED
      BY <3>1, <3>2
  <2>4. pc \in {"validate", "write"} => \A p \in Pair :
          /\ (p \in todo.inserts) <=> IsInsert(rows'[p])
          /\ p \in todo.deletes => IsDelete(rows'[p])
          /\ IsDelete(rows'[p]) /\ p \in tx => p \in todo.deletes
    BY <1>3, <2>3 DEF TodoOk, TodoIs
  <2>5. pc \in {"written", "commit", "committed"} => \A p \in Pair : Held(rows'[p], p, tx) <=> p \in tx
    BY <1>3, <2>3 DEF TodoOk
  <2> QED
    BY <1>1, <2>4, <2>5 DEF TodoOk, TodoIs
<1> QED
  BY <1>2, <1>4, <1>5, <1>7, <1>8, <1>9 DEF Inv, PhaseOk

----------------------------------------------------------------------------
(* The steps of the flush. *)

\* The links of an entity are pairs, and a set of pairs is a reading.
LEMMA LinksArePairs == \A x \in Entity : LinksOf(x) \subseteq Pair
BY Links DEF LinksOf

\* Memory is as it was, and so is the table that it is compared with.
LEMMA Still ==
  ASSUME MemOk, UNCHANGED <<coll, rows, tx, wanted>>
  PROVE  MemOk' /\ \A x \in Entity : (IsSet(coll[x])' <=> IsSet(coll[x])) /\ (IsLoaded(x)' <=> IsLoaded(x))
<1>1. MemOk'
  BY DEF MemOk, PairsOk
<1> QED
  BY <1>1 DEF IsSet, IsLoaded

\* A table with nothing to write holds what memory holds.
LEMMA NothingToWrite ==
  ASSUME MemOk, \A x \in Entity : ~IsSet(coll[x]), NEW p \in Pair, TodoIs(p), todo = NoTodo
  PROVE  Held(rows[p], p, tx) <=> p \in tx
<1>1. rows[p] \in Row /\ p[1] \in Entity /\ p[2] \in Entity
      /\ PairOk(p[1], p[2], coll[p[1]], coll[p[2]], rows[p], p, tx, wanted)
  BY PairIsLink, Links DEF MemOk, PairsOk, PairsAt
<1>2. rows[p] # NoRow => rows[p].persisted \in BOOLEAN /\ rows[p].deleted \in BOOLEAN
  BY <1>1, Rows DEF Row
<1>3. ~IsInsert(rows[p]) /\ (IsDelete(rows[p]) => p \notin tx)
  BY DEF TodoIs, NoTodo
<1> QED
  BY <1>1, <1>2, <1>3 DEF PairOk, RowOk, Held, IsNew, IsInsert, IsDelete

\* The query of a load reads the table as it is.
LEMMA QueryLinksOk ==
  ASSUME Inv, NEW x \in Entity, QueryLinks(x)
  PROVE  Inv'
<1>1. /\ ~IsLoaded(x) /\ reading' = [reading EXCEPT ![x] = Found(x)]
      /\ UNCHANGED <<coll, rows, pendingLoads, db, tx, inTx, pc, awaiting, todo, rounds, edits, flushes, wanted>>
  BY DEF QueryLinks, memVars, tableVars, flushVars
<1>2. MemOk /\ RestOk /\ TableOk /\ ReadingOk /\ SetsOk /\ TodoOk
  BY DEF Inv, PhaseOk
<1>3. Found(x) = LinksOf(x) \cap tx /\ Found(x) \subseteq Pair /\ Found(x) # NotReading
  BY <1>2, LinksArePairs, ManyToManyAssumption DEF Found, TableOk, RestOk
<1>4. MemOk'
  BY <1>1, <1>2, Still
<1>5. RestOk'
  BY <1>1, <1>2, <1>3 DEF RestOk
<1>6. TableOk' /\ TodoOk'
  BY <1>1, <1>2 DEF TableOk, TodoOk, TodoIs
<1>7. reading'[x] = Found(x) /\ \A z \in Entity : z # x => reading'[z] = reading[z]
  BY <1>1, <1>2 DEF RestOk
<1>8. ReadingOk'
  BY <1>1, <1>2, <1>3, <1>7 DEF ReadingOk, IsLoaded
<1>9. SetsOk'
  BY <1>1, <1>2, <1>3, <1>7 DEF SetsOk, IsLoaded, IsSet
<1> QED
  BY <1>4, <1>5, <1>6, <1>8, <1>9 DEF Inv, PhaseOk

\* A flush starts.
LEMMA StartFlushOk ==
  ASSUME Inv, StartFlush
  PROVE  Inv'
<1>1. /\ pc = "idle" /\ pc' = "loads" /\ flushes' = flushes + 1
      /\ UNCHANGED <<coll, rows, pendingLoads, reading, db, tx, inTx, awaiting, todo, rounds, edits, wanted>>
  BY DEF StartFlush, memVars, tableVars
<1>2. MemOk /\ RestOk /\ TableOk /\ ReadingOk /\ SetsOk /\ TodoOk
  BY DEF Inv, PhaseOk
<1>3. MemOk'
  BY <1>1, <1>2, Still
<1>4. RestOk' /\ TableOk' /\ ReadingOk' /\ TodoOk'
  BY <1>1, <1>2 DEF RestOk, TableOk, ReadingOk, TodoOk, IsLoaded
<1>5. SetsOk'
  BY <1>1, <1>2 DEF SetsOk, IsSet
<1> QED
  BY <1>3, <1>4, <1>5 DEF Inv, PhaseOk

\* The flush asks for the loads of what was set; a set waits for a load that is under way now.
LEMMA LoadPendingOk ==
  ASSUME Inv, LoadPending
  PROVE  Inv'
<1> DEFINE unloaded == {x \in pendingLoads : ~IsLoaded(x)}
<1>1. /\ pc = "loads" /\ pc' = "awaiting" /\ pendingLoads' = {} /\ awaiting' = unloaded
      /\ reading' = [x \in Entity |-> IF x \in unloaded /\ reading[x] = NotReading THEN Found(x) ELSE reading[x]]
      /\ UNCHANGED <<coll, rows, db, tx, inTx, todo, rounds, edits, flushes, wanted>>
  BY DEF LoadPending, tableVars
<1>2. MemOk /\ RestOk /\ TableOk /\ ReadingOk /\ SetsOk /\ TodoOk
  BY DEF Inv, PhaseOk
<1>3. \A x \in Entity : Found(x) = LinksOf(x) \cap tx /\ Found(x) \subseteq Pair /\ Found(x) # NotReading
  BY <1>2, LinksArePairs, ManyToManyAssumption DEF Found, TableOk, RestOk
<1>4. MemOk'
  BY <1>1, <1>2, Still
<1>5. RestOk'
  BY <1>1, <1>2, <1>3 DEF RestOk
<1>6. TableOk' /\ TodoOk'
  BY <1>1, <1>2 DEF TableOk, TodoOk
<1>7. ReadingOk'
  BY <1>1, <1>2, <1>3 DEF ReadingOk, IsLoaded
<1>8. SetsOk'
  <2>1. ASSUME NEW z \in Entity, IsSet(coll[z])
        PROVE  rounds = 0 /\ z \in unloaded
    BY <1>1, <1>2, <2>1 DEF SetsOk, IsSet, IsLoaded
  <2>2. ASSUME NEW z \in unloaded
        PROVE  reading'[z] # NotReading
    BY <1>1, <1>2, <1>3 DEF RestOk
  <2> HIDE DEF unloaded
  <2> QED
    BY <1>1, <2>1, <2>2 DEF SetsOk, IsSet
<1> QED
  BY <1>4, <1>5, <1>6, <1>7, <1>8 DEF Inv, PhaseOk

\* The loads are there, and no set waits any more.
LEMMA PendingLoadedOk ==
  ASSUME Inv, PendingLoaded
  PROVE  Inv'
<1>1. /\ pc = "awaiting" /\ pc' = "hooks" /\ awaiting' = {} /\ \A x \in awaiting : reading[x] = NotReading
      /\ UNCHANGED <<coll, rows, pendingLoads, reading, db, tx, inTx, todo, rounds, edits, flushes, wanted>>
  BY DEF PendingLoaded, memVars, tableVars
<1>2. MemOk /\ RestOk /\ TableOk /\ ReadingOk /\ SetsOk /\ TodoOk
  BY DEF Inv, PhaseOk
<1>3. MemOk'
  BY <1>1, <1>2, Still
<1>4. RestOk' /\ TableOk' /\ ReadingOk' /\ TodoOk'
  BY <1>1, <1>2 DEF RestOk, TableOk, ReadingOk, TodoOk, IsLoaded
<1>5. SetsOk'
  <2>1. \A x \in Entity : ~IsSet(coll[x])
    BY <1>1, <1>2 DEF SetsOk, IsSet, IsLoaded
  <2> QED
    BY <1>1, <2>1 DEF SetsOk
<1> QED
  BY <1>3, <1>4, <1>5 DEF Inv, PhaseOk

\* The hooks are over, and what is to be written is settled.
LEMMA EndHooksOk ==
  ASSUME Inv, EndHooks
  PROVE  Inv'
<1>1. /\ pc = "hooks" /\ pc' = "validate" /\ todo' = ToTodo
      /\ UNCHANGED <<coll, rows, pendingLoads, reading, db, tx, inTx, awaiting, rounds, edits, flushes, wanted>>
  BY DEF EndHooks, memVars, tableVars
<1>2. MemOk /\ RestOk /\ TableOk /\ ReadingOk /\ SetsOk /\ TodoOk
  BY DEF Inv, PhaseOk
<1>3. MemOk'
  BY <1>1, <1>2, Still
<1>4. RestOk'
  BY <1>1, <1>2 DEF RestOk, ToTodo, Todos
<1>5. TableOk' /\ ReadingOk' /\ SetsOk'
  BY <1>1, <1>2 DEF TableOk, ReadingOk, SetsOk, IsLoaded, IsSet
<1>6. \A p \in Pair : /\ (p \in ToTodo.inserts) <=> IsInsert(rows[p])
                      /\ (p \in ToTodo.deletes) <=> IsDelete(rows[p])
  BY DEF ToTodo
<1>7. TodoOk'
  BY <1>1, <1>6 DEF TodoOk, TodoIs
<1> QED
  BY <1>3, <1>4, <1>5, <1>7 DEF Inv, PhaseOk

\* A transaction begins.
LEMMA ValidatedOk ==
  ASSUME Inv, Validated
  PROVE  Inv'
<1>1. /\ pc = "validate" /\ pc' = "write" /\ inTx' = TRUE
      /\ UNCHANGED <<coll, rows, pendingLoads, reading, db, tx, awaiting, todo, rounds, edits, flushes, wanted>>
  BY DEF Validated, memVars
<1>2. MemOk /\ RestOk /\ TableOk /\ ReadingOk /\ SetsOk /\ TodoOk
  BY DEF Inv, PhaseOk
<1>3. MemOk'
  BY <1>1, <1>2, Still
<1>4. RestOk' /\ TableOk' /\ ReadingOk' /\ SetsOk'
  BY <1>1, <1>2 DEF RestOk, TableOk, ReadingOk, SetsOk, IsLoaded, IsSet
<1>5. TodoOk'
  BY <1>1, <1>2 DEF TodoOk, TodoIs
<1> QED
  BY <1>3, <1>4, <1>5 DEF Inv, PhaseOk

\* A round with nothing to write goes on to the commit.
LEMMA RoundValidatedOk ==
  ASSUME Careful, Inv, RoundValidated
  PROVE  Inv'
<1>1. /\ pc = "validate" /\ rounds > 0 /\ (pc' = "write" \/ (pc' = "commit" /\ todo = NoTodo))
      /\ UNCHANGED <<coll, rows, pendingLoads, reading, db, tx, inTx, awaiting, todo, rounds, edits, flushes, wanted>>
  BY DEF RoundValidated, memVars, tableVars, Careful
<1>2. MemOk /\ RestOk /\ TableOk /\ ReadingOk /\ SetsOk /\ TodoOk
  BY DEF Inv, PhaseOk
<1>3. MemOk'
  BY <1>1, <1>2, Still
<1>4. RestOk' /\ TableOk' /\ ReadingOk' /\ SetsOk'
  BY <1>1, <1>2 DEF RestOk, TableOk, ReadingOk, SetsOk, IsLoaded, IsSet
<1>5. TodoOk'
  <2>1. \A x \in Entity : ~IsSet(coll[x])
    BY <1>1, <1>2 DEF SetsOk
  <2>2. todo = NoTodo => \A p \in Pair : Held(rows[p], p, tx) <=> p \in tx
    BY <1>1, <1>2, <2>1, NothingToWrite DEF TodoOk
  <2> QED
    BY <1>1, <1>2, <2>2 DEF TodoOk, TodoIs
<1> QED
  BY <1>3, <1>4, <1>5 DEF Inv, PhaseOk

\* A flush ends when nothing of it is in the table that is not committed.
LEMMA EndOfFlushOk ==
  ASSUME Inv, EndOfFlush, UNCHANGED <<coll, db>>, db = tx,
         \A x \in Entity : IsSet(coll[x]) => x \in pendingLoads,
         rows' \in [Pair -> Row], PairsAt(coll, rows', tx, wanted)
  PROVE  Inv'
<1>1. /\ pc' = "idle" /\ tx' = db /\ inTx' = FALSE /\ awaiting' = {} /\ todo' = NoTodo /\ rounds' = 0
      /\ UNCHANGED <<coll, db, pendingLoads, reading, edits, flushes, wanted>>
  BY DEF EndOfFlush
<1>2. MemOk /\ RestOk /\ TableOk /\ ReadingOk /\ SetsOk /\ TodoOk
  BY DEF Inv, PhaseOk
<1>3. MemOk'
  BY <1>1, <1>2 DEF MemOk, PairsOk
<1>4. RestOk'
  BY <1>1, <1>2 DEF RestOk, NoTodo, Todos
<1>5. TableOk' /\ ReadingOk' /\ TodoOk'
  BY <1>1, <1>2 DEF TableOk, ReadingOk, TodoOk, IsLoaded
<1>6. SetsOk'
  BY <1>1 DEF SetsOk, IsSet
<1> QED
  BY <1>3, <1>4, <1>5, <1>6 DEF Inv, PhaseOk

\* A flush with nothing to write ends.
LEMMA NothingFlushedOk ==
  ASSUME Inv, NothingFlushed
  PROVE  Inv'
<1>1. MemOk /\ TableOk /\ SetsOk
  BY DEF Inv, PhaseOk
<1>2. pc = "validate" /\ ~inTx /\ EndOfFlush /\ UNCHANGED <<coll, rows, db>>
  BY DEF NothingFlushed
<1>3. db = tx /\ \A x \in Entity : ~IsSet(coll[x])
  BY <1>1, <1>2 DEF TableOk, SetsOk
<1>4. rows' \in [Pair -> Row] /\ PairsAt(coll, rows', tx, wanted)
  BY <1>1, <1>2 DEF MemOk, PairsOk
<1> QED
  BY <1>2, <1>3, <1>4, EndOfFlushOk

\* A flush fails: before its write it leaves everything to the next one.
LEMMA FailOk ==
  ASSUME Careful, Inv, Fail
  PROVE  Inv'
<1>1. MemOk /\ TableOk /\ SetsOk /\ RestOk
  BY DEF Inv, PhaseOk
<1>2. pc \notin {"idle", "committed"} /\ FailPoint \in FailAt /\ EndOfFlush /\ UNCHANGED <<coll, rows, db>>
  BY DEF Fail
<1>3. rounds = 0 /\ pc \notin {"awaiting", "written", "commit"}
  BY <1>1, <1>2 DEF Careful, FailPoint, RestOk
<1>4. db = tx /\ \A x \in Entity : IsSet(coll[x]) => x \in pendingLoads
  BY <1>1, <1>3 DEF TableOk, SetsOk
<1>5. rows' \in [Pair -> Row] /\ PairsAt(coll, rows', tx, wanted)
  BY <1>1, <1>2 DEF MemOk, PairsOk
<1> QED
  BY <1>2, <1>4, <1>5, EndOfFlushOk

\* After the commit the rows are no longer pending, and the flush ends.
LEMMA ResetOk ==
  ASSUME Inv, Reset
  PROVE  Inv'
<1>1. MemOk /\ TableOk /\ SetsOk /\ TodoOk
  BY DEF Inv, PhaseOk
<1>2. pc = "committed" /\ EndOfFlush /\ UNCHANGED <<coll, db>>
      /\ rows' = IF todo = NoTodo THEN rows ELSE [p \in Pair |-> ResetAfterFlushed(rows[p])]
  BY DEF Reset
<1>3. db = tx /\ (\A x \in Entity : ~IsSet(coll[x])) /\ \A p \in Pair : Held(rows[p], p, tx) <=> p \in tx
  BY <1>1, <1>2 DEF TableOk, SetsOk, TodoOk
<1>4. rows' \in [Pair -> Row] /\ PairsAt(coll, rows', tx, wanted)
  <2>1. CASE todo = NoTodo
    BY <1>1, <1>2, <2>1 DEF MemOk, PairsOk
  <2>2. CASE todo # NoTodo
    <3>1. rows' = [p \in Pair |-> ResetAfterFlushed(rows[p])]
      BY <1>2, <2>2
    <3>2. ASSUME NEW x \in Entity, NEW y \in Others(x)
          PROVE  PairOk(x, y, coll[x], coll[y], rows'[Link(x, y)], Link(x, y), tx, wanted)
      <4>1. y \in Entity /\ Link(x, y) \in Pair
        BY Links
      <4>2. PairOk(x, y, coll[x], coll[y], rows[Link(x, y)], Link(x, y), tx, wanted) /\ rows[Link(x, y)] \in Row
        BY <1>1, <4>1 DEF MemOk, PairsOk, PairsAt
      <4>3. PairOk(x, y, coll[x], coll[y], ResetAfterFlushed(rows[Link(x, y)]), Link(x, y), tx, wanted)
        BY <1>3, <4>1, <4>2, PairReset
      <4> QED
        BY <3>1, <4>1, <4>3
    <3>3. ASSUME NEW p \in Pair
          PROVE  ResetAfterFlushed(rows[p]) \in Row
      <4>1. /\ p[1] \in Entity /\ p[2] \in Entity /\ rows[p] \in Row
            /\ PairOk(p[1], p[2], coll[p[1]], coll[p[2]], rows[p], p, tx, wanted)
        BY <1>1, PairIsLink, Links DEF MemOk, PairsOk, PairsAt
      <4> QED
        BY <1>3, <4>1, PairReset
    <3> QED
      BY <3>1, <3>2, <3>3 DEF PairsAt
  <2> QED
    BY <2>1, <2>2
<1> QED
  BY <1>2, <1>3, <1>4, EndOfFlushOk

\* The todos are written, and the transaction's table holds what memory holds.
LEMMA WriteOk ==
  ASSUME Careful, Inv, Write
  PROVE  Inv'
<1>1. /\ pc = "write" /\ pc' = "written" /\ \A x \in Entity : reading[x] = NotReading
      /\ tx' = (tx \cup todo.inserts) \ todo.deletes
      /\ rows' = [p \in Pair |-> WrittenRow(rows[p], p, todo.inserts, todo.deletes)]
      /\ UNCHANGED <<coll, pendingLoads, reading, db, inTx, awaiting, todo, rounds, edits, flushes, wanted>>
  BY DEF Write, Careful, WrittenRow
<1>2. MemOk /\ RestOk /\ TableOk /\ ReadingOk /\ SetsOk /\ TodoOk
  BY DEF Inv, PhaseOk
<1>3. \A x \in Entity : ~IsSet(coll[x])
  BY <1>1, <1>2 DEF SetsOk
<1>4. \A p \in Pair : p \in tx' <=> (p \in tx \/ p \in todo.inserts) /\ p \notin todo.deletes
  BY <1>1
<1>5. ASSUME NEW x \in Entity, NEW y \in Others(x), NEW p \in Pair, p = Link(x, y)
      PROVE  /\ rows'[p] \in Row
             /\ PairOk(x, y, coll[x], coll[y], rows'[p], p, tx', wanted)
             /\ Held(rows'[p], p, tx') <=> p \in tx'
  <2>1. y \in Entity /\ TodoIs(p) /\ rows[p] \in Row
        /\ PairOk(x, y, coll[x], coll[y], rows[p], p, tx, wanted)
    BY <1>1, <1>2, <1>5, Links DEF TodoOk, MemOk, PairsOk, PairsAt
  <2>2. rows'[p] = WrittenRow(rows[p], p, todo.inserts, todo.deletes)
    BY <1>1
  <2>3. PICK T2 : T2 = tx'
    OBVIOUS
  <2>4. p \in T2 <=> (p \in tx \/ p \in todo.inserts) /\ p \notin todo.deletes
    BY <1>4, <2>3
  <2>5. LET r2 == WrittenRow(rows[p], p, todo.inserts, todo.deletes)
        IN /\ r2 \in Row
           /\ PairOk(x, y, coll[x], coll[y], r2, p, T2, wanted)
           /\ Held(r2, p, T2) <=> p \in T2
    BY <1>3, <2>1, <2>4, PairWritten DEF TodoIs
  <2> QED
    BY <2>2, <2>3, <2>5
<1>6. \A p \in Pair : rows'[p] \in Row /\ (Held(rows'[p], p, tx') <=> p \in tx')
  BY <1>5, PairIsLink
<1>7. PairsAt(coll, rows', tx', wanted)
  BY <1>5, Links DEF PairsAt
<1>8. rows' \in [Pair -> Row]
  BY <1>1, <1>6
<1>9. MemOk'
  BY <1>1, <1>2, <1>7, <1>8 DEF MemOk, PairsOk
<1>10. RestOk'
  BY <1>1, <1>2 DEF RestOk, Todos
<1>11. TableOk' /\ ReadingOk'
  BY <1>1, <1>2 DEF TableOk, ReadingOk
<1>12. SetsOk'
  BY <1>1, <1>3 DEF SetsOk, IsSet
<1>13. TodoOk'
  BY <1>1, <1>6 DEF TodoOk
<1> QED
  BY <1>9, <1>10, <1>11, <1>12, <1>13 DEF Inv, PhaseOk

\* After a write the reactive queries are run, or else the flush goes on to the commit.
LEMMA WrittenOk ==
  ASSUME Inv, StartQueries \/ LastRound
  PROVE  Inv'
<1>1. /\ pc = "written" /\ \/ pc' = "query" /\ rounds' = rounds + 1
                           \/ pc' = "commit" /\ UNCHANGED rounds
      /\ UNCHANGED <<coll, rows, pendingLoads, reading, db, tx, inTx, awaiting, todo, edits, flushes, wanted>>
  BY DEF StartQueries, LastRound, memVars, tableVars
<1>2. MemOk /\ RestOk /\ TableOk /\ ReadingOk /\ SetsOk /\ TodoOk
  BY DEF Inv, PhaseOk
<1>3. MemOk'
  BY <1>1, <1>2, Still
<1>4. RestOk' /\ TableOk' /\ ReadingOk'
  BY <1>1, <1>2 DEF RestOk, TableOk, ReadingOk, IsLoaded
<1>5. SetsOk'
  BY <1>1, <1>2 DEF SetsOk, IsSet
<1>6. TodoOk'
  BY <1>1, <1>2 DEF TodoOk
<1> QED
  BY <1>3, <1>4, <1>5, <1>6 DEF Inv, PhaseOk

\* The queries of a round are over, and the next round starts in the same transaction.
LEMMA EndQueriesOk ==
  ASSUME Inv, EndQueries
  PROVE  Inv'
<1>1. /\ pc = "query" /\ pc' = "loads"
      /\ UNCHANGED <<coll, rows, pendingLoads, reading, db, tx, inTx, awaiting, todo, rounds, edits, flushes, wanted>>
  BY DEF EndQueries, memVars, tableVars
<1>2. MemOk /\ RestOk /\ TableOk /\ ReadingOk /\ SetsOk /\ TodoOk
  BY DEF Inv, PhaseOk
<1>3. MemOk'
  BY <1>1, <1>2, Still
<1>4. RestOk' /\ TableOk' /\ ReadingOk' /\ TodoOk'
  BY <1>1, <1>2 DEF RestOk, TableOk, ReadingOk, TodoOk, IsLoaded
<1>5. SetsOk'
  BY <1>1, <1>2 DEF SetsOk, IsSet
<1> QED
  BY <1>3, <1>4, <1>5 DEF Inv, PhaseOk

\* The transaction commits.
LEMMA CommitOk ==
  ASSUME Inv, Commit
  PROVE  Inv'
<1>1. /\ pc = "commit" /\ pc' = "committed" /\ db' = tx /\ inTx' = FALSE
      /\ UNCHANGED <<coll, rows, pendingLoads, reading, tx, awaiting, todo, rounds, edits, flushes, wanted>>
  BY DEF Commit, memVars
<1>2. MemOk /\ RestOk /\ TableOk /\ ReadingOk /\ SetsOk /\ TodoOk
  BY DEF Inv, PhaseOk
<1>3. MemOk'
  BY <1>1, <1>2, Still
<1>4. RestOk' /\ TableOk' /\ ReadingOk' /\ TodoOk'
  BY <1>1, <1>2 DEF RestOk, TableOk, ReadingOk, TodoOk, IsLoaded
<1>5. SetsOk'
  BY <1>1, <1>2 DEF SetsOk, IsSet
<1> QED
  BY <1>3, <1>4, <1>5 DEF Inv, PhaseOk

----------------------------------------------------------------------------
(* The invariant is inductive. *)

\* At the start nothing is tracked, and an entity that was just made has no links.
LEMMA InitOk ==
  ASSUME Init
  PROVE  Inv
<1>1. /\ coll = [x \in Entity |-> IF x \in Fresh THEN Loaded({})
                                  ELSE [kind |-> "pristine", members |-> {}, removed |-> {}]]
      /\ rows = [p \in Pair |-> NoRow] /\ db = InitialLinks /\ tx = InitialLinks /\ wanted = InitialLinks
      /\ pendingLoads = {} /\ reading = [x \in Entity |-> NotReading] /\ inTx = FALSE
      /\ pc = "idle" /\ awaiting = {} /\ todo = NoTodo
      /\ rounds = 0 /\ edits = 0 /\ flushes = 0
  BY DEF Init
<1>2. ASSUME NEW x \in Entity
      PROVE  /\ coll[x].members = {} /\ coll[x].removed = {} /\ coll[x] \in Collections
             /\ coll[x].kind = IF x \in Fresh THEN "loaded" ELSE "pristine"
  <2>1. CASE x \in Fresh
    <3>1. coll[x] = [kind |-> "loaded", members |-> {}, removed |-> {}]
      BY <1>1, <2>1 DEF Loaded
    <3> QED
      BY <2>1, <3>1 DEF Collections
  <2>2. CASE x \notin Fresh
    <3>1. coll[x] = [kind |-> "pristine", members |-> {}, removed |-> {}]
      BY <1>1, <2>2
    <3> QED
      BY <2>2, <3>1 DEF Collections
  <2> QED
    BY <2>1, <2>2
<1>3. CollsOk(coll)
  BY <1>1, <1>2 DEF CollsOk, CollOk
<1>4. ASSUME NEW x \in Entity, NEW y \in Others(x)
      PROVE  PairOk(x, y, coll[x], coll[y], rows[Link(x, y)], Link(x, y), tx, wanted)
  <2>1. y \in Entity /\ Link(x, y) \in Pair
    BY Links
  <2>2. rows[Link(x, y)] = NoRow /\ tx = wanted
    BY <1>1, <2>1
  <2>3. x \in Fresh \/ y \in Fresh => Link(x, y) \notin tx
    BY <1>1, ManyToManyAssumption DEF Link
  <2>4. RowOk(NoRow, Link(x, y), tx, wanted, FALSE)
    BY <2>2 DEF RowOk, Held, Assumed, IsNew
  <2>5. SideOk(coll[x], y, NoRow, Link(x, y), tx, wanted) /\ ~IsSet(coll[x])
    BY <1>2, <2>3 DEF SideOk, Held, IsNew, IsSet
  <2>6. SideOk(coll[y], x, NoRow, Link(x, y), tx, wanted) /\ ~IsSet(coll[y])
    BY <1>2, <2>1, <2>3 DEF SideOk, Held, IsNew, IsSet
  <2> QED
    BY <2>2, <2>4, <2>5, <2>6 DEF PairOk, RowOk
<1>5. MemOk
  BY <1>1, <1>3, <1>4 DEF MemOk, PairsOk, PairsAt, Row
<1>6. RestOk
  BY <1>1, ManyToManyAssumption DEF RestOk, NoTodo, Todos
<1>7. PhaseOk
  BY <1>1, <1>2 DEF PhaseOk, TableOk, ReadingOk, SetsOk, TodoOk, IsSet
<1> QED
  BY <1>5, <1>6, <1>7 DEF Inv

\* Nothing changes.
LEMMA StutterOk ==
  ASSUME Inv, UNCHANGED vars
  PROVE  Inv'
<1>1. UNCHANGED <<coll, rows, pendingLoads, reading, db, tx, inTx, pc, awaiting, todo, rounds, edits, flushes, wanted>>
  BY DEF vars, memVars, tableVars, flushVars
<1>2. MemOk /\ RestOk /\ TableOk /\ ReadingOk /\ SetsOk /\ TodoOk
  BY DEF Inv, PhaseOk
<1>3. MemOk'
  BY <1>1, <1>2, Still
<1>4. RestOk' /\ TableOk' /\ ReadingOk'
  BY <1>1, <1>2 DEF RestOk, TableOk, ReadingOk, IsLoaded
<1>5. SetsOk' /\ TodoOk'
  BY <1>1, <1>2 DEF SetsOk, IsSet, IsLoaded, TodoOk, TodoIs
<1> QED
  BY <1>3, <1>4, <1>5 DEF Inv, PhaseOk

\* Every step keeps the invariant.
LEMMA NextOk ==
  ASSUME Careful, Inv, [Next]_vars
  PROVE  Inv'
<1>1. CASE Edit
  BY <1>1, EditOk
<1>2. ASSUME NEW x \in Entity, QueryLinks(x)
      PROVE  Inv'
  BY <1>2, QueryLinksOk
<1>3. ASSUME NEW x \in Entity, ApplyLoad(x)
      PROVE  Inv'
  BY <1>3, ApplyLoadOk
<1>4. CASE StartFlush
  BY <1>4, StartFlushOk
<1>5. CASE LoadPending
  BY <1>5, LoadPendingOk
<1>6. CASE PendingLoaded
  BY <1>6, PendingLoadedOk
<1>7. CASE EndHooks
  BY <1>7, EndHooksOk
<1>8. CASE Validated
  BY <1>8, ValidatedOk
<1>9. CASE RoundValidated
  BY <1>9, RoundValidatedOk
<1>10. CASE NothingFlushed
  BY <1>10, NothingFlushedOk
<1>11. CASE Write
  BY <1>11, WriteOk
<1>12. CASE StartQueries \/ LastRound
  BY <1>12, WrittenOk
<1>13. CASE EndQueries
  BY <1>13, EndQueriesOk
<1>14. CASE Commit
  BY <1>14, CommitOk
<1>15. CASE Reset
  BY <1>15, ResetOk
<1>16. CASE Fail
  BY <1>16, FailOk
<1>17. CASE UNCHANGED vars
  BY <1>17, StutterOk
<1> QED
  BY <1>1, <1>2, <1>3, <1>4, <1>5, <1>6, <1>7, <1>8, <1>9, <1>10, <1>11, <1>12, <1>13, <1>14, <1>15, <1>16,
     <1>17 DEF Next

\* The invariant holds in every behaviour.
LEMMA Invariance ==
  ASSUME Careful
  PROVE  Spec => []Inv
<1>1. Init => Inv
  BY InitOk
<1>2. Inv /\ [Next]_vars => Inv'
  BY NextOk
<1> QED
  BY <1>1, <1>2, PTL DEF Spec

----------------------------------------------------------------------------
(* What follows. *)

\* The types follow from the invariant.
LEMMA Types ==
  ASSUME Inv
  PROVE  TypeOK
BY DEF Inv, MemOk, RestOk, CollsOk, CollOk, Row, TypeOK

\* A loaded collection shows what is wanted, unless the other side waits for a load.
LEMMA ShowsWanted ==
  ASSUME Inv, NEW x \in Entity, NEW y \in Others(x), IsLoaded(x), coll[y].kind # "pendingSet"
  PROVE  y \in coll[x].members <=> Link(x, y) \in wanted
<1>1. PairOk(x, y, coll[x], coll[y], rows[Link(x, y)], Link(x, y), tx, wanted)
  BY DEF Inv, MemOk, PairsOk, PairsAt
<1> QED
  BY <1>1 DEF PairOk, SideOk, RowOk, IsSet, IsLoaded

\* A row with nothing left to flush and not only assumed to be in the table knows the table.
LEMMA KnowsTable ==
  ASSUME Inv, pc = "idle", NEW p \in Pair, p \notin AssumedRows, rows[p] # NoRow, rows[p].op # "pending"
  PROVE  rows[p].persisted <=> p \in db
<1>1. /\ rows[p] \in Row /\ db = tx
      /\ p[1] \in Entity /\ p[2] \in Entity
      /\ PairOk(p[1], p[2], coll[p[1]], coll[p[2]], rows[p], p, tx, wanted)
  BY PairIsLink, Links DEF Inv, MemOk, PairsOk, PairsAt, PhaseOk, TableOk
<1>2. rows[p].persisted \in BOOLEAN /\ rows[p].deleted \in BOOLEAN
  BY <1>1, Rows DEF Row
<1>3. ~(rows[p].persisted /\ rows[p].deleted /\ p \notin tx)
  BY DEF AssumedRows
<1> QED
  BY <1>1, <1>2, <1>3 DEF PairOk, RowOk, IsNew

\* A flush that commits, or has nothing to write, saves what is wanted.
LEMMA Saves ==
  ASSUME Inv, Commit \/ NothingFlushed
  PROVE  db' = wanted
<1>1. MemOk /\ RestOk /\ TableOk /\ SetsOk /\ TodoOk
  BY DEF Inv, PhaseOk
<1>2. (pc = "commit" /\ db' = tx) \/ (pc = "validate" /\ todo = NoTodo /\ db = tx /\ db' = tx)
  BY <1>1 DEF Commit, NothingFlushed, TableOk
<1>3. \A x \in Entity : ~IsSet(coll[x])
  BY <1>1, <1>2 DEF SetsOk
<1>4. ASSUME NEW p \in Pair
      PROVE  p \in wanted <=> p \in tx
  <2>1. p \in wanted <=> Held(rows[p], p, tx)
    BY <1>1, <1>3, NoSet
  <2>2. Held(rows[p], p, tx) <=> p \in tx
    <3>1. CASE pc = "commit"
      BY <1>1, <3>1 DEF TodoOk
    <3>2. CASE pc = "validate" /\ todo = NoTodo
      BY <1>1, <1>3, <3>2, NothingToWrite DEF TodoOk
    <3> QED
      BY <1>2, <3>1, <3>2
  <2> QED
    BY <2>1, <2>2
<1> QED
  BY <1>1, <1>2, <1>4 DEF RestOk

\* Type correctness.
THEOREM TypeCorrect ==
  ASSUME Careful
  PROVE  Spec => []TypeOK
<1>1. Spec => []Inv
  BY Invariance
<1>2. Inv => TypeOK
  BY Types
<1> QED
  BY <1>1, <1>2, PTL

\* A loaded collection shows the links the application asked for, in whatever order adds,
\* removes, sets, loads and flushes came on either side (ManyToManyCollection.ts).
THEOREM LoadedShowsWanted ==
  ASSUME Careful
  PROVE  Spec => []LoadedIsWanted
<1>1. Spec => []Inv
  BY Invariance
<1>2. Inv => LoadedIsWanted
  BY Types, ShowsWanted DEF LoadedIsWanted
<1> QED
  BY <1>1, <1>2, PTL

\* Between flushes a JoinRow with nothing left to flush knows whether it is in the table
\* (JoinRows.ts, with m2mBatchInsert and m2mBatchDelete marking what they wrote).
THEOREM PersistedIsTrue ==
  ASSUME Careful
  PROVE  Spec => []PersistedIsStored
<1>1. Spec => []Inv
  BY Invariance
<1>2. Inv => PersistedIsStored
  BY KnowsTable DEF PersistedIsStored
<1> QED
  BY <1>1, <1>2, PTL

\* A flush that ends well leaves the join table as the application asked for: no add, remove
\* or set is lost and none is invented, by either way a flush ends (em.flush).
THEOREM NoEditLost ==
  ASSUME Careful
  PROVE  Spec => FlushSavesWanted
<1>1. Spec => []Inv
  BY Invariance
<1>2. Inv /\ [Next]_vars => [Commit \/ NothingFlushed => db' = wanted]_vars
  BY Saves
<1> QED
  BY <1>1, <1>2, PTL DEF Spec, FlushSavesWanted
=============================================================================
