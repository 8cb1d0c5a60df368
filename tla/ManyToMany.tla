----------------------------- MODULE ManyToMany ------------------------------
(***************************************************************************)
(* A many-to-many relation in one entity manager: the collections on both  *)
(* sides (ManyToManyCollection.ts), the join rows they share, their loads, *)
(* and what em.flush makes of them.                                        *)
(*                                                                         *)
(* An add, remove or set is one synchronous call that percolates to the    *)
(* other side.  A load is two steps: its query is answered, and later its  *)
(* result is applied to whatever the collection has become.                *)
(***************************************************************************)
EXTENDS JoinRows, Naturals

CONSTANTS Left, Right,       \* the entities of both sides
          Fresh,             \* entities em.create just made: their collections are loaded
          InitialLinks,      \* the join table
          BlindEdits,        \* whether an add or remove may ask for what is already so
          ReAdds,            \* whether a link may be added again after a remove only assumed its row
          OverlappingSets,   \* whether a set may meet changes that wait for a load
          StaleLoads,        \* whether a load may be under way while a flush writes
          LateSets,          \* whether hooks and reactions may set what is not loaded
          JoinOnlyRounds,    \* whether a reactive query's round may change links and no entity
          FailAt,            \* where a rule, a hook or the driver may throw
          NotReading,        \* no load of a collection is under way
          MaxEdits, MaxFlushes, MaxRounds

Entity == Left \cup Right
Pair == Left \X Right

ASSUME ManyToManyAssumption ==
  /\ Left \cap Right = {}
  /\ Fresh \subseteq Entity
  /\ InitialLinks \subseteq Pair /\ \A p \in InitialLinks : p[1] \notin Fresh /\ p[2] \notin Fresh
  /\ \A S \in SUBSET Pair : S # NotReading
  /\ {BlindEdits, ReAdds, OverlappingSets, StaleLoads, LateSets, JoinOnlyRounds} \subseteq BOOLEAN
  /\ {MaxEdits, MaxFlushes, MaxRounds} \subseteq Nat

VARIABLES coll,          \* the state of every collection
          rows,          \* the JoinRow of every pair
          pendingLoads,  \* collections set before they were loaded
          reading,       \* what the query of a load returned, until it is applied
          db, tx, inTx,  \* the join table: committed, as the transaction sees it, em.txn
          pc, awaiting, todo,
          rounds, edits, flushes,
          wanted         \* for the properties: the links the application asked for

memVars == <<coll, rows, pendingLoads>>
tableVars == <<db, tx, inTx>>
flushVars == <<pc, awaiting, todo, rounds>>
vars == <<memVars, reading, tableVars, flushVars, edits, flushes, wanted>>

Others(x) == IF x \in Left THEN Right ELSE Left
Link(x, y) == IF x \in Left THEN <<x, y>> ELSE <<y, x>>
LinksOf(x) == {Link(x, y) : y \in Others(x)}
Collections == [kind : {"pristine", "addedRemoved", "pendingSet", "loaded"},
                members : SUBSET Entity, removed : SUBSET Entity]
Todos == [inserts : SUBSET Pair, deletes : SUBSET Pair]
NoTodo == [inserts |-> {}, deletes |-> {}]

TypeOK ==
  /\ coll \in [Entity -> Collections]
  /\ \A x \in Entity : /\ coll[x].members \cup coll[x].removed \subseteq Others(x)
                       /\ coll[x].members \cap coll[x].removed = {}
  /\ rows \in [Pair -> Tracked \cup {NoRow}]
  /\ pendingLoads \subseteq Entity /\ awaiting \subseteq Entity
  /\ DOMAIN reading = Entity
  /\ \A x \in Entity : reading[x] # NotReading => reading[x] \subseteq Pair
  /\ {db, tx, wanted} \subseteq SUBSET Pair /\ inTx \in BOOLEAN
  /\ pc \in {"idle", "loads", "awaiting", "hooks", "validate", "write", "written", "query",
             "commit", "committed"}
  /\ todo \in Todos
  /\ {rounds, edits, flushes} \subseteq Nat

----------------------------------------------------------------------------
(* The collections. *)

Loaded(S) == [kind |-> "loaded", members |-> S, removed |-> {}]
IsLoaded(x) == coll[x].kind = "loaded"

AddTo(c, y) ==
  IF c.kind = "pristine" THEN [kind |-> "addedRemoved", members |-> {y}, removed |-> {}]
  ELSE [c EXCEPT !.members = @ \cup {y}, !.removed = @ \ {y}]

RemoveFrom(c, y) ==
  CASE c.kind = "pristine" -> [kind |-> "addedRemoved", members |-> {}, removed |-> {y}]
    [] c.kind = "addedRemoved" -> [c EXCEPT !.members = @ \ {y}, !.removed = @ \cup {y}]
    [] c.kind \in {"pendingSet", "loaded"} -> [c EXCEPT !.members = @ \ {y}]

\* Register the join rows of x's changes, and percolate them to the other side.
RowsAfter(R, x, gone, new) ==
  [p \in Pair |-> CASE p \in {Link(x, y) : y \in gone} -> AddRemove(R[p])
                    [] p \in {Link(x, y) : y \in new} -> AddNew(R[p])
                    [] OTHER -> R[p]]
\* A slip: the change is registered, and the other side does not hear of it.
NotPercolated(C, x, gone, new) == C
Percolated(C, x, gone, new) ==
  [z \in Entity |-> CASE z \in gone -> RemoveFrom(C[z], x)
                      [] z \in new -> AddTo(C[z], x)
                      [] OTHER -> C[z]]

Add(x, y) ==
  IF IsLoaded(x) /\ y \in coll[x].members THEN UNCHANGED memVars
  ELSE /\ coll' = [Percolated(coll, x, {}, {y}) EXCEPT ![x] = AddTo(coll[x], y)]
       /\ rows' = RowsAfter(rows, x, {}, {y})
       /\ UNCHANGED pendingLoads

Remove(x, y) ==
  /\ coll' = [Percolated(coll, x, {y}, {}) EXCEPT ![x] = RemoveFrom(coll[x], y)]
  /\ rows' = RowsAfter(rows, x, {y}, {})
  /\ UNCHANGED pendingLoads

\* set diffs a loaded collection; it is put off until the load of any other.
SetTo(x, S) ==
  IF IsLoaded(x)
  THEN LET gone == coll[x].members \ S
           new == S \ coll[x].members
       IN /\ coll' = [Percolated(coll, x, gone, new) EXCEPT ![x] = Loaded(S)]
          /\ rows' = RowsAfter(rows, x, gone, new)
          /\ UNCHANGED pendingLoads
  ELSE /\ coll' = [coll EXCEPT ![x] = [kind |-> "pendingSet", members |-> S, removed |-> {}]]
       /\ pendingLoads' = IF coll[x].kind = "pendingSet" THEN pendingLoads ELSE pendingLoads \cup {x}
       /\ UNCHANGED rows

AddsOrRemoves ==
  \E x \in Entity : \E y \in Others(x) :
    \/ /\ BlindEdits \/ (Link(x, y) \notin wanted /\ y \notin coll[x].members)
       /\ Add(x, y)
       /\ wanted' = wanted \cup {Link(x, y)}
    \/ /\ BlindEdits \/ Link(x, y) \in wanted
       /\ Remove(x, y)
       /\ wanted' = wanted \ {Link(x, y)}

\* A change to the links of x waits for a load or for a flush.
Waits(x, y) ==
  \/ coll[x].kind = "addedRemoved" /\ y \in coll[x].members \cup coll[x].removed
  \/ coll[y].kind = "addedRemoved" /\ x \in coll[y].members \cup coll[y].removed
  \/ rows[Link(x, y)] # NoRow /\ rows[Link(x, y)].op = "pending"
Overlaps(x) ==
  \E y \in Others(x) : coll[y].kind = "pendingSet" \/ (~IsLoaded(x) /\ Waits(x, y))

Sets ==
  \E x \in Entity : \E S \in SUBSET Others(x) :
    /\ pc = "idle" \/ LateSets \/ IsLoaded(x)
    /\ OverlappingSets \/ ~Overlaps(x)
    /\ SetTo(x, S)
    /\ wanted' = (wanted \ LinksOf(x)) \cup {Link(x, y) : y \in S}

----------------------------------------------------------------------------
(* The application, and the loads. *)

Init ==
  /\ coll = [x \in Entity |-> IF x \in Fresh THEN Loaded({})
                              ELSE [kind |-> "pristine", members |-> {}, removed |-> {}]]
  /\ rows = [p \in Pair |-> NoRow]
  /\ pendingLoads = {} /\ reading = [x \in Entity |-> NotReading]
  /\ db = InitialLinks /\ tx = db /\ inTx = FALSE
  /\ pc = "idle" /\ awaiting = {} /\ todo = NoTodo
  /\ rounds = 0 /\ edits = 0 /\ flushes = 0
  /\ wanted = InitialLinks

\* Removed rows that are taken to be in the table and are not.
AssumedRows == {p \in Pair : rows[p] # NoRow /\ rows[p].persisted /\ rows[p].deleted /\ p \notin tx}

\* Application code between flushes, and hooks and reactions in their sections.
Edit ==
  /\ edits < MaxEdits
  /\ edits' = edits + 1
  /\ pc \in {"idle", "hooks", "query"}
  /\ AddsOrRemoves \/ Sets
  /\ ReAdds \/ wanted' \cap AssumedRows = {}
  /\ UNCHANGED <<reading, tableVars, flushVars, flushes>>

Found(x) == LinksOf(x) \cap (IF inTx THEN tx ELSE db)

\* The query of a load is answered; a second load joins the first.
QueryLinks(x) ==
  /\ ~IsLoaded(x) /\ reading[x] = NotReading
  /\ reading' = [reading EXCEPT ![x] = Found(x)]
  /\ UNCHANGED <<memVars, tableVars, flushVars, edits, flushes, wanted>>

\* Adds and removes made before the load: their rows are registered again.
MergeAddedRemoved(R, x, found) ==
  /\ coll' = [coll EXCEPT ![x] = Loaded((found \cup @.members) \ @.removed)]
  /\ rows' = RowsAfter(R, x, coll[x].removed, coll[x].members \ found)

ApplyPendingSet(R, x, found) ==
  LET gone == found \ coll[x].members
      new == coll[x].members \ found
  IN /\ coll' = [Percolated(coll, x, gone, new) EXCEPT ![x] = Loaded(@.members)]
     /\ rows' = RowsAfter(R, x, gone, new)

\* The result of a load, which may be of before edits and flushes, is applied.
ApplyLoad(x) ==
  /\ reading[x] # NotReading
  /\ reading' = [reading EXCEPT ![x] = NotReading]
  /\ LET R == [p \in Pair |-> IF p \in LinksOf(x) THEN LoadRow(rows[p], p \in reading[x]) ELSE rows[p]]
         found == {y \in Others(x) : Live(R[Link(x, y)])}
     IN \/ /\ coll[x].kind = "pristine"
           /\ coll' = [coll EXCEPT ![x] = Loaded(found)] /\ rows' = R
        \/ coll[x].kind = "addedRemoved" /\ MergeAddedRemoved(R, x, found)
        \/ coll[x].kind = "pendingSet" /\ ApplyPendingSet(R, x, found)
  /\ UNCHANGED <<pendingLoads, tableVars, flushVars, edits, flushes, wanted>>

----------------------------------------------------------------------------
(* The flush. *)

EndOfFlush ==
  /\ pc' = "idle"
  /\ tx' = db' /\ inTx' = FALSE
  /\ awaiting' = {} /\ todo' = NoTodo /\ rounds' = 0
  /\ UNCHANGED <<pendingLoads, reading, edits, flushes, wanted>>

StartFlush ==
  /\ pc = "idle"
  /\ flushes < MaxFlushes
  /\ flushes' = flushes + 1
  /\ pc' = "loads"
  /\ UNCHANGED <<memVars, reading, tableVars, awaiting, todo, rounds, edits, wanted>>

\* Load what was set before it was loaded; a load under way is joined.
LoadPending ==
  /\ pc = "loads"
  /\ pendingLoads' = {}
  /\ LET unloaded == {x \in pendingLoads : ~IsLoaded(x)}
     IN /\ awaiting' = unloaded
        /\ reading' = [x \in Entity |-> IF x \in unloaded /\ reading[x] = NotReading
                                        THEN Found(x) ELSE reading[x]]
  /\ pc' = "awaiting"
  /\ UNCHANGED <<coll, rows, tableVars, todo, rounds, edits, flushes, wanted>>

PendingLoaded ==
  /\ pc = "awaiting"
  /\ \A x \in awaiting : reading[x] = NotReading
  /\ awaiting' = {}
  /\ pc' = "hooks"
  /\ UNCHANGED <<memVars, reading, tableVars, todo, rounds, edits, flushes, wanted>>

ToTodo == [inserts |-> {p \in Pair : IsInsert(rows[p])}, deletes |-> {p \in Pair : IsDelete(rows[p])}]

EndHooks ==
  /\ pc = "hooks"
  /\ todo' = ToTodo
  /\ pc' = "validate"
  /\ UNCHANGED <<memVars, reading, tableVars, awaiting, rounds, edits, flushes, wanted>>

\* Entities may be written, too: then there is a transaction without join rows.
Validated ==
  /\ pc = "validate" /\ rounds = 0
  /\ inTx' = TRUE
  /\ pc' = "write"
  /\ UNCHANGED <<memVars, reading, db, tx, awaiting, todo, rounds, edits, flushes, wanted>>

\* The loop goes on for entities only: a round that changed none writes no join rows.
RoundValidated ==
  /\ pc = "validate" /\ rounds > 0
  /\ \/ pc' = "write"
     \/ (JoinOnlyRounds \/ todo = NoTodo) /\ pc' = "commit"
  /\ UNCHANGED <<memVars, reading, tableVars, awaiting, todo, rounds, edits, flushes, wanted>>

NothingFlushed ==
  /\ pc = "validate"
  /\ ~inTx /\ todo = NoTodo
  /\ UNCHANGED <<coll, rows, db>>
  /\ EndOfFlush

Write ==
  /\ pc = "write"
  /\ StaleLoads \/ \A x \in Entity : reading[x] = NotReading
  /\ tx' = (tx \cup todo.inserts) \ todo.deletes
  /\ rows' = [p \in Pair |-> CASE rows[p] # NoRow /\ p \in todo.inserts -> Inserted(rows[p])
                               [] rows[p] # NoRow /\ p \in todo.deletes -> Removed(rows[p])
                               [] OTHER -> rows[p]]
  /\ pc' = "written"
  /\ UNCHANGED <<coll, pendingLoads, reading, db, inTx, awaiting, todo, rounds, edits, flushes, wanted>>

StartQueries ==
  /\ pc = "written"
  /\ rounds < MaxRounds
  /\ rounds' = rounds + 1
  /\ pc' = "query"
  /\ UNCHANGED <<memVars, reading, tableVars, awaiting, todo, edits, flushes, wanted>>

EndQueries ==
  /\ pc = "query"
  /\ pc' = "loads"
  /\ UNCHANGED <<memVars, reading, tableVars, awaiting, todo, rounds, edits, flushes, wanted>>

LastRound ==
  /\ pc = "written"
  /\ pc' = "commit"
  /\ UNCHANGED <<memVars, reading, tableVars, awaiting, todo, rounds, edits, flushes, wanted>>

Commit ==
  /\ pc = "commit"
  /\ db' = tx
  /\ inTx' = FALSE
  /\ pc' = "committed"
  /\ UNCHANGED <<memVars, reading, tx, awaiting, todo, rounds, edits, flushes, wanted>>

\* Only a table the last round had todos for is reset.
Reset ==
  /\ pc = "committed"
  /\ rows' = IF todo = NoTodo THEN rows ELSE [p \in Pair |-> ResetAfterFlushed(rows[p])]
  /\ UNCHANGED <<coll, db>>
  /\ EndOfFlush

\* What fails after a write, "written", makes the transaction roll that write back; what
\* is in memory stays as it is.
FailPoint == IF pc \in {"written", "commit"} \/ rounds > 0 THEN "written" ELSE pc

Fail ==
  /\ pc \notin {"idle", "committed"}
  /\ FailPoint \in FailAt
  /\ UNCHANGED <<coll, rows, db>>
  /\ EndOfFlush

Next ==
  \/ Edit \/ \E x \in Entity : QueryLinks(x) \/ ApplyLoad(x)
  \/ StartFlush \/ LoadPending \/ PendingLoaded \/ EndHooks \/ Validated \/ RoundValidated \/ NothingFlushed
  \/ Write \/ StartQueries \/ EndQueries \/ LastRound \/ Commit \/ Reset \/ Fail

Spec == Init /\ [][Next]_vars

----------------------------------------------------------------------------
(* What must hold. *)

\* A loaded collection shows the links the application asked for, and so both sides
\* agree, in whatever order edits, loads and flushes came.  Only a set that waits for
\* its load is not seen from the other side yet.
LoadedIsWanted ==
  TypeOK /\ \A x \in Entity : \A y \in Others(x) :
    IsLoaded(x) /\ coll[y].kind # "pendingSet" => (y \in coll[x].members <=> Link(x, y) \in wanted)

\* A flush that ends well, with or without something to write, leaves the join table as
\* the application asked for: no add, remove or set is lost and none is invented.
FlushSavesWanted == [][Commit \/ NothingFlushed => db' = wanted]_vars

\* Between flushes a row with nothing left to flush knows whether it is in the table;
\* only a removed one may be taken to be there when it is not.
PersistedIsStored ==
  pc = "idle" =>
    \A p \in Pair \ AssumedRows :
      rows[p] # NoRow /\ rows[p].op # "pending" => (rows[p].persisted <=> p \in db)
=============================================================================
