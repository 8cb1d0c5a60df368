------------------------------ MODULE IdentityMap ------------------------------
(***************************************************************************)
(* The asynchronous calls of one entity manager that read the database     *)
(* into its identity map: em.load, em.refresh, em.findWithNewOrChanged and *)
(* em.findOrCreate (EntityManager.ts, batchloaders/loadBatchLoader.ts,     *)
(* dataloaders/findOrCreateDataLoader.ts).  Each waits in a loader for the *)
(* end of the tick, its SELECT is sent, and what was selected is hydrated  *)
(* when the answer arrives, in whatever order answers arrive; meanwhile    *)
(* the program creates, changes and deletes entities and flushes, and      *)
(* other managers change rows.                                             *)
(***************************************************************************)
EXTENDS EntityManagers

CONSTANTS
  Tables,        \* the rows to start from
  NewRow,        \* what another manager may insert
  Sought,        \* the names that calls look for
  OtherName,     \* the name that the program and other managers give
  Loads,         \* the sets of ids that are loaded at once
  WheresIn(_),   \* the where clauses that a caller of em.findOrCreate may have in a manager
  Upsert,        \* ifNew/upsert key -> the fields it sets
  Allowed,       \* what may happen under an em.findOrCreate, a load or a refresh: see MayFlush ...
  MaxCalls, MaxEdits, MaxChanges, MaxFlushes   \* bounds

ASSUME AllowedAssumption == Allowed \subseteq {"flush", "key", "delete", "edit", "unset", "insert"}
\* The rows have ids of their sequence, and versions.
ASSUME RowsAssumption ==
  LET isRow(row) == row \in [name : {row.name}, ref : {row.ref}, gone : {row.gone}, at : Nat]
  IN /\ isRow(NewRow)
     /\ \A table \in Tables :
          /\ Max(DOMAIN table) \in Nat /\ DOMAIN table \subseteq 1..Max(DOMAIN table)
          /\ \A i \in DOMAIN table : isRow(table[i])

VARIABLES
  rows,       \* the table: id -> [name, ref, gone, at]
  last,       \* the last id of its sequence
  open,       \* the ids of rows that another manager has inserted and not committed
  em,         \* the entity manager
  loaders,    \* which of its generations of loaders is current
  queries,    \* what its loaders select: loads, refreshes and finds
  batches,    \* its findOrCreate batches
  calls,      \* the loads and findWithNewOrChanged that were asked
  committed,  \* id -> the version of the manager's own last commit of it
  reloaded,   \* has a refresh replaced what was in memory?
  edits, changes, flushes

vars == <<rows, last, open, em, loaders, queries, batches, calls, committed, reloaded, edits, changes, flushes>>
database == <<rows, last, open, committed, changes, flushes>>

(***************************************************************************)
(* Forms of operators of this module with one plausible slip each          *)
(***************************************************************************)
\* A load joins the batch whose SELECT is on its way.
SharedUntilAnswered(kind, where) ==
  {i \in DOMAIN queries : /\ queries[i].kind = kind /\ queries[i].loader = loaders
                          /\ IF kind = "load" THEN queries[i].state # "done" ELSE queries[i].where = where}
\* What was changed since it was selected is answered as it was selected.
ChangedToo(c) == queries[calls[c].on].found \union Matching(em, calls[c].where)
\* Any row that was not among the found is gone.
AllOthersMissing(q) == {i \in 1..last : i \notin DOMAIN q.snap}
\* What was read replaces what is in memory, whoever asked for it.
HydratedOver(q) ==
  MarkDeletedBecauseNotFound(Hydrate(em, q.snap, DOMAIN q.snap, TRUE), q.ids \ DOMAIN q.snap)
\* What is deleted is found as well.
DeletedToo(where) == {e \in All(em) : EntityMatches(em, e, where)}

(***************************************************************************)
(* Loaders                                                                 *)
(***************************************************************************)
\* em.find with what is soft-deleted, and without.
Finds == {"find", "findLive"}
Query(kind, where, ids) ==
  [kind |-> kind, where |-> where, ids |-> ids, loader |-> loaders, state |-> "queued",
   at |-> 0, snap |-> <<>>, found |-> {}]

\* Loads of one tick share a query; a find of the same where shares one, answered or not.
Shared(kind, where) ==
  {i \in DOMAIN queries : /\ queries[i].kind = kind /\ queries[i].loader = loaders
                          /\ IF kind \in Finds THEN queries[i].where = where ELSE queries[i].state = "queued"}
On(kind, where) == IF Shared(kind, where) = {} THEN Len(queries) + 1 ELSE Min(Shared(kind, where))
Asked(kind, where, ids) ==
  IF Shared(kind, where) = {} THEN Append(queries, Query(kind, where, ids))
  ELSE [queries EXCEPT ![Min(Shared(kind, where))].ids = @ \union ids]

\* A row matches if its columns are equal; no row refers to an entity without an id.
RowMatches(row, where) ==
  \A f \in DOMAIN where :
    IF f = "ref" THEN row.ref # None /\ row.ref = IdOf(em, where[f]) ELSE row[f] = where[f]
\* With a slip: every find leaves out what is soft-deleted, as em.find does by default.
SelectsLive(q) ==
  {i \in DOMAIN rows : IF q.kind \in Finds THEN RowMatches(rows[i], q.where) /\ ~rows[i].gone ELSE i \in q.ids}

Selects(q) ==
  {i \in DOMAIN rows :
     CASE q.kind = "find" -> RowMatches(rows[i], q.where)
       [] q.kind = "findLive" -> RowMatches(rows[i], q.where) /\ ~rows[i].gone
       [] OTHER -> i \in q.ids}

Send(i) ==
  /\ queries[i].state = "queued"
  /\ queries' = [queries EXCEPT ![i].state = "sent", ![i].at = changes + flushes,
                                ![i].snap = [k \in Selects(queries[i]) |-> rows[k]]]
  /\ UNCHANGED <<database, em, loaders, batches, calls, reloaded, edits>>

Missing(q) == q.ids \ DOMAIN q.snap
Hydrated(q) ==
  MarkDeletedBecauseNotFound(Hydrate(em, q.snap, DOMAIN q.snap, q.kind = "refresh"), Missing(q))
\* The finds of em.find leave out what is deleted in memory.
Found(q, m) == {e \in {m.byId[IdRef(i)] : i \in DOMAIN q.snap} : IsLive(m, e)}

Receive(i) ==
  /\ queries[i].state = "sent"
  /\ em' = Hydrated(queries[i])
  /\ queries' = [queries EXCEPT ![i].state = "done", ![i].snap = <<>>,
                                ![i].found = IF queries[i].kind \in Finds THEN Found(queries[i], em') ELSE {}]
  /\ reloaded' = (reloaded \/ queries[i].kind = "refresh")
  /\ UNCHANGED <<database, loaders, batches, calls, edits>>

(***************************************************************************)
(* em.load, em.loadAll and em.loadAllIfExists, em.refresh                  *)
(***************************************************************************)
Calls == Len(calls) + Len(batches)
Call(kind, where, ids) ==
  [kind |-> kind, where |-> where, ids |-> ids, there |-> ids \intersect DOMAIN rows,
   on |-> On(kind, where), answered |-> FALSE]

\* Only what is not in memory is loaded.
Load(ids) ==
  LET toLoad == {i \in ids : FindExistingInstance(em, IdRef(i)) = None}
  IN /\ Calls < MaxCalls /\ toLoad # {}
     /\ queries' = Asked("load", Clean, toLoad)
     /\ calls' = Append(calls, Call("load", Clean, ids))
     /\ UNCHANGED <<database, em, loaders, batches, reloaded, edits>>
LoadedBy(c) == {i \in calls[c].ids : FindExistingInstance(em, IdRef(i)) # None}

Unfinished == {b \in DOMAIN batches : batches[b].state \in {"queued", "finding"}}

\* The entities that are not deleted are loaded again, by new loaders.
Refresh ==
  LET ids == {em.ents[e].id : e \in {e \in All(em) : ~IsNew(em, e) /\ IsLive(em, e)}}
  IN /\ Calls < MaxCalls /\ ids # {}
     /\ "flush" \in Allowed \/ Unfinished = {}
     /\ loaders' = loaders + 1
     /\ queries' = Append(queries, [Query("refresh", Clean, ids) EXCEPT !.loader = loaders + 1])
     /\ calls' = Append(calls, [Call("refresh", Clean, ids) EXCEPT !.on = Len(queries) + 1])
     /\ UNCHANGED <<database, em, batches, reloaded, edits>>

(***************************************************************************)
(* em.findWithNewOrChanged                                                 *)
(***************************************************************************)
FindWithNewOrChanged(where) ==
  /\ Calls < MaxCalls
  /\ queries' = Asked("findLive", where, {})
  /\ calls' = Append(calls, Call("findLive", where, {}))
  /\ UNCHANGED <<database, em, loaders, batches, reloaded, edits>>

Changed(e) == IsLive(em, e) /\ (IsNew(em, e) \/ IsDirty(em, e))
FoundBy(c) ==
  {e \in queries[calls[c].on].found : IsLive(em, e) /\ ~Changed(e)}
    \union {e \in FilterEntities(em, calls[c].where) : Changed(e)}

Resolve(c) ==
  /\ ~calls[c].answered /\ queries[calls[c].on].state = "done"
  /\ calls' = [calls EXCEPT ![c].answered = TRUE]
  /\ em' = IF calls[c].kind = "findLive" THEN AfterFilter(em, calls[c].where) ELSE em
  /\ UNCHANGED <<database, loaders, queries, batches, reloaded, edits>>

(***************************************************************************)
(* em.findOrCreate: one loader for a where, whose keys are ifNew/upsert    *)
(***************************************************************************)
Joinable(where, key) ==
  {b \in DOMAIN batches : /\ batches[b].where = where /\ batches[b].loader = loaders
                          /\ \/ batches[b].state = "queued"
                             \/ (batches[b].state # "failed" /\ key \in ToSet(batches[b].keys))}

\* Does a SELECT find what was edited so as not to match?
UsedToMatch(where) ==
  \E e \in All(em) :
    /\ ~IsNew(em, e) /\ ~EntityMatches(em, e, where)
    /\ RowMatches(OriginalRow(em, e), where)

FindOrCreate(where, key) ==
  LET joinable == Joinable(where, key)
  IN /\ Calls < MaxCalls
     /\ "edit" \in Allowed \/ ~UsedToMatch(where)
     /\ \/ "key" \in Allowed
        \/ ~\E b \in Unfinished \ joinable : batches[b].where = where
     /\ IF joinable = {}
        THEN batches' = Append(batches, [where |-> where, keys |-> <<key>>, loader |-> loaders,
                                         state |-> "queued", on |-> 0, entity |-> None])
        ELSE /\ key \notin ToSet(batches[Min(joinable)].keys)
             /\ batches' = [batches EXCEPT ![Min(joinable)].keys = Append(@, key)]
     /\ UNCHANGED <<database, em, loaders, queries, calls, reloaded, edits>>

HasNewEntityParam(where) ==
  "ref" \in DOMAIN where /\ where.ref[1] = "entity" /\ IsNew(em, where.ref[2])

\* The first key wins.
Upserts(b) == Upsert[batches[b].keys[1]]
Finished(b, state, e) == [batches EXCEPT ![b].state = state, ![b].entity = e]
\* An entity that is deleted for good cannot be set.
Throws(m, e, opts) == m.ents[e].deleted = "done" /\ (m.ents[e].data.gone \/ opts # Clean)
UseExisting(b, m, e) ==
  IF Throws(m, e, Upserts(b)) THEN em' = m /\ batches' = Finished(b, "failed", None)
  ELSE em' = SetOpts(ResurrectIfSoftDeleted(m, e), e, Upserts(b)) /\ batches' = Finished(b, "done", e)
CreateNew(b, m) ==
  /\ em' = SetOpts(Create(m, batches[b].where), Len(m.ents) + 1, Upserts(b))
  /\ batches' = Finished(b, "done", Len(m.ents) + 1)
TooMany(b, m) == em' = m /\ batches' = Finished(b, "failed", None)

InMemory(where) == FilterEntities(em, where)
\* What is in memory is not looked for in the database.
RunBatch(b) ==
  /\ batches[b].state = "queued"
  /\ \E found \in {InMemory(batches[b].where)}, m \in {AfterFilter(em, batches[b].where)} :
       \/ /\ UNCHANGED queries
          /\ \/ (Cardinality(found) > 1 /\ TooMany(b, m))
             \/ (Cardinality(found) = 1 /\ UseExisting(b, m, Min(found)))
             \/ (found = {} /\ HasNewEntityParam(batches[b].where) /\ CreateNew(b, m))
       \/ /\ found = {} /\ ~HasNewEntityParam(batches[b].where)
          /\ em' = m
          /\ batches' = [batches EXCEPT ![b].state = "finding", ![b].on = On("find", batches[b].where)]
          /\ queries' = Asked("find", batches[b].where, {})
  /\ UNCHANGED <<database, loaders, calls, reloaded, edits>>

FinishBatch(b) ==
  /\ batches[b].state = "finding" /\ queries[batches[b].on].state = "done"
  /\ \E found \in {queries[batches[b].on].found} :
       \/ (Cardinality(found) > 1 /\ TooMany(b, em))
       \/ (Cardinality(found) = 1 /\ UseExisting(b, em, Min(found)))
       \/ (found = {} /\ CreateNew(b, em))
  /\ UNCHANGED <<database, loaders, queries, calls, reloaded, edits>>

(***************************************************************************)
(* The program and other managers                                          *)
(***************************************************************************)
Edit(m) ==
  /\ edits < MaxEdits
  /\ em' = m /\ em' # em /\ edits' = edits + 1
  /\ UNCHANGED <<database, loaders, queries, batches, calls, reloaded>>

\* May e stop matching, or go, while some findOrCreate looks for it or has answered with it?
IsLookedFor(e) == \E b \in DOMAIN batches : EntityMatches(em, e, batches[b].where)
Unreferenced(e) ==
  /\ \A b \in DOMAIN batches : batches[b].where # [ref |-> EntityRef(e)]
  /\ \A d \in All(em) : RefValue(em, em.ents[d].data.ref) # EntityRef(e)
  /\ \A i \in DOMAIN rows : rows[i].ref = None \/ rows[i].ref # em.ents[e].id

Program ==
  \/ Edit(Create(em, [name |-> OtherName]))
  \/ \E e \in All(em) :
       /\ IsLive(em, e)
       /\ \/ /\ "edit" \in Allowed \/ ~IsLookedFor(e)
             /\ Edit(SetField(em, e, "name", OtherName))
          \/ /\ "unset" \in Allowed \/ "ref" \notin DOMAIN em.indexed
             /\ "edit" \in Allowed \/ ~IsLookedFor(e)
             /\ Edit(SetReference(em, e, Unset))
          \/ Edit(SetField(em, e, "gone", TRUE))
          \/ /\ "delete" \in Allowed \/ ~IsLookedFor(e)
             /\ Unreferenced(e) /\ Edit(MarkDeleted(em, e))

\* The rows written are those it read: another manager's change of one is a conflict.
Writes(e) == IsPending(em, e) /\ ~IsNew(em, e)
NoConflict ==
  \A e \in All(em) : Writes(e) /\ IsLive(em, e) =>
    em.ents[e].id \in DOMAIN rows /\ rows[em.ents[e].id].at = em.ents[e].at
MayFlush ==
  \/ "flush" \in Allowed
  \/ /\ Unfinished = {}
     /\ \A q \in ToSet(queries) : q.kind = "refresh" => q.state = "done"

WrittenBy(m) == {m.ents[e].id : e \in {e \in All(em) : IsPending(em, e) /\ IsLive(em, e)}}
DeletedBy(m) == {m.ents[e].id : e \in {e \in All(em) : Writes(e) /\ ~IsLive(em, e)}}
RowIn(m, i) == LET e == m.byId[IdRef(i)] IN RowOf(m, m.ents[e].data, m.ents[e].at)

Flush ==
  /\ flushes < MaxFlushes /\ NoConflict /\ MayFlush
  /\ \E e \in All(em) : IsPending(em, e)
  /\ \E m \in {Flushed(em, last)} :
       /\ em' = m
       /\ rows' = [i \in (DOMAIN rows \union WrittenBy(m)) \ DeletedBy(m) |->
                     IF i \in WrittenBy(m) THEN RowIn(m, i) ELSE rows[i]]
       /\ last' = last + Cardinality(News(em))
       /\ committed' = Over([i \in WrittenBy(m) |-> RowIn(m, i).at], committed)
  /\ flushes' = flushes + 1 /\ loaders' = loaders + 1
  /\ UNCHANGED <<open, queries, batches, calls, reloaded, edits, changes>>

ChangeRow(i) ==
  /\ \/ /\ rows[i].name \notin Sought \union {OtherName}
        /\ rows' = [rows EXCEPT ![i].name = OtherName, ![i].at = @ + 1]
     \/ rows' = [rows EXCEPT ![i].gone = ~@, ![i].at = @ + 1]
     \/ /\ rows[i].name \in Sought
        /\ \A k \in DOMAIN rows : rows[k].ref # i
        /\ rows' = [k \in DOMAIN rows \ {i} |-> rows[k]]
  /\ UNCHANGED open
\* A load that found no such row is not on its way back.
InsertRow ==
  /\ "insert" \in Allowed \/ ~\E q \in ToSet(queries) : q.state = "sent" /\ q.ids \intersect open # {}
  /\ open # {} /\ open' = {} /\ rows' = Over([i \in open |-> NewRow], rows)
OtherManager ==
  /\ changes < MaxChanges /\ changes' = changes + 1
  /\ InsertRow \/ \E i \in DOMAIN rows : ChangeRow(i)
  /\ UNCHANGED <<last, em, loaders, queries, batches, calls, committed, reloaded, edits, flushes>>

Init ==
  /\ rows \in Tables /\ last = Max(DOMAIN rows) + 1 /\ open = {last}
  /\ em = NoEntities /\ loaders = 0
  /\ queries = <<>> /\ batches = <<>> /\ calls = <<>>
  /\ committed = [i \in {} |-> 0] /\ reloaded = FALSE
  /\ edits = 0 /\ changes = 0 /\ flushes = 0

Next ==
  \/ \E ids \in Loads : Load(ids \intersect 1..last)
  \/ Refresh
  \/ \E where \in WheresIn(em) : FindWithNewOrChanged(where) \/ \E key \in DOMAIN Upsert : FindOrCreate(where, key)
  \/ \E i \in DOMAIN queries : Send(i) \/ Receive(i)
  \/ \E c \in DOMAIN calls : Resolve(c)
  \/ \E b \in DOMAIN batches : RunBatch(b) \/ FinishBatch(b)
  \/ Program \/ Flush \/ OtherManager

Spec == Init /\ [][Next]_vars

(***************************************************************************)
(* Properties                                                              *)
(***************************************************************************)
\* What the steps rely on: the loaders, batches and calls refer to what exists.
TypeOK ==
  /\ last \in Nat /\ DOMAIN rows \subseteq 1..last
  /\ \A i \in DOMAIN queries :
       /\ queries[i].state \in {"queued", "sent", "done"} /\ queries[i].loader \in 0..loaders
       /\ queries[i].found \subseteq All(em)
  /\ \A c \in DOMAIN calls : calls[c].on \in DOMAIN queries
  /\ \A b \in DOMAIN batches :
       /\ batches[b].state \in {"queued", "finding", "done", "failed"}
       /\ batches[b].state = "done" <=> batches[b].entity \in All(em)

\* However many calls ask for a row at once and in whatever order they are answered, it
\* has one entity in memory, which is found by its id.
OneEntityPerId ==
  TypeOK /\ \A e \in All(em) : ~IsNew(em, e) =>
    FindExistingInstance(em, IdRef(em.ents[e].id)) = e

\* An answer that was selected before the manager's own commit does not replace what it
\* committed.
NotBehindOwnCommit ==
  \A i \in DOMAIN committed : LET e == em.byId[IdRef(i)]
                              IN ~IsLive(em, e) \/ em.ents[e].at >= committed[i]

\* What memory holds as deleted for good is not in the table.
DeletedAreGone ==
  \A e \in All(em) : em.ents[e].deleted = "done" => em.ents[e].id \notin DOMAIN rows

\* What the table would have for the id after a flush, with the reference as in memory.
Kept(i) == LET e == FindExistingInstance(em, IdRef(i)) IN e = None \/ em.ents[e].deleted # "pending"
AfterFlush(i) ==
  LET e == FindExistingInstance(em, IdRef(i))
      row == DataOf(rows[i])
  IN IF e = None THEN row ELSE [f \in Fields |-> IF f \in DOMAIN em.ents[e].orig THEN em.ents[e].data[f] ELSE row[f]]
Matched(data, where) ==
  \A f \in DOMAIN where : IF f = "ref" THEN SameEntity(em, RefValue(em, data.ref), where.ref) ELSE data[f] = where[f]
NewMatches(where) == {e \in All(em) : IsNew(em, e) /\ IsLive(em, e) /\ Matched(em.ents[e].data, where)}
SavedMatches(where) == {i \in DOMAIN rows : Kept(i) /\ Matched(AfterFlush(i), where)}

\* However findOrCreate calls with the same where, ifNew and upsert overlap with each other and
\* with loads, finds and other managers' changes, a flush leaves one row that matches the
\* where, and not two.  (A flush under a call, or another key, is not Allowed in the run.)
NoTwins ==
  \A b \in DOMAIN batches :
    Cardinality(NewMatches(batches[b].where)) + Cardinality(SavedMatches(batches[b].where)) <= 1

IsGone(m, e) == ~IsNew(m, e) /\ m.ents[e].id \notin DOMAIN rows
UpToDate(c) ==
  /\ queries[calls[c].on].at = changes + flushes
  /\ \A e \in {d \in All(em) : Changed(d)} :
       /\ ~em.ents[e].data.gone
       /\ IsNew(em, e) \/ (em.ents[e].id \in DOMAIN rows /\ em.ents[e].at = rows[em.ents[e].id].at)
FindsWhatAFlushLeaves(c) ==
  /\ {e \in FoundBy(c) : IsNew(em, e)} = NewMatches(calls[c].where)
  /\ {em.ents[e].id : e \in FoundBy(c)} \ {None}
       = {i \in SavedMatches(calls[c].where) : ~AfterFlush(i).gone}

\* A call is answered in this step; a load is, with every row that is still there.
Answered(c) == calls'[c].answered /\ ~calls[c].answered
LoadsAnswerRows ==
  \A c \in DOMAIN calls : Answered(c) /\ calls[c].kind = "load" => calls[c].there \intersect DOMAIN rows \subseteq LoadedBy(c)

\* Every call answers what it is for, whatever was going on meanwhile: findOrCreate an entity
\* that matches, unless another manager has deleted its row; findWithNewOrChanged, if no row has
\* changed since its SELECT, what the same find would answer after a flush; a load every row
\* that was there from its call until its answer.
AnswersMatch ==
  [][/\ \A b \in DOMAIN batches : batches[b].state # "done" /\ batches'[b].state = "done" =>
          IsGone(em', batches'[b].entity) \/ batches'[b].entity \in Matching(em', batches[b].where)
     /\ \A c \in DOMAIN calls : Answered(c) /\ calls[c].kind = "findLive" /\ UpToDate(c) => FindsWhatAFlushLeaves(c)
     /\ LoadsAnswerRows]_vars

\* The index answers as a scan of all entities would, until a refresh has replaced values.
Names == {em.ents[e].data.name : e \in All(em)}
Wheres == {[name |-> n] : n \in Names} \union {[ref |-> EntityRef(e)] : e \in {e \in All(em) : IsLive(em, e)}}
IndexIsScan ==
  ~reloaded /\ em.indexed # Clean => \A where \in Wheres : FilterEntities(em, where) = Matching(em, where)

\* A fork that copies pending changes has a copy of every entity, with the values, the
\* original values and the references it has here, so long as no entity created here has
\* been flushed before others were.
SameIn(copy, e, c) ==
  LET value(v) == IF v[1] = "entity" THEN EntityRef(MapEntity(em, copy, v[2])) ELSE v
      same(a, b) == a = b \/ SameEntity(copy, a, b)
      x == em.ents[e]
      y == copy.ents[c]
  IN /\ x.id = y.id
     /\ IsLive(em, e) <=> IsLive(copy, c)
     /\ x.data.name = y.data.name /\ x.data.gone = y.data.gone /\ same(value(x.data.ref), y.data.ref)
     /\ ~IsNew(em, e) => DOMAIN x.orig = DOMAIN y.orig
     /\ \A f \in DOMAIN x.orig : IF f = "ref" THEN same(value(x.orig[f]), y.orig[f]) ELSE x.orig[f] = y.orig[f]
ForkIsSame ==
  (\A e \in All(em) : IsNew(em, e) => em.ents[e].createId = Cardinality({d \in 1..e : IsNew(em, d)})) =>
    /\ Forks(em)
    /\ \E copy \in {Fork(em)} : \A e \in All(em) : SameIn(copy, e, MapEntity(em, copy, e))
=============================================================================
