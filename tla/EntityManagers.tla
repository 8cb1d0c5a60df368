--------------------------- MODULE EntityManagers ---------------------------
(***************************************************************************)
(* What one entity manager holds in memory, and its synchronous calls: the *)
(* identity map (EntityManager.ts), the fields of its entities (fields.ts),*)
(* the index that findOrCreate and findWithNewOrChanged look entities up   *)
(* in (IndexManager.ts), and the copy that em.fork makes of it all.        *)
(*                                                                         *)
(* Entities are numbered as they are registered.  They are of one type     *)
(* with a name, a reference to another of them and a soft-delete marker;   *)
(* `at` is the version of the row they were read from.                     *)
(***************************************************************************)
EXTENDS Naturals, FiniteSets, FiniteSetsExt, Sequences, SequencesExt, Functions

CONSTANT IndexThreshold    \* from how many entities on they are indexed

Fields == {"name", "ref", "gone"}
None == 0
\* Values of the reference: unset, the id of a row, an entity that may have no id.
Unset == <<"unset", 0>>
IdRef(i) == <<"id", i>>
EntityRef(e) == <<"entity", e>>
\* What findExistingInstance looks up: an id, or a#1 of one created here.
Created(k) == <<"new", k>>
Clean == [f \in {} |-> Unset]

\* f where it is defined, and g elsewhere.
Over(f, g) == [x \in (DOMAIN f) \union (DOMAIN g) |-> IF x \in DOMAIN f THEN f[x] ELSE g[x]]
FoldAscending(step(_, _), m, S) == MapThenFoldSet(LAMBDA i, n : step(n, i), m, LAMBDA i : i, Max, S)

NoEntities ==
  [ents |-> <<>>, byId |-> [k \in {} |-> 0], created |-> 0,
   indexed |-> [f \in {} |-> 0], pairs |-> {}]

All(m) == DOMAIN m.ents
IsNew(m, e) == m.ents[e].id = None
IsLive(m, e) == m.ents[e].deleted = "no"
IsDirty(m, e) == DOMAIN m.ents[e].orig # {}
IsPending(m, e) == m.ents[e].deleted # "done" /\ (IsNew(m, e) \/ IsDirty(m, e) \/ ~IsLive(m, e))
FindExistingInstance(m, key) == IF key \in DOMAIN m.byId THEN m.byId[key] ELSE None

(***************************************************************************)
(* References                                                              *)
(***************************************************************************)
IdOf(m, v) == CASE v[1] = "id" -> v[2] [] v[1] = "entity" -> m.ents[v[2]].id [] OTHER -> None

\* A reference loads itself when what it refers to is in memory.
IsLoaded(m, v) == v[1] # "id" \/ v \in DOMAIN m.byId
Get(m, v) ==
  IF v = Unset THEN Unset
  ELSE LET e == IF v[1] = "id" THEN m.byId[v] ELSE v[2]
       IN IF IsLive(m, e) THEN EntityRef(e) ELSE Unset
\* What it is compared by: the entity if that is loaded, and its id otherwise.
RefValue(m, v) == IF IsLoaded(m, v) THEN Get(m, v) ELSE v

SameEntity(m, a, b) ==
  \/ a = b
  \/ (Unset \notin {a, b} /\ "id" \in {a[1], b[1]} /\ IdOf(m, a) = IdOf(m, b))

(***************************************************************************)
(* The index: <<field, value, entity>>, an entity with an id under both    *)
(***************************************************************************)
Keys(m, v) == IF v[1] = "entity" /\ IdOf(m, v) # None THEN {v, IdRef(IdOf(m, v))} ELSE {v}
Entries(m, f, v, e) == {f} \X (IF f = "ref" THEN Keys(m, v) ELSE {v}) \X {e}

\* With a slip: the entity stays under its old value.
AddsToIndex(m, e, f, old, new) ==
  IF f \in DOMAIN m.indexed THEN [m EXCEPT !.pairs = @ \union Entries(m, f, new, e)] ELSE m

MaybeUpdateFieldIndex(m, e, f, old, new) ==
  IF f \notin DOMAIN m.indexed THEN m
  ELSE [m EXCEPT !.pairs = (@ \ Entries(m, f, old, e)) \union Entries(m, f, new, e)]

GetFieldValue(m, e, f) ==
  IF f = "ref" THEN RefValue(m, m.ents[e].data.ref) ELSE m.ents[e].data[f]

\* Entities registered since a field was last asked for are indexed when it is asked for again.
Indexed(m, where) ==
  LET from(f) == IF f \in DOMAIN m.indexed THEN m.indexed[f] ELSE 0
      more == UNION {Entries(m, p[1], GetFieldValue(m, p[2], p[1]), p[2]) :
                     p \in {q \in (DOMAIN where) \X All(m) : q[2] > from(q[1])}}
  IN [m EXCEPT !.indexed = [f \in (DOMAIN @) \union (DOMAIN where) |->
                              IF f \in DOMAIN where THEN Len(m.ents) ELSE @[f]],
               !.pairs = @ \union more]

FindMatching(m, where) ==
  {e \in All(m) : \A f \in DOMAIN where : Entries(m, f, where[f], e) \intersect m.pairs # {}}

EntityMatches(m, e, where) ==
  \A f \in DOMAIN where :
    IF f = "ref" THEN SameEntity(m, GetFieldValue(m, e, f), where[f])
    ELSE m.ents[e].data[f] = where[f]

\* em.filterEntities, and the manager after it.
Matching(m, where) == {e \in All(m) : IsLive(m, e) /\ EntityMatches(m, e, where)}
UsesIndex(m) == Len(m.ents) >= IndexThreshold
FilterEntities(m, where) ==
  IF UsesIndex(m) THEN {e \in FindMatching(Indexed(m, where), where) : IsLive(m, e)}
  ELSE Matching(m, where)
AfterFilter(m, where) == IF UsesIndex(m) THEN Indexed(m, where) ELSE m

(***************************************************************************)
(* Registering and changing entities                                       *)
(***************************************************************************)
Register(m, entity, key) ==
  [m EXCEPT !.ents = Append(@, entity),
            !.byId = [k \in (DOMAIN @) \union {key} |-> IF k = key THEN Len(m.ents) + 1 ELSE @[k]]]

SetField(m, e, f, v) ==
  LET x == m.ents[e]
      equal(a) == a = v \/ (f = "ref" /\ SameEntity(m, a, v))
      changed(orig) == [MaybeUpdateFieldIndex(m, e, f, x.data[f], v) EXCEPT
                          !.ents[e].data[f] = v, !.ents[e].orig = orig]
  IN CASE f \in DOMAIN x.orig /\ equal(x.orig[f]) -> changed(RestrictDomain(x.orig, LAMBDA g : g # f))
       [] f \in DOMAIN x.orig /\ ~equal(x.orig[f]) /\ ~equal(x.data[f]) -> changed(x.orig)
       [] f \notin DOMAIN x.orig /\ ~equal(x.data[f]) -> changed(Over([g \in {f} |-> x.data[f]], x.orig))
       [] OTHER -> m

\* A reference keeps the id of an entity that has one.
SetReference(m, e, v) ==
  IF SameEntity(m, v, m.ents[e].data.ref) THEN m
  ELSE SetField(m, e, "ref", IF IdOf(m, v) # None THEN IdRef(IdOf(m, v)) ELSE v)

SetOpt(m, e, opts, f) ==
  CASE f \notin DOMAIN opts -> m
    [] f \in DOMAIN opts /\ f = "ref" -> SetReference(m, e, opts[f])
    [] OTHER -> SetField(m, e, f, opts[f])
SetOpts(m, e, opts) == SetOpt(SetOpt(SetOpt(m, e, opts, "name"), e, opts, "ref"), e, opts, "gone")

Blank == [name |-> "", ref |-> Unset, gone |-> FALSE]
Create(m, opts) ==
  LET k == m.created + 1
      registered == Register(m, [id |-> None, createId |-> k, data |-> Blank, at |-> 0, orig |-> Clean,
                                 deleted |-> "no"], Created(k))
  IN SetOpts([registered EXCEPT !.created = k], Len(m.ents) + 1, opts)

MarkDeleted(m, e) == IF IsLive(m, e) THEN [m EXCEPT !.ents[e].deleted = "pending"] ELSE m
ResurrectIfSoftDeleted(m, e) == IF m.ents[e].data.gone THEN SetField(m, e, "gone", FALSE) ELSE m

(***************************************************************************)
(* Rows: id -> [name, ref, gone, at], where ref is an id or None           *)
(***************************************************************************)
DataOf(row) == [name |-> row.name, ref |-> IF row.ref = None THEN Unset ELSE IdRef(row.ref), gone |-> row.gone]
RowOf(m, data, at) == [name |-> data.name, ref |-> IdOf(m, data.ref), gone |-> data.gone, at |-> at]

\* With a slip: a row is an entity of its own each time that it is read.
NewEachTime(m, i, row, overwriteExisting) ==
  Register(m, [id |-> i, createId |-> 0, data |-> DataOf(row), at |-> row.at, orig |-> Clean,
               deleted |-> "no"], IdRef(i))

HydrateRow(m, i, row, overwriteExisting) ==
  LET e == FindExistingInstance(m, IdRef(i))
  IN IF e = None
     THEN Register(m, [id |-> i, createId |-> 0, data |-> DataOf(row), at |-> row.at, orig |-> Clean,
                       deleted |-> "no"], IdRef(i))
     ELSE IF overwriteExisting
     THEN [m EXCEPT !.ents[e].data = DataOf(row), !.ents[e].at = row.at, !.ents[e].orig = Clean]
     ELSE m
Hydrate(m, rows, ids, overwriteExisting) ==
  FoldAscending(LAMBDA n, i : HydrateRow(n, i, rows[i], overwriteExisting), m, ids)

MarkDeletedBecauseNotFound(m, ids) ==
  LET missing == {m.byId[IdRef(i)] : i \in {j \in ids : IdRef(j) \in DOMAIN m.byId}}
  IN [m EXCEPT !.ents = [e \in DOMAIN @ |-> IF e \in missing THEN [@[e] EXCEPT !.deleted = "done"] ELSE @[e]]]

\* The entities after em.flush has written them: the new ones, in order, have the ids after `last`.
News(m) == {e \in All(m) : IsNew(m, e) /\ IsLive(m, e)}
IdAfter(m, last, e) ==
  IF e \in News(m) THEN last + Cardinality({d \in News(m) : d <= e}) ELSE m.ents[e].id
FlushedEntity(m, last, e) ==
  [m.ents[e] EXCEPT !.id = IdAfter(m, last, e), !.orig = Clean,
                    !.at = IF IsLive(m, e) /\ IsPending(m, e) THEN @ + 1 ELSE @,
                    !.deleted = IF @ = "pending" THEN "done" ELSE @]
Flushed(m, last) ==
  LET key(e) == IdRef(IdAfter(m, last, e))
  IN [m EXCEPT !.ents = [e \in All(m) |-> FlushedEntity(m, last, e)],
               !.byId = Over(@, [k \in {key(e) : e \in News(m)} |-> CHOOSE e \in News(m) : key(e) = k])]

(***************************************************************************)
(* em.fork({ allowPendingChanges: true })                                  *)
(***************************************************************************)
\* With a slip: what is deleted has no copy.
LiveIn(m) == {e \in All(m) : ~IsNew(m, e) /\ IsLive(m, e)}
PersistedIn(m) == {e \in All(m) : ~IsNew(m, e)}
OriginalRow(m, e) == RowOf(m, Over(m.ents[e].orig, m.ents[e].data), m.ents[e].at)

\* The blank copies of new entities come first, in their order, then the rows of the others.
Blanks(m) == FoldAscending(LAMBDA n, e : Create(n, Clean), NoEntities, {e \in All(m) : IsNew(m, e)})
Copied(m) ==
  FoldAscending(LAMBDA n, e : HydrateRow(n, m.ents[e].id, OriginalRow(m, e), FALSE), Blanks(m), PersistedIn(m))

MapEntity(m, copy, e) ==
  FindExistingInstance(copy, IF IsNew(m, e) THEN Created(m.ents[e].createId) ELSE IdRef(m.ents[e].id))
MapValue(m, copy, v) == IF v[1] = "entity" THEN EntityRef(MapEntity(m, copy, v[2])) ELSE v

\* It throws on an entity it has no copy of.
Forks(m) == \A e \in All(m) : MapEntity(m, Copied(m), e) # None
Fork(m) ==
  LET copy == Copied(m)
      mapped(values) == [f \in DOMAIN values |-> IF f = "ref" THEN MapValue(m, copy, values[f]) ELSE values[f]]
      withChanges(n, e) ==
        LET c == MapEntity(m, copy, e)
            fields == IF IsNew(m, e) THEN Fields ELSE DOMAIN m.ents[e].orig
        IN [n EXCEPT !.ents[c].data = [f \in Fields |-> IF f \in fields THEN mapped(m.ents[e].data)[f] ELSE @[f]],
                     !.ents[c].orig = Over(mapped(m.ents[e].orig), @)]
      withDeletes(n, e) == IF IsLive(m, e) THEN n ELSE MarkDeleted(n, MapEntity(m, copy, e))
  IN FoldAscending(withDeletes, FoldAscending(withChanges, copy, All(m)), All(m))
=============================================================================
