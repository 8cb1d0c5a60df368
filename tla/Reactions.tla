----------------------------- MODULE Reactions ------------------------------
(***************************************************************************)
(* ReactionsManager: which derived values a change makes stale, and how a  *)
(* flush recalculates them before, and for queries after, it writes.       *)
(*                                                                         *)
(* Every setField, create and delete queues the changed entity on the      *)
(* reactables of its type; recalcPendingReactables walks from the queued   *)
(* entities back to the derived fields and reactions, runs their lambdas,  *)
(* and goes on while that queued more.  The lambdas of one iteration run   *)
(* concurrently: each is one step, in any order.  em.flush is reduced to   *)
(* its calls of the manager, its hooks and its transaction; EntityFlush    *)
(* has the rest of it.                                                     *)
(*                                                                         *)
(* A derived value is what its lambda reads: a function from the leaves of *)
(* its hint to the set of values found there.                              *)
(***************************************************************************)
EXTENDS ReactiveHints, FiniteSets

CONSTANTS TypeOf,           \* the type of an entity
          ValuesOf(_), Unset,  \* values of a primitive field; undefined
          Definitions,      \* the reactive fields and reactions, [kind, name, cstr, hint, runOnce]
          Dereferences,     \* names whose lambda reads through a reference that may be unset
          ReadsIds,         \* names whose lambda reads the ids of the entities it finds
          Worlds,           \* what there may be at first: [entities, defined, stored, creatable, deletable, failAt, retries, edits]
          AppFields, HookFields,        \* columns that application code and hooks set
          ReactionSets,     \* name of a reaction that sets a field of its entity -> [field, value]
          Reverts,          \* whether fields of entities that are not saved yet are set back
          MaxLoops,         \* bound of the recalculation loop (50 in the code)
          MaxFlushes        \* bound on the application's flushes; its edits and its hooks' are bounded by its world

\* A definition is found by its name; a world is a finite graph of finitely many columns.
ASSUME NamesAssumption == \A d, c \in Definitions : d.name = c.name => d = c
ASSUME WorldsAssumption ==
  /\ IsFiniteSet(AppFields) /\ IsFiniteSet(HookFields)
  /\ \A w \in Worlds : IsFiniteSet(w.entities) /\ \A e \in w.entities : IsFiniteSet(Columns(TypeOf[e]))

VARIABLES world,        \* one of Worlds: its entities, the names of its definitions, the columns of its rows, the
                        \* entities that are created and deleted, what may throw ("action", "validate"),
                        \* and whether a manager whose flush failed is used again
          reactables,   \* the index that reverseIndexReactivity builds once of its reactables
          em,           \* the manager: its entities, the queues of the ReactionsManager, its deletes
          rows, tx,     \* committed rows, and as the open transaction sees them
          pc, caller,   \* where #flush stands, and who called recalcPendingReactables
          run,          \* one iteration of the recalculation: its actions and their failures
          loops,
          invoked, pendingHooks,
          edits, flushes,
          saw, ran      \* for the properties: what a reaction read last, and how often since the last commit

vars == <<world, reactables, em, rows, tx, pc, caller, run, loops, invoked, pendingHooks, edits, flushes, saw, ran>>
worldVars == <<world, reactables>>
dbVars == <<worldVars, rows, tx>>
hookVars == <<invoked, pendingHooks>>
ghostVars == <<saw, ran>>

Entity == world.entities
Actions == {<<p[1].name, p[2]>> : p \in {q \in Definitions \X Entity : q[1].cstr = TypeOf[q[2]]}}
Definition(name) == CHOOSE d \in Definitions : d.name = name
Derived(e) == {d \in Definitions : d.kind # "reaction" /\ d.cstr = TypeOf[e]}
ReactionsOn(e) == {d \in Definitions : d.kind = "reaction" /\ d.cstr = TypeOf[e]}
References(e) == {f \in Columns(TypeOf[e]) : Meta[TypeOf[e]][f].kind = "m2o"}

----------------------------------------------------------------------------
(* The graph of entities, in memory or in the rows: a function e -> [live, data]. *)

Memory(i) == [e \in Entity |-> [live |-> i[e].state \in {"new", "saved"} /\ ~i[e].deleted, data |-> i[e].data]]

PointingAt(w, S, t, fk) == {x \in Entity : w[x].live /\ TypeOf[x] = t /\ w[x].data[fk] \in S}
PointedAt(w, S, fk) == {x \in Entity : w[x].live /\ \E y \in S : w[y].data[fk] = x}

\* The rows of a tree above or below e.
Closure(Step(_), S) == FoldLeft(LAMBDA T, i : T \cup Step(T), S, [i \in 1..Cardinality(Entity) |-> i])
Ancestors(w, e, fk) == Closure(LAMBDA T : PointedAt(w, T, fk), PointedAt(w, {e}, fk))
Descendants(w, e, fk) ==
  LET below(T) == PointingAt(w, T, TypeOf[e], fk) IN Closure(below, below({e}))

\* What relation `key` of e holds once it is loaded; deleted entities are filtered out.
Related(w, e, key) ==
  LET m == Meta[TypeOf[e]][key]
  IN CASE m.kind = "m2o" -> PointedAt(w, {e}, key)
       [] m.kind \in {"o2m", "o2o"} -> PointingAt(w, {e}, m.other, m.reverse)
       [] m.kind = "parents" -> Ancestors(w, e, m.fk)
       [] m.kind = "children" -> Descendants(w, e, m.fk)

Reached(w, e, p) == FoldLeft(LAMBDA S, s : UNION {Related(w, x, s.key) : x \in S}, {e}, p)

\* What a lambda with this hint reads.
View(w, e, hint) ==
  [p \in Leaves(hint) |->
     IF FieldAt(TypeOf[e], p).kind = "primitive"
     THEN {w[x].data[Last(p).key] : x \in Reached(w, e, Front(p))}
     ELSE Reached(w, e, p)]

----------------------------------------------------------------------------
(* Forms of the steps with one plausible slip each. *)

\* The walk back looks at the current references only.
NoHistory(d, key) == {}
\* A revert takes the entity from the queue although its lambda has run.
DequeuesAlways(m, e, f) ==
  [m EXCEPT !.todo = [r \in reactables |->
     IF ~r.isReadOnly /\ r.source = TypeOf[e] /\ r.fields = {f} THEN @[r] \ {e} ELSE @[r]]]
\* A reaction that ran is not remembered.
NothingProcessed(r) == {}

----------------------------------------------------------------------------
(* Queueing. *)

Reacting(e, f) == {r \in reactables : ~r.isReadOnly /\ r.source = TypeOf[e] /\ f \in r.fields}

Queue(m, R, e) ==
  [m EXCEPT !.todo = [r \in reactables |-> IF r \in R THEN @[r] \cup {e} ELSE @[r]],
            !.needs = @ \cup {r.kind : r \in R}]
QueueDownstream(m, e, f) == Queue(m, Reacting(e, f), e)
QueueAllDownstream(m, e) == Queue(m, {r \in reactables : ~r.isReadOnly /\ r.source = TypeOf[e]}, e)

\* A field was set back.  Its reactables that have run must run again; one that only this
\* field can have queued is dropped.
DequeueDownstream(m, e, f) ==
  LET again == {r \in Reacting(e, f) : e \in m.done[r]}
      dropped == {r \in Reacting(e, f) \ again : r.fields = {f}}
  IN Queue([m EXCEPT !.todo = [r \in reactables |-> IF r \in dropped THEN @[r] \ {e} ELSE @[r]]], again, e)

----------------------------------------------------------------------------
(* Entities. *)

Without(F, f) == [x \in DOMAIN F \ {f} |-> F[x]]
With(F, f, v) == [x \in DOMAIN F \cup {f} |-> IF x = f THEN v ELSE F[x]]

SetField(m, e, f, v) ==
  LET d == m.inst[e]
      same == d.data[f] = v
      isReference == f \in References(e)
      past == IF isReference /\ ~same /\ d.data[f] # Unset THEN {d.data[f]} ELSE {}
      remembered == IF isReference THEN [d.hist EXCEPT ![f] = @ \cup past] ELSE d.hist
      Becomes(orig) == [m EXCEPT !.inst[e] =
                          [d EXCEPT !.data[f] = v, !.orig = orig, !.hist = remembered]]
  IN CASE f \in DOMAIN d.orig /\ d.orig[f] = v ->
            IF isReference /\ remembered[f] # {}
            THEN QueueDownstream(Becomes(Without(d.orig, f)), e, f)
            ELSE DequeueDownstream(Becomes(Without(d.orig, f)), e, f)
       [] ~(f \in DOMAIN d.orig /\ d.orig[f] = v) /\ same -> m
       [] OTHER -> QueueDownstream(Becomes(IF f \in DOMAIN d.orig THEN d.orig ELSE With(d.orig, f, d.data[f])), e, f)

Blank(e) == [state |-> "absent", deleted |-> FALSE, hasId |-> FALSE,
             data |-> [f \in Columns(TypeOf[e]) |-> Unset],
             orig |-> [f \in {} |-> Unset], hist |-> [f \in References(e) |-> {}]]
Hydrated(e) == [Blank(e) EXCEPT !.state = "saved", !.hasId = TRUE, !.data = world.stored[e]]

\* em.create sets its options and then queues all reactables of the type.
Create(m, e, opts) ==
  LET born == [m EXCEPT !.inst[e] = [Blank(e) EXCEPT !.state = "new"]]
      filled == FoldSet(LAMBDA f, n : SetField(n, e, f, opts[f]), born, DOMAIN opts)
  IN QueueAllDownstream(filled, e)

Delete(m, e) ==
  QueueAllDownstream([m EXCEPT !.inst[e].deleted = TRUE, !.deletes = @ \cup {e}], e)

\* flushDeletes without cascades: both ends of the relations of what was deleted let go.
LettingGo(m) ==
  {x \in Entity \X UNION {Columns(TypeOf[e]) : e \in Entity} :
     /\ m.inst[x[1]].state \in {"new", "saved"}
     /\ x[2] \in References(x[1])
     /\ x[1] \in m.deletes \/ m.inst[x[1]].data[x[2]] \in m.deletes}
CleanedUp(m) ==
  [FoldSet(LAMBDA x, n : SetField(n, x[1], x[2], Unset), m, LettingGo(m)) EXCEPT !.deletes = {}]

Living(m, e) == Memory(m.inst)[e].live
Values(e, f) ==
  IF f \in References(e) THEN {Unset} \cup {x \in Entity : TypeOf[x] = Meta[TypeOf[e]][f].other}
  ELSE ValuesOf(f)
\* Loading a recursive relation throws when there is a cycle.
Cyclic(m, e, f, v) == TypeOf[v] = TypeOf[e] /\ (v = e \/ v \in Descendants(Memory(m.inst), e, f))
CanSet(m, e, f, v) ==
  /\ v \in Entity => Living(m, v) /\ ~Cyclic(m, e, f, v)
  /\ ~Meta[TypeOf[e]][f].immutable
  /\ Reverts \/ m.inst[e].state = "saved" \/ f \notin DOMAIN m.inst[e].orig \/ m.inst[e].orig[f] # v

\* An immutable reference does not react, so what it points to stays.
Pinned(m, v) ==
  \E e \in Entity : \E f \in References(e) :
    Living(m, e) /\ Meta[TypeOf[e]][f].immutable /\ m.inst[e].data[f] = v

\* The edits that application code, or a hook, may do next.
Edited(m, columns) ==
  UNION {UNION {{SetField(m, e, f, v) : v \in {x \in Values(e, f) : CanSet(m, e, f, x)}}
                  : f \in columns \cap Columns(TypeOf[e])}
           : e \in {x \in Entity : Living(m, x)}}
Options(m, e, columns) ==
  {o \in [columns \cap Columns(TypeOf[e]) -> UNION {Values(e, f) : f \in columns \cap Columns(TypeOf[e])}] :
     \A f \in DOMAIN o : o[f] \in Values(e, f) /\ (o[f] \in Entity => Living(m, o[f]))}
Results(m, columns) ==
  Edited(m, columns)
    \cup (UNION {{Create(m, e, o) : o \in Options(m, e, columns)}
                   : e \in {x \in world.creatable : m.inst[x].state = "absent"}})
    \cup {Delete(m, e) : e \in {x \in world.deletable : Living(m, x) /\ ~Pinned(m, x)}}

----------------------------------------------------------------------------
(* Walking back. *)

History(d, key) == IF key \in DOMAIN d.hist THEN d.hist[key] ELSE {}

\* One step of followReverseHint: the current value of a relation, and for references,
\* also of those a tree is climbed by, the values they had before.
WalkStep(i, S, key) ==
  LET w == Memory(i)
      From(c) ==
        IF key \notin DOMAIN Meta[TypeOf[c]] THEN {}
        ELSE LET m == Meta[TypeOf[c]][key]
                 past == CASE m.kind = "m2o" -> History(i[c], key)
                           [] m.kind = "parents" ->
                                UNION {{x} \cup Ancestors(w, x, m.fk) : x \in History(i[c], m.fk)}
                           [] OTHER -> {}
             IN Related(w, c, key) \cup past
  IN UNION {From(c) : c \in S}
FollowReverseHint(i, S, path) == FoldLeft(LAMBDA T, key : WalkStep(i, T, key), S, path)

Kinds(c) == IF c = "query" THEN {"query"} ELSE {"populate", "reaction"}
NeedsRecalc(c) == em.needs \cap Kinds(c) # {}
Due(c) == {r \in reactables : r.kind \in Kinds(c) /\ em.todo[r] # {}}
Batch(c) ==
  UNION {{<<r.name, e>> : e \in {x \in FollowReverseHint(em.inst, em.todo[r], r.path) :
                                   /\ Living(em, x) /\ TypeOf[x] = r.cstr
                                   /\ r.runOnce => <<r.name, x>> \notin em.processed}}
           : r \in Due(c)}

----------------------------------------------------------------------------
(* The lambdas. *)

World(d) == IF d.kind = "query" THEN tx ELSE Memory(em.inst)
IsTypeError(d, e) ==
  d.name \in Dereferences /\ \E p \in Leaves(d.hint) : View(World(d), e, d.hint)[p] = {}
IsNoIdError(d, e) ==
  d.name \in ReadsIds /\ \E p \in Leaves(d.hint) : \E x \in Reached(World(d), e, Front(p)) : ~em.inst[x].hasId

Ran(d, e) == IF d.kind = "reaction" THEN [ran EXCEPT ![<<d.name, e>>] = @ + 1] ELSE ran
Seen(d, e) ==
  IF d.kind = "reaction" THEN [saw EXCEPT ![<<d.name, e>>] = View(Memory(em.inst), e, d.hint)] ELSE saw
Effect(d, e) ==
  CASE d.kind # "reaction" -> SetField(em, e, d.name, View(World(d), e, d.hint))
    [] d.kind = "reaction" /\ d.name \notin DOMAIN ReactionSets -> em
    [] d.kind = "reaction" /\ d.name \in DOMAIN ReactionSets ->
         SetField(em, e, ReactionSets[d.name].field, ReactionSets[d.name].value)
Succeeds(d, e) == em' = Effect(d, e) /\ ran' = Ran(d, e) /\ saw' = Seen(d, e)

----------------------------------------------------------------------------
(* Writing. *)

Unsaved(e) ==
  LET d == em.inst[e]
  IN \/ Living(em, e) /\ (~tx[e].live \/ tx[e].data # d.data)
     \/ d.state # "absent" /\ d.deleted /\ tx[e].live
Pending == {e \in Entity : Unsaved(e)}
Written == [e \in Entity |-> IF em.inst[e].state = "absent" THEN tx[e] ELSE Memory(em.inst)[e]]
WithIds(m) ==
  [m EXCEPT !.inst = [e \in Entity |-> IF Living(m, e) THEN [m.inst[e] EXCEPT !.hasId = TRUE] ELSE m.inst[e]]]

Empty == [r \in reactables |-> {}]
Cleared(m) == [m EXCEPT !.todo = Empty, !.done = Empty, !.processed = {}]
Reset(d) ==
  [d EXCEPT !.orig = [f \in {} |-> Unset], !.hist = [f \in DOMAIN d.hist |-> {}],
            !.state = CASE d.deleted -> "gone" [] ~d.deleted /\ d.state = "new" -> "saved" [] OTHER -> @]

----------------------------------------------------------------------------
(* The flush. *)

NoRun == [batch |-> {}, todo |-> {}, noIds |-> {}, failed |-> FALSE, retried |-> FALSE, last |-> FALSE]
FirstRound == tx = rows

Init ==
  /\ world \in Worlds /\ reactables = IndexReactables({d \in Definitions : d.name \in world.defined})
  /\ em = [inst |-> [e \in Entity |-> IF e \in DOMAIN world.stored THEN Hydrated(e) ELSE Blank(e)],
           todo |-> Empty, done |-> Empty, needs |-> {}, processed |-> {}, typeErrors |-> {},
           suppressed |-> FALSE, deletes |-> {}]
  /\ rows = Memory(em.inst) /\ tx = rows
  /\ pc = "idle" /\ caller = "open" /\ run = NoRun /\ loops = 0
  /\ invoked = {} /\ pendingHooks = {}
  /\ edits = 0 /\ flushes = 0
  /\ saw = [a \in Actions |-> IF a[2] \in DOMAIN world.stored /\ TypeOf[a[2]] = Definition(a[1]).cstr
                              THEN View(rows, a[2], Definition(a[1]).hint) ELSE Unset]
  /\ ran = [a \in Actions |-> 0]

Edit ==
  /\ pc \in {"idle", "hooks"} /\ edits < world.edits
  /\ edits' = edits + 1
  /\ em' \in Results(em, IF pc = "idle" THEN AppFields ELSE HookFields)
  /\ UNCHANGED <<dbVars, pc, caller, run, loops, hookVars, flushes, ghostVars>>

Recalc(c) == pc' = "recalc" /\ caller' = c /\ loops' = 0

StartFlush ==
  /\ pc = "idle" /\ flushes < MaxFlushes
  /\ flushes' = flushes + 1
  /\ em' = CleanedUp(em)
  /\ Recalc("open")
  /\ invoked' = {} /\ pendingHooks' = {}
  /\ UNCHANGED <<dbVars, run, edits, ghostVars>>

TakeTodos ==
  /\ pc = "recalc" /\ NeedsRecalc(caller)
  /\ em' = [em EXCEPT !.needs = @ \ Kinds(caller),
                      !.todo = [r \in reactables |-> IF r \in Due(caller) THEN {} ELSE @[r]],
                      !.done = [r \in reactables |-> IF r \in Due(caller) THEN @[r] \cup em.todo[r] ELSE @[r]]]
  /\ run' = [NoRun EXCEPT !.batch = Batch(caller), !.todo = Batch(caller)]
  /\ pc' = "actions"
  /\ UNCHANGED <<dbVars, caller, loops, hookVars, edits, flushes, ghostVars>>

\* A lambda of the iteration ends, in any order.
RunAction(a) ==
  LET d == Definition(a[1])
      taken == [run EXCEPT !.todo = @ \ {a}]
  IN /\ pc = "actions" /\ a \in run.todo
     /\ CASE IsTypeError(d, a[2]) ->
               /\ em' = [em EXCEPT !.typeErrors = @ \cup {a}]
               /\ run' = taken /\ UNCHANGED ghostVars
          [] ~IsTypeError(d, a[2]) /\ IsNoIdError(d, a[2]) ->
               /\ run' = IF run.retried THEN [taken EXCEPT !.failed = TRUE] ELSE [taken EXCEPT !.noIds = @ \cup {a}]
               /\ UNCHANGED <<em, ghostVars>>
          [] OTHER -> run' = taken /\ Succeeds(d, a[2])
     /\ UNCHANGED <<dbVars, pc, caller, loops, hookVars, edits, flushes>>

ActionThrows(a) ==
  /\ pc = "actions" /\ a \in run.todo /\ "action" \in world.failAt /\ FirstRound
  /\ run' = [run EXCEPT !.todo = @ \ {a}, !.failed = TRUE]
  /\ UNCHANGED <<em, dbVars, pc, caller, loops, hookVars, edits, flushes, ghostVars>>

\* Lambdas that missed an id run again once the new entities have one.
AssignIds ==
  /\ pc = "actions" /\ run.todo = {} /\ run.noIds # {}
  /\ em' = WithIds(em)
  /\ run' = [run EXCEPT !.todo = run.noIds, !.noIds = {}, !.retried = TRUE]
  /\ UNCHANGED <<dbVars, pc, caller, loops, hookVars, edits, flushes, ghostVars>>

IterationFails == run.failed \/ loops > MaxLoops
Processed(r) == {a \in r.batch : Definition(a[1]).runOnce}
EndIteration ==
  /\ pc = "actions" /\ run.todo = {} /\ run.noIds = {} /\ ~IterationFails
  /\ em' = [em EXCEPT !.processed = @ \cup Processed(run)]
  /\ run' = NoRun /\ loops' = loops + 1 /\ pc' = "recalc"
  /\ UNCHANGED <<dbVars, caller, hookVars, edits, flushes, ghostVars>>

\* recalcPendingReactables returns to where #flush awaits it.
Settled ==
  /\ pc = "recalc" /\ ~NeedsRecalc(caller)
  /\ CASE caller = "open" -> pc' = "pass" /\ UNCHANGED <<caller, loops>>
       [] caller = "settle" -> pc' = "settled" /\ UNCHANGED <<caller, loops>>
       [] caller = "resettle" -> pc' = "looped" /\ UNCHANGED <<caller, loops>>
       [] caller = "query" -> Recalc("requery")
       [] caller = "requery" -> pc' = "pass" /\ UNCHANGED <<caller, loops>>
  /\ UNCHANGED <<em, dbVars, run, hookVars, edits, flushes, ghostVars>>

\* runHooksOnPendingEntities: the entities whose hooks have not run yet.
StartPass ==
  /\ pc = "pass"
  /\ pendingHooks' = Pending \ invoked
  /\ pc' = IF pendingHooks' = {} THEN "validate" ELSE "hooks"
  /\ UNCHANGED <<em, dbVars, caller, run, loops, invoked, edits, flushes, ghostVars>>

\* A slip for EndHooks: what hooks changed is left to the next flush.
HooksSettled ==
  /\ pc = "hooks" /\ pc' = "looped" /\ em' = CleanedUp(em)
  /\ UNCHANGED <<dbVars, caller, run, loops, hookVars, edits, flushes, ghostVars>>
EndHooks ==
  /\ pc = "hooks"
  /\ em' = CleanedUp(em)
  /\ Recalc("settle")
  /\ UNCHANGED <<dbVars, run, hookVars, edits, flushes, ghostVars>>

Retryable == {a \in em.typeErrors : Living(em, a[2])}
\* recalcPendingTypeErrors, now that the hooks may have set what was missing.
StartRetry(last) ==
  /\ em' = [em EXCEPT !.typeErrors = {}]
  /\ run' = [NoRun EXCEPT !.todo = Retryable, !.last = last]
  /\ pc' = "retry"
RetryTypeErrors ==
  /\ pc = "settled" /\ em.typeErrors # {}
  /\ StartRetry(FALSE)
  /\ UNCHANGED <<dbVars, caller, loops, hookVars, edits, flushes, ghostVars>>
NoTypeErrors ==
  /\ pc = "settled" /\ em.typeErrors = {}
  /\ pc' = "looped"
  /\ UNCHANGED <<em, dbVars, caller, run, loops, hookVars, edits, flushes, ghostVars>>

RunRetry(a) ==
  LET d == Definition(a[1])
  IN /\ pc = "retry" /\ a \in run.todo
     /\ run' = [run EXCEPT !.todo = @ \ {a},
                           !.failed = @ \/ (~IsTypeError(d, a[2]) /\ IsNoIdError(d, a[2]))]
     /\ CASE IsTypeError(d, a[2]) -> em' = [em EXCEPT !.suppressed = TRUE] /\ UNCHANGED ghostVars
          [] ~IsTypeError(d, a[2]) /\ IsNoIdError(d, a[2]) -> UNCHANGED <<em, ghostVars>>
          [] OTHER -> Succeeds(d, a[2])
     /\ UNCHANGED <<dbVars, pc, caller, loops, hookVars, edits, flushes>>
EndRetry ==
  /\ pc = "retry" /\ run.todo = {} /\ ~run.failed
  /\ run' = NoRun
  /\ CASE run.last -> pc' = "validate" /\ UNCHANGED <<caller, loops>>
       [] ~run.last /\ NeedsRecalc("settle") -> Recalc("resettle")
       [] ~run.last /\ ~NeedsRecalc("settle") -> pc' = "looped" /\ UNCHANGED <<caller, loops>>
  /\ UNCHANGED <<em, dbVars, hookVars, edits, flushes, ghostVars>>

\* The hooks of newly dirty entities run in another loop; errors that are left are tried once more.
EndLoop ==
  /\ pc = "looped"
  /\ invoked' = invoked \cup pendingHooks
  /\ pendingHooks' = Pending \ invoked'
  /\ CASE pendingHooks' # {} -> pc' = "hooks" /\ UNCHANGED <<em, run>>
       [] pendingHooks' = {} /\ em.typeErrors # {} -> StartRetry(TRUE)
       [] OTHER -> pc' = "validate" /\ UNCHANGED <<em, run>>
  /\ UNCHANGED <<dbVars, caller, loops, edits, flushes, ghostVars>>

Valid ==
  /\ pc = "validate" /\ ~em.suppressed
  /\ pc' = CASE Pending # {} -> "write" [] Pending = {} /\ FirstRound -> "idle" [] OTHER -> "commit"
  /\ UNCHANGED <<em, dbVars, caller, run, loops, hookVars, edits, flushes, ghostVars>>

Write ==
  /\ pc = "write"
  /\ tx' = Written /\ em' = WithIds(em)
  /\ IF NeedsRecalc("query") THEN Recalc("query") ELSE pc' = "commit" /\ UNCHANGED <<caller, loops>>
  /\ UNCHANGED <<worldVars, rows, run, hookVars, edits, flushes, ghostVars>>

Commit ==
  /\ pc = "commit"
  /\ rows' = tx
  /\ em' = Cleared([em EXCEPT !.inst = [e \in Entity |-> Reset(em.inst[e])]])
  /\ pc' = "idle" /\ ran' = [a \in Actions |-> 0]
  /\ UNCHANGED <<worldVars, tx, caller, run, loops, hookVars, edits, flushes, saw>>

\* Too many loops fail after their iteration is remembered, a lambda that threw before.
Fail ==
  /\ \/ pc = "actions" /\ run.todo = {} /\ run.noIds = {} /\ IterationFails
     \/ pc = "retry" /\ run.todo = {} /\ run.failed
     \/ pc = "validate" /\ (em.suppressed \/ ("validate" \in world.failAt /\ FirstRound))
  /\ em' = [em EXCEPT !.suppressed = FALSE,
                      !.processed = IF pc = "actions" /\ ~run.failed THEN @ \cup Processed(run) ELSE @]
  /\ tx' = rows /\ run' = NoRun /\ pc' = IF world.retries THEN "idle" ELSE "failed"
  /\ UNCHANGED <<worldVars, rows, caller, loops, hookVars, edits, flushes, ghostVars>>

Next ==
  \/ Edit \/ StartFlush \/ TakeTodos
  \/ \E a \in Actions : RunAction(a) \/ ActionThrows(a) \/ RunRetry(a)
  \/ AssignIds \/ EndIteration \/ Settled \/ StartPass \/ EndHooks
  \/ RetryTypeErrors \/ NoTypeErrors \/ EndRetry \/ EndLoop
  \/ Valid \/ Write \/ Commit \/ Fail

Spec == Init /\ [][Next]_vars

----------------------------------------------------------------------------
(* Properties. *)

\* Every variable has its type.
TypeOK ==
  /\ em.todo \in [reactables -> SUBSET Entity] /\ em.done \in [reactables -> SUBSET Entity]
  /\ em.needs \subseteq {"populate", "query", "reaction"}
  /\ {em.processed, em.typeErrors, run.todo, run.noIds} \subseteq SUBSET Actions
  /\ \A e \in Entity : DOMAIN em.inst[e].data = Columns(TypeOf[e]) /\ DOMAIN rows[e].data = Columns(TypeOf[e])
  /\ {loops, edits, flushes} \subseteq Nat

\* "Always Up-to-Date": the committed rows are a materialized view.  Each derived column, of a
\* reactive field or of a query, holds what its lambda reads from the committed rows.
AlwaysUpToDate ==
  TypeOK /\ \A e \in Entity : rows[e].live =>
    \A d \in Derived(e) : rows[e].data[d.name] = View(rows, e, d.hint)

\* When a flush writes, every reaction has seen the values it writes.  One that runs once has
\* run if they differ from the committed ones: since the last commit, because a flush that finds
\* nothing to write does not end its turn.
ReactionsRan ==
  pc = "write" => \A e \in Entity : Living(em, e) =>
    \A d \in ReactionsOn(e) :
      LET a == <<d.name, e>>
          now == View(Memory(em.inst), e, d.hint)
      IN IF d.runOnce THEN (rows[e].live /\ View(rows, e, d.hint) = now) \/ ran[a] > 0
         ELSE saw[a] = now

\* A run-once reaction runs at most once for an entity until it is written, whichever of its sources changed.
RunsOnce == \A a \in Actions : Definition(a[1]).runOnce => ran[a] <= 1
=============================================================================
