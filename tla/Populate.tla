------------------------------- MODULE Populate -------------------------------
(***************************************************************************)
(* Loading graphs of entities: em.load and em.populate with hints          *)
(* (populateBatchLoader.ts), lenses (loadLens.ts), and recursive           *)
(* collections (RecursiveCollection.ts), over the batch loaders of one     *)
(* manager.                                                                *)
(*                                                                         *)
(* Every promise is a task.  A task waits for others, and goes on, in a    *)
(* microtask, when they have ended.  The batches being collected are       *)
(* dispatched when no microtask is left (BatchLoader.ts), and the database *)
(* answers when nothing else is to be done.  The application calls, and    *)
(* edits references, in between.                                           *)
(***************************************************************************)
EXTENDS LoadedRelations, SequencesExt

CONSTANTS Request,           \* the calls the application may make
          Preloaders,        \* with a preloader, without, or either
          InMemory,          \* the entities that are in memory at first
          Sets,              \* the edits: references, and what they are set to
          MaxCalls, MaxEdits \* bounds on both

\* The reverse of an edited reference is a collection (the `preload` of a one-to-one reference
\* overwrites what it was set to while its load was under way), and what a recursive collection
\* goes along is set from nothing (its loader takes the children that are left for all).
ASSUME PopulateAssumption ==
  /\ Preloaders \subseteq BOOLEAN /\ {MaxCalls, MaxEdits} \subseteq Nat
  /\ \A r \in Request : IsHint(r.hint) /\ \A e, x \in r.start : e \in Entity /\ TypeOf[e] = TypeOf[x]
  /\ Sets \subseteq References \X (Entity \cup {None})
  /\ \A set \in Sets : LET p == set[1] IN
       /\ Meta[Field(p[1], p[2]).other][Field(p[1], p[2]).reverse].kind = "o2m"
       /\ set[2] # None => TypeOf[set[2]] = Field(p[1], p[2]).other
       /\ Rows[p] # None => \A r \in Request : r.op # "down" \/ p \notin {<<x, Field(e, r.path[1]).reverse>> : x \in Entity, e \in r.start}

VARIABLES em,           \* the manager's relations
          tasks,        \* every promise so far
          calls, edits  \* for the bounds
vars == <<em, tasks, calls, edits>>

----------------------------------------------------------------------------
(* Tasks: what each is, the key others find it by, its items (a hint tree, or   *)
(* the keys of a batch), its place, what it waits for, the relations to be      *)
(* preloaded then, where a lens has come to, and whether an edit has fallen     *)
(* into it. *)

Walk(items, list, soft) == [items |-> items, list |-> list, soft |-> soft]
Task(kind, key, items, at) ==
  [kind |-> kind, key |-> key, items |-> items, at |-> at, waits |-> {}, marks |-> {},
   walk |-> Walk({}, FALSE, FALSE), step |-> 0, edited |-> FALSE]

Now == [em |-> em, tasks |-> tasks]
Ended == {"done", "failed"}
Waiting == {"preload", "intermixed", "loading", "nested", "first", "second"}
\* The first promise that ends is enough.
AnyEnded(s, W) == W = {} \/ \E w \in W : s.tasks[w].at \in Ended
AllEnded(s, W) == \A w \in W : s.tasks[w].at \in Ended
Go(s, t, at, W) == [s EXCEPT !.tasks[t].at = at, !.tasks[t].waits = W]
Spawn(s, task) == [s EXCEPT !.tasks = Append(@, task)]
Latest(s) == Len(s.tasks)

\* Code that runs to its next await is several steps, which nothing interrupts; a layer that has
\* nothing to wait for does not await.
Synchronous(s, t) ==
  \/ s.tasks[t].at \in {"new", "ask", "open", "pull"}
  \/ s.tasks[t].kind = "layer" /\ s.tasks[t].at \in {"loading", "nested"} /\ s.tasks[t].waits = {}
Runnable(s, t) == Synchronous(s, t) \/ (s.tasks[t].at \in Waiting /\ AllEnded(s, s.tasks[t].waits))
At(s, places) == {t \in DOMAIN s.tasks : s.tasks[t].at \in places}

\* BatchLoader.load: join the batch that is being collected, or start one.
Collecting(s, key) == {t \in At(s, {"pending", "due"}) : s.tasks[t].key = key}
Enqueue(s, kind, key, items) ==
  IF Collecting(s, key) = {} THEN Spawn(s, Task(kind, key, items, "pending"))
  ELSE [s EXCEPT !.tasks[CHOOSE t \in Collecting(s, key) : TRUE].items = @ \cup items]
AwaitBatch(s, t, at, key) == Go(s, t, at, Collecting(s, key))
Await(s, t, at, kind, key, items) == AwaitBatch(Enqueue(s, kind, key, items), t, at, key)

----------------------------------------------------------------------------
(* em.populate *)

\* Intermixed populates of a type share a batch whatever their hints.
OneKeyPerType(t, hint, mode) == <<"populate", t, {}>>
PopulateKey(t, hint, mode) == <<"populate", t, IF mode = "preload" THEN {} ELSE hint>>

Tree(E, hint) == {<<path, e>> : path \in hint \cup {<<>>}, e \in E}
TypeOfAll(E) == TypeOf[CHOOSE e \in E : TRUE]
PreloadPart(m, E, hint) == IF m.preloads THEN SqlPart(TypeOfAll(E), hint) ELSE {}
IntermixedPart(m, E, hint) == IF m.preloads THEN NonSqlPart(TypeOfAll(E), hint) ELSE hint

Finish(s, t) ==
  [Go(s, t, "done", {}) EXCEPT !.em.calc = @ \cup IF s.tasks[t].kind = "property" THEN {Tail(s.tasks[t].key)} ELSE {}]

AskPopulate(s, t, E, hint, mode) == Await(s, t, mode, "layer", PopulateKey(TypeOfAll(E), hint, mode), Tree(E, hint))
\* First what joins fetch, then what has no join; neither if all is loaded.
StartPopulate(s, t, E, hint) ==
  CASE E = {} \/ \A e \in E : HintLoaded(s.em, e, hint) -> Finish(s, t)
    [] OTHER -> IF PreloadPart(s.em, E, hint) # {} THEN AskPopulate(s, t, E, PreloadPart(s.em, E, hint), "preload")
                ELSE AskPopulate(s, t, E, IntermixedPart(s.em, E, hint), "intermixed")
PreloadDone(s, t, E, hint) ==
  IF IntermixedPart(s.em, E, hint) = {} THEN Finish(s, t)
  ELSE AskPopulate(s, t, E, IntermixedPart(s.em, E, hint), "intermixed")

\* property.load: one promise for all who ask.
PropertyTask(s, p) == {t \in DOMAIN s.tasks : s.tasks[t].kind = "property" /\ Tail(s.tasks[t].key) = p}
LoadProperty(s, p) ==
  IF PropertyTask(s, p) # {} THEN s
  ELSE Spawn(s, Task("property", <<"property">> \o p, {}, "ask"))

----------------------------------------------------------------------------
(* Loading relations. *)

\* The batch of a relation that is not loaded, and what it adds to it.
LoaderKey(m, p) == IF Kind(p) = "m2o" THEN <<"load", TypeOf[m.fk[p]]>> ELSE <<"relation", TypeOf[p[1]], p[2]>>
LoaderItem(m, p) == IF Kind(p) = "m2o" THEN <<<<>>, m.fk[p]>> ELSE p

LoaderKeys(m, sql) == {LoaderKey(m, p) : p \in sql}
AskBatches(s, sql) ==
  FoldSet(LAMBDA key, r : Enqueue(r, "batch", key, {LoaderItem(s.em, p) : p \in {q \in sql : LoaderKey(s.em, q) = key}}),
          s, LoaderKeys(s.em, sql))
AskProperties(s, P) == FoldSet(LAMBDA p, r : LoadProperty(r, p), s, P)
AwaitAll(s, t, sql, P) ==
  [Go(s, t, "loading", UNION {Collecting(s, key) : key \in LoaderKeys(s.em, sql)} \cup UNION {PropertyTask(s, p) : p \in P})
     EXCEPT !.tasks[t].marks = sql]
Pull(s, t, P) == [Go(s, t, "pull", {}) EXCEPT !.tasks[t].marks = P]

\* populateLayer: a query with joins if any relation needs one, and every relation that its
\* entities ask for first.
Wanted(tree) == {<<n[2], n[1][1]>> : n \in {x \in tree : Len(x[1]) = 1}}
NeedsQuery(m, tree) ==
  /\ m.preloads /\ Joined(tree) # {}
  /\ \E p \in Wanted(tree) : ~IsLoaded(m, p) /\ ~IsPreloaded(m, p)
BeginLayer(s, t) ==
  IF NeedsQuery(s.em, s.tasks[t].items) THEN Go(s, t, "asked", {})
  ELSE Pull(s, t, Wanted(s.tasks[t].items))

\* Every child is asked for all that any parent's hint has below it.
BelowAny(m, tree, k) ==
  {Tail(n[1]) : n \in {y \in tree : y[1] # <<>> /\ y[1][1] = k}}
    \X UNION {RelatedEvenDeleted(m, n[2], k) : n \in {y \in tree : y[1] # <<>> /\ y[1][1] = k}}
\* Their children take over what was asked of them below: rewrite.
Below(m, tree, k) ==
  UNION {{<<Tail(n[1]), x>> : x \in RelatedEvenDeleted(m, n[2], k)} : n \in {y \in tree : y[1] # <<>> /\ y[1][1] = k}}
Layers(m, tree) ==
  {Below(m, tree, k) : k \in {n[1][1] : n \in {x \in tree : Len(x[1]) > 1}}} \ {{}}
BeginAll(s, trees) ==
  FoldSet(LAMBDA tree, r : Spawn(r, Task("layer", <<"nested">>, tree, "open")), s, trees)
AwaitNested(s, t, before) == Go(s, t, "nested", {n \in before + 1 .. Latest(s) : s.tasks[n].key = <<"nested">>})
BeginNested(s, t) == AwaitNested(BeginAll(s, Layers(s.em, s.tasks[t].items)), t, Latest(s))
Descend(s, t) ==
  BeginNested([s EXCEPT !.em = PreloadAll(@, s.tasks[t].marks)], t)

----------------------------------------------------------------------------
(* Lenses. *)

LensStep(m, w, e, k) ==
  LET next == UNION {Related(m, x, k) : x \in w.items}
      many == \E x \in w.items : Field(x, k).kind = "o2m"
  IN CASE w.list -> Walk(next \ SoftDeleted, TRUE, FALSE)
       [] many -> Walk(IF w.soft THEN {} ELSE next, TRUE, FALSE)
       [] OTHER -> Walk(next, FALSE, w.soft \/ next \cap SoftDeleted # {})
Walked(m, r) ==
  LET upTo[i \in 0..Len(r.path)] ==
        IF i = 0 THEN Walk(r.start, r.list, FALSE) ELSE LensStep(m, upTo[i - 1], r, r.path[i])
  IN upTo
GetLens(m, r) == Walked(m, r)[Len(r.path)].items
IsLensLoaded(m, r) ==
  \A i \in 1..Len(r.path) : \A x \in Walked(m, r)[i - 1].items : IsLoaded(m, <<x, r.path[i]>>)

WalkFrom(s, t, r) ==
  IF s.tasks[t].step = Len(r.path) \/ s.tasks[t].walk.items = {} THEN Finish(s, t)
  ELSE Pull(s, t, {<<x, r.path[s.tasks[t].step + 1]>> : x \in s.tasks[t].walk.items})
WalkOn(s, t, r, m) ==
  WalkFrom([s EXCEPT !.em = m, !.tasks[t].step = @ + 1,
                     !.tasks[t].walk = LensStep(m, @, r, r.path[s.tasks[t].step + 1])], t, r)

\* lensDataLoader joins back from the target: the types between are not soft-deleted, nor is the
\* source unless the last foreign key, which it is read from, is not its own.
SqlLens(r) ==
  LET n == Len(r.path)
      back[i \in 0..n] ==
        IF i = n THEN {<<x, x>> : x \in {y \in Entity : TypeOf[y] = PathType(TypeOfAll(r.start), r.path)}}
        ELSE {<<y, z>> \in Entity \X Entity :
                /\ i > 0 \/ Field(CHOOSE e \in r.start : TRUE, r.path[1]).kind = "m2o" => y \notin SoftDeleted
                /\ r.path[i + 1] \in Keys(y)
                /\ \E x \in DbRelated(y, r.path[i + 1]) : <<x, z>> \in back[i + 1]}
  IN {q[2] : q \in {b \in back[0] : b[1] \in r.start}}

----------------------------------------------------------------------------
(* Recursive collections. *)

ClosureOf(step, S) ==
  LET upTo[i \in 0..Cardinality(Entity)] == IF i = 0 THEN S ELSE UNION {{x} \cup step[x] : x \in upTo[i - 1]}
  IN upTo[Cardinality(Entity)]
\* Along what is loaded: the chain of parents, or the tree of children.
Chain(m, e, k) == ClosureOf([x \in {y \in Entity : k \in Keys(y)} |-> Related(m, x, k) \cap m.mem], {e})
Unloaded(m, e, k) == {x \in Chain(m, e, k) : ~IsLoaded(m, <<x, k>>)}
DbChain(S, k) == ClosureOf([x \in {y \in Entity : k \in Keys(y)} |-> DbRelated(x, k)], S)

Recursion(r) == CHOOSE e \in r.start : TRUE
EndRecursion(s, t, r) ==
  IF Unloaded(s.em, Recursion(r), r.path[1]) = {} THEN Finish(s, t) ELSE Go(s, t, "failed", {})
RecursionKey(r) == <<r.op, TypeOfAll(r.start), r.path[1]>>

\* Calls for one entity share the first load of its collection.
SharedWaits(s, t) == UNION {s.tasks[u].waits : u \in {v \in At(s, {"first"}) : v # t /\ s.tasks[v].key = s.tasks[t].key}}
BeginRecursion(s, t, r, open) ==
  CASE open = {} -> Finish(s, t)
    [] open # {} /\ SharedWaits(s, t) # {} -> Go(s, t, "first", SharedWaits(s, t))
    [] OTHER -> Await(s, t, "first", "batch", RecursionKey(r), IF r.op = "up" THEN open ELSE r.start)
StartRecursion(s, t, r) == BeginRecursion(s, t, r, Unloaded(s.em, Recursion(r), r.path[1]))
\* What the query did not know of: one more load of parents, or the loads of the children's own
\* collections.
BeginInner(s, r, open) ==
  FoldSet(LAMBDA x, u : Spawn(u, Task("call", <<"call", [r EXCEPT !.start = {x}]>>, {}, "new")), s, open)
AwaitInner(s, t, before) == Go(s, t, "second", {u \in before + 1 .. Latest(s) : s.tasks[u].kind = "call"})
LoadRemaining(s, t, r, open) ==
  CASE open = {} -> Finish(s, t)
    [] open # {} /\ r.op = "up" -> Await(s, t, "second", "batch", RecursionKey(r), open)
    [] OTHER -> AwaitInner(BeginInner(s, r, open), t, Latest(s))
AfterFirst(s, t, r) == LoadRemaining(s, t, r, Unloaded(s.em, Recursion(r), r.path[1]))

----------------------------------------------------------------------------
(* What a batch makes of its answer. *)

LoadParents(m, S, k) == Hydrate(m, DbChain({m.fk[<<x, k>>] : x \in S} \ {None}, k))
\* The children found, by the parent they have in memory; who still has none is a leaf.
ParentOf(m, x, k) == m.fk[<<x, Field(x, k).reverse>>]
GiveChildren(m, found, k) ==
  LET P == {<<ParentOf(m, x, k), k>> : x \in found} \cap DOMAIN m.pre
  IN PreloadAll(Preload(m, [p \in P |-> {x \in found : ParentOf(m, x, k) = p[1]}]), P)
GiveLeaves(m, leaves) == PreloadAll(Preload(m, [p \in leaves |-> {}]), leaves)
Grown(m, S, k) == GiveLeaves(m, {<<x, k>> : x \in {y \in S : ~m.coll[<<y, k>>].loaded}})
ChildrenFound(m, S, k, found) == Grown(GiveChildren(Hydrate(m, found), found, k), S \cup found, k)
LoadChildren(m, S, k) == ChildrenFound(m, S, k, UNION {DbRelated(x, k) : x \in DbChain(S, k)})

Answered(m, key, items) ==
  CASE key[1] \in {"populate", "nested"} -> PreloadTree(m, items)
    [] key[1] = "load" -> LET here == Hydrate(m, {n[2] : n \in items}) IN IF m.preloads THEN PreloadTree(here, items) ELSE here
    [] key[1] = "relation" -> LoadCollections(m, items)
    [] key[1] = "up" -> LoadParents(m, items, key[3])
    [] key[1] = "down" -> LoadChildren(m, items, key[3])
    [] key[1] = "lens" -> Hydrate(m, UNION {SqlLens(r) : r \in items})

----------------------------------------------------------------------------
Become(s) == em' = s.em /\ tasks' = s.tasks

\* The application may act whenever no promise callback or tick is in progress.
Idle == At(Now, {"due"}) = {} /\ ~\E t \in DOMAIN tasks : Synchronous(Now, t)

StartLens(s, t, r) ==
  IF IsLensLoaded(s.em, r) THEN [Finish(s, t) EXCEPT !.tasks[t].walk = Walked(s.em, r)[Len(r.path)]]
  ELSE IF r.op = "lens" THEN WalkFrom([s EXCEPT !.tasks[t].walk = Walk(r.start, r.list, FALSE)], t, r)
  ELSE Await(s, t, "first", "batch", <<"lens", TypeOfAll(r.start), r.path>>, {r})
StartCall(s, t, r) ==
  CASE r.op \in {"load", "populate"} ->
         IF r.start \subseteq s.em.mem THEN Go(s, t, "ask", {})
         ELSE Await(s, t, "first", "batch", <<"load", TypeOfAll(r.start)>>, Tree(r.start, r.hint))
    [] r.op \in {"lens", "sqlLens"} -> StartLens(s, t, r)
    [] OTHER -> StartRecursion(s, t, r)

Call(r) ==
  /\ Idle /\ calls < MaxCalls /\ (r.op # "load" => r.start \subseteq em.mem)
  /\ Become(Spawn(Now, Task("call", <<"call", r>>, {}, "new")))
  /\ calls' = calls + 1 /\ UNCHANGED edits

\* Set a reference to an entity in memory, or to none.
Edit(p, x) ==
  /\ Idle /\ edits < MaxEdits /\ p[1] \in em.mem /\ x \in em.mem \cup {None} /\ x # em.fk[p]
  /\ em' = SetReference(em, p[1], p[2], x) /\ edits' = edits + 1
  /\ tasks' = [t \in DOMAIN tasks |-> [tasks[t] EXCEPT !.edited = @ \/ tasks[t].at \notin Ended]]
  /\ UNCHANGED calls

\* What em.populate is asked by a call or for a property.
Populated(task) == IF task.kind = "call" THEN task.key[2].start ELSE {task.key[2]}
HintOf(task) == IF task.kind = "call" THEN task.key[2].hint ELSE Field(task.key[2], task.key[3]).hint
Continue(s, t, task) ==
  CASE task.at = "new" -> StartCall(s, t, task.key[2])
    [] task.at = "ask" -> StartPopulate(s, t, Populated(task), HintOf(task))
    [] task.at = "preload" -> PreloadDone(s, t, Populated(task), HintOf(task))
    [] task.at = "intermixed" -> Finish(s, t)
    [] task.at = "open" -> BeginLayer(s, t)
    [] task.at = "loading" -> IF task.kind = "layer" THEN Descend(s, t)
                              ELSE WalkOn(s, t, task.key[2], PreloadAll(s.em, task.marks))
    [] task.at = "nested" -> Go(s, t, "done", {})
    [] task.at = "second" -> EndRecursion(s, t, task.key[2])
    [] task.at = "first" /\ task.key[2].op = "load" -> Go(s, t, "ask", {})
    [] task.at = "first" /\ task.key[2].op = "sqlLens" ->
         [Finish(s, t) EXCEPT !.tasks[t].walk = Walk(SqlLens(task.key[2]), TRUE, FALSE)]
    [] OTHER -> AfterFirst(s, t, task.key[2])
\* Every relation of a task that is not loaded: what a query has left is taken, the rest is
\* asked for.
LoadRelations(t) ==
  \E open \in {{p \in tasks[t].marks : ~IsLoaded(em, p)}} : \E left \in {{p \in open : IsPreloaded(em, p)}} :
  \E sql \in {{p \in open \ left : Kind(p) # "property"}} : \E P \in {{p \in open : Kind(p) = "property"}} :
  \E taken \in {[Now EXCEPT !.em = PreloadAll(@, left)]} : \E batched \in {AskBatches(taken, sql)} :
  \E asked \in {AskProperties(batched, P)} : \E n \in {AwaitAll(asked, t, sql, P)} : Become(n)

\* A task goes on: the code after its await.
Resume(t) ==
  /\ IF Idle THEN Runnable(Now, t)
     ELSE Synchronous(Now, t) /\ \A u \in DOMAIN tasks : u < t => ~Synchronous(Now, u)
  /\ IF tasks[t].at = "pull" THEN LoadRelations(t) ELSE \E n \in {Continue(Now, t, tasks[t])} : Become(n)
  /\ UNCHANGED <<calls, edits>>

\* No microtask is left: what has been collected becomes due, and is dispatched in order.
Tick ==
  /\ Idle /\ At(Now, {"pending"}) # {} /\ ~\E t \in DOMAIN tasks : Runnable(Now, t)
  /\ tasks' = [t \in DOMAIN tasks |-> [tasks[t] EXCEPT !.at = IF @ = "pending" THEN "due" ELSE @]]
  /\ UNCHANGED <<em, calls, edits>>
Dispatch(t) ==
  /\ t \in At(Now, {"due"}) /\ \A u \in At(Now, {"due"}) : t <= u
  /\ ~\E u \in DOMAIN tasks : Synchronous(Now, u)
  /\ Become(Go(Now, t, IF tasks[t].kind = "layer" THEN "open" ELSE "asked", {}))
  /\ UNCHANGED <<calls, edits>>

\* The database answers, and its rows are hydrated.
Answer(t) ==
  /\ t \in At(Now, {"asked"}) /\ At(Now, {"pending", "due"}) = {} /\ ~\E u \in DOMAIN tasks : Runnable(Now, u)
  /\ \E m \in {Answered(em, tasks[t].key, tasks[t].items)} :
       \E s \in {[Now EXCEPT !.em = m]} :
         Become(IF tasks[t].kind = "layer" THEN Pull(s, t, Wanted(tasks[t].items)) ELSE Go(s, t, "done", {}))
  /\ UNCHANGED <<calls, edits>>

Init ==
  /\ \E preloads \in Preloaders : em = Hydrate(EmptyManager(preloads), InMemory)
  /\ tasks = <<>> /\ calls = 0 /\ edits = 0
Next ==
  \/ \E r \in Request : Call(r)
  \/ \E set \in Sets : Edit(set[1], set[2])
  \/ \E t \in DOMAIN tasks : Resume(t)
  \/ \E t \in DOMAIN tasks : Dispatch(t)
  \/ \E t \in DOMAIN tasks : Answer(t)
  \/ Tick
Spec == Init /\ [][Next]_vars

----------------------------------------------------------------------------
\* Every variable has its type.
TypeOK ==
  /\ em.mem \subseteq Entity /\ em.fk \in [DOMAIN Rows -> Entity \cup {None}] /\ em.blank \subseteq DOMAIN Rows
  /\ em.calc \subseteq Pairs({"property"}) /\ \A p \in DOMAIN em.coll : em.coll[p].members \subseteq Entity
  /\ calls \in 0..MaxCalls /\ edits \in 0..MaxEdits
  /\ \A t \in DOMAIN tasks :
       /\ tasks[t].at \in Ended \cup Waiting \cup {"new", "ask", "open", "pull", "pending", "due", "asked"}
       /\ tasks[t].waits \subseteq DOMAIN tasks /\ tasks[t].kind \in {"call", "property", "batch", "layer"}

\* The relations as they are, in the database and with the edits, all of them loaded.
Members(p) == {x \in Entity : TypeOf[x] = Field(p[1], p[2]).other /\ em.fk[<<x, Field(p[1], p[2]).reverse>>] = p[1]}
Whole ==
  [em EXCEPT !.mem = Entity, !.blank = {}, !.coll = [p \in DOMAIN @ |-> [@[p] EXCEPT !.loaded = TRUE, !.members = Members(p)]]]

\* A call that no edit has fallen into ends with what it is for: populate with its hint loaded, a
\* lens at the entities that are there, a recursive collection at all that are above or below.
GivesWhatIsThere(t) ==
  LET r == tasks[t].key[2]
  IN /\ tasks[t].at = "done"
     /\ r.op \in {"load", "populate"} => \A e \in r.start : e \in em.mem /\ HintLoaded(em, e, r.hint)
     /\ r.op = "lens" => tasks[t].walk.items = GetLens(Whole, r)
     /\ r.op \in {"up", "down"} => Chain(em, Recursion(r), r.path[1]) = Chain(Whole, Recursion(r), r.path[1])
CallsGiveWhatIsThere ==
  [][\A t \in DOMAIN tasks' :
       /\ tasks'[t].kind = "call" /\ tasks'[t].at \in Ended /\ ~tasks'[t].edited
       /\ t \in DOMAIN tasks => tasks[t].at \notin Ended
       => GivesWhatIsThere(t)']_vars

\* A collection that is loaded has the children that refer to its owner, whatever was loaded
\* for whom, and whatever was edited meanwhile.
LoadedIsTrue ==
  TypeOK /\ \A p \in DOMAIN em.coll : p[1] \in em.mem /\ em.coll[p].loaded => em.coll[p].members = Members(p)

\* Until something is edited, no more is loaded than the calls so far ask for, of the entities they
\* ask it for: a hint that shares a batch with others is not theirs.
RECURSIVE AskedOf(_, _)
AskedOf(e, hint) ==
  UNION {LET k == path[Len(path)]
         IN UNION {IF Field(x, k).kind = "property" THEN AskedOf(x, Field(x, k).hint) ELSE {<<x, k>>} :
                     x \in DbReached(e, SubSeq(path, 1, Len(path) - 1))} : path \in hint}
AskedBy(r) ==
  CASE r.op \in {"load", "populate"} -> UNION {AskedOf(e, r.hint) : e \in r.start}
    [] r.op = "lens" -> UNION {AskedOf(e, Prefixes(r.path) \ {<<>>}) : e \in r.start}
    [] r.op = "sqlLens" -> {}
    [] OTHER -> {<<x, r.path[1]>> : x \in DbChain(r.start, r.path[1])}
OnlyAskedIsLoaded ==
  LET called == {tasks[t].key[2] : t \in {u \in DOMAIN tasks : tasks[u].kind = "call"}}
      asked == UNION {AskedBy(r) : r \in called}
  IN edits = 0 =>
       /\ {p \in DOMAIN em.coll : em.coll[p].loaded \/ IsPreloaded(em, p)} \subseteq asked
       /\ em.mem \subseteq UNION {InMemory, UNION {DbRelated(p[1], p[2]) : p \in asked},
                                UNION {r.start : r \in called}, UNION {SqlLens(r) : r \in {q \in called : q.op = "sqlLens"}}}

\* No promise waits for another for ever: when nothing is left to be done, every call has ended.
NeverStuck ==
  (\A t \in DOMAIN tasks : ~Runnable(Now, t)) /\ At(Now, {"pending", "due", "asked"}) = {}
    => \A t \in DOMAIN tasks : tasks[t].at \in Ended
=============================================================================
