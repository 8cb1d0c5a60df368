-------------------------- MODULE ReactionsProofs ---------------------------
(***************************************************************************)
(* A run-once reaction runs once per commit, however many of its sources   *)
(* changed, in whichever iterations of the recalculation, and over flushes *)
(* that failed and were tried again.                                       *)
(*                                                                         *)
(* While an iteration runs, its actions are not in processedActions yet:   *)
(* what has run is what the batch no longer has to do.  The end of the     *)
(* iteration adds the batch, and a batch leaves out what is there.  One    *)
(* that threw a TypeError did not run, and is tried again from a list.     *)
(***************************************************************************)
EXTENDS Reactions, FiniteSetTheorems, TLAPS

\* What the fields of em are; what the lambdas and the edits keep of it.
IsManager(m) ==
  DOMAIN m = {"inst", "todo", "done", "needs", "processed", "typeErrors", "suppressed", "deletes"}
Keeps(m, n) == IsManager(n) /\ n.processed = m.processed /\ n.typeErrors = m.typeErrors

IsRun(r) == DOMAIN r = {"batch", "todo", "noIds", "failed", "retried", "last"}
Once(a) == Definition(a[1]).runOnce

\* What ran is forgotten in two ways.  An iteration in which a lambda threw is not added to
\* processedActions, and its manager flushes again; a commit empties processedActions, while an
\* error that is still to be tried again stays.
ForgetsRun ==
  \/ Fail /\ pc = "actions" /\ run.failed /\ Processed(run) # {} /\ world.retries
  \/ Commit /\ \E a \in em.typeErrors : Once(a)

----------------------------------------------------------------------------
(* The inductive invariant. *)

\* The batch's actions that have run.
Finished(r) == {a \in r.batch : a \notin r.todo /\ a \notin r.noIds}
Remembered(a) == a \in em.processed \/ (pc = "actions" /\ a \in Finished(run))

\* The reactables are those of the definitions.
Indexed == \A r \in reactables : \E d \in Definitions : r.name = d.name /\ r.runOnce = d.runOnce

\* What is in the iteration that runs: nothing twice, and nothing that has run since the last commit.
BatchOk ==
  pc = "actions" =>
    /\ run.todo \subseteq run.batch /\ run.noIds \subseteq run.batch
    /\ \A a \in run.todo : a \notin run.noIds
    /\ \A a \in run.batch : Once(a) => a \notin em.processed

\* What is to be tried again has not run, and no iteration takes it up.
ErrorsOk ==
  /\ pc = "retry" => em.typeErrors = {}
  /\ \A a \in Actions : Once(a) /\ (a \in em.typeErrors \/ (pc = "retry" /\ a \in run.todo)) =>
       ran[a] = 0 /\ (pc = "failed" \/ Remembered(a))

\* What ran is remembered until the commit, or nothing runs any more.
RanOk ==
  \A a \in Actions : Once(a) =>
    ran[a] \in {0, 1} /\ (ran[a] = 1 => pc = "failed" \/ Remembered(a))

Callers == {"open", "settle", "resettle", "query", "requery"}
Shapes ==
  IsManager(em) /\ IsRun(run) /\ ran \in [Actions -> Nat] /\ world \in Worlds /\ caller \in Callers

IInv == Shapes /\ Indexed /\ BatchOk /\ ErrorsOk /\ RanOk

----------------------------------------------------------------------------
(* What the operators on the manager keep. *)

LEMMA QueueKeeps ==
  ASSUME NEW m, NEW R, NEW e, IsManager(m)
  PROVE  Keeps(m, Queue(m, R, e))
BY DEF Queue, Keeps, IsManager

LEMMA SetFieldKeeps ==
  ASSUME NEW m, NEW e, NEW f, NEW v, IsManager(m)
  PROVE  Keeps(m, SetField(m, e, f, v))
<1> DEFINE d == m.inst[e]
           Becomes(o, h) == [m EXCEPT !.inst[e] = [d EXCEPT !.data[f] = v, !.orig = o, !.hist = h]]
<1>1. ASSUME NEW o, NEW h
      PROVE  Keeps(m, Becomes(o, h))
  BY DEF Keeps, IsManager
<1>2. \A n : Keeps(m, n) => Keeps(m, QueueDownstream(n, e, f))
  BY QueueKeeps DEF QueueDownstream, Keeps
<1>3. \A n : Keeps(m, n) => Keeps(m, DequeueDownstream(n, e, f))
  <2> SUFFICES ASSUME NEW n, Keeps(m, n) PROVE Keeps(m, DequeueDownstream(n, e, f))
    OBVIOUS
  <2>1. \A todo : Keeps(m, [n EXCEPT !.todo = todo])
    BY DEF Keeps, IsManager
  <2>2. \A o, R : Keeps(m, o) => Keeps(m, Queue(o, R, e))
    BY QueueKeeps DEF Keeps
  <2> QED BY <2>1, <2>2 DEF DequeueDownstream
<1>4. Keeps(m, m)
  BY DEF Keeps
<1> QED BY <1>1, <1>2, <1>3, <1>4 DEF SetField

AnyOf(S) == CHOOSE x \in S : TRUE

\* em.create folds over the fields of its options, flushDeletes over the references that let go.
CreateStep(c, f, n) == SetField(n, c.e, f, c.opts[f])
CleanStep(c, x, n) == SetField(n, x[1], x[2], Unset)
KeepsFold(c, n, S) == Keeps(c.m, n)
CreateFold == INSTANCE FoldInduction WITH Op <- CreateStep, Pick <- AnyOf, P <- KeepsFold
CleanFold == INSTANCE FoldInduction WITH Op <- CleanStep, Pick <- AnyOf, P <- KeepsFold

LEMMA CreateKeeps ==
  ASSUME NEW m, NEW e, NEW opts, IsManager(m), IsFiniteSet(DOMAIN opts)
  PROVE  Keeps(m, Create(m, e, opts))
<1> DEFINE born == [m EXCEPT !.inst[e] = [Blank(e) EXCEPT !.state = "new"]]
           filled == FoldSet(LAMBDA f, n : SetField(n, e, f, opts[f]), born, DOMAIN opts)
           c == [m |-> m, e |-> e, opts |-> opts]
<1>1. Keeps(m, born)
  BY DEF Keeps, IsManager
<1>2. filled = CreateFold!Fold(c, born, DOMAIN opts)
  BY DEF FoldSet, MapThenFoldSet, CreateFold!Fold, CreateStep, AnyOf
<1>3. CreateFold!IsFiniteSet(DOMAIN opts)
  BY DEF IsFiniteSet, CreateFold!IsFiniteSet
<1>4. KeepsFold(c, born, {})
  BY <1>1 DEF KeepsFold
<1>5. \A T \in SUBSET DOMAIN opts, x \in DOMAIN opts : \A a :
        x \notin T /\ AnyOf(T \cup {x}) = x /\ KeepsFold(c, a, T) => KeepsFold(c, CreateStep(c, x, a), T \cup {x})
  BY SetFieldKeeps DEF KeepsFold, CreateStep, Keeps
<1>6. \A s \in SUBSET DOMAIN opts : s # {} => AnyOf(s) \in s
  BY DEF AnyOf
<1>7. KeepsFold(c, CreateFold!Fold(c, born, DOMAIN opts), DOMAIN opts)
  <2> HIDE DEF c, born, KeepsFold, CreateStep
  <2> QED BY <1>3, <1>4, <1>5, <1>6, CreateFold!FoldInvariant
<1>8. Keeps(m, filled)
  BY <1>2, <1>7 DEF KeepsFold
<1>9. Create(m, e, opts) = Queue(filled, {r \in reactables : ~r.isReadOnly /\ r.source = TypeOf[e]}, e)
  BY DEF Create, QueueAllDownstream
<1> QED
  <2> HIDE DEF filled
  <2> QED BY <1>8, <1>9, QueueKeeps DEF Keeps

\* A world has finitely many columns.
LEMMA FiniteColumns ==
  ASSUME world \in Worlds
  PROVE  IsFiniteSet(Entity \X UNION {Columns(TypeOf[e]) : e \in Entity})
<1>1. IsFiniteSet(Entity) /\ \A e \in Entity : IsFiniteSet(Columns(TypeOf[e]))
  BY WorldsAssumption DEF Entity
<1> DEFINE C == {Columns(TypeOf[e]) : e \in Entity}
           g == [e \in Entity |-> Columns(TypeOf[e])]
<1>2. g \in Surjection(Entity, C)
  BY DEF Surjection
<1>3. IsFiniteSet(C)
  BY <1>1, <1>2, FS_Surjection
<1>4. IsFiniteSet(UNION C)
  BY <1>1, <1>3, FS_UNION
<1> QED BY <1>1, <1>4, FS_Product

LEMMA CleanedUpKeeps ==
  ASSUME NEW m, IsManager(m), world \in Worlds
  PROVE  Keeps(m, CleanedUp(m))
<1> DEFINE S == LettingGo(m)
           folded == FoldSet(LAMBDA x, n : SetField(n, x[1], x[2], Unset), m, S)
           c == [m |-> m]
<1>1. IsFiniteSet(S)
  BY FiniteColumns, FS_Subset DEF LettingGo
<1>2. folded = CleanFold!Fold(c, m, S)
  BY DEF FoldSet, MapThenFoldSet, CleanFold!Fold, CleanStep, AnyOf
<1>3. CleanFold!IsFiniteSet(S)
  BY <1>1 DEF IsFiniteSet, CleanFold!IsFiniteSet
<1>4. KeepsFold(c, m, {})
  BY DEF KeepsFold, Keeps
<1>5. \A T \in SUBSET S, x \in S : \A a :
        x \notin T /\ AnyOf(T \cup {x}) = x /\ KeepsFold(c, a, T) => KeepsFold(c, CleanStep(c, x, a), T \cup {x})
  BY SetFieldKeeps DEF KeepsFold, CleanStep, Keeps
<1>6. \A s \in SUBSET S : s # {} => AnyOf(s) \in s
  BY DEF AnyOf
<1>7. KeepsFold(c, CleanFold!Fold(c, m, S), S)
  <2> HIDE DEF c, S, KeepsFold, CleanStep
  <2> QED BY <1>3, <1>4, <1>5, <1>6, CleanFold!FoldInvariant
<1>8. Keeps(m, folded)
  BY <1>2, <1>7 DEF KeepsFold
<1>9. CleanedUp(m) = [folded EXCEPT !.deletes = {}]
  BY DEF CleanedUp
<1> QED
  <2> HIDE DEF folded
  <2> QED BY <1>8, <1>9 DEF Keeps, IsManager

\* Whatever application code and hooks do, they run no reaction.
LEMMA ResultsKeep ==
  ASSUME NEW m, NEW columns, IsManager(m), IsFiniteSet(columns), NEW n \in Results(m, columns)
  PROVE  Keeps(m, n)
<1>1. CASE n \in Edited(m, columns)
  BY <1>1, SetFieldKeeps DEF Edited
<1>2. CASE \E e \in world.creatable : \E o \in Options(m, e, columns) : n = Create(m, e, o)
  <2>1. PICK e \in world.creatable : \E o \in Options(m, e, columns) : n = Create(m, e, o)
    BY <1>2
  <2>0. PICK o \in Options(m, e, columns) : n = Create(m, e, o)
    BY <2>1
  <2>2. DOMAIN o \subseteq columns
    BY DEF Options
  <2>3. IsFiniteSet(DOMAIN o)
    BY <2>2, FS_Subset
  <2> QED BY <2>0, <2>3, CreateKeeps
<1>3. CASE \E e \in world.deletable : n = Delete(m, e)
  <2>1. PICK e \in world.deletable : n = Delete(m, e)
    BY <1>3
  <2> DEFINE o == [m EXCEPT !.inst[e].deleted = TRUE, !.deletes = @ \cup {e}]
  <2>2. Keeps(m, o)
    BY DEF Keeps, IsManager
  <2>3. n = Queue(o, {r \in reactables : ~r.isReadOnly /\ r.source = TypeOf[e]}, e)
    BY <2>1 DEF Delete, QueueAllDownstream
  <2> HIDE DEF o
  <2> QED BY <2>2, <2>3, QueueKeeps DEF Keeps
<1> DEFINE absent == {x \in world.creatable : m.inst[x].state = "absent"}
           free == {x \in world.deletable : Living(m, x) /\ ~Pinned(m, x)}
           Made(e) == {Create(m, e, o) : o \in Options(m, e, columns)}
           created == UNION {Made(e) : e \in absent}
           deleted == {Delete(m, e) : e \in free}
<1>4. Results(m, columns) = Edited(m, columns) \cup created \cup deleted
  BY Zenon DEF Results
<1>5. n \in created => \E e \in absent : n \in Made(e)
  <2> HIDE DEF Made, absent
  <2> QED OBVIOUS
<1>6. \A e \in absent : n \in Made(e) => \E o \in Options(m, e, columns) : n = Create(m, e, o)
  OBVIOUS
<1>7. n \in deleted => \E e \in free : n = Delete(m, e)
  <2> HIDE DEF free
  <2> QED OBVIOUS
<1>8. absent \subseteq world.creatable /\ free \subseteq world.deletable
  OBVIOUS
<1>9. n \in Edited(m, columns) \/ n \in created \/ n \in deleted
  <2> HIDE DEF created, deleted
  <2> QED BY <1>4
<1> HIDE DEF absent, free, Made, created, deleted
<1>10. CASE n \in created
  BY <1>2, <1>5, <1>6, <1>8, <1>10
<1>11. CASE n \in deleted
  BY <1>3, <1>7, <1>8, <1>11
<1> QED BY <1>1, <1>9, <1>10, <1>11


----------------------------------------------------------------------------
(* The actions of an iteration. *)

LEMMA DefinitionOf ==
  ASSUME NEW a \in Actions
  PROVE  /\ Definition(a[1]) \in Definitions /\ Definition(a[1]).name = a[1]
         /\ a = <<a[1], a[2]>>
<1>1. PICK q \in Definitions \X Entity : a = <<q[1].name, q[2]>>
  BY DEF Actions
<1>2. \E d \in Definitions : d.name = a[1]
  BY <1>1
<1> QED BY <1>1, <1>2 DEF Definition

\* A definition is the one of its name.
LEMMA DefinitionByName ==
  ASSUME NEW d \in Definitions
  PROVE  Definition(d.name) = d
<1>1. Definition(d.name) \in Definitions /\ Definition(d.name).name = d.name
  BY DEF Definition
<1> QED BY <1>1, NamesAssumption

LEMMA SucceedsRuns ==
  ASSUME NEW a \in Actions, IsManager(em), ran \in [Actions -> Nat], Succeeds(Definition(a[1]), a[2])
  PROVE  Keeps(em, em') /\ (ran' = ran \/ ran' = [ran EXCEPT ![a] = @ + 1])
<1> DEFINE d == Definition(a[1])
<1>1. Keeps(em, em)
  BY DEF Keeps
<1>2. Keeps(em, Effect(d, a[2]))
  BY <1>1, SetFieldKeeps DEF Effect
<1>3. <<d.name, a[2]>> = a
  BY DefinitionOf
<1>4. em' = Effect(d, a[2]) /\ ran' = Ran(d, a[2])
  BY DEF Succeeds
<1> HIDE DEF d
<1> QED BY <1>2, <1>3, <1>4 DEF Ran

\* The actions depend on the world only.
LEMMA SameActions ==
  ASSUME UNCHANGED world
  PROVE  Actions' = Actions
BY DEF Actions, Entity

\* Each reactable is the one of a definition of the world.
LEMMA IndexedInit ==
  ASSUME Init
  PROVE  Indexed
<1>1. reactables = IndexReactables({d \in Definitions : d.name \in world.defined})
  BY DEF Init
<1>2. SUFFICES ASSUME NEW r \in reactables
               PROVE  \E d \in Definitions : r.name = d.name /\ r.runOnce = d.runOnce
  BY DEF Indexed
<1>3. PICK d \in {d \in Definitions : d.name \in world.defined} : r \in ReactablesOf(d)
  BY <1>1 DEF IndexReactables
<1> QED BY <1>3 DEF ReactablesOf

----------------------------------------------------------------------------
(* Steps. *)

\* A step that is not one of an iteration, and runs nothing but what was to be tried again.
LEMMA Outside ==
  ASSUME IInv, UNCHANGED worldVars, IsManager(em'), IsRun(run'), caller' \in Callers,
         em'.processed = em.processed, ran' \in [Actions -> Nat], pc \notin {"actions", "failed"}, pc' # "actions",
         \A a \in Actions : Once(a) /\ ran'[a] # ran[a] => pc = "retry" /\ a \in run.todo /\ ran'[a] = ran[a] + 1,
         pc' = "retry" => em'.typeErrors = {},
         \A a \in Actions : a \in em'.typeErrors \/ (pc' = "retry" /\ a \in run'.todo) =>
           /\ a \in em.typeErrors \/ (pc = "retry" /\ a \in run.todo)
           /\ ran'[a] = ran[a]
  PROVE  IInv'
<1>1. Actions' = Actions /\ world' = world /\ reactables' = reactables
  BY SameActions DEF worldVars
<1>2. Shapes'
  BY <1>1 DEF IInv, Shapes
<1>3. Indexed'
  BY <1>1 DEF IInv, Indexed
<1>4. BatchOk'
  BY DEF BatchOk
<1>5. \A a \in Actions : Remembered(a) => Remembered(a)'
  BY DEF Remembered
<1>6. ErrorsOk'
  BY <1>1, <1>5 DEF IInv, ErrorsOk
<1>7. RanOk'
  <2> SUFFICES ASSUME NEW a \in Actions, Once(a)
               PROVE  ran'[a] \in {0, 1} /\ (ran'[a] = 1 => Remembered(a)')
    BY <1>1 DEF RanOk
  <2>1. CASE ran'[a] = ran[a]
    BY <1>5, <2>1 DEF IInv, RanOk
  <2>2. CASE ran'[a] # ran[a]
    BY <1>5, <2>2 DEF IInv, ErrorsOk
  <2> QED BY <2>1, <2>2
<1> QED BY <1>2, <1>3, <1>4, <1>6, <1>7 DEF IInv

LEMMA InitInv == Init => IInv
<1> SUFFICES ASSUME Init PROVE IInv
  OBVIOUS
<1>1. Shapes
  BY DEF Init, Shapes, IsManager, IsRun, NoRun, Callers
<1>2. BatchOk /\ ErrorsOk
  BY DEF Init, BatchOk, ErrorsOk
<1>3. RanOk
  BY DEF Init, RanOk
<1> QED BY <1>1, <1>2, <1>3, IndexedInit DEF IInv

LEMMA TakeTodosInv ==
  ASSUME IInv, TakeTodos
  PROVE  IInv'
<1>1. /\ UNCHANGED worldVars /\ Actions' = Actions /\ ran' = ran /\ world' = world
      /\ reactables' = reactables /\ caller' = caller
  BY SameActions DEF TakeTodos, dbVars, worldVars, ghostVars
<1>2. /\ IsManager(em') /\ em'.processed = em.processed /\ em'.typeErrors = em.typeErrors
  BY DEF TakeTodos, IInv, Shapes, IsManager
<1>3. /\ IsRun(run') /\ run'.batch = Batch(caller) /\ run'.todo = Batch(caller) /\ run'.noIds = {}
  BY DEF TakeTodos, NoRun, IsRun
<1>4. pc = "recalc" /\ pc' = "actions"
  BY DEF TakeTodos
<1>5. \A a \in Batch(caller) : Once(a) => a \notin em.processed
  <2> SUFFICES ASSUME NEW a \in Batch(caller)
               PROVE  Once(a) => a \notin em.processed
    OBVIOUS
  <2>1. PICK r \in reactables : \E x : a = <<r.name, x>> /\ (r.runOnce => <<r.name, x>> \notin em.processed)
    BY DEF Batch, Due
  <2>2. PICK d \in Definitions : r.name = d.name /\ r.runOnce = d.runOnce
    BY DEF IInv, Indexed
  <2>3. a[1] = d.name
    BY <2>1, <2>2
  <2> QED BY <2>1, <2>2, <2>3, DefinitionByName DEF Once
<1>6. BatchOk'
  BY <1>1, <1>2, <1>3, <1>4, <1>5 DEF BatchOk
<1>7. RanOk'
  BY <1>1, <1>2, <1>4 DEF IInv, RanOk, Remembered
<1>8. ErrorsOk'
  BY <1>1, <1>2, <1>4 DEF IInv, ErrorsOk, Remembered
<1>9. Shapes' /\ Indexed'
  BY <1>1, <1>2, <1>3 DEF IInv, Shapes, Indexed
<1> QED BY <1>6, <1>7, <1>8, <1>9 DEF IInv

\* A lambda ran, or threw, or missed an id.
LEMMA RunActionInv ==
  ASSUME IInv, NEW a \in Actions, RunAction(a) \/ ActionThrows(a)
  PROVE  IInv'
<1> DEFINE d == Definition(a[1])
<1>1. /\ UNCHANGED worldVars /\ Actions' = Actions /\ world' = world /\ reactables' = reactables
      /\ pc = "actions" /\ pc' = pc /\ caller' = caller
  BY SameActions DEF RunAction, ActionThrows, dbVars, worldVars
<1>2. a \in run.todo /\ IsManager(em) /\ IsRun(run) /\ ran \in [Actions -> Nat]
  BY DEF RunAction, ActionThrows, IInv, Shapes
<1>3. a \in run.batch /\ a \notin run.noIds /\ (Once(a) => a \notin em.processed)
  BY <1>1, <1>2 DEF IInv, BatchOk
<1>4. /\ IsRun(run') /\ run'.batch = run.batch
      /\ \/ run'.todo = run.todo \ {a} /\ run'.noIds = run.noIds
         \/ run'.todo = run.todo \ {a} /\ run'.noIds = run.noIds \cup {a} /\ ran' = ran /\ em' = em
  BY <1>2 DEF RunAction, ActionThrows, IsRun, ghostVars
<1>5. \/ em' = em /\ ran' = ran
      \/ em' = [em EXCEPT !.typeErrors = @ \cup {a}] /\ ran' = ran
      \/ Keeps(em, em') /\ (ran' = ran \/ ran' = [ran EXCEPT ![a] = @ + 1])
  <2>1. CASE ActionThrows(a)
    BY <2>1 DEF ActionThrows, ghostVars
  <2>2. CASE RunAction(a)
    <3>1. CASE IsTypeError(d, a[2])
      BY <2>2, <3>1 DEF RunAction, ghostVars
    <3>2. CASE ~IsTypeError(d, a[2]) /\ IsNoIdError(d, a[2])
      BY <2>2, <3>2 DEF RunAction, ghostVars
    <3>3. CASE ~IsTypeError(d, a[2]) /\ ~IsNoIdError(d, a[2])
      <4>1. Succeeds(d, a[2])
        BY <2>2, <3>3 DEF RunAction
      <4> QED BY <1>2, <4>1, SucceedsRuns
    <3> QED BY <3>1, <3>2, <3>3
  <2> QED BY <2>1, <2>2
<1>6. d \in Definitions /\ d.runOnce = Once(a)
  BY DefinitionOf DEF Once
<1> HIDE DEF d
<1>7. IsManager(em') /\ em'.processed = em.processed
  BY <1>2, <1>5 DEF IsManager, Keeps
<1>8. \/ em'.typeErrors = em.typeErrors
      \/ em'.typeErrors = em.typeErrors \cup {a} /\ ran' = ran /\ run'.noIds = run.noIds
  BY <1>2, <1>4, <1>5 DEF IsManager, Keeps
<1>9. ran' \in [Actions -> Nat] /\ \A b \in Actions : b # a => ran'[b] = ran[b]
  BY <1>2, <1>5
<1>10. ran'[a] = ran[a] \/ ran'[a] = ran[a] + 1
  BY <1>2, <1>5
<1>11. Shapes' /\ Indexed'
  BY <1>1, <1>4, <1>7, <1>9 DEF IInv, Shapes, Indexed
<1>12. BatchOk'
  BY <1>1, <1>2, <1>1, <1>3, <1>4, <1>7 DEF IInv, BatchOk
<1>13. Once(a) => ran[a] = 0 /\ a \notin em.typeErrors
  BY <1>1, <1>2, <1>3 DEF IInv, RanOk, ErrorsOk, Remembered, Finished
<1>14. \A b \in Actions : b # a /\ Remembered(b) => Remembered(b)'
  BY <1>1, <1>4, <1>7 DEF Remembered, Finished
<1>15. run'.noIds = run.noIds => Remembered(a)'
  BY <1>1, <1>3, <1>4 DEF Remembered, Finished
<1>16. ErrorsOk'
  <2> SUFFICES ASSUME NEW b \in Actions, Once(b), b \in em'.typeErrors
               PROVE  ran'[b] = 0 /\ Remembered(b)'
    BY <1>1 DEF ErrorsOk
  <2>1. CASE b = a
    BY <1>8, <1>13, <1>15, <2>1
  <2>2. CASE b # a
    BY <1>1, <1>8, <1>9, <1>14, <2>2 DEF IInv, ErrorsOk
  <2> QED BY <2>1, <2>2
<1>17. RanOk'
  <2> SUFFICES ASSUME NEW b \in Actions, Once(b)
               PROVE  ran'[b] \in {0, 1} /\ (ran'[b] = 1 => Remembered(b)')
    BY <1>1 DEF RanOk
  <2>1. CASE b = a
    BY <1>4, <1>10, <1>13, <1>15, <2>1
  <2>2. CASE b # a
    BY <1>1, <1>9, <1>14, <2>2 DEF IInv, RanOk
  <2> QED BY <2>1, <2>2
<1> QED BY <1>11, <1>12, <1>16, <1>17 DEF IInv

LEMMA AssignIdsInv ==
  ASSUME IInv, AssignIds
  PROVE  IInv'
<1>1. /\ UNCHANGED worldVars /\ Actions' = Actions /\ world' = world /\ reactables' = reactables
      /\ pc = "actions" /\ pc' = pc /\ ran' = ran /\ caller' = caller
  BY SameActions DEF AssignIds, dbVars, worldVars, ghostVars
<1>2. /\ IsManager(em') /\ em'.processed = em.processed /\ em'.typeErrors = em.typeErrors
  BY DEF AssignIds, WithIds, IInv, Shapes, IsManager
<1>3. IsRun(run') /\ run'.batch = run.batch /\ run.todo = {} /\ run'.todo = run.noIds /\ run'.noIds = {}
  BY DEF AssignIds, IInv, Shapes, IsRun
<1>4. Shapes' /\ Indexed'
  BY <1>1, <1>2, <1>3 DEF IInv, Shapes, Indexed
<1>5. BatchOk'
  BY <1>1, <1>2, <1>3 DEF IInv, BatchOk
<1>6. Finished(run') = Finished(run)
  BY <1>3 DEF Finished
<1>7. RanOk' /\ ErrorsOk'
  BY <1>1, <1>2, <1>6 DEF IInv, RanOk, ErrorsOk, Remembered
<1> QED BY <1>4, <1>5, <1>7 DEF IInv

LEMMA EndIterationInv ==
  ASSUME IInv, EndIteration
  PROVE  IInv'
<1>1. /\ UNCHANGED worldVars /\ Actions' = Actions /\ world' = world /\ reactables' = reactables
      /\ pc = "actions" /\ pc' = "recalc" /\ ran' = ran /\ caller' = caller
  BY SameActions DEF EndIteration, dbVars, worldVars, ghostVars
<1>2. IsManager(em') /\ em'.processed = em.processed \cup Processed(run) /\ em'.typeErrors = em.typeErrors
  BY DEF EndIteration, IInv, Shapes, IsManager
<1>3. IsRun(run')
  BY DEF EndIteration, NoRun, IsRun
<1>4. Shapes' /\ Indexed' /\ BatchOk'
  BY <1>1, <1>2, <1>3 DEF IInv, Shapes, Indexed, BatchOk
<1>5. \A a \in Actions : Once(a) /\ Remembered(a) => Remembered(a)'
  BY <1>1, <1>2 DEF Remembered, Finished, Processed, Once
<1>6. RanOk' /\ ErrorsOk'
  BY <1>1, <1>2, <1>5 DEF IInv, RanOk, ErrorsOk
<1> QED BY <1>4, <1>6 DEF IInv

LEMMA CommitInv ==
  ASSUME IInv, Commit, ~ForgetsRun
  PROVE  IInv'
<1>1. /\ UNCHANGED worldVars /\ Actions' = Actions /\ world' = world /\ reactables' = reactables
      /\ run' = run /\ caller' = caller /\ pc' = "idle" /\ ran' = [a \in Actions |-> 0]
  BY SameActions DEF Commit, worldVars
<1>2. IsManager(em') /\ em'.typeErrors = em.typeErrors
  BY DEF Commit, Cleared, IInv, Shapes, IsManager
<1>3. Shapes' /\ Indexed' /\ BatchOk'
  BY <1>1, <1>2 DEF IInv, Shapes, Indexed, BatchOk
<1>4. RanOk'
  BY <1>1 DEF RanOk
<1>5. \A a \in Actions : a \in em'.typeErrors => ~Once(a)
  BY <1>2 DEF ForgetsRun
<1>6. ErrorsOk'
  BY <1>1, <1>5 DEF ErrorsOk
<1> QED BY <1>3, <1>4, <1>6 DEF IInv

LEMMA FailInv ==
  ASSUME IInv, Fail, ~ForgetsRun
  PROVE  IInv'
<1>1. /\ UNCHANGED worldVars /\ Actions' = Actions /\ world' = world /\ reactables' = reactables
      /\ ran' = ran /\ caller' = caller /\ pc \in {"actions", "retry", "validate"}
      /\ pc' = IF world.retries THEN "idle" ELSE "failed"
      /\ pc \in {"actions", "retry"} => run.todo = {}
      /\ pc = "actions" => run.noIds = {}
  BY SameActions DEF Fail, worldVars, ghostVars
<1>2. /\ IsManager(em') /\ em'.typeErrors = em.typeErrors
      /\ em'.processed = IF pc = "actions" /\ ~run.failed THEN em.processed \cup Processed(run) ELSE em.processed
  BY DEF Fail, IInv, Shapes, IsManager
<1>3. IsRun(run')
  BY DEF Fail, NoRun, IsRun
<1>4. Shapes' /\ Indexed' /\ BatchOk'
  BY <1>1, <1>2, <1>3 DEF IInv, Shapes, Indexed, BatchOk
<1>5. ASSUME world.retries, NEW a \in Actions, Once(a), Remembered(a)
      PROVE  Remembered(a)'
  <2>1. CASE a \in em.processed
    BY <1>2, <2>1 DEF Remembered
  <2>2. CASE pc = "actions" /\ a \in Finished(run)
    <3>1. a \in Processed(run)
      BY <1>5, <2>2 DEF Finished, Processed, Once
    <3>2. ~run.failed
      BY <1>5, <2>2, <3>1 DEF ForgetsRun
    <3> QED BY <1>2, <2>2, <3>1, <3>2 DEF Remembered
  <2> QED BY <1>5, <2>1, <2>2 DEF Remembered
<1>6. pc # "failed" /\ (world.retries \/ pc' = "failed")
  BY <1>1
<1>7. RanOk' /\ ErrorsOk'
  BY <1>1, <1>2, <1>5, <1>6 DEF IInv, RanOk, ErrorsOk
<1> QED BY <1>4, <1>7 DEF IInv

\* What threw a TypeError is tried again, and may run for the first time.
LEMMA RunRetryInv ==
  ASSUME IInv, NEW a \in Actions, RunRetry(a)
  PROVE  IInv'
<1> DEFINE d == Definition(a[1])
<1>1. UNCHANGED worldVars /\ caller' \in Callers /\ pc = "retry" /\ pc' = pc /\ a \in run.todo
  BY DEF RunRetry, dbVars, IInv, Shapes
<1>2. IsRun(run') /\ run'.todo = run.todo \ {a}
  BY DEF RunRetry, IInv, Shapes, IsRun
<1>3. em.typeErrors = {}
  BY <1>1 DEF IInv, ErrorsOk
<1>4. Keeps(em, em') /\ (ran' = ran \/ ran' = [ran EXCEPT ![a] = @ + 1])
  <2>1. CASE IsTypeError(d, a[2])
    BY <2>1 DEF RunRetry, ghostVars, Keeps, IInv, Shapes, IsManager
  <2>2. CASE ~IsTypeError(d, a[2]) /\ IsNoIdError(d, a[2])
    BY <2>2 DEF RunRetry, ghostVars, Keeps, IInv, Shapes, IsManager
  <2>3. CASE ~IsTypeError(d, a[2]) /\ ~IsNoIdError(d, a[2])
    <3>1. Succeeds(d, a[2])
      BY <2>3 DEF RunRetry
    <3> QED BY <3>1, SucceedsRuns DEF IInv, Shapes
  <2> QED BY <2>1, <2>2, <2>3
<1>5. ran' \in [Actions -> Nat] /\ \A b \in Actions : b # a => ran'[b] = ran[b]
  BY <1>4 DEF IInv, Shapes
<1>6. ran'[a] = ran[a] \/ ran'[a] = ran[a] + 1
  BY <1>4 DEF IInv, Shapes
<1>7. \A b \in Actions : ran'[b] # ran[b] => b \in run.todo /\ ran'[b] = ran[b] + 1
  BY <1>1, <1>5, <1>6
<1>8. \A b \in Actions : b \in run'.todo => b \in run.todo /\ ran'[b] = ran[b]
  BY <1>2, <1>5
<1> QED BY <1>1, <1>2, <1>3, <1>4, <1>5, <1>7, <1>8, Outside DEF Keeps

\* The steps around the iterations.
LEMMA OtherInv ==
  ASSUME IInv,
         Edit \/ StartFlush \/ Settled \/ StartPass \/ EndHooks \/ RetryTypeErrors \/ NoTypeErrors
           \/ EndRetry \/ EndLoop \/ Valid \/ Write
  PROVE  IInv'
<1>1. IsManager(em) /\ IsRun(run) /\ world \in Worlds /\ ran \in [Actions -> Nat] /\ caller \in Callers
  BY DEF IInv, Shapes
<1>3. Keeps(em, em)
  BY <1>1 DEF Keeps
<1>4. CASE UNCHANGED <<worldVars, run, ran>> /\ Keeps(em, em') /\ caller' \in Callers /\ pc \notin {"actions", "failed"}
             /\ pc' \notin {"actions", "retry"}
  BY <1>1, <1>4, Outside DEF Keeps
<1>5. CASE Edit
  <2>1. Keeps(em, em')
    BY <1>1, <1>5, ResultsKeep, WorldsAssumption DEF Edit
  <2> QED BY <1>1, <1>4, <1>5, <2>1 DEF Callers, Edit, dbVars, worldVars, ghostVars
<1>6. CASE StartFlush \/ EndHooks
  <2>1. Keeps(em, em')
    BY <1>1, <1>6, CleanedUpKeeps DEF StartFlush, EndHooks
  <2> QED BY <1>1, <1>4, <1>6, <2>1 DEF Callers, StartFlush, EndHooks, Recalc, dbVars, worldVars, ghostVars
<1>7. CASE Settled \/ StartPass \/ NoTypeErrors
  BY <1>1, <1>3, <1>4, <1>7 DEF Callers, Settled, StartPass, NoTypeErrors, Recalc, dbVars, worldVars, ghostVars
<1>8. CASE Valid
  BY <1>1, <1>3, <1>4, <1>8 DEF Callers, Valid, dbVars, worldVars, ghostVars
<1>9. CASE Write
  <2>1. Keeps(em, em')
    BY <1>1, <1>9 DEF Write, WithIds, Keeps, IsManager
  <2> QED BY <1>1, <1>4, <1>9, <2>1 DEF Callers, Write, Recalc, dbVars, worldVars, ghostVars
<1>10. ASSUME NEW last, StartRetry(last)
       PROVE  /\ IsManager(em') /\ IsRun(run') /\ em'.processed = em.processed /\ em'.typeErrors = {}
              /\ run'.todo \subseteq em.typeErrors /\ pc' = "retry"
  BY <1>1, <1>10 DEF StartRetry, NoRun, Retryable, IsManager, IsRun
<1>11. CASE \/ RetryTypeErrors
            \/ EndLoop /\ pendingHooks' = {} /\ em.typeErrors # {}
  <2>1. UNCHANGED worldVars /\ ran' = ran /\ caller' = caller /\ pc \notin {"actions", "failed"}
    BY <1>11 DEF RetryTypeErrors, EndLoop, dbVars, ghostVars
  <2>2. \E last : StartRetry(last)
    BY <1>11 DEF RetryTypeErrors, EndLoop
  <2> QED BY <1>1, <1>10, <2>1, <2>2, Outside
<1>12. CASE EndLoop /\ ~(pendingHooks' = {} /\ em.typeErrors # {})
  BY <1>1, <1>3, <1>4, <1>12 DEF Callers, EndLoop, dbVars, worldVars, ghostVars
<1>13. CASE EndRetry
  <2>1. /\ UNCHANGED worldVars /\ ran' = ran /\ em' = em /\ pc = "retry" /\ pc' \notin {"actions", "retry"}
         /\ caller' \in Callers
    BY <1>1, <1>13 DEF Callers, EndRetry, Recalc, dbVars, ghostVars
  <2>2. IsRun(run')
    BY <1>13 DEF EndRetry, NoRun, IsRun
  <2> QED BY <1>1, <2>1, <2>2, Outside
<1> QED BY <1>5, <1>6, <1>7, <1>8, <1>9, <1>11, <1>12, <1>13

LEMMA NextInv == IInv /\ [Next]_vars /\ [~ForgetsRun]_vars => IInv'
<1> SUFFICES ASSUME IInv, [Next]_vars, [~ForgetsRun]_vars PROVE IInv'
  OBVIOUS
<1>1. CASE UNCHANGED vars
  <2>1. Actions' = Actions
    BY <1>1, SameActions DEF vars
  <2> QED BY <1>1, <2>1
       DEF vars, IInv, Shapes, Indexed, BatchOk, ErrorsOk, RanOk, Remembered
<1>2. CASE \E a \in Actions : RunAction(a) \/ ActionThrows(a) \/ RunRetry(a)
  BY <1>2, RunActionInv, RunRetryInv
<1> QED BY <1>1, <1>2, TakeTodosInv, AssignIdsInv, EndIterationInv, CommitInv, FailInv, OtherInv DEF Next

\* RunsOnce: a run-once reaction runs at most once for an entity until it is written, in any
\* order of the lambdas, however many iterations, passes of hooks, TypeErrors and failed flushes
\* there are before: unless a lambda of its iteration threw and the flush is tried again, or a
\* commit left an error of its own to be tried again.
THEOREM ReactionRunsOnce == Spec /\ [][~ForgetsRun]_vars => []RunsOnce
<1>1. IInv => RunsOnce
  BY DEF IInv, RanOk, RunsOnce, Once
<1>2. IInv /\ [Next]_vars /\ [~ForgetsRun]_vars => IInv'
  BY NextInv
<1> QED BY <1>1, <1>2, InitInv, PTL DEF Spec
=============================================================================
