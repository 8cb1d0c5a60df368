------------------------- MODULE EntityFlushProofs --------------------------
(***************************************************************************)
(* What em.flush guarantees for any entities, values, hooks, reactions and *)
(* bounds.                                                                 *)
(***************************************************************************)
EXTENDS EntityFlush, TLAPS

----------------------------------------------------------------------------
(* Facts about the operators of InstanceData: each returns an instance, a  *)
(* deletion is never undone, and outside of a reactive query round an      *)
(* entity with something to write stays in #maybePendingFlushEntities.     *)


\* An entity with something to write can be found, and no round is open.
Tracked(d) == d.flushed = NoBag /\ (PendingOperation(d) # "none" => d.maybe)

\* Deleted by em.delete: an entity of the identity map.
Gone(d) == InMap(d) /\ IsDeleted(d)

\* What every step of the manager does to an instance.
Evolves(d, c) ==
  /\ c \in Instances
  /\ InMap(d) => InMap(c)
  /\ Gone(d) => Gone(c)
  /\ Tracked(d) => Tracked(c)

\* A hydrated row is an instance with nothing to write.
LEMMA HydratedInstance ==
  ASSUME NEW v \in Val, NEW t \in Nat
  PROVE  Hydrated(v, t) \in Instances /\ Tracked(Hydrated(v, t))
BY DEF Hydrated, Instances, Tracked, PendingOperation, InMap, IsDeleted, IsDirty

\* An id nothing has created yet has nothing to write.
LEMMA UnbornInstance ==
  ASSUME NEW v \in Val
  PROVE  Unborn(v) \in Instances /\ Tracked(Unborn(v))
BY DEF Unborn, Hydrated, Instances, Tracked, PendingOperation, InMap, IsDeleted

\* em.create makes an entity that is to be inserted, and a candidate.
LEMMA CreatedInstance ==
  ASSUME NEW v \in Val, NEW t \in Nat
  PROVE  Created(v, t) \in Instances /\ Tracked(Created(v, t))
BY DEF Created, Hydrated, Instances, Tracked

\* setField keeps flushedData a bag of at most one written value.
LEMMA FlushedAfterSetType ==
  ASSUME NEW d \in Instances, NEW v \in Val
  PROVE  FlushedAfterSet(d, v) \in Val \cup {NoBag, EmptyBag}
BY MarkersAssumption DEF FlushedAfterSet, Instances

\* setField marks the entity the first time it changes, and whenever it reverts.
LEMMA SetFieldEvolves ==
  ASSUME NEW d \in Instances, NEW v \in Val
  PROVE  Evolves(d, SetField(d, v))
<1> DEFINE b == [d EXCEPT !.flushed = FlushedAfterSet(d, v)]
<1>1. b \in Instances
  BY FlushedAfterSetType DEF Instances
<1>2. /\ b.new = d.new /\ b.deleted = d.deleted
      /\ Tracked(d) => Tracked(b)
  BY MarkersAssumption DEF Instances, Tracked, FlushedAfterSet, PendingOperation, InMap, IsDeleted, IsDirty
<1>3. CASE d.orig = v
  <2>1. SetField(d, v) = MarkFieldClean(b, v)
    BY <1>3 DEF SetField
  <2> QED
    BY <1>1, <1>2, <2>1 DEF MarkFieldClean, Evolves, Instances, Tracked, IsDeleted, InMap, Gone
<1>4. CASE d.orig # v /\ v = d.value
  <2>1. SetField(d, v) = b
    BY <1>4 DEF SetField
  <2> QED
    BY <1>1, <1>2, <2>1 DEF Evolves, InMap, IsDeleted, Gone
<1>5. CASE d.orig # v /\ v # d.value
  <2>1. SetField(d, v) = MarkFieldDirty(b, v)
    BY <1>5 DEF SetField
  <2>2. MarkFieldDirty(b, v) \in Instances
    BY <1>1 DEF MarkFieldDirty, Instances
  <2>3. LET c == MarkFieldDirty(b, v) IN c.new = b.new /\ c.deleted = b.deleted
    BY <1>1 DEF MarkFieldDirty, Instances
  <2>4. Tracked(b) => Tracked(MarkFieldDirty(b, v))
    BY <1>1 DEF MarkFieldDirty, Instances, IsDeleted, Tracked, PendingOperation, InMap, IsDirty
  <2> QED
    BY <1>2, <2>1, <2>2, <2>3, <2>4 DEF Evolves, InMap, IsDeleted, Gone
<1> QED
  BY <1>3, <1>4, <1>5

\* em.touch makes a candidate.
LEMMA MarkTouchedEvolves ==
  ASSUME NEW d \in Instances
  PROVE  Evolves(d, MarkTouched(d))
BY DEF MarkTouched, Evolves, Instances, Tracked, IsDeleted, InMap, Gone

\* em.delete makes a candidate of an entity that was not deleted before.
LEMMA MarkDeletedEvolves ==
  ASSUME NEW d \in Instances
  PROVE  Evolves(d, MarkDeleted(d)) /\ IsDeleted(MarkDeleted(d))
BY DEF MarkDeleted, Evolves, Instances, Tracked, IsDeleted, InMap, Gone

\* The bump of updated_at makes a candidate.
LEMMA BumpUpdatedAtEvolves ==
  ASSUME NEW d \in Instances, NEW stamp \in Nat
  PROVE  Evolves(d, BumpUpdatedAt(d, stamp))
BY DEF BumpUpdatedAt, Evolves, Instances, Tracked, IsDeleted, InMap, Gone

\* Pruning drops only what has nothing to write.
LEMMA PruneEvolves ==
  ASSUME NEW d \in Instances
  PROVE  Evolves(d, Prune(d)) /\ PendingOperation(Prune(d)) = PendingOperation(d)
<1> DEFINE c == [d EXCEPT !.maybe = FALSE]
<1>1. /\ c \in Instances
      /\ c.new = d.new /\ c.deleted = d.deleted /\ c.flushed = d.flushed
      /\ c.touched = d.touched /\ c.orig = d.orig /\ c.origStamp = d.origStamp
  BY DEF Instances
<1>2. PendingOperation(c) = PendingOperation(d)
  BY <1>1, Zenon DEF PendingOperation, InMap, IsDeleted, IsDirty
<1>3. CASE PendingOperation(d) = "none"
  <2>1. Prune(d) = c
    BY <1>3 DEF Prune
  <2> HIDE DEF c
  <2> QED
    BY <1>1, <1>2, <1>3, <2>1 DEF Evolves, Tracked, IsDeleted, InMap, Gone
<1>4. CASE PendingOperation(d) # "none"
  BY <1>4 DEF Prune, Evolves
<1> QED
  BY <1>3, <1>4

\* A new round keeps deletions deleted.
LEMMA ResetForRqfLoopEvolves ==
  ASSUME NEW d \in Instances
  PROVE  /\ ResetForRqfLoop(d) \in Instances
         /\ InMap(d) => InMap(ResetForRqfLoop(d))
         /\ Gone(d) => Gone(ResetForRqfLoop(d))
BY DEF ResetForRqfLoop, Instances, IsDeleted, InMap, Gone

\* After a flush there is nothing left to write.
LEMMA ResetAfterFlushedEvolves ==
  ASSUME NEW d \in Instances
  PROVE  Evolves(d, ResetAfterFlushed(d)) /\ Tracked(ResetAfterFlushed(d))
BY DEF ResetAfterFlushed, Evolves, Instances, IsDeleted, IsNew, Tracked, PendingOperation, InMap, IsDirty, Gone

\* An entity created and deleted again has nothing to write.
LEMMA FixupEvolves ==
  ASSUME NEW d \in Instances
  PROVE  Evolves(d, FixupCreatedThenDeleted(d))
BY DEF FixupCreatedThenDeleted, Evolves, Instances, IsDeleted, Tracked, PendingOperation, InMap, Gone

----------------------------------------------------------------------------
(* Editing the manager. *)

\* What editing the manager does: instances evolve, and a reactive query is
\* queued only if there is one.
Grows(m, r) ==
  /\ r \in Managers
  /\ \A e \in Entity : Evolves(m.inst[e], r.inst[e])
  /\ "query" \in r.needs => "query" \in m.needs \/ QuerySources # {}

\* A manager that differs in what is queued only.
LEMMA GrowsSelf ==
  ASSUME NEW m \in Managers, NEW r \in Managers, r.inst = m.inst,
         "query" \in r.needs => "query" \in m.needs \/ QuerySources # {}
  PROVE  Grows(m, r)
BY DEF Grows, Evolves, Managers

\* Edits follow one another.
LEMMA GrowsTransitive ==
  ASSUME NEW m \in Managers, NEW n, NEW r, Grows(m, n), Grows(n, r)
  PROVE  Grows(m, r)
BY DEF Grows, Evolves

\* Queueing reactables leaves the instances alone.
LEMMA NotifiedGrows ==
  ASSUME NEW m \in Managers, NEW S
  PROVE  Grows(m, Notified(m, S)) /\ Notified(m, S).inst = m.inst
<1>1. /\ Notified(m, S) \in Managers
      /\ Notified(m, S).inst = m.inst
      /\ "query" \in Notified(m, S).needs => "query" \in m.needs \/ QuerySources # {}
  BY DEF Notified, Managers
<1> QED
  BY <1>1, GrowsSelf

\* Changing the instances of some entities, one by one.
LEMMA InstancesGrow ==
  ASSUME NEW m \in Managers, NEW f \in [Entity -> Instances],
         \A e \in Entity : Evolves(m.inst[e], f[e])
  PROVE  Grows(m, [m EXCEPT !.inst = f])
BY DEF Grows, Managers

\* setField and em.create.
LEMMA EditedGrows ==
  ASSUME NEW m \in Managers, clock \in Nat, NEW S \in SUBSET Entity, NEW r \in Edited(m, S)
  PROVE  Grows(m, r)
<1>1. ASSUME NEW e \in S, NEW v \in Val, CanSet(m.inst[e]), r = Set(m, e, v) PROVE Grows(m, r)
  <2> DEFINE f == [x \in Entity |-> IF x \in {e} THEN SetField(m.inst[x], v) ELSE m.inst[x]]
  <2>1. \A x \in Entity : f[x] \in Instances /\ Evolves(m.inst[x], f[x])
    BY SetFieldEvolves DEF Managers, Evolves
  <2>2. f \in [Entity -> Instances]
    BY <2>1
  <2>3. Grows(m, [m EXCEPT !.inst = f])
    BY <2>1, <2>2, InstancesGrow
  <2>4. r = Notified([m EXCEPT !.inst = f], {e})
    BY <1>1 DEF Set, Update
  <2> QED
    BY <2>3, <2>4, NotifiedGrows, GrowsTransitive DEF Grows
<1>2. ASSUME NEW e \in S, NEW v \in Val, ~InMap(m.inst[e]), r = Create(m, e, v) PROVE Grows(m, r)
  <2> DEFINE f == [x \in Entity |-> IF x \in {e} THEN Created(v, clock) ELSE m.inst[x]]
  <2>1. \A x \in Entity : f[x] \in Instances /\ Evolves(m.inst[x], f[x])
    BY <1>2, CreatedInstance DEF Managers, Evolves, Gone
  <2>2. f \in [Entity -> Instances]
    BY <2>1
  <2>3. Grows(m, [m EXCEPT !.inst = f])
    BY <2>1, <2>2, InstancesGrow
  <2>4. r = Notified([m EXCEPT !.inst = f], {e})
    BY <1>2 DEF Create, Update
  <2> QED
    BY <2>3, <2>4, NotifiedGrows, GrowsTransitive DEF Grows
<1> QED
  BY <1>1, <1>2 DEF Edited

\* em.touch.
LEMMA TouchedGrows ==
  ASSUME NEW m \in Managers, NEW S \in SUBSET Entity, NEW r \in Touched(m, S)
  PROVE  Grows(m, r)
<1>1. PICK e \in S : r = Touch(m, e)
  BY DEF Touched
<1> DEFINE f == [x \in Entity |-> IF x \in {e} THEN MarkTouched(m.inst[x]) ELSE m.inst[x]]
<1>2. \A x \in Entity : f[x] \in Instances /\ Evolves(m.inst[x], f[x])
  BY MarkTouchedEvolves DEF Managers, Evolves
<1>3. f \in [Entity -> Instances]
  BY <1>2
<1> QED
  BY <1>1, <1>2, <1>3, InstancesGrow DEF Touch, Update

\* em.delete: the entities marked are the ones that changed.
LEMMA DeleteAllGrows ==
  ASSUME NEW m \in Managers, NEW S \in SUBSET Entity
  PROVE  /\ Grows(m, DeleteAll(m, S))
         /\ \A e \in Entity : \/ DeleteAll(m, S).inst[e] = m.inst[e]
                              \/ Gone(DeleteAll(m, S).inst[e])
<1> DEFINE D == {e \in S : InMap(m.inst[e]) /\ ~IsDeleted(m.inst[e])}
           f == [x \in Entity |-> IF x \in D THEN MarkDeleted(m.inst[x]) ELSE m.inst[x]]
           n == [m EXCEPT !.inst = f]
           marked == [n EXCEPT !.pendingDeletes = @ \cup D]
<1>1. \A x \in Entity : f[x] \in Instances /\ Evolves(m.inst[x], f[x])
  BY MarkDeletedEvolves DEF Managers, Evolves
<1>2. f \in [Entity -> Instances]
  BY <1>1
<1>3. \A x \in Entity : f[x] = m.inst[x] \/ Gone(f[x])
  BY <1>1, MarkDeletedEvolves DEF Gone, Evolves, Managers
<1>4. Grows(m, n) /\ n.inst = f /\ n \in Managers
  BY <1>1, <1>2, InstancesGrow DEF Managers, Grows
<1>5. marked \in Managers /\ marked.inst = n.inst /\ marked.needs = n.needs
  <2>1. D \subseteq Entity
    OBVIOUS
  <2> HIDE DEF D, n
  <2> QED
    BY <1>4, <2>1 DEF Managers
<1>6. Grows(m, marked)
  <2> HIDE DEF marked, n
  <2> QED
    BY <1>4, <1>5, GrowsSelf, GrowsTransitive
<1>7. DeleteAll(m, S) = Notified(marked, D)
  BY DEF DeleteAll, Update
<1> HIDE DEF marked, n, f, D
<1>8. Grows(m, DeleteAll(m, S)) /\ DeleteAll(m, S).inst = f
  BY <1>4, <1>5, <1>6, <1>7, NotifiedGrows, GrowsTransitive
<1> QED
  BY <1>3, <1>8

\* em.delete, with or without the children of a loaded collection.
LEMMA DeletedGrows ==
  ASSUME NEW m \in Managers, NEW S \in SUBSET Entity, NEW r \in Deleted(m, S)
  PROVE  /\ Grows(m, r)
         /\ \A e \in Entity : r.inst[e] = m.inst[e] \/ Gone(r.inst[e])
<1>1. PICK e \in S : r = DeleteAll(m, {e}) \/ r = DeleteAll(m, {e} \cup Cascade[e])
  BY DEF Deleted
<1>2. {e} \in SUBSET Entity /\ {e} \cup Cascade[e] \in SUBSET Entity
  BY EntityFlushAssumption
<1> QED
  BY <1>1, <1>2, DeleteAllGrows

\* Whatever a hook does.
LEMMA HookGrows ==
  ASSUME NEW m \in Managers, clock \in Nat, NEW r \in HookResults(m)
  PROVE  Grows(m, r)
<1>1. HookEdits \in SUBSET Entity /\ HookDeletes \in SUBSET Entity
  BY EntityFlushAssumption
<1> QED
  BY <1>1, EditedGrows, DeletedGrows, GrowsSelf DEF HookResults

\* Whatever a reactive field or a reaction does.
LEMMA RecalculatedGrows ==
  ASSUME NEW m \in Managers, clock \in Nat, NEW r \in Recalculated(m)
  PROVE  Grows(m, r)
<1> DEFINE n == [m EXCEPT !.needs = @ \ {"reactables"}]
<1>1. n \in Managers /\ n.inst = m.inst /\ ("query" \in n.needs => "query" \in m.needs)
  BY DEF Managers
<1>2. Alive(n, Derived) \in SUBSET Entity /\ ReactionDeletes \in SUBSET Entity
  BY EntityFlushAssumption DEF Alive
<1>3. r = n \/ r \in Edited(n, Alive(n, Derived)) \/ r \in Deleted(n, ReactionDeletes)
  BY DEF Recalculated
<1> HIDE DEF n
<1>4. Grows(m, n)
  BY <1>1, GrowsSelf
<1> QED
  BY <1>1, <1>2, <1>3, <1>4, EditedGrows, DeletedGrows, GrowsTransitive

\* Whatever a reactive query does.
LEMMA RequeriedGrows ==
  ASSUME NEW m \in Managers, clock \in Nat, NEW r \in Requeried(m)
  PROVE  Grows(m, r)
<1> DEFINE n == [m EXCEPT !.needs = @ \ {"query"}]
<1>1. n \in Managers /\ n.inst = m.inst /\ ("query" \in n.needs => "query" \in m.needs)
  BY DEF Managers
<1>2. Alive(n, QueryTargets) \in SUBSET Entity
  BY EntityFlushAssumption DEF Alive
<1>3. r = n \/ r \in Edited(n, Alive(n, QueryTargets))
  BY DEF Requeried
<1> HIDE DEF n
<1>4. Grows(m, n)
  BY <1>1, GrowsSelf
<1> QED
  BY <1>1, <1>2, <1>3, <1>4, EditedGrows, GrowsTransitive

\* Pruning the candidates changes no pending operation.
LEMMA PrunedGrows ==
  ASSUME NEW m \in Managers
  PROVE  /\ Grows(m, Pruned(m))
         /\ \A e \in Entity : Op(Pruned(m), e) = Op(m, e)
<1> DEFINE f == [x \in Entity |-> IF x \in Entity THEN Prune(m.inst[x]) ELSE m.inst[x]]
<1>1. \A x \in Entity : /\ f[x] \in Instances /\ Evolves(m.inst[x], f[x])
                        /\ PendingOperation(f[x]) = PendingOperation(m.inst[x])
  BY PruneEvolves DEF Managers, Evolves
<1>2. f \in [Entity -> Instances]
  BY <1>1
<1>3. Pruned(m) = [m EXCEPT !.inst = f] /\ [m EXCEPT !.inst = f].inst = f
  BY DEF Pruned, Update, Managers
<1> HIDE DEF f
<1> QED
  BY <1>1, <1>2, <1>3, InstancesGrow DEF Op

\* The bump of updated_at.
LEMMA BumpedGrows ==
  ASSUME NEW m \in Managers, now \in Nat, NEW S
  PROVE  Grows(m, Bumped(m, S))
<1> DEFINE U == CreateTodos(m, S).updates
           f == [x \in Entity |-> IF x \in U THEN BumpUpdatedAt(m.inst[x], now) ELSE m.inst[x]]
<1>1. \A x \in Entity : f[x] \in Instances /\ Evolves(m.inst[x], f[x])
  BY BumpUpdatedAtEvolves DEF Managers, Evolves
<1>2. f \in [Entity -> Instances]
  BY <1>1
<1>3. Bumped(m, S) = [m EXCEPT !.inst = f]
  BY DEF Bumped, Update
<1> HIDE DEF f
<1> QED
  BY <1>1, <1>2, <1>3, InstancesGrow

\* The fixup of entities created and deleted again.
LEMMA FixupGrows ==
  ASSUME NEW m \in Managers
  PROVE  Grows(m, Fixup(m))
<1> DEFINE f == [x \in Entity |-> IF x \in createdThenDeleted THEN FixupCreatedThenDeleted(m.inst[x])
                                ELSE m.inst[x]]
<1>1. \A x \in Entity : f[x] \in Instances /\ Evolves(m.inst[x], f[x])
  BY FixupEvolves DEF Managers, Evolves
<1>2. f \in [Entity -> Instances]
  BY <1>1
<1>3. Fixup(m) = [m EXCEPT !.inst = f]
  BY DEF Fixup, Update
<1> HIDE DEF f
<1> QED
  BY <1>1, <1>2, <1>3, InstancesGrow

\* The reset at the end of a flush.
LEMMA ResetGrows ==
  ASSUME NEW m \in Managers, NEW S
  PROVE  Grows(m, Update(m, S, ResetAfterFlushed))
<1> DEFINE f == [x \in Entity |-> IF x \in S THEN ResetAfterFlushed(m.inst[x]) ELSE m.inst[x]]
<1>1. \A x \in Entity : f[x] \in Instances /\ Evolves(m.inst[x], f[x])
  BY ResetAfterFlushedEvolves DEF Managers, Evolves
<1>2. f \in [Entity -> Instances]
  BY <1>1
<1>3. Update(m, S, ResetAfterFlushed) = [m EXCEPT !.inst = f]
  BY DEF Update
<1> HIDE DEF f
<1> QED
  BY <1>1, <1>2, <1>3, InstancesGrow

\* The reset between the rounds of a flush: nothing deleted comes back.
LEMMA RoundReset ==
  ASSUME NEW m \in Managers, NEW S
  PROVE  LET r == Update(m, S, ResetForRqfLoop)
         IN /\ r \in Managers
            /\ \A e \in Entity : /\ InMap(m.inst[e]) => InMap(r.inst[e])
                                 /\ Gone(m.inst[e]) => Gone(r.inst[e])
<1> DEFINE f == [x \in Entity |-> IF x \in S THEN ResetForRqfLoop(m.inst[x]) ELSE m.inst[x]]
<1>1. \A x \in Entity : f[x] \in Instances
  BY ResetForRqfLoopEvolves DEF Managers
<1>2. f \in [Entity -> Instances]
  BY <1>1
<1>3. Update(m, S, ResetForRqfLoop) = [m EXCEPT !.inst = f]
  BY DEF Update
<1> HIDE DEF f
<1>4. [m EXCEPT !.inst = f].inst = f /\ [m EXCEPT !.inst = f] \in Managers
  BY <1>2 DEF Managers
<1>5. \A x \in Entity : (InMap(m.inst[x]) => InMap(f[x])) /\ (Gone(m.inst[x]) => Gone(f[x]))
  BY ResetForRqfLoopEvolves DEF Managers, f
<1> DEFINE r == [m EXCEPT !.inst = f]
<1>6. r \in Managers /\ \A x \in Entity : (InMap(m.inst[x]) => InMap(r.inst[x])) /\ (Gone(m.inst[x]) => Gone(r.inst[x]))
  BY <1>4, <1>5
<1> HIDE DEF r
<1>7. Update(m, S, ResetForRqfLoop) = r
  BY <1>3 DEF r
<1> QED
  BY <1>6, <1>7

----------------------------------------------------------------------------
\* Every step of the manager grows its unit of work, except the reset between
\* two rounds.
LEMMA ManagerStep ==
  ASSUME TypeOK, [Next]_vars
  PROVE  /\ StartQueries \/ Grows(em, em')
         /\ em' \in Managers
         /\ \A e \in Entity : /\ InMap(em.inst[e]) => InMap(em'.inst[e])
                              /\ Gone(em.inst[e]) => Gone(em'.inst[e])
<1>1. em \in Managers /\ clock \in Nat /\ now \in Nat
  BY DEF TypeOK
<1>2. {AppEdits, AppDeletes} \subseteq SUBSET Entity
  BY EntityFlushAssumption
<1>3. UNCHANGED em => Grows(em, em')
  BY <1>1, GrowsSelf
<1>4. AppEdit \/ AppDeleteDuringFlush => Grows(em, em')
  BY <1>1, <1>2, EditedGrows, TouchedGrows, DeletedGrows DEF AppEdit, AppDeleteDuringFlush
<1>5. TakeDeletes => Grows(em, em')
  <2> SUFFICES ASSUME TakeDeletes PROVE Grows(em, em')
    OBVIOUS
  <2>1. em' \in Managers /\ em'.inst = em.inst /\ em'.needs = em.needs
    BY <1>1 DEF TakeDeletes, Managers
  <2> QED
    BY <1>1, <2>1, GrowsSelf
<1>6. CascadeBatch => Grows(em, em')
  <2> SUFFICES ASSUME CascadeBatch PROVE Grows(em, em')
    OBVIOUS
  <2> DEFINE m == DeleteAll(em, UNION {Cascade[e] : e \in deleting})
  <2>1. PICK r \in {m} \cup HookResults(m) : em' = [r EXCEPT !.pendingDeletes = {}]
    BY DEF CascadeBatch, HookResults
  <2>2. UNION {Cascade[e] : e \in deleting} \in SUBSET Entity
    BY EntityFlushAssumption DEF TypeOK
  <2>3. Grows(em, m)
    BY <1>1, <2>2, DeleteAllGrows
  <2> HIDE DEF m
  <2>4. Grows(em, r) /\ r \in Managers
    BY <1>1, <2>1, <2>3, HookGrows, GrowsTransitive DEF Grows
  <2>5. em' \in Managers /\ em'.inst = r.inst /\ em'.needs = r.needs
    BY <2>1, <2>4 DEF Managers
  <2>6. Grows(r, em')
    BY <2>4, <2>5, GrowsSelf
  <2> QED
    BY <1>1, <2>4, <2>6, GrowsTransitive
<1>7. RecalcReactables \/ RecalcQueries \/ RecalcLoopsForever => Grows(em, em')
  BY <1>1, RecalculatedGrows, RequeriedGrows DEF RecalcReactables, RecalcQueries, RecalcLoopsForever
<1>8. StartPass => Grows(em, em')
  <2> SUFFICES ASSUME StartPass PROVE Grows(em, em')
    OBVIOUS
  <2>1. Grows(em, Pruned(em)) /\ Pruned(em) \in Managers
    BY <1>1, PrunedGrows DEF Grows
  <2>2. em' = Bumped(Pruned(em), Candidates(em) \cap hooksInvoked)
    BY DEF StartPass
  <2> QED
    BY <1>1, <2>1, <2>2, BumpedGrows, GrowsTransitive
<1>9. OpenHooks => Grows(em, em')
  BY <1>1, BumpedGrows DEF OpenHooks
<1>10. (\E e \in Entity : RunHook(e)) => Grows(em, em')
  BY <1>1, <1>3, HookGrows DEF RunHook
<1>11. EndHooks => Grows(em, em')
  BY <1>1, PrunedGrows DEF EndHooks
<1>12. NothingFlushed => Grows(em, em')
  BY <1>1, FixupGrows DEF NothingFlushed
<1>13. Reset => Grows(em, em')
  <2>1. Grows(em, Update(em, ToReset, ResetAfterFlushed))
    BY <1>1, ResetGrows
  <2> QED
    BY <1>1, <2>1, FixupGrows, GrowsTransitive DEF Reset, Grows
<1>14. StartQueries \/ Grows(em, em')
  <2>1. StartFlush \/ DeletesDrained \/ OpenSettled \/ TooManyPasses \/ HooksDone \/ SettleAgain
          \/ EndPass \/ Validated \/ Write \/ WriteFails \/ QueriesSettled \/ NextPass \/ LastPass
          \/ Commit \/ RollbackDryRun \/ Fail \/ UNCHANGED vars => UNCHANGED em
    BY DEF StartFlush, DeletesDrained, OpenSettled, TooManyPasses, HooksDone, SettleAgain, EndPass,
           Validated, Write, WriteFails, QueriesSettled, NextPass, LastPass, Commit, RollbackDryRun,
           Fail, vars
  <2> QED
    BY <1>3, <1>4, <1>5, <1>6, <1>7, <1>8, <1>9, <1>10, <1>11, <1>12, <1>13, <2>1 DEF Next, FlushStep
<1>15. CASE StartQueries
  BY <1>1, <1>15, RoundReset DEF StartQueries
<1>16. CASE Grows(em, em')
  BY <1>16 DEF Grows, Evolves
<1> QED
  BY <1>14, <1>15, <1>16

----------------------------------------------------------------------------
\* Every variable has its type at first.
LEMMA InitType == Init => TypeOK
<1> SUFFICES ASSUME Init PROVE TypeOK
  OBVIOUS
<1>1. em.inst \in [Entity -> Instances] /\ em \in Managers
  <2> DEFINE f == [e \in Entity |-> IF e \in Loaded THEN Hydrated(InitialValue, 0) ELSE Unborn(InitialValue)]
  <2>1. InitialValue \in Val
    BY EntityFlushAssumption
  <2>2. \A e \in Entity : f[e] \in Instances
    BY <2>1, HydratedInstance, UnbornInstance
  <2>3. f \in [Entity -> Instances]
    BY <2>2
  <2> HIDE DEF f
  <2>4. em = [inst |-> f, pendingDeletes |-> {}, needs |-> {}]
    BY DEF Init, f
  <2> QED
    BY <2>3, <2>4 DEF Managers
<1>2. db \in [Entity -> Rows] /\ tx \in [Entity -> Rows] /\ inTx \in BOOLEAN
  BY EntityFlushAssumption DEF Init, Rows
<1> QED
  BY <1>1, <1>2 DEF Init, TypeOK, PC, Todos, NoTodo

\* When #flush returns or throws, its locals go.
LEMMA EndOfFlushType ==
  ASSUME TypeOK, em' \in Managers, db' \in [Entity -> Rows], EndOfFlush
  PROVE  TypeOK'
<1>1. tx' \in [Entity -> Rows] /\ inTx' \in BOOLEAN /\ pc' \in PC
  BY DEF EndOfFlush, PC
<1>2. cascaded' \subseteq Entity /\ {clock', edits', flushes'} \subseteq Nat
  BY DEF EndOfFlush, TypeOK, boundVars
<1>3. todo' \in Todos
  BY DEF EndOfFlush, Todos, NoTodo
<1> QED
  BY <1>1, <1>2, <1>3 DEF TypeOK, EndOfFlush

\* Todos are sets of entities.
LEMMA CreateTodosType ==
  ASSUME NEW m, NEW S \in SUBSET Entity
  PROVE  CreateTodos(m, S) \in Todos
BY DEF CreateTodos, Todos

\* Every action keeps the types.
LEMMA TypeStep == TypeOK /\ [Next]_vars => TypeOK'
<1> SUFFICES ASSUME TypeOK, [Next]_vars PROVE TypeOK'
  OBVIOUS
<1>1. em' \in Managers
  BY ManagerStep
<1> USE <1>1 DEF TypeOK, dbVars, hookVars, writeVars, deleteVars, timeVars, boundVars, loopVars, PC
<1>2. CASE AppEdit
  BY <1>2 DEF AppEdit
<1>3. CASE AppDeleteDuringFlush
  BY <1>3 DEF AppDeleteDuringFlush
<1>4. CASE StartFlush
  BY <1>4 DEF StartFlush
<1>5. CASE TakeDeletes
  BY <1>5 DEF TakeDeletes, Managers
<1>6. CASE CascadeBatch
  <2>1. deleting' \in SUBSET Entity
    <3> DEFINE m == DeleteAll(em, UNION {Cascade[e] : e \in deleting})
    <3>1. PICK r \in {m} \cup HookResults(m) : deleting' = NextBatch(r)
      BY <1>6 DEF CascadeBatch, HookResults
    <3>2. UNION {Cascade[e] : e \in deleting} \in SUBSET Entity
      BY EntityFlushAssumption
    <3>3. m \in Managers
      BY <3>2, DeleteAllGrows DEF Grows
    <3> HIDE DEF m
    <3>4. r \in Managers
      BY <3>1, <3>3, HookGrows DEF Grows
    <3> QED
      BY <3>1, <3>4 DEF NextBatch, Managers
  <2> QED
    BY <1>6, <2>1 DEF CascadeBatch
<1>7. CASE DeletesDrained
  BY <1>7 DEF DeletesDrained
<1>8. CASE RecalcReactables
  BY <1>8 DEF RecalcReactables, CountRecalc
<1>9. CASE RecalcQueries
  BY <1>9 DEF RecalcQueries, CountRecalc
<1>10. CASE RecalcLoopsForever
  BY <1>10, EndOfFlushType DEF RecalcLoopsForever
<1>11. CASE OpenSettled
  BY <1>11 DEF OpenSettled, NewNow
<1>12. CASE StartPass
  BY <1>12 DEF StartPass, Candidates
<1>13. CASE TooManyPasses
  BY <1>13, EndOfFlushType DEF TooManyPasses
<1>14. CASE OpenHooks
  BY <1>14 DEF OpenHooks, CreateTodos
<1>15. ASSUME NEW e \in Entity, RunHook(e) PROVE TypeOK'
  BY <1>15 DEF RunHook
<1>16. CASE HooksDone
  BY <1>16 DEF HooksDone
<1>17. CASE SettleAgain
  BY <1>17 DEF SettleAgain
<1>18. CASE EndHooks
  BY <1>18 DEF EndHooks, NewlyPending, Candidates
<1>19. CASE EndPass
  <2>1. CreatedThenDeleted(em, pendingFlush) \subseteq Entity
    BY DEF CreatedThenDeleted
  <2>2. toFlush' \subseteq Entity /\ createdThenDeleted' \subseteq Entity /\ allFlushed' \subseteq Entity
    BY <1>19, <2>1 DEF EndPass
  <2>3. todo' \in Todos
    BY <1>19, <2>2, CreateTodosType DEF EndPass
  <2> QED
    BY <1>19, <2>2, <2>3 DEF EndPass
<1>20. CASE Validated
  BY <1>20 DEF Validated
<1>21. CASE NothingFlushed
  BY <1>21, EndOfFlushType DEF NothingFlushed
<1>22. CASE Write
  <2>1. \A e \in Entity : Row(em.inst[e], tx[e]) \in Rows
    BY DEF Row, Rows, Managers, Instances
  <2>2. tx' \in [Entity -> Rows]
    BY <1>22, <2>1 DEF Write, Rows
  <2> QED
    BY <1>22, <2>2 DEF Write
<1>23. CASE WriteFails
  BY <1>23, EndOfFlushType DEF WriteFails
<1>24. CASE StartQueries
  BY <1>24 DEF StartQueries
<1>25. CASE QueriesSettled
  BY <1>25 DEF QueriesSettled
<1>26. CASE NextPass
  BY <1>26 DEF NextPass, AdvanceNow, NewNow
<1>27. CASE LastPass
  BY <1>27 DEF LastPass
<1>28. CASE Commit
  BY <1>28 DEF Commit
<1>29. CASE RollbackDryRun
  BY <1>29, EndOfFlushType DEF RollbackDryRun
<1>30. CASE Reset
  BY <1>30, EndOfFlushType DEF Reset
<1>31. CASE Fail
  BY <1>31, EndOfFlushType DEF Fail
<1>32. CASE UNCHANGED vars
  BY <1>32 DEF vars
<1> QED
  BY <1>2, <1>3, <1>4, <1>5, <1>6, <1>7, <1>8, <1>9, <1>10, <1>11, <1>12, <1>13, <1>14, <1>15, <1>16,
     <1>17, <1>18, <1>19, <1>20, <1>21, <1>22, <1>23, <1>24, <1>25, <1>26, <1>27, <1>28, <1>29, <1>30,
     <1>31, <1>32 DEF Next, FlushStep

\* The manager's state keeps its types, whatever hooks, reactions and failures do.
THEOREM TypeCorrect == Spec => []TypeOK
BY InitType, TypeStep, PTL DEF Spec

----------------------------------------------------------------------------
\* No round is ever opened, and what is to be written can be found.
AllTracked == "query" \notin em.needs /\ \A e \in Entity : Tracked(em.inst[e])

\* At first everything is as it was loaded.
LEMMA TrackedInit == Init => AllTracked
<1> SUFFICES ASSUME Init PROVE AllTracked
  OBVIOUS
<1>1. InitialValue \in Val
  BY EntityFlushAssumption
<1>2. \A e \in Entity : em.inst[e] = IF e \in Loaded THEN Hydrated(InitialValue, 0) ELSE Unborn(InitialValue)
  BY DEF Init
<1>3. \A e \in Entity : Tracked(em.inst[e])
  BY <1>1, <1>2, HydratedInstance, UnbornInstance
<1> QED
  BY <1>3 DEF AllTracked, Init

\* Without reactive queries every action keeps what is pending in sight.
LEMMA TrackedStep ==
  ASSUME QuerySources = {}
  PROVE  TypeOK /\ AllTracked /\ [Next]_vars => AllTracked'
<1> SUFFICES ASSUME TypeOK, AllTracked, [Next]_vars PROVE AllTracked'
  OBVIOUS
<1>1. ~StartQueries
  BY DEF AllTracked, StartQueries
<1>2. Grows(em, em')
  BY <1>1, ManagerStep
<1> QED
  BY <1>2 DEF AllTracked, Grows, Evolves

\* Without reactive queries, findPendingFlushEntities never misses a change: not
\* after any sequence of edits, hooks, failed flushes and retries.  (With them it
\* does: see section 4 of the README.)
THEOREM NoChangeForgotten ==
  ASSUME QuerySources = {}
  PROVE  Spec => []NoForgottenChange
<1>1. AllTracked => NoForgottenChange
  BY DEF AllTracked, NoForgottenChange, Tracked, Op
<1>2. Spec => []TypeOK
  BY TypeCorrect
<1>3. TypeOK /\ AllTracked /\ [Next]_vars => AllTracked'
  BY TrackedStep
<1> QED
  BY <1>1, <1>2, <1>3, TrackedInit, PTL DEF Spec

----------------------------------------------------------------------------
\* Where a pass of runHooksOnPendingEntities stands.
InPass == pc \in {"loop", "hooks", "settleDeletes", "settleRecalc"}
InHooks == pc \in {"hooks", "settleDeletes", "settleRecalc"}

\* The entity's hooks ran, or there were none to run for it.
Handled(e) == e \in hooked \/ Gone(em.inst[e])

\* The inductive invariant of the hook loop: the entities whose hooks are to run,
\* run now and have run are apart, and an entity that is to be flushed and still
\* exists is one of them.
QueueOfPending == hookQueue \subseteq pendingHooks /\ pendingHooks \cap hooksInvoked = {}
QueueInHooks == (pc # "hooks" => hookQueue = {}) /\ (~InPass => pendingHooks = {})
HookedOnce == hooked \subseteq hooksInvoked \cup (IF InHooks THEN pendingHooks \ hookQueue ELSE {})
QueueInMap == \A e \in hookQueue : InMap(em.inst[e])
InvokedHandled == \A e \in hooksInvoked : Handled(e)
PendingHandled == InHooks => \A e \in pendingHooks \ hookQueue : Handled(e)
PendingHasWork == pc = "loop" => \A e \in pendingHooks : Op(em, e) # "none" \/ Gone(em.inst[e])
FlushKnown == InPass => pendingFlush \subseteq hooksInvoked \cup pendingHooks
TodoHooked == pc \in {"validate", "write"} => todo.inserts \cup todo.updates \subseteq hooked

HookInv ==
  /\ QueueOfPending /\ QueueInHooks /\ HookedOnce /\ QueueInMap /\ InvokedHandled
  /\ PendingHandled /\ PendingHasWork /\ FlushKnown /\ TodoHooked

\* No entity has run a hook at first.
LEMMA HookInit == Init => HookInv
BY DEF Init, HookInv, QueueOfPending, QueueInHooks, HookedOnce, QueueInMap, InvokedHandled, PendingHandled,
       PendingHasWork, FlushKnown, TodoHooked, InPass, InHooks

\* What has an operation is in the identity map, and what is deleted has none but that.
LEMMA Operations ==
  ASSUME NEW m \in Managers, NEW S \in SUBSET Entity
  PROVE  /\ \A e \in Entity : Op(m, e) # "none" => InMap(m.inst[e])
         /\ \A e \in S : \/ Op(m, e) = "none" \/ Gone(m.inst[e])
                         \/ e \in CreateTodos(m, S).inserts \cup CreateTodos(m, S).updates
         /\ \A e \in CreateTodos(m, S).inserts \cup CreateTodos(m, S).updates :
              e \in S /\ InMap(m.inst[e]) /\ ~Gone(m.inst[e])
<1>1. ASSUME NEW e \in Entity
      PROVE  /\ Op(m, e) # "none" => InMap(m.inst[e])
             /\ Op(m, e) \in {"none", "insert", "update"} \/ Gone(m.inst[e])
             /\ Op(m, e) \in {"insert", "update"} => InMap(m.inst[e]) /\ ~Gone(m.inst[e])
  <2>1. m.inst[e] \in Instances
    BY DEF Managers
  <2> QED
    BY <2>1 DEF Op, PendingOperation, Instances, InMap, IsDeleted, Gone
<1> QED
  BY <1>1 DEF CreateTodos

\* The locals of the hook loop are gone at the end of a flush.
LEMMA EndOfFlushHooks == EndOfFlush => HookInv'
BY DEF EndOfFlush, HookInv, QueueOfPending, QueueInHooks, HookedOnce, QueueInMap, InvokedHandled,
       PendingHandled, PendingHasWork, FlushKnown, TodoHooked, InPass, InHooks

\* Steps that leave the locals of the hook loop alone: deletes may go on meanwhile.
LEMMA OtherSteps ==
  ASSUME TypeOK, [Next]_vars, HookInv, UNCHANGED <<hookVars, todo>>,
         InPass' <=> InPass, InHooks' <=> InHooks,
         pc = "hooks" => hookQueue = {} \/ pc' = "hooks",
         pc' = "hooks" => pc = "hooks",
         pc' = "loop" => /\ pc = "loop"
                         /\ \A e \in Entity : em'.inst[e] = em.inst[e] \/ Gone(em'.inst[e]),
         pc' \in {"validate", "write"} => pc \in {"validate", "write"}
  PROVE  HookInv'
<1>1. /\ hookQueue' = hookQueue /\ pendingHooks' = pendingHooks /\ pendingFlush' = pendingFlush
      /\ hooksInvoked' = hooksInvoked /\ hooked' = hooked /\ todo' = todo
  BY DEF hookVars
<1>2. /\ hookQueue \subseteq Entity /\ pendingHooks \subseteq Entity /\ hooksInvoked \subseteq Entity
  BY DEF TypeOK
<1>3. \A e \in Entity : /\ InMap(em.inst[e]) => InMap(em'.inst[e])
                        /\ Gone(em.inst[e]) => Gone(em'.inst[e])
  BY ManagerStep
<1>4. \A e \in Entity : Handled(e) => Handled(e)'
  <2>1. \A e \in Entity : Handled(e) => e \in hooked' \/ Gone(em'.inst[e])
    BY <1>1, <1>3 DEF Handled
  <2> QED
    BY <2>1 DEF Handled
<1>5. QueueOfPending' /\ QueueInHooks'
  BY <1>1 DEF HookInv, QueueOfPending, QueueInHooks
<1>6. HookedOnce' /\ FlushKnown' /\ TodoHooked'
  BY <1>1 DEF HookInv, HookedOnce, FlushKnown, TodoHooked
<1>7. QueueInMap'
  <2>1. \A e \in hookQueue : InMap(em.inst[e])
    BY DEF HookInv, QueueInMap
  <2>2. \A e \in hookQueue' : InMap(em'.inst[e])
    BY <1>1, <1>2, <1>3, <2>1
  <2> QED
    BY <2>2 DEF QueueInMap
<1>8. InvokedHandled'
  BY <1>1, <1>2, <1>4 DEF HookInv, InvokedHandled
<1>9. PendingHandled'
  BY <1>1, <1>2, <1>4 DEF HookInv, PendingHandled
<1>10. PendingHasWork'
  BY <1>1, <1>2, <1>3 DEF HookInv, PendingHasWork, Op
<1> QED
  BY <1>5, <1>6, <1>7, <1>8, <1>9, <1>10 DEF HookInv

\* A new run of the loop: the candidates whose hooks have not run.
LEMMA StartPassHooks == TypeOK /\ HookInv /\ [Next]_vars /\ StartPass => HookInv'
<1> SUFFICES ASSUME TypeOK, HookInv, [Next]_vars, StartPass PROVE HookInv'
  OBVIOUS
<1> DEFINE C == Candidates(em)
<1>1. /\ pendingFlush' = C /\ pendingHooks' = C \ hooksInvoked /\ pc = "pass" /\ pc' = "loop"
      /\ hookQueue' = hookQueue /\ hooksInvoked' = hooksInvoked /\ hooked' = hooked
  BY DEF StartPass
<1>2. hookQueue = {} /\ hooked \subseteq hooksInvoked
  BY <1>1 DEF HookInv, QueueInHooks, HookedOnce, InHooks
<1>3. \A e \in hooksInvoked : Handled(e)'
  <2>1. \A e \in hooksInvoked : e \in Entity /\ (e \in hooked \/ Gone(em.inst[e]))
    BY DEF HookInv, InvokedHandled, Handled, TypeOK
  <2>2. \A e \in hooksInvoked : e \in hooked' \/ Gone(em'.inst[e])
    BY <1>1, <2>1, ManagerStep
  <2> QED
    BY <2>2 DEF Handled
<1>4. \A e \in C \ hooksInvoked : Op(em', e) # "none"
  <2> DEFINE P == Pruned(em)
             U == CreateTodos(P, C \cap hooksInvoked).updates
  <2>1. P \in Managers /\ \A e \in Entity : Op(P, e) = Op(em, e)
    BY PrunedGrows DEF TypeOK, Grows
  <2>2. em' = Bumped(P, C \cap hooksInvoked)
    BY DEF StartPass
  <2>3. U \subseteq hooksInvoked
    BY DEF CreateTodos
  <2> HIDE DEF P, U, C
  <2>4. \A e \in Entity \ hooksInvoked : em'.inst[e] = P.inst[e]
    BY <2>1, <2>2, <2>3 DEF Bumped, Update, Managers, U
  <2>5. \A e \in C : e \in Entity /\ Op(em, e) # "none"
    BY DEF C, Candidates, IsCandidate, Op
  <2> QED
    BY <2>1, <2>4, <2>5 DEF Op
<1> HIDE DEF C
<1>5. QueueOfPending' /\ QueueInHooks' /\ HookedOnce' /\ QueueInMap' /\ FlushKnown' /\ TodoHooked'
  BY <1>1, <1>2 DEF QueueOfPending, QueueInHooks, HookedOnce, QueueInMap, FlushKnown, TodoHooked, InHooks, InPass
<1>6. InvokedHandled' /\ PendingHandled' /\ PendingHasWork'
  BY <1>1, <1>3, <1>4 DEF InvokedHandled, PendingHandled, PendingHasWork, InHooks
<1> QED
  BY <1>5, <1>6 DEF HookInv

\* Every pending entity gets its hooks, unless it is being deleted.
LEMMA OpenHooksHooks == TypeOK /\ HookInv /\ [Next]_vars /\ OpenHooks => HookInv'
<1> SUFFICES ASSUME TypeOK, HookInv, [Next]_vars, OpenHooks PROVE HookInv'
  OBVIOUS
<1> DEFINE Q == CreateTodos(em, pendingHooks).inserts \cup CreateTodos(em, pendingHooks).updates
<1>1. /\ pc = "loop" /\ pc' = "hooks" /\ hookQueue' = Q /\ pendingHooks' = pendingHooks
      /\ pendingFlush' = pendingFlush /\ hooksInvoked' = hooksInvoked /\ hooked' = hooked
  BY DEF OpenHooks
<1>2. pendingHooks \in SUBSET Entity /\ hooksInvoked \subseteq Entity /\ em \in Managers
  BY DEF TypeOK
<1>3. /\ \A e \in pendingHooks : Op(em, e) = "none" \/ Gone(em.inst[e]) \/ e \in Q
      /\ \A e \in Q : e \in pendingHooks /\ InMap(em.inst[e])
  BY <1>2, Operations
<1> HIDE DEF Q
<1>4. \A e \in Entity : /\ InMap(em.inst[e]) => InMap(em'.inst[e])
                        /\ Gone(em.inst[e]) => Gone(em'.inst[e])
  BY ManagerStep
<1>5. QueueOfPending' /\ QueueInHooks' /\ FlushKnown' /\ TodoHooked' /\ PendingHasWork'
  BY <1>1, <1>3 DEF HookInv, QueueOfPending, QueueInHooks, FlushKnown, TodoHooked, PendingHasWork, InPass
<1>6. HookedOnce'
  BY <1>1 DEF HookInv, HookedOnce, InHooks
<1>7. QueueInMap'
  <2>1. \A e \in hookQueue' : InMap(em'.inst[e])
    BY <1>1, <1>2, <1>3, <1>4
  <2> QED
    BY <2>1 DEF QueueInMap
<1>8. InvokedHandled'
  <2>1. \A e \in hooksInvoked : e \in hooked \/ Gone(em.inst[e])
    BY DEF HookInv, InvokedHandled, Handled
  <2>2. \A e \in hooksInvoked' : e \in hooked' \/ Gone(em'.inst[e])
    BY <1>1, <1>2, <1>4, <2>1
  <2> QED
    BY <2>2 DEF InvokedHandled, Handled
<1>9. PendingHandled'
  <2>1. \A e \in pendingHooks : Op(em, e) # "none" \/ Gone(em.inst[e])
    BY <1>1 DEF HookInv, PendingHasWork
  <2>2. \A e \in pendingHooks' \ hookQueue' : Gone(em'.inst[e])
    BY <1>1, <1>2, <1>3, <1>4, <2>1
  <2> QED
    BY <2>2 DEF PendingHandled, Handled
<1> QED
  BY <1>5, <1>6, <1>7, <1>8, <1>9 DEF HookInv

\* A hook leaves the queue; it ran, or its entity is gone.
LEMMA RunHookHooks ==
  ASSUME TypeOK, HookInv, [Next]_vars, NEW x \in Entity, RunHook(x)
  PROVE  HookInv'
<1>1. /\ pc = "hooks" /\ pc' = "hooks" /\ x \in hookQueue /\ hookQueue' = hookQueue \ {x}
      /\ pendingHooks' = pendingHooks /\ pendingFlush' = pendingFlush /\ hooksInvoked' = hooksInvoked
  BY DEF RunHook
<1>2. hookQueue \subseteq Entity /\ pendingHooks \subseteq Entity /\ hooksInvoked \subseteq Entity
  BY DEF TypeOK
<1>3. \A e \in Entity : /\ InMap(em.inst[e]) => InMap(em'.inst[e])
                        /\ Gone(em.inst[e]) => Gone(em'.inst[e])
  BY ManagerStep
<1>4. hooked' \subseteq hooked \cup {x} /\ hooked \subseteq hooked'
  BY DEF RunHook
<1>5. x \in hooked' \/ Gone(em'.inst[x])
  BY <1>1, <1>3 DEF RunHook, HookInv, QueueInMap, Gone, IsDeleted, InMap
<1>6. \A e \in Entity : Handled(e) => Handled(e)'
  <2>1. \A e \in Entity : Handled(e) => e \in hooked' \/ Gone(em'.inst[e])
    BY <1>3, <1>4 DEF Handled
  <2> QED
    BY <2>1 DEF Handled
<1>7. Handled(x)'
  BY <1>5 DEF Handled
<1>8. QueueOfPending' /\ QueueInHooks' /\ FlushKnown' /\ TodoHooked' /\ PendingHasWork'
  BY <1>1 DEF HookInv, QueueOfPending, QueueInHooks, FlushKnown, TodoHooked, PendingHasWork, InPass
<1>9. HookedOnce'
  BY <1>1, <1>4 DEF HookInv, HookedOnce, QueueOfPending, InHooks
<1>10. QueueInMap'
  <2>1. \A e \in hookQueue : InMap(em.inst[e])
    BY DEF HookInv, QueueInMap
  <2>2. \A e \in hookQueue' : InMap(em'.inst[e])
    BY <1>1, <1>2, <1>3, <2>1
  <2> QED
    BY <2>2 DEF QueueInMap
<1>11. InvokedHandled'
  BY <1>1, <1>2, <1>6 DEF HookInv, InvokedHandled
<1>12. PendingHandled'
  BY <1>1, <1>2, <1>6, <1>7 DEF HookInv, PendingHandled, InHooks
<1> QED
  BY <1>8, <1>9, <1>10, <1>11, <1>12 DEF HookInv

\* The entities of this loop have their hooks behind them; the newly dirty follow.
LEMMA EndHooksHooks == TypeOK /\ HookInv /\ [Next]_vars /\ EndHooks => HookInv'
<1> SUFFICES ASSUME TypeOK, HookInv, [Next]_vars, EndHooks PROVE HookInv'
  OBVIOUS
<1> DEFINE C == Candidates(em)
<1>1. /\ pc = "settleRecalc" /\ pc' = "loop" /\ hooksInvoked' = hooksInvoked \cup pendingHooks
      /\ pendingHooks' = C \ hooksInvoked' /\ pendingFlush' = pendingFlush \cup C
      /\ hookQueue' = hookQueue /\ hooked' = hooked
  BY DEF EndHooks, NewlyPending
<1>2. hookQueue = {} /\ pendingHooks \subseteq Entity /\ hooksInvoked \subseteq Entity
  BY <1>1 DEF HookInv, QueueInHooks, TypeOK
<1>3. \A e \in C : Op(em', e) # "none"
  <2>1. em' = Pruned(em) /\ em \in Managers
    BY DEF EndHooks, TypeOK
  <2>2. \A e \in C : e \in Entity /\ Op(em, e) # "none"
    BY DEF Candidates, IsCandidate, Op
  <2> HIDE DEF C
  <2> QED
    BY <2>1, <2>2, PrunedGrows
<1> HIDE DEF C
<1>4. \A e \in Entity : /\ InMap(em.inst[e]) => InMap(em'.inst[e])
                        /\ Gone(em.inst[e]) => Gone(em'.inst[e])
  BY ManagerStep
<1>5. \A e \in hooksInvoked \cup pendingHooks : Handled(e)'
  <2>1. \A e \in hooksInvoked \cup pendingHooks : e \in Entity /\ Handled(e)
    BY <1>1, <1>2 DEF HookInv, InvokedHandled, PendingHandled, InHooks
  <2>2. \A e \in hooksInvoked \cup pendingHooks : e \in hooked' \/ Gone(em'.inst[e])
    BY <1>1, <1>4, <2>1 DEF Handled
  <2> QED
    BY <2>2 DEF Handled
<1>6. QueueOfPending' /\ QueueInHooks' /\ QueueInMap' /\ FlushKnown' /\ TodoHooked'
  BY <1>1, <1>2 DEF HookInv, QueueOfPending, QueueInHooks, QueueInMap, FlushKnown, TodoHooked, InPass
<1>7. HookedOnce'
  BY <1>1, <1>2 DEF HookInv, HookedOnce, InHooks
<1>8. InvokedHandled' /\ PendingHandled' /\ PendingHasWork'
  BY <1>1, <1>3, <1>5 DEF InvokedHandled, PendingHandled, PendingHasWork, InHooks
<1> QED
  BY <1>6, <1>7, <1>8 DEF HookInv

\* What is about to be written is known to the hook loop, and is not deleted.
LEMMA EndPassHooks == TypeOK /\ HookInv /\ [Next]_vars /\ EndPass => HookInv'
<1> SUFFICES ASSUME TypeOK, HookInv, [Next]_vars, EndPass PROVE HookInv'
  OBVIOUS
<1>1. /\ pc = "loop" /\ pc' = "validate" /\ pendingHooks = {} /\ em' = em
      /\ pendingHooks' = pendingHooks /\ hookQueue' = hookQueue /\ hooksInvoked' = hooksInvoked
      /\ hooked' = hooked /\ pendingFlush' = pendingFlush
  BY DEF EndPass, hookVars
<1>2. todo'.inserts \cup todo'.updates \subseteq hooked
  <2>1. toFlush' \subseteq pendingFlush /\ pendingFlush \in SUBSET Entity /\ em \in Managers
    BY DEF EndPass, TypeOK
  <2>2. toFlush' \subseteq hooksInvoked /\ toFlush' \in SUBSET Entity
    BY <1>1, <2>1 DEF HookInv, FlushKnown, InPass
  <2>3. todo' = CreateTodos(em, toFlush')
    BY DEF EndPass
  <2>4. \A e \in todo'.inserts \cup todo'.updates : e \in toFlush' /\ ~Gone(em.inst[e])
    BY <2>1, <2>2, <2>3, Operations
  <2> QED
    BY <2>2, <2>4 DEF HookInv, InvokedHandled, Handled, Gone
<1>3. hookQueue = {}
  BY <1>1 DEF HookInv, QueueInHooks
<1>4. QueueOfPending' /\ QueueInHooks' /\ QueueInMap' /\ FlushKnown' /\ TodoHooked' /\ PendingHasWork'
  BY <1>1, <1>2, <1>3 DEF HookInv, QueueOfPending, QueueInHooks, QueueInMap, FlushKnown, TodoHooked,
                          PendingHasWork, InPass
<1>5. HookedOnce' /\ PendingHandled'
  BY <1>1 DEF HookInv, HookedOnce, PendingHandled, InHooks
<1>6. InvokedHandled'
  BY <1>1 DEF HookInv, InvokedHandled, Handled, Gone
<1> QED
  BY <1>4, <1>5, <1>6 DEF HookInv

\* Every action keeps the invariant of the hooks.
LEMMA HookStep == TypeOK /\ HookInv /\ [Next]_vars => HookInv'
<1> SUFFICES ASSUME TypeOK, HookInv, [Next]_vars PROVE HookInv'
  OBVIOUS
<1>1. ASSUME AppEdit \/ StartFlush \/ TakeDeletes \/ CascadeBatch \/ DeletesDrained \/ RecalcReactables
               \/ RecalcQueries \/ OpenSettled \/ HooksDone \/ SettleAgain \/ Validated \/ Write
               \/ StartQueries \/ QueriesSettled \/ NextPass \/ LastPass \/ Commit
      PROVE  HookInv'
  <2>1. UNCHANGED <<hookVars, todo>>
    BY <1>1 DEF AppEdit, StartFlush, TakeDeletes, CascadeBatch, DeletesDrained, RecalcReactables,
                RecalcQueries, OpenSettled, HooksDone, SettleAgain, Validated, Write, StartQueries,
                QueriesSettled, NextPass, LastPass, Commit, writeVars
  <2>2. /\ pc' # "loop" /\ pc' # "hooks"
        /\ pc \in {"hooks", "settleDeletes", "settleRecalc"} <=> pc' \in {"settleDeletes", "settleRecalc"}
        /\ pc # "loop"
        /\ pc = "hooks" => hookQueue = {}
        /\ pc' \in {"validate", "write"} => pc \in {"validate", "write"}
    BY <1>1 DEF AppEdit, StartFlush, TakeDeletes, CascadeBatch, DeletesDrained, RecalcReactables,
                RecalcQueries, OpenSettled, HooksDone, SettleAgain, Validated, Write, StartQueries,
                QueriesSettled, NextPass, LastPass, Commit
  <2>3. (InPass' <=> InPass) /\ (InHooks' <=> InHooks)
    BY <2>2 DEF InPass, InHooks
  <2> QED
    BY <2>1, <2>2, <2>3, OtherSteps
<1>2. CASE AppDeleteDuringFlush
  <2>1. UNCHANGED <<hookVars, todo, pc>>
    BY <1>2 DEF AppDeleteDuringFlush, writeVars
  <2>2. \A e \in Entity : em'.inst[e] = em.inst[e] \/ Gone(em'.inst[e])
    <3>1. AppDeletes \in SUBSET Entity
      BY EntityFlushAssumption
    <3> QED
      BY <1>2, <3>1, DeletedGrows DEF AppDeleteDuringFlush, TypeOK
  <2>3. (InPass' <=> InPass) /\ (InHooks' <=> InHooks)
    BY <2>1 DEF InPass, InHooks
  <2> QED
    BY <2>1, <2>2, <2>3, OtherSteps
<1>3. CASE UNCHANGED vars
  <2>1. UNCHANGED <<hookVars, todo, pc, em>>
    BY <1>3 DEF vars, writeVars
  <2>2. (InPass' <=> InPass) /\ (InHooks' <=> InHooks)
    BY <2>1 DEF InPass, InHooks
  <2> QED
    BY <2>1, <2>2, OtherSteps
<1>4. RecalcLoopsForever \/ TooManyPasses \/ NothingFlushed \/ WriteFails \/ RollbackDryRun \/ Reset \/ Fail
        => HookInv'
  BY EndOfFlushHooks DEF RecalcLoopsForever, TooManyPasses, NothingFlushed, WriteFails, RollbackDryRun, Reset, Fail
<1> QED
  BY <1>1, <1>2, <1>3, <1>4, StartPassHooks, OpenHooksHooks, RunHookHooks, EndHooksHooks, EndPassHooks
     DEF Next, FlushStep

\* Hooks run once per flush, and before the entity's first SQL, whatever they do
\* to one another's entities, in every round of the flush and after every retry.
THEOREM HooksOnce == Spec => []HooksOnceBeforeWrite
<1>1. HookInv => HooksOnceBeforeWrite
  <2> SUFFICES ASSUME HookInv PROVE HooksOnceBeforeWrite
    OBVIOUS
  <2>1. hookQueue \cap hooked = {}
    BY DEF HookInv, QueueOfPending, QueueInHooks, HookedOnce, InPass, InHooks
  <2> QED
    BY <2>1 DEF HookInv, TodoHooked, HooksOnceBeforeWrite
<1>2. Spec => []TypeOK
  BY TypeCorrect
<1> QED
  BY <1>1, <1>2, HookInit, HookStep, PTL DEF Spec

----------------------------------------------------------------------------
(* Cascades. *)

\* Nobody calls em.delete while a flush runs; no beforeDelete hook throws, which would lose the
\* batch it was called for; a later round of the flush meets no deletion by a reaction, whose
\* entity would be flushed with that round and drained with the next flush; and a child that is
\* not in memory is not created while its owner is deleted.
CascadesHold ==
  /\ ~LateDeletes
  /\ FailAt \cap {"openDeletes", "settleDeletes"} = {}
  /\ QuerySources = {} \/ ReactionDeletes = {}
  /\ \A e \in Entity : \A c \in Cascade[e] : c \in Loaded \/ c \notin AppEdits \cup HookEdits

\* Whose deletion is not written yet.
Dying(d) == InMap(d) /\ d.deleted = "pending"
Doomed(e) == Dying(em.inst[e])

\* A deletion is queued, being cascaded, or has been cascaded.
DeletesQueued == \A e \in Entity : Doomed(e) => e \in em.pendingDeletes \cup deleting \cup cascaded
DrainsDeletes == deleting # {} => pc \in {"openDeletes", "settleDeletes"}
ChildrenDeleted == \A e \in cascaded : \A c \in Cascade[e] : InMap(em.inst[c]) => IsDeleted(em.inst[c])
LoadedStay == \A e \in Loaded : InMap(em.inst[e])
\* What is deleted when a pass begins was cascaded, or has its hooks, and then a drain, to come.
LoopCascaded == pc = "loop" => \A e \in Entity : Doomed(e) => e \in cascaded \cup pendingHooks
TodoCascaded == pc \in {"validate", "write"} => todo.deletes \subseteq cascaded
\* With queries, no reaction deletes after the drain.
StaysDrained ==
  ReactionDeletes = {} /\ pc \notin {"idle", "openDeletes", "hooks", "settleDeletes"} => em.pendingDeletes = {}
\* Without queries, a flush has one pass.
OnePass ==
  QuerySources = {} =>
    /\ AllTracked
    /\ pc \notin {"query", "queryRecalc"}
    /\ pc \in {"idle", "openDeletes", "openRecalc", "pass"} => hooksInvoked = {}

CascadeInv ==
  /\ DeletesQueued /\ DrainsDeletes /\ ChildrenDeleted /\ LoadedStay /\ LoopCascaded /\ TodoCascaded
  /\ StaysDrained /\ OnePass

\* What an edit does to deletions: each new one is queued, and nothing is created that may not be.
Marks(m, r) ==
  /\ m.pendingDeletes \subseteq r.pendingDeletes
  /\ \A e \in Entity :
       /\ Dying(r.inst[e]) => Dying(m.inst[e]) \/ e \in r.pendingDeletes
       /\ InMap(r.inst[e]) => InMap(m.inst[e]) \/ e \in AppEdits \cup HookEdits

\* The fields of an instance that tell whether it is deleted.
LEMMA DeletedFields ==
  ASSUME NEW d \in Instances, NEW v \in Val, NEW t
  PROVE  /\ \A x \in {SetField(d, v), MarkTouched(d), Prune(d), BumpUpdatedAt(d, t)} :
              x.new = d.new /\ x.deleted = d.deleted
         /\ Created(v, t).deleted = "none"
         /\ \A x \in {FixupCreatedThenDeleted(d), ResetAfterFlushed(d), ResetForRqfLoop(d)} :
              x.deleted # "pending" /\ (InMap(x) => InMap(d))
<1>1. SetField(d, v).new = d.new /\ SetField(d, v).deleted = d.deleted
  BY DEF SetField, MarkFieldClean, MarkFieldDirty, Instances
<1>2. \A x \in {MarkTouched(d), Prune(d), BumpUpdatedAt(d, t)} : x.new = d.new /\ x.deleted = d.deleted
  BY DEF MarkTouched, Prune, BumpUpdatedAt, Instances
<1>3. Created(v, t).deleted = "none"
  BY DEF Created, Hydrated
<1>4. \A x \in {FixupCreatedThenDeleted(d), ResetAfterFlushed(d), ResetForRqfLoop(d)} :
        x.deleted # "pending" /\ (InMap(x) => InMap(d))
  BY DEF FixupCreatedThenDeleted, ResetAfterFlushed, ResetForRqfLoop, Instances, IsNew, IsDeleted, InMap
<1> QED BY <1>1, <1>2, <1>3, <1>4

LEMMA MarksTransitive ==
  ASSUME NEW m, NEW n, NEW r, Marks(m, n), Marks(n, r)
  PROVE  Marks(m, r)
BY DEF Marks

LEMMA MarksSelf ==
  ASSUME NEW m, NEW r, r.inst = m.inst, m.pendingDeletes \subseteq r.pendingDeletes
  PROVE  Marks(m, r)
BY DEF Marks

LEMMA NotifiedMarks ==
  ASSUME NEW m \in Managers, NEW S
  PROVE  Marks(m, Notified(m, S)) /\ Notified(m, S).pendingDeletes = m.pendingDeletes
<1>1. Notified(m, S).inst = m.inst /\ Notified(m, S).pendingDeletes = m.pendingDeletes
  BY DEF Notified, Managers
<1> QED BY <1>1, MarksSelf

\* Instances that keep whether they are deleted, or no longer are about to be.
LEMMA UpdateMarks ==
  ASSUME NEW m \in Managers, NEW f \in [Entity -> Instances],
         \A e \in Entity : /\ Dying(f[e]) => Dying(m.inst[e])
                           /\ InMap(f[e]) => InMap(m.inst[e]) \/ e \in AppEdits \cup HookEdits
  PROVE  LET r == [m EXCEPT !.inst = f]
         IN  Marks(m, r) /\ r \in Managers /\ r.inst = f /\ r.pendingDeletes = m.pendingDeletes
<1> DEFINE r == [m EXCEPT !.inst = f]
<1>1. r \in Managers /\ r.inst = f /\ r.pendingDeletes = m.pendingDeletes
  BY DEF Managers
<1> HIDE DEF r
<1>2. Marks(m, r)
  BY <1>1 DEF Marks
<1> QED BY <1>1, <1>2 DEF r

LEMMA EditedMarks ==
  ASSUME NEW m \in Managers, clock \in Nat, NEW S \in SUBSET Entity, NEW r \in Edited(m, S),
         \A e \in S : InMap(m.inst[e]) \/ e \in AppEdits \cup HookEdits
  PROVE  Marks(m, r) /\ r.pendingDeletes = m.pendingDeletes
<1>1. ASSUME NEW e \in S, NEW v \in Val, NEW x \in Instances,
             r = Notified([m EXCEPT !.inst = [y \in Entity |-> IF y \in {e} THEN x ELSE m.inst[y]]], {e}),
             \/ x.new = m.inst[e].new /\ x.deleted = m.inst[e].deleted
             \/ x.deleted = "none"
      PROVE  Marks(m, r) /\ r.pendingDeletes = m.pendingDeletes
  <2> DEFINE f == [y \in Entity |-> IF y \in {e} THEN x ELSE m.inst[y]]
             n == [m EXCEPT !.inst = f]
  <2>1. f \in [Entity -> Instances]
    BY DEF Managers
  <2>2. \A y \in Entity : /\ Dying(f[y]) => Dying(m.inst[y])
                          /\ InMap(f[y]) => InMap(m.inst[y]) \/ y \in AppEdits \cup HookEdits
    BY <1>1 DEF Dying, InMap
  <2>3. Marks(m, n) /\ n \in Managers /\ n.pendingDeletes = m.pendingDeletes
    <3> HIDE DEF f
    <3> QED BY <2>1, <2>2, UpdateMarks
  <2> HIDE DEF n
  <2> QED BY <1>1, <2>3, NotifiedMarks, MarksTransitive DEF n
<1>2. ASSUME NEW e \in S, NEW v \in Val, CanSet(m.inst[e]), r = Set(m, e, v)
      PROVE  Marks(m, r) /\ r.pendingDeletes = m.pendingDeletes
  <2>1. SetField(m.inst[e], v) \in Instances /\ m.inst[e] \in Instances
    BY <1>2, SetFieldEvolves DEF Managers, Evolves
  <2>2. SetField(m.inst[e], v).new = m.inst[e].new /\ SetField(m.inst[e], v).deleted = m.inst[e].deleted
    BY <2>1, DeletedFields
  <2>3. r = Notified([m EXCEPT !.inst = [y \in Entity |-> IF y \in {e} THEN SetField(m.inst[e], v) ELSE m.inst[y]]], {e})
    <3>1. [y \in Entity |-> IF y \in {e} THEN SetField(m.inst[y], v) ELSE m.inst[y]]
            = [y \in Entity |-> IF y \in {e} THEN SetField(m.inst[e], v) ELSE m.inst[y]]
      OBVIOUS
    <3> QED BY <1>2, <3>1 DEF Set, Update
  <2> QED BY <1>1, <2>1, <2>2, <2>3
<1>3. ASSUME NEW e \in S, NEW v \in Val, ~InMap(m.inst[e]), r = Create(m, e, v)
      PROVE  Marks(m, r) /\ r.pendingDeletes = m.pendingDeletes
  <2>1. Created(v, clock) \in Instances /\ Created(v, clock).deleted = "none"
    BY CreatedInstance DEF Created, Hydrated
  <2>2. r = Notified([m EXCEPT !.inst = [y \in Entity |-> IF y \in {e} THEN Created(v, clock) ELSE m.inst[y]]], {e})
    BY <1>3 DEF Create, Update
  <2> QED BY <1>1, <2>1, <2>2
<1> QED
  BY <1>2, <1>3 DEF Edited

LEMMA DeleteAllMarks ==
  ASSUME NEW m \in Managers, NEW S \in SUBSET Entity
  PROVE  /\ Marks(m, DeleteAll(m, S))
         /\ \A e \in S : InMap(DeleteAll(m, S).inst[e]) => IsDeleted(DeleteAll(m, S).inst[e])
<1> DEFINE D == {e \in S : InMap(m.inst[e]) /\ ~IsDeleted(m.inst[e])}
           f == [x \in Entity |-> IF x \in D THEN MarkDeleted(m.inst[x]) ELSE m.inst[x]]
           n == [m EXCEPT !.inst = f]
           marked == [n EXCEPT !.pendingDeletes = @ \cup D]
<1>1. \A x \in Entity : m.inst[x] \in Instances
  BY DEF Managers
<1>2. \A x \in Entity : /\ f[x].new = m.inst[x].new
                        /\ x \notin D => f[x] = m.inst[x]
                        /\ x \in D => f[x].deleted = "pending"
  BY <1>1 DEF MarkDeleted, Instances
<1>3. marked.inst = f /\ marked.pendingDeletes = m.pendingDeletes \cup D /\ marked.needs = m.needs
  <2> HIDE DEF f, D
  <2> QED BY DEF Managers
<1>4. D \subseteq S
  OBVIOUS
<1>5. \A x \in S : x \notin D => ~InMap(m.inst[x]) \/ IsDeleted(m.inst[x])
  OBVIOUS
<1>6. DeleteAll(m, S) = Notified(marked, D)
  BY DEF DeleteAll, Update
<1>7. Notified(marked, D).inst = f /\ Notified(marked, D).pendingDeletes = m.pendingDeletes \cup D
  <2> HIDE DEF f, D
  <2>3. DOMAIN marked = {"inst", "pendingDeletes", "needs"}
    BY DEF Managers
  <2> HIDE DEF marked, n
  <2> QED BY <1>3, <2>3 DEF Notified
<1> HIDE DEF f, D, marked, n
<1>8. DeleteAll(m, S).inst = f /\ DeleteAll(m, S).pendingDeletes = m.pendingDeletes \cup D
  BY <1>6, <1>7
<1>9. \A x \in Entity : /\ Dying(f[x]) => Dying(m.inst[x]) \/ x \in D
                        /\ InMap(f[x]) => InMap(m.inst[x])
                        /\ x \in S /\ InMap(f[x]) => IsDeleted(f[x])
  <2> SUFFICES ASSUME NEW x \in Entity
               PROVE  /\ Dying(f[x]) => Dying(m.inst[x]) \/ x \in D
                      /\ InMap(f[x]) => InMap(m.inst[x])
                      /\ x \in S /\ InMap(f[x]) => IsDeleted(f[x])
    OBVIOUS
  <2>1. CASE x \in D
    BY <1>2, <2>1 DEF Dying, InMap, IsDeleted
  <2>2. CASE x \notin D
    BY <1>2, <1>5, <2>2
  <2> QED BY <2>1, <2>2
<1>10. Marks(m, DeleteAll(m, S))
  BY <1>8, <1>9 DEF Marks
<1> QED BY <1>8, <1>9, <1>10

LEMMA DeletedMarks ==
  ASSUME NEW m \in Managers, NEW S \in SUBSET Entity, NEW r \in Deleted(m, S)
  PROVE  Marks(m, r)
<1>1. PICK e \in S : r = DeleteAll(m, {e}) \/ r = DeleteAll(m, {e} \cup Cascade[e])
  BY DEF Deleted
<1>2. {e} \in SUBSET Entity /\ {e} \cup Cascade[e] \in SUBSET Entity
  BY EntityFlushAssumption
<1> QED BY <1>1, <1>2, DeleteAllMarks

LEMMA HookMarks ==
  ASSUME NEW m \in Managers, clock \in Nat, NEW r \in HookResults(m)
  PROVE  Marks(m, r)
<1>1. HookEdits \in SUBSET Entity /\ HookDeletes \in SUBSET Entity
  BY EntityFlushAssumption
<1> QED BY <1>1, EditedMarks, DeletedMarks, MarksSelf DEF HookResults

LEMMA RecalculatedMarks ==
  ASSUME NEW m \in Managers, clock \in Nat, NEW r \in Recalculated(m)
  PROVE  Marks(m, r) /\ (ReactionDeletes = {} => r.pendingDeletes = m.pendingDeletes)
<1> DEFINE n == [m EXCEPT !.needs = @ \ {"reactables"}]
<1>1. n \in Managers /\ n.inst = m.inst /\ n.pendingDeletes = m.pendingDeletes
  BY DEF Managers
<1>2. /\ Alive(n, Derived) \in SUBSET Entity /\ ReactionDeletes \in SUBSET Entity
      /\ \A e \in Alive(n, Derived) : InMap(n.inst[e])
  BY EntityFlushAssumption DEF Alive
<1>3. r = n \/ r \in Edited(n, Alive(n, Derived)) \/ r \in Deleted(n, ReactionDeletes)
  BY DEF Recalculated
<1>4. ReactionDeletes = {} => r \notin Deleted(n, ReactionDeletes)
  BY DEF Deleted
<1> HIDE DEF n
<1>5. Marks(m, n)
  BY <1>1, MarksSelf
<1>6. CASE r = n
  BY <1>1, <1>5, <1>6
<1>7. CASE r \in Edited(n, Alive(n, Derived))
  BY <1>1, <1>2, <1>5, <1>7, EditedMarks, MarksTransitive
<1>8. CASE r \in Deleted(n, ReactionDeletes)
  BY <1>1, <1>2, <1>4, <1>5, <1>8, DeletedMarks, MarksTransitive
<1> QED BY <1>3, <1>6, <1>7, <1>8

LEMMA RequeriedMarks ==
  ASSUME NEW m \in Managers, clock \in Nat, NEW r \in Requeried(m)
  PROVE  Marks(m, r) /\ r.pendingDeletes = m.pendingDeletes
<1> DEFINE n == [m EXCEPT !.needs = @ \ {"query"}]
<1>1. n \in Managers /\ n.inst = m.inst /\ n.pendingDeletes = m.pendingDeletes
  BY DEF Managers
<1>2. Alive(n, QueryTargets) \in SUBSET Entity /\ \A e \in Alive(n, QueryTargets) : InMap(n.inst[e])
  BY EntityFlushAssumption DEF Alive
<1>3. r = n \/ r \in Edited(n, Alive(n, QueryTargets))
  BY DEF Requeried
<1> HIDE DEF n
<1>4. Marks(m, n)
  BY <1>1, MarksSelf
<1> QED BY <1>1, <1>2, <1>3, <1>4, EditedMarks, MarksTransitive

\* Pruning, bumping and resetting.
LEMMA PrunedMarks ==
  ASSUME NEW m \in Managers
  PROVE  Marks(m, Pruned(m)) /\ Pruned(m) \in Managers /\ Pruned(m).pendingDeletes = m.pendingDeletes
<1> DEFINE f == [x \in Entity |-> IF x \in Entity THEN Prune(m.inst[x]) ELSE m.inst[x]]
<1>1. \A x \in Entity : m.inst[x] \in Instances /\ f[x] \in Instances
  BY PruneEvolves DEF Managers, Evolves
<1>2. \A x \in Entity : f[x].new = m.inst[x].new /\ f[x].deleted = m.inst[x].deleted
  BY <1>1 DEF Prune, Instances
<1>3. f \in [Entity -> Instances] /\ Pruned(m) = [m EXCEPT !.inst = f]
  BY <1>1 DEF Pruned, Update
<1> HIDE DEF f
<1> QED BY <1>2, <1>3, UpdateMarks DEF Dying, InMap

LEMMA BumpedMarks ==
  ASSUME NEW m \in Managers, now \in Nat, NEW S
  PROVE  Marks(m, Bumped(m, S)) /\ Bumped(m, S).pendingDeletes = m.pendingDeletes
<1> DEFINE U == CreateTodos(m, S).updates
           f == [x \in Entity |-> IF x \in U THEN BumpUpdatedAt(m.inst[x], now) ELSE m.inst[x]]
<1>1. \A x \in Entity : m.inst[x] \in Instances /\ f[x] \in Instances
  BY BumpUpdatedAtEvolves DEF Managers, Evolves
<1>2. \A x \in Entity : f[x].new = m.inst[x].new /\ f[x].deleted = m.inst[x].deleted
  BY <1>1 DEF BumpUpdatedAt, Instances
<1>3. f \in [Entity -> Instances] /\ Bumped(m, S) = [m EXCEPT !.inst = f]
  BY <1>1 DEF Bumped, Update
<1> HIDE DEF f
<1> QED BY <1>2, <1>3, UpdateMarks DEF Dying, InMap

LEMMA ResetMarks ==
  ASSUME NEW m \in Managers, NEW S
  PROVE  /\ Marks(m, Update(m, S, ResetAfterFlushed)) /\ Update(m, S, ResetAfterFlushed) \in Managers
         /\ Marks(m, Update(m, S, ResetForRqfLoop))
         /\ Marks(m, Update(m, S, FixupCreatedThenDeleted))
         /\ \A r \in {Update(m, S, ResetAfterFlushed), Update(m, S, ResetForRqfLoop),
                      Update(m, S, FixupCreatedThenDeleted)} : r.pendingDeletes = m.pendingDeletes
<1>1. \A x \in Entity : m.inst[x] \in Instances
  BY DEF Managers
<1>2. \A x \in Entity :
        /\ {ResetAfterFlushed(m.inst[x]), ResetForRqfLoop(m.inst[x]), FixupCreatedThenDeleted(m.inst[x])}
             \subseteq Instances
        /\ \A y \in {FixupCreatedThenDeleted(m.inst[x]), ResetAfterFlushed(m.inst[x]), ResetForRqfLoop(m.inst[x])} :
              y.deleted # "pending" /\ (InMap(y) => InMap(m.inst[x]))
  <2> SUFFICES ASSUME NEW x \in Entity
               PROVE  /\ {ResetAfterFlushed(m.inst[x]), ResetForRqfLoop(m.inst[x]), FixupCreatedThenDeleted(m.inst[x])}
                            \subseteq Instances
                      /\ \A y \in {FixupCreatedThenDeleted(m.inst[x]), ResetAfterFlushed(m.inst[x]),
                                   ResetForRqfLoop(m.inst[x])} :
                            y.deleted # "pending" /\ (InMap(y) => InMap(m.inst[x]))
    OBVIOUS
  <2>1. InitialValue \in Val
    BY EntityFlushAssumption
  <2> QED BY <1>1, <2>1, DeletedFields, ResetAfterFlushedEvolves, ResetForRqfLoopEvolves, FixupEvolves DEF Evolves
<1>3. ASSUME NEW g, NEW r, g \in [Entity -> Instances], r = [m EXCEPT !.inst = g],
             \A x \in Entity : g[x] = m.inst[x] \/ (g[x].deleted # "pending" /\ (InMap(g[x]) => InMap(m.inst[x])))
      PROVE  Marks(m, r) /\ r \in Managers /\ r.pendingDeletes = m.pendingDeletes
  BY <1>3, UpdateMarks DEF Dying
<1>4. LET r == Update(m, S, ResetAfterFlushed)
      IN  Marks(m, r) /\ r \in Managers /\ r.pendingDeletes = m.pendingDeletes
  <2> DEFINE g == [x \in Entity |-> IF x \in S THEN ResetAfterFlushed(m.inst[x]) ELSE m.inst[x]]
  <2>1. g \in [Entity -> Instances]
    BY <1>1, <1>2
  <2>2. \A x \in Entity : g[x] = m.inst[x] \/ (g[x].deleted # "pending" /\ (InMap(g[x]) => InMap(m.inst[x])))
    BY <1>2
  <2>3. Update(m, S, ResetAfterFlushed) = [m EXCEPT !.inst = g]
    BY DEF Update
  <2> HIDE DEF g
  <2> QED BY <1>3, <2>1, <2>2, <2>3
<1>5. LET r == Update(m, S, ResetForRqfLoop)
      IN  Marks(m, r) /\ r \in Managers /\ r.pendingDeletes = m.pendingDeletes
  <2> DEFINE g == [x \in Entity |-> IF x \in S THEN ResetForRqfLoop(m.inst[x]) ELSE m.inst[x]]
  <2>1. g \in [Entity -> Instances]
    BY <1>1, <1>2
  <2>2. \A x \in Entity : g[x] = m.inst[x] \/ (g[x].deleted # "pending" /\ (InMap(g[x]) => InMap(m.inst[x])))
    BY <1>2
  <2>3. Update(m, S, ResetForRqfLoop) = [m EXCEPT !.inst = g]
    BY DEF Update
  <2> HIDE DEF g
  <2> QED BY <1>3, <2>1, <2>2, <2>3
<1>6. LET r == Update(m, S, FixupCreatedThenDeleted)
      IN  Marks(m, r) /\ r \in Managers /\ r.pendingDeletes = m.pendingDeletes
  <2> DEFINE g == [x \in Entity |-> IF x \in S THEN FixupCreatedThenDeleted(m.inst[x]) ELSE m.inst[x]]
  <2>1. g \in [Entity -> Instances]
    BY <1>1, <1>2
  <2>2. \A x \in Entity : g[x] = m.inst[x] \/ (g[x].deleted # "pending" /\ (InMap(g[x]) => InMap(m.inst[x])))
    BY <1>2
  <2>3. Update(m, S, FixupCreatedThenDeleted) = [m EXCEPT !.inst = g]
    BY DEF Update
  <2> HIDE DEF g
  <2> QED BY <1>3, <2>1, <2>2, <2>3
<1> QED BY <1>4, <1>5, <1>6

\* Every step but those that take from the queue of deletions.
LEMMA StepMarks ==
  ASSUME TypeOK, [Next]_vars, ~LateDeletes, ~TakeDeletes, ~CascadeBatch
  PROVE  Marks(em, em')
<1>1. em \in Managers /\ clock \in Nat /\ now \in Nat
  BY DEF TypeOK
<1>2. UNCHANGED em => Marks(em, em')
  BY MarksSelf
<1>3. ASSUME AppEdit PROVE Marks(em, em')
  <2>1. AppEdits \in SUBSET Entity /\ AppDeletes \in SUBSET Entity
    BY EntityFlushAssumption
  <2>2. CASE em' \in Touched(em, AppEdits)
    <3>1. PICK e \in AppEdits : em' = Touch(em, e)
      BY <2>2 DEF Touched
    <3> DEFINE f == [x \in Entity |-> IF x \in {e} THEN MarkTouched(em.inst[x]) ELSE em.inst[x]]
    <3>2. \A x \in Entity : em.inst[x] \in Instances /\ f[x] \in Instances
      BY <1>1, MarkTouchedEvolves DEF Managers, Evolves
    <3>3. \A x \in Entity : f[x].new = em.inst[x].new /\ f[x].deleted = em.inst[x].deleted
      BY <3>2 DEF MarkTouched, Instances
    <3>4. f \in [Entity -> Instances] /\ em' = [em EXCEPT !.inst = f]
      BY <3>1, <3>2 DEF Touch, Update
    <3> HIDE DEF f
    <3> QED BY <1>1, <3>3, <3>4, UpdateMarks DEF Dying, InMap
  <2>3. CASE em' \in Edited(em, AppEdits)
    BY <1>1, <2>1, <2>3, EditedMarks
  <2>4. CASE em' \in Deleted(em, AppDeletes)
    BY <1>1, <2>1, <2>4, DeletedMarks
  <2> QED BY <1>3, <2>2, <2>3, <2>4 DEF AppEdit
<1>4. RecalcReactables \/ RecalcQueries \/ RecalcLoopsForever => Marks(em, em')
  BY <1>1, RecalculatedMarks, RequeriedMarks DEF RecalcReactables, RecalcQueries, RecalcLoopsForever
<1>6. StartPass => Marks(em, em')
  BY <1>1, PrunedMarks, BumpedMarks, MarksTransitive DEF StartPass
<1>7. OpenHooks => Marks(em, em')
  BY <1>1, BumpedMarks DEF OpenHooks
<1>8. (\E e \in Entity : RunHook(e)) => Marks(em, em')
  BY <1>1, <1>2, HookMarks DEF RunHook
<1>9. EndHooks => Marks(em, em')
  BY <1>1, PrunedMarks DEF EndHooks
<1>10. NothingFlushed => Marks(em, em')
  BY <1>1, ResetMarks DEF NothingFlushed, Fixup
<1>11. Reset => Marks(em, em')
  BY <1>1, ResetMarks, MarksTransitive DEF Reset, Fixup
<1>12. StartQueries => Marks(em, em')
  BY <1>1, ResetMarks DEF StartQueries
<1>13. ~AppDeleteDuringFlush
  BY DEF AppDeleteDuringFlush
<1>14. StartFlush \/ DeletesDrained \/ OpenSettled \/ TooManyPasses \/ HooksDone \/ SettleAgain
         \/ EndPass \/ Validated \/ Write \/ WriteFails \/ QueriesSettled \/ NextPass \/ LastPass
         \/ Commit \/ RollbackDryRun \/ Fail \/ UNCHANGED vars => UNCHANGED em
  BY DEF StartFlush, DeletesDrained, OpenSettled, TooManyPasses, HooksDone, SettleAgain, EndPass,
         Validated, Write, WriteFails, QueriesSettled, NextPass, LastPass, Commit, RollbackDryRun,
         Fail, vars
<1> QED
  BY <1>2, <1>3, <1>4, <1>6, <1>7, <1>8, <1>9, <1>10, <1>11, <1>12, <1>13, <1>14 DEF Next, FlushStep

\* At first nothing is deleted.
LEMMA CascadeInit == Init => CascadeInv
<1> SUFFICES ASSUME Init PROVE CascadeInv
  OBVIOUS
<1>1. InitialValue \in Val /\ Loaded \subseteq Entity
  BY EntityFlushAssumption
<1>2. \A e \in Entity : em.inst[e] = IF e \in Loaded THEN Hydrated(InitialValue, 0) ELSE Unborn(InitialValue)
  BY DEF Init
<1>3. \A e \in Entity : ~Doomed(e)
  BY <1>2 DEF Doomed, Dying, Hydrated, Unborn
<1>4. LoadedStay
  BY <1>1, <1>2 DEF LoadedStay, Hydrated, InMap
<1>5. DeletesQueued /\ DrainsDeletes /\ ChildrenDeleted /\ LoopCascaded /\ TodoCascaded /\ StaysDrained
  BY <1>3 DEF Init, DeletesQueued, DrainsDeletes, ChildrenDeleted, LoopCascaded, TodoCascaded, StaysDrained
<1>6. OnePass
  BY TrackedInit DEF Init, OnePass
<1> QED BY <1>4, <1>5, <1>6 DEF CascadeInv

\* What the children of what was cascaded are stays: they cannot be created again.
LEMMA ChildrenStay ==
  ASSUME TypeOK, CascadeInv, CascadesHold, [Next]_vars,
         \A e \in Entity : InMap(em'.inst[e]) => InMap(em.inst[e]) \/ e \in AppEdits \cup HookEdits,
         NEW e \in Entity, NEW c \in Cascade[e], InMap(em.inst[c]) => IsDeleted(em.inst[c])
  PROVE  InMap(em'.inst[c]) => IsDeleted(em'.inst[c])
<1>1. c \in Entity /\ (c \in Loaded => InMap(em.inst[c]))
  BY EntityFlushAssumption DEF CascadeInv, LoadedStay
<1>2. InMap(em'.inst[c]) => InMap(em.inst[c])
  BY <1>1 DEF CascadesHold
<1>3. Gone(em.inst[c]) => Gone(em'.inst[c])
  BY <1>1, ManagerStep
<1> QED BY <1>2, <1>3 DEF Gone

LEMMA LoadedStayStep == TypeOK /\ LoadedStay /\ [Next]_vars => LoadedStay'
BY ManagerStep, EntityFlushAssumption DEF LoadedStay

\* Without queries there is one pass, and its hooks are the first.
LEMMA OnePassStep == TypeOK /\ OnePass /\ [Next]_vars => OnePass'
<1> SUFFICES ASSUME TypeOK, OnePass, [Next]_vars, QuerySources = {} PROVE OnePass'
  BY DEF OnePass
<1>1. AllTracked /\ AllTracked'
  BY TrackedStep DEF OnePass
<1>2. "query" \notin em.needs /\ pc \notin {"query", "queryRecalc"}
  BY DEF OnePass, AllTracked
<1>3. pc' \notin {"query", "queryRecalc"}
  BY <1>2 DEF Next, FlushStep, vars, AppEdit, AppDeleteDuringFlush, StartFlush, TakeDeletes, CascadeBatch,
        DeletesDrained, RecalcReactables, RecalcQueries, RecalcLoopsForever, OpenSettled, StartPass,
        TooManyPasses, OpenHooks, RunHook, HooksDone, SettleAgain, EndHooks, EndPass, Validated, NothingFlushed,
        Write, WriteFails, StartQueries, QueriesSettled, NextPass, LastPass, Commit, RollbackDryRun, Reset,
        Fail, EndOfFlush
<1>4. pc' \in {"idle", "openDeletes", "openRecalc", "pass"} => hooksInvoked' = {}
  BY <1>2 DEF OnePass, Next, FlushStep, vars, hookVars, AppEdit, AppDeleteDuringFlush, StartFlush, TakeDeletes, CascadeBatch,
        DeletesDrained, RecalcReactables, RecalcQueries, RecalcLoopsForever, OpenSettled, StartPass,
        TooManyPasses, OpenHooks, RunHook, HooksDone, SettleAgain, EndHooks, EndPass, Validated, NothingFlushed,
        Write, WriteFails, StartQueries, QueriesSettled, NextPass, LastPass, Commit, RollbackDryRun, Reset,
        Fail, EndOfFlush
<1> QED BY <1>1, <1>3, <1>4 DEF OnePass

\* A deletion that is taken from the queue is in the batch.
LEMMA TakeDeletesCascade ==
  ASSUME TypeOK, CascadeInv, CascadesHold, [Next]_vars, TakeDeletes
  PROVE  CascadeInv'
<1>1. /\ pc \in {"openDeletes", "settleDeletes"} /\ pc' = pc /\ deleting = {} /\ deleting' = em.pendingDeletes
      /\ cascaded' = cascaded /\ todo' = todo
  BY DEF TakeDeletes, writeVars
<1>2. em'.inst = em.inst
  BY DEF TakeDeletes, TypeOK, Managers
<1>3. DeletesQueued'
  <2>1. \A e \in Entity : Dying(em'.inst[e]) => e \in deleting' \cup cascaded'
    BY <1>1, <1>2 DEF CascadeInv, DeletesQueued, Doomed
  <2> QED BY <2>1 DEF DeletesQueued, Doomed
<1>4. DrainsDeletes' /\ LoopCascaded' /\ TodoCascaded' /\ StaysDrained'
  BY <1>1 DEF DrainsDeletes, LoopCascaded, TodoCascaded, StaysDrained
<1>5. ChildrenDeleted'
  BY <1>1, <1>2 DEF CascadeInv, ChildrenDeleted
<1>6. LoadedStay' /\ OnePass'
  BY LoadedStayStep, OnePassStep DEF CascadeInv
<1> QED BY <1>3, <1>4, <1>5, <1>6 DEF CascadeInv

\* A batch's children are deleted before its hooks run, and what those delete is the next batch.
LEMMA CascadeBatchCascade ==
  ASSUME TypeOK, CascadeInv, CascadesHold, [Next]_vars, CascadeBatch
  PROVE  CascadeInv'
<1> DEFINE U == UNION {Cascade[e] : e \in deleting}
           m == DeleteAll(em, U)
<1>1. PICK r \in {m} \cup HookResults(m) : em' = [r EXCEPT !.pendingDeletes = {}] /\ deleting' = r.pendingDeletes
  BY DEF CascadeBatch, HookResults, NextBatch
<1>2. /\ pc \in {"openDeletes", "settleDeletes"} /\ pc' = pc
      /\ cascaded' = cascaded \cup deleting /\ todo' = todo /\ em \in Managers /\ clock \in Nat
      /\ deleting \subseteq Entity /\ cascaded \subseteq Entity
  BY DEF CascadeBatch, writeVars, TypeOK
<1>3. U \in SUBSET Entity /\ \A e \in deleting : Cascade[e] \subseteq U
  BY <1>2, EntityFlushAssumption
<1> HIDE DEF U
<1>4. /\ Grows(em, m) /\ Marks(em, m)
      /\ \A e \in U : InMap(m.inst[e]) => IsDeleted(m.inst[e])
  BY <1>2, <1>3, DeleteAllGrows, DeleteAllMarks
<1> HIDE DEF m
<1>5. m \in Managers
  BY <1>4 DEF Grows
<1>6. Grows(m, r) /\ Marks(m, r)
  BY <1>1, <1>2, <1>5, HookGrows, HookMarks, MarksSelf, GrowsSelf
<1>7. Marks(em, r)
  BY <1>4, <1>6, MarksTransitive
<1>8. em'.inst = r.inst /\ em'.pendingDeletes = {}
  BY <1>1, <1>6 DEF Grows, Managers
<1>9. \A e \in Entity : InMap(em'.inst[e]) => InMap(em.inst[e]) \/ e \in AppEdits \cup HookEdits
  BY <1>7, <1>8 DEF Marks
<1>10. DeletesQueued'
  <2>1. \A e \in Entity : Dying(em'.inst[e]) => e \in deleting' \cup cascaded'
    BY <1>1, <1>2, <1>7, <1>8 DEF CascadeInv, DeletesQueued, Doomed, Marks
  <2> QED BY <2>1 DEF DeletesQueued, Doomed
<1>11. ChildrenDeleted'
  <2> SUFFICES ASSUME NEW e \in cascaded', NEW c \in Cascade[e]
               PROVE  InMap(em'.inst[c]) => IsDeleted(em'.inst[c])
    BY DEF ChildrenDeleted
  <2>1. CASE e \in cascaded
    BY <1>2, <1>9, <2>1, ChildrenStay DEF CascadeInv, ChildrenDeleted
  <2>2. CASE e \in deleting
    <3>1. c \in U /\ c \in Entity /\ e \in Entity
      BY <1>2, <1>3, <2>2
    <3>2. InMap(m.inst[c]) => IsDeleted(m.inst[c])
      BY <1>4, <3>1
    <3>3. InMap(r.inst[c]) => InMap(m.inst[c])
      <4>1. c \in Loaded => InMap(m.inst[c])
        BY <1>4, <3>1 DEF CascadeInv, LoadedStay, Grows, Evolves
      <4>2. InMap(r.inst[c]) => InMap(m.inst[c]) \/ c \in AppEdits \cup HookEdits
        BY <1>6, <3>1 DEF Marks
      <4> QED BY <3>1, <4>1, <4>2 DEF CascadesHold
    <3>4. Gone(m.inst[c]) => Gone(r.inst[c])
      BY <1>6, <3>1 DEF Grows, Evolves
    <3> QED BY <1>8, <3>2, <3>3, <3>4 DEF Gone
  <2> QED BY <1>2, <2>1, <2>2
<1>12. DrainsDeletes' /\ LoopCascaded' /\ TodoCascaded' /\ StaysDrained'
  BY <1>2 DEF DrainsDeletes, LoopCascaded, TodoCascaded, StaysDrained
<1>13. LoadedStay' /\ OnePass'
  BY LoadedStayStep, OnePassStep DEF CascadeInv
<1> QED BY <1>10, <1>11, <1>12, <1>13 DEF CascadeInv

\* The other steps find no batch and start none.
LEMMA NoBatch ==
  ASSUME TypeOK, CascadeInv, CascadesHold, Next, ~TakeDeletes, ~CascadeBatch
  PROVE  deleting = {} /\ deleting' = {} /\ cascaded' = cascaded
<1>1. deleting # {} => pc \in {"openDeletes", "settleDeletes"}
  BY DEF CascadeInv, DrainsDeletes
<1>2. deleting = {}
  BY <1>1 DEF CascadesHold, Next, FlushStep, vars, AppEdit, AppDeleteDuringFlush, StartFlush, TakeDeletes, CascadeBatch,
        DeletesDrained, RecalcReactables, RecalcQueries, RecalcLoopsForever, OpenSettled, StartPass,
        TooManyPasses, OpenHooks, RunHook, HooksDone, SettleAgain, EndHooks, EndPass, Validated, NothingFlushed,
        Write, WriteFails, StartQueries, QueriesSettled, NextPass, LastPass, Commit, RollbackDryRun, Reset,
        Fail, EndOfFlush
<1>3. deleting' = {} /\ cascaded' = cascaded
  BY <1>2 DEF CascadesHold, deleteVars, Next, FlushStep, vars, AppEdit, AppDeleteDuringFlush, StartFlush, TakeDeletes, CascadeBatch,
        DeletesDrained, RecalcReactables, RecalcQueries, RecalcLoopsForever, OpenSettled, StartPass,
        TooManyPasses, OpenHooks, RunHook, HooksDone, SettleAgain, EndHooks, EndPass, Validated, NothingFlushed,
        Write, WriteFails, StartQueries, QueriesSettled, NextPass, LastPass, Commit, RollbackDryRun, Reset,
        Fail, EndOfFlush
<1> QED BY <1>2, <1>3

\* Neither pruning nor bumping deletes.
LEMMA PrunedStaysDying ==
  ASSUME NEW m \in Managers, NEW e \in Entity, Dying(Pruned(m).inst[e])
  PROVE  Dying(m.inst[e])
<1>1. m.inst[e] \in Instances /\ Pruned(m).inst[e] = Prune(m.inst[e])
  BY DEF Managers, Pruned, Update
<1>2. Prune(m.inst[e]).new = m.inst[e].new /\ Prune(m.inst[e]).deleted = m.inst[e].deleted
  BY <1>1 DEF Prune, Instances
<1> QED BY <1>1, <1>2 DEF Dying, InMap

LEMMA BumpedStaysDying ==
  ASSUME NEW m \in Managers, NEW S, NEW e \in Entity, Dying(Bumped(m, S).inst[e])
  PROVE  Dying(m.inst[e])
<1>1. m.inst[e] \in Instances /\ Bumped(m, S).inst[e] \in {m.inst[e], BumpUpdatedAt(m.inst[e], now)}
  BY DEF Managers, Bumped, Update
<1>2. BumpUpdatedAt(m.inst[e], now).new = m.inst[e].new /\ BumpUpdatedAt(m.inst[e], now).deleted = m.inst[e].deleted
  BY <1>1 DEF BumpUpdatedAt, Instances
<1> QED BY <1>1, <1>2 DEF Dying, InMap

\* The hook loop is entered with every deletion cascaded, or its hooks to come.
LEMMA LoopCascadedStep ==
  ASSUME TypeOK, CascadeInv, CascadesHold, Next, ~TakeDeletes, ~CascadeBatch
  PROVE  LoopCascaded'
<1>1. deleting = {} /\ cascaded' = cascaded
  BY NoBatch
<1>2. Marks(em, em')
  BY StepMarks DEF CascadesHold
<1>3. em \in Managers /\ now \in Nat
  BY DEF TypeOK
<1>4. CASE StartPass
  <2>1. /\ pc = "pass" /\ pendingHooks' = Candidates(em) \ hooksInvoked
        /\ em' = Bumped(Pruned(em), Candidates(em) \cap hooksInvoked)
    BY <1>4 DEF StartPass
  <2>2. em'.pendingDeletes = em.pendingDeletes
    BY <1>3, <2>1, PrunedMarks, BumpedMarks
  <2>3. \A e \in Entity : Dying(em'.inst[e]) => Dying(em.inst[e]) \/ e \in em.pendingDeletes
    BY <1>2, <2>2 DEF Marks
  <2>4. CASE ReactionDeletes = {}
    <3>1. em.pendingDeletes = {}
      BY <2>1, <2>4 DEF CascadeInv, StaysDrained
    <3>2. \A e \in Entity : Dying(em'.inst[e]) => e \in cascaded
      BY <1>1, <2>3, <3>1 DEF CascadeInv, DeletesQueued, Doomed
    <3> QED BY <1>1, <3>2 DEF LoopCascaded, Doomed
  <2>5. CASE QuerySources = {}
    <3>1. hooksInvoked = {} /\ \A e \in Entity : Tracked(em.inst[e])
      BY <2>1, <2>5 DEF CascadeInv, OnePass, AllTracked
    <3>2. \A e \in Entity : Dying(em'.inst[e]) => Dying(em.inst[e])
      BY <1>3, <2>1, PrunedStaysDying, BumpedStaysDying, PrunedMarks
    <3>3. \A e \in Entity : Dying(em.inst[e]) => e \in Candidates(em)
      BY <3>1 DEF Candidates, IsCandidate, Tracked, Dying, PendingOperation, IsDeleted
    <3>4. \A e \in Entity : Dying(em'.inst[e]) => e \in pendingHooks'
      BY <2>1, <3>1, <3>2, <3>3
    <3> QED BY <3>4 DEF LoopCascaded, Doomed
  <2> QED BY <2>4, <2>5 DEF CascadesHold
<1>5. CASE EndHooks
  <2>1. em' = Pruned(em) /\ em.pendingDeletes = {}
    BY <1>5 DEF EndHooks, NothingToDrain
  <2>2. em'.pendingDeletes = {}
    BY <1>3, <2>1, PrunedMarks
  <2>3. \A e \in Entity : Dying(em'.inst[e]) => e \in cascaded
    BY <1>1, <1>2, <2>1, <2>2 DEF CascadeInv, DeletesQueued, Doomed, Marks
  <2> QED BY <1>1, <2>3 DEF LoopCascaded, Doomed
<1>6. CASE ~StartPass /\ ~EndHooks
  <2>1. pc' # "loop"
    BY <1>6 DEF CascadesHold, Next, FlushStep, vars, AppEdit, AppDeleteDuringFlush, StartFlush, TakeDeletes, CascadeBatch,
        DeletesDrained, RecalcReactables, RecalcQueries, RecalcLoopsForever, OpenSettled, StartPass,
        TooManyPasses, OpenHooks, RunHook, HooksDone, SettleAgain, EndHooks, EndPass, Validated, NothingFlushed,
        Write, WriteFails, StartQueries, QueriesSettled, NextPass, LastPass, Commit, RollbackDryRun, Reset,
        Fail, EndOfFlush
  <2> QED BY <2>1 DEF LoopCascaded
<1> QED BY <1>4, <1>5, <1>6

\* The todo is taken when the loop ends.
LEMMA TodoCascadedStep ==
  ASSUME TypeOK, CascadeInv, CascadesHold, Next, ~TakeDeletes, ~CascadeBatch
  PROVE  TodoCascaded'
<1>1. cascaded' = cascaded
  BY NoBatch
<1>2. CASE EndPass
  <2>1. pc = "loop" /\ pendingHooks = {} /\ todo' = CreateTodos(em, toFlush') /\ toFlush' \subseteq Entity
    BY <1>2 DEF EndPass, TypeOK
  <2>2. \A e \in todo'.deletes : e \in Entity /\ Op(em, e) = "delete"
    BY <2>1 DEF CreateTodos
  <2>3. \A e \in Entity : Op(em, e) = "delete" => Doomed(e)
    <3>1. \A e \in Entity : em.inst[e] \in Instances
      BY DEF TypeOK, Managers
    <3> QED BY <3>1 DEF Op, PendingOperation, Doomed, Dying, InMap, IsDeleted
  <2>4. \A e \in todo'.deletes : e \in cascaded'
    BY <1>1, <2>1, <2>2, <2>3 DEF CascadeInv, LoopCascaded
  <2> QED BY <2>4 DEF TodoCascaded
<1>3. CASE Validated
  BY <1>1, <1>3 DEF Validated, writeVars, CascadeInv, TodoCascaded
<1>4. CASE ~EndPass /\ ~Validated
  <2>1. pc' \in {"validate", "write"} => pc' = pc /\ UNCHANGED vars
    BY <1>4 DEF CascadesHold, Next, FlushStep, vars, AppEdit, AppDeleteDuringFlush, StartFlush, TakeDeletes, CascadeBatch,
        DeletesDrained, RecalcReactables, RecalcQueries, RecalcLoopsForever, OpenSettled, StartPass,
        TooManyPasses, OpenHooks, RunHook, HooksDone, SettleAgain, EndHooks, EndPass, Validated, NothingFlushed,
        Write, WriteFails, StartQueries, QueriesSettled, NextPass, LastPass, Commit, RollbackDryRun, Reset,
        Fail, EndOfFlush
  <2> QED BY <1>1, <2>1 DEF CascadeInv, TodoCascaded, vars, writeVars
<1> QED BY <1>2, <1>3, <1>4

LEMMA StaysDrainedStep ==
  ASSUME TypeOK, CascadeInv, CascadesHold, Next, ~TakeDeletes, ~CascadeBatch
  PROVE  StaysDrained'
<1> SUFFICES ASSUME ReactionDeletes = {}, pc' \notin {"idle", "openDeletes", "hooks", "settleDeletes"}
             PROVE  em'.pendingDeletes = {}
  BY DEF StaysDrained
<1>1. em \in Managers /\ clock \in Nat /\ now \in Nat
  BY DEF TypeOK
<1>2. em.pendingDeletes = {}
  BY DEF CascadeInv, StaysDrained, CascadesHold, Next, FlushStep, vars, AppEdit, AppDeleteDuringFlush, StartFlush, TakeDeletes, CascadeBatch,
        DeletesDrained, RecalcReactables, RecalcQueries, RecalcLoopsForever, OpenSettled, StartPass,
        TooManyPasses, OpenHooks, RunHook, HooksDone, SettleAgain, EndHooks, EndPass, Validated, NothingFlushed,
        Write, WriteFails, StartQueries, QueriesSettled, NextPass, LastPass, Commit, RollbackDryRun, Reset,
        Fail, EndOfFlush
<1>3. CASE RecalcReactables \/ RecalcQueries
  BY <1>1, <1>2, <1>3, RecalculatedMarks, RequeriedMarks DEF RecalcReactables, RecalcQueries
<1>4. CASE StartPass \/ OpenHooks \/ EndHooks
  BY <1>1, <1>2, <1>4, PrunedMarks, BumpedMarks DEF StartPass, OpenHooks, EndHooks
<1>5. CASE StartQueries
  BY <1>1, <1>2, <1>5, ResetMarks DEF StartQueries
<1>6. CASE UNCHANGED em
  BY <1>2, <1>6
<1>7. UNCHANGED em \/ RecalcReactables \/ RecalcQueries \/ StartPass \/ OpenHooks \/ EndHooks \/ StartQueries
  BY DEF CascadesHold, Next, FlushStep, vars, AppEdit, AppDeleteDuringFlush, StartFlush, TakeDeletes, CascadeBatch,
        DeletesDrained, RecalcReactables, RecalcQueries, RecalcLoopsForever, OpenSettled, StartPass,
        TooManyPasses, OpenHooks, RunHook, HooksDone, SettleAgain, EndHooks, EndPass, Validated, NothingFlushed,
        Write, WriteFails, StartQueries, QueriesSettled, NextPass, LastPass, Commit, RollbackDryRun, Reset,
        Fail, EndOfFlush
<1> QED BY <1>3, <1>4, <1>5, <1>6, <1>7

LEMMA OtherCascade ==
  ASSUME TypeOK, CascadeInv, CascadesHold, Next, ~TakeDeletes, ~CascadeBatch
  PROVE  CascadeInv'
<1>1. deleting = {} /\ deleting' = {} /\ cascaded' = cascaded /\ Marks(em, em')
  BY NoBatch, StepMarks DEF CascadesHold
<1>2. cascaded \subseteq Entity
  BY DEF TypeOK
<1>3. DeletesQueued'
  <2>1. \A e \in Entity : Dying(em'.inst[e]) => e \in em'.pendingDeletes \cup cascaded'
    BY <1>1 DEF CascadeInv, DeletesQueued, Doomed, Marks
  <2> QED BY <2>1 DEF DeletesQueued, Doomed
<1>4. DrainsDeletes'
  BY <1>1 DEF DrainsDeletes
<1>5. ChildrenDeleted'
  <2> SUFFICES ASSUME NEW e \in cascaded, NEW c \in Cascade[e]
               PROVE  InMap(em'.inst[c]) => IsDeleted(em'.inst[c])
    BY <1>1 DEF ChildrenDeleted
  <2> QED BY <1>1, <1>2, ChildrenStay DEF CascadeInv, ChildrenDeleted, Marks
<1> QED BY <1>3, <1>4, <1>5, LoopCascadedStep, TodoCascadedStep, StaysDrainedStep, LoadedStayStep, OnePassStep
        DEF CascadeInv

LEMMA CascadeStep == TypeOK /\ CascadeInv /\ CascadesHold /\ [Next]_vars => CascadeInv'
<1> SUFFICES ASSUME TypeOK, CascadeInv, CascadesHold, [Next]_vars PROVE CascadeInv'
  OBVIOUS
<1>1. CASE UNCHANGED vars
  BY <1>1 DEF vars, dbVars, hookVars, writeVars, deleteVars, timeVars, boundVars, loopVars, CascadeInv,
        DeletesQueued, DrainsDeletes, ChildrenDeleted, LoadedStay, LoopCascaded, TodoCascaded, StaysDrained,
        OnePass, AllTracked, Doomed
<1>2. CASE Next
  BY <1>2, TakeDeletesCascade, CascadeBatchCascade, OtherCascade
<1> QED BY <1>1, <1>2

\* A row is deleted only after the beforeDelete hooks ran for it and the children that cascade
\* with it were deleted, whatever hooks, reactions and failures did before
\* (CascadeBeforeDelete; EntityManager.ts's flushDeletes).
THEOREM CascadesFirst ==
  ASSUME CascadesHold
  PROVE  Spec => []CascadeBeforeDelete
<1>1. TypeOK /\ CascadeInv => CascadeBeforeDelete
  BY DEF TypeOK, Todos, CascadeInv, TodoCascaded, ChildrenDeleted, CascadeBeforeDelete
<1>2. Spec => []TypeOK
  BY TypeCorrect
<1>3. TypeOK /\ CascadeInv /\ [Next]_vars => CascadeInv'
  BY CascadeStep
<1> QED BY <1>1, <1>2, <1>3, CascadeInit, PTL DEF Spec

----------------------------------------------------------------------------
(***************************************************************************)
(* em.flush implements UnitOfWork: the rows change in one step only, to    *)
(* what memory holds of every entity, whatever hooks and reactions did and *)
(* wherever a flush before it failed.                                      *)
(*                                                                         *)
(* The argument follows one entity.  Its instance remembers its row        *)
(* (RowFits) until the flush that writes it; what is to be written is all  *)
(* that is pending (TodosOk); and what was written is what memory holds    *)
(* (SavedRow), which is remembered again after the reset.                  *)
(***************************************************************************)

\* One round per flush; no call of em.delete while a flush runs; nothing throws between the
\* COMMIT and the reset.
Careful == QuerySources = {} /\ ~LateDeletes /\ "committed" \notin FailAt

----------------------------------------------------------------------------
(* An entity and its row. *)

Stored(d) == d.new \in {"none", "complete"}
Lives(d) == InMap(d) /\ ~IsDeleted(d)
\* No round of reactive queries has touched it.
Steady(d) == d.flushed = NoBag /\ d.new # "flushed" /\ d.deleted # "flushed"

\* What an instance remembers of its row.
RowFits(d, row) ==
  /\ ~Stored(d) \/ d.deleted = "complete" => row = NoRow
  /\ Stored(d) /\ d.deleted # "complete" =>
       /\ row # NoRow
       /\ row.value = IF d.orig = Clean THEN d.value ELSE d.orig
       /\ d.origStamp = Clean => row.stamp = d.stamp

\* The row that a save of the instance makes.
SavedRow(d) == IF Lives(d) THEN [value |-> d.value, stamp |-> d.stamp] ELSE NoRow

AllSteady == "query" \notin em.needs /\ \A e \in Entity : Steady(em.inst[e])
RowsFit == pc # "committed" => \A e \in Entity : RowFits(em.inst[e], db[e])

\* Who is written has this flush's timestamp, which no row has yet.
StampsPast ==
  /\ \A e \in Entity : em.inst[e].stamp <= clock /\ (db[e] # NoRow => db[e].stamp <= clock)
  /\ pc \in {"pass", "loop", "hooks", "settleDeletes", "settleRecalc", "validate", "write"} =>
       now <= clock /\ \A e \in Entity : db[e] # NoRow => db[e].stamp < now
\* Whose updated_at this flush has bumped, if they were there to be updated.
Due == hooksInvoked \cup (IF InHooks THEN pendingHooks ELSE {})
BumpedOnce ==
  \A e \in Due : Stored(em.inst[e]) /\ Lives(em.inst[e]) => em.inst[e].stamp = now

Before == pc \in {"idle", "openDeletes", "openRecalc", "pass"}
Writing == pc \in {"validate", "write", "written", "commit", "committed"}
LocalsOk ==
  /\ pc \notin {"query", "queryRecalc"}
  /\ Before => hooksInvoked = {}
  /\ Before \/ InPass => createdThenDeleted = {} /\ allFlushed = {}
  /\ pc = "loop" => Candidates(em) \subseteq pendingFlush
TodosOk ==
  Writing =>
    /\ todo = CreateTodos(em, toFlush) /\ allFlushed = toFlush
    /\ \A e \in Entity : Op(em, e) # "none" => e \in toFlush \cup createdThenDeleted
    /\ \A e \in createdThenDeleted : IsDeleted(em.inst[e]) /\ em.inst[e].new = "pending"
    /\ \A e \in toFlush : ~(IsDeleted(em.inst[e]) /\ em.inst[e].new = "pending")
    /\ pc \in {"validate", "write"} => \A e \in todo.updates : em.inst[e].stamp = now
TableOk ==
  /\ pc \notin {"write", "written", "commit"} => ~inTx
  /\ pc \notin {"written", "commit"} => tx = db
  /\ pc \in {"written", "commit", "committed"} => \A e \in Entity : tx[e] = SavedRow(em.inst[e])

SaveInv == AllSteady /\ RowsFit /\ StampsPast /\ BumpedOnce /\ LocalsOk /\ TodosOk /\ TableOk

----------------------------------------------------------------------------
(* What steps make of one instance. *)

\* What an edit, or the pruning of candidates, leaves of an instance.
Keeps(d, c) ==
  /\ Steady(d) => Steady(c)
  /\ \A row : RowFits(d, row) => RowFits(c, row)
  /\ \/ c.new = d.new /\ c.stamp = d.stamp /\ c.origStamp = d.origStamp
     \/ c.new = "pending" /\ c.stamp = clock

\* An instance that is not touched.
LEMMA KeepsSelf == \A d : Keeps(d, d)
BY DEF Keeps

\* Edits follow one another.
LEMMA KeepsTransitive ==
  ASSUME NEW d, NEW c, NEW b, Keeps(d, c), Keeps(c, b)
  PROVE  Keeps(d, b)
BY DEF Keeps

\* setField remembers the value of the row, or reverts to it.
LEMMA SetFieldKeeps ==
  ASSUME NEW d \in Instances, NEW v \in Val
  PROVE  Keeps(d, SetField(d, v))
<1> DEFINE b == [d EXCEPT !.flushed = FlushedAfterSet(d, v)]
           c == SetField(d, v)
<1>1. /\ b.new = d.new /\ b.deleted = d.deleted /\ b.value = d.value /\ b.stamp = d.stamp
      /\ b.orig = d.orig /\ b.origStamp = d.origStamp
      /\ d.flushed = NoBag => b.flushed = NoBag
  BY MarkersAssumption DEF Instances, FlushedAfterSet
<1>2. /\ c.new = d.new /\ c.deleted = d.deleted /\ c.stamp = d.stamp /\ c.origStamp = d.origStamp
      /\ c.flushed = b.flushed
      /\ \/ d.orig = v /\ c.orig = Clean /\ c.value = v
         \/ d.orig # v /\ v = d.value /\ c.orig = d.orig /\ c.value = d.value
         \/ d.orig # v /\ d.orig = Clean /\ c.orig = d.value /\ c.value = v
         \/ d.orig # v /\ d.orig # Clean /\ c.orig = d.orig
  <2>1. CASE d.orig = v
    <3>1. c = [b EXCEPT !.value = v, !.orig = Clean, !.maybe = TRUE]
      BY <2>1 DEF SetField, MarkFieldClean
    <3> QED
      BY <1>1, <2>1, <3>1 DEF Instances
  <2>2. CASE d.orig # v /\ v = d.value
    <3>1. c = b
      BY <2>2 DEF SetField
    <3> QED
      BY <1>1, <2>2, <3>1
  <2>3. CASE d.orig # v /\ v # d.value
    <3>1. c = IF b.orig = Clean THEN [b EXCEPT !.value = v, !.orig = b.value, !.maybe = TRUE]
              ELSE [b EXCEPT !.value = v]
      BY <2>3 DEF SetField, MarkFieldDirty
    <3> QED
      BY <1>1, <2>3, <3>1 DEF Instances
  <2> QED
    BY <2>1, <2>2, <2>3
<1> HIDE DEF b, c
<1>3. d.value \in Val /\ Clean \notin Val
  BY MarkersAssumption DEF Instances
<1>4. \A row : RowFits(d, row) => RowFits(c, row)
  BY <1>2, <1>3 DEF RowFits, Stored
<1> QED
  BY <1>1, <1>2, <1>4 DEF Keeps, Steady, c

\* em.create: the id has no row.
LEMMA CreatedKeeps ==
  ASSUME NEW d \in Instances, NEW v \in Val, ~InMap(d)
  PROVE  Keeps(d, Created(v, clock))
BY DEF Keeps, Created, Hydrated, Steady, RowFits, Stored, InMap

\* em.touch, em.delete and the pruning of candidates.
LEMMA MarksKeep ==
  ASSUME NEW d \in Instances
  PROVE  Keeps(d, MarkTouched(d)) /\ Keeps(d, MarkDeleted(d)) /\ Keeps(d, Prune(d))
<1>1. Keeps(d, MarkTouched(d))
  BY DEF Instances, Keeps, MarkTouched, Steady, RowFits, Stored
<1>2. Keeps(d, MarkDeleted(d))
  BY DEF Instances, Keeps, MarkDeleted, Steady, RowFits, Stored, IsDeleted
<1>3. Keeps(d, Prune(d))
  BY DEF Instances, Keeps, Prune, Steady, RowFits, Stored
<1> QED
  BY <1>1, <1>2, <1>3

\* The bump of updated_at remembers the stamp of the row.
LEMMA BumpFits ==
  ASSUME NEW d \in Instances, NEW t \in Nat
  PROVE  LET c == BumpUpdatedAt(d, t)
         IN /\ Steady(d) => Steady(c)
            /\ \A row : RowFits(d, row) => RowFits(c, row)
            /\ c.new = d.new /\ c.deleted = d.deleted /\ c.stamp = t
BY MarkersAssumption DEF Instances, BumpUpdatedAt, Steady, RowFits, Stored

\* After the reset an instance fits the row that it was saved to.
LEMMA ResetFits ==
  ASSUME NEW d \in Instances, Steady(d), ~(d.new = "pending" /\ IsDeleted(d))
  PROVE  Steady(ResetAfterFlushed(d)) /\ RowFits(ResetAfterFlushed(d), SavedRow(d))
         /\ ResetAfterFlushed(d).stamp = d.stamp
<1> DEFINE c == ResetAfterFlushed(d)
<1>1. /\ c.orig = Clean /\ c.origStamp = Clean /\ c.flushed = NoBag
      /\ c.value = d.value /\ c.stamp = d.stamp
      /\ c.new = IF IsNew(d) THEN "complete" ELSE d.new
      /\ c.deleted = IF IsDeleted(d) THEN "complete" ELSE d.deleted
  BY DEF ResetAfterFlushed, Instances
<1> HIDE DEF c
<1>2. d.new \in {"unborn", "none", "pending", "complete"} /\ d.deleted \in {"none", "pending", "complete"}
  BY DEF Instances, Steady
<1>3. Lives(d) => SavedRow(d) # NoRow /\ SavedRow(d).value = d.value /\ SavedRow(d).stamp = d.stamp
  BY MarksAssumption DEF SavedRow, Instances
<1>4. Steady(c)
  BY <1>1, <1>2 DEF Steady, IsNew, IsDeleted
<1>5. RowFits(c, SavedRow(d))
  BY <1>1, <1>2, <1>3 DEF RowFits, Stored, IsNew, IsDeleted, Lives, InMap, SavedRow
<1> QED
  BY <1>1, <1>4, <1>5 DEF c

\* What has nothing to write is as its row is.
LEMMA NothingPending ==
  ASSUME NEW d \in Instances, Steady(d), PendingOperation(d) = "none", NEW row \in Rows, RowFits(d, row)
  PROVE  row = SavedRow(d)
<1>1. CASE Lives(d)
  <2>1. Stored(d) /\ d.deleted = "none" /\ d.orig = Clean /\ d.origStamp = Clean
    BY <1>1 DEF Lives, Stored, Steady, PendingOperation, Instances, InMap, IsDeleted, IsDirty
  <2>2. row # NoRow /\ row.value = d.value /\ row.stamp = d.stamp
    BY <2>1 DEF RowFits
  <2>3. row \in [value : Val, stamp : Nat]
    BY <2>2 DEF Rows
  <2> QED
    BY <1>1, <2>2, <2>3 DEF SavedRow
<1>2. CASE ~Lives(d)
  BY <1>2 DEF Lives, Stored, Steady, PendingOperation, Instances, InMap, IsDeleted, RowFits, SavedRow
<1> QED
  BY <1>1, <1>2

\* What has nothing to write fits the row that a save of it would make.
LEMMA CleanFits ==
  ASSUME NEW d \in Instances, Steady(d), PendingOperation(d) = "none"
  PROVE  RowFits(d, SavedRow(d))
<1>1. Lives(d) => SavedRow(d) # NoRow /\ SavedRow(d).value = d.value /\ SavedRow(d).stamp = d.stamp
  BY MarksAssumption DEF SavedRow, Instances
<1> QED
  BY <1>1 DEF Lives, Stored, Steady, PendingOperation, Instances, InMap, IsDeleted, IsDirty, RowFits, SavedRow

\* An entity that was created and deleted again.
LEMMA FixupFits ==
  ASSUME NEW d \in Instances, Steady(d), d.new = "pending"
  PROVE  Steady(FixupCreatedThenDeleted(d)) /\ RowFits(FixupCreatedThenDeleted(d), NoRow)
         /\ FixupCreatedThenDeleted(d).stamp = d.stamp
BY DEF FixupCreatedThenDeleted, Instances, Steady, RowFits, Stored
----------------------------------------------------------------------------
(* What edits make of all instances. *)

KeepsAll(m, r) == \A e \in Entity : Keeps(m.inst[e], r.inst[e])

\* setField and em.create.
LEMMA EditedKeeps ==
  ASSUME NEW m \in Managers, clock \in Nat, NEW S \in SUBSET Entity, NEW r \in Edited(m, S)
  PROVE  KeepsAll(m, r)
<1>1. ASSUME NEW f \in [Entity -> Instances], NEW e, r = Notified([m EXCEPT !.inst = f], {e}),
             \A x \in Entity : Keeps(m.inst[x], f[x])
      PROVE  KeepsAll(m, r)
  <2> DEFINE n == [m EXCEPT !.inst = f]
  <2>1. n \in Managers /\ n.inst = f
    BY DEF Managers
  <2> HIDE DEF n
  <2>2. Notified(n, {e}).inst = f
    BY <2>1, NotifiedGrows
  <2>3. r.inst = f
    BY <1>1, <2>2 DEF n
  <2> QED
    BY <1>1, <2>3 DEF KeepsAll
<1>2. ASSUME NEW e \in S, NEW v \in Val, CanSet(m.inst[e]), r = Set(m, e, v) PROVE KeepsAll(m, r)
  <2> DEFINE f == [x \in Entity |-> IF x \in {e} THEN SetField(m.inst[x], v) ELSE m.inst[x]]
  <2>1. \A x \in Entity : f[x] \in Instances /\ Keeps(m.inst[x], f[x])
    BY SetFieldEvolves, SetFieldKeeps, KeepsSelf DEF Managers, Evolves
  <2>2. f \in [Entity -> Instances]
    BY <2>1
  <2>3. r = Notified([m EXCEPT !.inst = f], {e})
    BY <1>2 DEF Set, Update
  <2> QED
    BY <1>1, <2>1, <2>2, <2>3
<1>3. ASSUME NEW e \in S, NEW v \in Val, ~InMap(m.inst[e]), r = Create(m, e, v) PROVE KeepsAll(m, r)
  <2> DEFINE f == [x \in Entity |-> IF x \in {e} THEN Created(v, clock) ELSE m.inst[x]]
  <2>1. \A x \in Entity : f[x] \in Instances /\ Keeps(m.inst[x], f[x])
    BY <1>3, CreatedInstance, CreatedKeeps, KeepsSelf DEF Managers
  <2>2. f \in [Entity -> Instances]
    BY <2>1
  <2>3. r = Notified([m EXCEPT !.inst = f], {e})
    BY <1>3 DEF Create, Update
  <2> QED
    BY <1>1, <2>1, <2>2, <2>3
<1> QED
  BY <1>2, <1>3 DEF Edited

\* em.touch.
LEMMA TouchedKeeps ==
  ASSUME NEW m \in Managers, NEW S \in SUBSET Entity, NEW r \in Touched(m, S)
  PROVE  KeepsAll(m, r)
<1>1. PICK e \in S : r = Touch(m, e)
  BY DEF Touched
<1> DEFINE f == [x \in Entity |-> IF x \in {e} THEN MarkTouched(m.inst[x]) ELSE m.inst[x]]
<1>2. \A x \in Entity : Keeps(m.inst[x], f[x])
  BY MarksKeep, KeepsSelf DEF Managers
<1>3. r.inst = f
  BY <1>1 DEF Touch, Update, Managers
<1> QED
  BY <1>2, <1>3 DEF KeepsAll

\* em.delete.
LEMMA DeleteAllKeeps ==
  ASSUME NEW m \in Managers, NEW S \in SUBSET Entity
  PROVE  KeepsAll(m, DeleteAll(m, S))
<1> DEFINE D == {e \in S : InMap(m.inst[e]) /\ ~IsDeleted(m.inst[e])}
           f == [x \in Entity |-> IF x \in D THEN MarkDeleted(m.inst[x]) ELSE m.inst[x]]
           n == [m EXCEPT !.inst = f]
           marked == [n EXCEPT !.pendingDeletes = @ \cup D]
<1>1. \A x \in Entity : f[x] \in Instances /\ Keeps(m.inst[x], f[x])
  BY MarkDeletedEvolves, MarksKeep, KeepsSelf DEF Managers, Evolves
<1>2. f \in [Entity -> Instances] /\ D \subseteq Entity
  BY <1>1
<1>3. DeleteAll(m, S) = Notified(marked, D)
  BY DEF DeleteAll, Update
<1> HIDE DEF f, D
<1>4. n \in Managers /\ n.inst = f
  BY <1>2 DEF Managers
<1> HIDE DEF n
<1>5. marked \in Managers /\ marked.inst = f
  BY <1>2, <1>4 DEF Managers
<1> HIDE DEF marked
<1>6. DeleteAll(m, S).inst = f
  BY <1>3, <1>5, NotifiedGrows
<1> QED
  BY <1>1, <1>6 DEF KeepsAll

\* em.delete, with or without the children of a loaded collection.
LEMMA DeletedKeeps ==
  ASSUME NEW m \in Managers, NEW S \in SUBSET Entity, NEW r \in Deleted(m, S)
  PROVE  KeepsAll(m, r)
<1>1. PICK e \in S : r = DeleteAll(m, {e}) \/ r = DeleteAll(m, {e} \cup Cascade[e])
  BY DEF Deleted
<1>2. {e} \in SUBSET Entity /\ {e} \cup Cascade[e] \in SUBSET Entity
  BY EntityFlushAssumption
<1> QED
  BY <1>1, <1>2, DeleteAllKeeps

\* A manager that differs in what is queued only.
LEMMA KeepsAllSelf ==
  ASSUME NEW m, NEW r, r.inst = m.inst
  PROVE  KeepsAll(m, r)
BY KeepsSelf DEF KeepsAll

\* Edits follow one another.
LEMMA KeepsAllTransitive ==
  ASSUME NEW m, NEW n, NEW r, KeepsAll(m, n), KeepsAll(n, r)
  PROVE  KeepsAll(m, r)
BY KeepsTransitive DEF KeepsAll

\* Whatever a hook does.
LEMMA HookKeeps ==
  ASSUME NEW m \in Managers, clock \in Nat, NEW r \in HookResults(m)
  PROVE  KeepsAll(m, r)
<1>1. HookEdits \in SUBSET Entity /\ HookDeletes \in SUBSET Entity
  BY EntityFlushAssumption
<1> QED
  BY <1>1, EditedKeeps, DeletedKeeps, KeepsAllSelf DEF HookResults

\* Whatever a reactive field or a reaction does.
LEMMA RecalculatedKeeps ==
  ASSUME NEW m \in Managers, clock \in Nat, NEW r \in Recalculated(m)
  PROVE  KeepsAll(m, r)
<1> DEFINE n == [m EXCEPT !.needs = @ \ {"reactables"}]
<1>1. n \in Managers /\ n.inst = m.inst
  BY DEF Managers
<1>2. Alive(n, Derived) \in SUBSET Entity /\ ReactionDeletes \in SUBSET Entity
  BY EntityFlushAssumption DEF Alive
<1>3. r = n \/ r \in Edited(n, Alive(n, Derived)) \/ r \in Deleted(n, ReactionDeletes)
  BY DEF Recalculated
<1> HIDE DEF n
<1>4. KeepsAll(m, n)
  BY <1>1, KeepsAllSelf
<1> QED
  BY <1>1, <1>2, <1>3, <1>4, EditedKeeps, DeletedKeeps, KeepsAllTransitive

\* Pruning drops candidates and finds no new one.
LEMMA PrunedKeeps ==
  ASSUME NEW m \in Managers
  PROVE  KeepsAll(m, Pruned(m)) /\ Candidates(Pruned(m)) \subseteq Candidates(m)
<1> DEFINE f == [x \in Entity |-> IF x \in Entity THEN Prune(m.inst[x]) ELSE m.inst[x]]
<1>1. Pruned(m).inst = f
  BY DEF Pruned, Update, Managers
<1>2. \A x \in Entity : f[x] = Prune(m.inst[x]) /\ m.inst[x] \in Instances
  BY DEF Managers
<1>3. \A x \in Entity : Keeps(m.inst[x], f[x]) /\ (IsCandidate(f[x]) => IsCandidate(m.inst[x]))
  <2>1. ASSUME NEW d \in Instances PROVE IsCandidate(Prune(d)) => IsCandidate(d)
    BY DEF Prune, IsCandidate, Instances
  <2> QED
    BY <1>2, <2>1, MarksKeep
<1> HIDE DEF f
<1> QED
  BY <1>1, <1>3 DEF KeepsAll, Candidates
----------------------------------------------------------------------------
(* The invariant. *)

\* What the lemmas on steps start from.
Known == TypeOK /\ TypeOK' /\ HookInv /\ AllTracked /\ AllTracked' /\ SaveInv /\ Careful

\* An instance that is only edited needs no new bump, and its stamp is past.
LEMMA EditedSteady ==
  ASSUME Known, KeepsAll(em, em')
  PROVE  /\ AllSteady'
         /\ \A e \in Entity : \A row : RowFits(em.inst[e], row) => RowFits(em'.inst[e], row)
         /\ clock <= clock' => \A e \in Entity : em'.inst[e].stamp <= clock'
<1>1. \A e \in Entity : Keeps(em.inst[e], em'.inst[e])
  BY DEF KeepsAll
<1>2. AllSteady'
  BY <1>1 DEF Known, SaveInv, AllSteady, AllTracked, Keeps
<1>3. ASSUME clock <= clock', NEW e \in Entity PROVE em'.inst[e].stamp <= clock'
  <2>1. em.inst[e].stamp \in Nat /\ em.inst[e].stamp <= clock /\ clock \in Nat /\ clock' \in Nat
    BY DEF Known, SaveInv, StampsPast, TypeOK, Managers, Instances
  <2>2. em'.inst[e].stamp = em.inst[e].stamp \/ em'.inst[e].stamp = clock
    BY <1>1 DEF Keeps
  <2> QED
    BY <1>3, <2>1, <2>2
<1> QED
  BY <1>1, <1>2, <1>3 DEF Keeps

\* Edits do not disturb who has been bumped.
LEMMA EditedBumped ==
  ASSUME Known, KeepsAll(em, em'), Grows(em, em'), now' = now \/ hooksInvoked = {},
         Due' \subseteq Due,
         hooksInvoked = {} => now' = now \/ ~InHooks
  PROVE  BumpedOnce'
<1>1. ASSUME NEW e \in Due, Stored(em'.inst[e]), Lives(em'.inst[e]) PROVE em'.inst[e].stamp = now'
  <2>1. e \in Entity
    BY DEF Known, TypeOK, Due
  <2>2. Stored(em.inst[e]) /\ em'.inst[e].stamp = em.inst[e].stamp /\ em'.inst[e].new = em.inst[e].new
    BY <1>1, <2>1 DEF KeepsAll, Keeps, Stored
  <2>3. Lives(em.inst[e])
    BY <1>1, <2>1, <2>2 DEF Grows, Evolves, Lives, Gone, InMap
  <2>4. em.inst[e].stamp = now
    BY <2>2, <2>3 DEF Known, SaveInv, BumpedOnce, Due
  <2>5. now' = now
    BY DEF Due
  <2> QED
    BY <2>2, <2>4, <2>5
<1> QED
  BY <1>1 DEF BumpedOnce, Due

Quiet == pc \in {"idle", "openDeletes", "openRecalc", "pass", "hooks", "settleDeletes", "settleRecalc"}

\* The steps before the writes, except the ones that bump, prune or collect.
LEMMA QuietStep ==
  ASSUME Known, KeepsAll(em, em'), Grows(em, em'), Quiet, Quiet',
         UNCHANGED <<dbVars, writeVars, hooksInvoked, pendingHooks>>,
         Before' => Before, InHooks' <=> InHooks,
         UNCHANGED timeVars \/ (NewNow /\ Before),
         pc' = "pass" /\ pc # "pass" => NewNow
  PROVE  SaveInv'
<1>1. /\ db' = db /\ tx' = tx /\ inTx' = inTx /\ toFlush' = toFlush /\ todo' = todo /\ allFlushed' = allFlushed
      /\ createdThenDeleted' = createdThenDeleted /\ hooksInvoked' = hooksInvoked /\ pendingHooks' = pendingHooks
  BY DEF dbVars, writeVars
<1>2. /\ clock \in Nat /\ now \in Nat /\ clock' \in Nat /\ now' \in Nat /\ clock <= clock'
      /\ \A e \in Entity : db[e] # NoRow => db[e].stamp \in Nat
  BY DEF Known, TypeOK, Rows, NewNow, timeVars
<1>3. AllSteady' /\ RowsFit'
  BY <1>1, EditedSteady DEF Known, SaveInv, RowsFit, Quiet
<1>4. StampsPast'
  <2>1. \A e \in Entity : em'.inst[e].stamp <= clock' /\ (db'[e] # NoRow => db'[e].stamp <= clock')
    BY <1>1, <1>2, EditedSteady DEF Known, SaveInv, StampsPast
  <2>2. ASSUME pc' \in {"pass", "loop", "hooks", "settleDeletes", "settleRecalc", "validate", "write"}
        PROVE  now' <= clock' /\ \A e \in Entity : db'[e] # NoRow => db'[e].stamp < now'
    <3>1. CASE NewNow
      BY <1>1, <1>2, <3>1 DEF NewNow, Known, SaveInv, StampsPast
    <3>2. CASE UNCHANGED timeVars /\ ~NewNow
      <4>1. pc \in {"pass", "hooks", "settleDeletes", "settleRecalc"}
        BY <2>2, <3>2 DEF Quiet, InHooks
      <4> QED
        BY <1>1, <1>2, <3>2, <4>1 DEF timeVars, Known, SaveInv, StampsPast
    <3> QED
      BY <3>1, <3>2
  <2> QED
    BY <2>1, <2>2 DEF StampsPast
<1>5. BumpedOnce'
  <2>1. Before => hooksInvoked = {} /\ ~InHooks
    BY DEF Known, SaveInv, LocalsOk, Before, InHooks
  <2>2. now' = now \/ (hooksInvoked = {} /\ ~InHooks)
    BY <2>1 DEF timeVars
  <2> QED
    BY <1>1, <2>2, EditedBumped DEF Due
<1>6. LocalsOk'
  <2>1. pc' \notin {"query", "queryRecalc", "loop"}
    BY DEF Quiet
  <2>2. Before' => hooksInvoked' = {}
    BY <1>1 DEF Known, SaveInv, LocalsOk
  <2>3. Before \/ InPass
    BY DEF Quiet, Before, InPass
  <2> QED
    BY <1>1, <2>1, <2>2, <2>3 DEF Known, SaveInv, LocalsOk
<1>7. TodosOk' /\ TableOk'
  BY <1>1 DEF Quiet, Known, SaveInv, TodosOk, TableOk, Writing
<1> QED
  BY <1>3, <1>4, <1>5, <1>6, <1>7 DEF SaveInv

\* The candidates are collected: nobody is bumped before their hooks are due.
LEMMA StartPassSaves == Known /\ StartPass => SaveInv'
<1> SUFFICES ASSUME Known, StartPass PROVE SaveInv'
  OBVIOUS
<1>1. /\ pc = "pass" /\ pc' = "loop" /\ db' = db /\ tx' = tx /\ inTx' = inTx /\ now' = now /\ clock' = clock
      /\ createdThenDeleted' = createdThenDeleted /\ allFlushed' = allFlushed
      /\ hooksInvoked' = hooksInvoked /\ pendingFlush' = Candidates(em)
  BY DEF StartPass, dbVars, timeVars, writeVars
<1>2. hooksInvoked = {} /\ createdThenDeleted = {} /\ allFlushed = {}
  BY <1>1 DEF Known, SaveInv, LocalsOk, Before
<1>3. em \in Managers /\ clock \in Nat
  BY DEF Known, TypeOK
<1>4. em'.inst = Pruned(em).inst
  <2>1. em' = Bumped(Pruned(em), {})
    BY <1>2 DEF StartPass
  <2>2. Pruned(em) \in Managers
    BY <1>3, PrunedGrows DEF Grows
  <2> QED
    BY <2>1, <2>2 DEF Bumped, CreateTodos, Update, Managers
<1>5. KeepsAll(em, em') /\ Candidates(em') \subseteq Candidates(em)
  BY <1>3, <1>4, PrunedKeeps DEF KeepsAll, Candidates
<1>6. AllSteady' /\ RowsFit'
  BY <1>1, <1>5, EditedSteady DEF Known, SaveInv, RowsFit
<1>7. StampsPast'
  BY <1>1, <1>3, <1>5, EditedSteady DEF Known, SaveInv, StampsPast
<1>8. BumpedOnce'
  BY <1>1, <1>2 DEF BumpedOnce, Due, InHooks
<1>9. LocalsOk'
  BY <1>1, <1>2, <1>5 DEF LocalsOk, Before
<1>10. TodosOk' /\ TableOk'
  BY <1>1 DEF Known, SaveInv, TodosOk, TableOk, Writing
<1> QED
  BY <1>6, <1>7, <1>8, <1>9, <1>10 DEF SaveInv

\* The entities whose hooks are due and that are to be updated get the timestamp.
LEMMA OpenHooksSaves == Known /\ OpenHooks => SaveInv'
<1> SUFFICES ASSUME Known, OpenHooks PROVE SaveInv'
  OBVIOUS
<1>1. /\ pc = "loop" /\ pc' = "hooks" /\ db' = db /\ tx' = tx /\ inTx' = inTx /\ now' = now /\ clock' = clock
      /\ createdThenDeleted' = createdThenDeleted /\ allFlushed' = allFlushed
      /\ hooksInvoked' = hooksInvoked /\ pendingHooks' = pendingHooks
  BY DEF OpenHooks, dbVars, timeVars, writeVars
<1>2. /\ em \in Managers /\ clock \in Nat /\ now \in Nat /\ now <= clock
      /\ pendingHooks \subseteq Entity /\ hooksInvoked \subseteq Entity
  BY <1>1 DEF Known, TypeOK, SaveInv, StampsPast
<1> DEFINE U == CreateTodos(em, pendingHooks).updates
<1>3. \A e \in Entity : em'.inst[e] = IF e \in U THEN BumpUpdatedAt(em.inst[e], now) ELSE em.inst[e]
  BY <1>2 DEF OpenHooks, Bumped, Update, Managers
<1>4. U = {e \in pendingHooks : Op(em, e) = "update"}
  BY DEF CreateTodos
<1> HIDE DEF U
<1>5. ASSUME NEW e \in Entity
      PROVE  /\ Steady(em'.inst[e])
             /\ \A row : RowFits(em.inst[e], row) => RowFits(em'.inst[e], row)
             /\ em'.inst[e].new = em.inst[e].new /\ em'.inst[e].deleted = em.inst[e].deleted
             /\ em'.inst[e].stamp = IF e \in U THEN now ELSE em.inst[e].stamp
  <2>1. em.inst[e] \in Instances /\ Steady(em.inst[e])
    BY <1>2 DEF Managers, Known, SaveInv, AllSteady
  <2> QED
    BY <1>2, <1>3, <2>1, BumpFits
<1>6. AllSteady'
  BY <1>5 DEF Known, AllTracked, AllSteady
<1>7. RowsFit'
  BY <1>1, <1>5 DEF Known, SaveInv, RowsFit
<1>8. StampsPast'
  BY <1>1, <1>2, <1>5 DEF Known, SaveInv, StampsPast
<1>9. BumpedOnce'
  <2>1. ASSUME NEW e \in hooksInvoked \cup pendingHooks, Stored(em'.inst[e]), Lives(em'.inst[e])
        PROVE  em'.inst[e].stamp = now
    <3>1. e \in Entity
      BY <1>2
    <3>2. Stored(em.inst[e]) /\ Lives(em.inst[e])
      BY <1>5, <2>1, <3>1 DEF Stored, Lives, InMap, IsDeleted
    <3>3. CASE e \in hooksInvoked
      BY <1>5, <3>1, <3>2, <3>3 DEF Known, SaveInv, BumpedOnce, Due
    <3>4. CASE e \in pendingHooks
      <4>1. Op(em, e) # "none"
        BY <1>1, <3>2, <3>4 DEF Known, HookInv, PendingHasWork, Lives, Gone
      <4>2. Op(em, e) = "update"
        BY <1>2, <3>1, <3>2, <4>1 DEF Op, PendingOperation, Stored, Lives, Managers, Instances
      <4> QED
        BY <1>4, <1>5, <3>1, <3>4, <4>2
    <3> QED
      BY <2>1, <3>3, <3>4
  <2> QED
    BY <1>1, <2>1 DEF BumpedOnce, Due, InHooks
<1>10. LocalsOk' /\ TodosOk' /\ TableOk'
  BY <1>1 DEF Known, SaveInv, LocalsOk, TodosOk, TableOk, Writing, Before, InPass
<1> QED
  BY <1>6, <1>7, <1>8, <1>9, <1>10 DEF SaveInv

\* The entities of this loop count as bumped; the candidates are collected again.
LEMMA EndHooksSaves == Known /\ Grows(em, em') /\ EndHooks => SaveInv'
<1> SUFFICES ASSUME Known, Grows(em, em'), EndHooks PROVE SaveInv'
  OBVIOUS
<1>1. /\ pc = "settleRecalc" /\ pc' = "loop" /\ db' = db /\ tx' = tx /\ inTx' = inTx /\ now' = now /\ clock' = clock
      /\ createdThenDeleted' = createdThenDeleted /\ allFlushed' = allFlushed /\ em' = Pruned(em)
      /\ hooksInvoked' = hooksInvoked \cup pendingHooks /\ Candidates(em) \subseteq pendingFlush'
  BY DEF EndHooks, dbVars, timeVars, writeVars
<1>2. em \in Managers /\ clock \in Nat
  BY DEF Known, TypeOK
<1>3. KeepsAll(em, em') /\ Candidates(em') \subseteq Candidates(em)
  BY <1>1, <1>2, PrunedKeeps
<1>4. AllSteady' /\ RowsFit'
  BY <1>1, <1>3, EditedSteady DEF Known, SaveInv, RowsFit
<1>5. StampsPast'
  BY <1>1, <1>2, <1>3, EditedSteady DEF Known, SaveInv, StampsPast
<1>6. BumpedOnce'
  BY <1>1, <1>3, EditedBumped DEF Due, InHooks
<1>7. LocalsOk'
  BY <1>1, <1>3 DEF Known, SaveInv, LocalsOk, Before, InPass
<1>8. TodosOk' /\ TableOk'
  BY <1>1 DEF Known, SaveInv, TodosOk, TableOk, Writing
<1> QED
  BY <1>4, <1>5, <1>6, <1>7, <1>8 DEF SaveInv
\* The todos are made of what memory holds, and of all that is pending.
LEMMA EndPassSaves == Known /\ EndPass => SaveInv'
<1> SUFFICES ASSUME Known, EndPass PROVE SaveInv'
  OBVIOUS
<1>1. /\ pc = "loop" /\ pc' = "validate" /\ db' = db /\ tx' = tx /\ inTx' = inTx /\ now' = now /\ clock' = clock
      /\ em' = em /\ hooksInvoked' = hooksInvoked /\ pendingHooks' = pendingHooks /\ pendingHooks = {}
  BY DEF EndPass, dbVars, timeVars, hookVars
<1> DEFINE gone == CreatedThenDeleted(em, pendingFlush)
<1>2. toFlush' = pendingFlush \ gone /\ createdThenDeleted' = gone /\ allFlushed' = toFlush'
      /\ todo' = CreateTodos(em, toFlush')
  BY <1>1 DEF EndPass, Known, SaveInv, LocalsOk, InPass
<1>3. pendingFlush \subseteq Entity /\ pendingFlush \subseteq hooksInvoked /\ Candidates(em) \subseteq pendingFlush
  BY <1>1 DEF Known, TypeOK, HookInv, FlushKnown, InPass, SaveInv, LocalsOk
<1>4. \A e \in Entity : Op(em, e) # "none" => e \in pendingFlush
  BY <1>3 DEF Known, AllTracked, Tracked, Candidates, IsCandidate, Op
<1>5. \A e \in pendingFlush : e \in gone <=> IsDeleted(em.inst[e]) /\ em.inst[e].new = "pending"
  <2>1. \A e \in pendingFlush : e \in gone <=> IsDeleted(em.inst[e]) /\ IsNew(em.inst[e])
    BY DEF CreatedThenDeleted
  <2>2. \A e \in pendingFlush : em.inst[e].new # "flushed"
    BY <1>3 DEF Known, SaveInv, AllSteady, Steady
  <2> QED
    BY <2>1, <2>2 DEF IsNew
<1>6. gone \subseteq pendingFlush
  BY DEF CreatedThenDeleted
<1> HIDE DEF gone
<1>7. \A e \in todo'.updates : em'.inst[e].stamp = now'
  <2>1. \A e \in todo'.updates : e \in toFlush' /\ Op(em, e) = "update"
    BY <1>2 DEF CreateTodos
  <2>2. \A e \in todo'.updates : e \in hooksInvoked /\ e \in Entity
    BY <1>2, <1>3, <2>1
  <2>3. \A e \in todo'.updates : Stored(em.inst[e]) /\ Lives(em.inst[e])
    BY <2>1, <2>2 DEF Op, PendingOperation, Stored, Lives, Known, TypeOK, Managers, Instances, SaveInv, AllSteady,
                      Steady, InMap, IsDeleted
  <2> QED
    BY <1>1, <2>2, <2>3 DEF Known, SaveInv, BumpedOnce, Due
<1>8. TodosOk'
  <2>1. /\ todo' = CreateTodos(em', toFlush') /\ allFlushed' = toFlush'
        /\ \A e \in Entity : Op(em', e) # "none" => e \in toFlush' \cup createdThenDeleted'
        /\ \A e \in createdThenDeleted' : IsDeleted(em'.inst[e]) /\ em'.inst[e].new = "pending"
        /\ \A e \in toFlush' : ~(IsDeleted(em'.inst[e]) /\ em'.inst[e].new = "pending")
    BY <1>1, <1>2, <1>4, <1>5, <1>6
  <2> QED
    BY <1>7, <2>1 DEF TodosOk
<1>9. AllSteady' /\ RowsFit' /\ StampsPast'
  BY <1>1 DEF Known, SaveInv, AllSteady, RowsFit, StampsPast
<1>10. BumpedOnce'
  BY <1>1 DEF Known, SaveInv, BumpedOnce, Due, InHooks
<1>11. LocalsOk' /\ TableOk'
  BY <1>1 DEF Known, SaveInv, LocalsOk, TableOk, Before, InPass
<1> QED
  BY <1>8, <1>9, <1>10, <1>11 DEF SaveInv

\* A write makes the row that memory wants of every entity; those that are not
\* written have it already.
LEMMA WrittenRows ==
  ASSUME Known, Write
  PROVE  \A e \in Entity : tx'[e] = SavedRow(em.inst[e])
<1>1. /\ pc = "write" /\ WriteHolds /\ tx = db
      /\ todo = CreateTodos(em, toFlush)
      /\ \A e \in todo.updates : em.inst[e].stamp = now
      /\ \A e \in Entity : db[e] # NoRow => db[e].stamp < now
      /\ toFlush \subseteq Entity /\ em \in Managers /\ now \in Nat
  BY DEF Write, Known, SaveInv, TodosOk, TableOk, StampsPast, Writing, TypeOK
<1> SUFFICES ASSUME NEW e \in Entity PROVE tx'[e] = SavedRow(em.inst[e])
  OBVIOUS
<1>2. tx'[e] = IF e \in todo.inserts \cup todo.updates THEN Row(em.inst[e], tx[e])
               ELSE IF e \in todo.deletes THEN NoRow ELSE tx[e]
  BY DEF Write
<1>3. em.inst[e] \in Instances /\ Steady(em.inst[e]) /\ db[e] \in Rows /\ RowFits(em.inst[e], db[e])
  BY <1>1 DEF Managers, Known, SaveInv, AllSteady, RowsFit, TypeOK
<1>4. CASE e \in todo.inserts \cup todo.updates
  <2>1. Lives(em.inst[e])
    BY <1>1, <1>3, <1>4, Operations DEF Gone, Lives
  <2>2. ~(tx[e] # NoRow /\ tx[e].stamp = em.inst[e].stamp)
    <3>1. CASE e \in todo.inserts
      BY <1>1, <3>1 DEF WriteHolds
    <3>2. CASE e \in todo.updates /\ tx[e] # NoRow
      <4>1. tx[e].stamp < now /\ em.inst[e].stamp = now /\ tx[e].stamp \in Nat
        BY <1>1, <1>3, <3>2 DEF Rows
      <4> QED
        BY <1>1, <4>1
    <3> QED
      BY <1>4, <3>1, <3>2
  <2>3. Row(em.inst[e], tx[e]) = [value |-> em.inst[e].value, stamp |-> em.inst[e].stamp]
    BY <2>2 DEF Row
  <2> QED
    BY <1>2, <1>4, <2>1, <2>3 DEF SavedRow
<1>5. CASE e \notin todo.inserts \cup todo.updates /\ e \in todo.deletes
  <2>1. Op(em, e) = "delete"
    BY <1>1, <1>5 DEF CreateTodos
  <2>2. ~Lives(em.inst[e])
    BY <1>3, <2>1 DEF Op, PendingOperation, Lives, Instances, InMap
  <2> QED
    BY <1>2, <1>5, <2>2 DEF SavedRow
<1>6. CASE e \notin todo.inserts \cup todo.updates \cup todo.deletes
  <2>1. tx'[e] = db[e]
    BY <1>1, <1>2, <1>6
  <2>2. CASE Op(em, e) = "none"
    BY <1>3, <2>1, <2>2, NothingPending DEF Op
  <2>3. CASE Op(em, e) # "none"
    <3>1. e \in toFlush => Op(em, e) \notin {"insert", "update", "delete"}
      BY <1>1, <1>6 DEF CreateTodos
    <3>2. \/ Op(em, e) \in {"insert", "update", "delete"}
          \/ IsDeleted(em.inst[e]) /\ em.inst[e].new = "pending"
      BY <1>3, <2>3 DEF Op, PendingOperation, Instances, InMap
    <3>3. e \in toFlush \cup createdThenDeleted
      BY <1>1, <2>3 DEF Known, SaveInv, TodosOk, Writing
    <3>4. IsDeleted(em.inst[e]) /\ em.inst[e].new = "pending"
      BY <1>1, <3>1, <3>2, <3>3 DEF Known, SaveInv, TodosOk, Writing
    <3> QED
      BY <1>3, <2>1, <3>4 DEF RowFits, Stored, Lives, SavedRow
  <2> QED
    BY <2>2, <2>3
<1> QED
  BY <1>4, <1>5, <1>6

\* Validation, the write and the COMMIT.
LEMMA WritingSaves == Known /\ (Validated \/ Write \/ LastPass \/ Commit) => SaveInv'
<1> SUFFICES ASSUME Known, Validated \/ Write \/ LastPass \/ Commit PROVE SaveInv'
  OBVIOUS
<1>1. /\ em' = em /\ now' = now /\ clock' = clock /\ hooksInvoked' = hooksInvoked /\ pendingHooks' = pendingHooks
      /\ pendingFlush' = pendingFlush /\ toFlush' = toFlush /\ todo' = todo /\ allFlushed' = allFlushed
      /\ createdThenDeleted' = createdThenDeleted
  BY DEF Validated, Write, LastPass, Commit, hookVars, writeVars, timeVars, dbVars
<1>2. /\ pc \in {"validate", "write", "written", "commit"} /\ pc' \in {"write", "written", "commit", "committed"}
      /\ pc' = "write" => pc = "validate"
  <2>1. Validated => pc = "validate" /\ pc' = "write"
    BY DEF Validated, Known, SaveInv, TableOk
  <2> QED
    BY <2>1 DEF Validated, Write, LastPass, Commit
<1>3. CASE Commit
  <2>1. pc = "commit" /\ pc' = "committed" /\ db' = tx /\ tx' = tx /\ inTx' = FALSE
    BY <1>3 DEF Commit
  <2>2. \A e \in Entity : tx[e] = SavedRow(em.inst[e])
    BY <2>1 DEF Known, SaveInv, TableOk
  <2>3. \A e \in Entity : db'[e] # NoRow => db'[e].stamp = em.inst[e].stamp
    <3>1. \A d : SavedRow(d) # NoRow => SavedRow(d).stamp = d.stamp
      BY DEF SavedRow
    <3> QED
      BY <2>1, <2>2, <3>1
  <2>4. StampsPast'
    BY <1>1, <2>1, <2>3 DEF Known, SaveInv, StampsPast
  <2>5. RowsFit' /\ TableOk'
    BY <1>1, <2>1, <2>2 DEF RowsFit, TableOk
  <2>6. AllSteady' /\ LocalsOk' /\ TodosOk'
    BY <1>1, <2>1 DEF Known, SaveInv, AllSteady, LocalsOk, TodosOk, Writing, Before, InPass
  <2>7. BumpedOnce'
    BY <1>1, <2>1 DEF Known, SaveInv, BumpedOnce, Due, InHooks
  <2> QED
    BY <2>4, <2>5, <2>6, <2>7 DEF SaveInv
<1>4. CASE Validated \/ Write \/ LastPass
  <2>1. db' = db
    BY <1>4 DEF Validated, Write, LastPass, dbVars
  <2>2. pc' # "committed" /\ pc # "committed"
    BY <1>4 DEF Validated, Write, LastPass
  <2>3. AllSteady' /\ RowsFit'
    BY <1>1, <2>1, <2>2 DEF Known, SaveInv, AllSteady, RowsFit
  <2>4. StampsPast'
    BY <1>1, <1>2, <2>1 DEF Known, SaveInv, StampsPast
  <2>5. BumpedOnce' /\ LocalsOk'
    BY <1>1, <1>2 DEF Known, SaveInv, BumpedOnce, Due, LocalsOk, InHooks, Before, InPass
  <2>6. TodosOk'
    BY <1>1, <1>2 DEF Known, SaveInv, TodosOk, Writing
  <2>7. TableOk'
    <3>1. CASE Write
      <4>1. \A e \in Entity : tx'[e] = SavedRow(em'.inst[e])
        BY <1>1, <3>1, WrittenRows
      <4> QED
        BY <3>1, <4>1 DEF TableOk, Write
    <3>2. CASE Validated
      BY <1>1, <3>2 DEF Known, SaveInv, TableOk, Validated
    <3>3. CASE LastPass
      BY <1>1, <3>3 DEF Known, SaveInv, TableOk, LastPass, dbVars
    <3> QED
      BY <1>4, <3>1, <3>2, <3>3
  <2> QED
    BY <2>3, <2>4, <2>5, <2>6, <2>7 DEF SaveInv
<1> QED
  BY <1>3, <1>4

\* A flush that ended leaves an instance that remembers its row.
LEMMA EndSaves ==
  ASSUME Known, EndOfFlush, db' = db,
         \A e \in Entity : /\ Steady(em'.inst[e]) /\ RowFits(em'.inst[e], db[e])
                           /\ em'.inst[e].stamp <= clock
  PROVE  SaveInv'
<1>1. /\ pc' = "idle" /\ tx' = db' /\ inTx' = FALSE /\ hooksInvoked' = {} /\ allFlushed' = {}
      /\ createdThenDeleted' = {} /\ clock' = clock
  BY DEF EndOfFlush
<1>2. AllSteady' /\ RowsFit'
  BY <1>1 DEF Known, AllTracked, AllSteady, RowsFit
<1>3. StampsPast'
  BY <1>1 DEF Known, SaveInv, StampsPast
<1>4. BumpedOnce' /\ LocalsOk' /\ TodosOk' /\ TableOk'
  BY <1>1 DEF BumpedOnce, Due, LocalsOk, TodosOk, TableOk, InHooks, InPass, Before, Writing
<1> QED
  BY <1>2, <1>3, <1>4 DEF SaveInv

\* A flush that failed leaves the rows alone, and memory as the hooks left it.
LEMMA FailedSaves ==
  ASSUME Known, EndOfFlush, db' = db, KeepsAll(em, em'), pc # "committed"
  PROVE  SaveInv'
<1>1. clock' = clock /\ clock \in Nat
  BY DEF EndOfFlush, Known, TypeOK, timeVars
<1>2. \A e \in Entity : /\ Steady(em'.inst[e]) /\ RowFits(em'.inst[e], db[e])
                        /\ em'.inst[e].stamp <= clock
  BY <1>1, EditedSteady DEF Known, SaveInv, AllSteady, RowsFit
<1> QED
  BY <1>2, EndSaves

\* Nothing was to be written: the entities created and deleted again have no row.
LEMMA NothingFlushedSaves == Known /\ NothingFlushed => SaveInv'
<1> SUFFICES ASSUME Known, NothingFlushed PROVE SaveInv'
  OBVIOUS
<1>1. pc = "validate" /\ db' = db /\ EndOfFlush /\ em' = Fixup(em) /\ em \in Managers
  BY DEF NothingFlushed, Known, TypeOK
<1>2. \A e \in createdThenDeleted : em.inst[e].new = "pending"
  BY <1>1 DEF Known, SaveInv, TodosOk, Writing
<1>3. ASSUME NEW e \in Entity
      PROVE  Steady(em'.inst[e]) /\ RowFits(em'.inst[e], db[e]) /\ em'.inst[e].stamp <= clock
  <2>1. em'.inst[e] = IF e \in createdThenDeleted THEN FixupCreatedThenDeleted(em.inst[e]) ELSE em.inst[e]
    BY <1>1 DEF Fixup, Update, Managers
  <2>2. /\ em.inst[e] \in Instances /\ Steady(em.inst[e]) /\ RowFits(em.inst[e], db[e])
        /\ em.inst[e].stamp <= clock
    BY <1>1 DEF Managers, Known, SaveInv, AllSteady, RowsFit, StampsPast
  <2>3. em.inst[e].new = "pending" => db[e] = NoRow
    BY <2>2 DEF RowFits, Stored
  <2> QED
    BY <1>2, <2>1, <2>2, <2>3, FixupFits
<1> QED
  BY <1>1, <1>3, EndSaves

\* After the COMMIT every instance remembers the row that it was saved to.
LEMMA ResetSaves == Known /\ Reset => SaveInv'
<1> SUFFICES ASSUME Known, Reset PROVE SaveInv'
  OBVIOUS
<1> DEFINE m == Update(em, allFlushed, ResetAfterFlushed)
<1>1. pc = "committed" /\ db' = db /\ EndOfFlush /\ em' = Fixup(m) /\ em \in Managers
  BY DEF Reset, ToReset, Known, TypeOK
<1>2. m \in Managers
  BY <1>1, ResetGrows DEF Grows
<1>3. /\ \A e \in Entity : Op(em, e) # "none" => e \in allFlushed \cup createdThenDeleted
      /\ \A e \in createdThenDeleted : IsDeleted(em.inst[e]) /\ em.inst[e].new = "pending"
      /\ \A e \in allFlushed : ~(IsDeleted(em.inst[e]) /\ em.inst[e].new = "pending")
      /\ \A e \in Entity : db[e] = SavedRow(em.inst[e])
  BY <1>1 DEF Known, SaveInv, TodosOk, TableOk, Writing
<1>4. ASSUME NEW e \in Entity
      PROVE  Steady(em'.inst[e]) /\ RowFits(em'.inst[e], db[e]) /\ em'.inst[e].stamp <= clock
  <2>1. m.inst[e] = IF e \in allFlushed THEN ResetAfterFlushed(em.inst[e]) ELSE em.inst[e]
    BY <1>1 DEF Update, Managers
  <2> HIDE DEF m
  <2>2. em'.inst[e] = IF e \in createdThenDeleted THEN FixupCreatedThenDeleted(m.inst[e]) ELSE m.inst[e]
    BY <1>1, <1>2 DEF Fixup, Update, Managers
  <2>3. em.inst[e] \in Instances /\ Steady(em.inst[e]) /\ em.inst[e].stamp <= clock
    BY <1>1 DEF Managers, Known, SaveInv, AllSteady, StampsPast
  <2>4. CASE e \in allFlushed
    <3>1. e \notin createdThenDeleted /\ em'.inst[e] = ResetAfterFlushed(em.inst[e])
      BY <1>3, <2>1, <2>2, <2>4
    <3> QED
      BY <1>3, <2>3, <2>4, <3>1, ResetFits
  <2>5. CASE e \in createdThenDeleted
    <3>1. em'.inst[e] = FixupCreatedThenDeleted(em.inst[e]) /\ db[e] = NoRow
      BY <1>3, <2>1, <2>2, <2>5 DEF SavedRow, Lives
    <3> QED
      BY <1>3, <2>3, <2>5, <3>1, FixupFits
  <2>6. CASE e \notin allFlushed \cup createdThenDeleted
    BY <1>3, <2>1, <2>2, <2>3, <2>6, CleanFits DEF Op
  <2> QED
    BY <2>4, <2>5, <2>6
<1> QED
  BY <1>1, <1>4, EndSaves
\* The steps that edit do so as the lemmas on edits say.
LEMMA EditSteps ==
  ASSUME TypeOK, AppEdit \/ TakeDeletes \/ CascadeBatch \/ RecalcReactables \/ (\E e \in Entity : RunHook(e))
  PROVE  KeepsAll(em, em')
<1>1. em \in Managers /\ clock \in Nat /\ {AppEdits, AppDeletes} \subseteq SUBSET Entity
  BY EntityFlushAssumption DEF TypeOK
<1>2. CASE AppEdit
  BY <1>1, <1>2, EditedKeeps, TouchedKeeps, DeletedKeeps DEF AppEdit
<1>3. CASE TakeDeletes
  <2>1. em'.inst = em.inst
    BY <1>1, <1>3 DEF TakeDeletes, Managers
  <2> QED
    BY <2>1, KeepsAllSelf
<1>4. CASE CascadeBatch
  <2> DEFINE m == DeleteAll(em, UNION {Cascade[e] : e \in deleting})
  <2>1. PICK r \in {m} \cup HookResults(m) : em' = [r EXCEPT !.pendingDeletes = {}]
    BY <1>4 DEF CascadeBatch, HookResults
  <2>2. UNION {Cascade[e] : e \in deleting} \in SUBSET Entity
    BY EntityFlushAssumption DEF TypeOK
  <2>3. KeepsAll(em, m) /\ m \in Managers
    BY <1>1, <2>2, DeleteAllKeeps, DeleteAllGrows DEF Grows
  <2> HIDE DEF m
  <2>4. KeepsAll(em, r) /\ r \in Managers
    BY <1>1, <2>1, <2>3, HookKeeps, HookGrows, KeepsAllTransitive DEF Grows
  <2>5. em'.inst = r.inst
    BY <2>1, <2>4 DEF Managers
  <2> QED
    BY <2>4, <2>5 DEF KeepsAll
<1>5. CASE RecalcReactables
  BY <1>1, <1>5, RecalculatedKeeps DEF RecalcReactables
<1>6. CASE \E e \in Entity : RunHook(e)
  BY <1>1, <1>6, HookKeeps, KeepsAllSelf DEF RunHook
<1> QED
  BY <1>2, <1>3, <1>4, <1>5, <1>6

\* Every step before the writes is quiet, or one of the three with a lemma.
LEMMA EditPhaseSaves ==
  ASSUME Known, [Next]_vars, Grows(em, em'),
         AppEdit \/ StartFlush \/ TakeDeletes \/ CascadeBatch \/ DeletesDrained \/ RecalcReactables
           \/ OpenSettled \/ (\E e \in Entity : RunHook(e)) \/ HooksDone \/ SettleAgain
  PROVE  SaveInv'
<1>1. KeepsAll(em, em')
  <2>1. StartFlush \/ DeletesDrained \/ OpenSettled \/ HooksDone \/ SettleAgain => em' = em
    BY DEF StartFlush, DeletesDrained, OpenSettled, HooksDone, SettleAgain
  <2> QED
    BY <2>1, EditSteps, KeepsAllSelf DEF Known
<1>2. UNCHANGED <<dbVars, writeVars, hooksInvoked, pendingHooks>>
  BY DEF AppEdit, StartFlush, TakeDeletes, CascadeBatch, DeletesDrained, RecalcReactables, OpenSettled, RunHook,
         HooksDone, SettleAgain, hookVars
<1>3. /\ pc \in {"idle", "openDeletes", "openRecalc", "hooks", "settleDeletes", "settleRecalc"}
      /\ pc' \in {"idle", "openDeletes", "openRecalc", "pass", "hooks", "settleDeletes", "settleRecalc"}
      /\ pc' \in {"idle", "openDeletes", "openRecalc", "pass"} <=> pc \in {"idle", "openDeletes", "openRecalc"}
  <2>1. pc # "queryRecalc"
    BY DEF Known, SaveInv, LocalsOk
  <2> QED
    BY <2>1 DEF AppEdit, StartFlush, TakeDeletes, CascadeBatch, DeletesDrained, RecalcReactables, OpenSettled,
                RunHook, HooksDone, SettleAgain
<1>4. UNCHANGED timeVars \/ (NewNow /\ pc = "openRecalc")
  BY DEF AppEdit, StartFlush, TakeDeletes, CascadeBatch, DeletesDrained, RecalcReactables, OpenSettled, RunHook,
         HooksDone, SettleAgain
<1>5. pc' = "pass" => NewNow
  BY <1>3 DEF AppEdit, StartFlush, TakeDeletes, CascadeBatch, DeletesDrained, RecalcReactables, OpenSettled, RunHook,
         HooksDone, SettleAgain
<1>6. Quiet /\ Quiet' /\ (Before' => Before) /\ (InHooks' <=> InHooks)
  BY <1>3 DEF Quiet, Before, InHooks
<1> QED
  BY <1>1, <1>2, <1>4, <1>5, <1>6, QuietStep DEF Before

\* The rows are what was loaded, and nothing is in progress.
LEMMA SaveInit == Init => SaveInv
<1> SUFFICES ASSUME Init PROVE SaveInv
  OBVIOUS
<1>1. /\ pc = "idle" /\ inTx = FALSE /\ tx = db /\ hooksInvoked = {} /\ createdThenDeleted = {} /\ allFlushed = {}
      /\ clock = 0 /\ em.needs = {}
  BY DEF Init
<1>2. ASSUME NEW e \in Entity
      PROVE  /\ Steady(em.inst[e]) /\ RowFits(em.inst[e], db[e]) /\ em.inst[e].stamp <= clock
             /\ db[e] # NoRow => db[e].stamp <= clock
  <2>1. CASE e \in Loaded
    <3>1. em.inst[e] = Hydrated(InitialValue, 0) /\ db[e] = [value |-> InitialValue, stamp |-> 0]
      BY <2>1 DEF Init
    <3>2. db[e] # NoRow
      BY <3>1, MarksAssumption, EntityFlushAssumption
    <3> QED
      BY <1>1, <3>1, <3>2 DEF Hydrated, Steady, RowFits, Stored
  <2>2. CASE e \notin Loaded
    <3>1. em.inst[e] = Unborn(InitialValue) /\ db[e] = NoRow
      BY <2>2 DEF Init
    <3> QED
      BY <1>1, <3>1 DEF Unborn, Hydrated, Steady, RowFits, Stored
  <2> QED
    BY <2>1, <2>2
<1>3. AllSteady /\ RowsFit
  BY <1>1, <1>2 DEF AllSteady, RowsFit
<1>4. StampsPast /\ BumpedOnce /\ LocalsOk /\ TodosOk /\ TableOk
  BY <1>1, <1>2 DEF StampsPast, BumpedOnce, Due, LocalsOk, TodosOk, TableOk, InHooks, InPass, Before, Writing
<1> QED
  BY <1>3, <1>4 DEF SaveInv

\* Every action keeps the invariant of the saves.
LEMMA SaveStep ==
  TypeOK /\ TypeOK' /\ HookInv /\ AllTracked /\ AllTracked' /\ SaveInv /\ Careful /\ [Next]_vars => SaveInv'
<1> SUFFICES ASSUME Known, [Next]_vars PROVE SaveInv'
  BY DEF Known
<1>1. ~StartQueries /\ ~RecalcQueries /\ ~QueriesSettled /\ ~NextPass /\ ~AppDeleteDuringFlush
  BY DEF Known, AllTracked, SaveInv, LocalsOk, Careful, StartQueries, RecalcQueries, QueriesSettled, NextPass,
         AppDeleteDuringFlush
<1>2. Grows(em, em')
  BY <1>1, ManagerStep DEF Known
<1>3. CASE RecalcLoopsForever \/ TooManyPasses \/ WriteFails \/ RollbackDryRun \/ Fail
  <2>1. EndOfFlush /\ db' = db
    BY <1>3 DEF RecalcLoopsForever, TooManyPasses, WriteFails, RollbackDryRun, Fail
  <2>2. pc # "committed"
    BY <1>3 DEF RecalcLoopsForever, TooManyPasses, WriteFails, RollbackDryRun, Fail, Known, Careful
  <2>3. KeepsAll(em, em')
    <3>1. CASE RecalcLoopsForever
      <4>1. em' \in Recalculated(em)
        BY <3>1 DEF RecalcLoopsForever, Known, SaveInv, LocalsOk
      <4> QED
        BY <4>1, RecalculatedKeeps DEF Known, TypeOK
    <3>2. CASE TooManyPasses \/ WriteFails \/ RollbackDryRun \/ Fail
      BY <3>2, KeepsAllSelf DEF TooManyPasses, WriteFails, RollbackDryRun, Fail
    <3> QED
      BY <1>3, <3>1, <3>2
  <2> QED
    BY <2>1, <2>2, <2>3, FailedSaves
<1>4. CASE UNCHANGED vars
  BY <1>4 DEF vars, hookVars, writeVars, timeVars, dbVars, Known, SaveInv, AllSteady, RowsFit, StampsPast, BumpedOnce,
              Due, LocalsOk, TodosOk, TableOk, InHooks, InPass, Before, Writing
<1> QED
  BY <1>1, <1>2, <1>3, <1>4, EditPhaseSaves, StartPassSaves, OpenHooksSaves, EndHooksSaves, EndPassSaves,
     WritingSaves, NothingFlushedSaves, ResetSaves DEF Next, FlushStep

\* The invariants of this proof hold together.
LEMMA SaveInvHolds ==
  ASSUME Careful
  PROVE  Spec => [](TypeOK /\ HookInv /\ AllTracked /\ SaveInv)
<1>1. Spec => []TypeOK
  BY TypeCorrect
<1>2. QuerySources = {} /\ Careful
  BY DEF Careful
<1>3. TypeOK /\ AllTracked /\ [Next]_vars => AllTracked'
  BY <1>2, TrackedStep
<1> QED
  BY <1>1, <1>2, <1>3, TrackedInit, HookInit, HookStep, SaveInit, SaveStep, PTL DEF Spec

----------------------------------------------------------------------------
(* What the invariant gives. *)

\* Between flushes an entity that is reported clean is what the database has.
THEOREM CleanCommitted ==
  ASSUME Careful
  PROVE  Spec => []CleanIsCommitted
<1>1. TypeOK /\ HookInv /\ AllTracked /\ SaveInv => CleanIsCommitted
  <2> SUFFICES ASSUME TypeOK, SaveInv, pc = "idle", NEW e \in Entity, Op(em, e) = "none"
               PROVE  db[e] = SavedRow(em.inst[e])
    BY DEF CleanIsCommitted, SavedRow, Lives
  <2>1. em.inst[e] \in Instances /\ db[e] \in Rows /\ Steady(em.inst[e]) /\ RowFits(em.inst[e], db[e])
    BY DEF TypeOK, Managers, SaveInv, AllSteady, RowsFit
  <2> QED
    BY <2>1, NothingPending DEF Op
<1> QED
  BY <1>1, SaveInvHolds, PTL

\* At first the rows are what memory holds.
LEMMA InitSaved == Init => Saved!Init
<1> SUFFICES ASSUME Init PROVE Saved!Init
  OBVIOUS
<1>1. InitialValue \in Val
  BY EntityFlushAssumption
<1>2. ASSUME NEW e \in Entity
      PROVE  /\ Memory[e] = IF e \in Loaded THEN InitialValue ELSE "unborn"
             /\ CommittedRows[e] = IF e \in Loaded THEN InitialValue ELSE NoRow
  <2>1. CASE e \in Loaded
    <3>1. em.inst[e] = Hydrated(InitialValue, 0) /\ db[e] = [value |-> InitialValue, stamp |-> 0]
      BY <2>1 DEF Init
    <3>2. db[e] # NoRow
      BY <1>1, <3>1, MarksAssumption
    <3> QED
      BY <2>1, <3>1, <3>2 DEF Memory, CommittedRows, Hydrated, InMap, IsDeleted
  <2>2. CASE e \notin Loaded
    <3>1. em.inst[e] = Unborn(InitialValue) /\ db[e] = NoRow
      BY <2>2 DEF Init
    <3> QED
      BY <2>2, <3>1 DEF Memory, CommittedRows, Unborn, Hydrated, InMap
  <2> QED
    BY <2>1, <2>2
<1>3. Memory = [e \in Entity |-> Memory[e]] /\ CommittedRows = [e \in Entity |-> CommittedRows[e]]
  BY DEF Memory, CommittedRows
<1>4. Memory \in [Entity -> Val \cup {"unborn"}]
  BY <1>1, <1>2, <1>3
<1>5. \A e \in Entity : CommittedRows[e] = IF Memory[e] \in Val THEN Memory[e] ELSE NoRow
  BY <1>1, <1>2, MarksAssumption
<1>6. CommittedRows = [e \in Entity |-> IF Memory[e] \in Val THEN Memory[e] ELSE NoRow]
  BY <1>3, <1>5
<1> QED
  BY <1>4, <1>6 DEF Saved!Init, Saved!Persisted
\* What the application sees of an entity, one at a time.
LEMMA MemoryOf ==
  ASSUME TypeOK, NEW e \in Entity
  PROVE  LET d == em.inst[e]
         IN /\ Memory[e] = IF ~InMap(d) THEN "unborn" ELSE IF IsDeleted(d) THEN "gone" ELSE d.value
            /\ Memory[e] \in Val \cup {"unborn", "gone"}
            /\ Memory[e] \in Val <=> Lives(d)
            /\ Memory[e] = "gone" <=> Gone(d)
<1>1. Memory[e] = IF ~InMap(em.inst[e]) THEN "unborn" ELSE IF IsDeleted(em.inst[e]) THEN "gone" ELSE em.inst[e].value
  BY DEF Memory
<1>2. em.inst[e].value \in Val
  BY DEF TypeOK, Managers, Instances
<1>3. "unborn" \notin Val /\ "gone" \notin Val
  BY MarksAssumption
<1> QED
  BY <1>1, <1>2, <1>3 DEF Lives, Gone

\* The COMMIT is the save; every other step that changes memory is an edit.
LEMMA StepSaved ==
  ASSUME TypeOK, TypeOK', SaveInv, [Next]_vars
  PROVE  [Saved!Edit \/ Saved!Save]_(Saved!vars)
<1>1. CASE Commit
  <2>1. em' = em /\ db' = tx /\ \A e \in Entity : tx[e] = SavedRow(em.inst[e])
    BY <1>1 DEF Commit, SaveInv, TableOk
  <2>2. Memory' = Memory
    BY <2>1 DEF Memory
  <2>3. ASSUME NEW e \in Entity
        PROVE  CommittedRows'[e] = IF Memory[e] \in Val THEN Memory[e] ELSE NoRow
    <3>1. CommittedRows'[e] = IF db'[e] = NoRow THEN NoRow ELSE db'[e].value
      BY DEF CommittedRows
    <3>2. db'[e] = SavedRow(em.inst[e])
      BY <2>1
    <3>3. CASE Lives(em.inst[e])
      <4>1. em.inst[e].value \in Val /\ em.inst[e].stamp \in Nat
        BY DEF TypeOK, Managers, Instances
      <4>2. db'[e] = [value |-> em.inst[e].value, stamp |-> em.inst[e].stamp] /\ db'[e] # NoRow
        BY <3>2, <3>3, <4>1, MarksAssumption DEF SavedRow
      <4> QED
        BY <3>1, <3>3, <4>2, MemoryOf DEF Lives
    <3>4. CASE ~Lives(em.inst[e])
      BY <3>1, <3>2, <3>4, MemoryOf DEF SavedRow
    <3> QED
      BY <3>3, <3>4
  <2>4. CommittedRows' = [e \in Entity |-> CommittedRows'[e]]
    BY DEF CommittedRows
  <2>5. CommittedRows' = [e \in Entity |-> IF Memory[e] \in Val THEN Memory[e] ELSE NoRow]
    BY <2>3, <2>4
  <2> QED
    BY <2>2, <2>5 DEF Saved!Save, Saved!Persisted
<1>2. CASE ~Commit
  <2>1. db' = db
    BY <1>2 DEF Next, FlushStep, AppEdit, AppDeleteDuringFlush, StartFlush, TakeDeletes, CascadeBatch, DeletesDrained,
                RecalcReactables, RecalcQueries, RecalcLoopsForever, OpenSettled, StartPass, TooManyPasses, OpenHooks,
                HooksDone, RunHook, SettleAgain, EndHooks, EndPass, Validated, NothingFlushed, Write, WriteFails,
                StartQueries, QueriesSettled, NextPass, LastPass, RollbackDryRun, Reset, Fail, vars, dbVars
  <2>2. CommittedRows' = CommittedRows
    BY <2>1 DEF CommittedRows
  <2>3. ASSUME NEW e \in Entity
        PROVE  /\ Memory'[e] \in Val \cup {"unborn", "gone"}
               /\ Memory[e] = "gone" => Memory'[e] = "gone"
               /\ Memory[e] \in Val => Memory'[e] # "unborn"
    <3>1. /\ Memory'[e] \in Val \cup {"unborn", "gone"}
          /\ Memory'[e] = IF ~InMap(em'.inst[e]) THEN "unborn" ELSE IF IsDeleted(em'.inst[e]) THEN "gone"
                          ELSE em'.inst[e].value
      <4>1. em'.inst[e].value \in Val
        BY DEF TypeOK, Managers, Instances
      <4> QED
        BY <4>1 DEF Memory
    <3>2. (Gone(em.inst[e]) => Gone(em'.inst[e])) /\ (InMap(em.inst[e]) => InMap(em'.inst[e]))
      BY ManagerStep
    <3>3. Memory[e] = "gone" => Memory'[e] = "gone"
      BY <3>1, <3>2, MemoryOf DEF Gone
    <3>4. Memory[e] \in Val => Memory'[e] # "unborn"
      <4>1. em'.inst[e].value # "unborn"
        BY MarksAssumption DEF TypeOK, Managers, Instances
      <4> QED
        BY <3>1, <3>2, <4>1, MemoryOf DEF Lives
    <3> QED
      BY <3>1, <3>3, <3>4
  <2>4. Memory' = [e \in Entity |-> Memory'[e]]
    BY DEF Memory
  <2>5. Memory' \in [Entity -> Val \cup {"unborn", "gone"}]
    BY <2>3, <2>4
  <2>6. Saved!Edit
    BY <2>2, <2>3, <2>5 DEF Saved!Edit
  <2> QED
    BY <2>6
<1> QED
  BY <1>1, <1>2

\* em.flush implements UnitOfWork: rows change by a COMMIT only, all of them at once, to
\* what memory holds of every entity, after any edits, hooks, reactions, failed
\* flushes and retries.  (SavesMemory is Saved!Spec.)
THEOREM ImplementsUnitOfWork ==
  ASSUME Careful
  PROVE  Spec => SavesMemory
<1>1. TypeOK /\ TypeOK' /\ SaveInv /\ [Next]_vars => [Saved!Edit \/ Saved!Save]_(Saved!vars)
  BY StepSaved
<1> QED
  BY <1>1, InitSaved, SaveInvHolds, PTL DEF Spec, SavesMemory, Saved!Spec

----------------------------------------------------------------------------
(* The oplock. *)

\* What throws after the flush took its timestamp leaves the bumped updated_at behind.
ThrowsLate == ~Before /\ (RecalcLoopsForever \/ RollbackDryRun \/ Fail)

\* A bump is of this flush, and remembers the stamp of the row.
BumpRemembered ==
  \A e \in Entity :
    LET d == em.inst[e]
    IN Stored(d) /\ Lives(d) /\ d.origStamp # Clean =>
         e \in Due /\ (pc # "committed" => db[e].stamp = d.origStamp)

\* Edits leave what is remembered alone.
LEMMA EditedRemembers ==
  ASSUME Known, BumpRemembered, KeepsAll(em, em'), Grows(em, em'), Due \subseteq Due',
         UNCHANGED db, pc # "committed"
  PROVE  BumpRemembered'
<1>1. ASSUME NEW e \in Entity, Stored(em'.inst[e]), Lives(em'.inst[e]), em'.inst[e].origStamp # Clean
      PROVE  e \in Due' /\ db'[e].stamp = em'.inst[e].origStamp
  <2>1. Stored(em.inst[e]) /\ em'.inst[e].new = em.inst[e].new /\ em'.inst[e].origStamp = em.inst[e].origStamp
    BY <1>1 DEF KeepsAll, Keeps, Stored
  <2>2. Lives(em.inst[e])
    BY <1>1, <2>1 DEF Grows, Evolves, Lives, Gone, InMap
  <2> QED
    BY <1>1, <2>1, <2>2 DEF BumpRemembered
<1> QED
  BY <1>1 DEF BumpRemembered

\* Before the hooks nobody has been bumped.
LEMMA NobodyDue == ASSUME SaveInv, Before PROVE Due = {}
BY DEF SaveInv, LocalsOk, Before, Due, InHooks

\* OpenHooks bumps whom no step of this flush has bumped before.
LEMMA OpenHooksRemembers == Known /\ BumpRemembered /\ OpenHooks => BumpRemembered'
<1> SUFFICES ASSUME Known, BumpRemembered, OpenHooks PROVE BumpRemembered'
  OBVIOUS
<1>1. /\ pc = "loop" /\ pc' = "hooks" /\ db' = db /\ hooksInvoked' = hooksInvoked /\ pendingHooks' = pendingHooks
      /\ pendingHooks \cap hooksInvoked = {} /\ em \in Managers /\ now \in Nat
  BY DEF OpenHooks, dbVars, Known, HookInv, QueueOfPending, TypeOK
<1> DEFINE U == CreateTodos(em, pendingHooks).updates
<1>2. \A e \in Entity : em'.inst[e] = IF e \in U THEN BumpUpdatedAt(em.inst[e], now) ELSE em.inst[e]
  BY <1>1 DEF OpenHooks, Bumped, Update, Managers
<1>3. U \subseteq pendingHooks
  BY DEF CreateTodos
<1> HIDE DEF U
<1>4. Due = hooksInvoked /\ Due' = hooksInvoked \cup pendingHooks
  BY <1>1 DEF Due, InHooks
<1>5. ASSUME NEW e \in Entity, Stored(em'.inst[e]), Lives(em'.inst[e]), em'.inst[e].origStamp # Clean
      PROVE  e \in Due' /\ db'[e].stamp = em'.inst[e].origStamp
  <2>1. em.inst[e] \in Instances
    BY <1>1 DEF Managers
  <2>2. CASE e \notin U
    BY <1>1, <1>2, <1>4, <1>5, <2>2 DEF BumpRemembered
  <2>3. CASE e \in U
    <3>1. /\ em'.inst[e].new = em.inst[e].new /\ em'.inst[e].deleted = em.inst[e].deleted
          /\ em'.inst[e].origStamp = em.inst[e].stamp
      BY <1>2, <2>1, <2>3 DEF BumpUpdatedAt, Instances
    <3>2. Stored(em.inst[e]) /\ Lives(em.inst[e])
      BY <1>5, <3>1 DEF Stored, Lives, InMap, IsDeleted
    <3>3. e \in pendingHooks /\ e \notin Due
      BY <1>1, <1>3, <1>4, <2>3
    <3>4. em.inst[e].origStamp = Clean
      BY <3>2, <3>3 DEF BumpRemembered
    <3>5. db[e].stamp = em.inst[e].stamp
      BY <1>1, <3>2, <3>4 DEF Known, SaveInv, RowsFit, RowFits, Lives, IsDeleted
    <3> QED
      BY <1>1, <1>4, <3>1, <3>3, <3>5
  <2> QED
    BY <2>2, <2>3
<1> QED
  BY <1>5 DEF BumpRemembered

\* A flush that ends as it should resets all it has bumped.
LEMMA EndRemembers ==
  ASSUME Known, BumpRemembered, NothingFlushed \/ Reset
  PROVE  BumpRemembered'
<1> DEFINE m == IF Reset THEN Update(em, allFlushed, ResetAfterFlushed) ELSE em
<1>1. /\ em' = Fixup(m) /\ em \in Managers /\ Writing /\ (~Reset => todo = NoTodo)
  BY DEF Reset, NothingFlushed, NothingToWrite, ToReset, Known, TypeOK, Writing
<1>2. m \in Managers
  BY <1>1, ResetGrows DEF Grows
<1>3. /\ \A e \in Entity : Op(em, e) # "none" => e \in toFlush \cup createdThenDeleted
      /\ \A e \in createdThenDeleted : em.inst[e].new = "pending" /\ IsDeleted(em.inst[e])
      /\ todo = CreateTodos(em, toFlush) /\ allFlushed = toFlush
  BY <1>1 DEF Known, SaveInv, TodosOk
<1>4. ASSUME NEW e \in Entity, Stored(em'.inst[e]), Lives(em'.inst[e]), em'.inst[e].origStamp # Clean
      PROVE  FALSE
  <2>1. em'.inst[e] = IF e \in createdThenDeleted THEN FixupCreatedThenDeleted(m.inst[e]) ELSE m.inst[e]
    BY <1>1, <1>2 DEF Fixup, Update, Managers
  <2>2. m.inst[e] = IF Reset /\ e \in allFlushed THEN ResetAfterFlushed(em.inst[e]) ELSE em.inst[e]
    BY <1>1 DEF Update, Managers
  <2> HIDE DEF m
  <2>3. em.inst[e] \in Instances /\ m.inst[e] \in Instances
    BY <1>1, <1>2 DEF Managers
  <2>4. e \notin createdThenDeleted
    BY <1>4, <2>1, <2>3 DEF FixupCreatedThenDeleted, Lives, IsDeleted, Instances
  <2>5. ~(Reset /\ e \in allFlushed)
    BY <1>4, <2>1, <2>2, <2>3, <2>4 DEF ResetAfterFlushed, Instances
  <2>6. Op(em, e) = "update"
    BY <1>4, <2>1, <2>2, <2>3, <2>4, <2>5 DEF Op, PendingOperation, Stored, Lives, IsDirty, Known, AllTracked, Tracked
  <2>7. e \in toFlush
    BY <1>3, <2>4, <2>6
  <2>8. e \in todo.updates
    BY <1>3, <2>6, <2>7 DEF CreateTodos
  <2> QED
    BY <1>1, <1>3, <2>5, <2>7, <2>8 DEF NoTodo
<1> QED
  BY <1>4 DEF BumpRemembered

\* Every action keeps what the bumps remember, unless it throws late.
LEMMA RememberStep ==
  Known /\ BumpRemembered /\ [Next]_vars /\ [~ThrowsLate]_vars /\ ~WriteFails => BumpRemembered'
<1> SUFFICES ASSUME Known, BumpRemembered, [Next]_vars, [~ThrowsLate]_vars, ~WriteFails PROVE BumpRemembered'
  OBVIOUS
<1>1. ~StartQueries /\ ~RecalcQueries /\ ~QueriesSettled /\ ~NextPass /\ ~AppDeleteDuringFlush
  BY DEF Known, AllTracked, SaveInv, LocalsOk, Careful, StartQueries, RecalcQueries, QueriesSettled, NextPass,
         AppDeleteDuringFlush
<1>2. Grows(em, em')
  BY <1>1, ManagerStep DEF Known
<1>3. CASE AppEdit \/ StartFlush \/ TakeDeletes \/ CascadeBatch \/ DeletesDrained \/ RecalcReactables
             \/ OpenSettled \/ (\E e \in Entity : RunHook(e)) \/ HooksDone \/ SettleAgain \/ EndPass
             \/ Validated \/ Write \/ LastPass
  <2>1. KeepsAll(em, em')
    <3>1. StartFlush \/ DeletesDrained \/ OpenSettled \/ HooksDone \/ SettleAgain \/ EndPass \/ Validated
            \/ Write \/ LastPass => em' = em
      BY DEF StartFlush, DeletesDrained, OpenSettled, HooksDone, SettleAgain, EndPass, Validated, Write, LastPass
    <3> QED
      BY <1>3, <3>1, EditSteps, KeepsAllSelf DEF Known
  <2>2. hooksInvoked' = hooksInvoked /\ pendingHooks' = pendingHooks /\ db' = db /\ pc # "committed"
    BY <1>3 DEF AppEdit, StartFlush, TakeDeletes, CascadeBatch, DeletesDrained, RecalcReactables, OpenSettled, RunHook,
                HooksDone, SettleAgain, EndPass, Validated, Write, LastPass, hookVars, dbVars
  <2>3. pc \in {"hooks", "settleDeletes", "settleRecalc"} => pc' \in {"hooks", "settleDeletes", "settleRecalc"}
    BY <1>3 DEF AppEdit, StartFlush, TakeDeletes, CascadeBatch, DeletesDrained, RecalcReactables, OpenSettled, RunHook,
                HooksDone, SettleAgain, EndPass, Validated, Write, LastPass
  <2>4. Due \subseteq Due'
    BY <2>2, <2>3 DEF Due, InHooks
  <2> QED
    BY <1>2, <2>1, <2>2, <2>4, EditedRemembers
<1>4. CASE StartPass
  <2>1. /\ pc = "pass" /\ db' = db /\ hooksInvoked = {} /\ Due = {} /\ em \in Managers
        /\ em' = Bumped(Pruned(em), Candidates(em) \cap hooksInvoked)
    BY <1>4, NobodyDue DEF StartPass, dbVars, Known, SaveInv, LocalsOk, Before, TypeOK
  <2>2. Pruned(em) \in Managers /\ KeepsAll(em, Pruned(em))
    BY <2>1, PrunedGrows, PrunedKeeps DEF Grows
  <2>3. em'.inst = Pruned(em).inst
    BY <2>1, <2>2 DEF Bumped, CreateTodos, Update, Managers
  <2>4. KeepsAll(em, em')
    BY <2>2, <2>3 DEF KeepsAll
  <2> QED
    BY <1>2, <2>1, <2>4, EditedRemembers
<1>5. CASE EndHooks
  <2>1. /\ pc = "settleRecalc" /\ db' = db /\ em \in Managers /\ em' = Pruned(em)
        /\ hooksInvoked' = hooksInvoked \cup pendingHooks
    BY <1>5 DEF EndHooks, dbVars, Known, TypeOK
  <2>2. KeepsAll(em, em') /\ Due \subseteq Due'
    BY <2>1, PrunedKeeps DEF Due, InHooks
  <2> QED
    BY <1>2, <2>1, <2>2, EditedRemembers
<1>6. CASE Commit
  <2>1. em' = em /\ pc = "commit" /\ pc' = "committed" /\ hooksInvoked' = hooksInvoked
    BY <1>6 DEF Commit, hookVars
  <2>2. Due' = Due
    BY <2>1 DEF Due, InHooks
  <2> QED
    BY <2>1, <2>2 DEF BumpRemembered
<1>7. CASE TooManyPasses \/ RecalcLoopsForever \/ RollbackDryRun \/ Fail
  <2>1. Before
    <3>1. CASE TooManyPasses
      BY <3>1 DEF TooManyPasses, Before
    <3>2. CASE ThrowsLate
      <4>1. UNCHANGED vars
        BY <3>2
      <4>2. pc' = pc /\ pc' = "idle"
        BY <3>2, <4>1 DEF vars, ThrowsLate, RecalcLoopsForever, RollbackDryRun, Fail, EndOfFlush
      <4> QED
        BY <4>2 DEF Before
    <3> QED
      BY <1>7, <3>1, <3>2 DEF ThrowsLate
  <2>2. Due = {} /\ db' = db /\ pc # "committed"
    BY <1>7, <2>1, NobodyDue DEF Known, TooManyPasses, RecalcLoopsForever, RollbackDryRun, Fail, Before
  <2>3. KeepsAll(em, em')
    <3>1. RecalcLoopsForever => em' \in Recalculated(em)
      BY DEF RecalcLoopsForever, Known, SaveInv, LocalsOk
    <3>2. TooManyPasses \/ RollbackDryRun \/ Fail => em' = em
      BY DEF TooManyPasses, RollbackDryRun, Fail
    <3> QED
      BY <1>7, <3>1, <3>2, RecalculatedKeeps, KeepsAllSelf DEF Known, TypeOK
  <2> QED
    BY <1>2, <2>2, <2>3, EditedRemembers
<1>8. CASE UNCHANGED vars
  BY <1>8 DEF vars, hookVars, dbVars, BumpRemembered, Due, InHooks
<1> QED
  BY <1>1, <1>3, <1>4, <1>5, <1>6, <1>7, <1>8, OpenHooksRemembers, EndRemembers DEF Next, FlushStep

\* Every UPDATE finds the row with the stamp that was remembered, every INSERT none.
LEMMA WriteWillHold ==
  ASSUME TypeOK, SaveInv, BumpRemembered
  PROVE  OplockOnlyOnConflict
<1> SUFFICES ASSUME pc = "write" PROVE WriteHolds
  BY DEF OplockOnlyOnConflict
<1>1. /\ tx = db /\ todo = CreateTodos(em, toFlush) /\ toFlush \subseteq Entity /\ em \in Managers /\ now \in Nat
      /\ \A e \in todo.updates : em.inst[e].stamp = now
      /\ \A e \in Entity : db[e] # NoRow => db[e].stamp < now
  BY DEF SaveInv, TableOk, TodosOk, StampsPast, Writing, TypeOK
<1>2. \A e \in Entity : em.inst[e] \in Instances /\ RowFits(em.inst[e], db[e]) /\ Steady(em.inst[e]) /\ db[e] \in Rows
  BY <1>1 DEF Managers, SaveInv, RowsFit, AllSteady, TypeOK
<1>3. ASSUME NEW e \in todo.updates PROVE db[e] # NoRow /\ db[e].stamp = em.inst[e].origStamp
  <2>1. e \in Entity /\ Op(em, e) = "update"
    BY <1>1 DEF CreateTodos
  <2>2. Stored(em.inst[e]) /\ Lives(em.inst[e]) /\ em.inst[e].deleted = "none"
    BY <1>2, <2>1 DEF Op, PendingOperation, Stored, Lives, Instances, InMap, IsDeleted, Steady
  <2>3. db[e] # NoRow /\ (em.inst[e].origStamp = Clean => db[e].stamp = em.inst[e].stamp)
    BY <1>2, <2>1, <2>2 DEF RowFits
  <2>4. db[e].stamp < now /\ db[e].stamp \in Nat
    BY <1>1, <1>2, <2>1, <2>3 DEF Rows
  <2>5. em.inst[e].origStamp # Clean
    BY <1>1, <2>3, <2>4
  <2> QED
    BY <2>1, <2>2, <2>3, <2>5 DEF BumpRemembered
<1>4. ASSUME NEW e \in todo.inserts PROVE db[e] = NoRow
  <2>1. e \in Entity /\ Op(em, e) = "insert"
    BY <1>1 DEF CreateTodos
  <2>2. ~Stored(em.inst[e])
    BY <1>2, <2>1 DEF Op, PendingOperation, Stored, Instances
  <2> QED
    BY <1>2, <2>1, <2>2 DEF RowFits
<1> QED
  BY <1>1, <1>3, <1>4 DEF WriteHolds

\* With nobody else writing, no flush fails its oplock, unless an earlier one threw
\* after it had bumped updated_at.
THEOREM OplockSound ==
  ASSUME Careful
  PROVE  Spec /\ [][~ThrowsLate]_vars => []OplockOnlyOnConflict
<1>1. Init => BumpRemembered
  <2>1. Init => \A e \in Entity : em.inst[e].origStamp = Clean
    BY DEF Init, Hydrated, Unborn
  <2> QED
    BY <2>1 DEF BumpRemembered
<1>2. TypeOK /\ SaveInv /\ BumpRemembered => OplockOnlyOnConflict
  BY WriteWillHold
<1>3. OplockOnlyOnConflict => ~WriteFails
  BY DEF OplockOnlyOnConflict, WriteFails
<1>4. TypeOK /\ HookInv /\ AllTracked /\ SaveInv /\ (TypeOK /\ HookInv /\ AllTracked /\ SaveInv)'
        /\ BumpRemembered /\ [Next]_vars /\ [~ThrowsLate]_vars
      => BumpRemembered'
  BY <1>2, <1>3, RememberStep DEF Known
<1> QED
  BY <1>1, <1>2, <1>4, SaveInvHolds, PTL DEF Spec
=============================================================================
