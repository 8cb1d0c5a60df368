---------------------------- MODULE EntityFlush -----------------------------
(***************************************************************************)
(* One entity manager: application code edits entities, em.flush runs the  *)
(* hooks and reactions, writes what is pending and resets the tracking.    *)
(* EntityManager.#flush is one async function; every `await` that lets     *)
(* other code in, and every throw, is a step boundary here.                *)
(*                                                                         *)
(* Hooks, reactive fields, reactions and reactive queries are application  *)
(* code: each may perform any one edit its set of entities allows.         *)
(*                                                                         *)
(* These flushes are outside em.transaction: each opens a transaction of   *)
(* its own and ends it.  A flush that joins one, a dry run too, is in      *)
(* Transactions.                                                           *)
(***************************************************************************)
EXTENDS InstanceData, FiniteSets

CONSTANTS Entity,
          Loaded,           \* entities loaded when the manager starts
          InitialValue,     \* the field of their rows
          NoRow,
          Cascade,          \* children that config.cascadeDelete deletes with an entity
          AppEdits, AppDeletes,          \* what application code edits and deletes
          HookEdits, HookDeletes,        \* what hooks edit and delete
          Sources, Derived,              \* fields with a reactable, and their reactive fields
          ReactionDeletes,               \* what reactions delete
          QuerySources, QueryTargets,    \* the same for reactive query fields
          Mode,             \* em.mode: "writes" or "in-memory-writes"
          FailAt,           \* where hooks, rules, queries or the driver may throw
          LateDeletes,      \* whether application code calls em.delete during a flush
          MaxLoops,         \* runs of runHooksOnPendingEntities in a flush (10 in the code)
          MaxRecalcs,       \* bound of the recalculation loop (50 in the code)
          MaxEdits, MaxFlushes           \* bounds on the application

ASSUME EntityFlushAssumption ==
  /\ Loaded \subseteq Entity /\ InitialValue \in Val
  /\ Cascade \in [Entity -> SUBSET Entity]
  /\ {AppEdits, AppDeletes, HookEdits, HookDeletes, Sources, Derived, ReactionDeletes,
      QuerySources, QueryTargets} \subseteq SUBSET Entity
  /\ Mode \in {"writes", "in-memory-writes"}
  /\ LateDeletes \in BOOLEAN
  /\ {MaxLoops, MaxRecalcs, MaxEdits, MaxFlushes} \subseteq Nat

\* A missing row is no row, and the marks of UnitOfWork are no values.
ASSUME MarksAssumption ==
  NoRow \notin [value : Val, stamp : Nat] /\ {"unborn", "gone"} \cap Val = {}

VARIABLES em,           \* [inst, pendingDeletes, needs]: the manager's unit of work
          db, tx, inTx, \* committed rows, rows as the open transaction sees them, em.txn
          pc,           \* where #flush stands
          deleting,     \* the batch flushDeletes works on
          loops, recalcs,
          hooksInvoked, pendingHooks, pendingFlush,
          hookQueue,    \* todos of this loop whose hooks have not run
          toFlush, todo, allFlushed, createdThenDeleted,
          now, clock,   \* the flush's timestamp, and the last one getNow gave out
          edits, flushes,
          cascaded, hooked  \* for the properties: whose beforeDelete, beforeFlush has run

dbVars == <<db, tx, inTx>>
hookVars == <<hooksInvoked, pendingHooks, pendingFlush, hookQueue, hooked>>
writeVars == <<toFlush, todo, allFlushed, createdThenDeleted>>
deleteVars == <<deleting, cascaded>>
timeVars == <<now, clock>>
boundVars == <<edits, flushes>>
loopVars == <<loops, recalcs>>
vars == <<em, dbVars, pc, hookVars, writeVars, deleteVars, timeVars, boundVars, loopVars>>

PC == {"idle", "openDeletes", "openRecalc", "pass", "loop", "hooks", "settleDeletes",
       "settleRecalc", "validate", "write", "written", "query", "queryRecalc", "commit",
       "committed"}
Todos == [inserts : SUBSET Entity, updates : SUBSET Entity, deletes : SUBSET Entity]
NoTodo == [inserts |-> {}, updates |-> {}, deletes |-> {}]
Rows == [value : Val, stamp : Nat] \cup {NoRow}
Managers == [inst : [Entity -> Instances], pendingDeletes : SUBSET Entity,
             needs : SUBSET {"reactables", "query"}]

TypeOK ==
  /\ em \in Managers
  /\ db \in [Entity -> Rows] /\ tx \in [Entity -> Rows] /\ inTx \in BOOLEAN
  /\ pc \in PC
  /\ {deleting, hooksInvoked, pendingHooks, pendingFlush, hookQueue, toFlush, allFlushed,
      createdThenDeleted, cascaded, hooked} \subseteq SUBSET Entity
  /\ todo \in Todos
  /\ {loops, recalcs, now, clock, edits, flushes} \subseteq Nat

----------------------------------------------------------------------------
(* The manager between and during flushes. *)

Op(m, e) == PendingOperation(m.inst[e])
CreateTodos(m, S) == [inserts |-> {e \in S : Op(m, e) = "insert"},
                      updates |-> {e \in S : Op(m, e) = "update"},
                      deletes |-> {e \in S : Op(m, e) = "delete"}]
Candidates(m) == {e \in Entity : IsCandidate(m.inst[e])}

Update(m, S, F(_)) == [m EXCEPT !.inst = [e \in Entity |-> IF e \in S THEN F(m.inst[e]) ELSE m.inst[e]]]
Pruned(m) == Update(m, Entity, Prune)

\* Queueing the reactables of changed entities raises the #needsRecalc flags.
Notified(m, S) ==
  [m EXCEPT !.needs = @ \cup (IF S \cap Sources # {} THEN {"reactables"} ELSE {})
                        \cup (IF S \cap QuerySources # {} THEN {"query"} ELSE {})]

Set(m, e, v) == Notified(Update(m, {e}, LAMBDA d : SetField(d, v)), {e})
Create(m, e, v) == Notified(Update(m, {e}, LAMBDA d : Created(v, clock)), {e})
Touch(m, e) == Update(m, {e}, MarkTouched)
DeleteAll(m, S) ==
  LET D == {e \in S : InMap(m.inst[e]) /\ ~IsDeleted(m.inst[e])}
      marked == [Update(m, D, MarkDeleted) EXCEPT !.pendingDeletes = @ \cup D]
  IN Notified(marked, D)

Edited(m, S) ==
  {Set(m, e, v) : e \in {x \in S : CanSet(m.inst[x])}, v \in Val}
    \cup {Create(m, e, v) : e \in {x \in S : ~InMap(m.inst[x])}, v \in Val}
Touched(m, S) == {Touch(m, e) : e \in {x \in S : InMap(m.inst[x]) /\ ~IsDeleted(m.inst[x])}}
\* em.delete marks the children at once when their collection is loaded.
Deleted(m, S) ==
  LET D == {e \in S : InMap(m.inst[e]) /\ ~IsDeleted(m.inst[e])}
  IN {DeleteAll(m, {e}) : e \in D} \cup {DeleteAll(m, {e} \cup Cascade[e]) : e \in D}

HookResults(m) == {m} \cup Edited(m, HookEdits) \cup Deleted(m, HookDeletes)
Alive(m, S) == {e \in S : InMap(m.inst[e]) /\ ~IsDeleted(m.inst[e])}
Recalculated(m) ==
  LET r == [m EXCEPT !.needs = @ \ {"reactables"}]
  IN {r} \cup Edited(r, Alive(r, Derived)) \cup Deleted(r, ReactionDeletes)
Requeried(m) ==
  LET r == [m EXCEPT !.needs = @ \ {"query"}]
  IN {r} \cup Edited(r, Alive(r, QueryTargets))

----------------------------------------------------------------------------
(* Forms of the steps with one plausible slip each. *)

\* Entities that hooks dirty do not start another hook loop.
NoFurtherHooks(m) == {}
\* What a cascade deletes does not cascade further.
NoNextBatch(m) == {}
\* The rounds of a flush share one timestamp.
KeepNow == UNCHANGED <<now, clock>>
\* Every deleted entity is taken for one created in this flush.
AllDeleted(m, S) == {e \in S : IsDeleted(m.inst[e])}
\* Only what the last round wrote is reset.
ResetLastRound == toFlush
\* The recalculation loop does not count.
RecalcUncounted == UNCHANGED recalcs

----------------------------------------------------------------------------
Init ==
  /\ em = [inst |-> [e \in Entity |-> IF e \in Loaded THEN Hydrated(InitialValue, 0)
                                      ELSE Unborn(InitialValue)],
           pendingDeletes |-> {}, needs |-> {}]
  /\ db = [e \in Entity |-> IF e \in Loaded THEN [value |-> InitialValue, stamp |-> 0] ELSE NoRow]
  /\ tx = db /\ inTx = FALSE
  /\ pc = "idle"
  /\ deleting = {} /\ cascaded = {}
  /\ loops = 0 /\ recalcs = 0
  /\ hooksInvoked = {} /\ pendingHooks = {} /\ pendingFlush = {} /\ hookQueue = {} /\ hooked = {}
  /\ toFlush = {} /\ todo = NoTodo /\ allFlushed = {} /\ createdThenDeleted = {}
  /\ now = 0 /\ clock = 0 /\ edits = 0 /\ flushes = 0

AppEdit ==
  /\ pc = "idle"
  /\ edits < MaxEdits
  /\ em' \in Edited(em, AppEdits) \cup Touched(em, AppEdits) \cup Deleted(em, AppDeletes)
  /\ edits' = edits + 1
  /\ UNCHANGED <<dbVars, pc, hookVars, writeVars, deleteVars, timeVars, flushes, loopVars>>

\* em.delete does not ask the flush lock.
AppDeleteDuringFlush ==
  /\ LateDeletes
  /\ pc # "idle"
  /\ edits < MaxEdits
  /\ em' \in Deleted(em, AppDeletes)
  /\ edits' = edits + 1
  /\ UNCHANGED <<dbVars, pc, hookVars, writeVars, deleteVars, timeVars, flushes, loopVars>>

\* The locals of #flush are gone when it returns or throws.
EndOfFlush ==
  /\ pc' = "idle"
  /\ tx' = db' /\ inTx' = FALSE
  /\ deleting' = {}
  /\ loops' = 0 /\ recalcs' = 0
  /\ hooksInvoked' = {} /\ pendingHooks' = {} /\ pendingFlush' = {} /\ hookQueue' = {} /\ hooked' = {}
  /\ toFlush' = {} /\ todo' = NoTodo /\ allFlushed' = {} /\ createdThenDeleted' = {}
  /\ now' = 0
  /\ UNCHANGED <<clock, cascaded, boundVars>>

StartFlush ==
  /\ pc = "idle"
  /\ flushes < MaxFlushes
  /\ pc' = "openDeletes"
  /\ flushes' = flushes + 1
  /\ UNCHANGED <<em, dbVars, hookVars, writeVars, deleteVars, timeVars, edits, loopVars>>

----------------------------------------------------------------------------
(* flushDeletes and recalcPendingReactables. *)

TakeDeletes ==
  /\ pc \in {"openDeletes", "settleDeletes"}
  /\ deleting = {}
  /\ em.pendingDeletes # {}
  /\ deleting' = em.pendingDeletes
  /\ em' = [em EXCEPT !.pendingDeletes = {}]
  /\ UNCHANGED <<dbVars, pc, hookVars, writeVars, cascaded, timeVars, boundVars, loopVars>>

\* What is left to cascade after a batch: all that was marked meanwhile.
NextBatch(m) == m.pendingDeletes

\* Cascade a batch, run its beforeDelete hooks, go on with what they deleted.
CascadeBatch ==
  /\ pc \in {"openDeletes", "settleDeletes"}
  /\ deleting # {}
  /\ LET m == DeleteAll(em, UNION {Cascade[e] : e \in deleting})
     IN \E r \in IF CreateTodos(m, deleting).deletes # {} THEN HookResults(m) ELSE {m} :
          /\ em' = [r EXCEPT !.pendingDeletes = {}]
          /\ deleting' = NextBatch(r)
  /\ cascaded' = cascaded \cup deleting
  /\ UNCHANGED <<dbVars, pc, hookVars, writeVars, timeVars, boundVars, loopVars>>

DeletesDrained ==
  /\ pc \in {"openDeletes", "settleDeletes"}
  /\ deleting = {} /\ em.pendingDeletes = {}
  /\ pc' = IF pc = "openDeletes" THEN "openRecalc" ELSE "settleRecalc"
  /\ UNCHANGED <<em, dbVars, hookVars, writeVars, deleteVars, timeVars, boundVars, loopVars>>

CountRecalc == recalcs' = recalcs + 1

RecalcReactables ==
  /\ pc \in {"openRecalc", "settleRecalc", "queryRecalc"}
  /\ "reactables" \in em.needs
  /\ recalcs <= MaxRecalcs
  /\ em' \in Recalculated(em)
  /\ CountRecalc
  /\ UNCHANGED <<dbVars, pc, hookVars, writeVars, deleteVars, timeVars, boundVars, loops>>

RecalcQueries ==
  /\ pc = "query"
  /\ "query" \in em.needs
  /\ recalcs <= MaxRecalcs
  /\ em' \in Requeried(em)
  /\ CountRecalc
  /\ UNCHANGED <<dbVars, pc, hookVars, writeVars, deleteVars, timeVars, boundVars, loops>>

\* "recalc looped too many times": the last loop has run, then it throws.
RecalcLoopsForever ==
  /\ recalcs > MaxRecalcs
  /\ \/ pc \in {"openRecalc", "settleRecalc", "queryRecalc"} /\ "reactables" \in em.needs
        /\ em' \in Recalculated(em)
     \/ pc = "query" /\ "query" \in em.needs /\ em' \in Requeried(em)
  /\ UNCHANGED db
  /\ EndOfFlush

Settled(k) == k \notin em.needs

----------------------------------------------------------------------------
(* runHooksOnPendingEntities. *)

\* getNow never gives out a timestamp twice.
NewNow == now' = clock + 1 /\ clock' = clock + 1

\* The first section is over: take the flush's timestamp.
OpenSettled ==
  /\ pc = "openRecalc" /\ Settled("reactables")
  /\ pc' = "pass"
  /\ NewNow
  /\ recalcs' = 0
  /\ UNCHANGED <<em, dbVars, hookVars, writeVars, deleteVars, boundVars, loops>>

Bumped(m, S) == Update(m, CreateTodos(m, S).updates, LAMBDA d : BumpUpdatedAt(d, now))

StartPass ==
  /\ pc = "pass"
  /\ loops < MaxLoops
  /\ loops' = loops + 1
  /\ em' = Bumped(Pruned(em), Candidates(em) \cap hooksInvoked)
  /\ pendingFlush' = Candidates(em)
  /\ pendingHooks' = Candidates(em) \ hooksInvoked
  /\ pc' = "loop"
  /\ UNCHANGED <<dbVars, hooksInvoked, hookQueue, hooked, writeVars, deleteVars, timeVars, boundVars, recalcs>>

TooManyPasses ==
  /\ pc = "pass"
  /\ loops >= MaxLoops
  /\ UNCHANGED <<em, db>>
  /\ EndOfFlush

OpenHooks ==
  /\ pc = "loop"
  /\ pendingHooks # {}
  /\ em' = Bumped(em, pendingHooks)
  /\ hookQueue' = LET t == CreateTodos(em, pendingHooks) IN t.inserts \cup t.updates
  /\ pc' = "hooks"
  /\ UNCHANGED <<dbVars, hooksInvoked, pendingHooks, pendingFlush, hooked, writeVars, deleteVars,
                 timeVars, boundVars, loopVars>>

\* The hooks of an entity; they are skipped when an earlier one deleted it.
RunHook(e) ==
  /\ pc = "hooks"
  /\ e \in hookQueue
  /\ hookQueue' = hookQueue \ {e}
  /\ IF IsDeleted(em.inst[e]) THEN UNCHANGED <<em, hooked>>
     ELSE em' \in HookResults(em) /\ hooked' = hooked \cup {e}
  /\ UNCHANGED <<dbVars, pc, hooksInvoked, pendingHooks, pendingFlush, writeVars, deleteVars,
                 timeVars, boundVars, loopVars>>

HooksDone ==
  /\ pc = "hooks"
  /\ hookQueue = {}
  /\ pc' = "settleDeletes"
  /\ UNCHANGED <<em, dbVars, hookVars, writeVars, deleteVars, timeVars, boundVars, loopVars>>

\* Whether deletes and recalculations have both settled.
NothingToDrain == em.pendingDeletes = {}

\* Reactions may have deleted entities: drain them too.
SettleAgain ==
  /\ pc = "settleRecalc" /\ Settled("reactables")
  /\ ~NothingToDrain
  /\ pc' = "settleDeletes"
  /\ recalcs' = 0
  /\ UNCHANGED <<em, dbVars, hookVars, writeVars, deleteVars, timeVars, boundVars, loops>>

\* Entities the hooks and reactions of this loop dirtied.
NewlyPending(m) == Candidates(m)

EndHooks ==
  /\ pc = "settleRecalc" /\ Settled("reactables")
  /\ NothingToDrain
  /\ hooksInvoked' = hooksInvoked \cup pendingHooks
  /\ em' = Pruned(em)
  /\ pendingHooks' = NewlyPending(em) \ hooksInvoked'
  /\ pendingFlush' = pendingFlush \cup Candidates(em)
  /\ pc' = "loop"
  /\ recalcs' = 0
  /\ UNCHANGED <<dbVars, hookQueue, hooked, writeVars, deleteVars, timeVars, boundVars, loops>>

CreatedThenDeleted(m, S) == {e \in S : IsDeleted(m.inst[e]) /\ IsNew(m.inst[e])}

\* Entities created and deleted before they were written are left out.
EndPass ==
  /\ pc = "loop"
  /\ pendingHooks = {}
  /\ LET gone == CreatedThenDeleted(em, pendingFlush)
     IN /\ toFlush' = pendingFlush \ gone
        /\ createdThenDeleted' = createdThenDeleted \cup gone
  /\ allFlushed' = allFlushed \cup toFlush'
  /\ todo' = CreateTodos(em, toFlush')
  /\ pc' = "validate"
  /\ UNCHANGED <<em, dbVars, hookVars, deleteVars, timeVars, boundVars, loopVars>>

----------------------------------------------------------------------------
(* Validation, the transaction and the reset. *)

NothingToWrite == todo = NoTodo

\* Validation passed: open the transaction, or go on in the one this flush has opened.
Validated ==
  /\ pc = "validate"
  /\ inTx \/ ~NothingToWrite
  /\ inTx' = TRUE
  /\ pc' = IF NothingToWrite THEN "commit" ELSE "write"
  /\ UNCHANGED <<em, db, tx, hookVars, writeVars, deleteVars, timeVars, boundVars, loopVars>>

Fixup(m) == Update(m, createdThenDeleted, FixupCreatedThenDeleted)

\* Nothing to write at all: no transaction and no reset.
NothingFlushed ==
  /\ pc = "validate"
  /\ ~inTx /\ NothingToWrite
  /\ em' = Fixup(em)
  /\ UNCHANGED db
  /\ EndOfFlush

\* The UPDATE's WHERE clause matches every row, and no INSERT meets a row.
WriteHolds ==
  /\ \A e \in todo.updates : tx[e] # NoRow /\ tx[e].stamp = em.inst[e].origStamp
  /\ \A e \in todo.inserts : tx[e] = NoRow

\* The updated_at trigger bumps a stamp the UPDATE left alone.
Row(d, old) == [value |-> d.value, stamp |-> IF old # NoRow /\ old.stamp = d.stamp THEN clock + 1 ELSE d.stamp]

Write ==
  /\ pc = "write"
  /\ WriteHolds
  /\ tx' = [e \in Entity |->
              IF e \in todo.inserts \cup todo.updates THEN Row(em.inst[e], tx[e])
              ELSE IF e \in todo.deletes THEN NoRow ELSE tx[e]]
  /\ pc' = "written"
  /\ UNCHANGED <<em, db, inTx, hookVars, writeVars, deleteVars, timeVars, boundVars, loopVars>>

\* "Oplock failure", or a duplicate key.
WriteFails ==
  /\ pc = "write"
  /\ ~WriteHolds
  /\ UNCHANGED <<em, db>>
  /\ EndOfFlush

\* Reactive queries are pending: open another round.
StartQueries ==
  /\ pc = "written"
  /\ "query" \in em.needs
  /\ em' = Update(em, toFlush, ResetForRqfLoop)
  /\ pc' = "query"
  /\ UNCHANGED <<dbVars, hookVars, writeVars, deleteVars, timeVars, boundVars, loopVars>>

QueriesSettled ==
  /\ pc = "query" /\ Settled("query")
  /\ pc' = "queryRecalc"
  /\ recalcs' = 0
  /\ UNCHANGED <<em, dbVars, hookVars, writeVars, deleteVars, timeVars, boundVars, loops>>

AdvanceNow == NewNow

NextPass ==
  /\ pc = "queryRecalc" /\ Settled("reactables")
  /\ pc' = "pass"
  /\ AdvanceNow
  /\ recalcs' = 0
  /\ UNCHANGED <<em, dbVars, hookVars, writeVars, deleteVars, boundVars, loops>>

LastPass ==
  /\ pc = "written"
  /\ "query" \notin em.needs
  /\ pc' = "commit"
  /\ UNCHANGED <<em, dbVars, hookVars, writeVars, deleteVars, timeVars, boundVars, loopVars>>

CommitsWrites == Mode = "writes"

Commit ==
  /\ pc = "commit"
  /\ CommitsWrites
  /\ db' = tx
  /\ pc' = "committed"
  /\ inTx' = FALSE
  /\ UNCHANGED <<em, tx, hookVars, writeVars, deleteVars, timeVars, boundVars, loopVars>>

\* A dry run throws out of its own transaction, which rolls back (a joined one is
\* Transactions!DryRunEnds); #flush catches it and skips every reset.
RollbackDryRun ==
  /\ pc = "commit"
  /\ ~CommitsWrites
  /\ UNCHANGED <<em, db>>
  /\ EndOfFlush

ToReset == allFlushed

\* afterCommit has run: the tracking starts over.
Reset ==
  /\ pc = "committed"
  /\ em' = Fixup(Update(em, ToReset, ResetAfterFlushed))
  /\ UNCHANGED db
  /\ EndOfFlush

\* A hook, rule, query or the driver throws.  The transaction rolls back (after
\* the COMMIT there is none left); what is in memory stays as it is.
Fail ==
  /\ pc \in FailAt \ {"idle"}
  /\ UNCHANGED <<em, db>>
  /\ EndOfFlush

FlushStep ==
  \/ TakeDeletes \/ CascadeBatch \/ DeletesDrained
  \/ RecalcReactables \/ RecalcQueries \/ RecalcLoopsForever
  \/ OpenSettled \/ StartPass \/ TooManyPasses \/ OpenHooks \/ HooksDone
  \/ \E e \in Entity : RunHook(e)
  \/ SettleAgain \/ EndHooks \/ EndPass
  \/ Validated \/ NothingFlushed \/ Write \/ WriteFails
  \/ StartQueries \/ QueriesSettled \/ NextPass \/ LastPass
  \/ Commit \/ RollbackDryRun \/ Reset

Next == AppEdit \/ AppDeleteDuringFlush \/ StartFlush \/ FlushStep \/ Fail

Spec == Init /\ [][Next]_vars
\* Hooks, rules and queries return, and the driver answers.
FairSpec == Spec /\ WF_vars(FlushStep)

----------------------------------------------------------------------------
(* What must hold. *)

\* The commit is atomic and complete: the rows change in one step only, to what
\* memory holds of every entity, whatever hooks, reactions and failures did.
Memory == [e \in Entity |-> IF ~InMap(em.inst[e]) THEN "unborn"
                            ELSE IF IsDeleted(em.inst[e]) THEN "gone" ELSE em.inst[e].value]
CommittedRows == [e \in Entity |-> IF db[e] = NoRow THEN NoRow ELSE db[e].value]
Saved == INSTANCE UnitOfWork WITH
           memory <- Memory, rows <- CommittedRows, NotYet <- "unborn", Gone <- "gone"
SavesMemory == Saved!Spec

\* Between flushes an entity the manager reports as clean is what the database
\* has, its oplock stamp included.
CleanIsCommitted ==
  pc = "idle" =>
    \A e \in Entity :
      LET d == em.inst[e]
      IN Op(em, e) = "none" =>
           db[e] = IF InMap(d) /\ ~IsDeleted(d) THEN [value |-> d.value, stamp |-> d.stamp] ELSE NoRow

\* findPendingFlushEntities scans #maybePendingFlushEntities alone, so an entity
\* with something to write must be in it: outside of it a change is never found.
NoForgottenChange == \A e \in Entity : Op(em, e) # "none" => em.inst[e].maybe

\* Hooks run at most once per flush for an entity, and before its first SQL.
HooksOnceBeforeWrite ==
  /\ hookQueue \cap hooked = {}
  /\ pc = "write" => todo.inserts \cup todo.updates \subseteq hooked

\* A row is deleted only after its beforeDelete hooks ran and the children that
\* cascade with it were deleted.
CascadeBeforeDelete ==
  pc = "write" =>
    \A e \in todo.deletes :
      /\ e \in cascaded
      /\ \A c \in Cascade[e] : InMap(em.inst[c]) => IsDeleted(em.inst[c])

\* An UPDATE fails its oplock only when another writer changed the row: here
\* nobody else writes, so no flush may fail it.
OplockOnlyOnConflict == pc = "write" => WriteHolds

\* Hooks and reactions that keep dirtying each other do not keep a flush alive.
FlushEnds == pc # "idle" ~> pc = "idle"
=============================================================================
