# A TLA+ model of Joist's unit of work

Joist (`src/packages/core`, `src/packages/orm`) is an entity-based ORM for TypeScript.
An `EntityManager` keeps loaded and new entities in memory, tracks what changed, and
`em.flush()` runs hooks, derived fields and rules and writes what is pending in one
transaction. Everything interesting happens between the `await`s of that flush and in the
bookkeeping that decides what is still to be written. These modules model that core; TLC
checks them on small instances and TLAPS proves part of it for every instance.

    tlc -config FlushLock.cfg MCFlushLock        # a run of the table below
    tlapm EntityFlushProofs.tla                  # the proofs of a module

Contents: [system](#1-the-system) · [modules](#2-modules-and-the-code-they-model) ·
[runs](#3-runs-bounds-and-fairness) · [divergences](#4-where-the-code-and-its-documentation-disagree) ·
[proofs](#5-proofs) · [limits](#6-what-is-not-modelled) · [plan](#7-plan)

## 1. The system

| component | state it keeps | operations | talks to |
|---|---|---|---|
| Flush lock (`FlushLock.ts`) | `#isFlushing`, `#flushSecret`; the `currentFlushSecret` of each async context | `startLock`, `releaseLock`, `allowWrites`, `checkWritesAllowed` | the flush opens sections; every setter asks it |
| Change tracking (`InstanceData.ts`, `fields.ts`) | `data`, `originalData`, `flushedData`, the `Operation` of creation and deletion, `isTouched`, membership of `#maybePendingFlushEntities` | `setField`, `em.create`, `em.touch`, `em.delete`, the resets of a round and of a flush | queues reactables in the reactions; read by the todos |
| Flush (`EntityManager.ts`, `Todo.ts`) | `#pendingDeletes`, and the locals of `#flush`: hooks invoked, entities to flush, all flushed, loops, `now` | `flush`, `runHooksOnPendingEntities`, `flushDeletes`, `findPendingFlushEntities`, `maybeBumpUpdatedAt` | lock, reactions, rules, driver |
| Reactions (`ReactionsManager.ts`) | pending reactables per kind, dirtied fields, `#needsRecalc`, type errors | `queueDownstreamReactables`, `dequeueDownstreamReactables`, `recalcPendingReactables` | called by setters, drained by the flush |
| Many-to-many (`JoinRows.ts`, `ManyToManyCollection.ts`) | a `JoinRow` per pair, a state object per collection, `pendingLoads` | `add`, `remove`, `set`, `load`, `toTodo` | percolation to the other side; loads by the batch loader; written by the driver |
| One-to-many, many-to-one, one-to-one, polymorphic | loaded and pending members, old and new reference | the same, plus cascades | percolation, `setField` of the foreign key |
| Driver (`PostgresDriver.ts`, `EntityWriter.ts`) | `em.txn` | `transaction`, `flush`: INSERT, UPDATE with the oplock, DELETE, join rows | database; the `updated_at` trigger of `migration-utils` |
| Identity map (`EntityManager.ts`, `IndexManager.ts`) | `#entitiesArray`, `#entitiesById`, the index | `create`, `hydrate`, `filterEntities`, `fork` | every call that returns entities |
| Loaders (`dataloaders/`) | `#dataloaders`, dropped by a flush or refresh | `load`, `find`, `findOrCreate`, `findWithNewOrChanged`, `refresh` | driver, identity map, relations |
| Batch loaders (`batchloaders/`, `loadLens.ts`, `RecursiveCollection.ts`) | `#batchLoaders`, what joins have fetched for relations nobody has loaded yet (`#preloadedRelations`), which properties are loaded | `populate`, `load` with a hint, `loadLens`, the `load` of properties and of recursive collections | each other, relations, the join preloader |
| Find queries (`QueryParser*.ts`, `scopes.ts`, `ConditionBuilder.ts`) | none that survives a call | `parseFindQuery`, `optimizeCollectionJoins`, `pruneUnusedJoins` | called by `find`, rendered by the driver |
| Rules, plugins, serdes, code generators, test utilities | none that survives a call, or static metadata | | |

Hard behaviours, and what makes a component correct:

* **Interleaving.** A manager is single-threaded but asynchronous: at each `await` of a
  flush, application code may run. The lock must exclude a second flush and reject outside
  writes without rejecting hooks. `em.delete` and collections do not ask the lock at all.
* **Fixed points.** Hooks, cascades, reactions and reactive queries dirty each other. A
  flush must find everything dirtied, run each entity's hooks once and before its SQL, run
  a deletion's cascade and `beforeDelete` before its DELETE, and stop.
* **Atomicity and retry.** Any callback may throw. The database must change to all that
  memory holds or not at all; a failed flush leaves memory as it is, and the retry must do
  what the first attempt should have done.
* **Rounds.** Reactive query fields are computed from rows already written, in the same
  transaction, so one flush may write an entity several times with one commit and one
  reset, each UPDATE comparing with the stamp of the one before.
* **Stale results.** A load's query is answered at one moment and applied at another, with
  edits and flushes between them. Results must be merged with what memory already holds,
  and nothing that was looked up may be created a second time.
* **Promises that wait for promises.** A populate waits for batches, which load properties,
  which populate: what is shared must be neither waited for in a circle, nor leave out what one
  caller asks for, nor load for one what another has asked for.
* **Other managers.** A row may change, appear or go between the SELECT and the UPDATE;
  `updated_at` must make of that an error and not a lost update.
* **Rewriting.** A filter is parsed, rewritten to EXISTS, pruned and batched with others:
  each step must keep what the filter means, and whose answer is whose.

The full list, each at its line, is `hazards` in `PROJECT.json`.

## 2. Modules and the code they model

    FlushLock --- MCFlushLock                    InstanceData --- EntityFlush --- MCEntityFlush
        \--- FlushLockProofs                                         |  \--- UnitOfWork (abstract)
                                                                     \--- EntityFlushProofs
    JoinRows --- ManyToMany --- MCManyToMany     OneToMany --- MCOneToMany
                     \--- ManyToManyProofs            \--- OneToManyProofs --- FoldInduction
    ReactiveHints --- Reactions --- MCReactions  Transactions --- MCTransactions
                          \--- ReactionsProofs        |  \--- OptimisticRows (abstract)
                                                      \--- TransactionsProofs
    ParsedQueries --- Scopes --- QueryParser --- CollectionJoins --\
                                        \------- FindMeaning ------ FindLoader --- MCFindLoader
    EntityManagers --- IdentityMap --- MCIdentityMap
                           \--- IdentityMapProofs
    LoadedRelations --- Populate --- MCPopulate

`PROJECT.json` maps each definition to its lines. Where a component's own questions need
another, it has the part of it that they need: `Reactions` and `ManyToMany` have their own
short em.flush, whose long form is `EntityFlush`.

### FlushLock

The lock of every manager of a process. A *context* is a live chain of promises; `store`
is what `AsyncLocalStorage` holds for it. `StartFlush` is `startLock` and, synchronously,
the first `allowWrites`; `RejectFlush` is the call whose `startLock` throws (before the
`try`, so its `finally` releases nothing); `Fork` is a promise started in a section, which
inherits the secret; `ResolveSection` is the `then` that bumps the secret, `FailSection`
the rejection that does not. Nothing ends a context with its section: hooks may leave
promises behind. The store records, besides the number the code keeps, which manager
issued it; only properties look at that.

### InstanceData

The change tracking of one entity as pure operators on a record. An entity has one
ordinary field, and `updated_at`. `SetField` keeps the three branches of `setField`: back
to the original value, to the current value, to another; with what each does to
`flushedData` inside a reactive query loop. `PendingOperation` is the getter of the same
name. `maybe` is membership of `#maybePendingFlushEntities`, a set of the manager that
only these operations and the pruning of `findPendingFlushEntities` change.

### EntityFlush

One manager and its rows. `pc` names the `await` at which `#flush` stands:

| `pc` | code | actions |
|---|---|---|
| `openDeletes`, `openRecalc` | first section: `flushDeletes`, reactables | `TakeDeletes`, `CascadeBatch`, `DeletesDrained`, `RecalcReactables`, `OpenSettled` |
| `pass` | head of `runHooksOnPendingEntities` | `StartPass`, `TooManyPasses` |
| `loop`, `hooks` | `while (pendingHooks.size > 0)` | `OpenHooks`, `RunHook`, `HooksDone`, `EndPass` |
| `settleDeletes`, `settleRecalc` | deletes and recalculations until both settle | the first row's actions, `SettleAgain`, `EndHooks` |
| `validate` | rules; then a transaction is opened | `Validated`, `NothingFlushed` |
| `write`, `written` | `driver.flush` | `Write`, `WriteFails`, `LastPass`, `StartQueries` |
| `query`, `queryRecalc` | reactive queries, their reactables, new timestamp | `RecalcQueries`, `QueriesSettled`, `NextPass` |
| `commit`, `committed` | COMMIT, or the rollback of `in-memory-writes`; the reset | `Commit`, `RollbackDryRun`, `Reset` |

`Fail` is a throw at any `pc` in `FailAt`. `RecalcLoopsForever` and `TooManyPasses` are the
two loop bounds of the code (50 and 10). Hooks, derived fields, reactions and reactive
queries are application code: each chooses any one edit its constant set of entities allows
(`HookEdits`, `ReactionDeletes`, ...), so a run covers every such application. Todos are
computed once by `EndPass` and used at `Write`, as in the code; `updated_at` is bumped at
`OpenHooks` for what is pending before the hooks, and at `StartPass` for what is dirtied
again after its own; `Row` is the `updated_at` trigger.

`cascaded` and `hooked` record, for properties, whose `beforeDelete` and `beforeFlush` ran.

Abstractions: entities are loaded and have `updated_at`; a hook writes at most once; time
passes only when the flush takes a timestamp, which is unique (`getNow`); `em.delete` marks
either the entity or, when the collection is loaded, its children with it. These flushes are outside
`em.transaction`, so the transaction is the flush's own, and a dry run rolls it back; flushes
that join one are in `Transactions`.

### UnitOfWork

What `em.flush` promises: rows change only in a `Save` that makes *all* of them equal to
memory. `EntityFlush!Saved` instantiates it with memory as the entities' values and rows as
the committed ones; `hooks_flush` and `query_flush` check `Saved!Spec`.

### JoinRows, ManyToMany

`JoinRows` is one `JoinRow` (`op`, `persisted`, `deleted`) under `addNew`, `addRemove`,
`loadRows`, `toTodo` and the driver's marks. `ManyToMany` has a collection of every entity on both
sides, in the four states of `ManyToManyCollection`: unloaded and pristine, unloaded with
adds and removes, set before it was loaded, loaded. An edit is one synchronous call and
percolates; a load is `QueryLinks` (the answer is fixed) and `ApplyLoad` (merged with what
the collection has become); a flush awaits the loads of pending sets, runs hooks, takes the
todos, writes, possibly goes through reactive-query rounds, commits and resets every row.
`wanted` is the ghost of the application's requests, and what the properties compare with.

Six BOOLEAN constants say which usage an instance includes: `BlindEdits`, `ReAdds`,
`OverlappingSets`, `StaleLoads`, `LateSets`, `JoinOnlyRounds`. With each of them, or with
failures after a write or during a load, a property fails (section 4): the passing run
shows where the algorithm is right, the constants draw the line.

### ReactiveHints, Reactions

`ReactiveHints` is static: a hint is a prefix-closed set of paths, `ReverseReactiveHint`
turns the hint of a derived value into the *reactables* of every type it reads (which
fields of which entity, read-only or not, and the path that leads back), and
`IndexReactables` is the index the manager asks.

`Reactions` is `ReactionsManager` with the flush around it. A derived value is *what its
lambda reads*: a function from the leaves of its hint to the values found there, so that a
stale value differs from a fresh one whatever the lambda computes. Setters queue
(`QueueDownstream`) and dequeue (`DequeueDownstream`); `TakeTodos` walks from queued entities back
along the reversed hint with the references' histories; the lambdas of an iteration run
concurrently (`RunAction`, any order), may throw a `NoIdError` or a `TypeError`, which `AssignIds` and
`RetryTypeErrors` answer with another try, or fail the flush. Reactive queries read committed and written rows in
further rounds. `world` is what a run starts from; MCReactions has two worlds, one with
collections, a query and run-once reactions, one with a tree (`mentorsRecursive`), an
immutable reference and a chain of derived values. A definition is known by its name
(`NamesAssumption`), as the reactables of a field or reaction are in the code.

### OneToMany

The collections of the owners (a type other than the children's) in their states (elsewhere, pristine, added-and-removed,
pending set, loaded), the references of the children, and both directions of percolation.
A load is three steps: the query is answered, the children are hydrated (`BatchLoaded`),
the collection takes them in (`Preload`); other code runs in between. `em.cache` is what
`get` keeps sorted. A flush awaits pending loads, runs hooks, cleans up the relations of
what was deleted, and writes foreign keys. `wanted` is the ghost of the application's
requests.

### Transactions, OptimisticRows

Managers with one table. A call is `em.flush` or `em.transaction` with a lambda that
flushes; calls of one manager share its entities and `em.txn`. An UPDATE is a batch whose
columns are the union of what its entities changed, and whose WHERE compares
`updated_at`; it locks rows one by one and waits for those another transaction has
written. A manager of `DryRun` may flush with `in-memory-writes`: the flush writes, throws, and
catches that itself (`DryRunEnds`), which rolls back a transaction of its own and leaves one it
joined as it is. `OptimisticRows` is the promise: a save is one step, and updates a row only from
the version its manager has seen. `NoLostUpdate` is the refinement.

### ParsedQueries, Scopes, QueryParser, CollectionJoins, FindMeaning, FindLoader

`ParsedQueries` is the AST and, as external semantics, the rows that SQL selects for it: joins,
three-valued conditions, EXISTS, ORDER BY, LIMIT. `Scopes` resolves named scopes;
`QueryParser` is `parseFindQuery`; `CollectionJoins` rewrites collection joins to EXISTS
and prunes; `FindMeaning` says without any query what a filter means in memory. In `FindLoader`
callers parse at once, queries of one structure wait for the end of the tick in one loader,
run as one statement joined to the table of their values, and are answered later, while
entities are deleted, another manager changes rows, and a flush drops the loaders. So one
property, `FindsAreWanted`, compares the whole pipeline with the meaning of the filter.

### EntityManagers, IdentityMap

`EntityManagers` has a manager as a value: its entities, the map by id, the index, and
every synchronous call as an operator: `setField`, references, `em.create`, `em.delete`,
hydration, what a flush leaves behind, `filterEntities` by scan and by index, and `em.fork`.
`IdentityMap` has the asynchronous calls: `em.load` (and `loadAll`, `loadAllIfExists`),
`em.refresh`, `em.findWithNewOrChanged`, `em.findOrCreate`. Each asks a loader, whose SELECT
is sent at one step and hydrated at another, in any order of answers; the program and another
manager act in between. What a find has found is a set: which entity answers is chosen
where the code chooses. `Allowed` lists the overlaps that break a property (section 4).

### LoadedRelations, Populate

`LoadedRelations` has the relations of a manager as values: what is in memory, the foreign keys
as they are set, which collections are loaded, with which members, and what joins have
fetched for those that are not (`pre`). A load hint is a prefix-closed set of paths; a
*hint tree* is a set of pairs of a path and an entity it is still to be loaded for, so
that the merging of hints in a batch is a union.

In `Populate` every promise is a task: a `call` of the application, the load of a `property`,
a `layer` of a populate, a `batch` of a loader. `at` is the await at which it stands:

| place | code | left by |
|---|---|---|
| `new`, `ask`, `open`, `pull` | code that runs to its next await | `Resume`, before anything else |
| `pending`, `due` | a batch that is collected; its tick has come | `Tick`, `Dispatch` |
| `asked` | a query under way | `Answer` |
| `preload`, `intermixed`, `loading`, `nested`, `first`, `second` | an await of other promises | `Resume`, when all have ended |
| `done`, `failed` | settled | |

The order in which microtasks go on is left open, and the database answers in any
order. A property counts as loaded once its `load` is done (`calc`): the code probes the hint
again when it is asked whether it is loaded, with the same answer, as what a hint reaches
is not unloaded. Properties compare with `Whole`, the relations of the database with the
edits, all of them loaded.

## 3. Runs, bounds and fairness

| run | instance | shows |
|---|---|---|
| `flush_lock` | 2 managers, 3 calls, 3 contexts, `MaxSecret` 3; symmetric; 35,731 states | `TypeOK`, `FlushMutex`, `NoOwnWriteWhileLocked` |
| `hooks_flush` | 3 entities (one unborn), 2 values, a cascade, a reactive field, editing and deleting hooks, deleting reactions, any callback, rule or statement up to the COMMIT may fail, 2 edits, 2 flushes; 104,566 states | `SavesMemory` (refinement), `NoForgottenChange`, `HooksOnceBeforeWrite` |
| `query_flush` | reactive queries over several rounds, 3 edits, 2 flushes; 29,866 states | `TypeOK`, `CleanIsCommitted`, `OplockOnlyOnConflict`, `SavesMemory` |
| `dry_run_ends` | `in-memory-writes`; a chain e1 → e2 → e3 of cascades, deleting hooks; fields and queries that depend on each other without end; deletes during the flush; a reaction that deletes e3; loop bounds 2 and 1; 48,897 states | `CascadeBeforeDelete`, `FlushEnds` (liveness) |
| `join_rows` | 1 × 3 entities, one of them new, one stored link, 3 edits, 2 flushes, one further round, failures before the write; 421,537 states | `LoadedIsWanted`, `PersistedIsStored`, `FlushSavesWanted` |
| `reactions` | the two worlds of MCReactions, 2 flushes, concurrent lambdas in any order, with missing ids and references; flushes of the second fail in their validation and are repeated; 249,132 states | `AlwaysUpToDate`, `ReactionsRan`, `RunsOnce` |
| `one_to_many` | 2 owners (one may be new), a stored and a new child, 3 edits, 2 flushes, 4 calls; 2,554,420 states | `LoadedIsOwned`, `CachedIsCurrent`, `FlushSavesWanted` |
| `transactions` | 2 managers with a call each: one may call em.transaction, the other flush as a dry run; 2 rows of 2 columns; failures at every step; 478,669 states | `NoLostUpdate` (refinement), `UnchangedIsCommitted`, `TransactionCommitsOnce`, `DryRunCommitsNothing`, `NeverStuck` |
| `find_queries` | some thirty-five filters, 2 callers, 2 databases, 1 change by another manager, 1 flush; 52,548 states | `FindsAreWanted`, `DeletedAreNotFound`, `FailsOnlyAtLimit` |
| `find_soft_deletes` | one caller, an OR over an author's and its books' columns | a counterexample to `FindsAreWanted` (section 4) |
| `identity_map` | tables of two or three rows, 2 overlapping calls, 1 edit, 1 change by another manager, 1 flush; 587,525 states | `OneEntityPerId`, `NoTwins`, `AnswersMatch`, `DeletedAreGone`, `NotBehindOwnCommit`, `IndexIsScan`, `ForkIsSame` |
| `populate` | 4 authors who mentor each other, 2 books, 1 image; 8 requests, 2 overlapping calls, 1 edit, with and without the preloader; 165,576 states | `LoadedIsTrue`, `OnlyAskedIsLoaded`, `NeverStuck`, `CallsGiveWhatIsThere` |

The type invariant of a module, `TypeOK`, is checked by itself or as the first conjunct of
the module's main invariant.

*Bounds.* Two flushes are what a retry needs: everything a failed flush leaves behind is met by
the second. Three entities give a chain of cascades, or a source, a derived entity and a
bystander. Two values let a field change, be set back, and change again. `MaxLoops` and
`MaxRecalcs` are those of the code (10 and 50) except in `dry_run_ends`, where smaller ones make
both bounds reachable; the recalculation is an unbounded choice there, so that the bound alone
ends it. One left entity is enough for `join_rows` because edits reach a pair from both of its
sides; an instance of 2 × 2 entities (1.9 million states) holds too. `MaxSecret` bounds the
number of sections, not their order: three leave a failed flush, a successful one and a third.
Two owners let a child move; three edits let it move, move back and be deleted. Two calls that
overlap are what an interleaving of loads needs, in `identity_map` as in `transactions`; there
an instance in which both calls may be em.transaction, with three calls in all and without dry runs, holds too (4.7
million states). `populate` has two calls as well: they join one batch, or wait for what the
other has begun, and the edit falls between any two of their steps. `find_queries` pairs finds
of one structure, because others share nothing; `EntityLimit` is 4, which the comments reach.
`IndexThreshold` is 2 (500 in the code, `IndexManager.ts:18`), so that most of `identity_map` is with an index and
some of it without.

*Deadlock* is not checked (`CHECK_DEADLOCK FALSE`) because the application is bounded: when
the edits and flushes are used up, the system stops. `NeverStuck` says instead that a
call that is under way always has a step, so that managers do not wait for each other.

*Fairness.* Only `FairSpec` has it: weak fairness of `FlushStep`, the flush's own steps,
which one JavaScript task runs to its end once the callbacks it awaits return and the
driver answers. None is assumed of the application's edits nor of failures. `FlushEnds`
is the one liveness property, and needs no more.

Each property of a passing run has a mutant in `PROJECT.json`: a slip in one mapped definition
(operators under "slip" in the modules) that makes TLC report it.

Where a passing run restricts its instance, it is because of a divergence below: each
restriction is a constant, and section 4 says what fails without it.

## 4. Where the code and its documentation disagree

`find_soft_deletes` is a run with a counterexample. The documentation of soft deletes says that
filters skip soft-deleted children; but an OR over an author's column and a column of
its books is rewritten branch by branch, the EXISTS of the books' branch takes that
branch's conditions only, and the soft-delete condition, a sibling of the OR, is pruned
with the join that is left (`QueryParser.collectionJoins.ts:172`).

The others are instances a reader can make by one change of a passing run's cfg:

| run | change | fails | because |
|---|---|---|---|
| `flush_lock` | the invariant that a secret is accepted only in the section that issued it, which is what "any external callers (i.e. application code) will be rejected" means | | a section that rejects does not bump the secret (`FlushLock.ts:42`): a promise its hooks left can write in the first section of the next flush |
| `hooks_flush` | `LateDeletes = TRUE` | `SavesMemory`, `CleanIsCommitted` | `em.delete` does not ask the flush lock (`EntityManager.ts:1657`): what is deleted after the entities to flush were collected keeps its row in this COMMIT, and what is deleted while it is written is reset as if the row were gone too |
| | `"committed"` in `FailAt` | `SavesMemory`, `CleanIsCommitted` | an `afterCommit` hook that throws skips the reset (`EntityManager.ts:2022`): what was inserted still counts as new, and if it is deleted now the next flush leaves it out as created-then-deleted, its row in place |
| `query_flush` | `QueryTargets` a query source too | `CleanIsCommitted` | a field changed in the first round, left alone in the second and changed in the third is not written (`EntityManager.ts:3470`) |
| | `ReactionDeletes` of an entity this flush inserts | `SavesMemory` | it counts as created-then-deleted, and its row is committed (`EntityManager.ts:1841`) |
| | `FailAt = {"validate"}` | `CleanIsCommitted`, `OplockOnlyOnConflict` | the retry takes the bumped `updated_at` for the loaded one (`EntityManager.ts:3390`) |
| `dry_run_ends` | `"openDeletes"` in `FailAt`, `MaxFlushes = 2` | `CascadeBeforeDelete` | `#pendingDeletes` is emptied before cascades and hooks are awaited (`EntityManager.ts:2476`) |
| `join_rows` | `BlindEdits = TRUE` | `LoadedIsWanted` | an add of what is already linked, or a remove of what is not, makes a row for it |
| | `ReAdds = TRUE` | `FlushSavesWanted` | a remove without a row assumes one in the table; an add after it is taken for stored (`JoinRows.ts:95`) |
| | `OverlappingSets = TRUE` | `LoadedIsWanted` | `set` replaces the adds and removes of an unloaded collection, whose rows and other side keep them |
| | `StaleLoads = TRUE` | `FlushSavesWanted` | a load answered before a write and applied after it marks the new rows as deleted |
| | `LateSets = TRUE` | `FlushSavesWanted` | pending loads are awaited before the hooks, and what hooks set waits for the next flush |
| | `JoinOnlyRounds = TRUE` | `FlushSavesWanted` | a round with changed links and no changed entity is not written, and is reset |
| | `"awaiting"` in `FailAt` | `FlushSavesWanted` | `pendingLoads` is emptied before its loads are awaited |
| | `"written"` in `FailAt` | `PersistedIsStored` | rows are marked persisted before the COMMIT |
| `reactions` | `retries` of a world, with `"action"` in its `failAt` | `AlwaysUpToDate` | a todo is cleared before its actions run (`ReactionsManager.ts:166`) |
| | a reaction whose hint dereferences what may be unset, in a world with `retries` | `ReactionsRan` | its `TypeError` fails the flush, whose retry neither runs it again nor fails: the errors to retry and the one to report are cleared by the flush that failed (`ReactionsManager.ts:256`, `EntityManager.ts:2097`) |
| | `Reverts = TRUE` | `ReactionsRan` | setting a field of a new entity back dequeues what its creation had queued |
| `one_to_many` | `BlindSets`, `LatePreloads`, `LateSets` or `StaleLoads` TRUE, `"awaiting"` in `FailAt` | `FlushSavesWanted` or `LoadedIsOwned` | a waiting set unsets children that were given another owner meanwhile; a load answered before a flush is applied after it; pending sets as above |
| `transactions` | `Stamped = FALSE` or `Distinct = FALSE` | `NoLostUpdate` | without `updated_at`, or with two flushes of one millisecond, a batch overwrites with stale values |
| | `Reuses` or `Catches` TRUE, `"reset"` in `FailAt` | `UnchangedIsCommitted` | memory takes what was rolled back for written |
| | `DryRun = {m1}`, the manager that calls em.transaction | `DryRunCommitsNothing`, `UnchangedIsCommitted` | the flush joins the transaction (`PostgresDriver.ts:176`), `#flush` catches the error that should roll it back (`EntityManager.ts:2088`), and `em.transaction` commits what was written, while memory still takes it for changes. The docs: "ensuring they won't be committed to the database" (`advanced/dry-run.md:8`), "allows entity mutations and `em.flush` w/o a `COMMIT`" (`EntityManager.ts:218`) |
| | both calls of one manager | `TransactionCommitsOnce` | the second em.transaction overwrites `em.txn` (`PostgresDriver.ts:176`) |
| `find_queries` | `DeletesFound = TRUE` | `DeletedAreNotFound` | the promise of an answered find is cached and keeps an entity that was deleted since |
| | a filter `{ or: [{ books: { title: undefined } }, { firstName }] }` | `FailsOnlyAtLimit` | the soft-delete condition outlives its pruned join, and the SQL fails (`QueryParser.pruning.ts:73`) |
| | a polymorphic filter with a new entity | `FindsAreWanted` | the condition is dropped and everything matches |
| `identity_map` | `Allowed = {"flush"}` | `NotBehindOwnCommit`, `NoTwins` | a refresh hydrates rows that are older than the manager's own commit; a flush drops the loaders that keep `findOrCreate` calls together |
| | `Allowed = {"key"}` | `NoTwins` | a call with another `ifNew` or `upsert` starts a second batch while the first finds ("batch the same `findOrCreate` calls together to avoid duplicates", `findOrCreateDataLoader.ts:31`) |
| | `Allowed = {"edit"}` | `AnswersMatch` | `em.find` in `findOrCreate` returns an entity that memory has edited so as not to match |
| | `Allowed = {"delete"}` | `AnswersMatch` | a settled call is cached, and answers with what was deleted or changed since |
| | `Allowed = {"unset"}` | `IndexIsScan` | unsetting a reference drops the id's index entry and leaves the instance's ("Automatically maintains indexes when fields are updated", `IndexManager.ts:26`) |
| | `Allowed = {"insert"}` | `DeletedAreGone` | a load that misses a row marks the entity deleted that another query has found meanwhile |
| `populate` | a property whose hint has the property itself | `NeverStuck` | its promise waits for a layer that waits for its promise; keys by hint only "make it unlikely for non-sql relations to deadlock on each other/themselves" (`populateBatchLoader.ts:43`) |
| | two edits of references above each other, to parents whose own parents are in memory only, and `up` | `CallsGiveWhatIsThere` | "We don't have to `while` loop this" (`RecursiveCollection.ts:171`): with two changed references above each other a third load is needed, and `load` throws |
| | a mentor that is set from one entity to another, and `down` | `LoadedIsTrue` | whoever is a parent of a child found is marked loaded, with the children found only (`recursiveChildrenBatchLoader.ts:88`) |
| | an edited reference whose reverse is one-to-one | `LoadedIsTrue` | its `preload` overwrites what was set while the load was under way (`OneToOneReference.ts:217`) |

Two more are preconditions of properties: after a refresh the index is stale
(`IndexIsScan`), and a manager that has flushed some of its new entities and not others
cannot be forked with pending changes, because the copies' `createId`s differ
(`ForkIsSame`, `EntityManager.ts:2625`).

## 5. Proofs

TLAPS proves, for every value of the constants that satisfies their assumptions:

| theorem | states | argument |
|---|---|---|
| `FlushLockProofs!TypeCorrect` | `Spec => []TypeOK` | one step per action |
| `FlushLockProofs!MutexCorrect` | `Spec => []FlushMutex` | `FlushMutex` with the types is inductive |
| `FlushLockProofs!NoOwnWriteCorrect` | `Spec => []NoOwnWriteWhileLocked` | needs `SecretsIssued` (no store holds a secret its manager has not reached) and `LockedIsFresh` (between sections, none holds the current one) |
| `EntityFlushProofs!TypeCorrect` | `Spec => []TypeOK` | `ManagerStep`: every action only *grows* the manager (below) |
| `EntityFlushProofs!NoChangeForgotten` | without reactive queries, `Spec => []NoForgottenChange` | `AllTracked`: no reactive query is ever queued, so no round opens, and every entity with something to write is a candidate |
| `EntityFlushProofs!HooksOnce` | `Spec => []HooksOnceBeforeWrite` | `HookInv` |
| `EntityFlushProofs!CascadesFirst` | `CascadesHold`: `Spec => []CascadeBeforeDelete` | `CascadeInv` |
| `EntityFlushProofs!ImplementsUnitOfWork` | `Careful`: `Spec => SavesMemory`, that is `EntityFlush` implements `UnitOfWork` | `SaveInv`, `StepSaved` |
| `EntityFlushProofs!CleanCommitted` | `Careful`: `Spec => []CleanIsCommitted` | `SaveInv` |
| `EntityFlushProofs!OplockSound` | `Careful`: `Spec /\ [][~ThrowsLate]_vars => []OplockOnlyOnConflict` | `SaveInv`, `BumpRemembered` |
| `TransactionsProofs!TypeCorrect` | `AwaitsItsCalls`: `Spec => []TypeOK` | `CallsInv` |
| `TransactionsProofs!CommitsOnce` | `AwaitsItsCalls`: `Spec => TransactionCommitsOnce` | `CallsInv`, `OnlyCommits` |
| `TransactionsProofs!DryRunsHarmless` | `AwaitsItsCalls`, `DryRunsAlone`: `Spec => DryRunCommitsNothing` | `CallsInv`, `DryOk` |
| `TransactionsProofs!NoUpdateLost` | `AwaitsItsCalls`, `Stamped`, `Distinct`: `Spec => NoLostUpdate`, that is `Transactions` implements `OptimisticRows` | `CallsInv`, `LockInv`, `CommitSaves` |
| `TransactionsProofs!UnchangedAgrees` | the same, with `DryRunsAlone`, without `Reuses`, `Catches` and throws at `reset`: `Spec => []UnchangedIsCommitted` | all three layers, `DryOk` |
| `ManyToManyProofs!TypeCorrect` | `Careful`: `Spec => []TypeOK` | `Inv` |
| `ManyToManyProofs!LoadedShowsWanted` | `Careful`: `Spec => []LoadedIsWanted` | `Inv`, `ShowsWanted` |
| `ManyToManyProofs!PersistedIsTrue` | `Careful`: `Spec => []PersistedIsStored` | `Inv`, `KnowsTable` |
| `ManyToManyProofs!NoEditLost` | `Careful`: `Spec => FlushSavesWanted` | `Inv`, `Saves` |
| `OneToManyProofs!TypeCorrect` | `Careful`: `Spec => []TypeOK` | `IInv` |
| `OneToManyProofs!BothSidesAgree` | `Careful`: `Spec => []LoadedIsOwned` | `IInv`: `PairOk` |
| `OneToManyProofs!CacheCurrent` | `Careful`: `Spec => []CachedIsCurrent` | `IInv` |
| `OneToManyProofs!FlushSaves` | `Careful`: `Spec => FlushSavesWanted` | `IInv`: `Wants`, `WrittenIsWanted` |
| `ReactionsProofs!ReactionRunsOnce` | `Spec /\ [][~ForgetsRun]_vars => []RunsOnce` | `IInv`: `RanOk`, `ErrorsOk` |
| `IdentityMapProofs!RowsHaveOneEntity` | `Spec => []OneEntityPerId` | `IInv` |
| `IdentityMapProofs!DeletedHaveNoRow` | `"insert" \notin Allowed`: `Spec => []DeletedAreGone` | `IInv`: `Missed` |
| `IdentityMapProofs!NeverBehindOwnCommit` | `"flush" \notin Allowed`: `Spec => []NotBehindOwnCommit` | `IInv`: `RowsAreCurrent`, `SnapsAreCurrent` |
| `IdentityMapProofs!IndexAnswers` | `IndexHolds`: `Spec => []IndexIsScan` | `IInv`, `IndexInv` |
| `IdentityMapProofs!LoadsAnswer` | `Spec => [][LoadsAnswerRows]_vars`, the part of `AnswersMatch` about loads | `IInv`, `LoadsInv` |
| `FoldInduction!FoldInvariant` | what each step of a fold keeps holds of its result | the fold's recursive function, by well-founded induction |

`Careful`, `CascadesHold` and the like are operators of the proof modules: the usage for
which the code keeps its promise. For each conjunct section 4 has what happens without it,
or the comment at its definition says so. The inductive invariants of the flush, its cascades, the
relations, the transactions and the reactions were checked by TLC, each on the instance of the run that
checks its property (the reactions' on one more, below), before they were proved.

### The flush

The first part of `EntityFlushProofs` has the lemmas about each operation of `InstanceData` (types, that
deletion and presence in the identity map are never undone, and what it does to the pending operation),
and lifts them to the manager (`Grows`), so that edits by hooks, reactions,
queries and the application are one case each.

`NoForgottenChange` is true only while a flush has one round: `QuerySources = {}` is the
assumption, and the first `query_flush` row of section 4 shows why it is needed.

`HooksOnceBeforeWrite` is not inductive. It speaks of `todo`, which is computed from
`pendingFlush`, which accumulates over the loop while `pendingHooks` is consumed. `HookInv` adds
what links them: the queue is what is left of `pendingHooks` (`QueueOfPending`, `QueueInHooks`);
whoever ran is invoked or is pending and no longer queued (`HookedOnce`); each of them ran its
hooks or was deleted before they could (`InvokedHandled`, `PendingHandled`), and whoever is
pending has something to write (`PendingHasWork`); and everything to flush is invoked or pending
(`FlushKnown`).

`CascadeBeforeDelete` speaks of the deletions that are written, and they were cascaded long
before, by batches whose own cascades make more deletions. `CascadeInv` says where each deletion is on
that way: it waits in `#pendingDeletes`, or is in the batch that is drained, or has been cascaded
(`DeletesQueued`, `DrainsDeletes`); whose deletion has been cascaded, its children that live in
memory are deleted too (`ChildrenDeleted`), because no edit revives one and none is loaded anew
(`LoadedStay`); when the loop over hooks begins and when the todos are computed nothing waits
(`LoopCascaded`, `TodoCascaded`, `StaysDrained`). `OnePass` is that without queries or deleting
reactions no further round finds a deletion. `CascadesHold` is what this needs: no `em.delete` that
comes while a flush runs; no throw in the two drains, since they empty
`#pendingDeletes` before they await (section 4); no reaction that deletes in a round after
the first; and children that are in memory or cannot be edited there.

The last part shows that the flush saves what memory holds. `SavesMemory` speaks of the
step that commits, and what that step writes was settled over the whole flush. `SaveInv` follows
one entity through it. `RowsFit`: until the COMMIT an instance remembers its row (`RowFits`: a value that is
not dirty is the row's, a dirty one has the row's in `originalData`). `TodosOk`: what is
written is made of memory as it is, and whoever has something to write is in it or was created
and deleted again; this needs `AllTracked`, because the candidates are looked for among
`#maybePendingFlushEntities` only. `BumpedOnce` and `StampsPast`: whoever is updated has the flush's
timestamp, which no row has, so that the trigger leaves it alone. `TableOk`: after the
write every row is what a save makes of its instance (`SavedRow`), the ones not written included
(`NothingPending`). The reset then makes instances that fit those rows (`ResetFits`). Edits by the
application, hooks and reactions are one case (`Keeps`), as for `Grows`. Every
COMMIT is `Saved!Save`, every other step `Saved!Edit` or a stutter.

`Careful` is: no reactive queries, so that a flush has one round; no `em.delete` while a flush runs; nothing
throws between COMMIT and reset. Section 4 has a counterexample for each. Other failures
may happen anywhere, in any number. `OplockSound` adds a temporal hypothesis: no flush throws after it
took its timestamp (`ThrowsLate`); a retry would take the bumped `updated_at` for the
loaded one. `BumpRemembered` says that a bumped entity was bumped in this flush and
remembers the stamp of its row.

### Transactions

None of the properties is inductive: each speaks of committed rows and memory, while
what decides them is work that is not committed, and stamps. The proof has three layers,
each an invariant that the next one uses; TLC checked each on the instance of the run.

* `CallsInv`: the place of each call says which transaction `em.txn` is (`CallOk`);
  only that one is open; a row has one writer, and nobody writes what is gone. So what is
  committed is committed by its owner, and `TransactionCommitsOnce` is `OnlyCommits`. While a
  dry run lasts, the rows it has written are its own (`OneWriter`), and its own call neither gets to
  the reset nor is an em.transaction (`DryOk`), so `DryRunCommitsNothing` holds.
* `LockInv`: no stamp is of the future; whoever has the stamp of a committed row has seen its version
  (`StampIsVersion`); nobody else has the stamp of what is written and not committed, or of what a
  flush is about to write (`WorkIsPrivate`, `TodoIsPrivate`). Then an UPDATE that finds
  the stamp it looks for finds the version its manager has seen, and stays the next
  version of that row as long as its lock is held (`WorkIsNext`): COMMIT is one `Save` of
  `OptimisticRows`, and every other step changes neither versions nor what was seen.
* `Agree`: an entity that comes from the committed version started from what its manager
  sees of the row, and once its flush has written it, is what it sees (`CallAgrees`, by the
  place of the call).

The hypotheses are the usage that section 4 shows to be needed. `AwaitsItsCalls` is one
call per manager at a time, which `TransactionsAssumption` leaves open; `Stamped` and
`Distinct` are that the table has `updated_at` and that two flushes do not take the same
time; `DryRunsAlone` is that a manager that makes dry runs does not call em.transaction; the last theorem adds that a manager whose transaction was rolled back is dropped,
that a lambda lets the error of a flush through, and that nothing throws between COMMIT and
the reset.

### Many-to-many

All four properties follow from one inductive invariant, `Inv`, whose core is about one
pair of entities at a time. What memory makes of a pair (`Held`) is its join row or, without
one, the table. `SideOk` says what each collection shows relative to that, in each of
its four states; `RowOk` what the row knows of the table and of what is wanted.
A set that waits for its load is the one request that `Held` does not have yet, and there is
at most one per pair. The rest, `PhaseOk`, is about the flush: which table is read
(`TableOk`), that what a load has read is still so when it is applied (`ReadingOk`), that a
set that waits has a load the flush waits for (`SetsOk`), that the todos are what there is
to write, and that after the write the table holds what memory holds (`TodoOk`).

Each operation is proved on one pair first (`PairAdded`, `PairRemoved`, `PairLoaded`,
`PairSetLater`, `PairWritten`, `PairReset`); `Percolates` and `Registers` say what an edit
of `x` does to collections and rows, and `Frame` that every pair without `x` stays as it
was. Then there is one lemma per action.

`Careful` is the usage of the run: none of the six BOOLEANs, and no failure while a
flush awaits loads or after its write. Section 4 has the counterexample for each. The
invariant was checked by TLC on the run's instance, and as an inductive invariant from all its
states on one of one pair, before it was proved.

### One-to-many

All four theorems are `IInv`, which speaks of one owner `o` and one child `b` at a time. Who
holds `b` (`Held`) is its foreign key or, while it is not in memory, its row. `PairOk` is what
`o`'s collection says of `b` relative to that, in each of its five states: a loaded one has `b`
just when `o` holds it; an unloaded one has what differs from the row; a set that waits has what
the application gave it, and leaves to its load what was there before. `FoundOk` is the same for
the answer of a load the collection has not taken yet, which may be older than its edits. `Wants` says
that what was asked for is what is held, except for what a waiting set or a deleted owner has
still to let go of.

Every action is then one of two kinds. An edit *moves* a set of children to an owner or to none:
`Moves` says what becomes of every pair, and one lemma shows that a move keeps `IInv` and does
what was asked. `SetReference`, `AddTo`, `RemoveFrom`, `SetTo` and the creation of a child are
moves; those of several children are folds in the code, and `FoldInduction` turns moves of one
child into moves of the set. A load or a clean-up *settles*: it brings to memory, or lets go of,
what was wanted all along (`Settles`). When a flush writes, no set waits and no deletion is
left, so that `Wants` says the rows it writes are the wanted ones (`WrittenIsWanted`).

`Careful` excludes four usages and failures at one await, the `one_to_many` row of section 4. Failures in
hooks, rules and SQL may come in any number.

### Folds

A theorem with an operator as its parameter cannot be instantiated by the prover, but a module
can: `FoldInduction` has the step, the order and the claim as CONSTANT operators, and `FoldInvariant`
says that what holds of the base and is kept by each step holds of the fold, whose
recursive function it defines by well-founded induction over the elements left. `OneToManyProofs`
has an instance for each of its folds.

### Reactions

`RunsOnce` counts the runs of a lambda per entity since the last commit. What forbids a second
run is `processedActions`, but an iteration's actions enter it only when all of them have
ended. `RanOk` therefore says that what ran is in it or among the finished of the iteration that
runs; `BatchOk`, that an iteration has nothing twice and nothing that was processed; `ErrorsOk`,
that what is to be tried again after a `TypeError` has not run, and is remembered as well, so that
no iteration takes it up beside the retry; `Indexed`, that a reactable says of `runOnce` what its
definition does.

Flushes may fail anywhere and be repeated, with one hypothesis. `ForgetsRun` is a step that loses what
ran: an iteration in which a lambda threw does not add its batch to `processedActions`, although its other
lambdas have run (`ReactionsManager.ts:232`), and its manager flushes again; or a commit
empties the set while the error of a run-once reaction is still to be tried again. TLC finds a
second run after a step of the first kind. The invariant was checked on a world with `TypeError`s,
throwing lambdas and repeated flushes; `reactions` repeats the flushes of a world whose
lambdas do not throw, because `AlwaysUpToDate` and `ReactionsRan` need that (section 4).

### The identity map

The invariant has, beside the properties, that entities, ids and the map agree and that ids come from
the sequence (`Memory`: an id that is in the map is one entity's, and no id is of a row that is
not committed yet), that calls, batches and loaders refer to each other and to entities of the
manager (`Loaders`), and what a SELECT that is under way may hold (`Snaps`). With these, hydrating
answers in any order meets the one entity of each id. `DeletedHaveNoRow` adds `Missed`: a row that
a load did not find is still not there when the answer comes, which an insert under it would break.
`NeverBehindOwnCommit` adds that neither rows nor answers under way are older than what this manager
committed, which holds as long as nothing is flushed under a refresh (section 4).

`IndexAnswers` has an invariant of its own. `IndexFits` relates the index to the values:
an entity that its field's index has reached has its value there, and nothing else that is there for it
has another meaning. For the reference that is no equality: an entity is indexed under the instance
it referred to, under that instance's id, or under both, depending on when each was known; a
later entry never tells them apart (`KeyRefers`) unless what is referred to is deleted, and then
nobody looks it up (`Dead`). `Stays` is what hydration, deletion, registering and a flush have in
common: they add entities, give ids and delete, and leave pairs and values alone; the index then
fits as before (`StaysFits`). Setting a field moves its entry (`FieldSet`), and filtering catches up
with the entities registered since (`IndexedFits`). `IndexHolds` is that where clauses name
fields and entities of the manager, and that an indexed entity's reference is not replaced: the
program does not unset one (section 4, `Allowed = {"unset"}`) and upserts set none. A refresh
replaces values under the index, so the property and `IndexInv` speak of the time before one.

`LoadsAnswer` says of every row that a load asked for and that was there when it did: until the
answer it is in memory, or in what the load's query will select, or in what that has selected, unless
it is deleted from the table (`LoadsInv`). A row that is deleted does not come back, as ids come from
the sequence; a query that was sent is joined by no further load (`Shared`), so what it has to bring
does not grow behind its SELECT (`GoesOn`); and what is in memory stays under its id.

### Only model-checked

* Liveness and ENABLED: `FlushEnds` and the `NeverStuck` of `Transactions`. They are out of the
  prover's reach.
* `FindLoader` and its modules walk nested queries, and `LoadedRelations` walks hint trees,
  with RECURSIVE operators, which the prover does not take; `FindsAreWanted` and the other
  properties of these modules and of `Populate` stay with TLC.
* The flush of several rounds: with reactive queries
  `CleanIsCommitted`, `OplockOnlyOnConflict` and `SavesMemory` hold for some choices of
  `QuerySources` and `QueryTargets` only (section 4), and are checked for those.
* `AlwaysUpToDate` and `ReactionsRan`: they need that walking a reversed hint back finds
  whoever reads through the hint forward, by induction over the path, with the references'
  histories on every step.
* `NoTwins` and `ForkIsSame` of `IdentityMap`, and `AnswersMatch` but for loads: the first and
  the last depend on several of the overlaps in `Allowed` at once and on which names the program
  and other managers give, and the second on what each fold of the copy makes of every entity.

## 6. What is not modelled

* *In the flush*: relation cleanup of deleted entities (`OneToMany` has it for its
  relation), commit rules and plugins, async defaults, reactables of `updated_at` (bumping it queues them, `EntityManager.ts:3393`), synchronous derived fields, id assignment.
* *In the change tracking*: lazy hydration (`RowData`, `getField`), more than one field.
* *In many-to-many*: `em.refresh` (`forceReload`), preloaded rows, deletion of an endpoint,
  `EnumCollection`, `ReactiveManyToMany`, other writers of the join table, edits during
  validation and write, ids of join rows, and the microtask between `loadRows` and the
  collection's own `preload`.
* *In the reactions*: polymorphic and many-to-many steps of a hint, inlined reactive getters, soft
  deletes, reactables of read-only fields, reactions that delete, `ReactiveReference`.
* *In one-to-many*: one-to-one eviction, polymorphic references, large collections, references to an
  entity that a load did not find (`markDeletedBecauseNotFound`).
* *In transactions*: more than one table, id assignment, lazy columns, drivers other than Postgres.
* *In the finds*: inheritance, lateral joins, plugins that edit the query, array and jsonb
  operators, `findCount`, `findIds`, paginated finds.
* *In the identity map*: subtypes, `importEntity`, `loadFromQuery`, `findByUnique`, the relations of
  refreshed and forked entities, cached `isLoaded` answers.
* *In the loading of graphs*: recursive many-to-many and one-to-one collections, polymorphic hints,
  forced reloads, enum and large collections, lenses through properties and fields, the cache of
  `isLoaded` answers; a SQL lens ignores what memory has changed (`loadLens.ts:135`), so nothing is
  claimed of what it returns.
* *Not at all*: rules as such (they pass or throw), plugins, serdes and keys (pure
  conversions), factories and upsert (sequences of modelled calls), code
  generators, test utilities.

`PROJECT.json` `components` has the reason for each.

## 7. Plan

Done: the flush with its lock, change tracking, abstract contract and proofs; many-to-many and
one-to-many relations; reactions; transactions; find queries; the identity map; populating,
lenses and recursive collections.

Next: `ReactiveReference` and `ReactiveManyToMany` in `Reactions`; one-to-one eviction and
polymorphic references in `OneToMany`; inheritance in `QueryParser`.

Proofs worth having next: the rest of `AnswersMatch` and `NoTwins`, from `IndexIsScan`; the rounds of a flush whose queries do not
write their own sources; `AlwaysUpToDate` for hints of one step.
