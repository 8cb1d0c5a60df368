------------------------------ MODULE OneToMany ------------------------------
(***************************************************************************)
(* A one-to-many relation in one entity manager: the collections of the    *)
(* owners (OneToManyCollection.ts), the references of the children that    *)
(* hold the foreign key (ManyToOneReference.ts), their loads, and what     *)
(* em.flush makes of them.                                                 *)
(*                                                                         *)
(* Either side may be edited, loaded or not, in memory or not.  An edit is *)
(* one synchronous call that percolates to the other side; a change to an  *)
(* owner that is not in memory waits for it in pendingPercolate.  A load   *)
(* is answered at one step, hydrated at another, and applied at a third.   *)
(***************************************************************************)
EXTENDS Naturals, FiniteSets, FiniteSetsExt

CONSTANTS Owner, Child,
          Fresh, Unborn,          \* children that have no row at first, owners that may have none
          Stored,                 \* the foreign keys of the other children
          Deletable,
          None, NoRow,            \* an unset reference; a child without a row
          NotLoaded, NotAsked, NoCache,
          BlindSets,              \* whether a reference may be set to what a waiting set left it at
          LatePreloads,           \* whether code runs between hydration and what a waiting set makes of it
          StaleLoads,             \* whether a load may be under way while a flush writes
          LateSets,               \* whether hooks may set what is not loaded
          FailAt,                 \* where a hook, a rule or the driver may throw
          MaxEdits, MaxFlushes, MaxCalls   \* bounds on the edits, the flushes, and both

ASSUME OneToManyAssumption ==
  /\ IsFiniteSet(Owner) /\ IsFiniteSet(Child) /\ Owner \cap Child = {}
  /\ Fresh \subseteq Child /\ Unborn \subseteq Owner
  /\ Stored \in [Child \ Fresh -> (Owner \ Unborn) \cup {None}]
  /\ {None, NoRow} \cap (Owner \cup Child) = {} /\ None # NoRow /\ NotLoaded \notin Owner \cup {None}
  /\ \A S \in SUBSET Child : S \notin {NotAsked, NoCache}
  /\ {BlindSets, LatePreloads, StaleLoads, LateSets} \subseteq BOOLEAN
  /\ {MaxEdits, MaxFlushes, MaxCalls} \subseteq Nat

VARIABLES em,             \* the manager: its entities, both sides of the relation, what waits for the flush
          asked, refAsked, \* loads whose query is answered: of collections, of references
          rows, owners,   \* the foreign keys in the database, and the owners that have a row
          pc, awaiting,
          edits, flushes,
          wanted          \* for the properties: the owner the application asked for

dbVars == <<rows, owners>>
loadVars == <<asked, refAsked>>
vars == <<em, loadVars, dbVars, pc, awaiting, edits, flushes, wanted>>

----------------------------------------------------------------------------
(* Collections.  That of an owner that is not in memory stands for its entry in *)
(* pendingPercolate, which its collection is made of when it comes. *)

Collection(kind, members) == [kind |-> kind, members |-> members, added |-> {}, removed |-> {}]
Pristine == Collection("pristine", {})
Elsewhere == Collection("elsewhere", {})

Changed(c) == IF c.kind = "pristine" THEN "addedRemoved" ELSE c.kind
AddState(c, b) ==
  IF c.kind = "pendingSet" THEN [c EXCEPT !.members = @ \cup {b}]
  ELSE [kind |-> Changed(c), members |-> IF c.kind = "loaded" THEN c.members \cup {b} ELSE {},
        added |-> c.added \cup {b}, removed |-> c.removed \ {b}]
RemoveState(c, b) ==
  IF c.kind = "pendingSet" THEN [c EXCEPT !.members = @ \ {b}]
  ELSE [kind |-> Changed(c), members |-> c.members \ {b},
        added |-> c.added \ {b}, removed |-> c.removed \cup {b}]

Living(m, x) == x \in m.mem /\ x \notin m.gone
Visible(m, o) == m.coll[o].members \ m.gone
NoCaches == [o \in Owner |-> NoCache]

\* Forms of the operators below with one slip each: an unloaded collection does not hear of a
\* child that left; a deletion leaves the cached answers of get.
RemoveIfLoadedOnly(m, o, b) ==
  IF m.coll[o].kind = "loaded"
  THEN [m EXCEPT !.coll[o] = RemoveState(@, b), !.mutated = @ \cup {o}, !.cache[o] = NoCache] ELSE m
DeleteKeepsCaches(m, x) == [m EXCEPT !.gone = @ \cup {x}, !.deletes = @ \cup {x}]
\* What a set replaces is left to its load.
NoneStale(m, o, S) == {}
\* A reference that was loaded is not compared with what it has been set to meanwhile.
AnyReference(m, b, o) == TRUE

RemoveIfLoaded(m, o, b) ==
  [m EXCEPT !.coll[o] = RemoveState(@, b), !.mutated = @ \cup {o}, !.cache[o] = NoCache]

\* The previous and the next owner hear of a change, or will when they are loaded.
PercolateRemove(m, o, b) ==
  CASE o = None -> m
    [] o \in m.mem -> RemoveIfLoaded(m, o, b)
    [] OTHER -> [m EXCEPT !.coll[o] = RemoveState(@, b)]
PercolateAdd(m, o, b) ==
  CASE o = None -> m
    [] o \in m.mem -> [m EXCEPT !.coll[o] = AddState(@, b), !.mutated = @ \cup {o}, !.cache[o] = NoCache]
    [] OTHER -> [m EXCEPT !.coll[o] = AddState(@, b)]

\* book.author.set
SetReference(m, b, o) ==
  IF m.fk[b] = o THEN m
  ELSE LET set == [m EXCEPT !.fk[b] = o, !.cache = NoCaches,
                            !.ref[b] = IF o \in m.mem \cup {None} THEN o ELSE NotLoaded]
       IN PercolateAdd(PercolateRemove(set, m.fk[b], b), o, b)
SetAll(m, S, o) == FoldSet(LAMBDA b, n : SetReference(n, b, o), m, S)

\* author.books.add and remove: the state first, then the reference, which percolates back.
AddTo(m, o, b) ==
  SetReference([m EXCEPT !.coll[o] = AddState(@, b), !.mutated = @ \cup {o}, !.cache[o] = NoCache], b, o)
RemoveFrom(m, o, b) == SetReference(RemoveIfLoaded(m, o, b), b, None)

\* Children in memory that still point to a collection that was set without them.
StaleChildren(m, o, S) == {b \in Child \cap m.mem : m.fk[b] = o} \ S

SetPending(m, o, S) ==
  [SetAll(SetAll(m, S, o), StaleChildren(m, o, S), None)
     EXCEPT !.coll[o] = Collection("pendingSet", S), !.mutated = @ \cup {o}, !.cache[o] = NoCache,
            !.pendingLoads = IF m.coll[o].kind = "pendingSet" THEN @ ELSE @ \cup {o}]
SetLoaded(m, o, S) ==
  LET old == m.coll[o].members
      left == FoldSet(LAMBDA b, n : RemoveFrom(n, o, b), m, old \ S)
  IN FoldSet(LAMBDA b, n : AddTo(n, o, b), left, S \ old)
SetTo(m, o, S) == IF m.coll[o].kind = "loaded" THEN SetLoaded(m, o, S) ELSE SetPending(m, o, S)

----------------------------------------------------------------------------
(* The identity map. *)

\* An owner that comes to memory takes over what percolated to it.
LoadOwner(m, o) ==
  IF o \in m.mem THEN m
  ELSE [m EXCEPT !.mem = @ \cup {o},
                 !.coll[o] = IF @ = Elsewhere THEN Pristine ELSE [@ EXCEPT !.kind = "addedRemoved"]]
\* Rows of entities that are in memory already do not overwrite them.
Hydrate(m, S, fks) ==
  [m EXCEPT !.mem = @ \cup S, !.fk = [b \in Child |-> IF b \in S \ m.mem THEN fks[b] ELSE @[b]]]

CreateChild(m, b, o) == SetReference([m EXCEPT !.mem = @ \cup {b}, !.fk[b] = None, !.ref[b] = None], b, o)
CreateOwner(m, o) == [m EXCEPT !.mem = @ \cup {o}, !.coll[o] = Collection("loaded", {})]
Delete(m, x) == [m EXCEPT !.gone = @ \cup {x}, !.deletes = @ \cup {x}, !.cache = NoCaches]

----------------------------------------------------------------------------
(* Loads. *)

\* The children a query returned, by the owner they have in memory.
Found(m, o, S) == {b \in S : m.fk[b] = o}

Merged(c, found) == (found \cup c.added) \ c.removed
ApplyLoad(m, o, found) ==
  LET c == m.coll[o]
      unset == SetAll(m, found \ c.members, None)
  IN [(IF c.kind = "pendingSet" THEN unset ELSE m) EXCEPT
        !.cache[o] = NoCache,
        !.coll[o] =
          CASE c.kind = "pristine" -> Collection("loaded", found)
            [] c.kind \in {"addedRemoved", "loaded"} ->
                 [c EXCEPT !.kind = "loaded", !.members = Merged(c, found)]
            [] c.kind = "pendingSet" ->
                 [kind |-> "loaded", members |-> c.members,
                  added |-> c.members \ found, removed |-> found \ c.members]]

RowsOf(o) == {b \in Child : rows[b] = o}

\* flushDeletes: both ends of what was deleted are loaded and let go of each other.
CleanedOwner(m, o) ==
  LET here == Hydrate(m, RowsOf(o), rows)
      all == IF m.coll[o].kind = "loaded" THEN here ELSE ApplyLoad(here, o, Found(here, o, RowsOf(o)))
  IN [SetAll(all, {b \in all.coll[o].members : all.fk[b] = o}, None)
        EXCEPT !.coll[o] = Collection("loaded", {}), !.cache[o] = NoCache]
CleanedChild(m, b) ==
  IF m.fk[b] = None THEN m ELSE RemoveFrom(LoadOwner(m, m.fk[b]), m.fk[b], b)
CleanedUp(m) ==
  LET owned == FoldSet(LAMBDA o, n : CleanedOwner(n, o), m, m.deletes \cap Owner)
  IN [FoldSet(LAMBDA b, n : CleanedChild(n, b), owned, m.deletes \cap Child) EXCEPT !.deletes = {}]

----------------------------------------------------------------------------
(* The application and its hooks. *)

Init ==
  /\ em = [mem |-> {}, gone |-> {}, deletes |-> {},
           fk |-> [b \in Child |-> None], ref |-> [b \in Child |-> NotLoaded],
           coll |-> [o \in Owner |-> Elsewhere],
           mutated |-> {}, pendingLoads |-> {}, preloaded |-> [o \in Owner |-> NotAsked],
           cache |-> NoCaches]
  /\ asked = [o \in Owner |-> NotAsked] /\ refAsked = {}
  /\ rows = [b \in Child |-> IF b \in Fresh THEN NoRow ELSE Stored[b]]
  /\ \E U \in SUBSET Unborn : owners = Owner \ U
  /\ pc = "idle" /\ awaiting = {}
  /\ edits = 0 /\ flushes = 0
  /\ wanted = rows

Settable(o) == o = None \/ (o \in owners \cup em.mem /\ o \notin em.gone)
\* What a waiting set will unset at its load still looks as it was.
LeftBySet(b, o) == o \in Owner /\ em.coll[o].kind = "pendingSet" /\ em.fk[b] = o /\ b \notin em.coll[o].members

Edits ==
  \/ \E b \in Child : \E o \in Owner \cup {None} :
       /\ Settable(o)
       /\ \/ Living(em, b) /\ (BlindSets \/ ~LeftBySet(b, o)) /\ em' = SetReference(em, b, o)
          \/ b \in Fresh /\ b \notin em.mem /\ em' = CreateChild(em, b, o)
       /\ wanted' = [wanted EXCEPT ![b] = o]
  \/ \E o \in Owner, b \in Child :
       /\ Living(em, o) /\ Living(em, b)
       /\ \/ em' = AddTo(em, o, b) /\ wanted' = [wanted EXCEPT ![b] = o]
          \/ /\ em.coll[o].kind \in {"loaded", "pendingSet"}
             /\ em' = RemoveFrom(em, o, b)
             /\ wanted' = [wanted EXCEPT ![b] = None]
  \/ \E o \in Owner : \E S \in SUBSET {b \in Child : Living(em, b)} :
       /\ Living(em, o) /\ (LateSets \/ pc = "idle" \/ em.coll[o].kind = "loaded")
       /\ em' = SetTo(em, o, S)
       /\ wanted' = [b \in Child |-> CASE b \in S -> o
                                       [] b \notin S /\ wanted[b] = o -> None
                                       [] OTHER -> wanted[b]]
  \/ \E o \in Owner \ (owners \cup em.mem) : em' = CreateOwner(em, o) /\ UNCHANGED wanted
  \/ \E x \in Deletable :
       /\ Living(em, x)
       /\ em' = Delete(em, x)
       /\ wanted' = [b \in Child |-> CASE b = x -> NoRow [] wanted[b] = x -> None [] OTHER -> wanted[b]]

Edit ==
  /\ pc \in {"idle", "hooks"} /\ edits < MaxEdits /\ edits + flushes < MaxCalls
  /\ edits' = edits + 1
  /\ Edits
  /\ LatePreloads \/ \A o \in Owner : em.preloaded[o] # NotAsked => em'.coll[o].kind # "pendingSet"
  /\ UNCHANGED <<loadVars, dbVars, pc, awaiting, flushes>>

\* em.load
Load ==
  /\ pc \in {"idle", "hooks"}
  /\ \/ \E o \in owners \ em.mem : em' = LoadOwner(em, o)
     \/ \E b \in Child \ em.mem : rows[b] # NoRow /\ em' = Hydrate(em, {b}, rows)
  /\ UNCHANGED <<loadVars, dbVars, pc, awaiting, edits, flushes, wanted>>

\* author.books.get, of what is loaded or set.
Get(o) ==
  /\ pc = "idle" /\ Living(em, o) /\ em.coll[o].kind \in {"loaded", "pendingSet"} /\ em.cache[o] = NoCache
  /\ em' = [em EXCEPT !.cache[o] = Visible(em, o)]
  /\ UNCHANGED <<loadVars, dbVars, pc, awaiting, edits, flushes, wanted>>

\* author.books.load: the database answers.
QueryCollection(o) ==
  /\ Living(em, o) /\ o \in owners /\ asked[o] = NotAsked /\ em.preloaded[o] = NotAsked
  /\ asked' = [asked EXCEPT ![o] = RowsOf(o)]
  /\ UNCHANGED <<em, refAsked, dbVars, pc, awaiting, edits, flushes, wanted>>
\* The batch loader hydrates the rows and leaves them to the collection...
BatchLoaded(o) ==
  /\ asked[o] # NotAsked
  /\ LET here == Hydrate(em, asked[o], [b \in Child |-> o])
     IN em' = [here EXCEPT !.preloaded[o] = Found(here, o, asked[o])]
  /\ asked' = [asked EXCEPT ![o] = NotAsked]
  /\ UNCHANGED <<refAsked, dbVars, pc, awaiting, edits, flushes, wanted>>
\* ...which takes them, now or at a later forced load.
Preload(o) ==
  /\ em.preloaded[o] # NotAsked /\ Living(em, o)
  /\ em' = ApplyLoad(em, o, em.preloaded[o])
  /\ UNCHANGED <<loadVars, dbVars, pc, awaiting, edits, flushes, wanted>>

\* book.author.load
QueryReference(b) ==
  /\ pc = "idle" /\ Living(em, b) /\ em.fk[b] \in owners \ em.mem
  /\ refAsked' = refAsked \cup {<<b, em.fk[b]>>}
  /\ UNCHANGED <<em, asked, dbVars, pc, awaiting, edits, flushes, wanted>>
StillReferred(m, b, o) == m.fk[b] = o
ReferenceLoaded(b, o) ==
  /\ <<b, o>> \in refAsked
  /\ LET here == LoadOwner(em, o)
     IN em' = IF StillReferred(here, b, o) THEN [here EXCEPT !.ref[b] = o] ELSE here
  /\ refAsked' = refAsked \ {<<b, o>>}
  /\ UNCHANGED <<asked, dbVars, pc, awaiting, edits, flushes, wanted>>

----------------------------------------------------------------------------
(* The flush. *)

StartFlush ==
  /\ pc = "idle" /\ flushes < MaxFlushes /\ edits + flushes < MaxCalls
  /\ flushes' = flushes + 1
  /\ em' = [CleanedUp(em) EXCEPT !.pendingLoads = {}]
  /\ awaiting' = em.pendingLoads /\ pc' = "awaiting"
  /\ UNCHANGED <<loadVars, dbVars, edits, wanted>>

PendingLoaded ==
  /\ pc = "awaiting" /\ \A o \in awaiting : em.coll[o].kind = "loaded"
  /\ pc' = "hooks" /\ awaiting' = {}
  /\ UNCHANGED <<em, loadVars, dbVars, edits, flushes, wanted>>

EndHooks ==
  /\ pc = "hooks"
  /\ em' = CleanedUp(em) /\ pc' = "write"
  /\ UNCHANGED <<loadVars, dbVars, awaiting, edits, flushes, wanted>>

Written == [b \in Child |-> CASE b \notin em.mem -> rows[b]
                              [] b \in em.mem \cap em.gone -> NoRow
                              [] OTHER -> em.fk[b]]
OwnersWritten == (owners \cup (em.mem \cap Owner)) \ em.gone
SomethingToWrite == Written # rows \/ OwnersWritten # owners

ResetAddedRemoved(c) == [c EXCEPT !.added = {}, !.removed = {}]
Commit ==
  /\ pc = "write" /\ SomethingToWrite
  /\ StaleLoads \/ \A o \in Owner : asked[o] = NotAsked /\ (em.preloaded[o] # NotAsked => em.coll[o].kind = "loaded")
  /\ rows' = Written /\ owners' = OwnersWritten
  /\ em' = [em EXCEPT !.coll = [o \in Owner |-> IF o \in em.mutated THEN ResetAddedRemoved(@[o]) ELSE @[o]],
                      !.mutated = {}, !.preloaded = [o \in Owner |-> NotAsked]]
  /\ pc' = "idle"
  /\ UNCHANGED <<loadVars, awaiting, edits, flushes, wanted>>
NothingToWrite ==
  /\ pc = "write" /\ ~SomethingToWrite
  /\ pc' = "idle"
  /\ UNCHANGED <<em, loadVars, dbVars, awaiting, edits, flushes, wanted>>

Fail ==
  /\ pc \in FailAt
  /\ pc' = "idle" /\ awaiting' = {}
  /\ UNCHANGED <<em, loadVars, dbVars, edits, flushes, wanted>>

Next ==
  \/ Edit \/ Load
  \/ \E o \in Owner : Get(o) \/ QueryCollection(o) \/ BatchLoaded(o) \/ Preload(o)
  \/ \E b \in Child : QueryReference(b) \/ \E o \in Owner : ReferenceLoaded(b, o)
  \/ StartFlush \/ PendingLoaded \/ EndHooks \/ Commit \/ NothingToWrite \/ Fail

Spec == Init /\ [][Next]_vars

----------------------------------------------------------------------------
(* Properties. *)

\* Every variable has its type.
TypeOK ==
  /\ em.mem \cup em.gone \cup em.deletes \subseteq Owner \cup Child
  /\ em.fk \in [Child -> Owner \cup {None}] /\ em.ref \in [Child -> Owner \cup {None, NotLoaded}]
  /\ em.coll \in [Owner -> [kind : {"elsewhere", "pristine", "addedRemoved", "pendingSet", "loaded"},
                            members : SUBSET Child, added : SUBSET Child, removed : SUBSET Child]]
  /\ \A o \in Owner : em.coll[o].added \cap em.coll[o].removed = {}
  /\ em.mutated \cup em.pendingLoads \cup owners \cup awaiting \subseteq Owner
  /\ \A f \in {asked, em.preloaded} : f \in [Owner -> (SUBSET Child) \cup {NotAsked}]
  /\ refAsked \subseteq Child \X Owner
  /\ {rows, wanted} \subseteq [Child -> Owner \cup {None, NoRow}]
  /\ pc \in {"idle", "awaiting", "hooks", "write"}

\* The children that point to o, in memory, or in their rows when they are not in memory.
Owned(o) ==
  {b \in Child : Living(em, b) /\ em.fk[b] = o} \cup {b \in Child \ em.mem : rows[b] = o}

\* Both sides agree: a loaded collection has exactly the children that point to its owner, and a
\* loaded reference is the owner its foreign key says, whichever side was edited, and whenever
\* the owner, the children and the query's answer came.
LoadedIsOwned ==
  /\ TypeOK
  /\ \A b \in Child : em.ref[b] \in {NotLoaded, em.fk[b]}
  /\ \A o \in Owner : Living(em, o) /\ em.coll[o].kind = "loaded" => Visible(em, o) = Owned(o)

\* What `get` answered and keeps is what it would answer now.
CachedIsCurrent == \A o \in Owner : Living(em, o) /\ em.cache[o] # NoCache => em.cache[o] = Visible(em, o)

\* A flush that succeeds leaves in the database the owners the application asked for last,
\* through either side, with what sets and deletions imply for children nobody had loaded.
FlushSavesWanted == [][pc = "write" /\ pc' = "idle" /\ ~Fail => rows' = wanted]_vars
=============================================================================
