-------------------------- MODULE OneToManyProofs ---------------------------
(***************************************************************************)
(* What the one-to-many relation guarantees for any owners and children,   *)
(* edits, loads and flushes, when the application keeps to the             *)
(* restrictions of Careful.                                                *)
(*                                                                         *)
(* The argument is about one owner o and one child b at a time.  A child   *)
(* is held by the owner its foreign key says, in memory or, while it is    *)
(* not in memory, in its row (Held).  What o's collection says of b is     *)
(* relative to that (PairOk), and so is the answer of a load that the      *)
(* collection has not taken yet (FoundOk).  What the application asked for *)
(* (Wants) is what is held, but for the children that a waiting set or a   *)
(* deleted owner will let go of.                                           *)
(***************************************************************************)
EXTENDS OneToMany, FiniteSetTheorems, TLAPS

\* The usage for which no edit is lost; a failure may come anywhere but while a flush waits
\* for its loads.
Careful == ~BlindSets /\ ~LatePreloads /\ ~StaleLoads /\ ~LateSets /\ "awaiting" \notin FailAt

----------------------------------------------------------------------------
(* The inductive invariant. *)

Kinds == {"elsewhere", "pristine", "addedRemoved", "pendingSet", "loaded"}
Collections == [kind : Kinds, members : SUBSET Child, added : SUBSET Child, removed : SUBSET Child]
Managers == [mem : SUBSET (Owner \cup Child), gone : SUBSET (Owner \cup Child),
             deletes : SUBSET (Owner \cup Child),
             fk : [Child -> Owner \cup {None}], ref : [Child -> Owner \cup {None, NotLoaded}],
             coll : [Owner -> Collections], mutated : SUBSET Owner, pendingLoads : SUBSET Owner,
             preloaded : [Owner -> (SUBSET Child) \cup {NotAsked}],
             cache : [Owner -> (SUBSET Child) \cup {NoCache}]]

\* The owner of b: in memory, or in its row R[b].
Held(m, R, b) == IF b \in m.mem THEN m.fk[b] ELSE R[b]

\* What o's collection says of b.
PairOk(m, R, o, b) ==
  LET c == m.coll[o]
  IN /\ c.kind # "pendingSet" =>
          /\ b \in c.added => b \in m.mem /\ m.fk[b] = o
          /\ b \in c.removed => b \in m.mem /\ m.fk[b] # o
          /\ Held(m, R, b) = o /\ b \notin c.added => R[b] = o
     /\ c.kind = "pendingSet" =>
          /\ b \notin c.added /\ b \notin c.removed
          /\ b \in c.members => b \in m.mem /\ m.fk[b] = o
          /\ Held(m, R, b) = o /\ b \notin c.members => R[b] = o
     /\ c.kind = "loaded" => (b \in c.members <=> Held(m, R, b) = o) /\ (R[b] = o => b \in m.mem)
     /\ c.kind = "pristine" => b \notin c.added /\ b \notin c.removed

\* What the children p that a query found for o say of b, until o's collection takes them.
FoundOk(m, R, o, p, b) ==
  LET c == m.coll[o]
  IN /\ R[b] = o => b \in m.mem
     /\ b \in p => /\ R[b] = o
                   /\ c.kind # "pendingSet" => m.fk[b] = o \/ b \in c.removed
                   /\ c.kind = "pendingSet" => m.fk[b] \in {o, None}
     /\ R[b] = o /\ m.fk[b] = o /\ b \notin p => c.kind # "pendingSet" /\ b \in c.added

\* One child, and one owner.
ChildOk(m, R, Ow, b) ==
  /\ m.ref[b] \in {NotLoaded, m.fk[b]}
  /\ b \notin m.mem => m.ref[b] = NotLoaded /\ m.fk[b] = None
  /\ R[b] \in Owner => R[b] \in Ow
  /\ Held(m, R, b) \in Owner => Held(m, R, b) \in Ow \cup m.mem
  /\ Held(m, R, b) \notin m.gone \ m.deletes
  /\ b \in m.gone \ m.deletes => m.fk[b] = None
OwnerOk(m, o) ==
  /\ o \in m.mem <=> m.coll[o].kind # "elsewhere"
  /\ m.cache[o] # NoCache => o \in m.mem /\ m.cache[o] = Visible(m, o)

Sound(m, R, Ow) ==
  /\ m \in Managers /\ m.deletes \subseteq m.gone /\ m.gone \subseteq m.mem
  /\ \A b \in Child : ChildOk(m, R, Ow, b)
  /\ \A o \in Owner : OwnerOk(m, o)
  /\ \A o \in Owner, b \in Child : PairOk(m, R, o, b)

\* The answers p for o's collection, and those of all collections.
Answers(m, R, o, p) == \A b \in Child : FoundOk(m, R, o, p, b)
Founds(m, R) == \A o \in Owner \ m.gone : m.preloaded[o] # NotAsked => Answers(m, R, o, m.preloaded[o])

\* b is to be let go of, by the load of a collection that was set without it, or because its
\* owner was deleted.
LetGo(m, R, b) ==
  LET o == Held(m, R, b)
  IN /\ o \in Owner
     /\ o \in m.gone \/ (m.coll[o].kind = "pendingSet" /\ b \notin m.coll[o].members)
WantedOf(m, R, b) ==
  IF b \in m.gone THEN NoRow ELSE IF LetGo(m, R, b) THEN None ELSE Held(m, R, b)
Wants(m, R, w) == \A b \in Child : w[b] = WantedOf(m, R, b)

\* The loads under way, and the phases of a flush: a set waits for a load that this flush, or
\* the next one, waits for.
LoadsOk ==
  /\ asked \in [Owner -> (SUBSET Child) \cup {NotAsked}] /\ refAsked \subseteq Child \X Owner
  /\ \A o \in Owner : asked[o] # NotAsked => o \in em.mem /\ asked[o] = RowsOf(o)
RowsOk ==
  /\ rows \in [Child -> Owner \cup {None, NoRow}] /\ wanted \in [Child -> Owner \cup {None, NoRow}]
  /\ owners \subseteq Owner
  /\ \A b \in Fresh \ em.mem : rows[b] = NoRow
PhaseOk ==
  /\ pc \in {"idle", "awaiting", "hooks", "write"} /\ awaiting \subseteq Owner
  /\ \A o \in Owner : em.coll[o].kind = "pendingSet" =>
       \/ pc = "idle" /\ o \in em.pendingLoads
       \/ pc = "awaiting" /\ o \in awaiting
  /\ pc = "write" => em.deletes = {}

IInv ==
  /\ Sound(em, rows, owners) /\ Founds(em, rows) /\ Wants(em, rows, wanted)
  /\ LoadsOk /\ RowsOk /\ PhaseOk

----------------------------------------------------------------------------
(* A collection that b joins or leaves. *)

SameKind(c, d) == d.kind = c.kind \/ (c.kind = "pristine" /\ d.kind = "addedRemoved")
SameFor(c, d, x) ==
  /\ SameKind(c, d)
  /\ x \in d.added <=> x \in c.added
  /\ x \in d.removed <=> x \in c.removed
  /\ c.kind \in {"loaded", "pendingSet"} => (x \in d.members <=> x \in c.members)
JoinedFor(c, d, x) ==
  /\ SameKind(c, d) /\ d.kind # "pristine"
  /\ c.kind \in {"loaded", "pendingSet"} => x \in d.members
  /\ c.kind # "pendingSet" => x \in d.added /\ x \notin d.removed
  /\ c.kind = "pendingSet" => (x \in d.added <=> x \in c.added) /\ (x \in d.removed <=> x \in c.removed)
LeftFor(c, d, x) ==
  /\ SameKind(c, d) /\ d.kind # "pristine"
  /\ c.kind \in {"loaded", "pendingSet"} => x \notin d.members
  /\ c.kind # "pendingSet" => x \notin d.added /\ x \in d.removed
  /\ c.kind = "pendingSet" => (x \in d.added <=> x \in c.added) /\ (x \in d.removed <=> x \in c.removed)

\* AddState is for b what joining is, and for everyone else nothing.
LEMMA Adding ==
  ASSUME NEW c \in Collections, NEW b \in Child
  PROVE  /\ AddState(c, b) \in Collections
         /\ JoinedFor(c, AddState(c, b), b)
         /\ \A x \in Child \ {b} : SameFor(c, AddState(c, b), x)
<1>1. CASE c.kind = "pendingSet"
  BY <1>1 DEF AddState, Collections, Kinds, JoinedFor, SameFor, SameKind
<1>2. CASE c.kind # "pendingSet"
  BY <1>2 DEF AddState, Changed, Collections, Kinds, JoinedFor, SameFor, SameKind
<1> QED BY <1>1, <1>2

\* So is RemoveState with leaving.
LEMMA Removing ==
  ASSUME NEW c \in Collections, NEW b \in Child
  PROVE  /\ RemoveState(c, b) \in Collections
         /\ LeftFor(c, RemoveState(c, b), b)
         /\ \A x \in Child \ {b} : SameFor(c, RemoveState(c, b), x)
<1>1. CASE c.kind = "pendingSet"
  BY <1>1 DEF RemoveState, Collections, Kinds, LeftFor, SameFor, SameKind
<1>2. CASE c.kind # "pendingSet"
  BY <1>2 DEF RemoveState, Changed, Collections, Kinds, LeftFor, SameFor, SameKind
<1> QED BY <1>1, <1>2

\* What is known of a pair is kept by what does not concern it...
LEMMA PairSame ==
  ASSUME NEW m, NEW n, NEW R, NEW o, NEW x, n.mem = m.mem, n.fk[x] = m.fk[x],
         SameFor(m.coll[o], n.coll[o], x)
  PROVE  /\ PairOk(m, R, o, x) => PairOk(n, R, o, x)
         /\ \A p : FoundOk(m, R, o, p, x) => FoundOk(n, R, o, p, x)
BY DEF SameFor, SameKind, PairOk, FoundOk, Held

\* ...by a move between two other owners...
LEMMA PairElsewhere ==
  ASSUME NEW m, NEW n, NEW R, NEW o, NEW b, n.mem = m.mem, b \in m.mem,
         SameFor(m.coll[o], n.coll[o], b), m.fk[b] # o, n.fk[b] # o
  PROVE  /\ PairOk(m, R, o, b) => PairOk(n, R, o, b)
         /\ n.fk[b] = None \/ m.coll[o].kind # "pendingSet" =>
              \A p : FoundOk(m, R, o, p, b) => FoundOk(n, R, o, p, b)
BY DEF SameFor, SameKind, PairOk, FoundOk, Held

\* ...by joining...
LEMMA PairJoined ==
  ASSUME NEW m, NEW n, NEW R, NEW o, NEW b, n.mem = m.mem, b \in m.mem,
         JoinedFor(m.coll[o], n.coll[o], b), n.fk[b] = o
  PROVE  /\ PairOk(m, R, o, b) => PairOk(n, R, o, b)
         /\ m.coll[o].kind # "pendingSet" => \A p : FoundOk(m, R, o, p, b) => FoundOk(n, R, o, p, b)
BY DEF JoinedFor, SameKind, PairOk, FoundOk, Held

\* ...and by leaving.
LEMMA PairLeft ==
  ASSUME NEW m, NEW n, NEW R, NEW o, NEW b, n.mem = m.mem, b \in m.mem,
         LeftFor(m.coll[o], n.coll[o], b), n.fk[b] # o
  PROVE  /\ PairOk(m, R, o, b) => PairOk(n, R, o, b)
         /\ n.fk[b] = None \/ m.coll[o].kind # "pendingSet" =>
              \A p : FoundOk(m, R, o, p, b) => FoundOk(n, R, o, p, b)
BY DEF LeftFor, SameKind, PairOk, FoundOk, Held

----------------------------------------------------------------------------
(* Children T that move to o, and nothing else. *)

IsSet(c) == c.kind = "pendingSet"
\* No answer waits for a collection that was set.
Quiet(m) == \A o \in Owner \ m.gone : m.preloaded[o] # NotAsked => ~IsSet(m.coll[o])
QuietAfter(m, n) == \A o \in Owner : m.preloaded[o] # NotAsked => ~IsSet(n.coll[o])

SameElse(m, n) ==
  /\ n.mem = m.mem /\ n.gone = m.gone /\ n.deletes = m.deletes
  /\ n.preloaded = m.preloaded /\ n.pendingLoads = m.pendingLoads
SameKinds(m, n) ==
  \A o \in Owner : (IsSet(n.coll[o]) <=> IsSet(m.coll[o])) /\ (m.coll[o].kind = "loaded" => n.coll[o].kind = "loaded")
Moves(m, n, T, o, R, Ow) ==
  /\ Sound(n, R, Ow) /\ SameElse(m, n) /\ SameKinds(m, n)
  /\ \A b \in Child : n.fk[b] = IF b \in T THEN o ELSE m.fk[b]
  /\ \A p \in Owner : IsSet(m.coll[p]) =>
       \A b \in Child \ T : b \in n.coll[p].members <=> b \in m.coll[p].members
  /\ Founds(m, R) /\ (o = None \/ Quiet(m)) => Founds(n, R)

\* A child that may be moved to o.
Movable(m, Ow, b, o) ==
  /\ b \in Child /\ b \in m.mem /\ o \in Owner \cup {None}
  /\ o \in Owner => o \in Ow \cup m.mem /\ o \notin m.gone /\ b \notin m.gone

LEMMA MovesNothing ==
  ASSUME NEW m, NEW o, NEW R, NEW Ow, Sound(m, R, Ow)
  PROVE  Moves(m, m, {}, o, R, Ow)
BY DEF Moves, SameElse, SameKinds

LEMMA MovesTwice ==
  ASSUME NEW m, NEW n, NEW k, NEW S \in SUBSET Child, NEW T \in SUBSET Child, NEW o, NEW R, NEW Ow,
         Moves(m, n, S, o, R, Ow), Moves(n, k, T, o, R, Ow)
  PROVE  Moves(m, k, S \cup T, o, R, Ow)
<1>1. Sound(k, R, Ow) /\ SameElse(m, k) /\ SameKinds(m, k)
  BY DEF Moves, SameElse, SameKinds
<1>2. \A b \in Child : k.fk[b] = IF b \in S \cup T THEN o ELSE m.fk[b]
  BY DEF Moves
<1>3. \A p \in Owner : IsSet(m.coll[p]) =>
       \A b \in Child \ (S \cup T) : b \in k.coll[p].members <=> b \in m.coll[p].members
  BY DEF Moves, SameKinds
<1>4. Quiet(m) => Quiet(n)
  BY DEF Moves, SameElse, SameKinds, Quiet
<1>5. Founds(m, R) /\ (o = None \/ Quiet(m)) => Founds(k, R)
  BY <1>4 DEF Moves
<1> QED BY <1>1, <1>2, <1>3, <1>5 DEF Moves

\* One child moves when every collection hears of it: o's that it joins, its owner's that it leaves.
Hears(m, n, b, o) ==
  \A p \in Owner :
    /\ \A x \in Child \ {b} : SameFor(m.coll[p], n.coll[p], x)
    /\ p = o => JoinedFor(m.coll[p], n.coll[p], b)
    /\ p # o => \/ m.fk[b] # p /\ SameFor(m.coll[p], n.coll[p], b)
                \/ LeftFor(m.coll[p], n.coll[p], b)
    /\ n.cache[p] = NoCache \/ (n.cache[p] = m.cache[p] /\ n.coll[p] = m.coll[p])

LEMMA HearsKinds ==
  ASSUME NEW m, NEW n, NEW b \in Child, NEW o, Hears(m, n, b, o)
  PROVE  \A p \in Owner : SameKind(m.coll[p], n.coll[p])
BY DEF Hears, SameFor, JoinedFor, LeftFor

LEMMA OneMoves ==
  ASSUME NEW m, NEW n, NEW b, NEW o, NEW R, NEW Ow,
         Sound(m, R, Ow), Movable(m, Ow, b, o),
         n \in Managers, SameElse(m, n),
         \A x \in Child : n.fk[x] = IF x = b THEN o ELSE m.fk[x],
         \A x \in Child : n.ref[x] = m.ref[x] \/ n.ref[x] = NotLoaded \/ (x = b /\ n.ref[x] = o),
         n.fk[b] = m.fk[b] \/ n.ref[b] \in {NotLoaded, o},
         Hears(m, n, b, o)
  PROVE  /\ Moves(m, n, {b}, o, R, Ow)
         /\ o \in Owner /\ IsSet(n.coll[o]) => b \in n.coll[o].members
<1>1. \A p \in Owner : SameKind(m.coll[p], n.coll[p])
  BY HearsKinds DEF Movable
<1>2. SameKinds(m, n)
  BY <1>1 DEF SameKinds, SameKind, IsSet
<1>3. n.deletes \subseteq n.gone /\ n.gone \subseteq n.mem
  BY DEF Sound, SameElse
<1>4. ASSUME NEW x \in Child
      PROVE  ChildOk(n, R, Ow, x)
  <2>1. ChildOk(m, R, Ow, x)
    BY DEF Sound
  <2>2. CASE x # b
    BY <2>1, <2>2 DEF ChildOk, Held, SameElse
  <2>3. CASE x = b
    <3>1. m.mem = n.mem /\ b \in m.mem /\ n.fk[b] = o /\ n.ref[b] \in {NotLoaded, o}
      BY <2>1, <2>3 DEF Movable, SameElse, ChildOk
    <3>2. None \notin Owner /\ None \notin n.gone
      BY OneToManyAssumption DEF Managers
    <3> QED BY <2>1, <2>3, <3>1, <3>2 DEF ChildOk, Held, SameElse, Movable
  <2> QED BY <2>2, <2>3
<1>5. ASSUME NEW p \in Owner
      PROVE  OwnerOk(n, p)
  BY <1>1 DEF Sound, OwnerOk, SameElse, SameKind, Visible, Hears
<1>6. ASSUME NEW p \in Owner, NEW x \in Child
      PROVE  /\ PairOk(n, R, p, x)
             /\ o = None \/ ~IsSet(m.coll[p]) => \A q : FoundOk(m, R, p, q, x) => FoundOk(n, R, p, q, x)
  <2>1. PairOk(m, R, p, x) /\ n.mem = m.mem
    BY DEF Sound, SameElse
  <2>2. CASE x # b
    <3>1. SameFor(m.coll[p], n.coll[p], x) /\ n.fk[x] = m.fk[x]
      BY <2>2 DEF Hears
    <3> QED BY <2>1, <3>1, PairSame
  <2>3. CASE x = b /\ p = o
    <3>1. JoinedFor(m.coll[p], n.coll[p], b) /\ n.fk[x] = o /\ x \in m.mem
      BY <2>3 DEF Hears, Movable
    <3>2. o # None
      BY <2>3, OneToManyAssumption
    <3> QED BY <2>1, <2>3, <3>1, <3>2, PairJoined DEF IsSet
  <2>4. CASE x = b /\ p # o
    <3>1. n.fk[x] = o /\ x \in m.mem
      BY <2>4 DEF Movable
    <3>2. CASE m.fk[b] # p /\ SameFor(m.coll[p], n.coll[p], b)
      BY <2>1, <2>4, <3>1, <3>2, PairElsewhere DEF IsSet
    <3>3. CASE LeftFor(m.coll[p], n.coll[p], b)
      BY <2>1, <2>4, <3>1, <3>3, PairLeft DEF IsSet
    <3> QED BY <2>4, <3>2, <3>3 DEF Hears
  <2> QED BY <2>2, <2>3, <2>4
<1>7. Sound(n, R, Ow)
  BY <1>3, <1>4, <1>5, <1>6 DEF Sound
<1>8. Founds(m, R) /\ (o = None \/ Quiet(m)) => Founds(n, R)
  BY <1>6 DEF Founds, Answers, SameElse, Quiet
<1>9. \A p \in Owner : IsSet(m.coll[p]) =>
        \A x \in Child \ {b} : x \in n.coll[p].members <=> x \in m.coll[p].members
  BY DEF Hears, SameFor, IsSet
<1>10. o \in Owner /\ IsSet(n.coll[o]) => b \in n.coll[o].members
  BY <1>2 DEF Hears, JoinedFor, IsSet, SameKinds
<1> QED BY <1>2, <1>7, <1>8, <1>9, <1>10 DEF Moves

----------------------------------------------------------------------------
(* Setting a reference, adding and removing. *)

\* Nothing but collections and what get keeps of them.
SameChildren(m, n) == SameElse(m, n) /\ n.fk = m.fk /\ n.ref = m.ref
CacheLess(m, n) == \A p \in Owner : n.cache[p] \in {NoCache, m.cache[p]}

LEMMA ManagerWith ==
  ASSUME NEW m \in Managers, NEW C \in [Owner -> Collections], NEW U \in SUBSET Owner,
         NEW K \in [Owner -> (SUBSET Child) \cup {NoCache}]
  PROVE  [m EXCEPT !.coll = C, !.mutated = U, !.cache = K] \in Managers
BY DEF Managers

LEMMA RemoveIfLoadedDoes ==
  ASSUME NEW m \in Managers, NEW o \in Owner, NEW b \in Child
  PROVE  LET n == RemoveIfLoaded(m, o, b)
         IN /\ n \in Managers /\ SameChildren(m, n) /\ CacheLess(m, n) /\ n.cache[o] = NoCache
            /\ n.coll[o] = RemoveState(m.coll[o], b)
            /\ \A p \in Owner \ {o} : n.coll[p] = m.coll[p]
<1>1. RemoveState(m.coll[o], b) \in Collections
  BY Removing DEF Managers
<1> DEFINE c == RemoveState(m.coll[o], b)
           n == [m EXCEPT !.coll[o] = c, !.mutated = @ \cup {o}, !.cache[o] = NoCache]
<1>2. RemoveIfLoaded(m, o, b) = n
  BY DEF RemoveIfLoaded
<1> HIDE DEF c
<1>3. n \in Managers
  <2>1. n = [m EXCEPT !.coll = [m.coll EXCEPT ![o] = c], !.mutated = m.mutated \cup {o},
                      !.cache = [m.cache EXCEPT ![o] = NoCache]]
    BY DEF Managers
  <2>2. c \in Collections
    BY <1>1 DEF c
  <2>3. [m.coll EXCEPT ![o] = c] \in [Owner -> Collections]
    BY <2>2 DEF Managers
  <2>4. m.mutated \cup {o} \in SUBSET Owner
    BY DEF Managers
  <2>5. [m.cache EXCEPT ![o] = NoCache] \in [Owner -> (SUBSET Child) \cup {NoCache}]
    BY DEF Managers
  <2> HIDE DEF n
  <2> QED BY <2>1, <2>3, <2>4, <2>5, ManagerWith
<1>4. SameChildren(m, n)
  BY DEF Managers, SameChildren, SameElse
<1>5. n.coll = [m.coll EXCEPT ![o] = c] /\ n.cache = [m.cache EXCEPT ![o] = NoCache]
  BY DEF Managers
<1>6. DOMAIN m.coll = Owner /\ DOMAIN m.cache = Owner
  BY DEF Managers
<1>7. CacheLess(m, n) /\ n.cache[o] = NoCache /\ n.coll[o] = c
      /\ \A p \in Owner \ {o} : n.coll[p] = m.coll[p]
  BY <1>5, <1>6 DEF CacheLess
<1> QED BY <1>2, <1>3, <1>4, <1>7 DEF c

LEMMA AddIfHere ==
  ASSUME NEW m \in Managers, NEW o \in Owner, NEW b \in Child
  PROVE  LET n == [m EXCEPT !.coll[o] = AddState(@, b), !.mutated = @ \cup {o}, !.cache[o] = NoCache]
         IN /\ n \in Managers /\ SameChildren(m, n) /\ CacheLess(m, n) /\ n.cache[o] = NoCache
            /\ n.coll[o] = AddState(m.coll[o], b)
            /\ \A p \in Owner \ {o} : n.coll[p] = m.coll[p]
<1>1. AddState(m.coll[o], b) \in Collections
  BY Adding DEF Managers
<1> DEFINE c == AddState(m.coll[o], b)
           n == [m EXCEPT !.coll[o] = c, !.mutated = @ \cup {o}, !.cache[o] = NoCache]
<1> HIDE DEF c
<1>3. n \in Managers
  <2>1. n = [m EXCEPT !.coll = [m.coll EXCEPT ![o] = c], !.mutated = m.mutated \cup {o},
                      !.cache = [m.cache EXCEPT ![o] = NoCache]]
    BY DEF Managers
  <2>2. c \in Collections
    BY <1>1 DEF c
  <2>3. [m.coll EXCEPT ![o] = c] \in [Owner -> Collections]
    BY <2>2 DEF Managers
  <2>4. m.mutated \cup {o} \in SUBSET Owner
    BY DEF Managers
  <2>5. [m.cache EXCEPT ![o] = NoCache] \in [Owner -> (SUBSET Child) \cup {NoCache}]
    BY DEF Managers
  <2> HIDE DEF n
  <2> QED BY <2>1, <2>3, <2>4, <2>5, ManagerWith
<1>4. SameChildren(m, n)
  BY DEF Managers, SameChildren, SameElse
<1>5. n.coll = [m.coll EXCEPT ![o] = c] /\ n.cache = [m.cache EXCEPT ![o] = NoCache]
  BY DEF Managers
<1>6. DOMAIN m.coll = Owner /\ DOMAIN m.cache = Owner
  BY DEF Managers
<1>7. CacheLess(m, n) /\ n.cache[o] = NoCache /\ n.coll[o] = c
      /\ \A p \in Owner \ {o} : n.coll[p] = m.coll[p]
  BY <1>5, <1>6 DEF CacheLess
<1> QED BY <1>3, <1>4, <1>7 DEF c

\* The previous owner's collection hears that b left, and nobody else.
LEMMA PercolateRemoveDoes ==
  ASSUME NEW m \in Managers, NEW o \in Owner \cup {None}, NEW b \in Child
  PROVE  LET n == PercolateRemove(m, o, b)
         IN /\ n \in Managers /\ SameChildren(m, n) /\ CacheLess(m, n)
            /\ \A p \in Owner : n.coll[p] = IF p = o THEN RemoveState(m.coll[p], b) ELSE m.coll[p]
<1>1. CASE o = None
  <2>1. PercolateRemove(m, o, b) = m
    BY <1>1, OneToManyAssumption DEF PercolateRemove, Managers
  <2> QED BY <1>1, <2>1, OneToManyAssumption DEF SameChildren, SameElse, CacheLess
<1>2. CASE o # None /\ o \in m.mem
  <2>1. PercolateRemove(m, o, b) = RemoveIfLoaded(m, o, b)
    BY <1>2 DEF PercolateRemove
  <2> QED BY <1>2, <2>1, RemoveIfLoadedDoes
<1>3. CASE o # None /\ o \notin m.mem
  <2> DEFINE c == RemoveState(m.coll[o], b)
             n == [m EXCEPT !.coll[o] = c]
  <2>1. PercolateRemove(m, o, b) = n
    BY <1>3 DEF PercolateRemove
  <2>2. c \in Collections
    BY <1>3, Removing DEF Managers
  <2> HIDE DEF c
  <2>3. n \in Managers /\ SameChildren(m, n) /\ CacheLess(m, n)
        /\ \A p \in Owner : n.coll[p] = IF p = o THEN c ELSE m.coll[p]
    BY <1>3, <2>2 DEF Managers, SameChildren, SameElse, CacheLess
  <2> QED BY <2>1, <2>3 DEF c
<1> QED BY <1>1, <1>2, <1>3

\* The next owner's collection hears that b joined.
LEMMA PercolateAddDoes ==
  ASSUME NEW m \in Managers, NEW o \in Owner \cup {None}, NEW b \in Child
  PROVE  LET n == PercolateAdd(m, o, b)
         IN /\ n \in Managers /\ SameChildren(m, n) /\ CacheLess(m, n)
            /\ \A p \in Owner : n.coll[p] = IF p = o THEN AddState(m.coll[p], b) ELSE m.coll[p]
<1>1. CASE o = None
  <2>1. PercolateAdd(m, o, b) = m
    BY <1>1, OneToManyAssumption DEF PercolateAdd, Managers
  <2> QED BY <1>1, <2>1, OneToManyAssumption DEF SameChildren, SameElse, CacheLess
<1>2. CASE o # None /\ o \in m.mem
  <2>1. PercolateAdd(m, o, b)
          = [m EXCEPT !.coll[o] = AddState(@, b), !.mutated = @ \cup {o}, !.cache[o] = NoCache]
    BY <1>2 DEF PercolateAdd
  <2>2. o \in Owner
    BY <1>2
  <2>3. LET n == [m EXCEPT !.coll[o] = AddState(@, b), !.mutated = @ \cup {o}, !.cache[o] = NoCache]
        IN /\ n \in Managers /\ SameChildren(m, n) /\ CacheLess(m, n) /\ n.cache[o] = NoCache
           /\ n.coll[o] = AddState(m.coll[o], b)
           /\ \A p \in Owner \ {o} : n.coll[p] = m.coll[p]
    BY <2>2, AddIfHere
  <2> QED BY <2>1, <2>2, <2>3
<1>3. CASE o # None /\ o \notin m.mem
  <2> DEFINE c == AddState(m.coll[o], b)
             n == [m EXCEPT !.coll[o] = c]
  <2>1. PercolateAdd(m, o, b) = n
    BY <1>3 DEF PercolateAdd
  <2>2. c \in Collections
    BY <1>3, Adding DEF Managers
  <2> HIDE DEF c
  <2>3. n \in Managers /\ SameChildren(m, n) /\ CacheLess(m, n)
        /\ \A p \in Owner : n.coll[p] = IF p = o THEN c ELSE m.coll[p]
    BY <1>3, <2>2 DEF Managers, SameChildren, SameElse, CacheLess
  <2> QED BY <2>1, <2>3 DEF c
<1> QED BY <1>1, <1>2, <1>3

\* A reference that is set to another owner: both collections hear of it.
LEMMA SetReferenceDoes ==
  ASSUME NEW m \in Managers, NEW o \in Owner \cup {None}, NEW b \in Child, m.fk[b] # o
  PROVE  LET n == SetReference(m, b, o)
         IN /\ n \in Managers /\ SameElse(m, n)
            /\ \A x \in Child : n.fk[x] = IF x = b THEN o ELSE m.fk[x]
            /\ \A x \in Child : n.ref[x] = m.ref[x] \/ (x = b /\ n.ref[x] \in {NotLoaded, o})
            /\ n.ref[b] \in {NotLoaded, o}
            /\ \A p \in Owner : n.cache[p] = NoCache
            /\ \A p \in Owner : n.coll[p] = IF p = m.fk[b] THEN RemoveState(m.coll[p], b)
                                            ELSE IF p = o THEN AddState(m.coll[p], b) ELSE m.coll[p]
<1> DEFINE r == IF o \in m.mem \cup {None} THEN o ELSE NotLoaded
           set == [m EXCEPT !.fk[b] = o, !.cache = NoCaches, !.ref[b] = r]
           left == PercolateRemove(set, m.fk[b], b)
           n == PercolateAdd(left, o, b)
<1>1. SetReference(m, b, o) = n
  BY DEF SetReference
<1>2. /\ set \in Managers /\ SameElse(m, set) /\ set.coll = m.coll
      /\ \A x \in Child : set.fk[x] = IF x = b THEN o ELSE m.fk[x]
      /\ \A x \in Child : set.ref[x] = IF x = b THEN r ELSE m.ref[x]
      /\ \A p \in Owner : set.cache[p] = NoCache
  <2> HIDE DEF r
  <2>1. r \in {NotLoaded, o}
    BY DEF r
  <2>2. set \in Managers
    <3>1. set = [m EXCEPT !.fk = [m.fk EXCEPT ![b] = o], !.cache = NoCaches, !.ref = [m.ref EXCEPT ![b] = r]]
      BY DEF Managers
    <3>2. [m.fk EXCEPT ![b] = o] \in [Child -> Owner \cup {None}]
      BY DEF Managers
    <3>3. [m.ref EXCEPT ![b] = r] \in [Child -> Owner \cup {None, NotLoaded}]
      BY <2>1 DEF Managers
    <3>4. NoCaches \in [Owner -> (SUBSET Child) \cup {NoCache}]
      BY DEF NoCaches
    <3>5. \A f \in [Child -> Owner \cup {None}], g \in [Child -> Owner \cup {None, NotLoaded}],
            k \in [Owner -> (SUBSET Child) \cup {NoCache}] : [m EXCEPT !.fk = f, !.cache = k, !.ref = g] \in Managers
      BY DEF Managers
    <3> HIDE DEF set
    <3> QED BY <3>1, <3>2, <3>3, <3>4, <3>5
  <2>3. SameElse(m, set) /\ set.coll = m.coll
    BY DEF SameElse, Managers
  <2>4. set.fk = [m.fk EXCEPT ![b] = o] /\ set.ref = [m.ref EXCEPT ![b] = r] /\ set.cache = NoCaches
    BY DEF Managers
  <2>5. DOMAIN m.fk = Child /\ DOMAIN m.ref = Child
    BY DEF Managers
  <2> HIDE DEF set
  <2> QED BY <2>2, <2>3, <2>4, <2>5 DEF NoCaches
<1>3. m.fk[b] \in Owner \cup {None}
  BY DEF Managers
<1> HIDE DEF set
<1>4. /\ left \in Managers /\ SameChildren(set, left) /\ CacheLess(set, left)
      /\ \A p \in Owner : left.coll[p] = IF p = m.fk[b] THEN RemoveState(m.coll[p], b) ELSE m.coll[p]
  BY <1>2, <1>3, PercolateRemoveDoes
<1> HIDE DEF left
<1>5. /\ n \in Managers /\ SameChildren(left, n) /\ CacheLess(left, n)
      /\ \A p \in Owner : n.coll[p] = IF p = o THEN AddState(left.coll[p], b) ELSE left.coll[p]
  BY <1>4, PercolateAddDoes
<1> HIDE DEF n
<1>6. n \in Managers /\ SameElse(m, n) /\ n.fk = set.fk /\ n.ref = set.ref
  BY <1>2, <1>4, <1>5 DEF SameChildren, SameElse
<1>7. \A p \in Owner : n.cache[p] = NoCache
  BY <1>2, <1>4, <1>5 DEF CacheLess
<1>8. \A p \in Owner : n.coll[p] = IF p = m.fk[b] THEN RemoveState(m.coll[p], b)
                                   ELSE IF p = o THEN AddState(m.coll[p], b) ELSE m.coll[p]
  BY <1>4, <1>5
<1> QED BY <1>1, <1>2, <1>6, <1>7, <1>8

\* What a move does of a child that is there already.
LEMMA StaysMoves ==
  ASSUME NEW m, NEW b, NEW o, NEW R, NEW Ow, Sound(m, R, Ow), m.fk[b] = o
  PROVE  Moves(m, m, {b}, o, R, Ow)
BY DEF Moves, SameElse, SameKinds

LEMMA SameForSelf ==
  \A c, x : SameFor(c, c, x)
BY DEF SameFor, SameKind

LEMMA SetReferenceMoves ==
  ASSUME NEW m, NEW b, NEW o, NEW R, NEW Ow, Sound(m, R, Ow), Movable(m, Ow, b, o)
  PROVE  /\ Moves(m, SetReference(m, b, o), {b}, o, R, Ow)
         /\ o \in Owner /\ IsSet(m.coll[o]) /\ m.fk[b] # o => b \in SetReference(m, b, o).coll[o].members
<1>1. CASE m.fk[b] = o
  BY <1>1, StaysMoves DEF SetReference
<1>2. CASE m.fk[b] # o
  <2> DEFINE n == SetReference(m, b, o)
  <2>1. m \in Managers /\ b \in Child /\ o \in Owner \cup {None}
    BY DEF Sound, Movable
  <2>2. /\ n \in Managers /\ SameElse(m, n)
        /\ \A x \in Child : n.fk[x] = IF x = b THEN o ELSE m.fk[x]
        /\ \A x \in Child : n.ref[x] = m.ref[x] \/ (x = b /\ n.ref[x] \in {NotLoaded, o})
        /\ n.ref[b] \in {NotLoaded, o}
        /\ \A p \in Owner : n.cache[p] = NoCache
        /\ \A p \in Owner : n.coll[p] = IF p = m.fk[b] THEN RemoveState(m.coll[p], b)
                                        ELSE IF p = o THEN AddState(m.coll[p], b) ELSE m.coll[p]
    BY <1>2, <2>1, SetReferenceDoes
  <2> HIDE DEF n
  <2>3. \A p \in Owner : m.coll[p] \in Collections
    BY <2>1 DEF Managers
  <2>4. Hears(m, n, b, o)
    <3> SUFFICES ASSUME NEW p \in Owner
                 PROVE  /\ \A x \in Child \ {b} : SameFor(m.coll[p], n.coll[p], x)
                        /\ p = o => JoinedFor(m.coll[p], n.coll[p], b)
                        /\ p # o => \/ m.fk[b] # p /\ SameFor(m.coll[p], n.coll[p], b)
                                    \/ LeftFor(m.coll[p], n.coll[p], b)
      BY <2>2 DEF Hears
    <3>1. CASE p = m.fk[b]
      BY <1>2, <2>1, <2>2, <2>3, <3>1, Removing
    <3>2. CASE p # m.fk[b] /\ p = o
      BY <2>1, <2>2, <2>3, <3>2, Adding
    <3>3. CASE p # m.fk[b] /\ p # o
      BY <2>2, <3>3, SameForSelf
    <3> QED BY <3>1, <3>2, <3>3
  <2>5. Moves(m, n, {b}, o, R, Ow) /\ (o \in Owner /\ IsSet(n.coll[o]) => b \in n.coll[o].members)
    BY <2>2, <2>4, OneMoves
  <2>6. o \in Owner /\ IsSet(m.coll[o]) => IsSet(n.coll[o])
    BY <2>5 DEF Moves, SameKinds
  <2> QED BY <2>5, <2>6 DEF n
<1> QED BY <1>1, <1>2

LEMMA SameThenJoined ==
  ASSUME NEW c \in Collections, NEW b \in Child
  PROVE  /\ JoinedFor(c, AddState(AddState(c, b), b), b)
         /\ \A x \in Child \ {b} : SameFor(c, AddState(AddState(c, b), b), x)
<1> DEFINE d == AddState(c, b)
           e == AddState(d, b)
<1>1. d \in Collections /\ JoinedFor(c, d, b) /\ \A x \in Child \ {b} : SameFor(c, d, x)
  BY Adding
<1> HIDE DEF d
<1>2. JoinedFor(d, e, b) /\ \A x \in Child \ {b} : SameFor(d, e, x)
  BY <1>1, Adding
<1> HIDE DEF e
<1>3. JoinedFor(c, e, b)
  BY <1>1, <1>2 DEF JoinedFor, SameKind
<1>4. \A x \in Child \ {b} : SameFor(c, e, x)
  BY <1>1, <1>2 DEF SameFor, SameKind
<1> QED BY <1>3, <1>4 DEF d, e

LEMMA LeftTwice ==
  ASSUME NEW c \in Collections, NEW b \in Child
  PROVE  /\ LeftFor(c, RemoveState(RemoveState(c, b), b), b)
         /\ \A x \in Child \ {b} : SameFor(c, RemoveState(RemoveState(c, b), b), x)
<1> DEFINE d == RemoveState(c, b)
           e == RemoveState(d, b)
<1>1. d \in Collections /\ LeftFor(c, d, b) /\ \A x \in Child \ {b} : SameFor(c, d, x)
  BY Removing
<1> HIDE DEF d
<1>2. LeftFor(d, e, b) /\ \A x \in Child \ {b} : SameFor(d, e, x)
  BY <1>1, Removing
<1> HIDE DEF e
<1>3. LeftFor(c, e, b)
  BY <1>1, <1>2 DEF LeftFor, SameKind
<1>4. \A x \in Child \ {b} : SameFor(c, e, x)
  BY <1>1, <1>2 DEF SameFor, SameKind
<1> QED BY <1>3, <1>4 DEF d, e

\* author.books.add moves the child, whatever its owner was.
LEMMA AddToMoves ==
  ASSUME NEW m, NEW o \in Owner, NEW b, NEW R, NEW Ow, Sound(m, R, Ow), Movable(m, Ow, b, o)
  PROVE  /\ Moves(m, AddTo(m, o, b), {b}, o, R, Ow)
         /\ IsSet(m.coll[o]) => b \in AddTo(m, o, b).coll[o].members
<1> DEFINE q == [m EXCEPT !.coll[o] = AddState(@, b), !.mutated = @ \cup {o}, !.cache[o] = NoCache]
           n == AddTo(m, o, b)
<1>1. m \in Managers /\ b \in Child /\ \A p \in Owner : m.coll[p] \in Collections
  BY DEF Sound, Movable, Managers
<1>2. n = SetReference(q, b, o)
  BY DEF AddTo
<1>3. /\ q \in Managers /\ SameChildren(m, q) /\ CacheLess(m, q) /\ q.cache[o] = NoCache
      /\ q.coll[o] = AddState(m.coll[o], b)
      /\ \A p \in Owner \ {o} : q.coll[p] = m.coll[p]
  BY <1>1, AddIfHere
<1> HIDE DEF q, n
<1>4. CASE m.fk[b] = o
  <2>1. n = q
    BY <1>2, <1>3, <1>4 DEF SetReference, SameChildren
  <2>2. Hears(m, n, b, o)
    BY <1>1, <1>3, <1>4, <2>1, Adding, SameForSelf DEF Hears, CacheLess
  <2>3. /\ Moves(m, n, {b}, o, R, Ow)
        /\ o \in Owner /\ IsSet(n.coll[o]) => b \in n.coll[o].members
    BY <1>3, <1>4, <2>1, <2>2, OneMoves DEF SameChildren
  <2> QED BY <2>3 DEF n, Moves, SameKinds
<1>5. CASE m.fk[b] # o
  <2>1. q.fk[b] # o
    BY <1>3, <1>5 DEF SameChildren
  <2>2. /\ n \in Managers /\ SameElse(q, n)
        /\ \A x \in Child : n.fk[x] = IF x = b THEN o ELSE q.fk[x]
        /\ \A x \in Child : n.ref[x] = q.ref[x] \/ (x = b /\ n.ref[x] \in {NotLoaded, o})
        /\ n.ref[b] \in {NotLoaded, o}
        /\ \A p \in Owner : n.cache[p] = NoCache
        /\ \A p \in Owner : n.coll[p] = IF p = q.fk[b] THEN RemoveState(q.coll[p], b)
                                        ELSE IF p = o THEN AddState(q.coll[p], b) ELSE q.coll[p]
    BY <1>1, <1>2, <1>3, <2>1, SetReferenceDoes
  <2>3. q.fk = m.fk /\ q.ref = m.ref /\ SameElse(m, n)
    BY <1>3, <2>2 DEF SameChildren, SameElse
  <2>4. Hears(m, n, b, o)
    <3> SUFFICES ASSUME NEW p \in Owner
                 PROVE  /\ \A x \in Child \ {b} : SameFor(m.coll[p], n.coll[p], x)
                        /\ p = o => JoinedFor(m.coll[p], n.coll[p], b)
                        /\ p # o => \/ m.fk[b] # p /\ SameFor(m.coll[p], n.coll[p], b)
                                    \/ LeftFor(m.coll[p], n.coll[p], b)
      BY <2>2 DEF Hears
    <3>1. CASE p = m.fk[b]
      <4>1. n.coll[p] = RemoveState(m.coll[p], b) /\ p # o
        BY <1>3, <1>5, <2>2, <2>3, <3>1
      <4> QED BY <1>1, <4>1, Removing
    <3>2. CASE p # m.fk[b] /\ p = o
      <4>1. n.coll[p] = AddState(AddState(m.coll[p], b), b)
        BY <1>3, <2>2, <2>3, <3>2
      <4> QED BY <1>1, <3>2, <4>1, SameThenJoined
    <3>3. CASE p # m.fk[b] /\ p # o
      <4>1. n.coll[p] = m.coll[p]
        BY <1>3, <2>2, <2>3, <3>3
      <4> QED BY <3>3, <4>1, SameForSelf
    <3> QED BY <3>1, <3>2, <3>3
  <2>5. /\ \A x \in Child : n.fk[x] = IF x = b THEN o ELSE m.fk[x]
        /\ \A x \in Child : n.ref[x] = m.ref[x] \/ n.ref[x] = NotLoaded \/ (x = b /\ n.ref[x] = o)
    BY <2>2, <2>3
  <2>6. /\ Moves(m, n, {b}, o, R, Ow)
        /\ o \in Owner /\ IsSet(n.coll[o]) => b \in n.coll[o].members
    BY <2>2, <2>3, <2>4, <2>5, OneMoves
  <2> QED BY <2>6 DEF n, Moves, SameKinds
<1> QED BY <1>4, <1>5

\* author.books.remove leaves the child without an owner, whoever it was.
LEMMA RemoveFromMoves ==
  ASSUME NEW m, NEW o \in Owner, NEW b \in Child, NEW R, NEW Ow, Sound(m, R, Ow), b \in m.mem
  PROVE  Moves(m, RemoveFrom(m, o, b), {b}, None, R, Ow)
<1> DEFINE q == RemoveIfLoaded(m, o, b)
           n == RemoveFrom(m, o, b)
<1>1. m \in Managers /\ \A p \in Owner : m.coll[p] \in Collections
  BY DEF Sound, Managers
<1>2. n = SetReference(q, b, None)
  BY DEF RemoveFrom
<1>3. /\ q \in Managers /\ SameChildren(m, q) /\ CacheLess(m, q) /\ q.cache[o] = NoCache
      /\ q.coll[o] = RemoveState(m.coll[o], b)
      /\ \A p \in Owner \ {o} : q.coll[p] = m.coll[p]
  BY <1>1, RemoveIfLoadedDoes
<1> HIDE DEF q, n
<1>4. Movable(m, Ow, b, None) /\ None \notin Owner
  BY OneToManyAssumption DEF Movable
<1>5. CASE m.fk[b] = None
  <2>1. n = q
    BY <1>2, <1>3, <1>5 DEF SetReference, SameChildren
  <2>2. Hears(m, n, b, None)
    BY <1>1, <1>3, <1>4, <1>5, <2>1, Removing, SameForSelf DEF Hears, CacheLess
  <2>3. Moves(m, n, {b}, None, R, Ow)
    BY <1>3, <1>4, <1>5, <2>1, <2>2, OneMoves DEF SameChildren
  <2> QED BY <2>3 DEF n
<1>6. CASE m.fk[b] # None
  <2>1. q.fk[b] # None
    BY <1>3, <1>6 DEF SameChildren
  <2>2. /\ n \in Managers /\ SameElse(q, n)
        /\ \A x \in Child : n.fk[x] = IF x = b THEN None ELSE q.fk[x]
        /\ \A x \in Child : n.ref[x] = q.ref[x] \/ (x = b /\ n.ref[x] \in {NotLoaded, None})
        /\ n.ref[b] \in {NotLoaded, None}
        /\ \A p \in Owner : n.cache[p] = NoCache
        /\ \A p \in Owner : n.coll[p] = IF p = q.fk[b] THEN RemoveState(q.coll[p], b)
                                        ELSE IF p = None THEN AddState(q.coll[p], b) ELSE q.coll[p]
    BY <1>1, <1>2, <1>3, <2>1, SetReferenceDoes
  <2>3. q.fk = m.fk /\ q.ref = m.ref /\ SameElse(m, n)
    BY <1>3, <2>2 DEF SameChildren, SameElse
  <2>4. Hears(m, n, b, None)
    <3> SUFFICES ASSUME NEW p \in Owner
                 PROVE  /\ \A x \in Child \ {b} : SameFor(m.coll[p], n.coll[p], x)
                        /\ \/ m.fk[b] # p /\ SameFor(m.coll[p], n.coll[p], b)
                           \/ LeftFor(m.coll[p], n.coll[p], b)
      BY <1>4, <2>2 DEF Hears
    <3>1. CASE p = m.fk[b] /\ p = o
      <4>1. n.coll[p] = RemoveState(RemoveState(m.coll[p], b), b)
        BY <1>3, <2>2, <2>3, <3>1
      <4> QED BY <1>1, <4>1, LeftTwice
    <3>2. CASE p = m.fk[b] /\ p # o
      <4>1. n.coll[p] = RemoveState(m.coll[p], b)
        BY <1>3, <2>2, <2>3, <3>2
      <4> QED BY <1>1, <4>1, Removing
    <3>3. CASE p # m.fk[b] /\ p = o
      <4>1. n.coll[p] = RemoveState(m.coll[p], b)
        BY <1>3, <1>4, <2>2, <2>3, <3>3
      <4> QED BY <1>1, <4>1, Removing
    <3>4. CASE p # m.fk[b] /\ p # o
      <4>1. n.coll[p] = m.coll[p]
        BY <1>3, <1>4, <2>2, <2>3, <3>4
      <4> QED BY <3>4, <4>1, SameForSelf
    <3> QED BY <3>1, <3>2, <3>3, <3>4
  <2>5. /\ \A x \in Child : n.fk[x] = IF x = b THEN None ELSE m.fk[x]
        /\ \A x \in Child : n.ref[x] = m.ref[x] \/ n.ref[x] = NotLoaded \/ (x = b /\ n.ref[x] = None)
    BY <2>2, <2>3
  <2>6. Moves(m, n, {b}, None, R, Ow)
    BY <1>4, <2>2, <2>3, <2>4, <2>5, OneMoves
  <2> QED BY <2>6 DEF n
<1> QED BY <1>5, <1>6

----------------------------------------------------------------------------
(* Moves of several children are folds of moves of one. *)

AnyOf(S) == CHOOSE x \in S : TRUE

\* c has the manager m at first, the owner o, and the rows R of Ow.
SetStep(c, b, n) == SetReference(n, b, c.o)
AddStep(c, b, n) == AddTo(n, c.o, b)
RemoveStep(c, b, n) == RemoveFrom(n, c.o, b)
MovesSo(c, n, T) == Moves(c.m, n, T, c.o, c.R, c.Ow)
LeavesSo(c, n, T) == Moves(c.m, n, T, None, c.R, c.Ow)
SetFold == INSTANCE FoldInduction WITH Op <- SetStep, Pick <- AnyOf, P <- MovesSo
AddFold == INSTANCE FoldInduction WITH Op <- AddStep, Pick <- AnyOf, P <- MovesSo
RemoveFold == INSTANCE FoldInduction WITH Op <- RemoveStep, Pick <- AnyOf, P <- LeavesSo

LEMMA AnyOfIn == \A S : S # {} => AnyOf(S) \in S
BY DEF AnyOf

\* The children of a set that may be moved may still be when others have been.
LEMMA StillMovable ==
  ASSUME NEW m, NEW n, NEW T, NEW b, NEW o, NEW p, NEW R, NEW Ow,
         Moves(m, n, T, p, R, Ow), Movable(m, Ow, b, o)
  PROVE  Sound(n, R, Ow) /\ Movable(n, Ow, b, o)
BY DEF Moves, Movable, SameElse

LEMMA SetAllMoves ==
  ASSUME NEW m, NEW S \in SUBSET Child, NEW o, NEW R, NEW Ow,
         Sound(m, R, Ow), \A b \in S : Movable(m, Ow, b, o)
  PROVE  Moves(m, SetAll(m, S, o), S, o, R, Ow)
<1> DEFINE c == [m |-> m, o |-> o, R |-> R, Ow |-> Ow]
<1>1. SetFold!IsFiniteSet(S)
  <2>1. IsFiniteSet(S)
    BY OneToManyAssumption, FS_Subset
  <2> QED BY <2>1 DEF IsFiniteSet, SetFold!IsFiniteSet
<1>2. SetAll(m, S, o) = SetFold!Fold(c, m, S)
  BY DEF SetAll, FoldSet, MapThenFoldSet, SetFold!Fold, SetStep, AnyOf
<1>3. MovesSo(c, m, {})
  BY MovesNothing DEF MovesSo
<1>4. \A T \in SUBSET S, x \in S : \A a :
        x \notin T /\ AnyOf(T \cup {x}) = x /\ MovesSo(c, a, T) => MovesSo(c, SetStep(c, x, a), T \cup {x})
  <2> SUFFICES ASSUME NEW T \in SUBSET S, NEW x \in S, NEW a, Moves(m, a, T, o, R, Ow)
               PROVE  Moves(m, SetReference(a, x, o), T \cup {x}, o, R, Ow)
    BY DEF MovesSo, SetStep
  <2>1. Movable(m, Ow, x, o)
    OBVIOUS
  <2>2. Sound(a, R, Ow) /\ Movable(a, Ow, x, o)
    BY <2>1, StillMovable
  <2>3. Moves(a, SetReference(a, x, o), {x}, o, R, Ow)
    BY <2>2, SetReferenceMoves
  <2> QED BY <2>3, MovesTwice
<1>5. MovesSo(c, SetFold!Fold(c, m, S), S)
  <2> HIDE DEF c, MovesSo, SetStep
  <2> QED BY <1>1, <1>3, <1>4, AnyOfIn, SetFold!FoldInvariant
<1> QED BY <1>2, <1>5 DEF MovesSo

LEMMA AddAllMoves ==
  ASSUME NEW m, NEW S \in SUBSET Child, NEW o \in Owner, NEW R, NEW Ow,
         Sound(m, R, Ow), \A b \in S : Movable(m, Ow, b, o)
  PROVE  Moves(m, FoldSet(LAMBDA b, n : AddTo(n, o, b), m, S), S, o, R, Ow)
<1> DEFINE c == [m |-> m, o |-> o, R |-> R, Ow |-> Ow]
<1>1. AddFold!IsFiniteSet(S)
  <2>1. IsFiniteSet(S)
    BY OneToManyAssumption, FS_Subset
  <2> QED BY <2>1 DEF IsFiniteSet, AddFold!IsFiniteSet
<1>2. FoldSet(LAMBDA b, n : AddTo(n, o, b), m, S) = AddFold!Fold(c, m, S)
  BY DEF FoldSet, MapThenFoldSet, AddFold!Fold, AddStep, AnyOf
<1>3. MovesSo(c, m, {})
  BY MovesNothing DEF MovesSo
<1>4. \A T \in SUBSET S, x \in S : \A a :
        x \notin T /\ AnyOf(T \cup {x}) = x /\ MovesSo(c, a, T) => MovesSo(c, AddStep(c, x, a), T \cup {x})
  <2> SUFFICES ASSUME NEW T \in SUBSET S, NEW x \in S, NEW a, Moves(m, a, T, o, R, Ow)
               PROVE  Moves(m, AddTo(a, o, x), T \cup {x}, o, R, Ow)
    BY DEF MovesSo, AddStep
  <2>1. Movable(m, Ow, x, o)
    OBVIOUS
  <2>2. Sound(a, R, Ow) /\ Movable(a, Ow, x, o)
    BY <2>1, StillMovable
  <2>3. Moves(a, AddTo(a, o, x), {x}, o, R, Ow)
    BY <2>2, AddToMoves
  <2> QED BY <2>3, MovesTwice
<1>5. MovesSo(c, AddFold!Fold(c, m, S), S)
  <2> HIDE DEF c, MovesSo, AddStep
  <2> QED BY <1>1, <1>3, <1>4, AnyOfIn, AddFold!FoldInvariant
<1> QED BY <1>2, <1>5 DEF MovesSo

LEMMA RemoveAllMoves ==
  ASSUME NEW m, NEW S \in SUBSET Child, NEW o \in Owner, NEW R, NEW Ow,
         Sound(m, R, Ow), S \subseteq m.mem
  PROVE  Moves(m, FoldSet(LAMBDA b, n : RemoveFrom(n, o, b), m, S), S, None, R, Ow)
<1> DEFINE c == [m |-> m, o |-> o, R |-> R, Ow |-> Ow]
<1>1. RemoveFold!IsFiniteSet(S)
  <2>1. IsFiniteSet(S)
    BY OneToManyAssumption, FS_Subset
  <2> QED BY <2>1 DEF IsFiniteSet, RemoveFold!IsFiniteSet
<1>2. FoldSet(LAMBDA b, n : RemoveFrom(n, o, b), m, S) = RemoveFold!Fold(c, m, S)
  BY DEF FoldSet, MapThenFoldSet, RemoveFold!Fold, RemoveStep, AnyOf
<1>3. LeavesSo(c, m, {})
  BY MovesNothing DEF LeavesSo
<1>4. \A T \in SUBSET S, x \in S : \A a :
        x \notin T /\ AnyOf(T \cup {x}) = x /\ LeavesSo(c, a, T) => LeavesSo(c, RemoveStep(c, x, a), T \cup {x})
  <2> SUFFICES ASSUME NEW T \in SUBSET S, NEW x \in S, NEW a, Moves(m, a, T, None, R, Ow)
               PROVE  Moves(m, RemoveFrom(a, o, x), T \cup {x}, None, R, Ow)
    BY DEF LeavesSo, RemoveStep
  <2>1. Sound(a, R, Ow) /\ x \in a.mem
    BY DEF Moves, SameElse
  <2>2. Moves(a, RemoveFrom(a, o, x), {x}, None, R, Ow)
    BY <2>1, RemoveFromMoves
  <2> QED BY <2>2, MovesTwice
<1>5. LeavesSo(c, RemoveFold!Fold(c, m, S), S)
  <2> HIDE DEF c, LeavesSo, RemoveStep
  <2> QED BY <1>1, <1>3, <1>4, AnyOfIn, RemoveFold!FoldInvariant
<1> QED BY <1>2, <1>5 DEF LeavesSo

----------------------------------------------------------------------------
(* What the application asked for, along an edit. *)

LEMMA WantsMoved ==
  ASSUME NEW m, NEW n, NEW T \in SUBSET Child, NEW o \in Owner \cup {None}, NEW R, NEW Ow, NEW w, NEW v,
         Sound(m, R, Ow), Moves(m, n, T, o, R, Ow), Wants(m, R, w), T \subseteq m.mem,
         o \in Owner => o \notin m.gone /\ (IsSet(m.coll[o]) => T \subseteq n.coll[o].members),
         \A b \in Child \ T : v[b] = w[b],
         \A b \in T : v[b] = IF b \in m.gone THEN NoRow ELSE o
  PROVE  Wants(n, R, v)
<1> SUFFICES ASSUME NEW b \in Child
             PROVE  v[b] = WantedOf(n, R, b)
  BY DEF Wants
<1>1. n.mem = m.mem /\ n.gone = m.gone /\ None \notin Owner
  BY OneToManyAssumption DEF Moves, SameElse
<1>2. \A p \in Owner : IsSet(n.coll[p]) <=> IsSet(m.coll[p])
  BY DEF Moves, SameKinds
<1>3. CASE b \in T
  <2>1. Held(n, R, b) = o
    BY <1>1, <1>3 DEF Moves, Held
  <2>2. ~LetGo(n, R, b)
    BY <1>1, <1>2, <1>3, <2>1 DEF LetGo, IsSet
  <2> QED BY <1>1, <1>3, <2>1, <2>2 DEF WantedOf
<1>4. CASE b \notin T
  <2>1. Held(n, R, b) = Held(m, R, b)
    BY <1>1, <1>4 DEF Moves, Held
  <2>2. LetGo(n, R, b) <=> LetGo(m, R, b)
    <3>1. CASE Held(m, R, b) \in Owner
      <4>1. IsSet(m.coll[Held(m, R, b)]) =>
              (b \in n.coll[Held(m, R, b)].members <=> b \in m.coll[Held(m, R, b)].members)
        BY <1>4, <3>1 DEF Moves
      <4> QED BY <1>1, <1>2, <2>1, <3>1, <4>1 DEF LetGo, IsSet
    <3>2. CASE Held(m, R, b) \notin Owner
      BY <2>1, <3>2 DEF LetGo
    <3> QED BY <3>1, <3>2
  <2>3. v[b] = WantedOf(m, R, b)
    BY <1>4 DEF Wants
  <2> QED BY <1>1, <2>1, <2>2, <2>3 DEF WantedOf
<1> QED BY <1>3, <1>4

\* What an edit that is not a deletion keeps of what waits for the flush.
Keeps(m, n) ==
  /\ n.preloaded = m.preloaded /\ n.deletes = m.deletes /\ m.mem \subseteq n.mem
  /\ \A o \in Owner : IsSet(n.coll[o]) /\ ~IsSet(m.coll[o]) => o \in n.pendingLoads
  /\ m.pendingLoads \subseteq n.pendingLoads
\* The invariant of the manager, with what the application asked for.
Good(m, R, Ow, w) == Sound(m, R, Ow) /\ Founds(m, R) /\ Wants(m, R, w)

LEMMA MovesKeeps ==
  ASSUME NEW m, NEW n, NEW T, NEW o, NEW R, NEW Ow, Moves(m, n, T, o, R, Ow)
  PROVE  Keeps(m, n) /\ (QuietAfter(m, n) => Quiet(m))
BY DEF Moves, SameElse, SameKinds, Keeps, Quiet, QuietAfter

\* A set of a reference, but to what a waiting set of its owner left it at.
LEMMA SetReferenceGood ==
  ASSUME NEW m, NEW b, NEW o, NEW R, NEW Ow, NEW w \in [Child -> Owner \cup {None, NoRow}],
         Good(m, R, Ow, w), Movable(m, Ow, b, o), b \notin m.gone, QuietAfter(m, SetReference(m, b, o)),
         ~(o \in Owner /\ IsSet(m.coll[o]) /\ m.fk[b] = o /\ b \notin m.coll[o].members)
  PROVE  /\ Good(SetReference(m, b, o), R, Ow, [w EXCEPT ![b] = o])
         /\ Keeps(m, SetReference(m, b, o))
         /\ \A p \in Owner : IsSet(SetReference(m, b, o).coll[p]) => IsSet(m.coll[p])
<1> DEFINE n == SetReference(m, b, o)
           v == [w EXCEPT ![b] = o]
<1>1. /\ Moves(m, n, {b}, o, R, Ow)
      /\ o \in Owner /\ IsSet(m.coll[o]) /\ m.fk[b] # o => b \in n.coll[o].members
  BY SetReferenceMoves DEF Good
<1>2. o \in Owner /\ IsSet(m.coll[o]) => b \in n.coll[o].members
  <2>1. m.fk[b] = o => n = m
    BY DEF SetReference
  <2> QED BY <1>1, <2>1
<1>3. b \in Child /\ b \in m.mem /\ o \in Owner \cup {None} /\ (o \in Owner => o \notin m.gone)
  BY DEF Movable
<1>4. v[b] = o /\ \A x \in Child \ {b} : v[x] = w[x]
  BY <1>3
<1> HIDE DEF n, v
<1>5. QuietAfter(m, n)
  BY DEF n
<1>6. Quiet(m) /\ Keeps(m, n)
  BY <1>1, <1>5, MovesKeeps
<1>7. Wants(n, R, v)
  <2>1. \A x \in {b} : v[x] = IF x \in m.gone THEN NoRow ELSE o
    BY <1>4
  <2>2. {b} \in SUBSET Child /\ {b} \subseteq m.mem
    BY <1>3
  <2>3. o \in Owner => o \notin m.gone /\ (IsSet(m.coll[o]) => {b} \subseteq n.coll[o].members)
    BY <1>2, <1>3
  <2> QED BY <1>1, <1>3, <1>4, <2>1, <2>2, <2>3, WantsMoved DEF Good
<1>8. Sound(n, R, Ow) /\ Founds(n, R)
  BY <1>1, <1>6 DEF Moves, Good
<1> QED BY <1>1, <1>6, <1>7, <1>8 DEF n, v, Good, Moves, SameKinds

\* The other side's edits of one child.
LEMMA AddToGood ==
  ASSUME NEW m, NEW o \in Owner, NEW b, NEW R, NEW Ow, NEW w \in [Child -> Owner \cup {None, NoRow}],
         Good(m, R, Ow, w), Movable(m, Ow, b, o), b \notin m.gone, QuietAfter(m, AddTo(m, o, b))
  PROVE  /\ Good(AddTo(m, o, b), R, Ow, [w EXCEPT ![b] = o])
         /\ Keeps(m, AddTo(m, o, b))
         /\ \A p \in Owner : IsSet(AddTo(m, o, b).coll[p]) => IsSet(m.coll[p])
<1> DEFINE n == AddTo(m, o, b)
           v == [w EXCEPT ![b] = o]
<1>1. Moves(m, n, {b}, o, R, Ow) /\ (IsSet(m.coll[o]) => b \in n.coll[o].members)
  BY AddToMoves DEF Good
<1>3. b \in Child /\ b \in m.mem /\ o \notin m.gone
  BY DEF Movable
<1>4. v[b] = o /\ \A x \in Child \ {b} : v[x] = w[x]
  BY <1>3
<1> HIDE DEF n, v
<1>5. QuietAfter(m, n)
  BY DEF n
<1>6. Quiet(m) /\ Keeps(m, n)
  BY <1>1, <1>5, MovesKeeps
<1>7. Wants(n, R, v)
  <2>1. \A x \in {b} : v[x] = IF x \in m.gone THEN NoRow ELSE o
    BY <1>4
  <2>2. {b} \in SUBSET Child /\ {b} \subseteq m.mem
    BY <1>3
  <2>3. o \in Owner => o \notin m.gone /\ (IsSet(m.coll[o]) => {b} \subseteq n.coll[o].members)
    BY <1>1, <1>3
  <2> QED BY <1>1, <1>3, <1>4, <2>1, <2>2, <2>3, WantsMoved DEF Good
<1>8. Sound(n, R, Ow) /\ Founds(n, R)
  BY <1>1, <1>6 DEF Moves, Good
<1> QED BY <1>1, <1>6, <1>7, <1>8 DEF n, v, Good, Moves, SameKinds

LEMMA RemoveFromGood ==
  ASSUME NEW m, NEW o \in Owner, NEW b \in Child, NEW R, NEW Ow, NEW w \in [Child -> Owner \cup {None, NoRow}],
         Good(m, R, Ow, w), b \in m.mem, b \notin m.gone
  PROVE  /\ Good(RemoveFrom(m, o, b), R, Ow, [w EXCEPT ![b] = None])
         /\ Keeps(m, RemoveFrom(m, o, b))
         /\ \A p \in Owner : IsSet(RemoveFrom(m, o, b).coll[p]) => IsSet(m.coll[p])
<1> DEFINE n == RemoveFrom(m, o, b)
           v == [w EXCEPT ![b] = None]
<1>1. Moves(m, n, {b}, None, R, Ow)
  BY RemoveFromMoves DEF Good
<1>4. v[b] = None /\ (\A x \in Child \ {b} : v[x] = w[x]) /\ None \notin Owner
  BY OneToManyAssumption
<1> HIDE DEF n, v
<1>6. Keeps(m, n)
  BY <1>1, MovesKeeps
<1>7. Wants(n, R, v)
  <2>1. \A x \in {b} : v[x] = IF x \in m.gone THEN NoRow ELSE None
    BY <1>4
  <2> QED BY <1>1, <1>4, <2>1, WantsMoved DEF Good
<1>8. Sound(n, R, Ow) /\ Founds(n, R)
  BY <1>1 DEF Moves, Good
<1> QED BY <1>1, <1>6, <1>7, <1>8 DEF n, v, Good, Moves, SameKinds

----------------------------------------------------------------------------
(* Setting a whole collection. *)

\* What the application asks for by setting o's collection to S, when it had asked for w.
WantedBySet(w, o, S) ==
  [b \in Child |-> CASE b \in S -> o
                     [] b \notin S /\ w[b] = o -> None
                     [] OTHER -> w[b]]

\* A loaded collection lets go of the children it had and has not, and takes those it had not.
LEMMA SetLoadedGood ==
  ASSUME NEW m, NEW o \in Owner, NEW S \in SUBSET Child, NEW R, NEW Ow,
         NEW w \in [Child -> Owner \cup {None, NoRow}],
         Good(m, R, Ow, w), o \in m.mem, o \notin m.gone, S \subseteq m.mem, S \cap m.gone = {},
         m.coll[o].kind = "loaded", QuietAfter(m, SetLoaded(m, o, S))
  PROVE  /\ Good(SetLoaded(m, o, S), R, Ow, WantedBySet(w, o, S))
         /\ Keeps(m, SetLoaded(m, o, S))
         /\ \A p \in Owner : IsSet(SetLoaded(m, o, S).coll[p]) => IsSet(m.coll[p])
<1> DEFINE old == m.coll[o].members
           left == FoldSet(LAMBDA b, n : RemoveFrom(n, o, b), m, old \ S)
           n == FoldSet(LAMBDA b, k : AddTo(k, o, b), left, S \ old)
           u == [b \in Child |-> IF b \in old \ S /\ b \notin m.gone THEN None ELSE w[b]]
           v == [b \in Child |-> CASE b \in S -> o
                                   [] b \notin S /\ w[b] = o -> None
                                   [] OTHER -> w[b]]
<1>1. SetLoaded(m, o, S) = n
  BY DEF SetLoaded
<1>2. old \in SUBSET Child /\ m \in Managers
  BY DEF Good, Sound, Managers, Collections
<1>3. ASSUME NEW b \in Child
      PROVE  /\ b \in old <=> Held(m, R, b) = o
             /\ b \in old => b \in m.mem
             /\ w[b] = WantedOf(m, R, b)
  BY DEF Good, Sound, PairOk, Held, Wants
<1>4. ASSUME NEW b \in Child
      PROVE  /\ b \in old => w[b] = IF b \in m.gone THEN NoRow ELSE o
             /\ b \notin old => w[b] # o
  BY <1>3, OneToManyAssumption DEF WantedOf, LetGo
<1>5. Moves(m, left, old \ S, None, R, Ow)
  <2>1. old \ S \subseteq m.mem /\ old \ S \in SUBSET Child
    BY <1>2, <1>3
  <2> QED BY <2>1, RemoveAllMoves DEF Good
<1> HIDE DEF left
<1>6. Wants(left, R, u)
  <2>1. None \notin Owner
    BY OneToManyAssumption
  <2>2. /\ \A b \in Child \ (old \ S) : u[b] = w[b]
        /\ \A b \in old \ S : u[b] = IF b \in m.gone THEN NoRow ELSE None
    BY <1>2, <1>4
  <2>3. old \ S \in SUBSET Child /\ old \ S \subseteq m.mem
    BY <1>2, <1>3
  <2> HIDE DEF u
  <2> QED BY <1>5, <2>1, <2>2, <2>3, WantsMoved DEF Good
<1>7. Moves(left, n, S \ old, o, R, Ow)
  <2>1. \A b \in S \ old : Movable(left, Ow, b, o)
    BY <1>5 DEF Movable, Moves, SameElse
  <2>2. Sound(left, R, Ow) /\ S \ old \in SUBSET Child
    BY <1>5 DEF Moves
  <2> QED BY <2>1, <2>2, AddAllMoves
<1> HIDE DEF n
<1>8. Wants(n, R, v)
  <2>1. /\ \A b \in Child \ (S \ old) : v[b] = u[b]
        /\ \A b \in S \ old : v[b] = IF b \in left.gone THEN NoRow ELSE o
    <3>1. left.gone = m.gone
      BY <1>5 DEF Moves, SameElse
    <3>2. ASSUME NEW b \in Child \ (S \ old)
          PROVE  v[b] = u[b]
      BY <1>4, <3>2, OneToManyAssumption
    <3>3. ASSUME NEW b \in S \ old
          PROVE  v[b] = o /\ b \notin m.gone
      OBVIOUS
    <3> HIDE DEF v, u
    <3> QED BY <3>1, <3>2, <3>3
  <2>2. S \ old \in SUBSET Child /\ S \ old \subseteq left.mem
    BY <1>5 DEF Moves, SameElse
  <2>3. o \in Owner => o \notin left.gone /\ (IsSet(left.coll[o]) => S \ old \subseteq n.coll[o].members)
    BY <1>5 DEF Moves, SameElse, SameKinds, IsSet
  <2>4. Sound(left, R, Ow)
    BY <1>5 DEF Moves
  <2> HIDE DEF u, v
  <2> QED BY <1>6, <1>7, <2>1, <2>2, <2>3, <2>4, WantsMoved
<1>9. QuietAfter(left, n) /\ Quiet(left)
  <2>1. QuietAfter(left, n)
    BY <1>1, <1>5 DEF Moves, SameElse, QuietAfter
  <2> QED BY <1>7, <2>1, MovesKeeps
<1>10. Sound(n, R, Ow) /\ Founds(n, R)
  BY <1>5, <1>7, <1>9 DEF Moves, Good
<1>11. Keeps(m, n) /\ \A p \in Owner : IsSet(n.coll[p]) => IsSet(m.coll[p])
  BY <1>5, <1>7 DEF Moves, SameElse, SameKinds, Keeps
<1> HIDE DEF v
<1> QED BY <1>1, <1>8, <1>10, <1>11 DEF Good, v, WantedBySet

\* The manager with another collection of o.
CollectionSet(m, o, c, U, L) ==
  [m EXCEPT !.coll[o] = c, !.mutated = U, !.cache[o] = NoCache, !.pendingLoads = L]

OthersAt(m, n, o) == \A p \in Owner \ {o} : n.coll[p] = m.coll[p] /\ n.cache[p] = m.cache[p]

LEMMA ManagerSet ==
  ASSUME NEW m \in Managers, NEW o \in Owner, NEW c \in Collections, NEW U \in SUBSET Owner,
         NEW L \in SUBSET Owner
  PROVE  LET n == CollectionSet(m, o, c, U, L)
         IN /\ n \in Managers
            /\ n.mem = m.mem /\ n.gone = m.gone /\ n.deletes = m.deletes /\ n.preloaded = m.preloaded
            /\ n.fk = m.fk /\ n.ref = m.ref /\ n.pendingLoads = L
            /\ n.coll[o] = c /\ n.cache[o] = NoCache /\ OthersAt(m, n, o)
<1> DEFINE n == CollectionSet(m, o, c, U, L)
           C == [m.coll EXCEPT ![o] = c]
           K == [m.cache EXCEPT ![o] = NoCache]
<1>1. n = [m EXCEPT !.coll = C, !.mutated = U, !.cache = K, !.pendingLoads = L]
  BY DEF Managers, CollectionSet
<1>2. C \in [Owner -> Collections] /\ K \in [Owner -> (SUBSET Child) \cup {NoCache}]
  BY DEF Managers
<1>3. /\ C[o] = c /\ \A p \in Owner \ {o} : C[p] = m.coll[p]
      /\ K[o] = NoCache /\ \A p \in Owner \ {o} : K[p] = m.cache[p]
  BY DEF Managers
<1> HIDE DEF C, K
<1>4. n \in Managers
  BY <1>1, <1>2 DEF Managers
<1>5. /\ n.mem = m.mem /\ n.gone = m.gone /\ n.deletes = m.deletes /\ n.preloaded = m.preloaded
      /\ n.fk = m.fk /\ n.ref = m.ref /\ n.pendingLoads = L /\ n.coll = C /\ n.cache = K
  BY <1>1 DEF Managers
<1> HIDE DEF n
<1>6. n.coll[o] = c /\ n.cache[o] = NoCache /\ OthersAt(m, n, o)
  BY <1>3, <1>5 DEF OthersAt
<1> QED BY <1>4, <1>5, <1>6 DEF n

\* A collection that is not loaded is set to S, and the children in memory with it; its load
\* will let go of the others.
LEMMA SetPendingGood ==
  ASSUME NEW m, NEW o \in Owner, NEW S \in SUBSET Child, NEW R, NEW Ow,
         NEW w \in [Child -> Owner \cup {None, NoRow}],
         Good(m, R, Ow, w), o \in m.mem, o \notin m.gone, S \subseteq m.mem, S \cap m.gone = {},
         m.coll[o].kind # "loaded", IsSet(m.coll[o]) => o \in m.pendingLoads,
         QuietAfter(m, SetPending(m, o, S))
  PROVE  /\ Good(SetPending(m, o, S), R, Ow, WantedBySet(w, o, S))
         /\ Keeps(m, SetPending(m, o, S))
         /\ \A p \in Owner : IsSet(SetPending(m, o, S).coll[p]) => IsSet(m.coll[p]) \/ p = o
<1> DEFINE stale == StaleChildren(m, o, S)
           a == SetAll(m, S, o)
           k == SetAll(a, stale, None)
           c == Collection("pendingSet", S)
           L == IF m.coll[o].kind = "pendingSet" THEN k.pendingLoads ELSE k.pendingLoads \cup {o}
           U == k.mutated \cup {o}
           n == SetPending(m, o, S)
           v == [b \in Child |-> CASE b \in S -> o
                                   [] b \notin S /\ w[b] = o -> None
                                   [] OTHER -> w[b]]
<1>1. n = CollectionSet(k, o, c, U, L)
  BY DEF SetPending, CollectionSet
<1>2. m \in Managers /\ stale \in SUBSET Child /\ stale \subseteq m.mem
  BY DEF Good, Sound, StaleChildren
<1>3. Moves(m, a, S, o, R, Ow)
  <2>1. \A b \in S : Movable(m, Ow, b, o)
    BY DEF Movable
  <2> QED BY <2>1, SetAllMoves DEF Good
<1>4. Moves(a, k, stale, None, R, Ow)
  <2>1. \A b \in stale : Movable(a, Ow, b, None)
    BY <1>2, <1>3, OneToManyAssumption DEF Movable, Moves, SameElse
  <2> QED BY <1>2, <1>3, <2>1, SetAllMoves DEF Moves
<1> HIDE DEF a, k, stale, n
<1>5. k \in Managers /\ c \in Collections /\ U \in SUBSET Owner /\ L \in SUBSET Owner
  <2>1. k \in Managers
    BY <1>4 DEF Moves, Sound
  <2>2. c \in Collections
    BY DEF Collection, Collections, Kinds
  <2> QED BY <2>1, <2>2 DEF Managers
<1> HIDE DEF L, U
<1>6. /\ n \in Managers
      /\ n.mem = k.mem /\ n.gone = k.gone /\ n.deletes = k.deletes /\ n.preloaded = k.preloaded
      /\ n.fk = k.fk /\ n.ref = k.ref /\ n.pendingLoads = L
      /\ n.coll[o] = c /\ \A p \in Owner \ {o} : n.coll[p] = k.coll[p]
      /\ n.cache[o] = NoCache /\ \A p \in Owner \ {o} : n.cache[p] = k.cache[p]
  <2> HIDE DEF c
  <2>1. /\ n \in Managers
        /\ n.mem = k.mem /\ n.gone = k.gone /\ n.deletes = k.deletes /\ n.preloaded = k.preloaded
        /\ n.fk = k.fk /\ n.ref = k.ref /\ n.pendingLoads = L
        /\ n.coll[o] = c /\ n.cache[o] = NoCache /\ OthersAt(k, n, o)
    BY <1>1, <1>5, ManagerSet
  <2> QED BY <2>1 DEF OthersAt
<1>7. SameElse(m, k)
  BY <1>3, <1>4 DEF Moves, SameElse
<1>8. ASSUME NEW b \in Child
      PROVE  k.fk[b] = IF b \in stale THEN None ELSE IF b \in S THEN o ELSE m.fk[b]
  BY <1>3, <1>4 DEF Moves
<1>9. \A b \in Child : b \in stale <=> b \in m.mem /\ m.fk[b] = o /\ b \notin S
  BY DEF stale, StaleChildren
<1>10. ASSUME NEW b \in Child, b \in m.mem
       PROVE  k.fk[b] = o <=> b \in S
  BY <1>8, <1>9, <1>10, OneToManyAssumption
<1>11. c.kind = "pendingSet" /\ c.members = S /\ c.added = {} /\ c.removed = {}
  BY DEF Collection
<1> HIDE DEF c
<1>12. /\ m.coll[o].kind \in {"pristine", "addedRemoved", "pendingSet"}
       /\ \A p \in Owner : IsSet(k.coll[p]) <=> IsSet(m.coll[p])
  <2>1. m.coll[o].kind \in Kinds /\ m.coll[o].kind # "elsewhere"
    BY <1>2 DEF Good, Sound, OwnerOk, Managers, Collections
  <2> QED BY <1>3, <1>4, <2>1 DEF Kinds, Moves, SameKinds
<1>13. Sound(k, R, Ow)
  BY <1>4 DEF Moves
<1>14. ASSUME NEW b \in Child
       PROVE  PairOk(n, R, o, b)
  <2>1. b \in S => b \in n.mem /\ n.fk[b] = o
    BY <1>6, <1>7, <1>10 DEF SameElse
  <2>2. Held(n, R, b) = o /\ b \notin S => R[b] = o
    BY <1>6, <1>7, <1>10 DEF SameElse, Held
  <2> QED BY <1>6, <1>11, <2>1, <2>2 DEF PairOk
<1>15. Sound(n, R, Ow)
  <2>1. n.deletes \subseteq n.gone /\ n.gone \subseteq n.mem
    BY <1>6, <1>13 DEF Sound
  <2>2. ASSUME NEW b \in Child
        PROVE  ChildOk(n, R, Ow, b)
    <3>1. ChildOk(k, R, Ow, b) /\ Held(n, R, b) = Held(k, R, b)
      BY <1>6, <1>13 DEF Sound, Held
    <3> QED BY <1>6, <3>1 DEF ChildOk
  <2>3. ASSUME NEW p \in Owner
        PROVE  OwnerOk(n, p)
    <3>1. OwnerOk(k, p)
      BY <1>13 DEF Sound
    <3>2. CASE p = o
      BY <1>6, <1>7, <1>11, <3>2 DEF OwnerOk, SameElse
    <3>3. CASE p # o
      BY <1>6, <3>1, <3>3 DEF OwnerOk, Visible
    <3> QED BY <3>2, <3>3
  <2>4. ASSUME NEW p \in Owner, NEW b \in Child
        PROVE  PairOk(n, R, p, b)
    <3>1. CASE p = o
      BY <1>14, <3>1
    <3>2. CASE p # o
      BY <1>6, <1>13, <3>2 DEF Sound, PairOk, Held
    <3> QED BY <3>1, <3>2
  <2> QED BY <1>6, <2>1, <2>2, <2>3, <2>4 DEF Sound
<1>16. QuietAfter(m, n)
  BY DEF n
<1>17. Quiet(m)
  <2>1. ASSUME NEW p \in Owner \ m.gone, m.preloaded[p] # NotAsked
        PROVE  ~IsSet(m.coll[p])
    <3>1. ~IsSet(n.coll[p])
      BY <1>16, <2>1 DEF QuietAfter
    <3>2. p # o
      BY <1>6, <1>11, <3>1 DEF IsSet
    <3> QED BY <1>6, <1>12, <3>1, <3>2
  <2> QED BY <2>1 DEF Quiet
<1>18. Founds(n, R)
  <2>1. Founds(k, R)
    BY <1>3, <1>4, <1>17 DEF Moves, Good
  <2> SUFFICES ASSUME NEW p \in Owner \ n.gone, n.preloaded[p] # NotAsked
               PROVE  Answers(n, R, p, n.preloaded[p])
    BY DEF Founds
  <2>2. p # o
    BY <1>6, <1>7, <1>11, <1>16 DEF QuietAfter, SameElse, IsSet
  <2>3. Answers(k, R, p, n.preloaded[p])
    BY <1>6, <2>1 DEF Founds
  <2> QED BY <1>6, <2>2, <2>3 DEF Answers, FoundOk
<1>19. Wants(n, R, v)
  <2> SUFFICES ASSUME NEW b \in Child
               PROVE  v[b] = WantedOf(n, R, b)
    BY DEF Wants
  <2>1. w[b] = WantedOf(m, R, b) /\ n.gone = m.gone /\ n.mem = m.mem
    BY <1>6, <1>7 DEF Good, Wants, SameElse
  <2>2. None \notin Owner /\ NoRow \notin Owner
    BY OneToManyAssumption
  <2>3. CASE b \in m.gone
    <3>1. w[b] = NoRow /\ b \notin S
      BY <2>1, <2>3 DEF WantedOf
    <3> QED BY <2>1, <2>2, <2>3, <3>1 DEF WantedOf
  <2>4. CASE b \in S
    <3>1. Held(n, R, b) = o /\ ~LetGo(n, R, b) /\ b \notin n.gone
      BY <1>6, <1>10, <1>11, <2>1, <2>4 DEF Held, LetGo
    <3> QED BY <2>4, <3>1 DEF WantedOf
  <2>5. CASE b \notin m.gone /\ b \notin S /\ Held(m, R, b) = o
    <3>1. w[b] \in {o, None}
      BY <2>1, <2>5 DEF WantedOf
    <3>2. v[b] = None
      BY <2>2, <2>5, <3>1
    <3>3. CASE b \in m.mem
      <4>1. Held(n, R, b) = None
        BY <1>6, <1>8, <1>9, <2>1, <2>5, <3>3 DEF Held
      <4> HIDE DEF v
      <4> QED BY <2>1, <2>5, <3>2, <4>1 DEF WantedOf
    <3>4. CASE b \notin m.mem
      <4>1. Held(n, R, b) = o
        BY <2>1, <2>5, <3>4 DEF Held
      <4>2. LetGo(n, R, b)
        BY <1>6, <1>11, <2>5, <4>1 DEF LetGo
      <4> HIDE DEF v
      <4> QED BY <2>1, <2>5, <3>2, <4>2 DEF WantedOf
    <3> QED BY <3>3, <3>4
  <2>6. CASE b \notin m.gone /\ b \notin S /\ Held(m, R, b) # o
    <3>1. w[b] # o
      BY <2>1, <2>2, <2>6 DEF WantedOf
    <3>2. v[b] = w[b]
      BY <2>6, <3>1
    <3>3. Held(n, R, b) = Held(m, R, b)
      BY <1>6, <1>8, <1>9, <2>1, <2>6 DEF Held
    <3>4. LetGo(n, R, b) <=> LetGo(m, R, b)
      <4>1. CASE Held(m, R, b) \in Owner
        <5> DEFINE p == Held(m, R, b)
        <5>1. n.coll[p] = k.coll[p]
          BY <1>6, <2>6, <4>1
        <5>2. b \notin stale
          <6>1. b \in stale => Held(m, R, b) = o
            BY <1>9 DEF Held
          <6> QED BY <2>6, <6>1
        <5>3. IsSet(m.coll[p]) => (b \in k.coll[p].members <=> b \in m.coll[p].members)
          <6>1. IsSet(m.coll[p]) => (b \in a.coll[p].members <=> b \in m.coll[p].members)
            BY <1>3, <2>6, <4>1 DEF Moves
          <6>2. IsSet(a.coll[p]) => (b \in k.coll[p].members <=> b \in a.coll[p].members)
            BY <1>4, <4>1, <5>2 DEF Moves
          <6>3. IsSet(m.coll[p]) => IsSet(a.coll[p])
            BY <1>3, <4>1 DEF Moves, SameKinds
          <6> QED BY <6>1, <6>2, <6>3
        <5>4. IsSet(k.coll[p]) <=> IsSet(m.coll[p])
          BY <1>12, <4>1
        <5> QED BY <2>1, <3>3, <4>1, <5>1, <5>3, <5>4 DEF LetGo, IsSet
      <4>2. CASE Held(m, R, b) \notin Owner
        BY <3>3, <4>2 DEF LetGo
      <4> QED BY <4>1, <4>2
    <3> HIDE DEF v
    <3> QED BY <2>1, <3>2, <3>3, <3>4 DEF WantedOf
  <2> QED BY <2>3, <2>4, <2>5, <2>6
<1>20. Keeps(m, n) /\ \A p \in Owner : IsSet(n.coll[p]) => IsSet(m.coll[p]) \/ p = o
  <2>1. \A p \in Owner : IsSet(n.coll[p]) => IsSet(m.coll[p]) \/ p = o
    BY <1>6, <1>12
  <2>2. m.pendingLoads \subseteq n.pendingLoads /\ o \in n.pendingLoads
    BY <1>6, <1>7 DEF SameElse, L, IsSet
  <2> QED BY <1>6, <1>7, <2>1, <2>2 DEF Keeps, SameElse
<1> HIDE DEF v
<1> QED BY <1>15, <1>18, <1>19, <1>20 DEF Good, n, v, WantedBySet

----------------------------------------------------------------------------
(* Creations, deletions, and what comes to memory. *)

\* A new child has no owner at first.
Born(m, b) == [m EXCEPT !.mem = @ \cup {b}, !.fk[b] = None, !.ref[b] = None]

LEMMA BornFields ==
  ASSUME NEW m \in Managers, NEW b \in Child
  PROVE  LET n == Born(m, b)
         IN /\ n \in Managers
            /\ n.mem = m.mem \cup {b} /\ n.gone = m.gone /\ n.deletes = m.deletes
            /\ n.fk = [m.fk EXCEPT ![b] = None] /\ n.ref = [m.ref EXCEPT ![b] = None]
            /\ n.coll = m.coll /\ n.cache = m.cache /\ n.preloaded = m.preloaded
            /\ n.pendingLoads = m.pendingLoads
<1> DEFINE f == [m.fk EXCEPT ![b] = None]
           g == [m.ref EXCEPT ![b] = None]
<1>1. Born(m, b) = [m EXCEPT !.mem = m.mem \cup {b}, !.fk = f, !.ref = g]
  BY DEF Born, Managers
<1>2. /\ f \in [Child -> Owner \cup {None}] /\ g \in [Child -> Owner \cup {None, NotLoaded}]
      /\ m.mem \cup {b} \in SUBSET (Owner \cup Child)
  BY DEF Managers
<1> HIDE DEF f, g
<1>3. Born(m, b) \in Managers
  BY <1>1, <1>2 DEF Managers
<1>4. LET n == Born(m, b)
      IN /\ n.mem = m.mem \cup {b} /\ n.gone = m.gone /\ n.deletes = m.deletes
         /\ n.fk = f /\ n.ref = g
         /\ n.coll = m.coll /\ n.cache = m.cache /\ n.preloaded = m.preloaded
         /\ n.pendingLoads = m.pendingLoads
  BY <1>1 DEF Managers
<1> QED BY <1>3, <1>4 DEF f, g

LEMMA BornGood ==
  ASSUME NEW m, NEW b \in Child, NEW R, NEW Ow, NEW w \in [Child -> Owner \cup {None, NoRow}],
         Good(m, R, Ow, w), b \notin m.mem, R[b] = NoRow
  PROVE  /\ Good(Born(m, b), R, Ow, [w EXCEPT ![b] = None])
         /\ Keeps(m, Born(m, b)) /\ Born(m, b).coll = m.coll
<1> DEFINE n == Born(m, b)
           v == [w EXCEPT ![b] = None]
<1>1. m \in Managers /\ m.deletes \subseteq m.gone /\ m.gone \subseteq m.mem
  BY DEF Good, Sound
<1>2. /\ n \in Managers
      /\ n.mem = m.mem \cup {b} /\ n.gone = m.gone /\ n.deletes = m.deletes
      /\ n.fk = [m.fk EXCEPT ![b] = None] /\ n.ref = [m.ref EXCEPT ![b] = None]
      /\ n.coll = m.coll /\ n.cache = m.cache /\ n.preloaded = m.preloaded
      /\ n.pendingLoads = m.pendingLoads
  BY <1>1, BornFields
<1> HIDE DEF n
<1>3. /\ n.fk[b] = None /\ \A x \in Child \ {b} : n.fk[x] = m.fk[x]
      /\ n.ref[b] = None /\ \A x \in Child \ {b} : n.ref[x] = m.ref[x]
  BY <1>1, <1>2 DEF Managers
<1>4. None \notin Owner /\ NoRow \notin Owner /\ b \notin Owner /\ None \notin m.gone /\ b \notin m.gone
  BY <1>1, OneToManyAssumption DEF Managers
<1>5. Held(n, R, b) = None /\ Held(m, R, b) = NoRow /\ \A x \in Child \ {b} : Held(n, R, x) = Held(m, R, x)
  BY <1>2, <1>3 DEF Held
<1>6. ASSUME NEW x \in Child
      PROVE  ChildOk(n, R, Ow, x)
  <2>1. ChildOk(m, R, Ow, x)
    BY DEF Good, Sound
  <2>2. CASE x = b
    BY <1>2, <1>3, <1>4, <1>5, <2>2 DEF ChildOk
  <2>3. CASE x # b
    BY <1>2, <1>3, <1>5, <2>1, <2>3 DEF ChildOk
  <2> QED BY <2>2, <2>3
<1>7. ASSUME NEW p \in Owner
      PROVE  OwnerOk(n, p)
  <2>1. OwnerOk(m, p)
    BY DEF Good, Sound
  <2> QED BY <1>2, <1>4, <2>1 DEF OwnerOk, Visible
<1>8. ASSUME NEW p \in Owner, NEW x \in Child
      PROVE  PairOk(n, R, p, x) /\ \A q : FoundOk(m, R, p, q, x) => FoundOk(n, R, p, q, x)
  <2>1. PairOk(m, R, p, x)
    BY DEF Good, Sound
  <2>2. CASE x = b
    BY <1>2, <1>3, <1>4, <1>5, <2>1, <2>2 DEF PairOk, FoundOk
  <2>3. CASE x # b
    BY <1>2, <1>3, <1>5, <2>1, <2>3 DEF PairOk, FoundOk
  <2> QED BY <2>2, <2>3
<1>9. Sound(n, R, Ow)
  BY <1>1, <1>2, <1>6, <1>7, <1>8 DEF Sound
<1>10. Founds(n, R)
  BY <1>2, <1>8 DEF Good, Founds, Answers
<1>11. Wants(n, R, v)
  <2> SUFFICES ASSUME NEW x \in Child
               PROVE  v[x] = WantedOf(n, R, x)
    BY DEF Wants
  <2>1. CASE x = b
    BY <1>2, <1>4, <1>5, <2>1 DEF WantedOf, LetGo
  <2>2. CASE x # b
    <3>1. v[x] = WantedOf(m, R, x) /\ Held(n, R, x) = Held(m, R, x)
      BY <1>5, <2>2 DEF Good, Wants
    <3>2. LetGo(n, R, x) <=> LetGo(m, R, x)
      BY <1>2, <3>1 DEF LetGo
    <3> QED BY <1>2, <3>1, <3>2 DEF WantedOf
  <2> QED BY <2>1, <2>2
<1> HIDE DEF v
<1> QED BY <1>2, <1>9, <1>10, <1>11 DEF n, v, Good, Keeps

\* What nobody points to, created: an owner without children, all of them known.
LEMMA CreateOwnerGood ==
  ASSUME NEW m, NEW o \in Owner, NEW R, NEW Ow, NEW w,
         Good(m, R, Ow, w), o \notin Ow, o \notin m.mem
  PROVE  /\ Good(CreateOwner(m, o), R, Ow, w)
         /\ Keeps(m, CreateOwner(m, o))
         /\ \A p \in Owner : IsSet(CreateOwner(m, o).coll[p]) => IsSet(m.coll[p])
<1> DEFINE n == CreateOwner(m, o)
           c == Collection("loaded", {})
<1>1. m \in Managers /\ m.deletes \subseteq m.gone /\ m.gone \subseteq m.mem
  BY DEF Good, Sound
<1>2. c \in Collections /\ c.kind = "loaded" /\ c.members = {} /\ c.added = {} /\ c.removed = {}
  BY DEF Collection, Collections, Kinds
<1> HIDE DEF c
<1>3. /\ n \in Managers
      /\ n.mem = m.mem \cup {o} /\ n.gone = m.gone /\ n.deletes = m.deletes
      /\ n.fk = m.fk /\ n.ref = m.ref /\ n.cache = m.cache /\ n.preloaded = m.preloaded
      /\ n.pendingLoads = m.pendingLoads
      /\ n.coll = [m.coll EXCEPT ![o] = c]
  <2>1. n = [m EXCEPT !.mem = m.mem \cup {o}, !.coll = [m.coll EXCEPT ![o] = c]]
    BY DEF CreateOwner, Managers, c
  <2>2. [m.coll EXCEPT ![o] = c] \in [Owner -> Collections] /\ m.mem \cup {o} \in SUBSET (Owner \cup Child)
    BY <1>1, <1>2 DEF Managers
  <2> HIDE DEF n
  <2>3. \A C \in [Owner -> Collections], M \in SUBSET (Owner \cup Child) :
          [m EXCEPT !.mem = M, !.coll = C] \in Managers
    BY <1>1 DEF Managers
  <2>4. n \in Managers
    BY <2>1, <2>2, <2>3
  <2> QED BY <1>1, <2>1, <2>4 DEF Managers
<1> HIDE DEF n
<1>4. n.coll[o] = c /\ \A p \in Owner \ {o} : n.coll[p] = m.coll[p]
  BY <1>1, <1>3 DEF Managers
<1>5. o \notin Child /\ o # None
  BY OneToManyAssumption
<1>6. ASSUME NEW x \in Child
      PROVE  Held(n, R, x) = Held(m, R, x) /\ Held(m, R, x) # o /\ R[x] # o
  <2>1. ChildOk(m, R, Ow, x)
    BY DEF Good, Sound
  <2> QED BY <1>3, <1>5, <2>1 DEF Held, ChildOk
<1>7. ASSUME NEW x \in Child
      PROVE  ChildOk(n, R, Ow, x)
  <2>1. ChildOk(m, R, Ow, x)
    BY DEF Good, Sound
  <2> QED BY <1>3, <1>5, <1>6, <2>1 DEF ChildOk
<1>8. ASSUME NEW p \in Owner
      PROVE  OwnerOk(n, p)
  <2>1. OwnerOk(m, p)
    BY DEF Good, Sound
  <2>2. CASE p = o
    BY <1>2, <1>3, <1>4, <2>1, <2>2 DEF OwnerOk
  <2>3. CASE p # o
    BY <1>3, <1>4, <2>1, <2>3 DEF OwnerOk, Visible
  <2> QED BY <2>2, <2>3
<1>9. ASSUME NEW p \in Owner, NEW x \in Child
      PROVE  PairOk(n, R, p, x) /\ \A q : FoundOk(m, R, p, q, x) => FoundOk(n, R, p, q, x)
  <2>1. PairOk(m, R, p, x) /\ (x \in n.mem <=> x \in m.mem)
    BY <1>3, <1>5 DEF Good, Sound
  <2>2. CASE p = o
    <3>1. PairOk(n, R, o, x)
      BY <1>2, <1>4, <1>6 DEF PairOk
    <3>2. \A q : FoundOk(m, R, o, q, x) => FoundOk(n, R, o, q, x)
      BY <1>6 DEF FoundOk
    <3> QED BY <2>2, <3>1, <3>2
  <2>3. CASE p # o
    BY <1>3, <1>4, <1>6, <2>1, <2>3 DEF PairOk, FoundOk
  <2> QED BY <2>2, <2>3
<1>10. Sound(n, R, Ow)
  BY <1>1, <1>3, <1>7, <1>8, <1>9 DEF Sound
<1>11. Founds(n, R)
  BY <1>3, <1>9 DEF Good, Founds, Answers
<1>12. Wants(n, R, w)
  <2> SUFFICES ASSUME NEW x \in Child
               PROVE  w[x] = WantedOf(n, R, x)
    BY DEF Wants
  <2>1. w[x] = WantedOf(m, R, x)
    BY DEF Good, Wants
  <2>2. LetGo(n, R, x) <=> LetGo(m, R, x)
    BY <1>3, <1>4, <1>6 DEF LetGo
  <2> QED BY <1>3, <1>6, <2>1, <2>2 DEF WantedOf
<1>13. Keeps(m, n) /\ \A p \in Owner : IsSet(n.coll[p]) => IsSet(m.coll[p])
  BY <1>2, <1>3, <1>4 DEF Keeps, IsSet
<1> QED BY <1>10, <1>11, <1>12, <1>13 DEF n, Good

\* A deletion: what points to it is to be let go of by the next flush.
LEMMA DeleteGood ==
  ASSUME NEW m, NEW x, NEW R, NEW Ow, NEW w \in [Child -> Owner \cup {None, NoRow}],
         Good(m, R, Ow, w), x \in m.mem
  PROVE  LET n == Delete(m, x)
         IN /\ Good(n, R, Ow, [b \in Child |-> CASE b = x -> NoRow [] w[b] = x -> None [] OTHER -> w[b]])
            /\ n.mem = m.mem /\ n.coll = m.coll /\ n.pendingLoads = m.pendingLoads
            /\ n.preloaded = m.preloaded
<1> DEFINE n == Delete(m, x)
           v == [b \in Child |-> CASE b = x -> NoRow [] w[b] = x -> None [] OTHER -> w[b]]
<1>1. /\ m \in Managers /\ m.deletes \subseteq m.gone /\ m.gone \subseteq m.mem
      /\ x \in Owner \cup Child
  BY DEF Good, Sound, Managers
<1>2. /\ n \in Managers
      /\ n.gone = m.gone \cup {x} /\ n.deletes = m.deletes \cup {x} /\ n.mem = m.mem
      /\ n.fk = m.fk /\ n.ref = m.ref /\ n.coll = m.coll /\ n.preloaded = m.preloaded
      /\ n.pendingLoads = m.pendingLoads /\ n.cache = NoCaches
  <2>1. NoCaches \in [Owner -> (SUBSET Child) \cup {NoCache}]
    BY DEF NoCaches
  <2> QED BY <1>1, <2>1 DEF Delete, Managers
<1> HIDE DEF n
<1>3. x # None /\ x # NoRow /\ None \notin Owner /\ NoRow \notin Owner /\ None # NoRow
      /\ (x \in Child => x \notin Owner)
  BY <1>1, OneToManyAssumption
<1>4. \A b \in Child : Held(n, R, b) = Held(m, R, b)
  BY <1>2 DEF Held
<1>5. ASSUME NEW b \in Child
      PROVE  ChildOk(n, R, Ow, b)
  <2>1. ChildOk(m, R, Ow, b)
    BY DEF Good, Sound
  <2> QED BY <1>2, <1>4, <2>1 DEF ChildOk
<1>6. ASSUME NEW p \in Owner
      PROVE  OwnerOk(n, p)
  BY <1>2 DEF Good, Sound, OwnerOk, NoCaches
<1>7. ASSUME NEW p \in Owner, NEW b \in Child
      PROVE  PairOk(n, R, p, b)
  BY <1>2, <1>4 DEF Good, Sound, PairOk
<1>8. Sound(n, R, Ow)
  BY <1>1, <1>2, <1>5, <1>6, <1>7 DEF Sound
<1>9. Founds(n, R)
  BY <1>2 DEF Good, Founds, Answers, FoundOk
<1>10. Wants(n, R, v)
  <2> SUFFICES ASSUME NEW b \in Child
               PROVE  v[b] = WantedOf(n, R, b)
    BY DEF Wants
  <2>1. w[b] = WantedOf(m, R, b) /\ Held(n, R, b) = Held(m, R, b)
    BY <1>4 DEF Good, Wants
  <2>2. CASE b = x
    <3>1. w[b] # x
      BY <1>3, <2>2, OneToManyAssumption
    <3>2. v[b] = NoRow
      BY <2>2, <3>1
    <3> HIDE DEF v
    <3> QED BY <1>2, <2>2, <3>2 DEF WantedOf
  <2>3. CASE b # x /\ b \in m.gone
    <3>1. w[b] = NoRow
      BY <2>1, <2>3 DEF WantedOf
    <3>2. v[b] = NoRow
      BY <1>3, <2>3, <3>1
    <3> HIDE DEF v
    <3> QED BY <1>2, <2>3, <3>2 DEF WantedOf
  <2>4. CASE b # x /\ b \notin m.gone /\ Held(m, R, b) = x /\ x \in Owner
    <3>1. w[b] \in {None, x}
      BY <2>1, <2>4 DEF WantedOf
    <3>2. v[b] = None
      BY <1>3, <2>4, <3>1
    <3>3. LetGo(n, R, b)
      BY <1>2, <2>1, <2>4 DEF LetGo
    <3> HIDE DEF v
    <3> QED BY <1>2, <2>4, <3>2, <3>3 DEF WantedOf
  <2>5. CASE b # x /\ b \notin m.gone /\ ~(Held(m, R, b) = x /\ x \in Owner)
    <3>1. w[b] # x
      <4>1. x \in Child => Held(m, R, b) # x
        <5>1. w[b] \in Owner \cup {None, NoRow}
          OBVIOUS
        <5> QED BY <1>3, <2>1, <2>5, <5>1, OneToManyAssumption DEF WantedOf, LetGo, Held, Good, Sound, ChildOk, Managers
      <4> QED BY <1>1, <1>3, <2>1, <2>5, <4>1 DEF WantedOf
    <3>2. v[b] = w[b]
      BY <2>5, <3>1
    <3>3. LetGo(n, R, b) <=> LetGo(m, R, b)
      BY <1>2, <2>1, <2>5 DEF LetGo
    <3> HIDE DEF v
    <3> QED BY <1>2, <2>1, <2>5, <3>2, <3>3 DEF WantedOf
  <2> QED BY <2>2, <2>3, <2>4, <2>5
<1> HIDE DEF v
<1> QED BY <1>2, <1>8, <1>9, <1>10 DEF n, v, Good

----------------------------------------------------------------------------
(* Steps that change nothing the application asked for. *)

Settles(m, n, R, Ow, w) ==
  /\ Good(n, R, Ow, w)
  /\ n.gone = m.gone /\ n.deletes = m.deletes /\ n.preloaded = m.preloaded
  /\ n.pendingLoads = m.pendingLoads /\ m.mem \subseteq n.mem
  /\ \A p \in Owner : IsSet(n.coll[p]) => IsSet(m.coll[p])
  /\ \A b \in Child : Held(n, R, b) \in {Held(m, R, b), None}

LEMMA SettlesNothing ==
  ASSUME NEW m, NEW R, NEW Ow, NEW w, Good(m, R, Ow, w)
  PROVE  Settles(m, m, R, Ow, w)
BY DEF Settles

LEMMA SettlesTwice ==
  ASSUME NEW m, NEW n, NEW k, NEW R, NEW Ow, NEW w, Settles(m, n, R, Ow, w), Settles(n, k, R, Ow, w)
  PROVE  Settles(m, k, R, Ow, w)
BY DEF Settles

\* Children that leave their owner, as they were to.
LEMMA LeavingSettles ==
  ASSUME NEW m, NEW n, NEW T \in SUBSET Child, NEW R, NEW Ow, NEW w,
         Good(m, R, Ow, w), Moves(m, n, T, None, R, Ow), T \subseteq m.mem,
         \A b \in T : b \in m.gone \/ LetGo(m, R, b) \/ Held(m, R, b) = None
  PROVE  Settles(m, n, R, Ow, w)
<1>1. None \notin Owner
  BY OneToManyAssumption
<1>2. \A b \in T : w[b] = IF b \in m.gone THEN NoRow ELSE None
  BY DEF Good, Wants, WantedOf
<1>3. Wants(n, R, w)
  BY <1>1, <1>2, WantsMoved DEF Good
<1>4. Sound(n, R, Ow) /\ Founds(n, R)
  BY DEF Moves, Good
<1>5. \A b \in Child : Held(n, R, b) \in {Held(m, R, b), None}
  BY DEF Moves, SameElse, Held
<1> QED BY <1>3, <1>4, <1>5 DEF Settles, Good, Moves, SameElse, SameKinds

\* An owner that comes to memory takes over what percolated to it.
LEMMA LoadOwnerSettles ==
  ASSUME NEW m, NEW o \in Owner, NEW R, NEW Ow, NEW w, Good(m, R, Ow, w)
  PROVE  /\ Settles(m, LoadOwner(m, o), R, Ow, w)
         /\ o \in LoadOwner(m, o).mem /\ LoadOwner(m, o).fk = m.fk
         /\ LoadOwner(m, o).ref = m.ref
<1>1. CASE o \in m.mem
  BY <1>1, SettlesNothing DEF LoadOwner
<1>2. CASE o \notin m.mem
  <2> DEFINE n == LoadOwner(m, o)
             c == IF m.coll[o] = Elsewhere THEN Pristine ELSE [m.coll[o] EXCEPT !.kind = "addedRemoved"]
  <2>1. m \in Managers /\ m.deletes \subseteq m.gone /\ m.gone \subseteq m.mem /\ m.coll[o] \in Collections
    BY DEF Good, Sound, Managers
  <2>2. m.coll[o].kind = "elsewhere"
    BY <1>2 DEF Good, Sound, OwnerOk
  <2>3. /\ c \in Collections /\ c.kind \in {"pristine", "addedRemoved"}
        /\ c.added = m.coll[o].added /\ c.removed = m.coll[o].removed
        /\ c.kind = "pristine" => c.added = {} /\ c.removed = {}
    <3>1. CASE m.coll[o] = Elsewhere
      BY <3>1 DEF Elsewhere, Pristine, Collection, Collections, Kinds
    <3>2. CASE m.coll[o] # Elsewhere
      BY <2>1, <3>2 DEF Collections, Kinds
    <3> QED BY <3>1, <3>2
  <2>4. n = [m EXCEPT !.mem = m.mem \cup {o}, !.coll = [m.coll EXCEPT ![o] = c]]
    BY <1>2, <2>1 DEF LoadOwner, Managers
  <2> HIDE DEF c, n
  <2>5. n \in Managers
    <3>1. [m.coll EXCEPT ![o] = c] \in [Owner -> Collections] /\ m.mem \cup {o} \in SUBSET (Owner \cup Child)
      BY <2>1, <2>3 DEF Managers
    <3>2. \A C \in [Owner -> Collections], M \in SUBSET (Owner \cup Child) :
            [m EXCEPT !.mem = M, !.coll = C] \in Managers
      BY <2>1 DEF Managers
    <3> QED BY <2>4, <3>1, <3>2
  <2>6. /\ n.mem = m.mem \cup {o} /\ n.gone = m.gone /\ n.deletes = m.deletes
        /\ n.fk = m.fk /\ n.ref = m.ref /\ n.cache = m.cache /\ n.preloaded = m.preloaded
        /\ n.pendingLoads = m.pendingLoads /\ n.coll = [m.coll EXCEPT ![o] = c]
    BY <2>1, <2>4 DEF Managers
  <2>7. n.coll[o] = c /\ \A p \in Owner \ {o} : n.coll[p] = m.coll[p]
    BY <2>1, <2>6 DEF Managers
  <2>8. \A b \in Child : (b \in n.mem <=> b \in m.mem) /\ Held(n, R, b) = Held(m, R, b)
    BY <2>6, OneToManyAssumption DEF Held
  <2>9. ASSUME NEW b \in Child
        PROVE  ChildOk(n, R, Ow, b)
    <3>1. ChildOk(m, R, Ow, b)
      BY DEF Good, Sound
    <3> QED BY <2>6, <2>8, <3>1 DEF ChildOk
  <2>10. ASSUME NEW p \in Owner
         PROVE  OwnerOk(n, p)
    <3>1. OwnerOk(m, p)
      BY DEF Good, Sound
    <3>2. CASE p = o
      BY <1>2, <2>3, <2>6, <2>7, <3>1, <3>2 DEF OwnerOk
    <3>3. CASE p # o
      BY <2>6, <2>7, <3>1, <3>3 DEF OwnerOk, Visible
    <3> QED BY <3>2, <3>3
  <2>11. ASSUME NEW p \in Owner, NEW b \in Child
         PROVE  PairOk(n, R, p, b) /\ \A q : FoundOk(m, R, p, q, b) => FoundOk(n, R, p, q, b)
    <3>1. PairOk(m, R, p, b)
      BY DEF Good, Sound
    <3>2. CASE p = o
      BY <2>2, <2>3, <2>6, <2>7, <2>8, <3>1, <3>2 DEF PairOk, FoundOk
    <3>3. CASE p # o
      BY <2>6, <2>7, <2>8, <3>1, <3>3 DEF PairOk, FoundOk
    <3> QED BY <3>2, <3>3
  <2>12. Sound(n, R, Ow)
    BY <2>1, <2>5, <2>6, <2>9, <2>10, <2>11 DEF Sound
  <2>13. Founds(n, R)
    BY <2>6, <2>11 DEF Good, Founds, Answers
  <2>14. \A p \in Owner : IsSet(n.coll[p]) <=> IsSet(m.coll[p])
    BY <2>2, <2>3, <2>7 DEF IsSet
  <2>15. Wants(n, R, w)
    <3> SUFFICES ASSUME NEW b \in Child
                 PROVE  w[b] = WantedOf(n, R, b)
      BY DEF Wants
    <3>1. w[b] = WantedOf(m, R, b)
      BY DEF Good, Wants
    <3>2. LetGo(n, R, b) <=> LetGo(m, R, b)
      BY <2>2, <2>3, <2>6, <2>7, <2>8 DEF LetGo
    <3> QED BY <2>6, <2>8, <3>1, <3>2 DEF WantedOf
  <2> QED BY <2>6, <2>8, <2>12, <2>13, <2>14, <2>15 DEF n, Settles, Good
<1> QED BY <1>1, <1>2

\* The rows f of S that come to memory are those of the database.
RowsToHydrate(m, S, f, R) == \A b \in S \ m.mem : f[b] = R[b] /\ R[b] \in Owner \cup {None}

\* So do children; those that are in memory already are not overwritten.
LEMMA HydrateSettles ==
  ASSUME NEW m, NEW S \in SUBSET Child, NEW f, NEW R, NEW Ow, NEW w, Good(m, R, Ow, w),
         RowsToHydrate(m, S, f, R)
  PROVE  LET n == Hydrate(m, S, f)
         IN /\ Settles(m, n, R, Ow, w) /\ n.mem = m.mem \cup S /\ n.coll = m.coll
            /\ n.ref = m.ref /\ n.cache = m.cache
<1> DEFINE n == Hydrate(m, S, f)
           g == [b \in Child |-> IF b \in S \ m.mem THEN f[b] ELSE m.fk[b]]
<1>1. m \in Managers /\ m.deletes \subseteq m.gone /\ m.gone \subseteq m.mem
  BY DEF Good, Sound
<1>2. n = [m EXCEPT !.mem = m.mem \cup S, !.fk = g]
  BY <1>1 DEF Hydrate, Managers
<1>3. g \in [Child -> Owner \cup {None}]
  BY <1>1 DEF Managers, RowsToHydrate
<1>4. \A b \in Child : g[b] = IF b \in S \ m.mem THEN R[b] ELSE m.fk[b]
  BY DEF RowsToHydrate
<1> HIDE DEF g, n
<1>5. n \in Managers
  <2>1. \A h \in [Child -> Owner \cup {None}], M \in SUBSET (Owner \cup Child) :
          [m EXCEPT !.mem = M, !.fk = h] \in Managers
    BY <1>1 DEF Managers
  <2>2. m.mem \cup S \in SUBSET (Owner \cup Child)
    BY <1>1 DEF Managers
  <2> QED BY <1>2, <1>3, <2>1, <2>2
<1>6. /\ n.mem = m.mem \cup S /\ n.gone = m.gone /\ n.deletes = m.deletes
      /\ n.fk = g /\ n.ref = m.ref /\ n.coll = m.coll /\ n.cache = m.cache
      /\ n.preloaded = m.preloaded /\ n.pendingLoads = m.pendingLoads
  BY <1>1, <1>2 DEF Managers
<1>7. \A b \in Child : Held(n, R, b) = Held(m, R, b)
  BY <1>4, <1>6 DEF Held
<1>8. ASSUME NEW b \in Child
      PROVE  ChildOk(n, R, Ow, b)
  <2>1. ChildOk(m, R, Ow, b)
    BY DEF Good, Sound
  <2>2. CASE b \in m.mem
    BY <1>4, <1>6, <1>7, <2>1, <2>2 DEF ChildOk
  <2>3. CASE b \notin m.mem
    BY <1>1, <1>4, <1>6, <1>7, <2>1, <2>3 DEF ChildOk, RowsToHydrate
  <2> QED BY <2>2, <2>3
<1>9. ASSUME NEW p \in Owner
      PROVE  OwnerOk(n, p)
  <2>1. OwnerOk(m, p) /\ p \notin S
    BY OneToManyAssumption DEF Good, Sound
  <2> QED BY <1>6, <2>1 DEF OwnerOk, Visible
<1>10. ASSUME NEW p \in Owner, NEW b \in Child
       PROVE  PairOk(n, R, p, b) /\ \A q : FoundOk(m, R, p, q, b) => FoundOk(n, R, p, q, b)
  <2>1. PairOk(m, R, p, b)
    BY DEF Good, Sound
  <2>2. CASE b \in m.mem
    BY <1>4, <1>6, <1>7, <2>1, <2>2 DEF PairOk, FoundOk
  <2>3. CASE b \notin m.mem
    BY <1>4, <1>6, <1>7, <2>1, <2>3 DEF PairOk, FoundOk
  <2> QED BY <2>2, <2>3
<1>11. Sound(n, R, Ow)
  BY <1>1, <1>5, <1>6, <1>8, <1>9, <1>10 DEF Sound
<1>12. Founds(n, R)
  BY <1>6, <1>10 DEF Good, Founds, Answers
<1>13. Wants(n, R, w)
  BY <1>6, <1>7 DEF Good, Wants, WantedOf, LetGo
<1> QED BY <1>6, <1>7, <1>11, <1>12, <1>13 DEF n, Settles, Good

----------------------------------------------------------------------------
(* Loads of a collection. *)

\* A collection takes the answer of its query, which may be older than the collection's edits.
LEMMA ApplyLoadSettles ==
  ASSUME NEW m, NEW o \in Owner, NEW q \in SUBSET Child, NEW R, NEW Ow, NEW w, Good(m, R, Ow, w),
         o \in m.mem, Answers(m, R, o, q), o \in m.gone \/ m.preloaded[o] \in {NotAsked, q}
  PROVE  /\ Settles(m, ApplyLoad(m, o, q), R, Ow, w)
         /\ ApplyLoad(m, o, q).coll[o].kind = "loaded"
<1> DEFINE c == m.coll[o]
           T == q \ c.members
           unset == SetAll(m, T, None)
           k == IF c.kind = "pendingSet" THEN unset ELSE m
           d == CASE c.kind = "pristine" -> Collection("loaded", q)
                  [] c.kind \in {"addedRemoved", "loaded"} ->
                       [c EXCEPT !.kind = "loaded", !.members = Merged(c, q)]
                  [] c.kind = "pendingSet" ->
                       [kind |-> "loaded", members |-> c.members,
                        added |-> c.members \ q, removed |-> q \ c.members]
           n == ApplyLoad(m, o, q)
<1>1. m \in Managers /\ c \in Collections /\ None \notin Owner
  BY OneToManyAssumption DEF Good, Sound, Managers
<1>2. c.kind \in {"pristine", "addedRemoved", "pendingSet", "loaded"}
  <2>1. c.kind \in Kinds /\ c.kind # "elsewhere"
    BY <1>1 DEF Good, Sound, OwnerOk, Collections
  <2> QED BY <2>1 DEF Kinds
<1>3. \A b \in Child : PairOk(m, R, o, b) /\ FoundOk(m, R, o, q, b)
  BY DEF Good, Sound, Answers
<1>4. ASSUME IsSet(c)
      PROVE  Moves(m, unset, T, None, R, Ow) /\ Settles(m, unset, R, Ow, w)
  <2>1. \A b \in T : b \in m.mem /\ (m.fk[b] = o \/ m.fk[b] = None)
    BY <1>3, <1>4 DEF FoundOk, IsSet
  <2>2. \A b \in T : Movable(m, Ow, b, None)
    BY <1>1, <2>1 DEF Movable
  <2>3. Moves(m, unset, T, None, R, Ow)
    BY <2>2, SetAllMoves DEF Good
  <2>4. \A b \in T : b \in m.gone \/ LetGo(m, R, b) \/ Held(m, R, b) = None
    BY <1>4, <2>1 DEF LetGo, Held, IsSet
  <2>5. T \subseteq m.mem /\ T \in SUBSET Child
    BY <2>1
  <2> HIDE DEF unset, T, c
  <2> QED BY <2>3, <2>4, <2>5, LeavingSettles
<1> HIDE DEF unset
<1>5. /\ Settles(m, k, R, Ow, w) /\ k.mem = m.mem
      /\ \A b \in Child : k.fk[b] = IF IsSet(c) /\ b \in T THEN None ELSE m.fk[b]
      /\ IsSet(k.coll[o]) <=> IsSet(c)
      /\ IsSet(c) => \A b \in Child \ T : b \in k.coll[o].members <=> b \in c.members
  <2>1. CASE IsSet(c)
    BY <1>4, <2>1 DEF Moves, SameElse, SameKinds, IsSet
  <2>2. CASE ~IsSet(c)
    BY <2>2, SettlesNothing DEF IsSet
  <2> QED BY <2>1, <2>2
<1>6. n = CollectionSet(k, o, d, k.mutated, k.pendingLoads)
  <2>1. k \in Managers
    BY <1>5 DEF Settles, Good, Sound
  <2>2. n = [k EXCEPT !.cache[o] = NoCache, !.coll[o] = d]
    BY DEF ApplyLoad, unset
  <2> HIDE DEF k, d, n
  <2> QED BY <2>1, <2>2 DEF CollectionSet, Managers
<1>7. /\ d \in Collections /\ d.kind = "loaded"
      /\ c.kind = "pristine" => d.members = q /\ d.added = {} /\ d.removed = {}
      /\ c.kind \in {"addedRemoved", "loaded"} =>
           d.members = (q \cup c.added) \ c.removed /\ d.added = c.added /\ d.removed = c.removed
      /\ c.kind = "pendingSet" =>
           d.members = c.members /\ d.added = c.members \ q /\ d.removed = q \ c.members
  <2> HIDE DEF c
  <2>1. CASE c.kind = "pristine"
    BY <1>1, <2>1 DEF Collection, Collections, Kinds
  <2>2. CASE c.kind \in {"addedRemoved", "loaded"}
    BY <1>1, <2>2 DEF Merged, Collections, Kinds
  <2>3. CASE c.kind = "pendingSet"
    BY <1>1, <2>3 DEF Collections, Kinds
  <2> QED BY <1>2, <2>1, <2>2, <2>3
<1> HIDE DEF k, d, n
<1>8. k \in Managers /\ k.mutated \in SUBSET Owner /\ k.pendingLoads \in SUBSET Owner
  BY <1>5 DEF Settles, Good, Sound, Managers
<1>9. /\ n \in Managers
      /\ n.mem = k.mem /\ n.gone = k.gone /\ n.deletes = k.deletes /\ n.preloaded = k.preloaded
      /\ n.fk = k.fk /\ n.ref = k.ref /\ n.pendingLoads = k.pendingLoads
      /\ n.coll[o] = d /\ n.cache[o] = NoCache /\ OthersAt(k, n, o)
  BY <1>6, <1>7, <1>8, ManagerSet
<1>10. \A b \in Child : Held(n, R, b) = Held(k, R, b)
  BY <1>9 DEF Held
<1>11. ASSUME NEW b \in Child
       PROVE  /\ PairOk(n, R, o, b) /\ FoundOk(n, R, o, q, b)
              /\ IsSet(c) /\ Held(n, R, b) = o => b \in c.members /\ b \notin T
  <2>1. /\ PairOk(m, R, o, b) /\ FoundOk(m, R, o, q, b)
        /\ n.fk[b] = IF IsSet(c) /\ b \in T THEN None ELSE m.fk[b]
        /\ (b \in n.mem <=> b \in m.mem) /\ n.coll[o] = d
    BY <1>3, <1>5, <1>9
  <2>2. CASE c.kind = "pristine"
    BY <1>1, <1>7, <2>1, <2>2 DEF PairOk, FoundOk, Held, IsSet
  <2>3. CASE c.kind \in {"addedRemoved", "loaded"}
    BY <1>1, <1>7, <2>1, <2>3 DEF PairOk, FoundOk, Held, IsSet
  <2>4. CASE c.kind = "pendingSet"
    BY <1>1, <1>7, <2>1, <2>4 DEF PairOk, FoundOk, Held, IsSet
  <2> QED BY <1>2, <2>2, <2>3, <2>4
<1>12. Good(k, R, Ow, w)
  BY <1>5 DEF Settles
<1>13. Sound(n, R, Ow)
  <2>1. ASSUME NEW b \in Child
        PROVE  ChildOk(n, R, Ow, b)
    <3>1. ChildOk(k, R, Ow, b)
      BY <1>12 DEF Good, Sound
    <3> QED BY <1>9, <1>10, <3>1 DEF ChildOk
  <2>2. ASSUME NEW p \in Owner
        PROVE  OwnerOk(n, p)
    <3>1. OwnerOk(k, p)
      BY <1>12 DEF Good, Sound
    <3>2. CASE p = o
      BY <1>5, <1>7, <1>9, <3>2 DEF OwnerOk
    <3>3. CASE p # o
      BY <1>9, <3>1, <3>3 DEF OwnerOk, Visible, OthersAt
    <3> QED BY <3>2, <3>3
  <2>3. ASSUME NEW p \in Owner, NEW b \in Child
        PROVE  PairOk(n, R, p, b)
    <3>1. CASE p = o
      BY <1>11, <3>1
    <3>2. CASE p # o
      <4>1. PairOk(k, R, p, b) /\ n.coll[p] = k.coll[p]
        BY <1>9, <1>12, <3>2 DEF Good, Sound, OthersAt
      <4> QED BY <1>9, <1>10, <4>1 DEF PairOk
    <3> QED BY <3>1, <3>2
  <2>4. n.deletes \subseteq n.gone /\ n.gone \subseteq n.mem
    BY <1>9, <1>12 DEF Good, Sound
  <2> QED BY <1>9, <2>1, <2>2, <2>3, <2>4 DEF Sound
<1>14. Founds(n, R)
  <2> SUFFICES ASSUME NEW p \in Owner \ n.gone, n.preloaded[p] # NotAsked
               PROVE  Answers(n, R, p, n.preloaded[p])
    BY DEF Founds
  <2>1. CASE p = o
    <3>1. n.preloaded[o] = q
      BY <1>5, <1>9, <2>1 DEF Settles
    <3> QED BY <1>11, <2>1, <3>1 DEF Answers
  <2>2. CASE p # o
    <3>1. Answers(k, R, p, n.preloaded[p])
      BY <1>9, <1>12 DEF Good, Founds
    <3>2. n.coll[p] = k.coll[p]
      BY <1>9, <2>2 DEF OthersAt
    <3> QED BY <1>9, <3>1, <3>2 DEF Answers, FoundOk
  <2> QED BY <2>1, <2>2
<1>15. Wants(n, R, w)
  <2> SUFFICES ASSUME NEW b \in Child
               PROVE  w[b] = WantedOf(n, R, b)
    BY DEF Wants
  <2>1. w[b] = WantedOf(k, R, b) /\ Held(n, R, b) = Held(k, R, b) /\ n.gone = k.gone
    BY <1>9, <1>10, <1>12 DEF Good, Wants
  <2>2. LetGo(n, R, b) <=> LetGo(k, R, b)
    <3>1. CASE Held(n, R, b) = o
      <4>1. ~IsSet(n.coll[o]) /\ (IsSet(k.coll[o]) => b \in k.coll[o].members)
        BY <1>5, <1>7, <1>9, <1>11, <3>1 DEF IsSet
      <4> QED BY <2>1, <3>1, <4>1 DEF LetGo, IsSet
    <3>2. CASE Held(n, R, b) # o
      BY <1>9, <2>1, <3>2 DEF LetGo, OthersAt
    <3> QED BY <3>1, <3>2
  <2> QED BY <2>1, <2>2 DEF WantedOf
<1>16. Settles(k, n, R, Ow, w)
  <2>1. \A p \in Owner : IsSet(n.coll[p]) => IsSet(k.coll[p])
    BY <1>7, <1>9 DEF OthersAt, IsSet
  <2> QED BY <1>9, <1>10, <1>13, <1>14, <1>15, <2>1 DEF Settles, Good
<1> QED BY <1>5, <1>7, <1>9, <1>16, SettlesTwice DEF n

\* The answer of a query is right when its children come to memory.
LEMMA FoundAnswers ==
  ASSUME NEW m, NEW o \in Owner, RowsOf(o) \subseteq m.mem
  PROVE  Answers(m, rows, o, Found(m, o, RowsOf(o))) /\ Found(m, o, RowsOf(o)) \in SUBSET Child
BY DEF Answers, FoundOk, Found, RowsOf

----------------------------------------------------------------------------
(* What a flush makes of deletions. *)

\* A deleted owner's collection is loaded, and its children let go of.
LEMMA CleanedOwnerSettles ==
  ASSUME NEW m, NEW o \in Owner, NEW w, Good(m, rows, owners, w), o \in m.gone
  PROVE  /\ Settles(m, CleanedOwner(m, o), rows, owners, w)
         /\ \A b \in Child : Held(CleanedOwner(m, o), rows, b) # o
<1> DEFINE here == Hydrate(m, RowsOf(o), rows)
           all == IF m.coll[o].kind = "loaded" THEN here ELSE ApplyLoad(here, o, Found(here, o, RowsOf(o)))
           T == {b \in all.coll[o].members : all.fk[b] = o}
           k == SetAll(all, T, None)
           c == Collection("loaded", {})
           n == CleanedOwner(m, o)
<1>1. RowsOf(o) \in SUBSET Child /\ None \notin Owner
  BY OneToManyAssumption DEF RowsOf
<1>2. Settles(m, here, rows, owners, w) /\ here.mem = m.mem \cup RowsOf(o) /\ here.coll = m.coll
  <2>1. RowsToHydrate(m, RowsOf(o), rows, rows)
    BY DEF RowsOf, RowsToHydrate
  <2> QED BY <1>1, <2>1, HydrateSettles
<1> HIDE DEF here
<1>3. Good(here, rows, owners, w) /\ here.gone = m.gone /\ o \in here.mem
  BY <1>2 DEF Settles, Good, Sound
<1>4. Settles(here, all, rows, owners, w) /\ all.coll[o].kind = "loaded"
  <2>1. CASE m.coll[o].kind = "loaded"
    BY <1>2, <1>3, <2>1, SettlesNothing
  <2>2. CASE m.coll[o].kind # "loaded"
    <3>1. Answers(here, rows, o, Found(here, o, RowsOf(o))) /\ Found(here, o, RowsOf(o)) \in SUBSET Child
      BY <1>2, FoundAnswers
    <3> QED BY <1>3, <2>2, <3>1, ApplyLoadSettles
  <2> QED BY <2>1, <2>2
<1> HIDE DEF all
<1>5. Good(all, rows, owners, w) /\ all.gone = m.gone /\ o \in all.mem
  BY <1>3, <1>4 DEF Settles
<1>6. ASSUME NEW b \in Child
      PROVE  /\ b \in all.coll[o].members <=> Held(all, rows, b) = o
             /\ rows[b] = o => b \in all.mem
             /\ Held(all, rows, b) = o => b \in all.mem
  BY <1>4, <1>5 DEF Good, Sound, PairOk, Held
<1>7. T \in SUBSET Child /\ T \subseteq all.mem
      /\ \A b \in Child : b \in T <=> Held(all, rows, b) = o
  <2>1. all.coll[o].members \subseteq Child
    BY <1>5 DEF Good, Sound, Managers, Collections
  <2>2. \A b \in Child : b \in T <=> Held(all, rows, b) = o
    BY <1>6 DEF Held
  <2> QED BY <1>6, <2>1, <2>2
<1> HIDE DEF T
<1>8. Moves(all, k, T, None, rows, owners)
  <2>1. \A b \in T : Movable(all, owners, b, None)
    BY <1>1, <1>7 DEF Movable
  <2> QED BY <1>5, <1>7, <2>1, SetAllMoves DEF Good
<1>9. Settles(all, k, rows, owners, w)
  <2>1. \A b \in T : LetGo(all, rows, b)
    BY <1>5, <1>7 DEF LetGo
  <2> HIDE DEF k
  <2> QED BY <1>5, <1>7, <1>8, <2>1, LeavingSettles
<1> HIDE DEF k
<1>10. ASSUME NEW b \in Child
       PROVE  Held(k, rows, b) # o /\ (rows[b] = o => b \in k.mem)
  <2>1. k.mem = all.mem /\ k.fk[b] = IF b \in T THEN None ELSE all.fk[b]
    BY <1>8 DEF Moves, SameElse
  <2> QED BY <1>1, <1>6, <1>7, <2>1 DEF Held
<1>11. n = CollectionSet(k, o, c, k.mutated, k.pendingLoads) /\ k \in Managers
  <2>1. k \in Managers
    BY <1>9 DEF Settles, Good, Sound
  <2>2. n = [k EXCEPT !.coll[o] = c, !.cache[o] = NoCache]
    BY DEF CleanedOwner, k, T, all, here
  <2> HIDE DEF c, n
  <2> QED BY <2>1, <2>2 DEF CollectionSet, Managers
<1> HIDE DEF n
<1>12. c \in Collections /\ c.kind = "loaded" /\ c.members = {} /\ c.added = {} /\ c.removed = {}
  BY DEF Collection, Collections, Kinds
<1> HIDE DEF c
<1>13. /\ n \in Managers
       /\ n.mem = k.mem /\ n.gone = k.gone /\ n.deletes = k.deletes /\ n.preloaded = k.preloaded
       /\ n.fk = k.fk /\ n.ref = k.ref /\ n.pendingLoads = k.pendingLoads
       /\ n.coll[o] = c /\ n.cache[o] = NoCache /\ OthersAt(k, n, o)
  <2>1. k.mutated \in SUBSET Owner /\ k.pendingLoads \in SUBSET Owner
    BY <1>11 DEF Managers
  <2> QED BY <1>11, <1>12, <2>1, ManagerSet
<1>14. \A b \in Child : Held(n, rows, b) = Held(k, rows, b)
  BY <1>13 DEF Held
<1>15. Good(k, rows, owners, w) /\ k.gone = m.gone /\ o \in k.mem
  BY <1>5, <1>9 DEF Settles
<1>16. Sound(n, rows, owners)
  <2>1. ASSUME NEW b \in Child
        PROVE  ChildOk(n, rows, owners, b)
    <3>1. ChildOk(k, rows, owners, b)
      BY <1>15 DEF Good, Sound
    <3> QED BY <1>13, <1>14, <3>1 DEF ChildOk
  <2>2. ASSUME NEW p \in Owner
        PROVE  OwnerOk(n, p)
    <3>1. OwnerOk(k, p)
      BY <1>15 DEF Good, Sound
    <3>2. CASE p = o
      BY <1>12, <1>13, <1>15, <3>2 DEF OwnerOk
    <3>3. CASE p # o
      BY <1>13, <3>1, <3>3 DEF OwnerOk, Visible, OthersAt
    <3> QED BY <3>2, <3>3
  <2>3. ASSUME NEW p \in Owner, NEW b \in Child
        PROVE  PairOk(n, rows, p, b)
    <3>1. CASE p = o
      BY <1>10, <1>12, <1>13, <1>14, <3>1 DEF PairOk
    <3>2. CASE p # o
      <4>1. PairOk(k, rows, p, b) /\ n.coll[p] = k.coll[p]
        BY <1>13, <1>15, <3>2 DEF Good, Sound, OthersAt
      <4> QED BY <1>13, <1>14, <4>1 DEF PairOk
    <3> QED BY <3>1, <3>2
  <2>4. n.deletes \subseteq n.gone /\ n.gone \subseteq n.mem
    BY <1>13, <1>15 DEF Good, Sound
  <2> QED BY <1>13, <2>1, <2>2, <2>3, <2>4 DEF Sound
<1>17. Founds(n, rows)
  <2> SUFFICES ASSUME NEW p \in Owner \ n.gone, n.preloaded[p] # NotAsked
               PROVE  Answers(n, rows, p, n.preloaded[p])
    BY DEF Founds
  <2>1. p # o
    BY <1>13, <1>15
  <2>2. Answers(k, rows, p, n.preloaded[p]) /\ n.coll[p] = k.coll[p]
    BY <1>13, <1>15, <2>1 DEF Good, Founds, OthersAt
  <2> QED BY <1>13, <2>2 DEF Answers, FoundOk
<1>18. Wants(n, rows, w)
  <2> SUFFICES ASSUME NEW b \in Child
               PROVE  w[b] = WantedOf(n, rows, b)
    BY DEF Wants
  <2>1. w[b] = WantedOf(k, rows, b) /\ Held(n, rows, b) = Held(k, rows, b) /\ n.gone = k.gone
        /\ Held(k, rows, b) # o
    BY <1>10, <1>13, <1>14, <1>15 DEF Good, Wants
  <2>2. LetGo(n, rows, b) <=> LetGo(k, rows, b)
    BY <1>13, <2>1 DEF LetGo, OthersAt
  <2> QED BY <2>1, <2>2 DEF WantedOf
<1>19. Settles(k, n, rows, owners, w)
  <2>1. \A p \in Owner : IsSet(n.coll[p]) => IsSet(k.coll[p])
    BY <1>12, <1>13 DEF OthersAt, IsSet
  <2> QED BY <1>13, <1>14, <1>16, <1>17, <1>18, <2>1 DEF Settles, Good
<1>20. Settles(m, n, rows, owners, w)
  <2>1. Settles(m, all, rows, owners, w)
    BY <1>2, <1>4, SettlesTwice
  <2>2. Settles(m, k, rows, owners, w)
    BY <1>9, <2>1, SettlesTwice
  <2> QED BY <1>19, <2>2, SettlesTwice
<1> QED BY <1>10, <1>14, <1>20 DEF n

\* A deleted child lets go of its owner.
LEMMA CleanedChildSettles ==
  ASSUME NEW m, NEW b \in Child, NEW w, Good(m, rows, owners, w), b \in m.gone
  PROVE  Settles(m, CleanedChild(m, b), rows, owners, w) /\ CleanedChild(m, b).fk[b] = None
<1>1. CASE m.fk[b] = None
  BY <1>1, SettlesNothing DEF CleanedChild
<1>2. CASE m.fk[b] # None
  <2> DEFINE o == m.fk[b]
             k == LoadOwner(m, o)
             n == RemoveFrom(k, o, b)
  <2>1. o \in Owner /\ CleanedChild(m, b) = n
    BY <1>2 DEF Good, Sound, Managers, CleanedChild
  <2>2. Settles(m, k, rows, owners, w)
    BY <2>1, LoadOwnerSettles
  <2>3. b \in k.mem /\ b \in k.gone /\ Good(k, rows, owners, w)
    BY <2>2 DEF Settles, Good, Sound
  <2> HIDE DEF k
  <2>4. Moves(k, n, {b}, None, rows, owners)
    BY <2>1, <2>3, RemoveFromMoves DEF Good
  <2> HIDE DEF n
  <2>5. Settles(k, n, rows, owners, w)
    BY <2>3, <2>4, LeavingSettles
  <2>6. n.fk[b] = None
    BY <2>4 DEF Moves
  <2> QED BY <2>1, <2>2, <2>5, <2>6, SettlesTwice
<1> QED BY <1>1, <1>2

\* All of them are, one at a time.
OwnerStep(c, o, n) == CleanedOwner(n, o)
ChildStep(c, b, n) == CleanedChild(n, b)
OwnersSettle(c, n, T) ==
  Settles(c.m, n, rows, owners, c.w) /\ \A o \in T, b \in Child : Held(n, rows, b) # o
ChildrenSettle(c, n, T) == Settles(c.m, n, rows, owners, c.w) /\ \A b \in T : n.fk[b] = None
OwnerFold == INSTANCE FoldInduction WITH Op <- OwnerStep, Pick <- AnyOf, P <- OwnersSettle
ChildFold == INSTANCE FoldInduction WITH Op <- ChildStep, Pick <- AnyOf, P <- ChildrenSettle

LEMMA CleanedOwnersSettle ==
  ASSUME NEW m, NEW S \in SUBSET Owner, NEW w, Good(m, rows, owners, w), S \subseteq m.gone
  PROVE  LET n == FoldSet(LAMBDA o, k : CleanedOwner(k, o), m, S)
         IN Settles(m, n, rows, owners, w) /\ \A o \in S, b \in Child : Held(n, rows, b) # o
<1> DEFINE c == [m |-> m, w |-> w]
<1>1. OwnerFold!IsFiniteSet(S)
  <2>1. IsFiniteSet(S)
    BY OneToManyAssumption, FS_Subset
  <2> QED BY <2>1 DEF IsFiniteSet, OwnerFold!IsFiniteSet
<1>2. FoldSet(LAMBDA o, k : CleanedOwner(k, o), m, S) = OwnerFold!Fold(c, m, S)
  BY DEF FoldSet, MapThenFoldSet, OwnerFold!Fold, OwnerStep, AnyOf
<1>3. OwnersSettle(c, m, {})
  BY SettlesNothing DEF OwnersSettle
<1>4. \A T \in SUBSET S, x \in S : \A a :
        x \notin T /\ AnyOf(T \cup {x}) = x /\ OwnersSettle(c, a, T) => OwnersSettle(c, OwnerStep(c, x, a), T \cup {x})
  <2> SUFFICES ASSUME NEW T \in SUBSET S, NEW x \in S, NEW a, Settles(m, a, rows, owners, w),
                      \A o \in T, b \in Child : Held(a, rows, b) # o
               PROVE  /\ Settles(m, CleanedOwner(a, x), rows, owners, w)
                      /\ \A o \in T \cup {x}, b \in Child : Held(CleanedOwner(a, x), rows, b) # o
    BY DEF OwnersSettle, OwnerStep
  <2>1. Good(a, rows, owners, w) /\ x \in a.gone /\ x \in Owner
    BY DEF Settles
  <2>2. /\ Settles(a, CleanedOwner(a, x), rows, owners, w)
        /\ \A b \in Child : Held(CleanedOwner(a, x), rows, b) # x
    BY <2>1, CleanedOwnerSettles
  <2>3. Settles(m, CleanedOwner(a, x), rows, owners, w)
    BY <2>2, SettlesTwice
  <2>4. \A o \in T, b \in Child : Held(CleanedOwner(a, x), rows, b) # o
    BY <2>2, OneToManyAssumption DEF Settles
  <2> QED BY <2>2, <2>3, <2>4
<1>5. OwnersSettle(c, OwnerFold!Fold(c, m, S), S)
  <2> HIDE DEF c, OwnersSettle, OwnerStep
  <2> QED BY <1>1, <1>3, <1>4, AnyOfIn, OwnerFold!FoldInvariant
<1> QED BY <1>2, <1>5 DEF OwnersSettle

LEMMA CleanedChildrenSettle ==
  ASSUME NEW m, NEW S \in SUBSET Child, NEW w, Good(m, rows, owners, w), S \subseteq m.gone
  PROVE  LET n == FoldSet(LAMBDA b, k : CleanedChild(k, b), m, S)
         IN Settles(m, n, rows, owners, w) /\ \A b \in S : n.fk[b] = None
<1> DEFINE c == [m |-> m, w |-> w]
<1>1. ChildFold!IsFiniteSet(S)
  <2>1. IsFiniteSet(S)
    BY OneToManyAssumption, FS_Subset
  <2> QED BY <2>1 DEF IsFiniteSet, ChildFold!IsFiniteSet
<1>2. FoldSet(LAMBDA b, k : CleanedChild(k, b), m, S) = ChildFold!Fold(c, m, S)
  BY DEF FoldSet, MapThenFoldSet, ChildFold!Fold, ChildStep, AnyOf
<1>3. ChildrenSettle(c, m, {})
  BY SettlesNothing DEF ChildrenSettle
<1>4. \A T \in SUBSET S, x \in S : \A a :
        x \notin T /\ AnyOf(T \cup {x}) = x /\ ChildrenSettle(c, a, T) => ChildrenSettle(c, ChildStep(c, x, a), T \cup {x})
  <2> SUFFICES ASSUME NEW T \in SUBSET S, NEW x \in S, NEW a, Settles(m, a, rows, owners, w),
                      \A b \in T : a.fk[b] = None
               PROVE  /\ Settles(m, CleanedChild(a, x), rows, owners, w)
                      /\ \A b \in T \cup {x} : CleanedChild(a, x).fk[b] = None
    BY DEF ChildrenSettle, ChildStep
  <2>1. Good(a, rows, owners, w) /\ S \subseteq a.gone /\ x \in Child
    BY DEF Settles
  <2>2. Settles(a, CleanedChild(a, x), rows, owners, w) /\ CleanedChild(a, x).fk[x] = None
    BY <2>1, CleanedChildSettles
  <2>3. Settles(m, CleanedChild(a, x), rows, owners, w)
    BY <2>2, SettlesTwice
  <2>4. \A b \in T : CleanedChild(a, x).fk[b] = None
    <3>1. \A b \in T : b \in a.mem /\ b \in CleanedChild(a, x).mem /\ b \in Child
      BY <2>1, <2>2 DEF Settles, Good, Sound
    <3>2. \A b \in T : Held(a, rows, b) = None /\ Held(CleanedChild(a, x), rows, b) = CleanedChild(a, x).fk[b]
      BY <3>1 DEF Held
    <3> QED BY <2>2, <3>1, <3>2 DEF Settles
  <2> QED BY <2>2, <2>3, <2>4
<1>5. ChildrenSettle(c, ChildFold!Fold(c, m, S), S)
  <2> HIDE DEF c, ChildrenSettle, ChildStep
  <2> QED BY <1>1, <1>3, <1>4, AnyOfIn, ChildFold!FoldInvariant
<1> QED BY <1>2, <1>5 DEF ChildrenSettle

LEMMA CleanedUpGood ==
  ASSUME NEW m, NEW w, Good(m, rows, owners, w), rows \in [Child -> Owner \cup {None, NoRow}]
  PROVE  LET n == CleanedUp(m)
         IN /\ Good(n, rows, owners, w) /\ n.deletes = {} /\ m.mem \subseteq n.mem
            /\ n.pendingLoads = m.pendingLoads
            /\ \A p \in Owner : IsSet(n.coll[p]) => IsSet(m.coll[p])
<1> DEFINE a == FoldSet(LAMBDA o, n : CleanedOwner(n, o), m, m.deletes \cap Owner)
           k == FoldSet(LAMBDA b, n : CleanedChild(n, b), a, m.deletes \cap Child)
           n == CleanedUp(m)
<1>1. n = [k EXCEPT !.deletes = {}]
  BY DEF CleanedUp
<1>2. m.deletes \subseteq m.gone /\ m.deletes \subseteq Owner \cup Child
  BY DEF Good, Sound, Managers
<1>3. Settles(m, a, rows, owners, w) /\ \A o \in m.deletes \cap Owner, b \in Child : Held(a, rows, b) # o
  <2>1. m.deletes \cap Owner \in SUBSET Owner /\ m.deletes \cap Owner \subseteq m.gone
    BY <1>2
  <2> QED BY <2>1, CleanedOwnersSettle
<1> HIDE DEF a
<1>4. Settles(a, k, rows, owners, w) /\ \A b \in m.deletes \cap Child : k.fk[b] = None
  <2>1. m.deletes \cap Child \in SUBSET Child /\ m.deletes \cap Child \subseteq a.gone
    BY <1>2, <1>3 DEF Settles
  <2>2. Good(a, rows, owners, w)
    BY <1>3 DEF Settles
  <2> QED BY <2>1, <2>2, CleanedChildrenSettle
<1> HIDE DEF k, n
<1>5. Settles(m, k, rows, owners, w) /\ Good(k, rows, owners, w) /\ k.deletes = m.deletes
  BY <1>3, <1>4, SettlesTwice DEF Settles
<1>6. /\ n \in Managers
      /\ n.deletes = {} /\ n.mem = k.mem /\ n.gone = k.gone /\ n.fk = k.fk /\ n.ref = k.ref
      /\ n.coll = k.coll /\ n.cache = k.cache /\ n.preloaded = k.preloaded
      /\ n.pendingLoads = k.pendingLoads
  <2>1. k \in Managers
    BY <1>5 DEF Good, Sound
  <2>2. n \in Managers
    BY <1>1, <2>1 DEF Managers
  <2> QED BY <1>1, <2>1, <2>2 DEF Managers
<1>7. \A b \in Child : Held(n, rows, b) = Held(k, rows, b)
  BY <1>6 DEF Held
<1>8. ASSUME NEW b \in Child
      PROVE  Held(k, rows, b) \notin k.gone
  <2>1. Held(k, rows, b) \notin k.gone \ m.deletes /\ Held(k, rows, b) \in Owner \cup {None, NoRow}
    BY <1>5 DEF Good, Sound, ChildOk, Held, Managers
  <2>2. None \notin m.deletes /\ NoRow \notin m.deletes
    BY <1>2, OneToManyAssumption
  <2>3. Held(k, rows, b) \in m.deletes \cap Owner => Held(a, rows, b) = Held(k, rows, b)
    BY <1>4, <2>2 DEF Settles
  <2> QED BY <1>3, <2>1, <2>2, <2>3
<1>9. ASSUME NEW b \in Child
      PROVE  ChildOk(n, rows, owners, b)
  <2>1. ChildOk(k, rows, owners, b)
    BY <1>5 DEF Good, Sound
  <2>2. b \in n.gone => n.fk[b] = None
    BY <1>4, <1>5, <1>6, <2>1 DEF ChildOk
  <2> QED BY <1>6, <1>7, <1>8, <2>1, <2>2 DEF ChildOk
<1>10. Sound(n, rows, owners)
  <2>1. \A o \in Owner : OwnerOk(n, o)
    BY <1>5, <1>6 DEF Good, Sound, OwnerOk, Visible
  <2>2. \A o \in Owner, b \in Child : PairOk(n, rows, o, b)
    BY <1>5, <1>6, <1>7 DEF Good, Sound, PairOk
  <2>3. n.gone \subseteq n.mem
    BY <1>5, <1>6 DEF Good, Sound
  <2> QED BY <1>6, <1>9, <2>1, <2>2, <2>3 DEF Sound
<1>11. Founds(n, rows)
  BY <1>5, <1>6 DEF Good, Founds, Answers, FoundOk
<1>12. Wants(n, rows, w)
  BY <1>5, <1>6, <1>7 DEF Good, Wants, WantedOf, LetGo
<1> QED BY <1>5, <1>6, <1>10, <1>11, <1>12 DEF n, Good, Settles

----------------------------------------------------------------------------
(* The invariant is inductive. *)

LEMMA IInvGood == IInv <=> Good(em, rows, owners, wanted) /\ LoadsOk /\ RowsOk /\ PhaseOk
BY DEF IInv, Good

\* The rest of the invariant, when the manager grows.
LEMMA Grown ==
  ASSUME IInv, Good(em', rows', owners', wanted'), UNCHANGED <<dbVars, loadVars, pc, awaiting>>,
         wanted' \in [Child -> Owner \cup {None, NoRow}], em.mem \subseteq em'.mem,
         em.pendingLoads \subseteq em'.pendingLoads, pc = "write" => em'.deletes = {},
         \A o \in Owner : IsSet(em'.coll[o]) => IsSet(em.coll[o]) \/ (pc = "idle" /\ o \in em'.pendingLoads)
  PROVE  IInv'
<1>1. LoadsOk'
  BY DEF IInv, LoadsOk, RowsOf, dbVars, loadVars
<1>2. RowsOk'
  BY DEF IInv, RowsOk, dbVars
<1>3. PhaseOk'
  BY DEF IInv, PhaseOk, IsSet
<1> QED BY <1>1, <1>2, <1>3 DEF IInv, Good

LEMMA InitIInv ==
  ASSUME Init
  PROVE  IInv
<1>1. /\ em.mem = {} /\ em.gone = {} /\ em.deletes = {} /\ em.pendingLoads = {} /\ em.mutated = {}
      /\ em.fk = [b \in Child |-> None] /\ em.ref = [b \in Child |-> NotLoaded]
      /\ em.coll = [o \in Owner |-> Elsewhere] /\ em.preloaded = [o \in Owner |-> NotAsked]
      /\ em.cache = NoCaches
  BY DEF Init
<1>2. Elsewhere \in Collections /\ Elsewhere.kind = "elsewhere" /\ Elsewhere.added = {} /\ Elsewhere.removed = {}
  BY DEF Elsewhere, Collection, Collections, Kinds
<1>3. em \in Managers
  <2>1. em.coll \in [Owner -> Collections] /\ em.cache \in [Owner -> (SUBSET Child) \cup {NoCache}]
    BY <1>1, <1>2 DEF NoCaches
  <2>2. em = [mem |-> {}, gone |-> {}, deletes |-> {}, fk |-> [b \in Child |-> None],
              ref |-> [b \in Child |-> NotLoaded], coll |-> em.coll, mutated |-> {}, pendingLoads |-> {},
              preloaded |-> [o \in Owner |-> NotAsked], cache |-> em.cache]
    BY DEF Init
  <2> QED BY <2>1, <2>2 DEF Managers
<1>4. /\ rows \in [Child -> Owner \cup {None, NoRow}] /\ wanted = rows /\ owners \subseteq Owner
      /\ \A b \in Fresh : rows[b] = NoRow
      /\ \A b \in Child : rows[b] \in Owner => rows[b] \in owners
  <2>1. rows = [b \in Child |-> IF b \in Fresh THEN NoRow ELSE Stored[b]] /\ wanted = rows
    BY DEF Init
  <2>2. \A b \in Child \ Fresh : Stored[b] \in (Owner \ Unborn) \cup {None}
    BY OneToManyAssumption
  <2>3. PICK U \in SUBSET Unborn : owners = Owner \ U
    BY DEF Init
  <2>4. rows \in [Child -> Owner \cup {None, NoRow}]
    BY <2>1, <2>2
  <2>5. \A b \in Child : rows[b] \in Owner => rows[b] \in owners
    BY <2>1, <2>2, <2>3, OneToManyAssumption
  <2>6. \A b \in Fresh : rows[b] = NoRow
    BY <2>1, OneToManyAssumption
  <2> QED BY <2>1, <2>3, <2>4, <2>5, <2>6
<1>5. \A b \in Child : Held(em, rows, b) = rows[b]
  BY <1>1 DEF Held
<1>6. Sound(em, rows, owners)
  <2>1. \A b \in Child : ChildOk(em, rows, owners, b)
    BY <1>1, <1>4, <1>5 DEF ChildOk
  <2>2. \A o \in Owner : OwnerOk(em, o)
    BY <1>1, <1>2 DEF OwnerOk, NoCaches
  <2>3. \A o \in Owner, b \in Child : PairOk(em, rows, o, b)
    BY <1>1, <1>2, <1>5 DEF PairOk
  <2> QED BY <1>1, <1>3, <2>1, <2>2, <2>3 DEF Sound
<1>7. Founds(em, rows)
  BY <1>1 DEF Founds
<1>8. Wants(em, rows, wanted)
  BY <1>1, <1>2, <1>4, <1>5 DEF Wants, WantedOf, LetGo
<1>9. LoadsOk /\ PhaseOk
  BY <1>1, <1>2 DEF Init, LoadsOk, PhaseOk
<1>10. RowsOk
  BY <1>4 DEF RowsOk
<1> QED BY <1>6, <1>7, <1>8, <1>9, <1>10 DEF IInv

\* Every edit keeps the invariant.
LEMMA KeptInv ==
  ASSUME IInv, Good(em', rows', owners', wanted'), Keeps(em, em'), pc \in {"idle", "hooks"},
         UNCHANGED <<dbVars, loadVars, pc, awaiting>>, wanted' \in [Child -> Owner \cup {None, NoRow}],
         \A o \in Owner : IsSet(em'.coll[o]) => IsSet(em.coll[o]) \/ (pc = "idle" /\ o \in em'.pendingLoads)
  PROVE  IInv'
BY Grown DEF Keeps

LEMMA EditInv ==
  ASSUME Careful, IInv, Edit
  PROVE  IInv'
<1>1. /\ Good(em, rows, owners, wanted) /\ rows' = rows /\ owners' = owners
      /\ wanted \in [Child -> Owner \cup {None, NoRow}]
      /\ UNCHANGED <<dbVars, loadVars, pc, awaiting>> /\ pc \in {"idle", "hooks"}
  BY DEF Edit, IInv, Good, RowsOk, dbVars
<1>2. QuietAfter(em, em')
  BY DEF Edit, Careful, QuietAfter, IsSet
<1>3. /\ em \in Managers /\ em.gone \subseteq em.mem /\ owners \subseteq Owner
      /\ \A b \in Child : b \in Fresh /\ b \notin em.mem => rows[b] = NoRow
  BY DEF IInv, RowsOk, Sound
<1>4. ASSUME NEW b \in Child, NEW o \in Owner \cup {None}, Settable(o), Living(em, b), ~LeftBySet(b, o),
             em' = SetReference(em, b, o), wanted' = [wanted EXCEPT ![b] = o]
      PROVE  IInv'
  <2>1. Movable(em, owners, b, o) /\ b \notin em.gone
    BY <1>4, OneToManyAssumption DEF Movable, Settable, Living
  <2>2. ~(o \in Owner /\ IsSet(em.coll[o]) /\ em.fk[b] = o /\ b \notin em.coll[o].members)
    BY <1>4 DEF LeftBySet, IsSet
  <2>3. /\ Good(em', rows, owners, wanted') /\ Keeps(em, em')
        /\ \A p \in Owner : IsSet(em'.coll[p]) => IsSet(em.coll[p])
    BY <1>1, <1>2, <1>4, <2>1, <2>2, SetReferenceGood
  <2>4. wanted' \in [Child -> Owner \cup {None, NoRow}]
    BY <1>1, <1>4
  <2> QED BY <1>1, <2>3, <2>4, KeptInv
<1>5. ASSUME NEW b \in Child, NEW o \in Owner \cup {None}, Settable(o), b \in Fresh, b \notin em.mem,
             em' = CreateChild(em, b, o), wanted' = [wanted EXCEPT ![b] = o]
      PROVE  IInv'
  <2> DEFINE k == Born(em, b)
             v == [wanted EXCEPT ![b] = None]
  <2>1. em' = SetReference(k, b, o)
    BY <1>5 DEF CreateChild, Born
  <2>2. rows[b] = NoRow
    BY <1>3, <1>5
  <2>3. Good(k, rows, owners, v) /\ Keeps(em, k) /\ k.coll = em.coll
    BY <1>1, <1>5, <2>2, BornGood
  <2>4. b \in k.mem /\ k.fk[b] = None /\ k.gone = em.gone /\ k.mem = em.mem \cup {b} /\ k.preloaded = em.preloaded
    <3>1. /\ k.mem = em.mem \cup {b} /\ k.gone = em.gone /\ k.preloaded = em.preloaded
          /\ k.fk = [em.fk EXCEPT ![b] = None]
      BY <1>3, BornFields
    <3> QED BY <1>3, <3>1 DEF Managers
  <2>5. v \in [Child -> Owner \cup {None, NoRow}] /\ [v EXCEPT ![b] = o] = wanted'
        /\ wanted' \in [Child -> Owner \cup {None, NoRow}]
    BY <1>1, <1>5
  <2> HIDE DEF k, v
  <2>6. Movable(k, owners, b, o) /\ b \notin k.gone
    BY <1>3, <1>5, <2>4, OneToManyAssumption DEF Movable, Settable
  <2>7. ~(o \in Owner /\ IsSet(k.coll[o]) /\ k.fk[b] = o /\ b \notin k.coll[o].members)
    BY <2>4, OneToManyAssumption
  <2>8. QuietAfter(k, SetReference(k, b, o))
    BY <1>2, <2>1, <2>4 DEF QuietAfter
  <2>9. /\ Good(em', rows, owners, wanted') /\ Keeps(k, em')
        /\ \A p \in Owner : IsSet(em'.coll[p]) => IsSet(k.coll[p])
    BY <2>1, <2>3, <2>5, <2>6, <2>7, <2>8, SetReferenceGood
  <2>10. Keeps(em, em') /\ \A p \in Owner : IsSet(em'.coll[p]) => IsSet(em.coll[p])
    BY <2>3, <2>9 DEF Keeps
  <2> QED BY <1>1, <2>5, <2>9, <2>10, KeptInv
<1>6. ASSUME NEW o \in Owner, NEW b \in Child, Living(em, o), Living(em, b),
             em' = AddTo(em, o, b), wanted' = [wanted EXCEPT ![b] = o]
      PROVE  IInv'
  <2>1. Movable(em, owners, b, o) /\ b \notin em.gone
    BY <1>6 DEF Movable, Living
  <2>2. /\ Good(em', rows, owners, wanted') /\ Keeps(em, em')
        /\ \A p \in Owner : IsSet(em'.coll[p]) => IsSet(em.coll[p])
    BY <1>1, <1>2, <1>6, <2>1, AddToGood
  <2>3. wanted' \in [Child -> Owner \cup {None, NoRow}]
    BY <1>1, <1>6
  <2> QED BY <1>1, <2>2, <2>3, KeptInv
<1>7. ASSUME NEW o \in Owner, NEW b \in Child, Living(em, b),
             em' = RemoveFrom(em, o, b), wanted' = [wanted EXCEPT ![b] = None]
      PROVE  IInv'
  <2>1. /\ Good(em', rows, owners, wanted') /\ Keeps(em, em')
        /\ \A p \in Owner : IsSet(em'.coll[p]) => IsSet(em.coll[p])
    BY <1>1, <1>7, RemoveFromGood DEF Living
  <2>2. wanted' \in [Child -> Owner \cup {None, NoRow}]
    BY <1>1, <1>7
  <2> QED BY <1>1, <2>1, <2>2, KeptInv
<1>8. ASSUME NEW o \in Owner, NEW S \in SUBSET Child, S \subseteq {b \in Child : Living(em, b)}, Living(em, o),
             pc = "idle" \/ em.coll[o].kind = "loaded", em' = SetTo(em, o, S),
             wanted' = WantedBySet(wanted, o, S)
      PROVE  IInv'
  <2>1. S \subseteq em.mem /\ S \cap em.gone = {} /\ o \in em.mem /\ o \notin em.gone
    BY <1>8 DEF Living
  <2>2. wanted' \in [Child -> Owner \cup {None, NoRow}]
    <3>1. \A b \in Child : wanted'[b] \in Owner \cup {None, NoRow}
      BY <1>1, <1>8 DEF WantedBySet
    <3> QED BY <1>8, <3>1 DEF WantedBySet
  <2>3. CASE em.coll[o].kind = "loaded"
    <3>1. em' = SetLoaded(em, o, S)
      BY <1>8, <2>3 DEF SetTo
    <3>2. /\ Good(em', rows, owners, wanted') /\ Keeps(em, em')
          /\ \A p \in Owner : IsSet(em'.coll[p]) => IsSet(em.coll[p])
      BY <1>1, <1>2, <1>8, <2>1, <2>3, <3>1, SetLoadedGood
    <3> QED BY <1>1, <2>2, <3>2, KeptInv
  <2>4. CASE em.coll[o].kind # "loaded"
    <3>1. em' = SetPending(em, o, S) /\ pc = "idle"
      BY <1>8, <2>4 DEF SetTo
    <3>2. IsSet(em.coll[o]) => o \in em.pendingLoads
      BY <3>1 DEF IInv, PhaseOk, IsSet
    <3>3. /\ Good(em', rows, owners, wanted') /\ Keeps(em, em')
          /\ \A p \in Owner : IsSet(em'.coll[p]) => IsSet(em.coll[p]) \/ p = o
      BY <1>1, <1>2, <1>8, <2>1, <2>4, <3>1, <3>2, SetPendingGood
    <3>4. \A p \in Owner : IsSet(em'.coll[p]) => IsSet(em.coll[p]) \/ (pc = "idle" /\ p \in em'.pendingLoads)
      BY <3>1, <3>3 DEF Keeps
    <3> QED BY <1>1, <2>2, <3>3, <3>4, KeptInv
  <2> QED BY <2>3, <2>4
<1>9. ASSUME NEW o \in Owner \ (owners \cup em.mem), em' = CreateOwner(em, o), wanted' = wanted
      PROVE  IInv'
  <2>1. /\ Good(em', rows, owners, wanted') /\ Keeps(em, em')
        /\ \A p \in Owner : IsSet(em'.coll[p]) => IsSet(em.coll[p])
    BY <1>1, <1>9, CreateOwnerGood
  <2> QED BY <1>1, <1>9, <2>1, KeptInv
<1>10. ASSUME NEW x, Living(em, x), em' = Delete(em, x),
              wanted' = [b \in Child |-> CASE b = x -> NoRow [] wanted[b] = x -> None [] OTHER -> wanted[b]]
       PROVE  IInv'
  <2>1. /\ Good(em', rows, owners, wanted') /\ em'.mem = em.mem /\ em'.coll = em.coll
        /\ em'.pendingLoads = em.pendingLoads
    BY <1>1, <1>10, DeleteGood DEF Living
  <2>2. wanted' \in [Child -> Owner \cup {None, NoRow}]
    <3>1. \A b \in Child : wanted'[b] \in Owner \cup {None, NoRow}
      BY <1>1, <1>10
    <3> QED BY <1>10, <3>1
  <2> QED BY <1>1, <2>1, <2>2, Grown
<1> QED
  <2>1. Edits
    BY DEF Edit
  <2>2. CASE \E b \in Child : \E o \in Owner \cup {None} :
               /\ Settable(o)
               /\ \/ Living(em, b) /\ (BlindSets \/ ~LeftBySet(b, o)) /\ em' = SetReference(em, b, o)
                  \/ b \in Fresh /\ b \notin em.mem /\ em' = CreateChild(em, b, o)
               /\ wanted' = [wanted EXCEPT ![b] = o]
    BY <1>4, <1>5, <2>2 DEF Careful
  <2>3. CASE \E o \in Owner, b \in Child :
               /\ Living(em, o) /\ Living(em, b)
               /\ \/ em' = AddTo(em, o, b) /\ wanted' = [wanted EXCEPT ![b] = o]
                  \/ /\ em.coll[o].kind \in {"loaded", "pendingSet"}
                     /\ em' = RemoveFrom(em, o, b)
                     /\ wanted' = [wanted EXCEPT ![b] = None]
    BY <1>6, <1>7, <2>3
  <2>4. CASE \E o \in Owner : \E S \in SUBSET {b \in Child : Living(em, b)} :
               /\ Living(em, o) /\ (LateSets \/ pc = "idle" \/ em.coll[o].kind = "loaded")
               /\ em' = SetTo(em, o, S)
               /\ wanted' = [b \in Child |-> CASE b \in S -> o
                                               [] b \notin S /\ wanted[b] = o -> None
                                               [] OTHER -> wanted[b]]
    <3>1. PICK o \in Owner, S \in SUBSET {b \in Child : Living(em, b)} :
               /\ Living(em, o) /\ (LateSets \/ pc = "idle" \/ em.coll[o].kind = "loaded")
               /\ em' = SetTo(em, o, S)
               /\ wanted' = [b \in Child |-> CASE b \in S -> o
                                               [] b \notin S /\ wanted[b] = o -> None
                                               [] OTHER -> wanted[b]]
      BY <2>4
    <3>2. S \in SUBSET Child /\ S \subseteq {b \in Child : Living(em, b)}
      OBVIOUS
    <3>3. pc = "idle" \/ em.coll[o].kind = "loaded"
      BY <3>1 DEF Careful
    <3>4. wanted' = WantedBySet(wanted, o, S)
      BY <3>1 DEF WantedBySet
    <3> QED BY <1>8, <3>1, <3>2, <3>3, <3>4
  <2>5. CASE \E o \in Owner \ (owners \cup em.mem) : em' = CreateOwner(em, o) /\ UNCHANGED wanted
    BY <1>9, <2>5
  <2>6. CASE \E x \in Deletable :
               /\ Living(em, x)
               /\ em' = Delete(em, x)
               /\ wanted' = [b \in Child |-> CASE b = x -> NoRow [] wanted[b] = x -> None [] OTHER -> wanted[b]]
    BY <1>10, <2>6
  <2> QED BY <2>1, <2>2, <2>3, <2>4, <2>5, <2>6 DEF Edits

\* So does what settles, and nothing else.
LEMMA SettledInv ==
  ASSUME IInv, Settles(em, em', rows, owners, wanted), UNCHANGED <<dbVars, loadVars, pc, awaiting, wanted>>
  PROVE  IInv'
<1>1. Good(em', rows', owners', wanted') /\ wanted' \in [Child -> Owner \cup {None, NoRow}]
  BY DEF Settles, dbVars, IInv, RowsOk
<1>2. /\ em.mem \subseteq em'.mem /\ em.pendingLoads \subseteq em'.pendingLoads
      /\ pc = "write" => em'.deletes = {}
      /\ \A o \in Owner : IsSet(em'.coll[o]) => IsSet(em.coll[o])
  BY DEF Settles, IInv, PhaseOk
<1> QED BY <1>1, <1>2, Grown

LEMMA LoadInv ==
  ASSUME IInv, Load
  PROVE  IInv'
<1>1. Good(em, rows, owners, wanted) /\ UNCHANGED <<dbVars, loadVars, pc, awaiting, wanted>>
  BY IInvGood DEF Load
<1>2. ASSUME NEW o \in Owner, em' = LoadOwner(em, o)
      PROVE  IInv'
  BY <1>1, <1>2, LoadOwnerSettles, SettledInv
<1>3. ASSUME NEW b \in Child \ em.mem, rows[b] # NoRow, em' = Hydrate(em, {b}, rows)
      PROVE  IInv'
  <2>1. RowsToHydrate(em, {b}, rows, rows) /\ {b} \in SUBSET Child
    BY <1>3 DEF RowsToHydrate, IInv, RowsOk
  <2> QED BY <1>1, <1>3, <2>1, HydrateSettles, SettledInv
<1> QED BY <1>2, <1>3 DEF Load, IInv, RowsOk

LEMMA GetInv ==
  ASSUME NEW o \in Owner, IInv, Get(o)
  PROVE  IInv'
<1>1. /\ Good(em, rows, owners, wanted) /\ em \in Managers /\ o \in em.mem
      /\ UNCHANGED <<dbVars, loadVars, pc, awaiting, wanted>>
  BY IInvGood DEF Get, Living, Good, Sound
<1>2. Visible(em, o) \in SUBSET Child
  BY <1>1 DEF Visible, Managers, Collections
<1>3. /\ em' \in Managers
      /\ em'.mem = em.mem /\ em'.gone = em.gone /\ em'.deletes = em.deletes /\ em'.fk = em.fk
      /\ em'.ref = em.ref /\ em'.coll = em.coll /\ em'.preloaded = em.preloaded
      /\ em'.pendingLoads = em.pendingLoads /\ em'.cache = [em.cache EXCEPT ![o] = Visible(em, o)]
  <2> DEFINE q == Visible(em, o)
  <2>1. em' = [em EXCEPT !.cache[o] = q] /\ q \in SUBSET Child
    BY <1>2 DEF Get
  <2> HIDE DEF q
  <2>2. /\ em' \in Managers
        /\ em'.mem = em.mem /\ em'.gone = em.gone /\ em'.deletes = em.deletes /\ em'.fk = em.fk
        /\ em'.ref = em.ref /\ em'.coll = em.coll /\ em'.preloaded = em.preloaded
        /\ em'.pendingLoads = em.pendingLoads /\ em'.cache = [em.cache EXCEPT ![o] = q]
    BY <1>1, <2>1 DEF Managers
  <2> QED BY <2>2 DEF q
<1>4. \A b \in Child : Held(em', rows, b) = Held(em, rows, b)
  BY <1>3 DEF Held
<1>5. Sound(em', rows, owners)
  <2>1. \A b \in Child : ChildOk(em', rows, owners, b)
    BY <1>1, <1>3, <1>4 DEF Good, Sound, ChildOk
  <2>2. ASSUME NEW p \in Owner
        PROVE  OwnerOk(em', p)
    <3>1. OwnerOk(em, p) /\ em'.cache[p] = IF p = o THEN Visible(em, o) ELSE em.cache[p]
      BY <1>1, <1>3 DEF Good, Sound, Managers
    <3>2. Visible(em', p) = Visible(em, p)
      BY <1>3 DEF Visible
    <3> QED BY <1>1, <1>3, <3>1, <3>2 DEF OwnerOk
  <2>3. \A p \in Owner, b \in Child : PairOk(em', rows, p, b)
    BY <1>1, <1>3, <1>4 DEF Good, Sound, PairOk
  <2> QED BY <1>1, <1>3, <2>1, <2>2, <2>3 DEF Good, Sound
<1>6. Founds(em', rows)
  BY <1>1, <1>3 DEF Good, Founds, Answers, FoundOk
<1>7. Wants(em', rows, wanted)
  BY <1>1, <1>3, <1>4 DEF Good, Wants, WantedOf, LetGo
<1>8. Settles(em, em', rows, owners, wanted)
  BY <1>3, <1>4, <1>5, <1>6, <1>7 DEF Settles, Good
<1> QED BY <1>1, <1>8, SettledInv

LEMMA QueryCollectionInv ==
  ASSUME NEW o \in Owner, IInv, QueryCollection(o)
  PROVE  IInv'
<1>1. /\ em' = em /\ rows' = rows /\ owners' = owners /\ wanted' = wanted /\ refAsked' = refAsked
      /\ pc' = pc /\ awaiting' = awaiting /\ asked' = [asked EXCEPT ![o] = RowsOf(o)] /\ o \in em.mem
  BY DEF QueryCollection, dbVars, Living
<1>2. Good(em', rows', owners', wanted')
  BY <1>1, IInvGood
<1>3. LoadsOk'
  BY <1>1 DEF IInv, LoadsOk, RowsOf
<1>4. RowsOk' /\ PhaseOk'
  BY <1>1 DEF IInv, RowsOk, PhaseOk
<1> QED BY <1>2, <1>3, <1>4 DEF IInv, Good

LEMMA BatchLoadedInv ==
  ASSUME NEW o \in Owner, IInv, BatchLoaded(o)
  PROVE  IInv'
<1> DEFINE f == [b \in Child |-> o]
           here == Hydrate(em, asked[o], f)
           q == Found(here, o, asked[o])
<1>1. /\ rows' = rows /\ owners' = owners /\ wanted' = wanted /\ refAsked' = refAsked
      /\ pc' = pc /\ awaiting' = awaiting /\ asked' = [asked EXCEPT ![o] = NotAsked]
      /\ em' = [here EXCEPT !.preloaded[o] = q] /\ asked[o] # NotAsked
  BY DEF BatchLoaded, dbVars
<1>2. asked[o] = RowsOf(o) /\ o \in em.mem /\ RowsOf(o) \in SUBSET Child
  BY <1>1 DEF IInv, LoadsOk, RowsOf
<1>3. Settles(em, here, rows, owners, wanted) /\ here.mem = em.mem \cup RowsOf(o)
  <2>1. RowsToHydrate(em, RowsOf(o), f, rows)
    BY DEF RowsToHydrate, RowsOf
  <2>2. Good(em, rows, owners, wanted)
    BY IInvGood
  <2> HIDE DEF f
  <2> QED BY <1>2, <2>1, <2>2, HydrateSettles
<1> HIDE DEF here, f
<1>4. Answers(here, rows, o, q) /\ q \in SUBSET Child
  BY <1>2, <1>3, FoundAnswers
<1> HIDE DEF q
<1>5. Good(here, rows, owners, wanted) /\ here \in Managers
  BY <1>3 DEF Settles, Good, Sound
<1>6. /\ em' \in Managers
      /\ em'.mem = here.mem /\ em'.gone = here.gone /\ em'.deletes = here.deletes /\ em'.fk = here.fk
      /\ em'.ref = here.ref /\ em'.coll = here.coll /\ em'.cache = here.cache
      /\ em'.pendingLoads = here.pendingLoads /\ em'.preloaded = [here.preloaded EXCEPT ![o] = q]
  BY <1>1, <1>4, <1>5 DEF Managers
<1>7. \A b \in Child : Held(em', rows, b) = Held(here, rows, b)
  BY <1>6 DEF Held
<1>8. Sound(em', rows, owners)
  <2>1. \A b \in Child : ChildOk(em', rows, owners, b)
    BY <1>5, <1>6, <1>7 DEF Good, Sound, ChildOk
  <2>2. \A p \in Owner : OwnerOk(em', p)
    BY <1>5, <1>6 DEF Good, Sound, OwnerOk, Visible
  <2>3. \A p \in Owner, b \in Child : PairOk(em', rows, p, b)
    BY <1>5, <1>6, <1>7 DEF Good, Sound, PairOk
  <2> QED BY <1>5, <1>6, <2>1, <2>2, <2>3 DEF Good, Sound
<1>9. Founds(em', rows)
  <2> SUFFICES ASSUME NEW p \in Owner \ em'.gone, em'.preloaded[p] # NotAsked
               PROVE  Answers(em', rows, p, em'.preloaded[p])
    BY DEF Founds
  <2>1. em'.preloaded[p] = IF p = o THEN q ELSE here.preloaded[p]
    BY <1>5, <1>6 DEF Managers
  <2>2. Answers(here, rows, p, em'.preloaded[p])
    BY <1>4, <1>5, <1>6, <2>1 DEF Good, Founds
  <2> QED BY <1>6, <2>2 DEF Answers, FoundOk
<1>10. Wants(em', rows, wanted)
  BY <1>5, <1>6, <1>7 DEF Good, Wants, WantedOf, LetGo
<1>11. LoadsOk'
  BY <1>1, <1>3, <1>6 DEF IInv, LoadsOk, RowsOf
<1>12. RowsOk' /\ PhaseOk'
  BY <1>1, <1>3, <1>6 DEF IInv, RowsOk, PhaseOk, Settles, IsSet
<1> QED BY <1>1, <1>8, <1>9, <1>10, <1>11, <1>12 DEF IInv

LEMMA PreloadInv ==
  ASSUME NEW o \in Owner, IInv, Preload(o)
  PROVE  IInv'
<1>1. /\ em' = ApplyLoad(em, o, em.preloaded[o]) /\ em.preloaded[o] # NotAsked
      /\ o \in em.mem /\ o \notin em.gone /\ UNCHANGED <<dbVars, loadVars, pc, awaiting, wanted>>
  BY DEF Preload, Living
<1>2. Good(em, rows, owners, wanted) /\ em.preloaded[o] \in SUBSET Child
      /\ Answers(em, rows, o, em.preloaded[o])
  BY <1>1 DEF IInv, Good, Sound, Managers, Founds
<1>3. Settles(em, em', rows, owners, wanted)
  BY <1>1, <1>2, ApplyLoadSettles
<1> QED BY <1>1, <1>3, SettledInv

LEMMA QueryReferenceInv ==
  ASSUME NEW b \in Child, IInv, QueryReference(b)
  PROVE  IInv'
<1>1. /\ em' = em /\ rows' = rows /\ owners' = owners /\ wanted' = wanted /\ asked' = asked
      /\ pc' = pc /\ awaiting' = awaiting /\ refAsked' = refAsked \cup {<<b, em.fk[b]>>}
      /\ em.fk[b] \in owners
  BY DEF QueryReference, dbVars
<1>2. Good(em', rows', owners', wanted')
  BY <1>1, IInvGood
<1>3. LoadsOk'
  BY <1>1 DEF IInv, LoadsOk, RowsOk, RowsOf
<1>4. RowsOk' /\ PhaseOk'
  BY <1>1 DEF IInv, RowsOk, PhaseOk
<1> QED BY <1>2, <1>3, <1>4 DEF IInv, Good

LEMMA ReferenceLoadedInv ==
  ASSUME NEW b \in Child, NEW o \in Owner, IInv, ReferenceLoaded(b, o)
  PROVE  IInv'
<1> DEFINE here == LoadOwner(em, o)
<1>1. /\ rows' = rows /\ owners' = owners /\ wanted' = wanted /\ asked' = asked
      /\ pc' = pc /\ awaiting' = awaiting /\ refAsked' = refAsked \ {<<b, o>>}
      /\ em' = IF StillReferred(here, b, o) THEN [here EXCEPT !.ref[b] = o] ELSE here
  BY DEF ReferenceLoaded, dbVars
<1>2. Settles(em, here, rows, owners, wanted)
  BY IInvGood, LoadOwnerSettles
<1> HIDE DEF here
<1>3. Good(here, rows, owners, wanted) /\ here \in Managers
  BY <1>2 DEF Settles, Good, Sound
<1>4. Settles(em, em', rows, owners, wanted)
  <2>1. CASE ~StillReferred(here, b, o)
    BY <1>1, <1>2, <2>1
  <2>2. CASE StillReferred(here, b, o)
    <3>1. /\ em' \in Managers
          /\ em'.mem = here.mem /\ em'.gone = here.gone /\ em'.deletes = here.deletes
          /\ em'.fk = here.fk /\ em'.coll = here.coll /\ em'.cache = here.cache
          /\ em'.pendingLoads = here.pendingLoads /\ em'.preloaded = here.preloaded
          /\ em'.ref = [here.ref EXCEPT ![b] = o]
      BY <1>1, <1>3, <2>2 DEF Managers
    <3>2. here.fk[b] = o /\ b \in here.mem
      BY <1>3, <2>2, OneToManyAssumption DEF StillReferred, Good, Sound, ChildOk
    <3>3. \A x \in Child : Held(em', rows, x) = Held(here, rows, x)
      BY <3>1 DEF Held
    <3>4. Sound(em', rows, owners)
      <4>1. ASSUME NEW x \in Child
            PROVE  ChildOk(em', rows, owners, x)
        <5>1. ChildOk(here, rows, owners, x) /\ em'.ref[x] = IF x = b THEN o ELSE here.ref[x]
          BY <1>3, <3>1 DEF Good, Sound, Managers
        <5> QED BY <3>1, <3>2, <3>3, <5>1 DEF ChildOk
      <4>2. \A p \in Owner : OwnerOk(em', p)
        BY <1>3, <3>1 DEF Good, Sound, OwnerOk, Visible
      <4>3. \A p \in Owner, x \in Child : PairOk(em', rows, p, x)
        BY <1>3, <3>1, <3>3 DEF Good, Sound, PairOk
      <4> QED BY <1>3, <3>1, <4>1, <4>2, <4>3 DEF Good, Sound
    <3>5. Founds(em', rows)
      BY <1>3, <3>1 DEF Good, Founds, Answers, FoundOk
    <3>6. Wants(em', rows, wanted)
      BY <1>3, <3>1, <3>3 DEF Good, Wants, WantedOf, LetGo
    <3>7. Settles(here, em', rows, owners, wanted)
      BY <3>1, <3>3, <3>4, <3>5, <3>6 DEF Settles, Good
    <3> QED BY <1>2, <3>7, SettlesTwice
  <2> QED BY <2>1, <2>2
<1>5. LoadsOk'
  BY <1>1, <1>4 DEF IInv, LoadsOk, RowsOf, Settles
<1>6. RowsOk' /\ PhaseOk'
  BY <1>1, <1>4 DEF IInv, RowsOk, PhaseOk, Settles, IsSet
<1> QED BY <1>1, <1>4, <1>5, <1>6 DEF IInv, Settles, Good

LEMMA StartFlushInv ==
  ASSUME IInv, StartFlush
  PROVE  IInv'
<1> DEFINE n == CleanedUp(em)
<1>1. /\ rows' = rows /\ owners' = owners /\ wanted' = wanted /\ asked' = asked /\ refAsked' = refAsked
      /\ pc = "idle" /\ pc' = "awaiting" /\ awaiting' = em.pendingLoads
      /\ em' = [n EXCEPT !.pendingLoads = {}]
  BY DEF StartFlush, dbVars, loadVars
<1>2. /\ Good(n, rows, owners, wanted) /\ n.deletes = {} /\ em.mem \subseteq n.mem
      /\ \A p \in Owner : IsSet(n.coll[p]) => IsSet(em.coll[p])
  BY IInvGood, CleanedUpGood DEF RowsOk
<1> HIDE DEF n
<1>3. /\ em' \in Managers
      /\ em'.mem = n.mem /\ em'.gone = n.gone /\ em'.deletes = n.deletes /\ em'.fk = n.fk
      /\ em'.ref = n.ref /\ em'.coll = n.coll /\ em'.cache = n.cache /\ em'.preloaded = n.preloaded
  BY <1>1, <1>2 DEF Good, Sound, Managers
<1>4. \A b \in Child : Held(em', rows, b) = Held(n, rows, b)
  BY <1>3 DEF Held
<1>5. Sound(em', rows, owners)
  <2>1. \A b \in Child : ChildOk(em', rows, owners, b)
    BY <1>2, <1>3, <1>4 DEF Good, Sound, ChildOk
  <2>2. \A p \in Owner : OwnerOk(em', p)
    BY <1>2, <1>3 DEF Good, Sound, OwnerOk, Visible
  <2>3. \A p \in Owner, b \in Child : PairOk(em', rows, p, b)
    BY <1>2, <1>3, <1>4 DEF Good, Sound, PairOk
  <2> QED BY <1>2, <1>3, <2>1, <2>2, <2>3 DEF Good, Sound
<1>6. Founds(em', rows)
  BY <1>2, <1>3 DEF Good, Founds, Answers, FoundOk
<1>7. Wants(em', rows, wanted)
  BY <1>2, <1>3, <1>4 DEF Good, Wants, WantedOf, LetGo
<1>8. LoadsOk'
  BY <1>1, <1>2, <1>3 DEF IInv, LoadsOk, RowsOf
<1>9. RowsOk'
  BY <1>1, <1>2, <1>3 DEF IInv, RowsOk
<1>10. PhaseOk'
  <2>1. em.pendingLoads \subseteq Owner
    BY DEF IInv, Sound, Managers
  <2> QED BY <1>1, <1>2, <1>3, <2>1 DEF IInv, PhaseOk, IsSet
<1> QED BY <1>1, <1>5, <1>6, <1>7, <1>8, <1>9, <1>10 DEF IInv

\* No set waits any more when the hooks run.
LEMMA NoSetWaits ==
  ASSUME IInv, pc \in {"hooks", "write"} \/ (pc = "awaiting" /\ \A o \in awaiting : em.coll[o].kind = "loaded")
  PROVE  \A o \in Owner : ~IsSet(em.coll[o])
BY DEF IInv, PhaseOk, IsSet

LEMMA PendingLoadedInv ==
  ASSUME IInv, PendingLoaded
  PROVE  IInv'
<1>1. /\ em' = em /\ rows' = rows /\ owners' = owners /\ wanted' = wanted /\ asked' = asked
      /\ refAsked' = refAsked /\ pc' = "hooks" /\ awaiting' = {}
  BY DEF PendingLoaded, dbVars, loadVars
<1>2. \A o \in Owner : ~IsSet(em.coll[o])
  BY NoSetWaits DEF PendingLoaded
<1>3. Good(em', rows', owners', wanted')
  BY <1>1, IInvGood
<1>4. LoadsOk' /\ RowsOk'
  BY <1>1 DEF IInv, LoadsOk, RowsOk, RowsOf
<1>5. PhaseOk'
  BY <1>1, <1>2 DEF PhaseOk, IsSet
<1> QED BY <1>3, <1>4, <1>5 DEF IInv, Good

LEMMA EndHooksInv ==
  ASSUME IInv, EndHooks
  PROVE  IInv'
<1>1. /\ rows' = rows /\ owners' = owners /\ wanted' = wanted /\ asked' = asked /\ refAsked' = refAsked
      /\ pc = "hooks" /\ pc' = "write" /\ awaiting' = awaiting /\ em' = CleanedUp(em)
  BY DEF EndHooks, dbVars, loadVars
<1>2. /\ Good(em', rows, owners, wanted) /\ em'.deletes = {} /\ em.mem \subseteq em'.mem
      /\ \A p \in Owner : IsSet(em'.coll[p]) => IsSet(em.coll[p])
  BY <1>1, IInvGood, CleanedUpGood DEF RowsOk
<1>3. \A o \in Owner : ~IsSet(em.coll[o])
  BY <1>1, NoSetWaits
<1>4. LoadsOk' /\ RowsOk'
  BY <1>1, <1>2 DEF IInv, LoadsOk, RowsOk, RowsOf
<1>5. PhaseOk'
  BY <1>1, <1>2, <1>3 DEF IInv, PhaseOk, IsSet
<1> QED BY <1>1, <1>2, <1>4, <1>5 DEF IInv, Good

\* What a flush writes is what the application asked for: nothing is to be let go of any more.
LEMMA WrittenIsWanted ==
  ASSUME IInv, pc = "write"
  PROVE  Written = wanted
<1>1. \A o \in Owner : ~IsSet(em.coll[o])
  BY NoSetWaits
<1>2. ASSUME NEW b \in Child
      PROVE  Written[b] = wanted[b]
  <2>1. ChildOk(em, rows, owners, b) /\ em.deletes = {} /\ em.gone \subseteq em.mem
    BY DEF IInv, Sound, PhaseOk
  <2>2. ~LetGo(em, rows, b)
    BY <1>1, <2>1 DEF LetGo, ChildOk, IsSet
  <2>3. wanted[b] = IF b \in em.gone THEN NoRow ELSE Held(em, rows, b)
    BY <2>2 DEF IInv, Wants, WantedOf
  <2>4. CASE b \notin em.mem
    BY <2>1, <2>3, <2>4 DEF Written, Held
  <2>5. CASE b \in em.mem /\ b \in em.gone
    BY <2>3, <2>5 DEF Written, Held
  <2>6. CASE b \in em.mem /\ b \notin em.gone
    BY <2>3, <2>6 DEF Written, Held
  <2> QED BY <2>4, <2>5, <2>6
<1>3. Written = [b \in Child |-> Written[b]] /\ wanted = [b \in Child |-> wanted[b]]
  BY DEF Written, IInv, RowsOk
<1> HIDE DEF Written
<1> QED BY <1>2, <1>3

LEMMA CommitInv ==
  ASSUME Careful, IInv, Commit
  PROVE  IInv'
<1> DEFINE C == [o \in Owner |-> IF o \in em.mutated THEN ResetAddedRemoved(em.coll[o]) ELSE em.coll[o]]
           P == [o \in Owner |-> NotAsked]
<1>1. /\ rows' = Written /\ owners' = OwnersWritten /\ wanted' = wanted /\ asked' = asked
      /\ refAsked' = refAsked /\ pc = "write" /\ pc' = "idle" /\ awaiting' = awaiting
      /\ \A o \in Owner : asked[o] = NotAsked
      /\ em' = [em EXCEPT !.coll = [o \in Owner |-> IF o \in em.mutated THEN ResetAddedRemoved(@[o]) ELSE @[o]],
                          !.mutated = {}, !.preloaded = [o \in Owner |-> NotAsked]]
  BY DEF Commit, Careful, loadVars
<1>2. /\ em \in Managers /\ em.gone \subseteq em.mem /\ em.deletes = {} /\ owners \subseteq Owner
      /\ \A o \in Owner : em.coll[o] \in Collections
      /\ \A o \in Owner : ~IsSet(em.coll[o])
  BY <1>1, NoSetWaits DEF IInv, Sound, PhaseOk, RowsOk, Managers
<1>3. ASSUME NEW o \in Owner
      PROVE  /\ C[o] \in Collections /\ C[o].kind = em.coll[o].kind /\ C[o].members = em.coll[o].members
             /\ C[o].added \subseteq em.coll[o].added /\ C[o].removed \subseteq em.coll[o].removed
  <2>1. CASE o \in em.mutated
    <3>1. C[o] = ResetAddedRemoved(em.coll[o])
      BY <2>1
    <3> HIDE DEF C
    <3> QED BY <1>2, <3>1 DEF ResetAddedRemoved, Collections
  <2>2. CASE o \notin em.mutated
    BY <1>2, <2>2
  <2> QED BY <2>1, <2>2
<1>4. em' = [em EXCEPT !.coll = C, !.mutated = {}, !.preloaded = P]
  BY <1>1, <1>2 DEF Managers
<1>5. C \in [Owner -> Collections] /\ P \in [Owner -> (SUBSET Child) \cup {NotAsked}] /\ \A o \in Owner : P[o] = NotAsked
  BY <1>3
<1> HIDE DEF C, P
<1>6. /\ em' \in Managers
      /\ em'.mem = em.mem /\ em'.gone = em.gone /\ em'.deletes = em.deletes /\ em'.fk = em.fk
      /\ em'.ref = em.ref /\ em'.cache = em.cache /\ em'.pendingLoads = em.pendingLoads
      /\ em'.coll = C /\ em'.preloaded = P
  BY <1>2, <1>4, <1>5 DEF Managers
<1>7. ASSUME NEW b \in Child
      PROVE  /\ rows'[b] = IF b \notin em.mem THEN rows[b] ELSE IF b \in em.gone THEN NoRow ELSE em.fk[b]
             /\ Held(em', rows', b) = Held(em, rows, b)
             /\ ChildOk(em, rows, owners, b) /\ (b \in em.gone => em.fk[b] = None)
             /\ rows'[b] = Held(em, rows, b) \/ (rows'[b] = NoRow /\ Held(em, rows, b) = None)
  <2>1. rows'[b] = IF b \notin em.mem THEN rows[b] ELSE IF b \in em.gone THEN NoRow ELSE em.fk[b]
    BY <1>1 DEF Written
  <2>2. Held(em', rows', b) = Held(em, rows, b)
    BY <1>6, <2>1 DEF Held
  <2>3. ChildOk(em, rows, owners, b)
    BY DEF IInv, Sound
  <2>4. b \in em.gone => em.fk[b] = None
    BY <1>2, <2>3 DEF ChildOk
  <2> QED BY <1>2, <2>1, <2>2, <2>3, <2>4 DEF Held
<1>8. Sound(em', rows', owners')
  <2>1. ASSUME NEW b \in Child
        PROVE  ChildOk(em', rows', owners', b)
    <3>1. Held(em, rows, b) \in Owner => Held(em, rows, b) \in owners'
      BY <1>1, <1>2, <1>7 DEF ChildOk, OwnersWritten
    <3>2. rows'[b] \in Owner => rows'[b] \in owners'
      BY <1>7, <3>1, OneToManyAssumption
    <3> QED BY <1>2, <1>6, <1>7, <3>1, <3>2 DEF ChildOk
  <2>2. ASSUME NEW o \in Owner
        PROVE  OwnerOk(em', o)
    <3>1. OwnerOk(em, o)
      BY DEF IInv, Sound
    <3> QED BY <1>3, <1>6, <3>1 DEF OwnerOk, Visible
  <2>3. ASSUME NEW o \in Owner, NEW b \in Child
        PROVE  PairOk(em', rows', o, b)
    <3>1. PairOk(em, rows, o, b) /\ ~IsSet(em.coll[o])
      BY <1>2 DEF IInv, Sound
    <3>2. rows'[b] = o <=> Held(em, rows, b) = o
      BY <1>7, OneToManyAssumption
    <3>3. rows'[b] = o => b \in em.mem \/ rows[b] = o
      BY <1>7
    <3> QED BY <1>3, <1>6, <1>7, <3>1, <3>2, <3>3 DEF PairOk, IsSet
  <2> QED BY <1>2, <1>6, <2>1, <2>2, <2>3 DEF Sound
<1>9. Founds(em', rows')
  BY <1>5, <1>6 DEF Founds
<1>10. Wants(em', rows', wanted')
  <2> SUFFICES ASSUME NEW b \in Child
               PROVE  wanted[b] = WantedOf(em', rows', b)
    BY <1>1 DEF Wants
  <2>1. wanted[b] = WantedOf(em, rows, b) /\ Held(em', rows', b) = Held(em, rows, b)
    BY <1>7 DEF IInv, Wants
  <2>2. LetGo(em', rows', b) <=> LetGo(em, rows, b)
    BY <1>3, <1>6, <2>1 DEF LetGo
  <2> QED BY <1>6, <2>1, <2>2 DEF WantedOf
<1>11. LoadsOk'
  BY <1>1 DEF IInv, LoadsOk
<1>12. RowsOk'
  <2>1. rows' = wanted
    BY <1>1, WrittenIsWanted
  <2>2. owners' \subseteq Owner
    BY <1>1, <1>2 DEF OwnersWritten
  <2>3. \A b \in Fresh \ em'.mem : rows'[b] = NoRow
    BY <1>6, <1>7, OneToManyAssumption DEF IInv, RowsOk
  <2> QED BY <1>1, <2>1, <2>2, <2>3 DEF IInv, RowsOk
<1>13. PhaseOk'
  BY <1>1, <1>2, <1>3, <1>6 DEF IInv, PhaseOk, IsSet
<1> QED BY <1>8, <1>9, <1>10, <1>11, <1>12, <1>13 DEF IInv

\* A flush that has nothing to write, or that fails while nothing waits for it.
LEMMA EndsInv ==
  ASSUME Careful, IInv, NothingToWrite \/ Fail
  PROVE  IInv'
<1>1. /\ em' = em /\ rows' = rows /\ owners' = owners /\ wanted' = wanted /\ asked' = asked
      /\ refAsked' = refAsked /\ pc' = "idle" /\ awaiting' \subseteq Owner
  BY DEF NothingToWrite, Fail, dbVars, loadVars, IInv, PhaseOk
<1>2. pc = "idle" \/ pc \in {"hooks", "write"}
  BY DEF NothingToWrite, Fail, Careful, IInv, PhaseOk
<1>3. Good(em', rows', owners', wanted')
  BY <1>1, IInvGood
<1>4. LoadsOk' /\ RowsOk'
  BY <1>1 DEF IInv, LoadsOk, RowsOk, RowsOf
<1>5. PhaseOk'
  <2>1. CASE pc = "idle"
    BY <1>1, <2>1 DEF IInv, PhaseOk
  <2>2. CASE pc \in {"hooks", "write"}
    <3>1. \A o \in Owner : ~IsSet(em.coll[o])
      BY <2>2, NoSetWaits
    <3> QED BY <1>1, <3>1 DEF PhaseOk, IsSet
  <2> QED BY <1>2, <2>1, <2>2
<1> QED BY <1>3, <1>4, <1>5 DEF IInv, Good

LEMMA StutterInv ==
  ASSUME IInv, UNCHANGED vars
  PROVE  IInv'
BY DEF vars, loadVars, dbVars, IInv, LoadsOk, RowsOk, PhaseOk, RowsOf

LEMMA NextInv ==
  ASSUME Careful, IInv, [Next]_vars
  PROVE  IInv'
BY EditInv, LoadInv, GetInv, QueryCollectionInv, BatchLoadedInv, PreloadInv, QueryReferenceInv,
   ReferenceLoadedInv, StartFlushInv, PendingLoadedInv, EndHooksInv, CommitInv, EndsInv, StutterInv DEF Next

LEMMA IInvHolds ==
  ASSUME Careful
  PROVE  Spec => []IInv
<1>1. Init => IInv
  BY InitIInv
<1>2. IInv /\ [Next]_vars => IInv'
  BY NextInv
<1> QED BY <1>1, <1>2, PTL DEF Spec

----------------------------------------------------------------------------
(* What it implies. *)

LEMMA IInvTypes ==
  IInv => TypeOK
<1> SUFFICES ASSUME IInv
             PROVE  TypeOK
  OBVIOUS
<1>1. em \in Managers /\ LoadsOk /\ RowsOk /\ PhaseOk
  BY DEF IInv, Sound
<1>2. \A o \in Owner : em.coll[o].added \cap em.coll[o].removed = {}
  <2> SUFFICES ASSUME NEW o \in Owner, NEW b \in em.coll[o].added, b \in em.coll[o].removed
               PROVE  FALSE
    OBVIOUS
  <2>1. b \in Child
    BY <1>1 DEF Managers, Collections
  <2> QED BY <2>1 DEF IInv, Sound, PairOk
<1>3. em.coll \in [Owner -> [kind : {"elsewhere", "pristine", "addedRemoved", "pendingSet", "loaded"},
                             members : SUBSET Child, added : SUBSET Child, removed : SUBSET Child]]
  BY <1>1 DEF Managers, Collections, Kinds
<1>4. /\ em.mem \cup em.gone \cup em.deletes \subseteq Owner \cup Child
      /\ em.fk \in [Child -> Owner \cup {None}] /\ em.ref \in [Child -> Owner \cup {None, NotLoaded}]
      /\ em.mutated \cup em.pendingLoads \cup owners \cup awaiting \subseteq Owner
  BY <1>1 DEF Managers, RowsOk, PhaseOk
<1>5. /\ \A f \in {asked, em.preloaded} : f \in [Owner -> (SUBSET Child) \cup {NotAsked}]
      /\ refAsked \subseteq Child \X Owner
      /\ {rows, wanted} \subseteq [Child -> Owner \cup {None, NoRow}]
      /\ pc \in {"idle", "awaiting", "hooks", "write"}
  BY <1>1 DEF Managers, LoadsOk, RowsOk, PhaseOk
<1> QED BY <1>2, <1>3, <1>4, <1>5 DEF TypeOK

\* Every variable has its type: the managers of OneToManyCollection.ts and ManyToOneReference.ts.
THEOREM TypeCorrect ==
  ASSUME Careful
  PROVE  Spec => []TypeOK
BY IInvHolds, IInvTypes, PTL

\* Both sides of the relation agree: a loaded collection has exactly the children that point to
\* its owner, and a loaded reference is the owner its foreign key says, whatever was edited and
\* whenever the loads were answered and applied (OneToManyCollection.preload, set and percolation).
THEOREM BothSidesAgree ==
  ASSUME Careful
  PROVE  Spec => []LoadedIsOwned
<1>1. IInv => LoadedIsOwned
  <2> SUFFICES ASSUME IInv
               PROVE  LoadedIsOwned
    OBVIOUS
  <2>1. TypeOK /\ \A b \in Child : em.ref[b] \in {NotLoaded, em.fk[b]}
    BY IInvTypes DEF IInv, Sound, ChildOk
  <2>2. ASSUME NEW o \in Owner, Living(em, o), em.coll[o].kind = "loaded"
        PROVE  Visible(em, o) = Owned(o)
    <3>1. em.coll[o].members \subseteq Child /\ em.gone \subseteq em.mem
      BY DEF IInv, Sound, Managers, Collections
    <3>2. ASSUME NEW b \in Child
          PROVE  b \in Visible(em, o) <=> b \in Owned(o)
      <4>1. PairOk(em, rows, o, b)
        BY DEF IInv, Sound
      <4>2. (b \in em.coll[o].members <=> Held(em, rows, b) = o) /\ (rows[b] = o => b \in em.mem)
        BY <2>2, <4>1 DEF PairOk
      <4> QED BY <3>1, <4>2 DEF Visible, Owned, Living, Held
    <3>3. Visible(em, o) \subseteq Child /\ Owned(o) \subseteq Child
      BY <3>1 DEF Visible, Owned
    <3> QED BY <3>2, <3>3
  <2> QED BY <2>1, <2>2 DEF LoadedIsOwned
<1> QED BY <1>1, IInvHolds, PTL

\* What author.books.get keeps of its last answer is what it would answer now: every edit,
\* load and deletion that could change it forgets it (OneToManyCollection.resetGetCachedIfLoaded).
THEOREM CacheCurrent ==
  ASSUME Careful
  PROVE  Spec => []CachedIsCurrent
<1>1. IInv => CachedIsCurrent
  BY DEF IInv, Sound, OwnerOk, CachedIsCurrent
<1> QED BY <1>1, IInvHolds, PTL

\* A flush that succeeds leaves in the database the owners the application asked for last, through
\* either side, with what waiting sets and deletions let go of (EntityManager.flush and the
\* clean-up of OneToManyCollection.ts).
THEOREM FlushSaves ==
  ASSUME Careful
  PROVE  Spec => FlushSavesWanted
<1>1. IInv /\ [Next]_vars => [pc = "write" /\ pc' = "idle" /\ ~Fail => rows' = wanted]_vars
  <2> SUFFICES ASSUME IInv, Next, pc = "write", pc' = "idle", ~Fail
               PROVE  rows' = wanted
    OBVIOUS
  <2>1. Written = wanted
    BY WrittenIsWanted
  <2>2. CASE Commit
    BY <2>1, <2>2 DEF Commit
  <2>3. CASE NothingToWrite
    BY <2>1, <2>3 DEF NothingToWrite, SomethingToWrite, dbVars
  <2>4. Commit \/ NothingToWrite
    BY DEF Next, Edit, Load, Get, QueryCollection, BatchLoaded, Preload, QueryReference, ReferenceLoaded,
           StartFlush, PendingLoaded, EndHooks
  <2> QED BY <2>2, <2>3, <2>4
<1> QED BY <1>1, IInvHolds, PTL DEF Spec, FlushSavesWanted
=============================================================================
