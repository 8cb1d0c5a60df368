------------------------- MODULE IdentityMapProofs --------------------------
(***************************************************************************)
(* A row has one entity in memory, whichever calls read it and in whatever *)
(* order their answers come; what memory holds as deleted is not in the    *)
(* table; no answer replaces what the manager has committed since; the     *)
(* index finds what a scan of the entities would; and loads answer every   *)
(* row that is there.                                                      *)
(***************************************************************************)
EXTENDS IdentityMap, FiniteSetTheorems, SequenceTheorems, TLAPS

----------------------------------------------------------------------------
(* Sequences and least elements. *)

IsSeq(s) == s \in Seq(ToSet(s))

LEMMA SeqFacts ==
  ASSUME NEW s, IsSeq(s)
  PROVE  Len(s) \in Nat /\ DOMAIN s = 1..Len(s)
BY DEF IsSeq

LEMMA EmptyIsSeq == IsSeq(<<>>)
BY DEF IsSeq, ToSet

LEMMA FunctionIsSeq ==
  ASSUME NEW n \in Nat, NEW s, DOMAIN s = 1..n, s = [i \in 1..n |-> s[i]]
  PROVE  IsSeq(s)
<1>1. s \in [1..n -> ToSet(s)]
  BY DEF ToSet
<1> QED BY <1>1, SeqDef DEF IsSeq

LEMMA SequenceIsSeq ==
  ASSUME NEW S, NEW s \in Seq(S)
  PROVE  IsSeq(s)
<1>1. Len(s) \in Nat /\ s \in [1..Len(s) -> S]
  BY LenProperties
<1>2. DOMAIN s = 1..Len(s) /\ s = [i \in 1..Len(s) |-> s[i]]
  BY <1>1
<1> QED BY <1>1, <1>2, FunctionIsSeq

LEMMA AppendSeq ==
  ASSUME NEW s, IsSeq(s), NEW x
  PROVE  /\ IsSeq(Append(s, x))
         /\ Len(Append(s, x)) = Len(s) + 1
         /\ DOMAIN Append(s, x) = 1..(Len(s) + 1)
         /\ Append(s, x)[Len(s) + 1] = x
         /\ \A i \in DOMAIN s : Append(s, x)[i] = s[i]
<1> DEFINE S == ToSet(s) \cup {x}
           t == Append(s, x)
<1>1. s \in Seq(S) /\ x \in S
  <2>1. s \in Seq(ToSet(s)) /\ ToSet(s) \subseteq S
    BY DEF IsSeq
  <2> QED BY <2>1, SeqMonotonic
<1>2. /\ t \in Seq(S) /\ Len(t) = Len(s) + 1 /\ DOMAIN t = 1..(Len(s) + 1)
      /\ t[Len(s) + 1] = x /\ \A i \in 1..Len(s) : t[i] = s[i]
  BY <1>1, AppendProperties
<1>3. Len(s) \in Nat /\ DOMAIN s = 1..Len(s)
  BY SeqFacts
<1>5. IsSeq(t)
  BY <1>2, SequenceIsSeq
<1> QED BY <1>2, <1>3, <1>5

LEMMA ExceptIsSeq ==
  ASSUME NEW s, IsSeq(s), NEW i, NEW x
  PROVE  IsSeq([s EXCEPT ![i] = x]) /\ DOMAIN [s EXCEPT ![i] = x] = DOMAIN s
<1> DEFINE t == [s EXCEPT ![i] = x]
<1>1. Len(s) \in Nat /\ DOMAIN s = 1..Len(s)
  BY SeqFacts
<1>2. DOMAIN t = 1..Len(s) /\ t = [j \in 1..Len(s) |-> t[j]]
  BY <1>1 DEF IsSeq
<1>3. IsSeq(t)
  BY <1>1, <1>2, FunctionIsSeq
<1> QED BY <1>1, <1>2, <1>3, SeqFacts

----------------------------------------------------------------------------
(* Managers. *)

IsManager(m) ==
  m \in [ents : {m.ents}, byId : {m.byId}, created : {m.created}, indexed : {m.indexed}, pairs : {m.pairs}]
IsEntity(x) ==
  x \in [id : Nat, createId : {x.createId}, data : {x.data}, at : Nat, orig : {x.orig},
         deleted : {"no", "pending", "done"}]

\* A manager whose entities have ids up to n, each with its entity and each entity under its id.
Sound(m, n) ==
  /\ IsManager(m) /\ IsSeq(m.ents)
  /\ \A e \in All(m) :
       /\ IsEntity(m.ents[e])
       /\ m.ents[e].id # None =>
            /\ m.ents[e].id \in 1..n
            /\ IdRef(m.ents[e].id) \in DOMAIN m.byId /\ m.byId[IdRef(m.ents[e].id)] = e
  /\ \A k \in DOMAIN m.byId : m.byId[k] \in All(m)
  /\ \A i : IdRef(i) \in DOMAIN m.byId => i # None /\ m.ents[m.byId[IdRef(i)]].id = i

\* What is in memory stays there, with its id.
Keeps(m, r) ==
  /\ All(m) \subseteq All(r)
  /\ \A e \in All(m) : r.ents[e].id = m.ents[e].id
  /\ \A i : IdRef(i) \in DOMAIN m.byId => IdRef(i) \in DOMAIN r.byId /\ r.byId[IdRef(i)] = m.byId[IdRef(i)]

\* What the program itself does: it reads no row, and deletes nothing for good.
Edits(m, r) ==
  /\ \A e \in All(m) :
       /\ r.ents[e].at = m.ents[e].at
       /\ m.ents[e].deleted # "no" => r.ents[e].deleted = m.ents[e].deleted
       /\ r.ents[e].deleted = "done" => m.ents[e].deleted = "done"
  /\ \A e \in All(r) \ All(m) : r.ents[e].id = None /\ r.ents[e].deleted # "done"
  /\ \A i : IdRef(i) \in DOMAIN r.byId => IdRef(i) \in DOMAIN m.byId

Edited(m, r, n) == Sound(r, n) /\ Keeps(m, r) /\ Edits(m, r)

LEMMA EditedSelf ==
  ASSUME NEW m, NEW n, Sound(m, n)
  PROVE  Edited(m, m, n)
BY DEF Edited, Keeps, Edits

LEMMA EditedTransitive ==
  ASSUME NEW m, NEW r, NEW q, NEW n, Edited(m, r, n), Edited(r, q, n)
  PROVE  Edited(m, q, n)
<1>1. Keeps(m, q)
  BY DEF Edited, Keeps
<1>2. Edits(m, q)
  BY DEF Edited, Keeps, Edits
<1> QED BY <1>1, <1>2 DEF Edited

\* Edits of the entities there are.
LEMMA SameEntitiesEdited ==
  ASSUME NEW m, NEW n, Sound(m, n),
         NEW r, IsManager(r), r.byId = m.byId, IsSeq(r.ents), All(r) = All(m),
         \A e \in All(m) :
           /\ IsEntity(r.ents[e])
           /\ r.ents[e].id = m.ents[e].id /\ r.ents[e].at = m.ents[e].at
           /\ r.ents[e].deleted = m.ents[e].deleted \/ (m.ents[e].deleted = "no" /\ r.ents[e].deleted = "pending")
  PROVE  Edited(m, r, n)
<1>1. Sound(r, n)
  BY DEF Sound
<1>2. Keeps(m, r) /\ Edits(m, r)
  BY DEF Keeps, Edits, IsEntity, Sound
<1> QED BY <1>1, <1>2 DEF Edited

LEMMA FilterEdited ==
  ASSUME NEW m, NEW n, Sound(m, n), NEW where
  PROVE  Edited(m, AfterFilter(m, where), n)
<1>1. IsManager(Indexed(m, where)) /\ Indexed(m, where).byId = m.byId /\ Indexed(m, where).ents = m.ents
  BY DEF Indexed, IsManager, Sound
<1>2. Edited(m, Indexed(m, where), n)
  BY <1>1, SameEntitiesEdited DEF Sound, All
<1> QED BY <1>2, EditedSelf DEF AfterFilter

\* One entity is changed.
LEMMA ChangeEdited ==
  ASSUME NEW m, NEW n, Sound(m, n), NEW e \in All(m), NEW r, IsManager(r), r.byId = m.byId,
         NEW x, r.ents = [m.ents EXCEPT ![e] = x], IsEntity(x),
         x.id = m.ents[e].id, x.at = m.ents[e].at,
         x.deleted = m.ents[e].deleted \/ (m.ents[e].deleted = "no" /\ x.deleted = "pending")
  PROVE  Edited(m, r, n)
<1>1. IsSeq(r.ents) /\ All(r) = All(m)
  <2>1. IsSeq(m.ents)
    BY DEF Sound
  <2> QED BY <2>1, ExceptIsSeq DEF All
<1>2. \A d \in All(m) : r.ents[d] = IF d = e THEN x ELSE m.ents[d]
  BY DEF All
<1>3. \A d \in All(m) : IsEntity(m.ents[d])
  BY DEF Sound
<1> QED BY <1>1, <1>2, <1>3, SameEntitiesEdited

LEMMA SetFieldEdited ==
  ASSUME NEW m, NEW n, Sound(m, n), NEW e \in All(m), NEW f, NEW v
  PROVE  Edited(m, SetField(m, e, f, v), n)
<1> DEFINE x == m.ents[e]
           i == MaybeUpdateFieldIndex(m, e, f, x.data[f], v)
           changed(orig) == [i EXCEPT !.ents[e].data[f] = v, !.ents[e].orig = orig]
           y(orig) == [[x EXCEPT !.data[f] = v] EXCEPT !.orig = orig]
<1>1. IsManager(i) /\ i.byId = m.byId /\ i.ents = m.ents
  BY DEF MaybeUpdateFieldIndex, IsManager, Sound
<1>2. IsEntity(x)
  BY DEF Sound
<1>3. ASSUME NEW orig
      PROVE  Edited(m, changed(orig), n)
  <2>1. IsManager(changed(orig)) /\ changed(orig).byId = m.byId
    BY <1>1 DEF IsManager
  <2>2. changed(orig).ents = [m.ents EXCEPT ![e] = y(orig)]
    BY <1>1 DEF IsManager, All
  <2>3. IsEntity(y(orig)) /\ y(orig).id = x.id /\ y(orig).at = x.at /\ y(orig).deleted = x.deleted
    BY <1>2 DEF IsEntity
  <2> HIDE DEF changed, y
  <2> QED BY <2>1, <2>2, <2>3, ChangeEdited
<1>4. SetField(m, e, f, v) = m \/ \E orig : SetField(m, e, f, v) = changed(orig)
  BY DEF SetField
<1> HIDE DEF changed
<1> QED BY <1>3, <1>4, EditedSelf

LEMMA SetReferenceEdited ==
  ASSUME NEW m, NEW n, Sound(m, n), NEW e \in All(m), NEW v
  PROVE  Edited(m, SetReference(m, e, v), n)
BY SetFieldEdited, EditedSelf DEF SetReference

LEMMA SetOptsEdited ==
  ASSUME NEW m, NEW n, Sound(m, n), NEW e \in All(m), NEW opts
  PROVE  Edited(m, SetOpts(m, e, opts), n)
<1>1. ASSUME NEW q, NEW f, Edited(m, q, n)
      PROVE  Edited(m, SetOpt(q, e, opts, f), n)
  <2>1. Sound(q, n) /\ e \in All(q)
    BY <1>1 DEF Edited, Keeps
  <2>2. Edited(q, SetOpt(q, e, opts, f), n)
    BY <2>1, SetFieldEdited, SetReferenceEdited, EditedSelf DEF SetOpt
  <2> QED BY <1>1, <2>2, EditedTransitive
<1>2. Edited(m, m, n)
  BY EditedSelf
<1> QED BY <1>1, <1>2 DEF SetOpts

LEMMA ResurrectEdited ==
  ASSUME NEW m, NEW n, Sound(m, n), NEW e \in All(m)
  PROVE  Edited(m, ResurrectIfSoftDeleted(m, e), n)
BY SetFieldEdited, EditedSelf DEF ResurrectIfSoftDeleted

LEMMA MarkDeletedEdited ==
  ASSUME NEW m, NEW n, Sound(m, n), NEW e \in All(m)
  PROVE  Edited(m, MarkDeleted(m, e), n)
<1> DEFINE x == m.ents[e]
           y == [x EXCEPT !.deleted = "pending"]
           r == [m EXCEPT !.ents[e].deleted = "pending"]
<1>1. IsEntity(x) /\ IsManager(m)
  BY DEF Sound
<1>2. IsManager(r) /\ r.byId = m.byId /\ r.ents = [m.ents EXCEPT ![e] = y]
  BY <1>1 DEF IsManager
<1>3. IsEntity(y) /\ y.id = x.id /\ y.at = x.at /\ y.deleted = "pending"
  BY <1>1 DEF IsEntity
<1>4. CASE IsLive(m, e)
  <2>1. x.deleted = "no"
    BY <1>4 DEF IsLive
  <2>2. Edited(m, r, n)
    <3> HIDE DEF r, y
    <3> QED BY <1>2, <1>3, <2>1, ChangeEdited
  <2> QED BY <1>4, <2>2 DEF MarkDeleted
<1>5. CASE ~IsLive(m, e)
  BY <1>5, EditedSelf DEF MarkDeleted
<1> QED BY <1>4, <1>5

\* An entity that is registered comes last.
LEMMA Registered ==
  ASSUME NEW m, NEW n, Sound(m, n), NEW x, NEW key
  PROVE  LET r == Register(m, x, key)
         IN  /\ IsManager(r) /\ IsSeq(r.ents)
             /\ All(r) = All(m) \cup {Len(m.ents) + 1} /\ Len(m.ents) + 1 \notin All(m)
             /\ r.ents[Len(m.ents) + 1] = x
             /\ \A e \in All(m) : r.ents[e] = m.ents[e]
             /\ DOMAIN r.byId = DOMAIN m.byId \cup {key}
             /\ r.byId[key] = Len(m.ents) + 1
             /\ \A k \in DOMAIN m.byId : k # key => r.byId[k] = m.byId[k]
<1>1. IsManager(m) /\ IsSeq(m.ents)
  BY DEF Sound
<1>2. Len(m.ents) \in Nat /\ DOMAIN m.ents = 1..Len(m.ents)
  BY <1>1, SeqFacts
<1>3. /\ IsSeq(Append(m.ents, x)) /\ DOMAIN Append(m.ents, x) = 1..(Len(m.ents) + 1)
      /\ Append(m.ents, x)[Len(m.ents) + 1] = x
      /\ \A e \in DOMAIN m.ents : Append(m.ents, x)[e] = m.ents[e]
  BY <1>1, AppendSeq
<1>4. /\ IsManager(Register(m, x, key))
      /\ Register(m, x, key).ents = Append(m.ents, x)
      /\ Register(m, x, key).byId =
           [k \in (DOMAIN m.byId) \union {key} |-> IF k = key THEN Len(m.ents) + 1 ELSE m.byId[k]]
  BY <1>1 DEF Register, IsManager
<1> QED BY <1>2, <1>3, <1>4 DEF All

LEMMA CreateEdited ==
  ASSUME NEW m, NEW n, Sound(m, n), NEW opts
  PROVE  Edited(m, Create(m, opts), n) /\ Len(m.ents) + 1 \in All(Create(m, opts))
<1> DEFINE x == [id |-> None, createId |-> m.created + 1, data |-> Blank, at |-> 0, orig |-> Clean,
                 deleted |-> "no"]
           key == Created(m.created + 1)
           q == Register(m, x, key)
           r == [q EXCEPT !.created = m.created + 1]
           new == Len(m.ents) + 1
<1>1. /\ IsManager(q) /\ IsSeq(q.ents)
      /\ All(q) = All(m) \cup {new} /\ new \notin All(m) /\ q.ents[new] = x
      /\ \A e \in All(m) : q.ents[e] = m.ents[e]
      /\ DOMAIN q.byId = DOMAIN m.byId \cup {key} /\ q.byId[key] = new
      /\ \A k \in DOMAIN m.byId : k # key => q.byId[k] = m.byId[k]
  BY Registered
<1>2. IsManager(r) /\ r.ents = q.ents /\ r.byId = q.byId /\ All(r) = All(q)
  BY <1>1 DEF IsManager, All
<1>3. \A i : IdRef(i) # key
  BY DEF IdRef, Created
<1>4. IsEntity(x) /\ x.id = None /\ x.deleted = "no"
  BY DEF IsEntity, None
<1> HIDE DEF x, key, q, r, new
<1>5. \A e \in All(m) : m.ents[e].id # None => IdRef(m.ents[e].id) \in DOMAIN m.byId
  BY DEF Sound
<1>6. \A i : IdRef(i) \in DOMAIN r.byId <=> IdRef(i) \in DOMAIN m.byId
  BY <1>1, <1>2, <1>3
<1>7. \A i : IdRef(i) \in DOMAIN m.byId => r.byId[IdRef(i)] = m.byId[IdRef(i)]
  BY <1>1, <1>2, <1>3
<1>8. Sound(r, n)
  <2>1. ASSUME NEW e \in All(r)
        PROVE  /\ IsEntity(r.ents[e])
               /\ r.ents[e].id # None =>
                    /\ r.ents[e].id \in 1..n
                    /\ IdRef(r.ents[e].id) \in DOMAIN r.byId /\ r.byId[IdRef(r.ents[e].id)] = e
    <3>1. CASE e = new
      BY <3>1, <1>1, <1>2, <1>4
    <3>2. CASE e \in All(m)
      <4>1. r.ents[e] = m.ents[e]
        BY <3>2, <1>1, <1>2
      <4> QED BY <3>2, <4>1, <1>6, <1>7 DEF Sound
    <3> QED BY <3>1, <3>2, <1>1, <1>2
  <2>2. \A k \in DOMAIN r.byId : r.byId[k] \in All(r)
    BY <1>1, <1>2 DEF Sound
  <2>3. \A i : IdRef(i) \in DOMAIN r.byId => i # None /\ r.ents[r.byId[IdRef(i)]].id = i
    <3> SUFFICES ASSUME NEW i, IdRef(i) \in DOMAIN r.byId
                 PROVE  i # None /\ r.ents[r.byId[IdRef(i)]].id = i
      OBVIOUS
    <3>1. IdRef(i) \in DOMAIN m.byId /\ r.byId[IdRef(i)] = m.byId[IdRef(i)]
      BY <1>6, <1>7
    <3>2. m.byId[IdRef(i)] \in All(m) /\ m.ents[m.byId[IdRef(i)]].id = i /\ i # None
      BY <3>1 DEF Sound
    <3> QED BY <3>1, <3>2, <1>1, <1>2
  <2> QED BY <2>1, <2>2, <2>3, <1>1, <1>2 DEF Sound
<1>9. Edited(m, r, n)
  <2>1. Keeps(m, r)
    BY <1>1, <1>2, <1>6, <1>7 DEF Keeps
  <2>2. Edits(m, r)
    BY <1>1, <1>2, <1>4, <1>6 DEF Edits, Sound, IsEntity
  <2> QED BY <1>8, <2>1, <2>2 DEF Edited
<1>10. new \in All(r)
  BY <1>1, <1>2
<1>11. Edited(r, SetOpts(r, new, opts), n)
  BY <1>8, <1>10, SetOptsEdited
<1>12. Create(m, opts) = SetOpts(r, new, opts)
  BY DEF Create, r, q, x, key, new
<1>13. new \in All(SetOpts(r, new, opts))
  BY <1>10, <1>11 DEF Edited, Keeps
<1> QED BY <1>9, <1>11, <1>12, <1>13, EditedTransitive DEF new

----------------------------------------------------------------------------
(* Hydration. *)

\* What hydrating the rows of ids, over what is in memory or not, makes of m.
Hydrates(m, r, rws, ids, over) ==
  /\ \A e \in All(m) :
       /\ r.ents[e].deleted = m.ents[e].deleted
       /\ \/ r.ents[e].at = m.ents[e].at
          \/ over /\ m.ents[e].id \in ids /\ r.ents[e].at = rws[m.ents[e].id].at
  /\ \A e \in All(r) \ All(m) : r.ents[e].id \in ids /\ r.ents[e].deleted = "no"
  /\ \A i : IdRef(i) \in DOMAIN r.byId <=> IdRef(i) \in DOMAIN m.byId \/ i \in ids

HydrateStep(c, i, a) == HydrateRow(a, i, c.rows[i], c.over)
Hydrating(c, a, ids) == Sound(a, c.last) /\ Keeps(c.m, a) /\ Hydrates(c.m, a, c.rows, ids, c.over)
HydrateFold == INSTANCE FoldInduction WITH Op <- HydrateStep, Pick <- Max, P <- Hydrating

LEMMA MaxIn ==
  ASSUME NEW n \in Nat, NEW S, S \subseteq 1..n, S # {}
  PROVE  Max(S) \in S
<1> DEFINE U == {k \in Nat : \A y \in S : y <= k}
<1>1. n \in U
  OBVIOUS
<1>2. PICK k \in U : \A y \in U : ~(y < k)
  BY <1>1, HydrateFold!LeastNatural
<1>3. k \in S
  <2> SUFFICES ASSUME k \notin S PROVE FALSE
    OBVIOUS
  <2>1. PICK z \in S : TRUE
    OBVIOUS
  <2>2. k \in Nat /\ z \in Nat /\ z <= k /\ z # k /\ z >= 1
    BY <2>1
  <2>3. k - 1 \in Nat
    BY <2>2
  <2>4. \A y \in S : y \in Nat /\ y <= k /\ y # k
    OBVIOUS
  <2>5. \A y \in S : y <= k - 1
    BY <2>2, <2>4
  <2>6. k - 1 \in U /\ k - 1 < k
    BY <2>2, <2>3, <2>5
  <2> QED BY <1>2, <2>6
<1>4. \E x \in S : \A y \in S : x >= y
  BY <1>3
<1> QED BY <1>4 DEF Max

LEMMA MinIn ==
  ASSUME NEW S, S \subseteq Nat, S # {}
  PROVE  Min(S) \in S
<1>1. PICK x \in S : \A y \in S : ~(y < x)
  BY HydrateFold!LeastNatural
<1>2. \A y \in S : x <= y
  BY <1>1
<1> QED BY <1>2 DEF Min

LEMMA HydrateRowStep ==
  ASSUME NEW m, NEW n, NEW rws, NEW over, NEW a, NEW ids,
         Sound(a, n), Keeps(m, a), Hydrates(m, a, rws, ids, over),
         NEW i \in 1..n, n \in Nat, rws[i].at \in Nat
  PROVE  LET r == HydrateRow(a, i, rws[i], over)
         IN  Sound(r, n) /\ Keeps(m, r) /\ Hydrates(m, r, rws, ids \cup {i}, over)
<1> DEFINE r == HydrateRow(a, i, rws[i], over)
           e == FindExistingInstance(a, IdRef(i))
<1>1. /\ IdRef(i) \in DOMAIN a.byId => e \in All(a) /\ e = a.byId[IdRef(i)] /\ a.ents[e].id = i
      /\ e = None <=> IdRef(i) \notin DOMAIN a.byId
  <2>1. All(a) \subseteq 1..Len(a.ents) /\ Len(a.ents) \in Nat
    BY SeqFacts DEF Sound, All
  <2>2. IdRef(i) \in DOMAIN a.byId => a.byId[IdRef(i)] \in All(a)
    BY DEF Sound
  <2> QED BY <2>1, <2>2 DEF FindExistingInstance, Sound, None
<1>2. \A k : IdRef(k) = IdRef(i) <=> k = i
  BY DEF IdRef
<1>3. CASE e = None
  <2> DEFINE x == [id |-> i, createId |-> 0, data |-> DataOf(rws[i]), at |-> rws[i].at, orig |-> Clean,
                   deleted |-> "no"]
             new == Len(a.ents) + 1
  <2>1. r = Register(a, x, IdRef(i))
    BY <1>3 DEF HydrateRow
  <2>2. IsEntity(x) /\ x.id = i /\ x.deleted = "no"
    BY DEF IsEntity
  <2>3. /\ IsManager(r) /\ IsSeq(r.ents)
        /\ All(r) = All(a) \cup {new} /\ new \notin All(a) /\ r.ents[new] = x
        /\ \A d \in All(a) : r.ents[d] = a.ents[d]
        /\ DOMAIN r.byId = DOMAIN a.byId \cup {IdRef(i)} /\ r.byId[IdRef(i)] = new
        /\ \A k \in DOMAIN a.byId : k # IdRef(i) => r.byId[k] = a.byId[k]
    <3> HIDE DEF x
    <3> QED BY <2>1, Registered
  <2>4. IdRef(i) \notin DOMAIN a.byId
    BY <1>1, <1>3
  <2> HIDE DEF x, new, r, e
  <2>5. Sound(r, n)
    <3>1. ASSUME NEW d \in All(r)
          PROVE  /\ IsEntity(r.ents[d])
                 /\ r.ents[d].id # None =>
                      /\ r.ents[d].id \in 1..n
                      /\ IdRef(r.ents[d].id) \in DOMAIN r.byId /\ r.byId[IdRef(r.ents[d].id)] = d
      <4>1. CASE d = new
        BY <4>1, <2>2, <2>3
      <4>2. CASE d \in All(a)
        <5>1. r.ents[d] = a.ents[d]
          BY <4>2, <2>3
        <5> QED BY <4>2, <5>1, <2>3, <2>4 DEF Sound
      <4> QED BY <4>1, <4>2, <2>3
    <3>2. \A k \in DOMAIN r.byId : r.byId[k] \in All(r)
      BY <2>3 DEF Sound
    <3>3. ASSUME NEW k, IdRef(k) \in DOMAIN r.byId
          PROVE  k # None /\ r.ents[r.byId[IdRef(k)]].id = k
      <4>1. CASE k = i
        BY <4>1, <2>2, <2>3 DEF None
      <4>2. CASE k # i
        <5>1. IdRef(k) \in DOMAIN a.byId /\ r.byId[IdRef(k)] = a.byId[IdRef(k)]
          BY <3>3, <4>2, <1>2, <2>3
        <5>2. a.byId[IdRef(k)] \in All(a) /\ k # None /\ a.ents[a.byId[IdRef(k)]].id = k
          BY <5>1 DEF Sound
        <5> QED BY <5>1, <5>2, <2>3
      <4> QED BY <4>1, <4>2
    <3> QED BY <3>1, <3>2, <3>3, <2>3 DEF Sound
  <2>6. Keeps(m, r)
    BY <2>3, <2>4 DEF Keeps
  <2>7. Hydrates(m, r, rws, ids \cup {i}, over)
    <3>1. \A d \in All(m) : d \in All(a) /\ r.ents[d] = a.ents[d]
      BY <2>3 DEF Keeps
    <3>2. \A d \in All(r) \ All(m) : r.ents[d].id \in ids \cup {i} /\ r.ents[d].deleted = "no"
      BY <2>2, <2>3 DEF Hydrates
    <3>3. \A k : IdRef(k) \in DOMAIN r.byId <=> IdRef(k) \in DOMAIN m.byId \/ k \in ids \cup {i}
      BY <1>2, <2>3 DEF Hydrates
    <3> QED BY <3>1, <3>2, <3>3 DEF Hydrates
  <2> QED BY <2>5, <2>6, <2>7 DEF r
<1>4. CASE e # None
  <2>1. e \in All(a) /\ a.ents[e].id = i /\ IdRef(i) \in DOMAIN a.byId
    BY <1>1, <1>4
  <2>2. IsManager(a) /\ IsSeq(a.ents) /\ \A d \in All(a) : IsEntity(a.ents[d])
    BY DEF Sound
  <2>3. /\ IsManager(r) /\ r.byId = a.byId /\ All(r) = All(a) /\ IsSeq(r.ents)
        /\ \A d \in All(a) :
             /\ IsEntity(r.ents[d]) /\ r.ents[d].id = a.ents[d].id /\ r.ents[d].deleted = a.ents[d].deleted
             /\ r.ents[d].at = a.ents[d].at \/ (over /\ d = e /\ r.ents[d].at = rws[i].at)
    <3>1. CASE ~over
      <4>1. r = a
        BY <3>1, <1>4 DEF HydrateRow
      <4> QED BY <4>1, <2>2
    <3>2. CASE over
      <4> DEFINE y == [[[a.ents[e] EXCEPT !.data = DataOf(rws[i])] EXCEPT !.at = rws[i].at] EXCEPT !.orig = Clean]
      <4>1. r = [a EXCEPT !.ents[e].data = DataOf(rws[i]), !.ents[e].at = rws[i].at, !.ents[e].orig = Clean]
        BY <3>2, <1>4 DEF HydrateRow
      <4> DEFINE q(d, k, o) == [a EXCEPT !.ents[e].data = d, !.ents[e].at = k, !.ents[e].orig = o]
                 z(d, k, o) == [[[a.ents[e] EXCEPT !.data = d] EXCEPT !.at = k] EXCEPT !.orig = o]
      <4> HIDE DEF e, r
      <4>5. ASSUME NEW d, NEW k, NEW o
            PROVE  /\ IsManager(q(d, k, o)) /\ q(d, k, o).byId = a.byId
                   /\ q(d, k, o).ents = [a.ents EXCEPT ![e] = z(d, k, o)]
        <5>1. e \in DOMAIN a.ents
          BY <2>1 DEF All
        <5>2. q(d, k, o) = [a EXCEPT !.ents = [[[a.ents EXCEPT ![e].data = d] EXCEPT ![e].at = k] EXCEPT ![e].orig = o]]
          BY <2>2, <5>1 DEF IsManager
        <5>3. [[[a.ents EXCEPT ![e].data = d] EXCEPT ![e].at = k] EXCEPT ![e].orig = o] = [a.ents EXCEPT ![e] = z(d, k, o)]
          BY <5>1
        <5> HIDE DEF z
        <5> QED BY <5>2, <5>3, <2>2 DEF IsManager
      <4>2. IsManager(r) /\ r.byId = a.byId /\ r.ents = [a.ents EXCEPT ![e] = y]
        <5>1. r = q(DataOf(rws[i]), rws[i].at, Clean) /\ y = z(DataOf(rws[i]), rws[i].at, Clean)
          BY <4>1
        <5> HIDE DEF q, z, y
        <5> QED BY <5>1, <4>5
      <4>3. IsEntity(y) /\ y.id = a.ents[e].id /\ y.deleted = a.ents[e].deleted /\ y.at = rws[i].at
        BY <2>1, <2>2 DEF IsEntity
      <4> HIDE DEF y, r
      <4>4. IsSeq(r.ents) /\ All(r) = All(a)
        BY <4>2, <2>2, ExceptIsSeq DEF All
      <4> QED BY <4>2, <4>3, <4>4, <2>2, <3>2 DEF All
    <3> QED BY <3>1, <3>2
  <2> HIDE DEF e, r
  <2>4. Sound(r, n)
    BY <2>3 DEF Sound
  <2>5. Keeps(m, r)
    BY <2>3 DEF Keeps
  <2>6. Hydrates(m, r, rws, ids \cup {i}, over)
    <3>1. \A d \in All(m) : d \in All(a) /\ a.ents[d].id = m.ents[d].id
      BY DEF Keeps
    <3>2. \A k : IdRef(k) \in DOMAIN r.byId <=> IdRef(k) \in DOMAIN m.byId \/ k \in ids \cup {i}
      BY <1>2, <2>1, <2>3 DEF Hydrates
    <3>3. \A d \in All(m) :
            /\ r.ents[d].deleted = m.ents[d].deleted
            /\ \/ r.ents[d].at = m.ents[d].at
               \/ over /\ m.ents[d].id \in ids \cup {i} /\ r.ents[d].at = rws[m.ents[d].id].at
      BY <3>1, <2>1, <2>3 DEF Hydrates
    <3> QED BY <3>2, <3>3, <2>3 DEF Hydrates
  <2> QED BY <2>4, <2>5, <2>6 DEF r
<1> QED BY <1>3, <1>4

LEMMA HydrateHydrates ==
  ASSUME NEW m, NEW n \in Nat, Sound(m, n), NEW rws, NEW over,
         NEW ids, ids \subseteq 1..n, \A i \in ids : rws[i].at \in Nat
  PROVE  LET r == Hydrate(m, rws, ids, over)
         IN  Sound(r, n) /\ Keeps(m, r) /\ Hydrates(m, r, rws, ids, over)
<1> DEFINE c == [m |-> m, rows |-> rws, over |-> over, last |-> n]
<1>1. Hydrate(m, rws, ids, over) = HydrateFold!Fold(c, m, ids)
  BY DEF Hydrate, FoldAscending, MapThenFoldSet, HydrateFold!Fold, HydrateStep
<1>2. IsFiniteSet(ids)
  BY FS_Interval, FS_Subset
<1>3. \A T \in SUBSET ids : T # {} => Max(T) \in T
  BY MaxIn
<1>4. Hydrating(c, m, {})
  BY DEF Hydrating, Keeps, Hydrates
<1>5. ASSUME NEW T \in SUBSET ids, NEW i \in ids, NEW a, Hydrating(c, a, T)
      PROVE  Hydrating(c, HydrateStep(c, i, a), T \cup {i})
  <2>1. c.m = m /\ c.rows = rws /\ c.over = over /\ c.last = n
    OBVIOUS
  <2> HIDE DEF c
  <2>2. Sound(a, n) /\ Keeps(m, a) /\ Hydrates(m, a, rws, T, over)
    BY <1>5, <2>1 DEF Hydrating
  <2>3. i \in 1..n /\ rws[i].at \in Nat
    OBVIOUS
  <2> DEFINE q == HydrateRow(a, i, rws[i], over)
  <2>4. Sound(q, n) /\ Keeps(m, q) /\ Hydrates(m, q, rws, T \cup {i}, over)
    BY <2>2, <2>3, HydrateRowStep
  <2> QED BY <2>1, <2>4 DEF Hydrating, HydrateStep
<1>6. Hydrating(c, HydrateFold!Fold(c, m, ids), ids)
  <2> HIDE DEF c
  <2>1. \A T \in SUBSET ids, i \in ids : \A a :
          i \notin T /\ Max(T \cup {i}) = i /\ Hydrating(c, a, T) => Hydrating(c, HydrateStep(c, i, a), T \cup {i})
    BY <1>5
  <2>2. HydrateFold!IsFiniteSet(ids)
    BY <1>2 DEF IsFiniteSet, HydrateFold!IsFiniteSet
  <2> QED BY <2>2, <1>3, <1>4, <2>1, HydrateFold!FoldInvariant
<1> QED BY <1>1, <1>6 DEF Hydrating

\* What the database no longer has is deleted for good.
LEMMA NotFoundDeletes ==
  ASSUME NEW m, NEW n, Sound(m, n), NEW ids
  PROVE  LET r == MarkDeletedBecauseNotFound(m, ids)
         IN  /\ Sound(r, n) /\ Keeps(m, r) /\ All(r) = All(m) /\ r.byId = m.byId
             /\ \A e \in All(m) :
                  /\ r.ents[e].at = m.ents[e].at
                  /\ r.ents[e].deleted = m.ents[e].deleted \/ (r.ents[e].deleted = "done" /\ m.ents[e].id \in ids)
<1> DEFINE missing == {m.byId[IdRef(i)] : i \in {j \in ids : IdRef(j) \in DOMAIN m.byId}}
           s == [e \in DOMAIN m.ents |-> IF e \in missing THEN [m.ents[e] EXCEPT !.deleted = "done"] ELSE m.ents[e]]
           r == MarkDeletedBecauseNotFound(m, ids)
<1>1. IsManager(m) /\ IsSeq(m.ents) /\ \A e \in All(m) : IsEntity(m.ents[e])
  BY DEF Sound
<1>2. \A e \in missing : e \in All(m) /\ m.ents[e].id \in ids
  BY DEF Sound
<1>3. IsManager(r) /\ r.byId = m.byId /\ r.ents = s
  BY <1>1 DEF MarkDeletedBecauseNotFound, IsManager
<1>4. IsSeq(s) /\ DOMAIN s = DOMAIN m.ents
  <2>1. Len(m.ents) \in Nat /\ DOMAIN m.ents = 1..Len(m.ents)
    BY <1>1, SeqFacts
  <2>2. DOMAIN s = 1..Len(m.ents) /\ s = [i \in 1..Len(m.ents) |-> s[i]]
    BY <2>1
  <2> HIDE DEF s
  <2> QED BY <2>1, <2>2, FunctionIsSeq
<1>5. ASSUME NEW e \in All(m)
      PROVE  /\ IsEntity(s[e]) /\ s[e].id = m.ents[e].id /\ s[e].at = m.ents[e].at
             /\ s[e].deleted = m.ents[e].deleted \/ (s[e].deleted = "done" /\ m.ents[e].id \in ids)
  <2> DEFINE x == m.ents[e]
             y == [x EXCEPT !.deleted = "done"]
  <2>1. s[e] = IF e \in missing THEN y ELSE x
    BY DEF All
  <2>2. IsEntity(x)
    BY <1>1
  <2>3. IsEntity(y) /\ y.id = x.id /\ y.at = x.at /\ y.deleted = "done"
    BY <2>2 DEF IsEntity
  <2> HIDE DEF y, s, missing
  <2> QED BY <2>1, <2>2, <2>3, <1>2
<1> HIDE DEF r, s, missing
<1>6. All(r) = All(m)
  BY <1>3, <1>4 DEF All
<1>7. Sound(r, n)
  BY <1>3, <1>4, <1>5, <1>6 DEF Sound
<1>8. Keeps(m, r)
  BY <1>3, <1>5, <1>6 DEF Keeps
<1> QED BY <1>3, <1>5, <1>6, <1>7, <1>8 DEF r

----------------------------------------------------------------------------
(* A flush. *)

\* The new ones are numbered from 1 in their order.
LEMMA Ranks ==
  ASSUME NEW S, S \subseteq Nat, IsFiniteSet(S)
  PROVE  LET rank(e) == Cardinality({d \in S : d <= e})
         IN  /\ Cardinality(S) \in Nat
             /\ \A e \in S : rank(e) \in 1..Cardinality(S)
             /\ \A e, f \in S : rank(e) = rank(f) => e = f
<1> DEFINE upTo(e) == {d \in S : d <= e}
           rank(e) == Cardinality(upTo(e))
<1>1. \A T \in SUBSET S : IsFiniteSet(T) /\ Cardinality(T) \in Nat /\ Cardinality(T) <= Cardinality(S)
  BY FS_Subset, FS_CardinalityType
<1>2. Cardinality(S) \in Nat
  BY FS_CardinalityType
<1>3. ASSUME NEW e \in S
      PROVE  rank(e) \in 1..Cardinality(S)
  <2>1. upTo(e) \in SUBSET S /\ e \in upTo(e)
    OBVIOUS
  <2>2. rank(e) # 0
    BY <1>1, <2>1, FS_EmptySet
  <2> QED BY <1>1, <1>2, <2>1, <2>2
<1>4. ASSUME NEW e \in S, NEW f \in S, e < f
      PROVE  rank(e) < rank(f)
  <2> e \in Nat /\ f \in Nat
    OBVIOUS
  <2>1. upTo(e) \in SUBSET S /\ upTo(f) \in SUBSET S /\ f \in upTo(f) /\ upTo(e) \subseteq upTo(f) \ {f}
    <3>1. f <= f /\ ~(f <= e)
      BY <1>4
    <3>2. \A d \in S : d <= e => d <= f
      BY <1>4
    <3> QED BY <3>1, <3>2
  <2>2. IsFiniteSet(upTo(f)) /\ Cardinality(upTo(f)) \in Nat /\ Cardinality(upTo(e)) \in Nat
    BY <1>1, <2>1
  <2>3. IsFiniteSet(upTo(f) \ {f}) /\ Cardinality(upTo(f) \ {f}) = Cardinality(upTo(f)) - 1
    BY <2>1, <2>2, FS_RemoveElement
  <2>4. Cardinality(upTo(e)) <= Cardinality(upTo(f) \ {f})
    BY <2>1, <2>3, FS_Subset
  <2> QED BY <2>2, <2>3, <2>4
<1>5. ASSUME NEW e \in S, NEW f \in S, rank(e) = rank(f)
      PROVE  e = f
  <2>1. rank(e) \in Nat /\ rank(f) \in Nat
    BY <1>1
  <2>2. e \in Nat /\ f \in Nat
    OBVIOUS
  <2> HIDE DEF rank
  <2>3. ~(e < f) /\ ~(f < e)
    BY <1>4, <1>5, <2>1
  <2> QED BY <2>2, <2>3
<1> QED BY <1>2, <1>3, <1>5

\* What a flush makes of the entities m: the new ones have ids after n, what was to be deleted is.
Flushes(m, r, n) ==
  /\ All(r) = All(m)
  /\ \A e \in All(m) :
       /\ e \in News(m) => r.ents[e].id \in Nat /\ r.ents[e].id > n
       /\ e \notin News(m) => r.ents[e].id = m.ents[e].id
       /\ r.ents[e].at = IF IsLive(m, e) /\ IsPending(m, e) THEN m.ents[e].at + 1 ELSE m.ents[e].at
       /\ r.ents[e].deleted = IF m.ents[e].deleted = "pending" THEN "done" ELSE m.ents[e].deleted
  /\ \A i : IdRef(i) \in DOMAIN m.byId => IdRef(i) \in DOMAIN r.byId /\ r.byId[IdRef(i)] = m.byId[IdRef(i)]
  /\ \A i : IdRef(i) \in DOMAIN r.byId => IdRef(i) \in DOMAIN m.byId \/ (i \in Nat /\ i > n)

LEMMA FlushedFlushes ==
  ASSUME NEW m, NEW n \in Nat, Sound(m, n)
  PROVE  LET r == Flushed(m, n)
             last2 == n + Cardinality(News(m))
         IN  last2 \in Nat /\ last2 >= n /\ Sound(r, last2) /\ Flushes(m, r, n)
<1> DEFINE news == News(m)
           rank(e) == Cardinality({d \in news : d <= e})
           id(e) == IdAfter(m, n, e)
           last2 == n + Cardinality(news)
           y(e) == FlushedEntity(m, n, e)
           s == [e \in All(m) |-> y(e)]
           keys == {IdRef(id(e)) : e \in news}
           fresh == [k \in keys |-> CHOOSE e \in news : IdRef(id(e)) = k]
           r == Flushed(m, n)
<1>1. IsManager(m) /\ IsSeq(m.ents) /\ \A e \in All(m) : IsEntity(m.ents[e])
  BY DEF Sound
<1>2. Len(m.ents) \in Nat /\ All(m) = 1..Len(m.ents)
  BY <1>1, SeqFacts DEF All
<1>3. news \subseteq Nat /\ IsFiniteSet(news) /\ news \subseteq All(m)
  <2>1. news \subseteq 1..Len(m.ents) /\ news \subseteq All(m)
    BY <1>2 DEF News
  <2>2. IsFiniteSet(1..Len(m.ents))
    BY <1>2, FS_Interval
  <2> QED BY <2>1, <2>2, FS_Subset
<1>4. /\ Cardinality(news) \in Nat
      /\ \A e \in news : rank(e) \in 1..Cardinality(news)
      /\ \A e, f \in news : rank(e) = rank(f) => e = f
  BY <1>3, Ranks
<1>5. IsManager(r) /\ r.ents = s /\ r.byId = Over(m.byId, fresh)
  <2>1. r = [m EXCEPT !.ents = s, !.byId = Over(m.byId, fresh)]
    BY DEF Flushed
  <2> HIDE DEF s, fresh, r
  <2> QED BY <2>1, <1>1 DEF IsManager
<1>6. \A e \in All(m) : id(e) = IF e \in news THEN n + rank(e) ELSE m.ents[e].id
  BY DEF IdAfter
<1> HIDE DEF news, rank, id
<1>7. ASSUME NEW e \in news
      PROVE  e \in All(m) /\ id(e) \in Nat /\ id(e) > n /\ id(e) <= last2 /\ m.ents[e].id = None
  <2>1. e \in All(m) /\ rank(e) \in 1..Cardinality(news)
    BY <1>3, <1>4
  <2>2. id(e) = n + rank(e)
    BY <1>6, <2>1
  <2>3. m.ents[e].id = None
    BY DEF news, News, IsNew
  <2> QED BY <1>4, <2>1, <2>2, <2>3
<1>8. ASSUME NEW e \in All(m)
      PROVE  /\ IsEntity(y(e)) /\ y(e).id = id(e)
             /\ y(e).at = IF IsLive(m, e) /\ IsPending(m, e) THEN m.ents[e].at + 1 ELSE m.ents[e].at
             /\ y(e).deleted = IF m.ents[e].deleted = "pending" THEN "done" ELSE m.ents[e].deleted
  <2> DEFINE x == m.ents[e]
             at == IF IsLive(m, e) /\ IsPending(m, e) THEN x.at + 1 ELSE x.at
             deleted == IF x.deleted = "pending" THEN "done" ELSE x.deleted
             z(i, o, a, d) == [[[[x EXCEPT !.id = i] EXCEPT !.orig = o] EXCEPT !.at = a] EXCEPT !.deleted = d]
  <2>1. IsEntity(x) /\ x.at \in Nat /\ x.id \in Nat
    BY <1>1 DEF IsEntity
  <2>2. id(e) \in Nat
    BY <1>6, <1>7, <2>1
  <2>3. at \in Nat /\ deleted \in {"no", "pending", "done"}
    BY <2>1 DEF IsEntity
  <2>4. y(e) = z(id(e), Clean, at, deleted)
    BY <2>1 DEF IsEntity, FlushedEntity, id
  <2>6. ASSUME NEW i \in Nat, NEW o, NEW a \in Nat, NEW d \in {"no", "pending", "done"}
        PROVE  IsEntity(z(i, o, a, d)) /\ z(i, o, a, d).id = i /\ z(i, o, a, d).at = a /\ z(i, o, a, d).deleted = d
    BY <2>1 DEF IsEntity
  <2> HIDE DEF z, y
  <2>7. IsEntity(y(e)) /\ y(e).id = id(e) /\ y(e).at = at /\ y(e).deleted = deleted
    <3> HIDE DEF at, deleted
    <3> QED BY <2>2, <2>3, <2>4, <2>6
  <2> QED BY <2>7
<1> HIDE DEF y
<1>9. IsSeq(s) /\ DOMAIN s = All(m)
  <2>1. DOMAIN s = 1..Len(m.ents) /\ s = [i \in 1..Len(m.ents) |-> s[i]]
    BY <1>2
  <2> HIDE DEF s
  <2> QED BY <1>2, <2>1, FunctionIsSeq
<1>10. All(r) = All(m) /\ \A e \in All(m) : r.ents[e] = y(e)
  BY <1>5, <1>9 DEF All
<1> HIDE DEF s, r
<1>11. \A e, f \in news : IdRef(id(e)) = IdRef(id(f)) => e = f
  <2> SUFFICES ASSUME NEW e \in news, NEW f \in news, IdRef(id(e)) = IdRef(id(f))
               PROVE  e = f
    OBVIOUS
  <2>1. id(e) = id(f)
    BY DEF IdRef
  <2>2. rank(e) \in Nat /\ rank(f) \in Nat /\ e \in All(m) /\ f \in All(m)
    BY <1>3, <1>4
  <2>3. rank(e) = rank(f)
    BY <1>6, <2>1, <2>2
  <2> QED BY <1>4, <2>3
<1>12. DOMAIN fresh = keys /\ \A e \in news : IdRef(id(e)) \in keys /\ fresh[IdRef(id(e))] = e
  <2>1. ASSUME NEW e \in news
        PROVE  fresh[IdRef(id(e))] = e
    <3>1. IdRef(id(e)) \in keys
      OBVIOUS
    <3>2. fresh[IdRef(id(e))] = CHOOSE f \in news : IdRef(id(f)) = IdRef(id(e))
      BY <3>1
    <3> QED BY <3>2, <1>11
  <2> QED BY <2>1
<1>13. \A i : IdRef(i) \in DOMAIN m.byId => i \in Nat /\ i <= n /\ i # None /\ m.ents[m.byId[IdRef(i)]].id = i
                                            /\ m.byId[IdRef(i)] \in All(m)
  BY DEF Sound
<1>14. \A i : IdRef(i) \in keys <=> \E e \in news : i = id(e)
  BY DEF IdRef
<1>15. \A k \in keys : fresh[k] \in news
  BY <1>12
<1> HIDE DEF fresh, keys
<1>16. /\ DOMAIN r.byId = DOMAIN m.byId \cup keys
       /\ \A k \in DOMAIN m.byId : r.byId[k] = m.byId[k]
       /\ \A k \in keys : k \notin DOMAIN m.byId => r.byId[k] = fresh[k]
  BY <1>5, <1>12 DEF Over
<1>17. \A e \in news : IdRef(id(e)) \notin DOMAIN m.byId
  BY <1>7, <1>13
<1>18. last2 \in Nat /\ last2 >= n
  BY <1>4
<1>19. \A e \in All(m) \ news : id(e) = m.ents[e].id
  BY <1>6
<1> HIDE DEF last2
<1>20. Sound(r, last2)
  <2>1. ASSUME NEW e \in All(m), id(e) # None
        PROVE  id(e) \in 1..last2 /\ IdRef(id(e)) \in DOMAIN r.byId /\ r.byId[IdRef(id(e))] = e
    <3>1. CASE e \in news
      BY <3>1, <1>7, <1>12, <1>16, <1>17, <1>18
    <3>2. CASE e \notin news
      <4>1. id(e) \in 1..n /\ IdRef(id(e)) \in DOMAIN m.byId /\ m.byId[IdRef(id(e))] = e
        BY <2>1, <3>2, <1>19 DEF Sound
      <4> QED BY <4>1, <1>16, <1>18
    <3> QED BY <3>1, <3>2
  <2>2. \A k \in DOMAIN r.byId : r.byId[k] \in All(m)
    <3>1. \A k \in DOMAIN m.byId : m.byId[k] \in All(m)
      BY DEF Sound
    <3> QED BY <3>1, <1>3, <1>15, <1>16
  <2>3. ASSUME NEW i, IdRef(i) \in DOMAIN r.byId
        PROVE  i # None /\ id(r.byId[IdRef(i)]) = i
    <3>1. CASE IdRef(i) \in DOMAIN m.byId
      <4>1. m.byId[IdRef(i)] \notin news
        BY <3>1, <1>7, <1>13
      <4> QED BY <3>1, <4>1, <1>13, <1>16, <1>19
    <3>2. CASE IdRef(i) \notin DOMAIN m.byId
      <4>1. PICK e \in news : i = id(e)
        BY <3>2, <2>3, <1>14, <1>16
      <4> QED BY <4>1, <1>7, <1>12, <1>16, <1>17 DEF None
    <3> QED BY <3>1, <3>2
  <2>4. \A e \in All(m) : IsEntity(r.ents[e]) /\ r.ents[e].id = id(e)
    BY <1>8, <1>10
  <2>5. IsManager(r) /\ IsSeq(r.ents)
    BY <1>5, <1>9
  <2>6. \A i : IdRef(i) \in DOMAIN r.byId => i # None /\ r.ents[r.byId[IdRef(i)]].id = i
    BY <2>2, <2>3, <2>4
  <2> QED BY <2>1, <2>2, <2>4, <2>5, <2>6, <1>10 DEF Sound
<1>21. Flushes(m, r, n)
  <2>1. \A e \in All(m) : r.ents[e].id = id(e)
    BY <1>8, <1>10
  <2>2. \A i : IdRef(i) \in DOMAIN r.byId => IdRef(i) \in DOMAIN m.byId \/ (i \in Nat /\ i > n)
    BY <1>7, <1>14, <1>16
  <2>3. \A e \in All(m) :
          /\ r.ents[e].at = IF IsLive(m, e) /\ IsPending(m, e) THEN m.ents[e].at + 1 ELSE m.ents[e].at
          /\ r.ents[e].deleted = IF m.ents[e].deleted = "pending" THEN "done" ELSE m.ents[e].deleted
    BY <1>8, <1>10
  <2> QED BY <2>1, <2>2, <2>3, <1>7, <1>10, <1>16, <1>19 DEF Flushes, news
<1> QED BY <1>18, <1>20, <1>21 DEF r, last2, news

----------------------------------------------------------------------------
(* The inductive invariant. *)

IsRow(row) == row \in [name : {row.name}, ref : {row.ref}, gone : {row.gone}, at : Nat]
IsQuery(q) ==
  q \in [kind : {q.kind}, where : {q.where}, ids : {q.ids}, loader : Nat, state : {"queued", "sent", "done"},
         at : {q.at}, snap : {q.snap}, found : {q.found}]
IsCall(c) ==
  c \in [kind : {c.kind}, where : {c.where}, ids : {c.ids}, there : {c.there}, on : {c.on}, answered : {c.answered}]
IsBatch(b) ==
  b \in [where : {b.where}, keys : {b.keys}, loader : {b.loader},
         state : {"queued", "finding", "done", "failed"}, on : {b.on}, entity : {b.entity}]

\* The loaders select rows of ids up to n, of loaders up to g, and have found entities of m.
QueriesOK(qs, n, g, m) ==
  /\ IsSeq(qs)
  /\ \A i \in DOMAIN qs :
       /\ IsQuery(qs[i]) /\ qs[i].ids \subseteq 1..n /\ qs[i].loader \in 0..g /\ qs[i].found \subseteq All(m)
       /\ qs[i].kind \in Finds => qs[i].ids = {}
CallsOK(cs, qs) == IsSeq(cs) /\ \A c \in DOMAIN cs : IsCall(cs[c]) /\ cs[c].on \in DOMAIN qs
BatchesOK(bs, qs, m) ==
  /\ IsSeq(bs)
  /\ \A b \in DOMAIN bs :
       /\ IsBatch(bs[b])
       /\ bs[b].state = "finding" => bs[b].on \in DOMAIN qs
       /\ IF bs[b].state = "done" THEN bs[b].entity \in All(m) ELSE bs[b].entity = None

Rows ==
  /\ last \in Nat /\ open \subseteq 1..last
  /\ DOMAIN rows \subseteq 1..last /\ DOMAIN rows \intersect open = {}
  /\ \A i \in DOMAIN rows : IsRow(rows[i])

Memory ==
  /\ Sound(em, last)
  /\ \A i \in open : IdRef(i) \notin DOMAIN em.byId
  /\ \A i \in DOMAIN committed : IdRef(i) \in DOMAIN em.byId

Loaders ==
  /\ loaders \in Nat
  /\ QueriesOK(queries, last, loaders, em) /\ CallsOK(calls, queries) /\ BatchesOK(batches, queries, em)

\* What was selected and is not answered.
Snaps ==
  \A i \in DOMAIN queries : queries[i].state = "sent" =>
    /\ DOMAIN queries[i].snap \subseteq 1..last /\ DOMAIN queries[i].snap \intersect open = {}
    /\ \A k \in DOMAIN queries[i].snap : IsRow(queries[i].snap[k])

\* A row that a query did not find is not there when the answer comes.
Missed ==
  \A i \in DOMAIN queries : queries[i].state = "sent" =>
    (queries[i].ids \ DOMAIN queries[i].snap) \intersect DOMAIN rows = {}

\* Neither a row nor what a refresh has selected is behind the manager's own commit of it.
RowsAreCurrent ==
  \A i \in DOMAIN committed : committed[i] \in Nat /\ (i \in DOMAIN rows => rows[i].at >= committed[i])
SnapsAreCurrent ==
  \A i \in DOMAIN queries : queries[i].state = "sent" /\ queries[i].kind = "refresh" =>
    \A k \in DOMAIN committed : k \in DOMAIN queries[i].snap => queries[i].snap[k].at >= committed[k]

IInv ==
  /\ Rows /\ Memory /\ Loaders /\ Snaps
  /\ "insert" \notin Allowed => Missed /\ DeletedAreGone
  /\ "flush" \notin Allowed => RowsAreCurrent /\ SnapsAreCurrent /\ NotBehindOwnCommit

----------------------------------------------------------------------------
(* Steps that touch neither the database nor what was read from it. *)

\* What is sent in qs was sent before.
Same(qs) ==
  \A i \in DOMAIN qs : qs[i].state = "sent" =>
    /\ i \in DOMAIN queries /\ queries[i].state = "sent"
    /\ qs[i].kind = queries[i].kind /\ qs[i].ids = queries[i].ids /\ qs[i].snap = queries[i].snap

LEMMA Calm ==
  ASSUME IInv, UNCHANGED database, Edited(em, em', last), Same(queries'), Loaders'
  PROVE  IInv'
<1> USE DEF database
<1>1. Rows'
  BY DEF IInv, Rows
<1>2. Memory'
  BY DEF IInv, Memory, Edited, Keeps, Edits
<1>3. Snaps'
  BY DEF IInv, Snaps, Same
<1>4. ASSUME Missed, DeletedAreGone
      PROVE  (Missed /\ DeletedAreGone)'
  <2>1. Missed'
    BY <1>4 DEF Missed, Same
  <2>2. ASSUME NEW e \in All(em)', em'.ents[e].deleted = "done"
        PROVE  em'.ents[e].id \notin DOMAIN rows
    <3>1. e \in All(em) /\ em.ents[e].deleted = "done" /\ em'.ents[e].id = em.ents[e].id
      BY <2>2 DEF Edited, Edits, Keeps
    <3> QED BY <1>4, <3>1 DEF DeletedAreGone
  <2> QED BY <2>1, <2>2 DEF DeletedAreGone
<1>5. ASSUME RowsAreCurrent, SnapsAreCurrent, NotBehindOwnCommit
      PROVE  (RowsAreCurrent /\ SnapsAreCurrent /\ NotBehindOwnCommit)'
  <2>1. (RowsAreCurrent /\ SnapsAreCurrent)'
    BY <1>5 DEF RowsAreCurrent, SnapsAreCurrent, Same
  <2>2. ASSUME NEW i \in DOMAIN committed
        PROVE  LET e == em'.byId[IdRef(i)] IN ~IsLive(em', e) \/ em'.ents[e].at >= committed[i]
    <3> DEFINE e == em.byId[IdRef(i)]
    <3>1. IdRef(i) \in DOMAIN em.byId /\ e \in All(em)
      BY DEF IInv, Memory, Sound
    <3>2. em'.byId[IdRef(i)] = e /\ em'.ents[e].at = em.ents[e].at
      BY <3>1 DEF Edited, Keeps, Edits
    <3>3. IsLive(em', e) => IsLive(em, e)
      BY <3>1 DEF Edited, Edits, IsLive
    <3> QED BY <1>5, <3>2, <3>3 DEF NotBehindOwnCommit
  <2> QED BY <2>1, <2>2 DEF NotBehindOwnCommit
<1> QED BY <1>1, <1>2, <1>3, <1>4, <1>5 DEF IInv

\* The loaders go on while more is asked of them, and more is in memory.
LEMMA QueriesGrow ==
  ASSUME NEW qs, NEW n \in Nat, NEW g \in Nat, NEW m, QueriesOK(qs, n, g, m),
         NEW n2 \in Nat, n2 >= n, NEW g2 \in Nat, g2 >= g, NEW m2, All(m) \subseteq All(m2)
  PROVE  QueriesOK(qs, n2, g2, m2)
BY DEF QueriesOK

LEMMA CallsGrow ==
  ASSUME NEW cs, NEW qs, CallsOK(cs, qs), NEW qs2, DOMAIN qs \subseteq DOMAIN qs2
  PROVE  CallsOK(cs, qs2)
BY DEF CallsOK

LEMMA BatchesGrow ==
  ASSUME NEW bs, NEW qs, NEW m, BatchesOK(bs, qs, m),
         NEW qs2, DOMAIN qs \subseteq DOMAIN qs2, NEW m2, All(m) \subseteq All(m2)
  PROVE  BatchesOK(bs, qs2, m2)
BY DEF BatchesOK

LEMMA QueryAppended ==
  ASSUME IInv, NEW q, IsQuery(q), q.state = "queued", q.ids \subseteq 1..last, q.found = {},
         q.kind \in Finds => q.ids = {},
         NEW g \in Nat, g >= loaders, q.loader \in 0..g
  PROVE  LET qs == Append(queries, q)
         IN  /\ QueriesOK(qs, last, g, em) /\ Same(qs)
             /\ DOMAIN queries \subseteq DOMAIN qs /\ Len(queries) + 1 \in DOMAIN qs
<1> DEFINE qs == Append(queries, q)
           k == Len(queries) + 1
<1>1. IsSeq(queries) /\ last \in Nat /\ loaders \in Nat
  BY DEF IInv, Loaders, QueriesOK, Rows
<1>2. /\ IsSeq(qs) /\ DOMAIN qs = DOMAIN queries \cup {k} /\ k \notin DOMAIN queries
      /\ qs[k] = q /\ \A i \in DOMAIN queries : qs[i] = queries[i]
  <2>1. Len(queries) \in Nat /\ DOMAIN queries = 1..Len(queries)
    BY <1>1, SeqFacts
  <2>2. IsSeq(qs) /\ DOMAIN qs = 1..k /\ qs[k] = q /\ \A i \in DOMAIN queries : qs[i] = queries[i]
    BY <1>1, AppendSeq
  <2> HIDE DEF qs
  <2> QED BY <2>1, <2>2
<1> HIDE DEF qs, k
<1>3. \A i \in DOMAIN queries :
        IsQuery(queries[i]) /\ queries[i].ids \subseteq 1..last /\ queries[i].loader \in 0..loaders
        /\ queries[i].found \subseteq All(em) /\ (queries[i].kind \in Finds => queries[i].ids = {})
  BY DEF IInv, Loaders, QueriesOK
<1>4. QueriesOK(qs, last, g, em)
  BY <1>1, <1>2, <1>3 DEF QueriesOK
<1>5. Same(qs)
  BY <1>2 DEF Same
<1> QED BY <1>2, <1>4, <1>5 DEF qs, k

LEMMA AskedOK ==
  ASSUME IInv, NEW kind, NEW where, NEW ids, ids \subseteq 1..last, kind \in Finds \/ kind = "load",
         kind \in Finds => ids = {}
  PROVE  LET qs == Asked(kind, where, ids)
         IN  /\ QueriesOK(qs, last, loaders, em) /\ Same(qs)
             /\ DOMAIN queries \subseteq DOMAIN qs /\ On(kind, where) \in DOMAIN qs
<1> DEFINE q == Query(kind, where, ids)
           shared == Shared(kind, where)
           k == Min(shared)
           qs == Asked(kind, where, ids)
<1>1. IsSeq(queries) /\ last \in Nat /\ loaders \in Nat
  BY DEF IInv, Loaders, QueriesOK, Rows
<1>2. CASE shared = {}
  <2>1. /\ IsQuery(q) /\ q.state = "queued" /\ q.ids \subseteq 1..last /\ q.found = {} /\ q.loader \in 0..loaders
        /\ q.kind \in Finds => q.ids = {}
    BY <1>1 DEF Query, IsQuery
  <2>2. qs = Append(queries, q) /\ On(kind, where) = Len(queries) + 1
    BY <1>2 DEF Asked, On
  <2> HIDE DEF q
  <2>3. loaders \in Nat /\ loaders >= loaders
    BY <1>1
  <2>4. /\ QueriesOK(Append(queries, q), last, loaders, em) /\ Same(Append(queries, q))
        /\ DOMAIN queries \subseteq DOMAIN Append(queries, q) /\ Len(queries) + 1 \in DOMAIN Append(queries, q)
    BY <2>1, <2>3, QueryAppended
  <2> QED BY <2>2, <2>4
<1>3. CASE shared # {}
  <2>1. k \in DOMAIN queries /\ queries[k].kind = kind /\ (kind \notin Finds => queries[k].state = "queued")
    <3>1. shared \subseteq DOMAIN queries /\ DOMAIN queries \subseteq Nat
      BY <1>1, SeqFacts DEF Shared
    <3>2. k \in shared
      BY <1>3, <3>1, MinIn
    <3> QED BY <3>2 DEF Shared
  <2> DEFINE x == [queries[k] EXCEPT !.ids = @ \union ids]
  <2>2. qs = [queries EXCEPT ![k] = x] /\ On(kind, where) = k
    BY <1>3, <2>1 DEF Asked, On
  <2>3. IsQuery(queries[k])
    BY <2>1 DEF IInv, Loaders, QueriesOK
  <2>4. /\ IsQuery(x) /\ x.ids = queries[k].ids \union ids /\ x.state = queries[k].state /\ x.kind = queries[k].kind
        /\ x.snap = queries[k].snap /\ x.loader = queries[k].loader /\ x.found = queries[k].found
    BY <2>3 DEF IsQuery
  <2> HIDE DEF x, k
  <2>5. IsSeq(qs) /\ DOMAIN qs = DOMAIN queries /\ \A i \in DOMAIN qs : qs[i] = IF i = k THEN x ELSE queries[i]
    <3>1. IsSeq(qs) /\ DOMAIN qs = DOMAIN queries
      <4> HIDE DEF qs
      <4> QED BY <1>1, <2>2, ExceptIsSeq
    <3>2. \A i \in DOMAIN queries : qs[i] = IF i = k THEN x ELSE queries[i]
      <4> HIDE DEF qs
      <4> QED BY <2>2
    <3> QED BY <3>1, <3>2
  <2> HIDE DEF qs
  <2>6. QueriesOK(qs, last, loaders, em)
    BY <2>1, <2>4, <2>5 DEF IInv, Loaders, QueriesOK
  <2>7. Same(qs)
    BY <2>1, <2>4, <2>5 DEF Same
  <2> QED BY <2>1, <2>2, <2>5, <2>6, <2>7 DEF qs
<1> QED BY <1>2, <1>3

LEMMA CallAppended ==
  ASSUME NEW cs, NEW qs, CallsOK(cs, qs), NEW c, IsCall(c), c.on \in DOMAIN qs
  PROVE  CallsOK(Append(cs, c), qs)
<1>1. IsSeq(cs) /\ Len(cs) \in Nat /\ DOMAIN cs = 1..Len(cs)
  BY SeqFacts DEF CallsOK
<1>2. /\ IsSeq(Append(cs, c)) /\ DOMAIN Append(cs, c) = 1..(Len(cs) + 1)
      /\ Append(cs, c)[Len(cs) + 1] = c /\ \A i \in DOMAIN cs : Append(cs, c)[i] = cs[i]
  BY <1>1, AppendSeq
<1> QED BY <1>1, <1>2 DEF CallsOK

LEMMA BatchChanged ==
  ASSUME NEW bs, NEW qs, NEW m, BatchesOK(bs, qs, m), NEW b, NEW x, IsBatch(x),
         x.state = "finding" => x.on \in DOMAIN qs,
         IF x.state = "done" THEN x.entity \in All(m) ELSE x.entity = None
  PROVE  BatchesOK([bs EXCEPT ![b] = x], qs, m) /\ BatchesOK(Append(bs, x), qs, m)
<1>1. IsSeq(bs) /\ Len(bs) \in Nat /\ DOMAIN bs = 1..Len(bs)
  BY SeqFacts DEF BatchesOK
<1>2. BatchesOK([bs EXCEPT ![b] = x], qs, m)
  <2>1. IsSeq([bs EXCEPT ![b] = x]) /\ DOMAIN [bs EXCEPT ![b] = x] = DOMAIN bs
    BY <1>1, ExceptIsSeq
  <2>2. \A i \in DOMAIN bs : [bs EXCEPT ![b] = x][i] = IF i = b THEN x ELSE bs[i]
    OBVIOUS
  <2> QED BY <2>1, <2>2 DEF BatchesOK
<1>3. BatchesOK(Append(bs, x), qs, m)
  <2>1. /\ IsSeq(Append(bs, x)) /\ DOMAIN Append(bs, x) = 1..(Len(bs) + 1)
        /\ Append(bs, x)[Len(bs) + 1] = x /\ \A i \in DOMAIN bs : Append(bs, x)[i] = bs[i]
    BY <1>1, AppendSeq
  <2> QED BY <1>1, <2>1 DEF BatchesOK
<1> QED BY <1>2, <1>3

----------------------------------------------------------------------------
(* The calls. *)

LEMMA SameSelf == Same(queries)
BY DEF Same

LEMMA EmSame ==
  ASSUME IInv
  PROVE  Edited(em, em, last)
BY EditedSelf DEF IInv, Memory

LEMMA LoadStep ==
  ASSUME IInv, NEW ids, ids \subseteq 1..last, Load(ids)
  PROVE  IInv'
<1> DEFINE toLoad == {i \in ids : FindExistingInstance(em, IdRef(i)) = None}
           c == Call("load", Clean, ids)
<1>1. queries' = Asked("load", Clean, toLoad) /\ calls' = Append(calls, c) /\ UNCHANGED <<database, em, loaders, batches>>
  BY DEF Load
<1>2. /\ QueriesOK(queries', last, loaders, em) /\ Same(queries')
      /\ DOMAIN queries \subseteq DOMAIN queries' /\ On("load", Clean) \in DOMAIN queries'
  <2>1. toLoad \subseteq 1..last /\ "load" \notin Finds
    BY DEF Finds
  <2> HIDE DEF toLoad
  <2> QED BY <1>1, <2>1, AskedOK
<1>3. IsCall(c) /\ c.on = On("load", Clean)
  BY DEF Call, IsCall
<1> HIDE DEF c
<1>4. CallsOK(calls', queries')
  BY <1>1, <1>2, <1>3, CallsGrow, CallAppended DEF IInv, Loaders
<1>5. BatchesOK(batches', queries', em)
  BY <1>1, <1>2, BatchesGrow DEF IInv, Loaders
<1>6. Loaders'
  BY <1>1, <1>2, <1>4, <1>5 DEF Loaders, IInv, database
<1>7. Edited(em, em', last)
  BY <1>1, EmSame
<1> QED BY <1>1, <1>2, <1>6, <1>7, Calm

LEMMA FindWithNewOrChangedStep ==
  ASSUME IInv, NEW where, FindWithNewOrChanged(where)
  PROVE  IInv'
<1> DEFINE c == Call("findLive", where, {})
<1>1. queries' = Asked("findLive", where, {}) /\ calls' = Append(calls, c) /\ UNCHANGED <<database, em, loaders, batches>>
  BY DEF FindWithNewOrChanged
<1>2. /\ QueriesOK(queries', last, loaders, em) /\ Same(queries')
      /\ DOMAIN queries \subseteq DOMAIN queries' /\ On("findLive", where) \in DOMAIN queries'
  <2>1. "findLive" \in Finds
    BY DEF Finds
  <2> QED BY <1>1, <2>1, AskedOK
<1>3. IsCall(c) /\ c.on = On("findLive", where)
  BY DEF Call, IsCall
<1> HIDE DEF c
<1>4. CallsOK(calls', queries')
  BY <1>1, <1>2, <1>3, CallsGrow, CallAppended DEF IInv, Loaders
<1>5. BatchesOK(batches', queries', em)
  BY <1>1, <1>2, BatchesGrow DEF IInv, Loaders
<1>6. Loaders'
  BY <1>1, <1>2, <1>4, <1>5 DEF Loaders, IInv, database
<1>7. Edited(em, em', last)
  BY <1>1, EmSame
<1> QED BY <1>1, <1>2, <1>6, <1>7, Calm

LEMMA RefreshStep ==
  ASSUME IInv, Refresh
  PROVE  IInv'
<1> DEFINE ids == {em.ents[e].id : e \in {e \in All(em) : ~IsNew(em, e) /\ IsLive(em, e)}}
           q == [Query("refresh", Clean, ids) EXCEPT !.loader = loaders + 1]
           c == [Call("refresh", Clean, ids) EXCEPT !.on = Len(queries) + 1]
<1>1. /\ queries' = Append(queries, q) /\ calls' = Append(calls, c) /\ loaders' = loaders + 1
      /\ UNCHANGED <<database, em, batches>>
  BY DEF Refresh
<1>2. ids \subseteq 1..last /\ loaders \in Nat
  BY DEF IInv, Memory, Loaders, Sound, IsNew
<1> HIDE DEF ids
<1>3. IsQuery(q) /\ q.state = "queued" /\ q.ids = ids /\ q.found = {} /\ q.loader = loaders + 1 /\ q.kind \notin Finds
  BY <1>2 DEF Query, IsQuery, Finds
<1>4. IsCall(c) /\ c.on = Len(queries) + 1
  BY DEF Call, IsCall
<1> HIDE DEF q, c
<1>5. loaders' \in Nat /\ loaders' >= loaders /\ q.loader \in 0..loaders'
  BY <1>1, <1>2, <1>3
<1>6. /\ QueriesOK(queries', last, loaders', em) /\ Same(queries')
      /\ DOMAIN queries \subseteq DOMAIN queries' /\ Len(queries) + 1 \in DOMAIN queries'
  <2>1. /\ QueriesOK(Append(queries, q), last, loaders', em) /\ Same(Append(queries, q))
        /\ DOMAIN queries \subseteq DOMAIN Append(queries, q) /\ Len(queries) + 1 \in DOMAIN Append(queries, q)
    BY <1>2, <1>3, <1>5, QueryAppended
  <2> QED BY <1>1, <2>1
<1>7. CallsOK(calls', queries')
  BY <1>1, <1>4, <1>6, CallsGrow, CallAppended DEF IInv, Loaders
<1>8. BatchesOK(batches', queries', em)
  BY <1>1, <1>6, BatchesGrow DEF IInv, Loaders
<1>9. Loaders'
  BY <1>1, <1>5, <1>6, <1>7, <1>8 DEF Loaders, IInv, database
<1>10. Edited(em, em', last)
  BY <1>1, EmSame
<1> QED BY <1>1, <1>6, <1>9, <1>10, Calm

LEMMA FindOrCreateStep ==
  ASSUME IInv, NEW where, NEW key, FindOrCreate(where, key)
  PROVE  IInv'
<1> DEFINE joinable == Joinable(where, key)
           k == Min(joinable)
           new == [where |-> where, keys |-> <<key>>, loader |-> loaders, state |-> "queued", on |-> 0, entity |-> None]
           joined == [batches[k] EXCEPT !.keys = Append(@, key)]
<1>1. UNCHANGED <<database, em, loaders, queries, calls>>
  BY DEF FindOrCreate
<1>2. BatchesOK(batches, queries, em)
  BY DEF IInv, Loaders
<1>3. BatchesOK(batches', queries, em)
  <2>1. CASE joinable = {}
    <3>1. batches' = Append(batches, new)
      BY <2>1 DEF FindOrCreate
    <3>2. IsBatch(new) /\ new.state = "queued" /\ new.entity = None
      BY DEF IsBatch
    <3> HIDE DEF new
    <3>3. new.state = "finding" => new.on \in DOMAIN queries
      BY <3>2
    <3>4. IF new.state = "done" THEN new.entity \in All(em) ELSE new.entity = None
      BY <3>2
    <3>5. BatchesOK(Append(batches, new), queries, em)
      BY <1>2, <3>2, <3>3, <3>4, BatchChanged
    <3> QED BY <3>1, <3>5
  <2>2. CASE joinable # {}
    <3>1. k \in DOMAIN batches
      <4>1. joinable \subseteq DOMAIN batches /\ DOMAIN batches \subseteq Nat
        BY <1>2, SeqFacts DEF Joinable, BatchesOK
      <4>2. k \in joinable
        BY <2>2, <4>1, MinIn
      <4> QED BY <4>1, <4>2
    <3>2. batches' = [batches EXCEPT ![k] = joined]
      BY <2>2, <3>1 DEF FindOrCreate
    <3>3. IsBatch(batches[k])
      BY <1>2, <3>1 DEF BatchesOK
    <3>4. /\ IsBatch(joined) /\ joined.state = batches[k].state /\ joined.on = batches[k].on
          /\ joined.entity = batches[k].entity
      BY <3>3 DEF IsBatch
    <3> HIDE DEF joined, k
    <3>5. /\ joined.state = "finding" => joined.on \in DOMAIN queries
          /\ IF joined.state = "done" THEN joined.entity \in All(em) ELSE joined.entity = None
      BY <1>2, <3>1, <3>4 DEF BatchesOK
    <3>6. BatchesOK([batches EXCEPT ![k] = joined], queries, em)
      BY <1>2, <3>4, <3>5, BatchChanged
    <3> QED BY <3>2, <3>6
  <2> QED BY <2>1, <2>2
<1>4. Loaders'
  BY <1>1, <1>3 DEF Loaders, IInv, database
<1>5. Edited(em, em', last)
  BY <1>1, EmSame
<1>6. Same(queries')
  BY <1>1, SameSelf
<1> QED BY <1>1, <1>4, <1>5, <1>6, Calm

LEMMA ResolveStep ==
  ASSUME IInv, NEW c \in DOMAIN calls, Resolve(c)
  PROVE  IInv'
<1> DEFINE x == [calls[c] EXCEPT !.answered = TRUE]
<1>1. calls' = [calls EXCEPT ![c] = x] /\ UNCHANGED <<database, loaders, queries, batches>>
  BY DEF Resolve
<1>2. Edited(em, em', last)
  BY FilterEdited, EmSame DEF Resolve, IInv, Memory
<1>3. CallsOK(calls', queries)
  <2>1. IsSeq(calls) /\ IsCall(calls[c]) /\ calls[c].on \in DOMAIN queries
    BY DEF IInv, Loaders, CallsOK
  <2>2. IsCall(x) /\ x.on = calls[c].on
    BY <2>1 DEF IsCall
  <2> HIDE DEF x
  <2>3. IsSeq(calls') /\ DOMAIN calls' = DOMAIN calls
    BY <1>1, <2>1, ExceptIsSeq
  <2>4. \A i \in DOMAIN calls : calls'[i] = IF i = c THEN x ELSE calls[i]
    BY <1>1
  <2>5. \A i \in DOMAIN calls : IsCall(calls[i]) /\ calls[i].on \in DOMAIN queries
    BY DEF IInv, Loaders, CallsOK
  <2> QED BY <2>1, <2>2, <2>3, <2>4, <2>5 DEF CallsOK
<1>4. All(em) \subseteq All(em') /\ last \in Nat /\ loaders \in Nat
  BY <1>2 DEF Edited, Keeps, IInv, Rows, Loaders
<1>5. QueriesOK(queries, last, loaders, em') /\ BatchesOK(batches, queries, em')
  BY <1>4, QueriesGrow, BatchesGrow DEF IInv, Loaders
<1>6. Loaders'
  BY <1>1, <1>3, <1>4, <1>5 DEF Loaders, database
<1>7. Same(queries')
  BY <1>1, SameSelf
<1> QED BY <1>1, <1>2, <1>6, <1>7, Calm

LEMMA FinishedOK ==
  ASSUME IInv, NEW b \in DOMAIN batches, NEW state \in {"done", "failed"}, NEW e, NEW m, All(em) \subseteq All(m),
         IF state = "done" THEN e \in All(m) ELSE e = None
  PROVE  BatchesOK(Finished(b, state, e), queries, m)
<1> DEFINE x == [[batches[b] EXCEPT !.state = state] EXCEPT !.entity = e]
<1>1. BatchesOK(batches, queries, m)
  BY BatchesGrow DEF IInv, Loaders
<1>2. IsBatch(batches[b])
  BY <1>1 DEF BatchesOK
<1>3. IsBatch(x) /\ x.state = state /\ x.entity = e
  BY <1>2 DEF IsBatch
<1>4. Finished(b, state, e) = [batches EXCEPT ![b] = x]
  BY <1>2 DEF Finished, IsBatch
<1> HIDE DEF x
<1>5. BatchesOK([batches EXCEPT ![b] = x], queries, m)
  BY <1>1, <1>3, BatchChanged
<1> QED BY <1>4, <1>5

\* However an em.findOrCreate ends.
LEMMA Ends ==
  ASSUME IInv, NEW b \in DOMAIN batches, NEW m, Edited(em, m, last),
         TooMany(b, m) \/ CreateNew(b, m) \/ \E e \in All(em) : UseExisting(b, m, e)
  PROVE  Edited(em, em', last) /\ BatchesOK(batches', queries, em')
<1>1. Sound(m, last) /\ All(em) \subseteq All(m)
  BY DEF Edited, Keeps
<1>2. CASE TooMany(b, m)
  BY <1>1, <1>2, FinishedOK DEF TooMany
<1>3. CASE CreateNew(b, m)
  <2> DEFINE c == Create(m, batches[b].where)
             e == Len(m.ents) + 1
  <2>1. Edited(m, c, last) /\ e \in All(c)
    BY <1>1, CreateEdited
  <2>2. Edited(c, SetOpts(c, e, Upserts(b)), last)
    BY <2>1, SetOptsEdited DEF Edited
  <2>3. em' = SetOpts(c, e, Upserts(b)) /\ batches' = Finished(b, "done", e)
    BY <1>3 DEF CreateNew
  <2> HIDE DEF c, e
  <2>4. Edited(em, em', last) /\ e \in All(em')
    <3>1. Edited(em, c, last)
      BY <2>1, EditedTransitive
    <3>2. Edited(em, em', last)
      BY <3>1, <2>2, <2>3, EditedTransitive
    <3> QED BY <3>2, <2>1, <2>2, <2>3 DEF Edited, Keeps
  <2>5. All(em) \subseteq All(em')
    BY <2>4 DEF Edited, Keeps
  <2> QED BY <2>3, <2>4, <2>5, FinishedOK
<1>4. CASE \E e \in All(em) : UseExisting(b, m, e)
  <2>1. PICK e \in All(em) : UseExisting(b, m, e)
    BY <1>4
  <2>2. CASE em' = m /\ batches' = Finished(b, "failed", None)
    BY <1>1, <2>2, FinishedOK
  <2>3. CASE em' = SetOpts(ResurrectIfSoftDeleted(m, e), e, Upserts(b)) /\ batches' = Finished(b, "done", e)
    <3> DEFINE r == ResurrectIfSoftDeleted(m, e)
    <3>1. Edited(m, r, last)
      BY <1>1, ResurrectEdited
    <3>2. Edited(r, SetOpts(r, e, Upserts(b)), last)
      BY <1>1, <3>1, SetOptsEdited DEF Edited, Keeps
    <3> HIDE DEF r
    <3>3. Edited(em, r, last)
      BY <3>1, EditedTransitive
    <3>4. Edited(em, em', last)
      <4>1. em' = SetOpts(r, e, Upserts(b))
        BY <2>3 DEF r
      <4> QED BY <3>2, <3>3, <4>1, EditedTransitive
    <3>5. All(em) \subseteq All(em')
      BY <3>4 DEF Edited, Keeps
    <3> QED BY <2>3, <3>4, <3>5, FinishedOK
  <2> QED BY <2>1, <2>2, <2>3 DEF UseExisting
<1> QED BY <1>2, <1>3, <1>4

LEMMA OnlyOne ==
  ASSUME NEW n \in Nat, NEW S, S \subseteq 1..n, Cardinality(S) = 1
  PROVE  Min(S) \in S
<1>1. IsFiniteSet(1..n)
  BY FS_Interval
<1>2. IsFiniteSet(S)
  BY <1>1, FS_Subset
<1>3. S # {} /\ S \subseteq Nat
  BY <1>2, FS_EmptySet
<1> QED BY <1>3, MinIn

LEMMA FoundInMemory ==
  ASSUME NEW m, NEW n, Sound(m, n), NEW where
  PROVE  FilterEntities(m, where) \subseteq All(m)
<1>1. Indexed(m, where).ents = m.ents
  BY DEF Indexed, Sound, IsManager
<1>2. FindMatching(Indexed(m, where), where) \subseteq All(m)
  BY <1>1 DEF FindMatching, All
<1>3. Matching(m, where) \subseteq All(m)
  BY DEF Matching
<1> QED BY <1>2, <1>3 DEF FilterEntities

LEMMA UsesFound ==
  ASSUME IInv, NEW b, NEW m, NEW where,
         LET found == InMemory(where) IN Cardinality(found) = 1 /\ UseExisting(b, m, Min(found))
  PROVE  \E e \in All(em) : UseExisting(b, m, e)
<1> DEFINE found == InMemory(where)
<1>1. found \subseteq All(em)
  BY FoundInMemory DEF InMemory, IInv, Memory
<1>2. All(em) = 1..Len(em.ents) /\ Len(em.ents) \in Nat
  BY SeqFacts DEF IInv, Memory, Sound, All
<1>3. Cardinality(found) = 1 /\ UseExisting(b, m, Min(found))
  OBVIOUS
<1> HIDE DEF found
<1>4. Min(found) \in found
  BY <1>1, <1>2, <1>3, OnlyOne
<1> QED BY <1>1, <1>3, <1>4

\* A batch that runs has found one entity in memory, creates one, or asks the database.
LEMMA RunEnds ==
  ASSUME IInv, NEW b \in DOMAIN batches, RunBatch(b)
  PROVE  LET where == batches[b].where
             m == AfterFilter(em, where)
         IN  /\ Edited(em, m, last)
             /\ \/ UNCHANGED queries /\ (TooMany(b, m) \/ CreateNew(b, m) \/ \E e \in All(em) : UseExisting(b, m, e))
                \/ /\ em' = m /\ queries' = Asked("find", where, {})
                   /\ batches' = [batches EXCEPT ![b].state = "finding", ![b].on = On("find", where)]
<1> DEFINE where == batches[b].where
           m == AfterFilter(em, where)
<1>1. Edited(em, m, last)
  BY FilterEdited DEF IInv, Memory
<1> HIDE DEF m
<1>2. ASSUME Cardinality(InMemory(where)) = 1 /\ UseExisting(b, m, Min(InMemory(where)))
      PROVE  \E e \in All(em) : UseExisting(b, m, e)
  BY <1>2, UsesFound
<1> QED BY <1>1, <1>2 DEF RunBatch, m

LEMMA RunBatchStep ==
  ASSUME IInv, NEW b \in DOMAIN batches, RunBatch(b)
  PROVE  IInv'
<1> DEFINE where == batches[b].where
           m == AfterFilter(em, where)
           x == [[batches[b] EXCEPT !.state = "finding"] EXCEPT !.on = On("find", where)]
<1>1. UNCHANGED <<database, loaders, calls>>
  BY DEF RunBatch
<1>2. Edited(em, m, last) /\ last \in Nat /\ loaders \in Nat
  BY FilterEdited DEF IInv, Memory, Rows, Loaders
<1>3. CASE UNCHANGED queries /\ (TooMany(b, m) \/ CreateNew(b, m) \/ \E e \in All(em) : UseExisting(b, m, e))
  <2> HIDE DEF m
  <2>1. Edited(em, em', last) /\ BatchesOK(batches', queries, em')
    BY <1>2, <1>3, Ends
  <2>2. All(em) \subseteq All(em')
    BY <2>1 DEF Edited, Keeps
  <2>3. QueriesOK(queries, last, loaders, em')
    BY <1>2, <2>2, QueriesGrow DEF IInv, Loaders
  <2>4. Loaders'
    BY <1>1, <1>2, <1>3, <2>1, <2>3 DEF Loaders, IInv, database
  <2>5. Same(queries')
    BY <1>3, SameSelf
  <2> QED BY <1>1, <2>1, <2>4, <2>5, Calm
<1>4. CASE /\ em' = m
           /\ batches' = [batches EXCEPT ![b].state = "finding", ![b].on = On("find", where)]
           /\ queries' = Asked("find", where, {})
  <2>1. /\ QueriesOK(queries', last, loaders, em) /\ Same(queries')
        /\ DOMAIN queries \subseteq DOMAIN queries' /\ On("find", where) \in DOMAIN queries'
    <3>1. "find" \in Finds
      BY DEF Finds
    <3> QED BY <1>4, <3>1, AskedOK
  <2>2. All(em) \subseteq All(em') /\ Edited(em, em', last)
    BY <1>2, <1>4 DEF Edited, Keeps
  <2>3. BatchesOK(batches, queries', em')
    BY <2>1, <2>2, BatchesGrow DEF IInv, Loaders
  <2>4. IsBatch(batches[b])
    BY <2>3 DEF BatchesOK
  <2>5. batches[b].entity = None
    BY DEF RunBatch, IInv, Loaders, BatchesOK
  <2>6. IsBatch(x) /\ x.state = "finding" /\ x.on = On("find", where) /\ x.entity = None
    BY <2>4, <2>5 DEF IsBatch
  <2>7. batches' = [batches EXCEPT ![b] = x]
    BY <1>4, <2>4 DEF IsBatch
  <2> HIDE DEF x
  <2>8. BatchesOK([batches EXCEPT ![b] = x], queries', em')
    BY <2>1, <2>3, <2>6, BatchChanged
  <2>9. QueriesOK(queries', last, loaders, em')
    BY <1>2, <2>1, <2>2, QueriesGrow
  <2>10. CallsOK(calls, queries')
    BY <2>1, CallsGrow DEF IInv, Loaders
  <2>11. Loaders'
    BY <1>1, <1>2, <2>7, <2>8, <2>9, <2>10 DEF Loaders, database
  <2> QED BY <1>1, <2>1, <2>2, <2>11, Calm
<1> QED BY <1>3, <1>4, RunEnds

LEMMA FinishEnds ==
  ASSUME IInv, NEW b \in DOMAIN batches, FinishBatch(b)
  PROVE  TooMany(b, em) \/ CreateNew(b, em) \/ \E e \in All(em) : UseExisting(b, em, e)
<1> DEFINE found == queries[batches[b].on].found
<1>1. batches[b].on \in DOMAIN queries
  BY DEF FinishBatch, IInv, Loaders, BatchesOK
<1>2. found \subseteq All(em)
  BY <1>1 DEF IInv, Loaders, QueriesOK
<1>3. All(em) = 1..Len(em.ents) /\ Len(em.ents) \in Nat
  BY SeqFacts DEF IInv, Memory, Sound, All
<1>4. CASE Cardinality(found) = 1 /\ UseExisting(b, em, Min(found))
  <2> HIDE DEF found
  <2>1. Min(found) \in found
    BY <1>2, <1>3, <1>4, OnlyOne
  <2> QED BY <1>2, <1>4, <2>1
<1> QED BY <1>4 DEF FinishBatch

LEMMA FinishBatchStep ==
  ASSUME IInv, NEW b \in DOMAIN batches, FinishBatch(b)
  PROVE  IInv'
<1>1. UNCHANGED <<database, loaders, queries, calls>>
  BY DEF FinishBatch
<1>2. last \in Nat /\ loaders \in Nat
  BY DEF IInv, Rows, Loaders
<1>3. Edited(em, em', last) /\ BatchesOK(batches', queries, em')
  BY FinishEnds, EmSame, Ends
<1>4. All(em) \subseteq All(em')
  BY <1>3 DEF Edited, Keeps
<1>5. QueriesOK(queries, last, loaders, em')
  BY <1>2, <1>4, QueriesGrow DEF IInv, Loaders
<1>6. Loaders'
  BY <1>1, <1>2, <1>3, <1>5 DEF Loaders, IInv, database
<1>7. Same(queries')
  BY <1>1, SameSelf
<1> QED BY <1>1, <1>3, <1>6, <1>7, Calm

LEMMA ProgramEdits ==
  ASSUME IInv, Program
  PROVE  Edited(em, em', last)
<1>1. Sound(em, last)
  BY DEF IInv, Memory
<1>2. CASE Edit(Create(em, [name |-> OtherName]))
  BY <1>1, <1>2, CreateEdited DEF Edit
<1>3. ASSUME NEW e \in All(em),
             \/ Edit(SetField(em, e, "name", OtherName)) \/ Edit(SetReference(em, e, Unset))
             \/ Edit(SetField(em, e, "gone", TRUE)) \/ Edit(MarkDeleted(em, e))
      PROVE  Edited(em, em', last)
  BY <1>1, <1>3, SetFieldEdited, SetReferenceEdited, MarkDeletedEdited DEF Edit
<1> QED BY <1>2, <1>3 DEF Program

LEMMA ProgramStep ==
  ASSUME IInv, Program
  PROVE  IInv'
<1>1. UNCHANGED <<database, loaders, queries, batches, calls>>
  BY DEF Program, Edit
<1>2. Edited(em, em', last)
  BY ProgramEdits
<1>3. All(em) \subseteq All(em') /\ last \in Nat /\ loaders \in Nat
  BY <1>2 DEF Edited, Keeps, IInv, Rows, Loaders
<1>4. QueriesOK(queries, last, loaders, em') /\ BatchesOK(batches, queries, em')
  BY <1>3, QueriesGrow, BatchesGrow DEF IInv, Loaders
<1>5. Loaders'
  BY <1>1, <1>3, <1>4 DEF Loaders, IInv, database
<1>6. Same(queries')
  BY <1>1, SameSelf
<1> QED BY <1>1, <1>2, <1>5, <1>6, Calm

----------------------------------------------------------------------------
(* Reading the database. *)

LEMMA SendStep ==
  ASSUME IInv, NEW i \in DOMAIN queries, Send(i)
  PROVE  IInv'
<1> DEFINE q == queries[i]
           snap == [k \in Selects(q) |-> rows[k]]
           at == changes + flushes
           x == [[[q EXCEPT !.state = "sent"] EXCEPT !.at = at] EXCEPT !.snap = snap]
<1>1. UNCHANGED <<database, em, loaders, batches, calls>>
  BY DEF Send
<1>2. IsSeq(queries) /\ IsQuery(q)
  BY DEF IInv, Loaders, QueriesOK
<1>3. IsQuery(x) /\ x.state = "sent" /\ x.snap = snap /\ x.ids = q.ids /\ x.kind = q.kind /\ x.loader = q.loader
      /\ x.found = q.found
  <2> HIDE DEF q, snap, at
  <2> QED BY <1>2 DEF IsQuery
<1>4. queries' = [queries EXCEPT ![i] = x]
  <2>1. queries' = [[[queries EXCEPT ![i].state = "sent"] EXCEPT ![i].at = at] EXCEPT ![i].snap = snap]
    BY DEF Send
  <2> HIDE DEF snap, at
  <2> QED BY <2>1
<1>5. DOMAIN snap \subseteq DOMAIN rows /\ \A k \in DOMAIN snap : snap[k] = rows[k]
  BY DEF Selects
<1>6. q.kind \notin Finds => DOMAIN snap = DOMAIN rows \intersect q.ids
  BY DEF Selects, Finds
<1>13. (q.ids \ DOMAIN snap) \intersect DOMAIN rows = {} \/ q.kind \in Finds
  BY <1>6
<1> HIDE DEF x, snap
<1>7. IsSeq(queries') /\ DOMAIN queries' = DOMAIN queries
  BY <1>2, <1>4, ExceptIsSeq
<1>8. \A k \in DOMAIN queries : queries'[k] = IF k = i THEN x ELSE queries[k]
  BY <1>4
<1>9. Loaders'
  <2>1. \A k \in DOMAIN queries : IsQuery(queries[k]) /\ queries[k].ids \subseteq 1..last
          /\ queries[k].loader \in 0..loaders /\ queries[k].found \subseteq All(em)
          /\ (queries[k].kind \in Finds => queries[k].ids = {})
    BY DEF IInv, Loaders, QueriesOK
  <2>2. QueriesOK(queries', last, loaders, em)
    BY <1>3, <1>7, <1>8, <2>1 DEF QueriesOK
  <2>3. CallsOK(calls, queries') /\ BatchesOK(batches, queries', em)
    BY <1>7, CallsGrow, BatchesGrow DEF IInv, Loaders
  <2> QED BY <1>1, <2>2, <2>3 DEF IInv, Loaders, database
<1>10. Rows' /\ Memory'
  BY <1>1 DEF IInv, Rows, Memory, database
<1>11. Snaps'
  <2>1. DOMAIN snap \subseteq 1..last /\ DOMAIN snap \intersect open = {} /\ \A k \in DOMAIN snap : IsRow(snap[k])
    BY <1>5 DEF IInv, Rows
  <2> QED BY <1>1, <1>3, <1>7, <1>8, <2>1 DEF IInv, Snaps, database
<1>12. ASSUME Missed, DeletedAreGone
       PROVE  (Missed /\ DeletedAreGone)'
  <2>1. (q.ids \ DOMAIN snap) \intersect DOMAIN rows = {}
    BY <1>13 DEF IInv, Loaders, QueriesOK
  <2> QED BY <1>1, <1>3, <1>7, <1>8, <1>12, <2>1 DEF Missed, DeletedAreGone, database
<1>14. ASSUME RowsAreCurrent, SnapsAreCurrent, NotBehindOwnCommit
       PROVE  (RowsAreCurrent /\ SnapsAreCurrent /\ NotBehindOwnCommit)'
  <2>1. (RowsAreCurrent /\ NotBehindOwnCommit)'
    BY <1>1, <1>14 DEF RowsAreCurrent, NotBehindOwnCommit, database
  <2>2. \A k \in DOMAIN committed : k \in DOMAIN snap => snap[k].at >= committed[k]
    BY <1>5, <1>14 DEF RowsAreCurrent
  <2>3. SnapsAreCurrent'
    BY <1>1, <1>3, <1>7, <1>8, <1>14, <2>2 DEF SnapsAreCurrent, database
  <2> QED BY <2>1, <2>3
<1> QED BY <1>9, <1>10, <1>11, <1>12, <1>14 DEF IInv

\* What an answer makes of the entities.
LEMMA Received ==
  ASSUME IInv, NEW i \in DOMAIN queries, queries[i].state = "sent"
  PROVE  LET q == queries[i]
             r == Hydrated(q)
         IN  /\ Sound(r, last) /\ Keeps(em, r)
             /\ \A e \in All(em) :
                  /\ \/ r.ents[e].deleted = em.ents[e].deleted
                     \/ r.ents[e].deleted = "done" /\ em.ents[e].id \in q.ids \ DOMAIN q.snap
                  /\ \/ r.ents[e].at = em.ents[e].at
                     \/ /\ q.kind = "refresh" /\ em.ents[e].id \in DOMAIN q.snap
                        /\ r.ents[e].at = q.snap[em.ents[e].id].at
             /\ \A e \in All(r) \ All(em) : r.ents[e].id \in DOMAIN q.snap /\ r.ents[e].deleted = "no"
             /\ \A k : IdRef(k) \in DOMAIN r.byId <=> IdRef(k) \in DOMAIN em.byId \/ k \in DOMAIN q.snap
<1> DEFINE q == queries[i]
           ids == DOMAIN q.snap
           over == q.kind = "refresh"
           h == Hydrate(em, q.snap, ids, over)
           r == Hydrated(q)
<1>1. last \in Nat /\ Sound(em, last)
  BY DEF IInv, Rows, Memory
<1>2. ids \subseteq 1..last /\ \A k \in ids : q.snap[k].at \in Nat
  BY DEF IInv, Snaps, IsRow
<1>3. Sound(h, last) /\ Keeps(em, h) /\ Hydrates(em, h, q.snap, ids, over)
  <2> HIDE DEF q, ids, over
  <2> QED BY <1>1, <1>2, HydrateHydrates
<1>4. r = MarkDeletedBecauseNotFound(h, q.ids \ ids)
  BY DEF Hydrated, Missing
<1> HIDE DEF h, r, over, ids
<1>5. /\ Sound(r, last) /\ Keeps(h, r) /\ All(r) = All(h) /\ r.byId = h.byId
      /\ \A e \in All(h) :
           /\ r.ents[e].at = h.ents[e].at
           /\ r.ents[e].deleted = h.ents[e].deleted \/ (r.ents[e].deleted = "done" /\ h.ents[e].id \in q.ids \ ids)
  BY <1>3, <1>4, NotFoundDeletes
<1>6. Keeps(em, r)
  BY <1>3, <1>5 DEF Keeps
<1>7. \A e \in All(r) \ All(em) : r.ents[e].id \in ids /\ r.ents[e].deleted = "no"
  BY <1>3, <1>5 DEF Hydrates, Keeps
<1>8. \A k : IdRef(k) \in DOMAIN r.byId <=> IdRef(k) \in DOMAIN em.byId \/ k \in ids
  BY <1>3, <1>5 DEF Hydrates
<1>9. \A e \in All(em) :
        /\ \/ r.ents[e].deleted = em.ents[e].deleted
           \/ r.ents[e].deleted = "done" /\ em.ents[e].id \in q.ids \ ids
        /\ \/ r.ents[e].at = em.ents[e].at
           \/ over /\ em.ents[e].id \in ids /\ r.ents[e].at = q.snap[em.ents[e].id].at
  BY <1>3, <1>5 DEF Hydrates, Keeps
<1> QED BY <1>5, <1>6, <1>7, <1>8, <1>9 DEF r, ids, over

LEMMA ReceiveStep ==
  ASSUME IInv, NEW i \in DOMAIN queries, Receive(i)
  PROVE  IInv'
<1> DEFINE q == queries[i]
           found == IF q.kind \in Finds THEN Found(q, em') ELSE {}
           x == [[[q EXCEPT !.state = "done"] EXCEPT !.snap = <<>>] EXCEPT !.found = found]
<1>1. UNCHANGED <<database, loaders, batches, calls>> /\ em' = Hydrated(q) /\ q.state = "sent"
  BY DEF Receive
<1>2. /\ Sound(em', last) /\ Keeps(em, em')
      /\ \A e \in All(em) :
           /\ \/ em'.ents[e].deleted = em.ents[e].deleted
              \/ em'.ents[e].deleted = "done" /\ em.ents[e].id \in q.ids \ DOMAIN q.snap
           /\ \/ em'.ents[e].at = em.ents[e].at
              \/ /\ q.kind = "refresh" /\ em.ents[e].id \in DOMAIN q.snap
                 /\ em'.ents[e].at = q.snap[em.ents[e].id].at
      /\ \A e \in All(em') \ All(em) : em'.ents[e].id \in DOMAIN q.snap /\ em'.ents[e].deleted = "no"
      /\ \A k : IdRef(k) \in DOMAIN em'.byId <=> IdRef(k) \in DOMAIN em.byId \/ k \in DOMAIN q.snap
  BY <1>1, Received
<1>3. last \in Nat /\ loaders \in Nat /\ IsSeq(queries) /\ IsQuery(q) /\ All(em) \subseteq All(em')
  BY <1>2 DEF IInv, Rows, Loaders, QueriesOK, Keeps
<1>4. found \subseteq All(em')
  BY <1>2 DEF Found, Sound
<1>5. IsQuery(x) /\ x.state = "done" /\ x.ids = q.ids /\ x.kind = q.kind /\ x.loader = q.loader /\ x.found = found
  <2> HIDE DEF q, found
  <2> QED BY <1>3 DEF IsQuery
<1>6. queries' = [queries EXCEPT ![i] = x]
  <2>1. queries' = [[[queries EXCEPT ![i].state = "done"] EXCEPT ![i].snap = <<>>] EXCEPT ![i].found = found]
    BY DEF Receive
  <2> HIDE DEF found
  <2> QED BY <2>1
<1> HIDE DEF x, found
<1>7. IsSeq(queries') /\ DOMAIN queries' = DOMAIN queries
  BY <1>3, <1>6, ExceptIsSeq
<1>8. \A k \in DOMAIN queries : queries'[k] = IF k = i THEN x ELSE queries[k]
  BY <1>6
<1>9. Same(queries')
  BY <1>5, <1>7, <1>8 DEF Same
<1>10. Loaders'
  <2>1. QueriesOK(queries, last, loaders, em')
    BY <1>3, QueriesGrow DEF IInv, Loaders
  <2>2. QueriesOK(queries', last, loaders, em')
    BY <1>4, <1>5, <1>7, <1>8, <2>1 DEF QueriesOK
  <2>3. CallsOK(calls, queries') /\ BatchesOK(batches, queries', em')
    BY <1>3, <1>7, CallsGrow, BatchesGrow DEF IInv, Loaders
  <2> QED BY <1>1, <1>3, <2>2, <2>3 DEF Loaders, database
<1>11. Rows'
  BY <1>1 DEF IInv, Rows, database
<1>12. Memory'
  <2>1. \A k \in open : k \notin DOMAIN q.snap
    BY <1>1 DEF IInv, Snaps
  <2> QED BY <1>1, <1>2, <2>1 DEF IInv, Memory, database
<1>13. Snaps'
  BY <1>1, <1>9 DEF IInv, Snaps, Same, database
<1>14. ASSUME Missed, DeletedAreGone
       PROVE  (Missed /\ DeletedAreGone)'
  <2>1. Missed'
    BY <1>1, <1>9, <1>14 DEF Missed, Same, database
  <2>2. (q.ids \ DOMAIN q.snap) \intersect DOMAIN rows = {}
    BY <1>1, <1>14 DEF Missed
  <2>3. ASSUME NEW e \in All(em'), em'.ents[e].deleted = "done"
        PROVE  em'.ents[e].id \notin DOMAIN rows
    <3>1. e \in All(em) /\ em'.ents[e].id = em.ents[e].id
      BY <1>2, <2>3 DEF Keeps
    <3> QED BY <1>2, <1>14, <2>2, <2>3, <3>1 DEF DeletedAreGone
  <2> QED BY <1>1, <2>1, <2>3 DEF DeletedAreGone, database
<1>15. ASSUME RowsAreCurrent, SnapsAreCurrent, NotBehindOwnCommit
       PROVE  (RowsAreCurrent /\ SnapsAreCurrent /\ NotBehindOwnCommit)'
  <2>1. (RowsAreCurrent /\ SnapsAreCurrent)'
    BY <1>1, <1>9, <1>15 DEF RowsAreCurrent, SnapsAreCurrent, Same, database
  <2>2. ASSUME NEW k \in DOMAIN committed
        PROVE  LET e == em'.byId[IdRef(k)] IN ~IsLive(em', e) \/ em'.ents[e].at >= committed[k]
    <3> DEFINE e == em.byId[IdRef(k)]
    <3>1. IdRef(k) \in DOMAIN em.byId /\ e \in All(em) /\ em.ents[e].id = k
      BY DEF IInv, Memory, Sound
    <3>2. em'.byId[IdRef(k)] = e
      BY <3>1, <1>2 DEF Keeps
    <3>3. IsLive(em', e) => IsLive(em, e)
      BY <3>1, <1>2 DEF IsLive
    <3>4. em'.ents[e].at = em.ents[e].at \/ em'.ents[e].at >= committed[k]
      BY <1>1, <1>2, <1>15, <3>1 DEF SnapsAreCurrent
    <3> QED BY <1>15, <3>2, <3>3, <3>4 DEF NotBehindOwnCommit
  <2> QED BY <1>1, <2>1, <2>2 DEF NotBehindOwnCommit, database
<1> QED BY <1>10, <1>11, <1>12, <1>13, <1>14, <1>15 DEF IInv

----------------------------------------------------------------------------
(* The manager's commits and those of others. *)

\* What a flush writes are rows that there are, and rows after the last.
LEMMA WrittenRows ==
  ASSUME IInv, Flush
  PROVE  \A i \in WrittenBy(em') : i \in Nat /\ i # None /\ (i \in DOMAIN rows \/ i > last)
<1>1. em' = Flushed(em, last) /\ NoConflict
  BY DEF Flush
<1>2. Flushes(em, em', last) /\ last \in Nat
  <2>1. last \in Nat /\ Sound(em, last)
    BY DEF IInv, Rows, Memory
  <2> DEFINE m == Flushed(em, last)
  <2>2. Flushes(em, m, last)
    BY <2>1, FlushedFlushes
  <2> QED BY <1>1, <2>1, <2>2
<1>3. \A e \in All(em) : IsPending(em, e) /\ IsLive(em, e) =>
        \/ e \in News(em)
        \/ e \notin News(em) /\ em'.ents[e].id = em.ents[e].id /\ em.ents[e].id \in DOMAIN rows /\ em.ents[e].id # None
  BY <1>1, <1>2 DEF NoConflict, Writes, News, Flushes, IsNew
<1>4. \A i \in DOMAIN rows : i \in Nat
  BY DEF IInv, Rows
<1>5. \A e \in News(em) : em'.ents[e].id \in Nat /\ em'.ents[e].id > last /\ em'.ents[e].id # None
  BY <1>2 DEF Flushes, News, None
<1> QED BY <1>3, <1>4, <1>5 DEF WrittenBy

LEMMA FlushStep ==
  ASSUME IInv, Flush
  PROVE  IInv'
<1> DEFINE m == Flushed(em, last)
           written == WrittenBy(m)
           deleted == DeletedBy(m)
           row(i) == RowIn(m, i)
<1>1. /\ em' = m /\ last' = last + Cardinality(News(em)) /\ loaders' = loaders + 1
      /\ rows' = [i \in (DOMAIN rows \union written) \ deleted |-> IF i \in written THEN row(i) ELSE rows[i]]
      /\ committed' = Over([i \in written |-> row(i).at], committed)
      /\ UNCHANGED <<open, queries, batches, calls>> /\ NoConflict /\ MayFlush
  BY DEF Flush
<1>2. last' \in Nat /\ last' >= last /\ Sound(m, last') /\ Flushes(em, m, last) /\ last \in Nat /\ Sound(em, last)
  BY <1>1, FlushedFlushes DEF IInv, Rows, Memory
<1>3. \A i \in written : i \in Nat /\ i # None /\ (i \in DOMAIN rows \/ i > last)
  BY <1>1, WrittenRows
<1>4. \A i \in written : i \in 1..last' /\ IdRef(i) \in DOMAIN m.byId
  <2>1. \A e \in All(em) : m.ents[e].id # None => m.ents[e].id \in 1..last' /\ IdRef(m.ents[e].id) \in DOMAIN m.byId
    BY <1>2 DEF Flushes, Sound
  <2> HIDE DEF m
  <2> QED BY <1>3, <2>1 DEF WrittenBy
<1>5. \A i \in written : /\ m.byId[IdRef(i)] \in All(em) /\ m.ents[m.byId[IdRef(i)]].id = i
                         /\ IsPending(em, m.byId[IdRef(i)]) /\ IsLive(em, m.byId[IdRef(i)])
  <2> SUFFICES ASSUME NEW e \in All(em), IsPending(em, e), IsLive(em, e)
               PROVE  m.byId[IdRef(m.ents[e].id)] = e
    BY DEF WrittenBy
  <2>1. m.ents[e].id # None /\ e \in All(m)
    BY <1>2, <1>3 DEF Flushes, WrittenBy
  <2> QED BY <2>1, <1>2 DEF Sound
<1>6. \A i \in written : IsRow(row(i)) /\ row(i).at = m.ents[m.byId[IdRef(i)]].at /\ row(i).at \in Nat
  <2> SUFFICES ASSUME NEW i \in written
               PROVE  IsRow(row(i)) /\ row(i).at = m.ents[m.byId[IdRef(i)]].at /\ row(i).at \in Nat
    OBVIOUS
  <2>1. m.ents[m.byId[IdRef(i)]].at \in Nat
    BY <1>2, <1>5 DEF Flushes, Sound, IsEntity
  <2> HIDE DEF m
  <2> QED BY <2>1 DEF RowIn, RowOf, IsRow
<1> HIDE DEF m, row
<1>7. /\ DOMAIN rows' = (DOMAIN rows \union written) \ deleted
      /\ \A i \in DOMAIN rows' : rows'[i] = IF i \in written THEN row(i) ELSE rows[i]
      /\ DOMAIN committed' = written \union DOMAIN committed
      /\ \A i \in DOMAIN committed' : committed'[i] = IF i \in written THEN row(i).at ELSE committed[i]
  BY <1>1 DEF Over
<1>8. DOMAIN rows' \subseteq 1..last' /\ \A i \in DOMAIN rows' : i <= last => i \in DOMAIN rows
  BY <1>2, <1>3, <1>4, <1>7 DEF IInv, Rows
<1>9. All(em') = All(em)
  BY <1>1, <1>2 DEF Flushes
<1> HIDE DEF written, deleted
<1>10. Rows'
  <2>1. DOMAIN rows' \intersect open = {}
    BY <1>2, <1>8 DEF IInv, Rows
  <2>2. \A i \in DOMAIN rows' : IsRow(rows'[i])
    BY <1>6, <1>7 DEF IInv, Rows
  <2>3. open' \subseteq 1..last'
    BY <1>1, <1>2 DEF IInv, Rows
  <2> QED BY <1>1, <1>2, <1>8, <2>1, <2>2, <2>3 DEF Rows
<1>11. Memory'
  <2>1. \A i \in open : IdRef(i) \notin DOMAIN em'.byId
    BY <1>1, <1>2 DEF IInv, Memory, Rows, Flushes
  <2>2. \A i \in DOMAIN committed' : IdRef(i) \in DOMAIN em'.byId
    BY <1>1, <1>2, <1>4, <1>7 DEF IInv, Memory, Flushes
  <2> QED BY <1>1, <1>2, <2>1, <2>2 DEF Memory
<1>12. Loaders'
  <2>1. loaders \in Nat /\ loaders' \in Nat /\ loaders' >= loaders
    BY <1>1 DEF IInv, Loaders
  <2>2. QueriesOK(queries, last', loaders', em') /\ BatchesOK(batches, queries, em')
    BY <1>2, <1>9, <2>1, QueriesGrow, BatchesGrow DEF IInv, Loaders
  <2> QED BY <1>1, <2>1, <2>2 DEF IInv, Loaders
<1>13. Snaps'
  BY <1>1, <1>2 DEF IInv, Snaps
<1>14. ASSUME Missed, DeletedAreGone
       PROVE  (Missed /\ DeletedAreGone)'
  <2>1. Missed'
    <3>1. \A i \in DOMAIN queries : queries[i].ids \subseteq 1..last
      BY DEF IInv, Loaders, QueriesOK
    <3> QED BY <1>1, <1>2, <1>8, <1>14, <3>1 DEF Missed
  <2>2. ASSUME NEW e \in All(em), em'.ents[e].deleted = "done"
        PROVE  em'.ents[e].id \notin DOMAIN rows'
    <3>1. ~IsLive(em, e) /\ em'.ents[e].id = em.ents[e].id
      BY <1>1, <1>2, <2>2 DEF Flushes, IsLive, News
    <3>2. CASE em.ents[e].id = None
      BY <3>1, <3>2, <1>8 DEF None
    <3>3. CASE em.ents[e].deleted = "done" /\ em.ents[e].id # None
      <4>1. em.ents[e].id \notin DOMAIN rows
        BY <1>14, <3>3 DEF DeletedAreGone
      <4>2. ASSUME em.ents[e].id \in written
            PROVE  FALSE
        <5>1. em'.byId[IdRef(em'.ents[e].id)] = e
          BY <1>1, <1>2, <1>9, <3>1, <3>3 DEF Sound
        <5> QED BY <5>1, <1>1, <1>5, <3>1, <4>2
      <4> QED BY <1>7, <3>1, <4>1, <4>2
    <3>4. CASE em.ents[e].deleted = "pending" /\ em.ents[e].id # None
      <4>1. Writes(e)
        BY <3>1, <3>4 DEF Writes, IsPending, IsNew
      <4>2. m.ents[e].id \in deleted
        BY <3>1, <4>1 DEF deleted, DeletedBy
      <4> QED BY <1>1, <1>7, <4>2
    <3>5. em.ents[e].deleted \in {"pending", "done"}
      BY <3>1, <1>2 DEF Sound, IsEntity, IsLive
    <3> QED BY <3>2, <3>3, <3>4, <3>5
  <2> QED BY <1>9, <2>1, <2>2 DEF DeletedAreGone
<1>15. ASSUME "flush" \notin Allowed, RowsAreCurrent, SnapsAreCurrent, NotBehindOwnCommit
       PROVE  (RowsAreCurrent /\ SnapsAreCurrent /\ NotBehindOwnCommit)'
  <2>1. RowsAreCurrent'
    BY <1>6, <1>7, <1>15, <1>8 DEF RowsAreCurrent
  <2>2. \A i \in DOMAIN queries : queries[i].kind = "refresh" => queries[i].state = "done"
    BY <1>1, <1>15 DEF MayFlush, ToSet
  <2>3. SnapsAreCurrent'
    BY <1>1, <2>2 DEF SnapsAreCurrent
  <2>4. ASSUME NEW i \in DOMAIN committed'
        PROVE  LET e == em'.byId[IdRef(i)] IN ~IsLive(em', e) \/ em'.ents[e].at >= committed'[i]
    <3>1. CASE i \in written
      BY <3>1, <1>1, <1>6, <1>7
    <3>2. CASE i \notin written
      <4> DEFINE e == em.byId[IdRef(i)]
      <4>1. i \in DOMAIN committed /\ committed'[i] = committed[i]
        BY <3>2, <1>7
      <4>2. IdRef(i) \in DOMAIN em.byId /\ e \in All(em) /\ em.ents[e].id = i /\ i # None
        BY <4>1 DEF IInv, Memory, Sound
      <4>3. em'.byId[IdRef(i)] = e /\ e \notin News(em) /\ em'.ents[e].id = i
        BY <4>2, <1>1, <1>2 DEF Flushes, News, IsNew
      <4>4. ~(IsLive(em, e) /\ IsPending(em, e))
        BY <3>2, <4>2, <4>3, <1>1 DEF written, WrittenBy
      <4>5. em'.ents[e].at = em.ents[e].at /\ (IsLive(em', e) => IsLive(em, e))
        BY <1>1, <1>2, <4>2, <4>4 DEF Flushes, IsLive
      <4> QED BY <1>15, <4>1, <4>3, <4>5 DEF NotBehindOwnCommit
    <3> QED BY <3>1, <3>2
  <2> QED BY <2>1, <2>3, <2>4 DEF NotBehindOwnCommit
<1> QED BY <1>10, <1>11, <1>12, <1>13, <1>14, <1>15 DEF IInv

LEMMA OtherManagerStep ==
  ASSUME IInv, OtherManager
  PROVE  IInv'
<1>1. UNCHANGED <<last, em, loaders, queries, batches, calls, committed>>
  BY DEF OtherManager
<1>2. Loaders'
  BY <1>1 DEF IInv, Loaders
<1>3. CASE InsertRow
  <2>1. /\ open' = {} /\ DOMAIN rows' = open \union DOMAIN rows
        /\ \A i \in DOMAIN rows' : rows'[i] = IF i \in open THEN NewRow ELSE rows[i]
    BY <1>3 DEF InsertRow, Over
  <2>2. IsRow(NewRow)
    BY RowsAssumption DEF IsRow
  <2>3. Rows' /\ Memory' /\ Snaps'
    BY <1>1, <2>1, <2>2 DEF IInv, Rows, Memory, Snaps
  <2>4. ASSUME "insert" \notin Allowed, Missed, DeletedAreGone
        PROVE  (Missed /\ DeletedAreGone)'
    <3>1. \A i \in DOMAIN queries : queries[i].state = "sent" => queries[i].ids \intersect open = {}
      BY <1>3, <2>4 DEF InsertRow, ToSet
    <3>2. Missed'
      BY <1>1, <2>1, <2>4, <3>1 DEF Missed
    <3>3. ASSUME NEW e \in All(em), em.ents[e].deleted = "done"
          PROVE  em.ents[e].id \notin DOMAIN rows'
      <4>1. em.ents[e].id \notin open
        BY DEF IInv, Memory, Sound, Rows, None
      <4> QED BY <2>1, <2>4, <3>3, <4>1 DEF DeletedAreGone
    <3> QED BY <1>1, <3>2, <3>3 DEF DeletedAreGone
  <2>5. ASSUME RowsAreCurrent, SnapsAreCurrent, NotBehindOwnCommit
        PROVE  (RowsAreCurrent /\ SnapsAreCurrent /\ NotBehindOwnCommit)'
    <3>1. DOMAIN committed \intersect open = {}
      BY DEF IInv, Memory
    <3>2. RowsAreCurrent'
      BY <1>1, <2>1, <2>5, <3>1 DEF RowsAreCurrent
    <3> QED BY <1>1, <2>5, <3>2 DEF SnapsAreCurrent, NotBehindOwnCommit
  <2> QED BY <1>2, <2>3, <2>4, <2>5 DEF IInv
<1>4. CASE \E i \in DOMAIN rows : ChangeRow(i)
  <2>1. /\ open' = open /\ DOMAIN rows' \subseteq DOMAIN rows
        /\ \A k \in DOMAIN rows' : IsRow(rows'[k]) /\ rows'[k].at >= rows[k].at
    <3>1. PICK i \in DOMAIN rows : ChangeRow(i)
      BY <1>4
    <3>2. \A k \in DOMAIN rows : IsRow(rows[k]) /\ rows[k].at \in Nat
      BY DEF IInv, Rows, IsRow
    <3>3. ASSUME NEW x, IsRow(x), x.at >= rows[i].at, rows' = [rows EXCEPT ![i] = x]
          PROVE  DOMAIN rows' \subseteq DOMAIN rows /\ \A k \in DOMAIN rows' : IsRow(rows'[k]) /\ rows'[k].at >= rows[k].at
      BY <3>2, <3>3
    <3>4. CASE rows' = [rows EXCEPT ![i].name = OtherName, ![i].at = @ + 1]
      <4> DEFINE x == [[rows[i] EXCEPT !.name = OtherName] EXCEPT !.at = rows[i].at + 1]
      <4>1. IsRow(x) /\ x.at >= rows[i].at
        <5>1. IsRow(rows[i]) /\ rows[i].at \in Nat /\ rows[i].at + 1 \in Nat /\ rows[i].at + 1 >= rows[i].at
          BY <3>1, <3>2
        <5>2. IsRow(x) /\ x.at = rows[i].at + 1
          BY <5>1 DEF IsRow
        <5> QED BY <5>1, <5>2
      <4>2. rows' = [rows EXCEPT ![i] = x]
        BY <3>2, <3>4 DEF IsRow
      <4> HIDE DEF x
      <4> QED BY <3>1, <3>3, <4>1, <4>2 DEF ChangeRow
    <3>5. CASE rows' = [rows EXCEPT ![i].gone = ~@, ![i].at = @ + 1]
      <4> DEFINE x == [[rows[i] EXCEPT !.gone = ~@] EXCEPT !.at = rows[i].at + 1]
      <4>1. IsRow(x) /\ x.at >= rows[i].at
        <5>1. IsRow(rows[i]) /\ rows[i].at \in Nat /\ rows[i].at + 1 \in Nat /\ rows[i].at + 1 >= rows[i].at
          BY <3>1, <3>2
        <5>2. IsRow(x) /\ x.at = rows[i].at + 1
          BY <5>1 DEF IsRow
        <5> QED BY <5>1, <5>2
      <4>2. rows' = [rows EXCEPT ![i] = x]
        BY <3>2, <3>5 DEF IsRow
      <4> HIDE DEF x
      <4> QED BY <3>1, <3>3, <4>1, <4>2 DEF ChangeRow
    <3>6. CASE rows' = [k \in DOMAIN rows \ {i} |-> rows[k]]
      BY <3>1, <3>2, <3>6 DEF ChangeRow
    <3> QED BY <3>1, <3>4, <3>5, <3>6 DEF ChangeRow
  <2>2. Rows' /\ Memory' /\ Snaps'
    BY <1>1, <2>1 DEF IInv, Rows, Memory, Snaps
  <2>3. ASSUME Missed, DeletedAreGone
        PROVE  (Missed /\ DeletedAreGone)'
    BY <1>1, <2>1, <2>3 DEF Missed, DeletedAreGone
  <2>4. ASSUME RowsAreCurrent, SnapsAreCurrent, NotBehindOwnCommit
        PROVE  (RowsAreCurrent /\ SnapsAreCurrent /\ NotBehindOwnCommit)'
    <3>1. ASSUME NEW i \in DOMAIN committed, i \in DOMAIN rows'
          PROVE  rows'[i].at >= committed[i]
      <4>1. i \in DOMAIN rows /\ rows'[i].at >= rows[i].at /\ rows[i].at >= committed[i] /\ committed[i] \in Nat
        BY <2>1, <2>4, <3>1 DEF RowsAreCurrent
      <4>2. rows'[i].at \in Nat /\ rows[i].at \in Nat
        BY <2>1, <3>1, <4>1 DEF IsRow, IInv, Rows
      <4> QED BY <4>1, <4>2
    <3>2. RowsAreCurrent'
      BY <1>1, <2>4, <3>1 DEF RowsAreCurrent
    <3> QED BY <1>1, <2>4, <3>2 DEF SnapsAreCurrent, NotBehindOwnCommit
  <2> QED BY <1>2, <2>2, <2>3, <2>4 DEF IInv
<1> QED BY <1>3, <1>4 DEF OtherManager

----------------------------------------------------------------------------
(* What always holds. *)

LEMMA Start == Init => IInv
<1> SUFFICES ASSUME Init
             PROVE  IInv
  OBVIOUS
<1> USE DEF Init
<1>1. Rows
  <2> DEFINE n == Max(DOMAIN rows)
  <2>1. n \in Nat /\ DOMAIN rows \subseteq 1..n /\ \A i \in DOMAIN rows : IsRow(rows[i])
    BY RowsAssumption DEF IsRow
  <2>2. last = n + 1 /\ open = {n + 1}
    OBVIOUS
  <2> HIDE DEF n, Init
  <2> QED BY <2>1, <2>2 DEF Rows
<1>2. Sound(em, last) /\ DOMAIN em.byId = {} /\ All(em) = {}
  BY EmptyIsSeq DEF NoEntities, Sound, IsManager, All
<1>3. Memory
  BY <1>2 DEF Memory
<1>4. Loaders
  BY EmptyIsSeq DEF Loaders, QueriesOK, CallsOK, BatchesOK
<1>5. Snaps /\ Missed /\ SnapsAreCurrent /\ RowsAreCurrent
  BY DEF Snaps, Missed, SnapsAreCurrent, RowsAreCurrent
<1>6. DeletedAreGone /\ NotBehindOwnCommit
  BY <1>2 DEF DeletedAreGone, NotBehindOwnCommit
<1> QED BY <1>1, <1>3, <1>4, <1>5, <1>6 DEF IInv

LEMMA Preserved == IInv /\ [Next]_vars => IInv'
<1> SUFFICES ASSUME IInv, [Next]_vars
             PROVE  IInv'
  OBVIOUS
<1>1. ASSUME NEW ids \in Loads, Load(ids \intersect 1..last)
      PROVE  IInv'
  BY <1>1, LoadStep
<1>2. CASE Refresh
  BY <1>2, RefreshStep
<1>3. ASSUME NEW where \in WheresIn(em), FindWithNewOrChanged(where)
      PROVE  IInv'
  BY <1>3, FindWithNewOrChangedStep
<1>4. ASSUME NEW where \in WheresIn(em), NEW key \in DOMAIN Upsert, FindOrCreate(where, key)
      PROVE  IInv'
  BY <1>4, FindOrCreateStep
<1>5. ASSUME NEW i \in DOMAIN queries, Send(i) \/ Receive(i)
      PROVE  IInv'
  BY <1>5, SendStep, ReceiveStep
<1>6. ASSUME NEW c \in DOMAIN calls, Resolve(c)
      PROVE  IInv'
  BY <1>6, ResolveStep
<1>7. ASSUME NEW b \in DOMAIN batches, RunBatch(b) \/ FinishBatch(b)
      PROVE  IInv'
  BY <1>7, RunBatchStep, FinishBatchStep
<1>8. CASE Program \/ Flush \/ OtherManager
  BY <1>8, ProgramStep, FlushStep, OtherManagerStep
<1>9. CASE UNCHANGED vars
  <2>1. UNCHANGED database /\ UNCHANGED <<em, loaders, queries, batches, calls>>
    BY <1>9 DEF vars, database
  <2>2. Loaders'
    BY <2>1 DEF IInv, Loaders, database
  <2>3. Edited(em, em', last) /\ Same(queries')
    BY <2>1, EmSame, SameSelf
  <2> QED BY <2>1, <2>2, <2>3, Calm
<1> QED BY <1>1, <1>2, <1>3, <1>4, <1>5, <1>6, <1>7, <1>8, <1>9 DEF Next

LEMMA Invariant == Spec => []IInv
BY Start, Preserved, PTL DEF Spec

\* Whatever the tables, the calls, their bounds and what is allowed under them: a row has one
\* entity in the identity map however many calls read it, and it is found by its id
\* (OneEntityPerId; EntityManager.ts's hydrate and findExistingInstance).
THEOREM RowsHaveOneEntity == Spec => []OneEntityPerId
<1>1. IInv => OneEntityPerId
  <2> SUFFICES ASSUME IInv
               PROVE  OneEntityPerId
    OBVIOUS
  <2>1. \A i \in DOMAIN queries :
          queries[i].state \in {"queued", "sent", "done"} /\ queries[i].loader \in 0..loaders
          /\ queries[i].found \subseteq All(em)
    BY DEF IInv, Loaders, QueriesOK, IsQuery
  <2>2. \A c \in DOMAIN calls : calls[c].on \in DOMAIN queries
    BY DEF IInv, Loaders, CallsOK
  <2>3. None \notin All(em)
    BY SeqFacts DEF IInv, Memory, Sound, All, None
  <2>4. \A b \in DOMAIN batches :
          /\ batches[b].state \in {"queued", "finding", "done", "failed"}
          /\ batches[b].state = "done" <=> batches[b].entity \in All(em)
    BY <2>3 DEF IInv, Loaders, BatchesOK, IsBatch
  <2>5. TypeOK
    BY <2>1, <2>2, <2>4 DEF TypeOK, IInv, Rows
  <2>6. ASSUME NEW e \in All(em), ~IsNew(em, e)
        PROVE  FindExistingInstance(em, IdRef(em.ents[e].id)) = e
    BY <2>6 DEF IInv, Memory, Sound, IsNew, FindExistingInstance
  <2> QED BY <2>5, <2>6 DEF OneEntityPerId
<1> QED BY <1>1, Invariant, PTL

\* An entity is deleted for good only when its row is gone, by a flush or because a load did
\* not find it, if no row is inserted while a load that found none is on its way back: that
\* is what "insert" allows (DeletedAreGone; EntityManager.ts's markDeletedBecauseNotFound).
THEOREM DeletedHaveNoRow ==
  ASSUME "insert" \notin Allowed
  PROVE  Spec => []DeletedAreGone
<1>1. IInv => DeletedAreGone
  BY DEF IInv
<1> QED BY <1>1, Invariant, PTL

\* No answer replaces what the manager has committed since it was selected, if nothing is
\* flushed under a refresh: that is what "flush" allows (NotBehindOwnCommit; EntityManager.ts's
\* refresh).
THEOREM NeverBehindOwnCommit ==
  ASSUME "flush" \notin Allowed
  PROVE  Spec => []NotBehindOwnCommit
<1>1. IInv => NotBehindOwnCommit
  BY DEF IInv
<1> QED BY <1>1, Invariant, PTL

----------------------------------------------------------------------------
(* The index. *)

\* A reference that means something in m.
IsRef(m, v) ==
  \/ v = Unset
  \/ v = IdRef(v[2]) /\ v[2] # None
  \/ v = EntityRef(v[2]) /\ v[2] \in All(m)
HasData(m, x) == x.data \in [name : {x.data.name}, ref : {x.data.ref}, gone : {x.data.gone}] /\ IsRef(m, x.data.ref)

\* It refers to what is deleted, whose id is not looked up any more.
Dead(m, v) == \E d \in All(m) : SameEntity(m, EntityRef(d), v) /\ ~IsLive(m, d)

\* An entity is indexed under its value...
ValueFits(m, f, e) ==
  /\ \A p \in m.pairs : p[1] = f /\ p[3] = e => p[2] = m.ents[e].data[f]
  /\ e <= m.indexed[f] => <<f, m.ents[e].data[f], e>> \in m.pairs
\* ...and under one or both of the keys of what it refers to, unless that is deleted.
RefFits(m, e) ==
  LET v == m.ents[e].data.ref
  IN /\ \A p \in m.pairs : p[1] = "ref" /\ p[3] = e =>
          IsRef(m, p[2]) /\ (p[2] # Unset => SameEntity(m, p[2], v))
     /\ e <= m.indexed["ref"] /\ v # Unset /\ ~Dead(m, v) =>
          \E p \in m.pairs : p[1] = "ref" /\ p[3] = e /\ p[2] # Unset
FieldFits(m, f, e) == IF f = "ref" THEN RefFits(m, e) ELSE ValueFits(m, f, e)

IndexFits(m) ==
  /\ DOMAIN m.indexed \subseteq Fields /\ \A f \in DOMAIN m.indexed : m.indexed[f] \in 0..Len(m.ents)
  /\ \A p \in m.pairs : p = <<p[1], p[2], p[3]>> /\ p[1] \in DOMAIN m.indexed /\ p[3] \in All(m)
  /\ \A e \in All(m) : HasData(m, m.ents[e]) /\ \A f \in DOMAIN m.indexed : FieldFits(m, f, e)

\* The batches' where clauses name entities of m, and their first keys are what an upsert sets.
IsWhere(m, where) ==
  /\ DOMAIN where \subseteq Fields
  /\ "ref" \in DOMAIN where => where["ref"] = EntityRef(where["ref"][2]) /\ where["ref"][2] \in All(m)
IsBatchOf(m, b) == IsWhere(m, b.where) /\ IsSeq(b.keys) /\ b.keys # <<>> /\ b.keys[1] \in DOMAIN Upsert

IndexInv ==
  /\ \A b \in DOMAIN batches : IsBatchOf(em, batches[b])
  /\ \A c \in DOMAIN calls : DOMAIN calls[c].where \subseteq Fields
  /\ ~reloaded => IndexFits(em)

\* The program has its find clauses from the manager, upserts set no reference, and no reference of
\* an indexed entity is unset: the entry by its instance would stay.
IndexHolds ==
  /\ "unset" \notin Allowed
  /\ \A k \in DOMAIN Upsert : "ref" \notin DOMAIN Upsert[k]
  /\ \A m : \A where \in WheresIn(m) : IsWhere(m, where)

----------------------------------------------------------------------------
(* References and their keys. *)

\* An id is one entity's.
LEMMA OneOfId ==
  ASSUME NEW m, NEW n, Sound(m, n), NEW d \in All(m), NEW e \in All(m), m.ents[d].id = m.ents[e].id,
         m.ents[d].id # None
  PROVE  d = e
BY DEF Sound

\* What refers to d, by itself or by its id.
LEMMA RefersTo ==
  ASSUME NEW m, NEW n, Sound(m, n), NEW d \in All(m), NEW v, IsRef(m, v)
  PROVE  SameEntity(m, EntityRef(d), v) <=> v = EntityRef(d) \/ (m.ents[d].id # None /\ v = IdRef(m.ents[d].id))
BY DEF SameEntity, IsRef, IdRef, EntityRef, Unset, IdOf

\* The keys of d.
LEMMA KeysOf ==
  ASSUME NEW m, NEW d \in All(m)
  PROVE  Keys(m, EntityRef(d)) = {EntityRef(d)} \cup {u \in {IdRef(m.ents[d].id)} : m.ents[d].id # None}
BY DEF Keys, EntityRef, IdOf

\* A scan compares what is referred to.
LEMMA ScanRefers ==
  ASSUME NEW m, NEW n, Sound(m, n), NEW d \in All(m), IsLive(m, d), NEW v, IsRef(m, v)
  PROVE  SameEntity(m, RefValue(m, v), EntityRef(d)) <=> SameEntity(m, EntityRef(d), v)
<1>1. CASE v = Unset
  BY <1>1 DEF RefValue, IsLoaded, Get, SameEntity, Unset, EntityRef
<1>2. CASE v = IdRef(v[2]) /\ v[2] # None
  <2>1. CASE v \notin DOMAIN m.byId
    BY <1>2, <2>1 DEF RefValue, IsLoaded, SameEntity, IdRef, EntityRef, IdOf, Unset
  <2>2. CASE v \in DOMAIN m.byId
    <3> DEFINE x == m.byId[v]
    <3>1. x \in All(m) /\ m.ents[x].id = v[2]
      BY <1>2, <2>2 DEF Sound
    <3>2. RefValue(m, v) = IF IsLive(m, x) THEN EntityRef(x) ELSE Unset
      BY <1>2, <2>2 DEF RefValue, IsLoaded, Get, IdRef, Unset
    <3> HIDE DEF x
    <3>3. SameEntity(m, RefValue(m, v), EntityRef(d)) <=> IsLive(m, x) /\ x = d
      BY <3>2 DEF SameEntity, EntityRef, Unset
    <3>4. SameEntity(m, EntityRef(d), v) <=> m.ents[d].id = v[2]
      BY <1>2 DEF SameEntity, EntityRef, IdRef, IdOf, Unset
    <3>5. m.ents[d].id = v[2] <=> x = d
      BY <1>2, <3>1, OneOfId
    <3> QED BY <3>3, <3>4, <3>5
  <2> QED BY <2>1, <2>2
<1>3. CASE v = EntityRef(v[2]) /\ v[2] \in All(m)
  <2>1. RefValue(m, v) = IF IsLive(m, v[2]) THEN EntityRef(v[2]) ELSE Unset
    BY <1>3 DEF RefValue, IsLoaded, Get, EntityRef, Unset
  <2>2. SameEntity(m, EntityRef(d), v) <=> v[2] = d
    BY <1>3 DEF SameEntity, EntityRef
  <2>3. SameEntity(m, RefValue(m, v), EntityRef(d)) <=> IsLive(m, v[2]) /\ v[2] = d
    BY <2>1 DEF SameEntity, EntityRef, Unset
  <2> QED BY <2>2, <2>3
<1> QED BY <1>1, <1>2, <1>3 DEF IsRef

\* What an entity is indexed under finds d just when it refers to d.
LEMMA KeyRefers ==
  ASSUME NEW m, NEW n, Sound(m, n), NEW d \in All(m), NEW v, IsRef(m, v),
         NEW u, IsRef(m, u), u # Unset, SameEntity(m, u, v)
  PROVE  u \in Keys(m, EntityRef(d)) <=> SameEntity(m, EntityRef(d), v)
<1>1. u \in Keys(m, EntityRef(d)) <=> u = EntityRef(d) \/ (m.ents[d].id # None /\ u = IdRef(m.ents[d].id))
  BY KeysOf
<1>2. SameEntity(m, EntityRef(d), v) <=> v = EntityRef(d) \/ (m.ents[d].id # None /\ v = IdRef(m.ents[d].id))
  BY RefersTo
<1>3. CASE u = v
  BY <1>1, <1>2, <1>3
<1>4. CASE u # v /\ u = IdRef(u[2]) /\ u[2] # None
  <2>1. v = EntityRef(v[2]) /\ v[2] \in All(m) /\ m.ents[v[2]].id = u[2]
    BY <1>4 DEF SameEntity, IsRef, IdRef, EntityRef, Unset, IdOf
  <2>2. u \in Keys(m, EntityRef(d)) <=> m.ents[d].id = u[2]
    BY <1>1, <1>4 DEF IdRef, EntityRef
  <2>3. SameEntity(m, EntityRef(d), v) <=> v[2] = d
    BY <1>2, <2>1 DEF IdRef, EntityRef
  <2>4. m.ents[d].id = u[2] <=> v[2] = d
    BY <1>4, <2>1, OneOfId
  <2> QED BY <2>2, <2>3, <2>4
<1>5. CASE u # v /\ u = EntityRef(u[2]) /\ u[2] \in All(m)
  <2>1. v = IdRef(v[2]) /\ v[2] # None /\ m.ents[u[2]].id = v[2]
    BY <1>5 DEF SameEntity, IsRef, IdRef, EntityRef, Unset, IdOf
  <2>2. u \in Keys(m, EntityRef(d)) <=> u[2] = d
    BY <1>1, <1>5 DEF IdRef, EntityRef
  <2>3. SameEntity(m, EntityRef(d), v) <=> m.ents[d].id = v[2]
    BY <1>2, <2>1 DEF IdRef, EntityRef
  <2>4. m.ents[d].id = v[2] <=> u[2] = d
    BY <2>1, <1>5, OneOfId
  <2> QED BY <2>2, <2>3, <2>4
<1> QED BY <1>3, <1>4, <1>5 DEF IsRef

----------------------------------------------------------------------------
(* Steps that leave the index as it is. *)

\* Entities stay, with their ids, and what is deleted stays deleted.
Extends(m, r) ==
  /\ All(m) \subseteq All(r)
  /\ \A e \in All(m) : /\ m.ents[e].id # None => r.ents[e].id = m.ents[e].id
                       /\ ~IsLive(m, e) => ~IsLive(r, e)

\* New entities come last, and values stay.
Stays(m, r) ==
  /\ Extends(m, r)
  /\ r.pairs = m.pairs /\ r.indexed = m.indexed
  /\ \A e \in All(m) : r.ents[e].data = m.ents[e].data
  /\ \A e \in All(r) \ All(m) : HasData(r, r.ents[e])

LEMMA RefStays ==
  ASSUME NEW m, NEW r, Extends(m, r), NEW v, IsRef(m, v)
  PROVE  /\ IsRef(r, v)
         /\ \A u : IsRef(m, u) /\ SameEntity(m, u, v) => SameEntity(r, u, v)
         /\ Dead(m, v) => Dead(r, v)
<1>1. IsRef(r, v)
  BY DEF IsRef, Extends
<1>2. ASSUME NEW u, IsRef(m, u), SameEntity(m, u, v)
      PROVE  SameEntity(r, u, v)
  <2>1. CASE u = v
    BY <2>1 DEF SameEntity
  <2>2. CASE u # v
    <3>1. Unset \notin {u, v} /\ "id" \in {u[1], v[1]} /\ IdOf(m, u) = IdOf(m, v)
      BY <1>2, <2>2 DEF SameEntity
    <3>2. IdOf(m, u) # None /\ IdOf(m, v) # None
      BY <1>2, <3>1 DEF IsRef, IdRef, EntityRef, Unset, IdOf
    <3>3. IdOf(r, u) = IdOf(m, u) /\ IdOf(r, v) = IdOf(m, v)
      BY <1>2, <3>2 DEF IsRef, IdRef, EntityRef, Unset, IdOf, Extends
    <3> QED BY <3>1, <3>3 DEF SameEntity
  <2> QED BY <2>1, <2>2
<1>3. ASSUME Dead(m, v)
      PROVE  Dead(r, v)
  <2>1. PICK d \in All(m) : SameEntity(m, EntityRef(d), v) /\ ~IsLive(m, d)
    BY <1>3 DEF Dead
  <2>2. IsRef(m, EntityRef(d))
    BY DEF IsRef, EntityRef
  <2>3. SameEntity(r, EntityRef(d), v) /\ ~IsLive(r, d) /\ d \in All(r)
    BY <1>2, <2>1, <2>2 DEF Extends
  <2> QED BY <2>3 DEF Dead
<1> QED BY <1>1, <1>2, <1>3

LEMMA StaysTransitive ==
  ASSUME NEW m, NEW r, NEW q, Stays(m, r), Stays(r, q)
  PROVE  Stays(m, q)
<1>1. Extends(m, q)
  BY DEF Stays, Extends
<1>2. ASSUME NEW e \in All(q) \ All(m)
      PROVE  HasData(q, q.ents[e])
  <2>1. CASE e \in All(r)
    <3>1. HasData(r, r.ents[e]) /\ q.ents[e].data = r.ents[e].data
      BY <2>1 DEF Stays
    <3> QED BY <3>1, RefStays DEF HasData, Stays
  <2>2. CASE e \notin All(r)
    BY <2>2 DEF Stays
  <2> QED BY <2>1, <2>2
<1>3. \A e \in All(m) : q.ents[e].data = m.ents[e].data
  BY DEF Stays, Extends
<1> QED BY <1>1, <1>2, <1>3 DEF Stays

LEMMA StaysFits ==
  ASSUME NEW m, NEW n, Sound(m, n), NEW r, NEW k, Sound(r, k), IndexFits(m), Stays(m, r)
  PROVE  IndexFits(r)
<1>1. /\ All(m) = 1..Len(m.ents) /\ Len(m.ents) \in Nat
      /\ All(r) = 1..Len(r.ents) /\ Len(r.ents) \in Nat
  BY SeqFacts DEF Sound, All
<1>2. Len(m.ents) <= Len(r.ents)
  <2>1. CASE Len(m.ents) = 0
    BY <1>1, <2>1
  <2>2. CASE Len(m.ents) # 0
    <3>1. Len(m.ents) \in All(r)
      BY <1>1, <2>2 DEF Stays, Extends
    <3> QED BY <1>1, <3>1
  <2> QED BY <2>1, <2>2
<1>3. DOMAIN r.indexed \subseteq Fields /\ \A f \in DOMAIN r.indexed : r.indexed[f] \in 0..Len(r.ents)
  BY <1>1, <1>2 DEF IndexFits, Stays
<1>4. \A p \in r.pairs : p = <<p[1], p[2], p[3]>> /\ p[1] \in DOMAIN r.indexed /\ p[3] \in All(r)
  BY DEF IndexFits, Stays, Extends
<1>5. ASSUME NEW e \in All(m), NEW f \in DOMAIN r.indexed
      PROVE  FieldFits(r, f, e)
  <2>1. FieldFits(m, f, e) /\ HasData(m, m.ents[e]) /\ r.ents[e].data = m.ents[e].data
    BY <1>5 DEF IndexFits, Stays
  <2>2. CASE f # "ref"
    BY <2>1, <2>2 DEF FieldFits, ValueFits, Stays
  <2>3. CASE f = "ref"
    <3> DEFINE v == m.ents[e].data.ref
    <3>1. IsRef(m, v) /\ Extends(m, r) /\ RefFits(m, e)
      BY <2>1, <2>3 DEF HasData, Stays, FieldFits
    <3>2. ASSUME NEW p \in r.pairs, p[1] = "ref", p[3] = e
          PROVE  IsRef(r, p[2]) /\ (p[2] # Unset => SameEntity(r, p[2], v))
      <4>1. IsRef(m, p[2]) /\ (p[2] # Unset => SameEntity(m, p[2], v))
        BY <3>1, <3>2 DEF RefFits, Stays
      <4> QED BY <3>1, <4>1, RefStays
    <3>3. Dead(m, v) => Dead(r, v)
      BY <3>1, RefStays
    <3> QED BY <2>1, <2>3, <3>1, <3>2, <3>3 DEF FieldFits, RefFits, Stays
  <2> QED BY <2>2, <2>3
<1>6. ASSUME NEW e \in All(r) \ All(m), NEW f \in DOMAIN r.indexed
      PROVE  FieldFits(r, f, e)
  <2>1. \A p \in r.pairs : p[3] # e
    BY <1>6 DEF IndexFits, Stays
  <2>2. ~(e <= r.indexed[f])
    <3>1. r.indexed[f] \in 0..Len(m.ents)
      BY <1>6 DEF IndexFits, Stays
    <3> QED BY <1>1, <1>6, <3>1
  <2> QED BY <2>1, <2>2, <1>6 DEF FieldFits, ValueFits, RefFits
<1>7. \A e \in All(r) : HasData(r, r.ents[e])
  <2> SUFFICES ASSUME NEW e \in All(m)
               PROVE  HasData(r, r.ents[e])
    BY DEF Stays
  <2>1. HasData(m, m.ents[e]) /\ r.ents[e].data = m.ents[e].data
    BY DEF IndexFits, Stays
  <2> QED BY <2>1, RefStays DEF HasData, Stays
<1> QED BY <1>3, <1>4, <1>5, <1>6, <1>7 DEF IndexFits

----------------------------------------------------------------------------
(* Setting fields. *)

\* r is m with a field of e set, and its index.
FieldIsSet(m, r, e, f, v) ==
  /\ r.indexed = m.indexed /\ All(r) = All(m) /\ Len(r.ents) = Len(m.ents)
  /\ r.pairs = IF f \in DOMAIN m.indexed
               THEN (m.pairs \ Entries(m, f, m.ents[e].data[f], e)) \union Entries(m, f, v, e)
               ELSE m.pairs
  /\ \A d \in All(m) :
       /\ r.ents[d].id = m.ents[d].id /\ r.ents[d].deleted = m.ents[d].deleted
       /\ r.ents[d].data = IF d = e THEN [m.ents[e].data EXCEPT ![f] = v] ELSE m.ents[d].data
\* A reference may be set that was unset, or is not indexed.
MaySet(m, e, f, v) == f = "ref" => IsRef(m, v) /\ (m.ents[e].data.ref = Unset \/ "ref" \notin DOMAIN m.indexed)

LEMMA FieldSet ==
  ASSUME NEW m, NEW n, Sound(m, n), IndexFits(m), NEW e \in All(m), NEW f \in Fields, NEW v,
         MaySet(m, e, f, v), NEW r, FieldIsSet(m, r, e, f, v)
  PROVE  IndexFits(r)
<1> USE DEF FieldIsSet, MaySet
<1> DEFINE x == m.ents[e].data
<1>1. Extends(m, r)
  BY DEF Extends, IsLive
<1>2. x \in [name : {x.name}, ref : {x.ref}, gone : {x.gone}] /\ IsRef(m, x.ref)
  BY DEF IndexFits, HasData
<1>3. \A d \in All(r) : HasData(r, r.ents[d])
  <2>1. ASSUME NEW d \in All(m), d # e
        PROVE  HasData(r, r.ents[d])
    BY <1>1, <2>1, RefStays DEF IndexFits, HasData
  <2>2. HasData(r, r.ents[e])
    <3> DEFINE y == [x EXCEPT ![f] = v]
    <3>1. y \in [name : {y.name}, ref : {y.ref}, gone : {y.gone}]
      BY <1>2 DEF Fields
    <3>2. y.ref = IF f = "ref" THEN v ELSE x.ref
      BY <1>2 DEF Fields
    <3>3. r.ents[e].data = y
      OBVIOUS
    <3> HIDE DEF x, y
    <3>4. IsRef(m, y.ref)
      BY <1>2, <3>2
    <3> QED BY <1>1, <3>1, <3>3, <3>4, RefStays DEF HasData
  <2> QED BY <2>1, <2>2
<1>4. /\ \A p \in Entries(m, f, v, e) : p = <<p[1], p[2], p[3]>> /\ p[1] = f /\ p[3] = e
      /\ \A p \in Entries(m, f, x[f], e) : p[1] = f /\ p[3] = e
  BY DEF Entries
<1>5. \A p \in r.pairs : p = <<p[1], p[2], p[3]>> /\ p[1] \in DOMAIN r.indexed /\ p[3] \in All(r)
  BY <1>4 DEF IndexFits
<1>6. ASSUME NEW d \in All(m), NEW g \in DOMAIN m.indexed, d # e \/ g # f
      PROVE  FieldFits(r, g, d)
  <2>1. FieldFits(m, g, d) /\ HasData(m, m.ents[d])
    BY <1>6 DEF IndexFits
  <2>2. \A p : p[1] = g /\ p[3] = d => (p \in r.pairs <=> p \in m.pairs)
    BY <1>4, <1>6
  <2>3. g \in Fields /\ r.ents[d].data[g] = m.ents[d].data[g]
    <3>1. g \in Fields
      BY <1>6 DEF IndexFits
    <3> QED BY <1>2, <1>6, <3>1 DEF Fields
  <2>4. CASE g # "ref"
    BY <2>1, <2>2, <2>3, <2>4 DEF FieldFits, ValueFits
  <2>5. CASE g = "ref"
    <3>1. RefFits(m, d) /\ r.ents[d].data.ref = m.ents[d].data.ref /\ IsRef(m, m.ents[d].data.ref)
      BY <2>1, <2>3, <2>5 DEF FieldFits, HasData
    <3>2. \A u : IsRef(m, u) => IsRef(r, u)
      BY <1>1, RefStays
    <3>3. \A u : IsRef(m, u) /\ SameEntity(m, u, m.ents[d].data.ref) => SameEntity(r, u, m.ents[d].data.ref)
      BY <1>1, <3>1, RefStays
    <3>4. Dead(m, m.ents[d].data.ref) => Dead(r, m.ents[d].data.ref)
      BY <1>1, <3>1, RefStays
    <3>5. RefFits(r, d)
      BY <2>2, <2>5, <3>1, <3>2, <3>3, <3>4 DEF RefFits
    <3> QED BY <2>5, <3>5 DEF FieldFits
  <2> QED BY <2>4, <2>5
<1>7. ASSUME f \in DOMAIN m.indexed, f # "ref"
      PROVE  FieldFits(r, f, e)
  <2>1. Entries(m, f, v, e) = {<<f, v, e>>} /\ Entries(m, f, x[f], e) = {<<f, x[f], e>>}
    BY <1>7 DEF Entries
  <2>2. \A p \in m.pairs : p[1] = f /\ p[3] = e => p = <<f, x[f], e>>
    <3>1. FieldFits(m, f, e) /\ \A p \in m.pairs : p = <<p[1], p[2], p[3]>>
      BY <1>7 DEF IndexFits
    <3>2. \A p \in m.pairs : p[1] = f /\ p[3] = e => p[2] = x[f]
      BY <1>7, <3>1 DEF FieldFits, ValueFits
    <3> HIDE DEF x
    <3> QED BY <3>1, <3>2
  <2>3. r.ents[e].data[f] = v
    BY <1>2 DEF Fields
  <2> QED BY <1>7, <2>1, <2>2, <2>3 DEF FieldFits, ValueFits
<1>8. ASSUME f \in DOMAIN m.indexed, f = "ref"
      PROVE  FieldFits(r, f, e)
  <2>1. x.ref = Unset /\ RefFits(m, e) /\ IsRef(m, v)
    BY <1>8 DEF IndexFits, FieldFits
  <2>2. \A p \in m.pairs : p[1] = "ref" /\ p[3] = e => p[2] = Unset
    BY <2>1 DEF RefFits, SameEntity
  <2>3. Entries(m, f, x[f], e) = {<<"ref", Unset, e>>}
    <3>1. x[f] = Unset /\ Keys(m, Unset) = {Unset}
      BY <1>8, <2>1 DEF Keys, Unset
    <3> HIDE DEF x
    <3> QED BY <1>8, <3>1 DEF Entries
  <2>4. \A p \in r.pairs : p[1] = "ref" /\ p[3] = e => p[2] \in Keys(m, v)
    BY <1>8, <2>2, <2>3 DEF IndexFits, Entries
  <2>5. \A u \in Keys(m, v) : IsRef(m, u) /\ SameEntity(m, u, v)
    BY <2>1 DEF Keys, IsRef, SameEntity, IdOf, IdRef, EntityRef, Unset
  <2>6. r.ents[e].data.ref = v
    BY <1>2, <1>8 DEF Fields
  <2>7. \A p \in r.pairs : p[1] = "ref" /\ p[3] = e => IsRef(r, p[2]) /\ SameEntity(r, p[2], v)
    BY <1>1, <2>1, <2>4, <2>5, RefStays
  <2>8. <<"ref", v, e>> \in r.pairs
    BY <1>8 DEF Entries, Keys
  <2> QED BY <1>8, <2>6, <2>7, <2>8 DEF FieldFits, RefFits
<1>9. \A d \in All(r) : \A g \in DOMAIN r.indexed : FieldFits(r, g, d)
  BY <1>6, <1>7, <1>8
<1>10. DOMAIN r.indexed \subseteq Fields /\ \A g \in DOMAIN r.indexed : r.indexed[g] \in 0..Len(r.ents)
  BY DEF IndexFits
<1> QED BY <1>3, <1>5, <1>9, <1>10 DEF IndexFits

LEMMA SameRange ==
  ASSUME NEW a \in Nat, NEW b \in Nat, 1..a = 1..b
  PROVE  a = b
<1>1. ~(a < b)
  <2> SUFFICES ASSUME a < b PROVE FALSE
    OBVIOUS
  <2>1. b \in 1..b /\ b \notin 1..a
    OBVIOUS
  <2> QED BY <2>1
<1>2. ~(b < a)
  <2> SUFFICES ASSUME b < a PROVE FALSE
    OBVIOUS
  <2>1. a \in 1..a /\ a \notin 1..b
    OBVIOUS
  <2> QED BY <2>1
<1> QED BY <1>1, <1>2

LEMMA SetFieldFits ==
  ASSUME NEW m, NEW n, Sound(m, n), IndexFits(m), NEW e \in All(m), NEW f \in Fields, NEW v,
         MaySet(m, e, f, v)
  PROVE  LET r == SetField(m, e, f, v)
         IN  /\ IndexFits(r) /\ r.indexed = m.indexed
             /\ \A d \in All(m) : f # "ref" => r.ents[d].data.ref = m.ents[d].data.ref
<1> DEFINE x == m.ents[e]
           i == MaybeUpdateFieldIndex(m, e, f, x.data[f], v)
           changed(orig) == [i EXCEPT !.ents[e].data[f] = v, !.ents[e].orig = orig]
           y(orig) == [[x EXCEPT !.data[f] = v] EXCEPT !.orig = orig]
<1>1. /\ IsManager(i) /\ i.ents = m.ents /\ i.indexed = m.indexed
      /\ i.pairs = IF f \in DOMAIN m.indexed
                   THEN (m.pairs \ Entries(m, f, x.data[f], e)) \union Entries(m, f, v, e)
                   ELSE m.pairs
  BY DEF MaybeUpdateFieldIndex, IsManager, Sound
<1>2. IsEntity(x) /\ HasData(m, x)
  BY DEF Sound, IndexFits
<1>3. ASSUME NEW orig
      PROVE  /\ IndexFits(changed(orig)) /\ changed(orig).indexed = m.indexed
             /\ \A d \in All(m) : f # "ref" => changed(orig).ents[d].data.ref = m.ents[d].data.ref
  <2>1. changed(orig).indexed = i.indexed /\ changed(orig).pairs = i.pairs
    BY <1>1 DEF IsManager
  <2>2. changed(orig).ents = [m.ents EXCEPT ![e] = y(orig)]
    BY <1>1 DEF IsManager, All
  <2>3. y(orig).id = x.id /\ y(orig).deleted = x.deleted /\ y(orig).data = [x.data EXCEPT ![f] = v]
    BY <1>2 DEF IsEntity
  <2> DEFINE r == changed(orig)
  <2>4. All(r) = All(m) /\ Len(r.ents) = Len(m.ents)
    <3>1. IsSeq(m.ents)
      BY DEF Sound
    <3> DEFINE t == [m.ents EXCEPT ![e] = y(orig)]
    <3>2. IsSeq(t) /\ DOMAIN t = DOMAIN m.ents
      <4> HIDE DEF y
      <4> QED BY <3>1, ExceptIsSeq
    <3>3. Len(t) \in Nat /\ Len(m.ents) \in Nat /\ DOMAIN t = 1..Len(t) /\ DOMAIN m.ents = 1..Len(m.ents)
      BY <3>1, <3>2, SeqFacts
    <3> HIDE DEF t
    <3>4. Len(t) = Len(m.ents)
      BY <3>2, <3>3, SameRange
    <3>5. r.ents = t
      <4> HIDE DEF y, changed
      <4> QED BY <2>2 DEF t
    <3> HIDE DEF r
    <3> QED BY <3>2, <3>4, <3>5 DEF All
  <2>5. \A d \in All(m) : r.ents[d] = IF d = e THEN y(orig) ELSE m.ents[d]
    <3> HIDE DEF y, changed
    <3> QED BY <2>2 DEF All
  <2> HIDE DEF changed, y, i
  <2>6. \A d \in All(m) :
          /\ r.ents[d].id = m.ents[d].id /\ r.ents[d].deleted = m.ents[d].deleted
          /\ r.ents[d].data = IF d = e THEN [m.ents[e].data EXCEPT ![f] = v] ELSE m.ents[d].data
    BY <2>3, <2>5
  <2>7. IndexFits(r)
    <3>1. FieldIsSet(m, r, e, f, v)
      BY <1>1, <2>1, <2>4, <2>6 DEF FieldIsSet
    <3> HIDE DEF r
    <3> QED BY <3>1, FieldSet
  <2>8. f # "ref" => [x.data EXCEPT ![f] = v].ref = x.data.ref
    BY <1>2 DEF HasData, Fields
  <2> QED BY <1>1, <2>1, <2>6, <2>7, <2>8
<1>4. SetField(m, e, f, v) = m \/ \E orig : SetField(m, e, f, v) = changed(orig)
  BY DEF SetField
<1> HIDE DEF changed
<1> QED BY <1>3, <1>4

LEMMA SetReferenceFits ==
  ASSUME NEW m, NEW n, Sound(m, n), IndexFits(m), NEW e \in All(m), NEW v, IsRef(m, v),
         m.ents[e].data.ref = Unset \/ "ref" \notin DOMAIN m.indexed
  PROVE  LET r == SetReference(m, e, v)
         IN  IndexFits(r) /\ r.indexed = m.indexed
<1> DEFINE u == IF IdOf(m, v) # None THEN IdRef(IdOf(m, v)) ELSE v
<1>1. IsRef(m, u)
  BY DEF IsRef, IdRef
<1>2. "ref" \in Fields
  BY DEF Fields
<1> HIDE DEF u
<1>3. LET r == SetField(m, e, "ref", u) IN IndexFits(r) /\ r.indexed = m.indexed
  <2>1. MaySet(m, e, "ref", u)
    BY <1>1 DEF MaySet
  <2> QED BY <1>2, <2>1, SetFieldFits
<1>4. SetReference(m, e, v) = m \/ SetReference(m, e, v) = SetField(m, e, "ref", u)
  BY DEF SetReference, u
<1> QED BY <1>3, <1>4

\* What is set on an entity whose reference is unset or not indexed.
IsOpts(m, e, opts) ==
  "ref" \in DOMAIN opts => IsRef(m, opts["ref"]) /\ (m.ents[e].data.ref = Unset \/ "ref" \notin DOMAIN m.indexed)

LEMMA SetOptsFits ==
  ASSUME NEW m, NEW n, Sound(m, n), IndexFits(m), NEW e \in All(m), NEW opts, IsOpts(m, e, opts)
  PROVE  IndexFits(SetOpts(m, e, opts))
<1> DEFINE q == SetOpt(m, e, opts, "name")
           r == SetOpt(q, e, opts, "ref")
<1>1. {"name", "gone", "ref"} \subseteq Fields
  BY DEF Fields
<1>2. Edited(m, q, n) /\ IndexFits(q) /\ IsOpts(q, e, opts)
  <2>1. CASE "name" \in DOMAIN opts
    <3>1. q = SetField(m, e, "name", opts["name"])
      BY <2>1 DEF SetOpt
    <3> DEFINE s == SetField(m, e, "name", opts["name"])
    <3>2. Edited(m, s, n)
      BY SetFieldEdited
    <3>3. IndexFits(s) /\ s.indexed = m.indexed /\ s.ents[e].data.ref = m.ents[e].data.ref
      BY <1>1, SetFieldFits DEF MaySet
    <3> HIDE DEF s, q
    <3>4. Extends(m, s)
      BY <3>2 DEF Edited, Keeps, Edits, Extends, IsLive
    <3>5. IsOpts(s, e, opts)
      BY <3>3, <3>4, RefStays DEF IsOpts
    <3> QED BY <3>1, <3>2, <3>3, <3>5 DEF s
  <2>2. CASE "name" \notin DOMAIN opts
    <3>1. q = m
      BY <2>2 DEF SetOpt
    <3> HIDE DEF q
    <3> QED BY <3>1, EditedSelf
  <2> QED BY <2>1, <2>2
<1> HIDE DEF q
<1>3. Sound(q, n) /\ e \in All(q)
  BY <1>2 DEF Edited, Keeps
<1>4. Edited(q, r, n) /\ IndexFits(r)
  <2>1. CASE "ref" \in DOMAIN opts
    <3>1. r = SetReference(q, e, opts["ref"])
      BY <2>1 DEF SetOpt
    <3>2. Edited(q, SetReference(q, e, opts["ref"]), n)
      BY <1>3, SetReferenceEdited
    <3>3. IndexFits(SetReference(q, e, opts["ref"]))
      BY <1>2, <1>3, <2>1, SetReferenceFits DEF IsOpts
    <3> QED BY <3>1, <3>2, <3>3
  <2>2. CASE "ref" \notin DOMAIN opts
    <3>1. r = q
      BY <2>2 DEF SetOpt
    <3> QED BY <1>2, <1>3, <3>1, EditedSelf
  <2> QED BY <2>1, <2>2
<1>5. SetOpts(m, e, opts) = SetOpt(r, e, opts, "gone")
  BY DEF SetOpts, q
<1> HIDE DEF r
<1>6. Sound(r, n) /\ e \in All(r)
  BY <1>3, <1>4 DEF Edited, Keeps
<1>7. IndexFits(SetField(r, e, "gone", opts["gone"]))
  BY <1>1, <1>4, <1>6, SetFieldFits DEF MaySet
<1>8. SetOpt(r, e, opts, "gone") = r \/ SetOpt(r, e, opts, "gone") = SetField(r, e, "gone", opts["gone"])
  BY DEF SetOpt
<1> QED BY <1>4, <1>5, <1>7, <1>8

----------------------------------------------------------------------------
(* The entities that come, and what is deleted. *)

LEMMA EditedExtends ==
  ASSUME NEW m, NEW r, NEW n, Edited(m, r, n)
  PROVE  Extends(m, r)
BY DEF Edited, Keeps, Edits, Extends, IsLive

LEMMA BlankFacts == Blank.ref = Unset /\ \A m : \A x : x.data = Blank => HasData(m, x)
<1>1. \E s : Blank = [name |-> s, ref |-> Unset, gone |-> FALSE]
  BY Zenon DEF Blank
<1>2. Blank.ref = Unset /\ Blank \in [name : {Blank.name}, ref : {Blank.ref}, gone : {Blank.gone}]
  BY <1>1
<1>3. \A m : IsRef(m, Unset)
  BY DEF IsRef
<1>4. ASSUME NEW m, NEW x, x.data = Blank
      PROVE  HasData(m, x)
  BY <1>2, <1>3, <1>4 DEF HasData
<1> QED BY <1>2, <1>4

LEMMA BlankStays ==
  ASSUME NEW m, NEW n, Sound(m, n)
  PROVE  LET r == Create(m, Clean)
         IN  /\ Sound(r, n) /\ Stays(m, r) /\ Len(m.ents) + 1 \in All(r)
             /\ r.ents[Len(m.ents) + 1].data = Blank
             /\ \A opts : Create(m, opts) = SetOpts(r, Len(m.ents) + 1, opts)
<1> DEFINE x == [id |-> None, createId |-> m.created + 1, data |-> Blank, at |-> 0, orig |-> Clean,
                 deleted |-> "no"]
           key == Created(m.created + 1)
           q == Register(m, x, key)
           r == [q EXCEPT !.created = m.created + 1]
           new == Len(m.ents) + 1
<1>1. Create(m, Clean) = r
  BY DEF Create, SetOpts, SetOpt, Clean
<1>2. \A opts : Create(m, opts) = SetOpts(r, new, opts)
  BY DEF Create
<1>3. Edited(m, r, n) /\ new \in All(r)
  <2> HIDE DEF r
  <2> QED BY <1>1, CreateEdited
<1>4. IsManager(m)
  BY DEF Sound
<1>5. /\ IsManager(q) /\ All(q) = All(m) \cup {new} /\ q.ents[new] = x
      /\ \A e \in All(m) : q.ents[e] = m.ents[e]
  <2> HIDE DEF x, key
  <2> QED BY Registered
<1>6. q.pairs = m.pairs /\ q.indexed = m.indexed
  BY <1>4 DEF Register, IsManager
<1>7. x.data = Blank
  OBVIOUS
<1> HIDE DEF q, x
<1>8. r.ents = q.ents /\ r.pairs = m.pairs /\ r.indexed = m.indexed /\ All(r) = All(q)
  BY <1>5, <1>6 DEF IsManager, All
<1> HIDE DEF r, new
<1>9. Extends(m, r)
  BY <1>3, EditedExtends
<1>10. HasData(r, r.ents[new])
  <2>1. r.ents[new].data = Blank
    BY <1>5, <1>7, <1>8
  <2> QED BY <2>1, BlankFacts
<1>11. Stays(m, r)
  BY <1>5, <1>8, <1>9, <1>10 DEF Stays
<1>12. Sound(r, n) /\ r.ents[new].data = Blank
  BY <1>3, <1>5, <1>7, <1>8 DEF Edited
<1> QED BY <1>1, <1>2, <1>3, <1>11, <1>12 DEF new

LEMMA CreateFits ==
  ASSUME NEW m, NEW n, Sound(m, n), IndexFits(m), NEW opts, "ref" \in DOMAIN opts => IsRef(m, opts["ref"])
  PROVE  IndexFits(Create(m, opts))
<1> DEFINE r == Create(m, Clean)
           new == Len(m.ents) + 1
<1>1. /\ Sound(r, n) /\ Stays(m, r) /\ new \in All(r) /\ r.ents[new].data = Blank
      /\ Create(m, opts) = SetOpts(r, new, opts)
  BY BlankStays
<1> HIDE DEF r, new
<1>2. IndexFits(r)
  BY <1>1, StaysFits
<1>3. IsOpts(r, new, opts)
  <2>1. r.ents[new].data.ref = Unset
    BY <1>1, BlankFacts
  <2>2. "ref" \in DOMAIN opts => IsRef(r, opts["ref"])
    BY <1>1, RefStays DEF Stays
  <2> QED BY <2>1, <2>2 DEF IsOpts
<1>4. IndexFits(SetOpts(r, new, opts))
  BY <1>1, <1>2, <1>3, SetOptsFits
<1> QED BY <1>1, <1>4

LEMMA ResurrectFits ==
  ASSUME NEW m, NEW n, Sound(m, n), IndexFits(m), NEW e \in All(m)
  PROVE  IndexFits(ResurrectIfSoftDeleted(m, e))
<1>1. "gone" \in Fields /\ MaySet(m, e, "gone", FALSE)
  BY DEF Fields, MaySet
<1>2. IndexFits(SetField(m, e, "gone", FALSE))
  BY <1>1, SetFieldFits
<1> QED BY <1>2 DEF ResurrectIfSoftDeleted

LEMMA MarkDeletedStays ==
  ASSUME NEW m, NEW n, Sound(m, n), NEW e \in All(m)
  PROVE  Stays(m, MarkDeleted(m, e))
<1> DEFINE x == m.ents[e]
           y == [x EXCEPT !.deleted = "pending"]
           r == [m EXCEPT !.ents[e].deleted = "pending"]
<1>1. IsEntity(x) /\ IsManager(m)
  BY DEF Sound
<1>2. r.pairs = m.pairs /\ r.indexed = m.indexed /\ r.ents = [m.ents EXCEPT ![e] = y]
  BY <1>1 DEF IsManager
<1>3. y.data = x.data /\ y.id = x.id /\ y.deleted = "pending"
  BY <1>1 DEF IsEntity
<1> HIDE DEF y, r
<1>4. All(r) = All(m) /\ \A d \in All(m) : r.ents[d] = IF d = e THEN y ELSE m.ents[d]
  BY <1>2 DEF All
<1>5. Stays(m, r)
  BY <1>2, <1>3, <1>4 DEF Stays, Extends, IsLive
<1>6. Stays(m, m)
  BY DEF Stays, Extends
<1> QED BY <1>5, <1>6 DEF MarkDeleted, r

LEMMA NotFoundStays ==
  ASSUME NEW m, NEW n, Sound(m, n), NEW ids
  PROVE  Stays(m, MarkDeletedBecauseNotFound(m, ids))
<1> DEFINE missing == {m.byId[IdRef(i)] : i \in {j \in ids : IdRef(j) \in DOMAIN m.byId}}
           s == [e \in DOMAIN m.ents |-> IF e \in missing THEN [m.ents[e] EXCEPT !.deleted = "done"] ELSE m.ents[e]]
           r == MarkDeletedBecauseNotFound(m, ids)
<1>1. IsManager(m) /\ \A e \in All(m) : IsEntity(m.ents[e])
  BY DEF Sound
<1>2. r.pairs = m.pairs /\ r.indexed = m.indexed /\ r.ents = s
  BY <1>1 DEF MarkDeletedBecauseNotFound, IsManager
<1>3. /\ All(r) = All(m) /\ Keeps(m, r)
      /\ \A e \in All(m) : r.ents[e].deleted = m.ents[e].deleted \/ r.ents[e].deleted = "done"
  BY NotFoundDeletes
<1>4. ASSUME NEW e \in All(m)
      PROVE  s[e].data = m.ents[e].data
  BY <1>1 DEF All, IsEntity
<1> HIDE DEF s, r
<1>5. Extends(m, r)
  BY <1>3 DEF Keeps, Extends, IsLive
<1>6. Stays(m, r)
  BY <1>2, <1>3, <1>4, <1>5 DEF Stays
<1> QED BY <1>6 DEF r

LEMMA FlushedStays ==
  ASSUME NEW m, NEW n \in Nat, Sound(m, n)
  PROVE  Stays(m, Flushed(m, n))
<1> DEFINE r == Flushed(m, n)
           s == [e \in All(m) |-> FlushedEntity(m, n, e)]
<1>1. IsManager(m) /\ \A e \in All(m) : IsEntity(m.ents[e])
  BY DEF Sound
<1>2. r.pairs = m.pairs /\ r.indexed = m.indexed /\ r.ents = s
  BY <1>1 DEF Flushed, IsManager
<1>3. Flushes(m, r, n)
  BY FlushedFlushes
<1>4. ASSUME NEW e \in All(m)
      PROVE  s[e].data = m.ents[e].data
  BY <1>1 DEF FlushedEntity, IsEntity
<1> HIDE DEF r, s
<1>5. All(r) = All(m)
  BY <1>3 DEF Flushes
<1>6. Extends(m, r)
  <2>1. ASSUME NEW e \in All(m)
        PROVE  (m.ents[e].id # None => r.ents[e].id = m.ents[e].id) /\ (~IsLive(m, e) => ~IsLive(r, e))
    <3>1. r.ents[e].deleted = IF m.ents[e].deleted = "pending" THEN "done" ELSE m.ents[e].deleted
      BY <1>3 DEF Flushes
    <3>2. e \notin News(m) => r.ents[e].id = m.ents[e].id
      BY <1>3 DEF Flushes
    <3> QED BY <3>1, <3>2 DEF IsLive, News, IsNew
  <2> QED BY <1>5, <2>1 DEF Extends
<1> QED BY <1>2, <1>4, <1>5, <1>6 DEF Stays, r

LEMMA HydrateRowStays ==
  ASSUME NEW m, NEW n, Sound(m, n), NEW i, NEW row
  PROVE  Stays(m, HydrateRow(m, i, row, FALSE))
<1> DEFINE x == [id |-> i, createId |-> 0, data |-> DataOf(row), at |-> row.at, orig |-> Clean, deleted |-> "no"]
           r == Register(m, x, IdRef(i))
           new == Len(m.ents) + 1
<1>1. /\ All(r) = All(m) \cup {new} /\ new \notin All(m) /\ r.ents[new] = x
      /\ \A e \in All(m) : r.ents[e] = m.ents[e]
  <2> HIDE DEF x
  <2> QED BY Registered
<1>2. IsManager(m)
  BY DEF Sound
<1>3. r.pairs = m.pairs /\ r.indexed = m.indexed
  BY <1>2 DEF Register, IsManager
<1>4. x.data = DataOf(row)
  OBVIOUS
<1> HIDE DEF x, r, new
<1>5. HasData(r, r.ents[new])
  <2> DEFINE d == DataOf(row)
  <2>1. d \in [name : {d.name}, ref : {d.ref}, gone : {d.gone}]
    BY DEF DataOf
  <2>2. IsRef(r, d.ref)
    BY DEF DataOf, IsRef, IdRef, Unset
  <2> HIDE DEF d
  <2> QED BY <1>1, <1>4, <2>1, <2>2 DEF HasData, d
<1>6. Extends(m, r)
  BY <1>1 DEF Extends, IsLive
<1>7. Stays(m, r)
  BY <1>1, <1>3, <1>5, <1>6 DEF Stays
<1>8. Stays(m, m)
  BY DEF Stays, Extends
<1> QED BY <1>7, <1>8 DEF HydrateRow, r, x

Staying(c, a, ids) == Hydrating(c, a, ids) /\ Stays(c.m, a)
StayFold == INSTANCE FoldInduction WITH Op <- HydrateStep, Pick <- Max, P <- Staying

LEMMA HydrateStays ==
  ASSUME NEW m, NEW n \in Nat, Sound(m, n), NEW rws, NEW ids, ids \subseteq 1..n, \A i \in ids : rws[i].at \in Nat
  PROVE  Stays(m, Hydrate(m, rws, ids, FALSE))
<1> DEFINE c == [m |-> m, rows |-> rws, over |-> FALSE, last |-> n]
<1>1. Hydrate(m, rws, ids, FALSE) = StayFold!Fold(c, m, ids)
  BY DEF Hydrate, FoldAscending, MapThenFoldSet, StayFold!Fold, HydrateStep
<1>2. IsFiniteSet(ids)
  <2> HIDE DEF c
  <2>1. IsFiniteSet(1..n)
    BY FS_Interval
  <2> QED BY <2>1, FS_Subset
<1>3. \A T \in SUBSET ids : T # {} => Max(T) \in T
  BY MaxIn
<1>4. Staying(c, m, {})
  BY DEF Staying, Hydrating, Keeps, Hydrates, Stays, Extends
<1>5. ASSUME NEW T \in SUBSET ids, NEW i \in ids, NEW a, Staying(c, a, T)
      PROVE  Staying(c, HydrateStep(c, i, a), T \cup {i})
  <2>1. c.m = m /\ c.rows = rws /\ c.over = FALSE /\ c.last = n
    OBVIOUS
  <2> HIDE DEF c
  <2>2. Sound(a, n) /\ Keeps(m, a) /\ Hydrates(m, a, rws, T, FALSE) /\ Stays(m, a)
    BY <1>5, <2>1 DEF Staying, Hydrating
  <2>3. i \in 1..n /\ rws[i].at \in Nat
    OBVIOUS
  <2> DEFINE q == HydrateRow(a, i, rws[i], FALSE)
  <2>4. Sound(q, n) /\ Keeps(m, q) /\ Hydrates(m, q, rws, T \cup {i}, FALSE)
    BY <2>2, <2>3, HydrateRowStep
  <2>5. Stays(a, q)
    BY <2>2, HydrateRowStays
  <2> HIDE DEF q
  <2>6. Stays(m, q)
    BY <2>2, <2>5, StaysTransitive
  <2> QED BY <2>1, <2>4, <2>6 DEF Staying, Hydrating, HydrateStep, q
<1>6. Staying(c, StayFold!Fold(c, m, ids), ids)
  <2> HIDE DEF c
  <2>1. \A T \in SUBSET ids, i \in ids : \A a :
          i \notin T /\ Max(T \cup {i}) = i /\ Staying(c, a, T) => Staying(c, HydrateStep(c, i, a), T \cup {i})
    BY <1>5
  <2>2. StayFold!IsFiniteSet(ids)
    BY <1>2 DEF IsFiniteSet, StayFold!IsFiniteSet
  <2> QED BY <2>2, <1>3, <1>4, <2>1, StayFold!FoldInvariant
<1> QED BY <1>1, <1>6 DEF Staying

----------------------------------------------------------------------------
(* Filtering. *)

LEMMA RefValueKeys ==
  ASSUME NEW m, NEW n, Sound(m, n), NEW v, IsRef(m, v)
  PROVE  /\ \A u \in Keys(m, RefValue(m, v)) : IsRef(m, u) /\ (u # Unset => SameEntity(m, u, v))
         /\ RefValue(m, v) \in Keys(m, RefValue(m, v))
         /\ v # Unset /\ ~Dead(m, v) => RefValue(m, v) # Unset
<1> DEFINE w == RefValue(m, v)
<1>1. w = Unset \/ w = v \/ \E x \in All(m) : w = EntityRef(x) /\ v = IdRef(m.ents[x].id) /\ m.ents[x].id # None
  <2>1. CASE v = Unset
    BY <2>1 DEF RefValue, IsLoaded, Get, Unset
  <2>2. CASE v = IdRef(v[2]) /\ v[2] # None
    <3>1. CASE v \notin DOMAIN m.byId
      BY <2>2, <3>1 DEF RefValue, IsLoaded, IdRef
    <3>2. CASE v \in DOMAIN m.byId
      <4> DEFINE x == m.byId[v]
      <4>1. x \in All(m) /\ m.ents[x].id = v[2]
        BY <2>2, <3>2 DEF Sound
      <4>2. w = IF IsLive(m, x) THEN EntityRef(x) ELSE Unset
        BY <2>2, <3>2 DEF RefValue, IsLoaded, Get, IdRef, Unset
      <4> QED BY <2>2, <4>1, <4>2
    <3> QED BY <3>1, <3>2
  <2>3. CASE v = EntityRef(v[2]) /\ v[2] \in All(m)
    BY <2>3 DEF RefValue, IsLoaded, Get, EntityRef, Unset
  <2> QED BY <2>1, <2>2, <2>3 DEF IsRef
<1>2. IsRef(m, w) /\ (w # Unset => SameEntity(m, w, v))
  BY <1>1 DEF IsRef, SameEntity, EntityRef, IdRef, IdOf, Unset
<1>3. w \in Keys(m, w)
  BY DEF Keys
<1>4. \A u \in Keys(m, w) :
        u = w \/ (\E x \in All(m) : w = EntityRef(x) /\ u = IdRef(m.ents[x].id) /\ m.ents[x].id # None)
  <2> HIDE DEF w
  <2> QED BY <1>2 DEF Keys, IsRef, EntityRef, IdRef, IdOf, Unset
<1>5. ASSUME NEW u \in Keys(m, w)
      PROVE  IsRef(m, u) /\ (u # Unset => SameEntity(m, u, v))
  <2> HIDE DEF w
  <2>1. CASE u = w
    BY <1>2, <2>1
  <2>2. CASE \E x \in All(m) : w = EntityRef(x) /\ u = IdRef(m.ents[x].id) /\ m.ents[x].id # None
    <3>1. PICK x \in All(m) : w = EntityRef(x) /\ u = IdRef(m.ents[x].id) /\ m.ents[x].id # None
      BY <2>2
    <3>2. IsRef(m, u)
      BY <3>1 DEF IsRef, IdRef
    <3>3. w # Unset
      BY <3>1 DEF EntityRef, Unset
    <3>4. v = w \/ v = u
      <4>1. v = w \/ \E y \in All(m) : w = EntityRef(y) /\ v = IdRef(m.ents[y].id)
        BY <1>1, <3>3
      <4> QED BY <3>1, <4>1 DEF EntityRef
    <3>5. SameEntity(m, u, v)
      BY <3>1, <3>4 DEF SameEntity, EntityRef, IdRef, IdOf, Unset
    <3> QED BY <3>2, <3>5
  <2> QED BY <1>4, <2>1, <2>2
<1>6. ASSUME v # Unset, w = Unset
      PROVE  Dead(m, v)
  <2>1. CASE v = IdRef(v[2]) /\ v[2] # None
    <3> DEFINE x == m.byId[v]
    <3>1. v \in DOMAIN m.byId
      <4>1. v[1] = "id"
        BY <2>1 DEF IdRef
      <4> QED BY <1>6, <4>1 DEF RefValue, IsLoaded
    <3>2. x \in All(m) /\ m.ents[x].id = v[2]
      BY <2>1, <3>1 DEF Sound
    <3>3. w = IF IsLive(m, x) THEN EntityRef(x) ELSE Unset
      BY <2>1, <3>1 DEF RefValue, IsLoaded, Get, IdRef, Unset
    <3> HIDE DEF x, w
    <3>4. ~IsLive(m, x)
      BY <1>6, <3>3 DEF EntityRef, Unset
    <3>5. SameEntity(m, EntityRef(x), v)
      BY <2>1, <3>2 DEF SameEntity, EntityRef, IdRef, IdOf, Unset
    <3> QED BY <3>2, <3>4, <3>5 DEF Dead
  <2>2. CASE v = EntityRef(v[2]) /\ v[2] \in All(m)
    <3>1. w = IF IsLive(m, v[2]) THEN EntityRef(v[2]) ELSE Unset
      BY <2>2 DEF RefValue, IsLoaded, Get, EntityRef, Unset
    <3>2. ~IsLive(m, v[2])
      BY <1>6, <3>1 DEF EntityRef, Unset
    <3> QED BY <2>2, <3>2 DEF Dead, SameEntity
  <2> QED BY <1>6, <2>1, <2>2 DEF IsRef
<1> QED BY <1>3, <1>5, <1>6

\* What an entry of a field's value is under.
Under(m, f, v) == IF f = "ref" THEN Keys(m, v) ELSE {v}
LEMMA EntryIs ==
  ASSUME NEW m, NEW f, NEW v, NEW e, NEW p \in Entries(m, f, v, e)
  PROVE  p = <<p[1], p[2], p[3]>> /\ p[1] = f /\ p[3] = e /\ p[2] \in Under(m, f, v)
<1>1. p \in {f} \X Under(m, f, v) \X {e}
  BY DEF Entries, Under
<1> QED BY <1>1

LEMMA IndexedFits ==
  ASSUME NEW m, NEW n, Sound(m, n), IndexFits(m), NEW where, DOMAIN where \subseteq Fields
  PROVE  LET r == Indexed(m, where)
         IN  /\ Sound(r, n) /\ IndexFits(r) /\ r.ents = m.ents /\ r.byId = m.byId
             /\ \A f \in DOMAIN where : f \in DOMAIN r.indexed /\ \A e \in All(m) : e <= r.indexed[f]
<1> DEFINE from(f) == IF f \in DOMAIN m.indexed THEN m.indexed[f] ELSE 0
           asked == {q \in (DOMAIN where) \X All(m) : q[2] > from(q[1])}
           more == UNION {Entries(m, p[1], GetFieldValue(m, p[2], p[1]), p[2]) : p \in asked}
           r == Indexed(m, where)
<1>1. IsManager(m) /\ IsSeq(m.ents)
  BY DEF Sound
<1>2. All(m) = 1..Len(m.ents) /\ Len(m.ents) \in Nat
  BY <1>1, SeqFacts DEF All
<1>3. /\ IsManager(r) /\ r.ents = m.ents /\ r.byId = m.byId /\ r.pairs = m.pairs \union more
      /\ DOMAIN r.indexed = (DOMAIN m.indexed) \union (DOMAIN where)
      /\ \A f \in DOMAIN r.indexed : r.indexed[f] = IF f \in DOMAIN where THEN Len(m.ents) ELSE m.indexed[f]
  <2>1. r = [m EXCEPT !.indexed = [f \in (DOMAIN @) \union (DOMAIN where) |->
                                     IF f \in DOMAIN where THEN Len(m.ents) ELSE @[f]],
                      !.pairs = @ \union more]
    BY DEF Indexed
  <2> HIDE DEF r, more
  <2> QED BY <1>1, <2>1 DEF IsManager
<1>4. All(r) = All(m) /\ Sound(r, n)
  BY <1>3 DEF Sound, All
<1>5. \A p \in more :
        \E f \in DOMAIN where, e \in All(m) : e > from(f) /\ p \in Entries(m, f, GetFieldValue(m, e, f), e)
  OBVIOUS
<1>6. ASSUME NEW f \in DOMAIN where, NEW e \in All(m), e > from(f)
      PROVE  Entries(m, f, GetFieldValue(m, e, f), e) \subseteq more
  <2>1. <<f, e>> \in asked
    BY <1>6
  <2> HIDE DEF asked
  <2> QED BY <2>1
<1> HIDE DEF r, more, asked
<1>8. \A p \in r.pairs : p = <<p[1], p[2], p[3]>> /\ p[1] \in DOMAIN r.indexed /\ p[3] \in All(r)
  <2>1. \A p \in more : p = <<p[1], p[2], p[3]>> /\ p[1] \in DOMAIN where /\ p[3] \in All(m)
    BY <1>5, EntryIs
  <2> QED BY <1>3, <1>4, <2>1 DEF IndexFits
<1>9. ASSUME NEW e \in All(m), NEW f \in DOMAIN r.indexed
      PROVE  /\ \A p \in r.pairs : p[1] = f /\ p[3] = e =>
                  (p \in m.pairs /\ f \in DOMAIN m.indexed) \/ p[2] \in Under(m, f, GetFieldValue(m, e, f))
             /\ e <= r.indexed[f] =>
                  \/ f \in DOMAIN m.indexed /\ e <= m.indexed[f]
                  \/ Entries(m, f, GetFieldValue(m, e, f), e) \subseteq r.pairs
  <2>1. ASSUME NEW p \in r.pairs, p[1] = f, p[3] = e, p \notin m.pairs
        PROVE  p[2] \in Under(m, f, GetFieldValue(m, e, f))
    BY <1>3, <1>5, <2>1, EntryIs
  <2>2. \A p \in m.pairs : p[1] \in DOMAIN m.indexed
    BY DEF IndexFits
  <2>3. ASSUME e <= r.indexed[f], ~(f \in DOMAIN m.indexed /\ e <= m.indexed[f])
        PROVE  Entries(m, f, GetFieldValue(m, e, f), e) \subseteq r.pairs
    <3>1. CASE f \in DOMAIN m.indexed
      <4>1. m.indexed[f] \in Nat /\ e \in Nat
        BY <1>2, <3>1 DEF IndexFits
      <4>2. f \in DOMAIN where /\ e > from(f)
        BY <1>3, <2>3, <3>1, <4>1
      <4> QED BY <1>3, <1>6, <4>2
    <3>2. CASE f \notin DOMAIN m.indexed
      <4>1. f \in DOMAIN where /\ e > from(f)
        BY <1>2, <1>3, <3>2
      <4> QED BY <1>3, <1>6, <4>1
    <3> QED BY <3>1, <3>2
  <2> QED BY <2>1, <2>2, <2>3
<1>10. ASSUME NEW e \in All(m), NEW f \in DOMAIN r.indexed
       PROVE  FieldFits(r, f, e)
  <2> DEFINE v == m.ents[e].data[f]
  <2>1. f \in DOMAIN m.indexed => FieldFits(m, f, e)
    BY DEF IndexFits
  <2>2. CASE f # "ref"
    <3>1. GetFieldValue(m, e, f) = v /\ Entries(m, f, v, e) = {<<f, v, e>>}
      BY <2>2 DEF GetFieldValue, Entries
    <3>2. f \in DOMAIN m.indexed => ValueFits(m, f, e)
      BY <2>1, <2>2 DEF FieldFits
    <3>3. \A p \in r.pairs : p[1] = f /\ p[3] = e => p[2] = v
      BY <1>9, <2>2, <3>1, <3>2 DEF ValueFits, Under
    <3>4. e <= r.indexed[f] => <<f, v, e>> \in r.pairs
      BY <1>3, <1>9, <3>1, <3>2 DEF ValueFits
    <3> QED BY <1>3, <2>2, <3>3, <3>4 DEF FieldFits, ValueFits
  <2>3. CASE f = "ref"
    <3> DEFINE w == m.ents[e].data.ref
               u == RefValue(m, w)
    <3>1. IsRef(m, w) /\ GetFieldValue(m, e, f) = u /\ (f \in DOMAIN m.indexed => RefFits(m, e))
      BY <2>1, <2>3 DEF IndexFits, HasData, GetFieldValue, FieldFits
    <3>2. /\ \A k \in Keys(m, u) : IsRef(m, k) /\ (k # Unset => SameEntity(m, k, w))
          /\ u \in Keys(m, u)
          /\ w # Unset /\ ~Dead(m, w) => u # Unset
      BY <3>1, RefValueKeys
    <3> HIDE DEF u
    <3>3. Extends(m, r) /\ Extends(r, m)
      BY <1>3, <1>4 DEF Extends, IsLive
    <3>4. \A p \in r.pairs : p[1] = "ref" /\ p[3] = e => IsRef(m, p[2]) /\ (p[2] # Unset => SameEntity(m, p[2], w))
      BY <1>9, <2>3, <3>1, <3>2 DEF RefFits, Under
    <3>5. \A p \in r.pairs : p[1] = "ref" /\ p[3] = e => IsRef(r, p[2]) /\ (p[2] # Unset => SameEntity(r, p[2], w))
      BY <3>1, <3>3, <3>4, RefStays
    <3>6. Dead(m, w) => Dead(r, w)
      BY <3>1, <3>3, RefStays
    <3>7. <<"ref", u, e>> \in Entries(m, f, u, e)
      BY <2>3, <3>2 DEF Entries
    <3>8. e <= r.indexed["ref"] /\ w # Unset /\ ~Dead(m, w) =>
            \E p \in r.pairs : p[1] = "ref" /\ p[3] = e /\ p[2] # Unset
      <4> SUFFICES ASSUME e <= r.indexed["ref"], w # Unset, ~Dead(m, w)
                   PROVE  \E p \in r.pairs : p[1] = "ref" /\ p[3] = e /\ p[2] # Unset
        OBVIOUS
      <4>1. CASE f \in DOMAIN m.indexed /\ e <= m.indexed[f]
        <5>1. \E p \in m.pairs : p[1] = "ref" /\ p[3] = e /\ p[2] # Unset
          BY <2>3, <3>1, <4>1 DEF RefFits
        <5> QED BY <1>3, <5>1
      <4>2. CASE Entries(m, f, u, e) \subseteq r.pairs
        <5>1. <<"ref", u, e>> \in r.pairs /\ u # Unset
          BY <3>2, <3>7, <4>2
        <5> QED BY <5>1
      <4> QED BY <1>9, <2>3, <3>1, <4>1, <4>2
    <3>9. r.ents[e].data.ref = w
      BY <1>3
    <3> HIDE DEF w
    <3> QED BY <2>3, <3>5, <3>6, <3>8, <3>9 DEF FieldFits, RefFits
  <2> QED BY <2>2, <2>3
<1>11. \A e \in All(r) : HasData(r, r.ents[e])
  BY <1>3, <1>4 DEF IndexFits, HasData, IsRef
<1>12. DOMAIN r.indexed \subseteq Fields /\ \A f \in DOMAIN r.indexed : r.indexed[f] \in 0..Len(r.ents)
  BY <1>2, <1>3 DEF IndexFits
<1>13. IndexFits(r)
  BY <1>4, <1>8, <1>10, <1>11, <1>12 DEF IndexFits
<1>14. \A f \in DOMAIN where : f \in DOMAIN r.indexed /\ \A e \in All(m) : e <= r.indexed[f]
  BY <1>2, <1>3
<1> QED BY <1>3, <1>4, <1>13, <1>14 DEF r

LEMMA FilterFits ==
  ASSUME NEW m, NEW n, Sound(m, n), IndexFits(m), NEW where, DOMAIN where \subseteq Fields
  PROVE  IndexFits(AfterFilter(m, where))
BY IndexedFits DEF AfterFilter

\* What the index finds is what a scan finds.
LEMMA FilterIsScan ==
  ASSUME NEW m, NEW n, Sound(m, n), IndexFits(m), NEW where, NEW f \in Fields, DOMAIN where = {f},
         f = "ref" => \E d \in All(m) : where[f] = EntityRef(d) /\ IsLive(m, d)
  PROVE  FilterEntities(m, where) = Matching(m, where)
<1> DEFINE r == Indexed(m, where)
<1>1. /\ Sound(r, n) /\ IndexFits(r) /\ r.ents = m.ents /\ r.byId = m.byId
      /\ f \in DOMAIN r.indexed /\ \A e \in All(m) : e <= r.indexed[f]
  BY IndexedFits
<1> HIDE DEF r
<1>2. All(r) = All(m)
  BY <1>1 DEF All
<1>3. \A p \in r.pairs : p = <<p[1], p[2], p[3]>>
  BY <1>1 DEF IndexFits
<1>4. ASSUME NEW e \in All(m)
      PROVE  Entries(r, f, where[f], e) \intersect r.pairs # {} <=> EntityMatches(m, e, where)
  <2>1. FieldFits(r, f, e) /\ e <= r.indexed[f] /\ HasData(r, r.ents[e])
    BY <1>1, <1>2 DEF IndexFits
  <2>2. CASE f # "ref"
    <3>1. ValueFits(r, f, e)
      BY <2>1, <2>2 DEF FieldFits
    <3>2. Entries(r, f, where[f], e) = {<<f, where[f], e>>}
      BY <2>2 DEF Entries
    <3>3. EntityMatches(m, e, where) <=> r.ents[e].data[f] = where[f]
      BY <1>1, <2>2 DEF EntityMatches
    <3>4. <<f, where[f], e>> \in r.pairs => where[f] = r.ents[e].data[f]
      BY <3>1 DEF ValueFits
    <3>5. <<f, r.ents[e].data[f], e>> \in r.pairs
      BY <2>1, <3>1 DEF ValueFits
    <3> QED BY <3>2, <3>3, <3>4, <3>5
  <2>3. CASE f = "ref"
    <3> DEFINE v == r.ents[e].data.ref
    <3>1. PICK d \in All(m) : where[f] = EntityRef(d) /\ IsLive(m, d)
      BY <2>3
    <3>2. d \in All(r) /\ IsLive(r, d) /\ IsRef(r, v) /\ RefFits(r, e)
      BY <1>1, <1>2, <2>1, <2>3, <3>1 DEF IsLive, HasData, FieldFits
    <3>3. EntityMatches(m, e, where) <=> SameEntity(m, RefValue(m, v), EntityRef(d))
      BY <1>1, <2>3, <3>1 DEF EntityMatches, GetFieldValue
    <3>4. RefValue(m, v) = RefValue(r, v)
      BY <1>1 DEF RefValue, IsLoaded, Get, IsLive
    <3>5. SameEntity(m, RefValue(r, v), EntityRef(d)) <=> SameEntity(r, RefValue(r, v), EntityRef(d))
      BY <1>1 DEF SameEntity, IdOf
    <3>6. EntityMatches(m, e, where) <=> SameEntity(r, EntityRef(d), v)
      BY <1>1, <3>2, <3>3, <3>4, <3>5, ScanRefers
    <3>7. Entries(r, f, where[f], e) = {"ref"} \X Keys(r, EntityRef(d)) \X {e}
      BY <2>3, <3>1 DEF Entries
    <3>8. \A u \in Keys(r, EntityRef(d)) : u # Unset
      BY <3>2, KeysOf DEF EntityRef, IdRef, Unset
    <3> HIDE DEF v
    <3>9. ASSUME Entries(r, f, where[f], e) \intersect r.pairs # {}
          PROVE  SameEntity(r, EntityRef(d), v)
      <4>1. PICK p \in r.pairs : p[1] = "ref" /\ p[3] = e /\ p[2] \in Keys(r, EntityRef(d))
        BY <3>7, <3>9
      <4>2. IsRef(r, p[2]) /\ p[2] # Unset /\ SameEntity(r, p[2], v)
        BY <3>2, <3>8, <4>1 DEF RefFits, v
      <4> QED BY <1>1, <3>2, <4>1, <4>2, KeyRefers
    <3>10. ASSUME SameEntity(r, EntityRef(d), v)
           PROVE  Entries(r, f, where[f], e) \intersect r.pairs # {}
      <4>1. v # Unset
        BY <3>10 DEF SameEntity, EntityRef, Unset
      <4>2. ~Dead(r, v)
        <5> SUFFICES ASSUME NEW x \in All(r), SameEntity(r, EntityRef(x), v), ~IsLive(r, x)
                     PROVE  FALSE
          BY DEF Dead
        <5>1. v = EntityRef(x) \/ (r.ents[x].id # None /\ v = IdRef(r.ents[x].id))
          BY <1>1, <3>2, RefersTo
        <5>2. v = EntityRef(d) \/ (r.ents[d].id # None /\ v = IdRef(r.ents[d].id))
          BY <1>1, <3>2, <3>10, RefersTo
        <5>3. x = d \/ (r.ents[x].id = r.ents[d].id /\ r.ents[x].id # None)
          BY <5>1, <5>2 DEF EntityRef, IdRef
        <5>4. x = d
          BY <1>1, <3>2, <5>3, OneOfId
        <5> QED BY <3>2, <5>4
      <4>3. PICK p \in r.pairs : p[1] = "ref" /\ p[3] = e /\ p[2] # Unset
        BY <2>1, <2>3, <3>2, <4>1, <4>2 DEF RefFits, v
      <4>4. IsRef(r, p[2]) /\ SameEntity(r, p[2], v)
        BY <3>2, <4>3 DEF RefFits, v
      <4>5. p[2] \in Keys(r, EntityRef(d))
        BY <1>1, <3>2, <3>10, <4>3, <4>4, KeyRefers
      <4>6. p = <<"ref", p[2], e>>
        BY <1>3, <4>3
      <4>7. p \in Entries(r, f, where[f], e)
        BY <3>7, <4>5, <4>6
      <4> QED BY <4>7
    <3> QED BY <3>6, <3>9, <3>10
  <2> QED BY <2>2, <2>3
<1>5. FindMatching(r, where) = {e \in All(m) : EntityMatches(m, e, where)}
  BY <1>2, <1>4 DEF FindMatching
<1> QED BY <1>5 DEF FilterEntities, Matching, r

----------------------------------------------------------------------------
(* The index is kept. *)

LEMMA Holds ==
  ASSUME IInv
  PROVE  Sound(em, last) /\ last \in Nat /\ IsSeq(calls) /\ IsSeq(batches)
         /\ (\A c \in DOMAIN calls : IsCall(calls[c])) /\ \A b \in DOMAIN batches : IsBatch(batches[b])
BY DEF IInv, Memory, Rows, Loaders, CallsOK, BatchesOK

\* The batches are those there were, with their where and their keys.
SameWheres(bs) ==
  \A b \in DOMAIN bs : b \in DOMAIN batches /\ bs[b].where = batches[b].where /\ bs[b].keys = batches[b].keys
WheresFit(cs) == \A c \in DOMAIN cs : DOMAIN cs[c].where \subseteq Fields

LEMMA IndexKept ==
  ASSUME IndexInv, All(em) \subseteq All(em'), SameWheres(batches'), WheresFit(calls'),
         ~reloaded' => IndexFits(em')
  PROVE  IndexInv'
<1>1. \A b \in DOMAIN batches' : IsBatchOf(em, batches'[b])
  BY DEF IndexInv, SameWheres, IsBatchOf
<1>2. \A b \in DOMAIN batches' : IsBatchOf(em', batches'[b])
  BY <1>1 DEF IsBatchOf, IsWhere
<1> QED BY <1>2 DEF IndexInv, WheresFit

LEMMA CallWhereFits ==
  ASSUME IInv, IndexInv, NEW c, DOMAIN c.where \subseteq Fields
  PROVE  WheresFit(Append(calls, c))
<1>1. /\ DOMAIN Append(calls, c) = 1..(Len(calls) + 1) /\ Append(calls, c)[Len(calls) + 1] = c
      /\ \A i \in DOMAIN calls : Append(calls, c)[i] = calls[i]
      /\ Len(calls) \in Nat /\ DOMAIN calls = 1..Len(calls)
  BY Holds, AppendSeq, SeqFacts
<1>2. \A i \in 1..(Len(calls) + 1) : i = Len(calls) + 1 \/ i \in DOMAIN calls
  BY <1>1
<1> QED BY <1>1, <1>2 DEF IndexInv, WheresFit

LEMMA AskIndex ==
  ASSUME IInv, IndexInv, NEW c, DOMAIN c.where \subseteq Fields, calls' = Append(calls, c),
         UNCHANGED <<em, batches, reloaded>>
  PROVE  IndexInv'
<1>1. WheresFit(calls')
  BY CallWhereFits
<1> QED BY <1>1, IndexKept DEF IndexInv, SameWheres

LEMMA RestIndex ==
  ASSUME IndexInv, UNCHANGED <<em, batches, reloaded, calls>>
  PROVE  IndexInv'
BY DEF IndexInv

LEMMA FindOrCreateIndex ==
  ASSUME IInv, IndexHolds, IndexInv, NEW where \in WheresIn(em), NEW key \in DOMAIN Upsert, FindOrCreate(where, key)
  PROVE  IndexInv'
<1> DEFINE joinable == Joinable(where, key)
           k == Min(joinable)
           new == [where |-> where, keys |-> <<key>>, loader |-> loaders, state |-> "queued", on |-> 0, entity |-> None]
           joined == [batches[k] EXCEPT !.keys = Append(@, key)]
<1>1. UNCHANGED <<em, calls, reloaded>>
  BY DEF FindOrCreate
<1>2. IsWhere(em, where)
  BY DEF IndexHolds
<1>3. \A b \in DOMAIN batches' : IsBatchOf(em, batches'[b])
  <2>1. CASE joinable = {}
    <3>1. batches' = Append(batches, new)
      BY <2>1 DEF FindOrCreate
    <3>2. IsBatchOf(em, new)
      <4>1. IsSeq(<<key>>) /\ <<key>> # <<>> /\ <<key>>[1] = key
        BY DEF IsSeq, ToSet
      <4> QED BY <1>2, <4>1 DEF IsBatchOf
    <3> HIDE DEF new
    <3>3. /\ DOMAIN batches' = 1..(Len(batches) + 1) /\ batches'[Len(batches) + 1] = new
          /\ \A b \in DOMAIN batches : batches'[b] = batches[b]
          /\ Len(batches) \in Nat /\ DOMAIN batches = 1..Len(batches)
      BY <3>1, Holds, AppendSeq, SeqFacts
    <3>4. \A b \in 1..(Len(batches) + 1) : b = Len(batches) + 1 \/ b \in DOMAIN batches
      BY <3>3
    <3> QED BY <3>2, <3>3, <3>4 DEF IndexInv
  <2>2. CASE joinable # {}
    <3>1. k \in DOMAIN batches
      <4>1. joinable \subseteq DOMAIN batches /\ DOMAIN batches \subseteq Nat
        BY Holds, SeqFacts DEF Joinable
      <4>2. k \in joinable
        BY <2>2, <4>1, MinIn
      <4> QED BY <4>1, <4>2
    <3>2. batches' = [batches EXCEPT ![k] = joined]
      BY <2>2, <3>1 DEF FindOrCreate
    <3>3. IsBatch(batches[k]) /\ IsBatchOf(em, batches[k])
      BY <3>1, Holds DEF IndexInv
    <3>4. joined.where = batches[k].where /\ joined.keys = Append(batches[k].keys, key)
      BY <3>3 DEF IsBatch
    <3> HIDE DEF joined, k
    <3>5. IsBatchOf(em, joined)
      <4> DEFINE ks == batches[k].keys
      <4>1. IsSeq(ks) /\ ks # <<>> /\ ks[1] \in DOMAIN Upsert
        BY <3>3 DEF IsBatchOf
      <4> HIDE DEF ks
      <4>2. Len(ks) \in Nat /\ DOMAIN ks = 1..Len(ks) /\ Len(ks) # 0
        BY <4>1, SeqFacts, EmptySeq DEF IsSeq
      <4>3. 1 \in DOMAIN ks
        BY <4>2
      <4>4. IsSeq(Append(ks, key)) /\ Len(Append(ks, key)) = Len(ks) + 1 /\ Append(ks, key)[1] = ks[1]
        BY <4>1, <4>3, AppendSeq
      <4>5. Append(ks, key) # <<>>
        BY <4>2, <4>4, EmptySeq
      <4> QED BY <3>3, <3>4, <4>1, <4>4, <4>5 DEF IsBatchOf, ks
    <3>6. /\ DOMAIN batches' = DOMAIN batches
          /\ \A b \in DOMAIN batches : batches'[b] = IF b = k THEN joined ELSE batches[b]
      BY <3>2
    <3> QED BY <3>5, <3>6 DEF IndexInv
  <2> QED BY <2>1, <2>2
<1> QED BY <1>1, <1>3 DEF IndexInv

LEMMA ResolveIndex ==
  ASSUME IInv, IndexInv, NEW c \in DOMAIN calls, Resolve(c)
  PROVE  IndexInv'
<1>1. UNCHANGED <<batches, reloaded>> /\ calls' = [calls EXCEPT ![c].answered = TRUE]
  BY DEF Resolve
<1>2. WheresFit(calls')
  <2>1. IsCall(calls[c])
    BY Holds
  <2>2. [calls[c] EXCEPT !.answered = TRUE].where = calls[c].where
    BY <2>1 DEF IsCall
  <2>3. DOMAIN calls' = DOMAIN calls
        /\ \A i \in DOMAIN calls : calls'[i] = IF i = c THEN [calls[c] EXCEPT !.answered = TRUE] ELSE calls[i]
    BY <1>1
  <2> QED BY <2>2, <2>3 DEF IndexInv, WheresFit
<1>3. em' = em \/ em' = AfterFilter(em, calls[c].where)
  BY DEF Resolve
<1>4. Edited(em, AfterFilter(em, calls[c].where), last)
  BY Holds, FilterEdited
<1>5. All(em) \subseteq All(em')
  BY <1>3, <1>4 DEF Edited, Keeps
<1>6. ~reloaded' => IndexFits(em')
  <2>1. DOMAIN calls[c].where \subseteq Fields
    BY DEF IndexInv
  <2>2. IndexFits(em) => IndexFits(AfterFilter(em, calls[c].where))
    BY <2>1, Holds, FilterFits
  <2> QED BY <1>1, <1>3, <2>2 DEF IndexInv
<1>7. SameWheres(batches')
  BY <1>1 DEF SameWheres
<1> QED BY <1>2, <1>5, <1>6, <1>7, IndexKept

LEMMA FinishedWheres ==
  ASSUME IInv, NEW b \in DOMAIN batches, NEW state, NEW e
  PROVE  SameWheres(Finished(b, state, e))
<1> DEFINE x == [[batches[b] EXCEPT !.state = state] EXCEPT !.entity = e]
<1>1. IsBatch(batches[b])
  BY Holds
<1>2. x.where = batches[b].where /\ x.keys = batches[b].keys
  BY <1>1 DEF IsBatch
<1>3. Finished(b, state, e) = [batches EXCEPT ![b] = x]
  BY <1>1 DEF Finished, IsBatch
<1> HIDE DEF x
<1> QED BY <1>2, <1>3 DEF SameWheres

\* However an em.findOrCreate ends.
LEMMA EndsFit ==
  ASSUME IInv, IndexHolds, IndexInv, NEW b \in DOMAIN batches, NEW m, Edited(em, m, last),
         TooMany(b, m) \/ CreateNew(b, m) \/ \E e \in All(em) : UseExisting(b, m, e)
  PROVE  SameWheres(batches') /\ (IndexFits(m) => IndexFits(em'))
<1>1. Sound(m, last) /\ All(em) \subseteq All(m)
  BY DEF Edited, Keeps
<1>2. SameWheres(batches')
  BY FinishedWheres DEF TooMany, CreateNew, UseExisting
<1>3. IsWhere(em, batches[b].where) /\ "ref" \notin DOMAIN Upserts(b)
  BY DEF IndexInv, IsBatchOf, IndexHolds, Upserts
<1>4. \A n, e : IsOpts(n, e, Upserts(b))
  BY <1>3 DEF IsOpts
<1>5. ASSUME CreateNew(b, m), IndexFits(m)
      PROVE  IndexFits(em')
  <2> DEFINE c == Create(m, batches[b].where)
             e == Len(m.ents) + 1
  <2>1. Sound(c, last) /\ e \in All(c)
    BY <1>1, CreateEdited DEF Edited
  <2>2. IndexFits(c)
    <3>1. "ref" \in DOMAIN batches[b].where => IsRef(m, batches[b].where["ref"])
      BY <1>1, <1>3 DEF IsWhere, IsRef, EntityRef
    <3> QED BY <1>1, <1>5, <3>1, CreateFits
  <2>3. em' = SetOpts(c, e, Upserts(b))
    BY <1>5 DEF CreateNew
  <2> HIDE DEF c, e
  <2> QED BY <1>4, <2>1, <2>2, <2>3, SetOptsFits
<1>6. ASSUME NEW e \in All(em), UseExisting(b, m, e), IndexFits(m)
      PROVE  IndexFits(em')
  <2> DEFINE r == ResurrectIfSoftDeleted(m, e)
  <2>1. Sound(r, last) /\ e \in All(r)
    BY <1>1, ResurrectEdited DEF Edited, Keeps
  <2>2. IndexFits(r)
    BY <1>1, <1>6, ResurrectFits
  <2> HIDE DEF r
  <2>3. IndexFits(SetOpts(r, e, Upserts(b)))
    BY <1>4, <2>1, <2>2, SetOptsFits
  <2>4. em' = m \/ em' = SetOpts(r, e, Upserts(b))
    BY <1>6 DEF UseExisting, r
  <2> QED BY <1>6, <2>3, <2>4
<1> QED BY <1>2, <1>5, <1>6 DEF TooMany

LEMMA RunBatchIndex ==
  ASSUME IInv, IndexHolds, IndexInv, NEW b \in DOMAIN batches, RunBatch(b)
  PROVE  IndexInv'
<1> DEFINE where == batches[b].where
           m == AfterFilter(em, where)
<1>1. UNCHANGED <<calls, reloaded>>
  BY DEF RunBatch
<1>2. Sound(em, last) /\ Edited(em, m, last)
  BY Holds, FilterEdited
<1>3. IndexFits(em) => IndexFits(m)
  <2>1. DOMAIN where \subseteq Fields
    BY DEF IndexInv, IsBatchOf, IsWhere
  <2> HIDE DEF where
  <2> QED BY <1>2, <2>1, FilterFits
<1>4. CASE TooMany(b, m) \/ CreateNew(b, m) \/ \E e \in All(em) : UseExisting(b, m, e)
  <2> HIDE DEF m
  <2>1. SameWheres(batches') /\ (IndexFits(m) => IndexFits(em'))
    BY <1>2, <1>4, EndsFit
  <2>2. All(em) \subseteq All(em')
    BY <1>2, <1>4, Ends DEF Edited, Keeps
  <2> QED BY <1>1, <1>3, <2>1, <2>2, IndexKept DEF IndexInv, WheresFit
<1>5. CASE /\ em' = m
           /\ batches' = [batches EXCEPT ![b].state = "finding", ![b].on = On("find", where)]
  <2> DEFINE x == [[batches[b] EXCEPT !.state = "finding"] EXCEPT !.on = On("find", where)]
  <2>1. IsBatch(batches[b])
    BY Holds
  <2>2. batches' = [batches EXCEPT ![b] = x] /\ x.where = batches[b].where /\ x.keys = batches[b].keys
    BY <1>5, <2>1 DEF IsBatch
  <2> HIDE DEF x
  <2>3. SameWheres(batches')
    BY <2>2 DEF SameWheres
  <2>4. All(em) \subseteq All(em')
    BY <1>2, <1>5 DEF Edited, Keeps
  <2> QED BY <1>1, <1>3, <1>5, <2>3, <2>4, IndexKept DEF IndexInv, WheresFit
<1> QED BY <1>4, <1>5, RunEnds

LEMMA FinishBatchIndex ==
  ASSUME IInv, IndexHolds, IndexInv, NEW b \in DOMAIN batches, FinishBatch(b)
  PROVE  IndexInv'
<1>1. UNCHANGED <<calls, reloaded>>
  BY DEF FinishBatch
<1>2. TooMany(b, em) \/ CreateNew(b, em) \/ \E e \in All(em) : UseExisting(b, em, e)
  BY FinishEnds
<1>3. Edited(em, em, last)
  BY EmSame
<1>4. SameWheres(batches') /\ (IndexFits(em) => IndexFits(em'))
  BY <1>2, <1>3, EndsFit
<1>5. All(em) \subseteq All(em')
  BY <1>2, <1>3, Ends DEF Edited, Keeps
<1> QED BY <1>1, <1>4, <1>5, IndexKept DEF IndexInv, WheresFit

LEMMA ProgramIndex ==
  ASSUME IInv, IndexHolds, IndexInv, Program
  PROVE  IndexInv'
<1>1. UNCHANGED <<batches, calls, reloaded>>
  BY DEF Program, Edit
<1>2. Sound(em, last)
  BY Holds
<1>3. Edited(em, em', last)
  BY ProgramEdits
<1>4. ASSUME IndexFits(em)
      PROVE  IndexFits(em')
  <2>1. CASE em' = Create(em, [name |-> OtherName])
    <3>1. "ref" \notin DOMAIN [name |-> OtherName]
      OBVIOUS
    <3> QED BY <1>2, <1>4, <2>1, <3>1, CreateFits
  <2>2. ASSUME NEW e \in All(em), NEW f \in {"name", "gone"}, NEW v, em' = SetField(em, e, f, v)
        PROVE  IndexFits(em')
    <3>1. f \in Fields /\ MaySet(em, e, f, v)
      BY DEF Fields, MaySet
    <3> QED BY <1>2, <1>4, <2>2, <3>1, SetFieldFits
  <2>3. ASSUME NEW e \in All(em), "ref" \notin DOMAIN em.indexed, em' = SetReference(em, e, Unset)
        PROVE  IndexFits(em')
    <3>1. IsRef(em, Unset)
      BY DEF IsRef
    <3> QED BY <1>2, <1>4, <2>3, <3>1, SetReferenceFits
  <2>4. ASSUME NEW e \in All(em), em' = MarkDeleted(em, e)
        PROVE  IndexFits(em')
    <3>1. Stays(em, em') /\ Sound(em', last)
      BY <1>2, <1>3, <2>4, MarkDeletedStays DEF Edited
    <3> QED BY <1>2, <1>4, <3>1, StaysFits
  <2>5. "unset" \notin Allowed
    BY DEF IndexHolds
  <2> QED BY <2>1, <2>2, <2>3, <2>4, <2>5 DEF Program, Edit
<1>5. All(em) \subseteq All(em')
  BY <1>3 DEF Edited, Keeps
<1> QED BY <1>1, <1>4, <1>5, IndexKept DEF IndexInv, SameWheres, WheresFit

LEMMA ReceiveIndex ==
  ASSUME IInv, IndexInv, NEW i \in DOMAIN queries, Receive(i)
  PROVE  IndexInv'
<1> DEFINE q == queries[i]
           h == Hydrate(em, q.snap, DOMAIN q.snap, FALSE)
<1>1. /\ UNCHANGED <<batches, calls>> /\ em' = Hydrated(q) /\ q.state = "sent"
      /\ reloaded' = (reloaded \/ q.kind = "refresh")
  BY DEF Receive
<1>2. Sound(em, last) /\ last \in Nat
  BY Holds
<1>3. Sound(em', last) /\ All(em) \subseteq All(em')
  BY <1>1, Received DEF Keeps
<1>4. ASSUME ~reloaded'
      PROVE  IndexFits(em')
  <2>1. ~reloaded /\ (q.kind = "refresh") = FALSE
    BY <1>1, <1>4
  <2>2. DOMAIN q.snap \subseteq 1..last /\ \A k \in DOMAIN q.snap : q.snap[k].at \in Nat
    BY <1>1 DEF IInv, Snaps, IsRow
  <2>3. em' = MarkDeletedBecauseNotFound(h, Missing(q))
    BY <1>1, <2>1 DEF Hydrated
  <2> HIDE DEF q
  <2>4. Stays(em, h) /\ Sound(h, last)
    BY <1>2, <2>2, HydrateStays, HydrateHydrates
  <2> HIDE DEF h
  <2>5. Stays(h, em')
    BY <2>3, <2>4, NotFoundStays
  <2>6. Stays(em, em')
    BY <2>4, <2>5, StaysTransitive
  <2> QED BY <1>2, <1>3, <2>1, <2>6, StaysFits DEF IndexInv
<1> QED BY <1>1, <1>3, <1>4, IndexKept DEF IndexInv, SameWheres, WheresFit

LEMMA FlushIndex ==
  ASSUME IInv, IndexInv, Flush
  PROVE  IndexInv'
<1>1. UNCHANGED <<batches, calls, reloaded>> /\ em' = Flushed(em, last)
  BY DEF Flush
<1>2. Sound(em, last) /\ last \in Nat
  BY Holds
<1>3. Stays(em, em') /\ Sound(em', last + Cardinality(News(em)))
  BY <1>1, <1>2, FlushedStays, FlushedFlushes
<1>4. IndexFits(em) => IndexFits(em')
  BY <1>2, <1>3, StaysFits
<1> QED BY <1>1, <1>3, <1>4, IndexKept DEF IndexInv, SameWheres, WheresFit, Stays, Extends

LEMMA IndexStart == Init => IndexInv
<1> SUFFICES ASSUME Init
             PROVE  IndexInv
  OBVIOUS
<1>1. batches = <<>> /\ calls = <<>> /\ em = NoEntities
  BY DEF Init
<1>2. All(em) = {} /\ DOMAIN em.indexed = {} /\ em.pairs = {}
  BY <1>1 DEF NoEntities, All
<1>3. IndexFits(em)
  BY <1>2 DEF IndexFits
<1> QED BY <1>1, <1>3 DEF IndexInv

LEMMA IndexPreserved == IndexHolds /\ IInv /\ IndexInv /\ [Next]_vars => IndexInv'
<1> SUFFICES ASSUME IndexHolds, IInv, IndexInv, [Next]_vars
             PROVE  IndexInv'
  OBVIOUS
<1>1. ASSUME NEW ids \in Loads, Load(ids \intersect 1..last)
      PROVE  IndexInv'
  <2> DEFINE c == Call("load", Clean, ids \intersect 1..last)
  <2>1. calls' = Append(calls, c) /\ UNCHANGED <<em, batches, reloaded>>
    BY <1>1 DEF Load
  <2>2. DOMAIN c.where \subseteq Fields
    BY DEF Call, Clean
  <2> HIDE DEF c
  <2> QED BY <2>1, <2>2, AskIndex
<1>2. CASE Refresh
  <2> DEFINE ids == {em.ents[e].id : e \in {e \in All(em) : ~IsNew(em, e) /\ IsLive(em, e)}}
             c == [Call("refresh", Clean, ids) EXCEPT !.on = Len(queries) + 1]
  <2>1. calls' = Append(calls, c) /\ UNCHANGED <<em, batches, reloaded>>
    BY <1>2 DEF Refresh
  <2> HIDE DEF ids
  <2>2. DOMAIN c.where \subseteq Fields
    BY DEF Call, Clean
  <2> HIDE DEF c
  <2> QED BY <2>1, <2>2, AskIndex
<1>3. ASSUME NEW where \in WheresIn(em), FindWithNewOrChanged(where)
      PROVE  IndexInv'
  <2> DEFINE c == Call("findLive", where, {})
  <2>1. calls' = Append(calls, c) /\ UNCHANGED <<em, batches, reloaded>>
    BY <1>3 DEF FindWithNewOrChanged
  <2>2. DOMAIN c.where \subseteq Fields
    BY DEF Call, IndexHolds, IsWhere
  <2> HIDE DEF c
  <2> QED BY <2>1, <2>2, AskIndex
<1>4. ASSUME NEW where \in WheresIn(em), NEW key \in DOMAIN Upsert, FindOrCreate(where, key)
      PROVE  IndexInv'
  BY <1>4, FindOrCreateIndex
<1>5. ASSUME NEW i \in DOMAIN queries, Send(i) \/ Receive(i)
      PROVE  IndexInv'
  BY <1>5, RestIndex, ReceiveIndex DEF Send
<1>6. ASSUME NEW c \in DOMAIN calls, Resolve(c)
      PROVE  IndexInv'
  BY <1>6, ResolveIndex
<1>7. ASSUME NEW b \in DOMAIN batches, RunBatch(b) \/ FinishBatch(b)
      PROVE  IndexInv'
  BY <1>7, RunBatchIndex, FinishBatchIndex
<1>8. CASE Program
  BY <1>8, ProgramIndex
<1>9. CASE Flush
  BY <1>9, FlushIndex
<1>10. CASE OtherManager \/ UNCHANGED vars
  BY <1>10, RestIndex DEF OtherManager, vars
<1> QED BY <1>1, <1>2, <1>3, <1>4, <1>5, <1>6, <1>7, <1>8, <1>9, <1>10 DEF Next

\* Whatever was created, changed, read, deleted and flushed since fields were indexed, and
\* however late entities were registered: looking entities up in the index finds what a scan of
\* all of them would (IndexIsScan; IndexManager.ts), until a refresh replaces what is in memory.
\* An indexed entity's reference is not replaced, by the program or by an upsert: the entry
\* under the instance that it referred to, from before that had an id, would stay.
THEOREM IndexAnswers ==
  ASSUME IndexHolds
  PROVE  Spec => []IndexIsScan
<1>1. IInv /\ IndexInv => IndexIsScan
  <2> SUFFICES ASSUME IInv, IndexInv, ~reloaded, NEW where \in Wheres
               PROVE  FilterEntities(em, where) = Matching(em, where)
    BY DEF IndexIsScan
  <2>1. Sound(em, last) /\ IndexFits(em)
    BY Holds DEF IndexInv
  <2>2. CASE \E n \in Names : where = [name |-> n]
    <3>1. DOMAIN where = {"name"} /\ "name" \in Fields
      BY <2>2 DEF Fields
    <3> QED BY <2>1, <3>1, FilterIsScan
  <2>3. CASE \E e \in All(em) : IsLive(em, e) /\ where = [ref |-> EntityRef(e)]
    <3>1. PICK e \in All(em) : IsLive(em, e) /\ where = [ref |-> EntityRef(e)]
      BY <2>3
    <3>2. DOMAIN where = {"ref"} /\ "ref" \in Fields /\ where["ref"] = EntityRef(e)
      BY <3>1 DEF Fields
    <3> QED BY <2>1, <3>1, <3>2, FilterIsScan
  <2> QED BY <2>2, <2>3 DEF Wheres
<1>2. Init => IInv /\ IndexInv
  BY Start, IndexStart
<1>3. (IInv /\ IndexInv) /\ [Next]_vars => (IInv /\ IndexInv)'
  BY Preserved, IndexPreserved
<1> QED BY <1>1, <1>2, <1>3, PTL DEF Spec

----------------------------------------------------------------------------
(* What loads wait for. *)

\* Query k still brings row i into memory, if that is not there.
Comes(k, i) ==
  \/ IdRef(i) \in DOMAIN em.byId
  \/ queries[k].state = "queued" /\ i \in queries[k].ids
  \/ queries[k].state = "sent" /\ i \in DOMAIN queries[k].snap

\* The rows that a load has to answer are not new, and its query brings those that are still there.
Waits(c) == calls[c].kind = "load" /\ ~calls[c].answered
Brings(c) ==
  /\ calls[c].there \subseteq calls[c].ids /\ calls[c].there \subseteq 1..last /\ calls[c].there \intersect open = {}
  /\ queries[calls[c].on].kind = "load"
  /\ \A i \in calls[c].there \intersect DOMAIN rows : Comes(calls[c].on, i)

LoadsInv == \A c \in DOMAIN calls : Waits(c) => Brings(c)

\* The queries of loads go on.
GoesOn(k) ==
  queries[k].kind = "load" =>
    queries'[k].kind = "load" /\ \A i \in DOMAIN rows : Comes(k, i) => Comes(k, i)'

\* No row comes from nowhere.
RowsGoOn ==
  /\ last \in Nat /\ last' \in Nat /\ last' >= last /\ open' \subseteq open
  /\ \A i \in DOMAIN rows' : i \in DOMAIN rows \/ i \in open \/ i > last

LEMMA BringsOn ==
  ASSUME IInv, RowsGoOn, \A k \in DOMAIN queries : GoesOn(k),
         NEW c \in DOMAIN calls, calls'[c] = calls[c], Brings(c)
  PROVE  Brings(c)'
<1> DEFINE k == calls[c].on
           there == calls[c].there
<1>1. k \in DOMAIN queries
  BY DEF IInv, Loaders, CallsOK
<1>2. /\ there \subseteq calls[c].ids /\ there \subseteq 1..last /\ there \intersect open = {}
      /\ queries[k].kind = "load" /\ \A i \in there \intersect DOMAIN rows : Comes(k, i)
  BY DEF Brings
<1>3. queries'[k].kind = "load" /\ \A i \in DOMAIN rows : Comes(k, i) => Comes(k, i)'
  BY <1>1, <1>2 DEF GoesOn
<1>4. there \subseteq 1..last' /\ there \intersect open' = {}
  BY <1>2 DEF RowsGoOn
<1>5. \A i \in there \intersect DOMAIN rows' : i \in DOMAIN rows
  BY <1>2 DEF RowsGoOn
<1>6. \A i \in there \intersect DOMAIN rows' : Comes(k, i)'
  BY <1>2, <1>3, <1>5
<1> QED BY <1>2, <1>3, <1>4, <1>6 DEF Brings, Comes

\* A step that asks for no load.
LEMMA LoadsGoOn ==
  ASSUME IInv, LoadsInv, RowsGoOn, \A k \in DOMAIN queries : GoesOn(k),
         \A c \in DOMAIN calls' : Waits(c)' => c \in DOMAIN calls /\ calls'[c] = calls[c]
  PROVE  LoadsInv'
<1> SUFFICES ASSUME NEW c \in DOMAIN calls', Waits(c)'
             PROVE  Brings(c)'
  BY DEF LoadsInv
<1>1. c \in DOMAIN calls /\ calls'[c] = calls[c]
  OBVIOUS
<1>2. Brings(c)
  BY <1>1 DEF LoadsInv, Waits
<1> QED BY <1>1, <1>2, BringsOn

LEMMA RowsSame ==
  ASSUME IInv, UNCHANGED <<rows, last, open>>
  PROVE  RowsGoOn
BY DEF IInv, Rows, RowsGoOn

\* More is in memory, and more is asked for.
LEMMA MoreGoesOn ==
  ASSUME NEW k \in DOMAIN queries, Keeps(em, em') \/ em' = em,
         queries'[k].kind = queries[k].kind, queries'[k].state = queries[k].state,
         queries[k].ids \subseteq queries'[k].ids, queries'[k].snap = queries[k].snap
  PROVE  GoesOn(k)
BY DEF GoesOn, Comes, Keeps

LEMMA SameGoesOn ==
  ASSUME UNCHANGED queries, Keeps(em, em') \/ em' = em
  PROVE  \A k \in DOMAIN queries : GoesOn(k)
BY MoreGoesOn

LEMMA AskedGoesOn ==
  ASSUME IInv, NEW kind, NEW where, NEW ids, ids \subseteq 1..last,
         queries' = Asked(kind, where, ids), Keeps(em, em') \/ em' = em
  PROVE  /\ \A k \in DOMAIN queries : GoesOn(k)
         /\ kind = "load" =>
              /\ queries'[On(kind, where)].kind = "load" /\ queries'[On(kind, where)].state = "queued"
              /\ ids \subseteq queries'[On(kind, where)].ids
<1> DEFINE q == Query(kind, where, ids)
           shared == Shared(kind, where)
           k == Min(shared)
           n == Len(queries) + 1
<1>1. IsSeq(queries) /\ \A i \in DOMAIN queries : IsQuery(queries[i])
  BY DEF IInv, Loaders, QueriesOK
<1>2. Len(queries) \in Nat /\ DOMAIN queries = 1..Len(queries)
  BY <1>1, SeqFacts
<1>3. CASE shared = {}
  <2>1. queries' = Append(queries, q) /\ On(kind, where) = n
    BY <1>3 DEF Asked, On
  <2>2. q.kind = kind /\ q.state = "queued" /\ q.ids = ids
    BY DEF Query
  <2> HIDE DEF q
  <2>3. queries'[n] = q /\ \A i \in DOMAIN queries : queries'[i] = queries[i]
    BY <1>1, <1>2, <2>1, AppendSeq
  <2>4. \A i \in DOMAIN queries : GoesOn(i)
    BY <2>3, MoreGoesOn
  <2> QED BY <2>1, <2>2, <2>3, <2>4
<1>4. CASE shared # {}
  <2>1. k \in DOMAIN queries /\ queries[k].kind = kind /\ (kind \notin Finds => queries[k].state = "queued")
    <3>1. shared \subseteq DOMAIN queries /\ DOMAIN queries \subseteq Nat
      BY <1>2 DEF Shared
    <3>2. k \in shared
      BY <1>4, <3>1, MinIn
    <3> QED BY <3>2 DEF Shared
  <2> DEFINE x == [queries[k] EXCEPT !.ids = @ \union ids]
  <2>2. queries' = [queries EXCEPT ![k] = x] /\ On(kind, where) = k
    BY <1>4, <2>1 DEF Asked, On
  <2>3. /\ x.ids = queries[k].ids \union ids /\ x.state = queries[k].state /\ x.kind = queries[k].kind
        /\ x.snap = queries[k].snap
    BY <1>1, <2>1 DEF IsQuery
  <2> HIDE DEF x, k
  <2>4. \A i \in DOMAIN queries : queries'[i] = IF i = k THEN x ELSE queries[i]
    BY <2>2
  <2>5. \A i \in DOMAIN queries : GoesOn(i)
    BY <2>3, <2>4, MoreGoesOn
  <2>6. "load" \notin Finds
    BY DEF Finds
  <2> QED BY <2>1, <2>2, <2>3, <2>4, <2>5, <2>6
<1> QED BY <1>3, <1>4

\* A call that is appended waits for nothing, or its query is asked for all that it lacks.
LEMMA AppendedCall ==
  ASSUME IInv, NEW c, calls' = Append(calls, c)
  PROVE  /\ calls'[Len(calls) + 1] = c /\ DOMAIN calls' = DOMAIN calls \union {Len(calls) + 1}
         /\ \A d \in DOMAIN calls : calls'[d] = calls[d]
<1>1. IsSeq(calls) /\ Len(calls) \in Nat /\ DOMAIN calls = 1..Len(calls)
  BY SeqFacts DEF IInv, Loaders, CallsOK
<1>2. /\ DOMAIN Append(calls, c) = 1..(Len(calls) + 1) /\ Append(calls, c)[Len(calls) + 1] = c
      /\ \A i \in DOMAIN calls : Append(calls, c)[i] = calls[i]
  BY <1>1, AppendSeq
<1> QED BY <1>1, <1>2

LEMMA NoLoadAsked ==
  ASSUME IInv, LoadsInv, UNCHANGED <<rows, last, open>>, \A k \in DOMAIN queries : GoesOn(k),
         NEW c, calls' = Append(calls, c), c.kind # "load"
  PROVE  LoadsInv'
<1>1. RowsGoOn
  BY RowsSame
<1>2. \A d \in DOMAIN calls' : Waits(d)' => d \in DOMAIN calls /\ calls'[d] = calls[d]
  BY AppendedCall DEF Waits
<1> QED BY <1>1, <1>2, LoadsGoOn

LEMMA LoadIsBrought ==
  ASSUME IInv, LoadsInv, NEW ids, ids \subseteq 1..last, Load(ids)
  PROVE  LoadsInv'
<1> DEFINE toLoad == {i \in ids : FindExistingInstance(em, IdRef(i)) = None}
           c == Call("load", Clean, ids)
           n == Len(calls) + 1
<1>1. /\ queries' = Asked("load", Clean, toLoad) /\ calls' = Append(calls, c)
      /\ UNCHANGED <<rows, last, open, em>>
  BY DEF Load, database
<1>2. toLoad \subseteq ids /\ \A i \in ids \ toLoad : IdRef(i) \in DOMAIN em.byId
  BY DEF FindExistingInstance
<1>3. c.there = ids \intersect DOMAIN rows /\ c.ids = ids /\ c.on = On("load", Clean)
  BY DEF Call
<1> HIDE DEF toLoad, c
<1>4. /\ \A k \in DOMAIN queries : GoesOn(k)
      /\ queries'[c.on].kind = "load" /\ queries'[c.on].state = "queued" /\ toLoad \subseteq queries'[c.on].ids
  <2>1. toLoad \subseteq 1..last
    BY <1>2
  <2> DEFINE on == On("load", Clean)
  <2>2. /\ \A k \in DOMAIN queries : GoesOn(k)
        /\ queries'[on].kind = "load" /\ queries'[on].state = "queued" /\ toLoad \subseteq queries'[on].ids
    BY <1>1, <2>1, AskedGoesOn
  <2> QED BY <1>3, <2>2
<1>5. /\ calls'[n] = c /\ DOMAIN calls' = DOMAIN calls \union {n}
      /\ \A d \in DOMAIN calls : calls'[d] = calls[d]
  BY <1>1, AppendedCall
<1> HIDE DEF n
<1> SUFFICES ASSUME NEW d \in DOMAIN calls', Waits(d)'
             PROVE  Brings(d)'
  BY DEF LoadsInv
<1>6. CASE d = n
  <2>1. c.there \subseteq 1..last /\ c.there \intersect open = {}
    BY <1>3 DEF IInv, Rows
  <2>2. \A i \in c.there : IdRef(i) \in DOMAIN em.byId \/ i \in queries'[c.on].ids
    BY <1>2, <1>3, <1>4
  <2>3. calls'[d] = c
    BY <1>5, <1>6
  <2>4. \A i \in c.there : Comes(calls[d].on, i)'
    BY <1>1, <1>4, <2>2, <2>3 DEF Comes
  <2> QED BY <1>1, <1>3, <1>4, <2>1, <2>3, <2>4 DEF Brings
<1>7. CASE d \in DOMAIN calls
  <2>1. calls'[d] = calls[d] /\ Brings(d)
    BY <1>5, <1>7 DEF LoadsInv, Waits
  <2> QED BY <1>1, <1>4, <1>7, <2>1, RowsSame, BringsOn
<1> QED BY <1>5, <1>6, <1>7

LEMMA RefreshWaits ==
  ASSUME IInv, LoadsInv, Refresh
  PROVE  LoadsInv'
<1> DEFINE ids == {em.ents[e].id : e \in {e \in All(em) : ~IsNew(em, e) /\ IsLive(em, e)}}
           q == [Query("refresh", Clean, ids) EXCEPT !.loader = loaders + 1]
           c == [Call("refresh", Clean, ids) EXCEPT !.on = Len(queries) + 1]
<1>1. queries' = Append(queries, q) /\ calls' = Append(calls, c) /\ UNCHANGED <<rows, last, open, em>>
  BY DEF Refresh, database
<1> HIDE DEF ids
<1>2. c.kind # "load"
  BY DEF Call
<1> HIDE DEF q, c
<1>3. \A k \in DOMAIN queries : queries'[k] = queries[k]
  BY <1>1, AppendSeq DEF IInv, Loaders, QueriesOK
<1>4. \A k \in DOMAIN queries : GoesOn(k)
  BY <1>1, <1>3, MoreGoesOn
<1> QED BY <1>1, <1>2, <1>4, NoLoadAsked

LEMMA FindWaits ==
  ASSUME IInv, LoadsInv, NEW where, FindWithNewOrChanged(where)
  PROVE  LoadsInv'
<1> DEFINE c == Call("findLive", where, {})
<1>1. /\ queries' = Asked("findLive", where, {}) /\ calls' = Append(calls, c)
      /\ UNCHANGED <<rows, last, open, em>>
  BY DEF FindWithNewOrChanged, database
<1>2. c.kind # "load"
  BY DEF Call
<1> HIDE DEF c
<1>3. \A k \in DOMAIN queries : GoesOn(k)
  BY <1>1, AskedGoesOn
<1> QED BY <1>1, <1>2, <1>3, NoLoadAsked

\* What reads no row, and asks for none.
LEMMA CallsSame ==
  ASSUME IInv, LoadsInv, UNCHANGED calls, RowsGoOn, \A k \in DOMAIN queries : GoesOn(k)
  PROVE  LoadsInv'
BY LoadsGoOn

LEMMA BatchWaits ==
  ASSUME IInv, LoadsInv, NEW b \in DOMAIN batches, RunBatch(b) \/ FinishBatch(b)
  PROVE  LoadsInv'
<1>1. UNCHANGED <<rows, last, open, calls>>
  BY DEF RunBatch, FinishBatch, database
<1>2. Keeps(em, em')
  BY RunEnds, FinishEnds, EmSame, Ends DEF Edited
<1>3. UNCHANGED queries \/ queries' = Asked("find", batches[b].where, {})
  BY DEF RunBatch, FinishBatch
<1>4. \A k \in DOMAIN queries : GoesOn(k)
  BY <1>2, <1>3, AskedGoesOn, SameGoesOn
<1> QED BY <1>1, <1>4, RowsSame, CallsSame

LEMMA SendWaits ==
  ASSUME IInv, LoadsInv, NEW i \in DOMAIN queries, Send(i)
  PROVE  LoadsInv'
<1> DEFINE q == queries[i]
           snap == [k \in Selects(q) |-> rows[k]]
           at == changes + flushes
           x == [[[q EXCEPT !.state = "sent"] EXCEPT !.at = at] EXCEPT !.snap = snap]
<1>1. UNCHANGED <<rows, last, open, em, calls>> /\ q.state = "queued"
  BY DEF Send, database
<1>2. IsQuery(q)
  BY DEF IInv, Loaders, QueriesOK
<1>3. queries' = [queries EXCEPT ![i] = x]
  <2>1. queries' = [[[queries EXCEPT ![i].state = "sent"] EXCEPT ![i].at = at] EXCEPT ![i].snap = snap]
    BY DEF Send
  <2> HIDE DEF snap, at
  <2> QED BY <2>1
<1>4. q.kind = "load" => DOMAIN snap = DOMAIN rows \intersect q.ids
  BY DEF Selects
<1>5. x.state = "sent" /\ x.snap = snap /\ x.kind = q.kind
  <2> HIDE DEF q, snap, at
  <2> QED BY <1>2 DEF IsQuery
<1> HIDE DEF x, snap
<1>6. \A k \in DOMAIN queries : queries'[k] = IF k = i THEN x ELSE queries[k]
  BY <1>3
<1>7. ASSUME NEW k \in DOMAIN queries
      PROVE  GoesOn(k)
  <2>1. CASE k = i
    BY <1>1, <1>4, <1>5, <1>6, <2>1 DEF GoesOn, Comes
  <2>2. CASE k # i
    BY <1>1, <1>6, <2>2, MoreGoesOn
  <2> QED BY <2>1, <2>2
<1> QED BY <1>1, <1>7, RowsSame, CallsSame

LEMMA ReceiveWaits ==
  ASSUME IInv, LoadsInv, NEW i \in DOMAIN queries, Receive(i)
  PROVE  LoadsInv'
<1> DEFINE q == queries[i]
           found == IF q.kind \in Finds THEN Found(q, em') ELSE {}
           x == [[[q EXCEPT !.state = "done"] EXCEPT !.snap = <<>>] EXCEPT !.found = found]
<1>1. UNCHANGED <<rows, last, open, calls>> /\ em' = Hydrated(q) /\ q.state = "sent"
  BY DEF Receive, database
<1>2. Keeps(em, em') /\ \A k : IdRef(k) \in DOMAIN em'.byId <=> IdRef(k) \in DOMAIN em.byId \/ k \in DOMAIN q.snap
  BY <1>1, Received
<1>3. IsQuery(q)
  BY DEF IInv, Loaders, QueriesOK
<1>4. queries' = [queries EXCEPT ![i] = x]
  <2>1. queries' = [[[queries EXCEPT ![i].state = "done"] EXCEPT ![i].snap = <<>>] EXCEPT ![i].found = found]
    BY DEF Receive
  <2> HIDE DEF found
  <2> QED BY <2>1
<1>5. x.kind = q.kind
  <2> HIDE DEF q, found
  <2> QED BY <1>3 DEF IsQuery
<1> HIDE DEF x
<1>6. \A k \in DOMAIN queries : queries'[k] = IF k = i THEN x ELSE queries[k]
  BY <1>4
<1>7. ASSUME NEW k \in DOMAIN queries
      PROVE  GoesOn(k)
  <2>1. CASE k = i
    BY <1>1, <1>2, <1>5, <1>6, <2>1 DEF GoesOn, Comes
  <2>2. CASE k # i
    BY <1>2, <1>6, <2>2, MoreGoesOn
  <2> QED BY <2>1, <2>2
<1> QED BY <1>1, <1>7, RowsSame, CallsSame

LEMMA FlushWaits ==
  ASSUME IInv, LoadsInv, Flush
  PROVE  LoadsInv'
<1>1. em' = Flushed(em, last) /\ last' = last + Cardinality(News(em)) /\ UNCHANGED <<open, queries, calls>>
  BY DEF Flush
<1>2. last \in Nat /\ last' \in Nat /\ last' >= last /\ Flushes(em, em', last)
  BY <1>1, FlushedFlushes DEF IInv, Rows, Memory
<1>3. DOMAIN rows' \subseteq DOMAIN rows \union WrittenBy(em')
  BY DEF Flush
<1>4. RowsGoOn
  BY <1>1, <1>2, <1>3, WrittenRows DEF RowsGoOn
<1>5. \A k \in DOMAIN queries : GoesOn(k)
  BY <1>1, <1>2 DEF GoesOn, Comes, Flushes
<1> QED BY <1>1, <1>4, <1>5, CallsSame

LEMMA OtherManagerWaits ==
  ASSUME IInv, LoadsInv, OtherManager
  PROVE  LoadsInv'
<1>1. UNCHANGED <<last, em, queries, calls>>
  BY DEF OtherManager
<1>2. open' \subseteq open /\ \A i \in DOMAIN rows' : i \in DOMAIN rows \/ i \in open
  BY DEF OtherManager, InsertRow, ChangeRow, Over
<1>3. RowsGoOn
  BY <1>1, <1>2 DEF RowsGoOn, IInv, Rows
<1> QED BY <1>1, <1>3, SameGoesOn, CallsSame

LEMMA ResolveWaits ==
  ASSUME IInv, LoadsInv, NEW c \in DOMAIN calls, Resolve(c)
  PROVE  LoadsInv'
<1> DEFINE x == [calls[c] EXCEPT !.answered = TRUE]
<1>1. calls' = [calls EXCEPT ![c] = x] /\ UNCHANGED <<rows, last, open, queries>>
  BY DEF Resolve, database
<1>2. Edited(em, em', last)
  BY FilterEdited, EmSame DEF Resolve, IInv, Memory
<1>3. x.answered
  <2>1. IsCall(calls[c])
    BY DEF IInv, Loaders, CallsOK
  <2> QED BY <2>1 DEF IsCall
<1> HIDE DEF x
<1>4. \A d \in DOMAIN calls' : Waits(d)' => d \in DOMAIN calls /\ calls'[d] = calls[d]
  BY <1>1, <1>3 DEF Waits
<1>5. \A k \in DOMAIN queries : GoesOn(k)
  BY <1>1, <1>2, SameGoesOn DEF Edited
<1> QED BY <1>1, <1>4, <1>5, RowsSame, LoadsGoOn

LEMMA LoadsKept == IInv /\ LoadsInv /\ [Next]_vars => LoadsInv'
<1> SUFFICES ASSUME IInv, LoadsInv, [Next]_vars
             PROVE  LoadsInv'
  OBVIOUS
<1>1. ASSUME NEW ids \in Loads, Load(ids \intersect 1..last)
      PROVE  LoadsInv'
  BY <1>1, LoadIsBrought
<1>2. ASSUME NEW where \in WheresIn(em), FindWithNewOrChanged(where)
      PROVE  LoadsInv'
  BY <1>2, FindWaits
<1>3. ASSUME NEW where \in WheresIn(em), NEW key \in DOMAIN Upsert, FindOrCreate(where, key)
      PROVE  LoadsInv'
  BY <1>3, RowsSame, SameGoesOn, CallsSame DEF FindOrCreate, database
<1>4. ASSUME NEW i \in DOMAIN queries, Send(i) \/ Receive(i)
      PROVE  LoadsInv'
  BY <1>4, SendWaits, ReceiveWaits
<1>5. ASSUME NEW c \in DOMAIN calls, Resolve(c)
      PROVE  LoadsInv'
  BY <1>5, ResolveWaits
<1>6. ASSUME NEW b \in DOMAIN batches, RunBatch(b) \/ FinishBatch(b)
      PROVE  LoadsInv'
  BY <1>6, BatchWaits
<1>7. CASE Program
  <2>1. UNCHANGED <<rows, last, open, queries, calls>>
    BY <1>7 DEF Program, Edit, database
  <2>2. Keeps(em, em')
    BY <1>7, ProgramEdits DEF Edited
  <2> QED BY <2>1, <2>2, RowsSame, SameGoesOn, CallsSame
<1>8. CASE UNCHANGED vars
  BY <1>8, RowsSame, SameGoesOn, CallsSame DEF vars
<1>9. CASE Refresh \/ Flush \/ OtherManager
  BY <1>9, RefreshWaits, FlushWaits, OtherManagerWaits
<1> QED BY <1>1, <1>2, <1>3, <1>4, <1>5, <1>6, <1>7, <1>8, <1>9 DEF Next

\* Only what its query has brought answers a call.
LEMMA OnlyResolves ==
  ASSUME IInv, [Next]_vars, NEW c \in DOMAIN calls, Answered(c)
  PROVE  Resolve(c)
<1> SUFFICES ASSUME ~Resolve(c)
             PROVE  calls'[c] = calls[c]
  BY DEF Answered
<1>1. ASSUME NEW x, calls' = Append(calls, x)
      PROVE  calls'[c] = calls[c]
  BY <1>1, AppendedCall
<1>2. ASSUME NEW d \in DOMAIN calls, Resolve(d)
      PROVE  calls'[c] = calls[c]
  BY <1>2 DEF Resolve
<1>3. ASSUME NEW ids \in Loads, Load(ids \intersect 1..last)
      PROVE  calls'[c] = calls[c]
  BY <1>1, <1>3 DEF Load
<1>4. CASE Refresh
  BY <1>1, <1>4 DEF Refresh
<1>5. ASSUME NEW where \in WheresIn(em), FindWithNewOrChanged(where)
      PROVE  calls'[c] = calls[c]
  BY <1>1, <1>5 DEF FindWithNewOrChanged
<1>6. ASSUME NEW where \in WheresIn(em), NEW key \in DOMAIN Upsert, FindOrCreate(where, key)
      PROVE  calls'[c] = calls[c]
  BY <1>6 DEF FindOrCreate
<1>7. ASSUME NEW i \in DOMAIN queries, Send(i) \/ Receive(i)
      PROVE  calls'[c] = calls[c]
  BY <1>7 DEF Send, Receive
<1>8. ASSUME NEW b \in DOMAIN batches, RunBatch(b) \/ FinishBatch(b)
      PROVE  calls'[c] = calls[c]
  BY <1>8 DEF RunBatch, FinishBatch
<1>9. CASE Program \/ Flush \/ OtherManager \/ UNCHANGED vars
  BY <1>9 DEF Program, Edit, Flush, OtherManager, vars
<1> QED BY <1>2, <1>3, <1>4, <1>5, <1>6, <1>7, <1>8, <1>9 DEF Next

\* However many loads share a query and whatever is created, flushed, refreshed and changed by
\* others before the answer: a load answers every row that was there from its call until its
\* answer (LoadsAnswerRows; loadBatchLoader.ts and EntityManager.ts's hydrate).
THEOREM LoadsAnswer == Spec => [][LoadsAnswerRows]_vars
<1>1. IInv /\ LoadsInv /\ [Next]_vars => [LoadsAnswerRows]_vars
  <2> SUFFICES ASSUME IInv, LoadsInv, [Next]_vars, NEW c \in DOMAIN calls, Answered(c), calls[c].kind = "load",
                      NEW i \in calls[c].there \intersect DOMAIN rows
               PROVE  i \in LoadedBy(c)
    BY DEF LoadsAnswerRows
  <2>1. Resolve(c)
    BY OnlyResolves
  <2>2. Brings(c)
    BY DEF LoadsInv, Waits, Answered
  <2>3. i \in calls[c].ids /\ IdRef(i) \in DOMAIN em.byId
    BY <2>1, <2>2 DEF Brings, Comes, Resolve
  <2>4. em.byId[IdRef(i)] \in All(em) /\ IsSeq(em.ents)
    BY <2>3 DEF IInv, Memory, Sound
  <2>5. em.byId[IdRef(i)] # None
    BY <2>4, SeqFacts DEF All, None
  <2> QED BY <2>3, <2>5 DEF LoadedBy, FindExistingInstance
<1>2. Init => LoadsInv
  BY DEF Init, LoadsInv
<1>3. Init => IInv
  BY Start
<1>4. (IInv /\ LoadsInv) /\ [Next]_vars => (IInv /\ LoadsInv)'
  BY Preserved, LoadsKept
<1> QED BY <1>1, <1>2, <1>3, <1>4, PTL DEF Spec
=============================================================================
