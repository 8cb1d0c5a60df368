--------------------------- MODULE LoadedRelations ---------------------------
(***************************************************************************)
(* What one entity manager has loaded: the entities it holds, the          *)
(* references, collections and properties of each, and the lists that a    *)
(* query has left to be taken by a collection (preloaded relations).       *)
(*                                                                         *)
(* A load hint is a prefix-closed set of paths of relation names: { books: *)
(* "reviews" } is {<<"books">>, <<"books", "reviews">>}.  A hint tree is a *)
(* set of pairs of a path and an entity that asked for it (HintTree.ts).   *)
(***************************************************************************)
EXTENDS Naturals, Sequences, FiniteSets, FiniteSetsExt

CONSTANTS Entity, TypeOf,
          Meta,               \* the relations and properties of each type
          Inherited,          \* types with a base type or subtypes
          Rows,               \* the foreign keys in the database
          SoftDeleted,
          None, NotPreloaded  \* an unset reference; a relation that no query has fetched

Keys(e) == DOMAIN Meta[TypeOf[e]]
Field(e, k) == Meta[TypeOf[e]][k]
Pairs(kinds) == {p \in Entity \X UNION {DOMAIN Meta[t] : t \in DOMAIN Meta} :
                   p[2] \in Keys(p[1]) /\ Field(p[1], p[2]).kind \in kinds}
References == Pairs({"m2o"})
Collections == Pairs({"o2m", "o2o"})
Kind(p) == Field(p[1], p[2]).kind

\* A hint has every path on the way to another.
IsHint(hint) == hint = UNION {{SubSeq(path, 1, i) : i \in 1..Len(path)} : path \in hint}

ASSUME LoadedRelationsAssumption ==
  /\ TypeOf \in [Entity -> DOMAIN Meta] /\ Inherited \subseteq DOMAIN Meta
  /\ Rows \in [References -> Entity \cup {None}]
  /\ \A t \in DOMAIN Meta : \A k \in DOMAIN Meta[t] : IsHint(Meta[t][k].hint)
  /\ SoftDeleted \subseteq Entity /\ None \notin Entity

----------------------------------------------------------------------------
(* The database, and what is loaded of it. *)

DbRelated(e, k) ==
  LET f == Field(e, k)
  IN IF f.kind = "m2o" THEN {Rows[<<e, k>>]} \ {None}
     ELSE {x \in Entity : TypeOf[x] = f.other /\ Rows[<<x, f.reverse>>] = e}

EmptyManager(preloads) ==
  [mem |-> {}, fk |-> Rows, blank |-> {}, calc |-> {}, preloads |-> preloads,
   coll |-> [p \in Collections |-> [loaded |-> FALSE, members |-> {}, added |-> {}, removed |-> {}]],
   pre |-> [p \in Collections |-> NotPreloaded]]

Hydrate(m, S) == [m EXCEPT !.mem = @ \cup S]

\* An unloaded reference to what is in memory is loaded by looking at it.
ReferenceLoaded(m, p) == p \in m.blank \/ m.fk[p] \in m.mem \cup {None}

RelatedEvenDeleted(m, e, k) ==
  CASE <<e, k>> \in DOMAIN m.fk -> IF <<e, k>> \in m.blank THEN {} ELSE {m.fk[<<e, k>>]} \ {None}
    [] <<e, k>> \in DOMAIN m.coll -> m.coll[<<e, k>>].members
    [] OTHER -> {}
\* `get`: references keep what is soft-deleted, collections do not.
Related(m, e, k) == RelatedEvenDeleted(m, e, k) \ (IF Field(e, k).kind = "o2m" THEN SoftDeleted ELSE {})

Reached(m, e, path) ==
  LET upTo[i \in 0..Len(path)] ==
        IF i = 0 THEN {e} ELSE UNION {Related(m, x, path[i]) : x \in upTo[i - 1]}
  IN upTo[Len(path)]

\* A property that has been loaded stays so, and any other asks for its own hint.  (The code keeps
\* what it was told when it first asked; what a hint is about stays loaded, so that asking again
\* only saves a promise that has nothing to wait for.)
RECURSIVE IsLoaded(_, _)
IsLoaded(m, p) ==
  CASE p \in DOMAIN m.fk -> ReferenceLoaded(m, p)
    [] p \in DOMAIN m.coll -> m.coll[p].loaded
    [] OTHER -> p \in m.calc \/ \A path \in Field(p[1], p[2]).hint :
                  \A x \in Reached(m, p[1], SubSeq(path, 1, Len(path) - 1)) : IsLoaded(m, <<x, path[Len(path)]>>)
HintLoaded(m, e, hint) ==
  \A path \in hint : \A x \in Reached(m, e, SubSeq(path, 1, Len(path) - 1)) : IsLoaded(m, <<x, path[Len(path)]>>)

----------------------------------------------------------------------------
(* Edits.  A collection of an absent entity stands for what waits for it. *)

RemoveState(c, kind, e) ==
  IF kind = "o2o" THEN [c EXCEPT !.members = {}, !.loaded = TRUE]
  ELSE [c EXCEPT !.members = @ \ {e}, !.added = @ \ {e}, !.removed = @ \cup {e}]
AddState(c, kind, e) ==
  IF kind = "o2o" THEN [c EXCEPT !.members = {e}, !.loaded = TRUE]
  ELSE [c EXCEPT !.members = IF c.loaded THEN @ \cup {e} ELSE @,
                 !.added = @ \cup {e}, !.removed = @ \ {e}]

\* The owners hear of it, a collection of an absent one when it comes to memory.
Percolate(m, x, f, change, e) ==
  LET kind == Meta[f.other][f.reverse].kind
  IN IF x = None \/ (kind = "o2o" /\ x \notin m.mem) THEN m
     ELSE [m EXCEPT !.coll[<<x, f.reverse>>] =
             IF change = "add" THEN AddState(@, kind, e) ELSE RemoveState(@, kind, e)]
SetReference(m, e, k, x) ==
  LET set == [m EXCEPT !.fk[<<e, k>>] = x, !.blank = @ \ {<<e, k>>}]
      left == Percolate(set, m.fk[<<e, k>>], Field(e, k), "remove", e)
  IN IF m.fk[<<e, k>>] = x THEN m ELSE Percolate(left, x, Field(e, k), "add", e)

----------------------------------------------------------------------------
(* Taking what was loaded. *)

\* What was found is all there is.
ApplyFound(c, kind, found) == [c EXCEPT !.loaded = TRUE, !.members = found]
ApplyLoad(c, kind, found) ==
  [c EXCEPT !.loaded = TRUE, !.members = IF kind = "o2o" THEN found ELSE (found \cup c.added) \ c.removed]
IsPreloaded(m, p) == p \in DOMAIN m.pre /\ m.pre[p] # NotPreloaded

\* relation.preload() of every pair in P.
PreloadAll(m, P) ==
  [m EXCEPT !.blank = @ \cup {p \in P \cap DOMAIN m.fk : m.fk[p] \notin m.mem \cup {None}},
            !.coll = [p \in DOMAIN @ |-> IF p \in P /\ m.pre[p] # NotPreloaded
                                         THEN ApplyLoad(@[p], Kind(p), m.pre[p]) ELSE @[p]]]

\* The batch loader of a collection: the rows found, by the owner they have in memory.
FoundBy(m, p, found) == {x \in found : m.fk[<<x, Field(p[1], p[2]).reverse>>] = p[1]}
Preload(m, found) == [m EXCEPT !.pre = [p \in DOMAIN @ |-> IF p \in DOMAIN found THEN found[p] ELSE @[p]]]
LoadCollections(m, P) ==
  \* each collection is given those of all the rows found that are its own
  LET found == UNION {DbRelated(p[1], p[2]) : p \in P}
  IN Preload(Hydrate(m, found), [p \in P |-> FoundBy(m, p, found)])

----------------------------------------------------------------------------
(* Preloading with joins. *)

CanPreload(t, k) ==
  k \in DOMAIN Meta[t] /\ Meta[t][k].kind \in {"m2o", "o2m", "o2o"} /\ Meta[t][k].other \notin Inherited
PathType(t, path) ==
  LET at[i \in 0..Len(path)] == IF i = 0 THEN t ELSE Meta[at[i - 1]][path[i]].other IN at[Len(path)]
\* The part of a hint that joins can fetch, and the part that loads have to; what is below a
\* property belongs to the second.
SqlPath(t, path) ==
  \A i \in 1..Len(path) : CanPreload(PathType(t, SubSeq(path, 1, i - 1)), path[i])
SqlPart(t, hint) == {path \in hint : SqlPath(t, path)}
NonSqlPart(t, hint) ==
  {path \in hint : \E rest \in hint : ~SqlPath(t, rest) /\ \E i \in 1..Len(rest) : path = SubSeq(rest, 1, i)}

DbReached(e, path) ==
  LET upTo[i \in 0..Len(path)] ==
        IF i = 0 THEN {e} ELSE UNION {DbRelated(x, path[i]) : x \in upTo[i - 1]}
  IN upTo[Len(path)]
\* The relations that a tree's joins fill: for each entity those it asked for, along the rows.
Joined(tree) ==
  UNION {{<<x, path[Len(path)]>> : x \in DbReached(e, SubSeq(path, 1, Len(path) - 1))} :
           <<path, e>> \in {n \in tree : n[1] # <<>> /\ SqlPath(TypeOf[n[2]], n[1])}}
Preloaded(m, P) ==
  Preload(Hydrate(m, UNION {DbRelated(p[1], p[2]) : p \in P}), [p \in P |-> DbRelated(p[1], p[2])])
PreloadTree(m, tree) == Preloaded(m, Joined(tree))
=============================================================================
