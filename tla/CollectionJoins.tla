--------------------------- MODULE CollectionJoins ---------------------------
(***************************************************************************)
(* optimizeCollectionJoins (QueryParser.collectionJoins.ts) and            *)
(* pruneUnusedJoins (QueryParser.pruning.ts): collection LEFT JOINs whose  *)
(* conditions concern their own subtree become EXISTS, what cannot be      *)
(* rewritten stays a join, and joins nothing needs are dropped.            *)
(***************************************************************************)
EXTENDS QueryParser

JoinDependencies(t) == {t.col1.alias, t.col2.alias} \ {t.alias}
JoinsOf(q) == {t \in ToSet(q.tables) : IsJoin(t)}

\* The aliases a condition mentions: an EXISTS is a scope of its own.
RECURSIVE ConditionAliases(_), RealAliases(_), IsReal(_), RealLeaves(_)
ConditionAliases(c) ==
  CASE c.kind = "column" -> {c.alias}
    [] c.kind = "raw" -> c.aliases
    [] c.kind = "exp" -> UNION {ConditionAliases(d) : d \in ToSet(c.conditions)}
    [] OTHER -> {}

\* A condition of the caller's, and not one the parser added, such as a soft-delete.
IsReal(c) ==
  CASE c.kind \in {"column", "raw"} -> ~c.pruneable
    [] c.kind = "exists" -> TRUE
    [] c.kind = "exp" -> \E d \in ToSet(c.conditions) : IsReal(d)
    [] OTHER -> FALSE

RealLeaves(c) ==
  CASE c.kind = "exp" -> UNION {RealLeaves(d) : d \in ToSet(c.conditions)}
    [] c.kind # "none" /\ IsReal(c) -> {c}
    [] OTHER -> {}
RealAliases(c) == UNION {ConditionAliases(d) : d \in RealLeaves(c)}

OnlyIn(c, aliases) == ConditionAliases(c) # {} /\ ConditionAliases(c) \subseteq aliases
AnyIn(c, aliases) == ConditionAliases(c) \intersect aliases # {}

(***************************************************************************)
(* Collection roots                                                        *)
(***************************************************************************)
RECURSIVE Subtree(_, _)
Subtree(q, aliases) ==
  LET more == {t.alias : t \in {t \in JoinsOf(q) : JoinDependencies(t) \intersect aliases # {}}} \ aliases
  IN IF more = {} THEN aliases ELSE Subtree(q, aliases \union more)

\* A root with the aliases that depend on it, and those whose `id IS NULL` says that the
\* collection is empty: its own, and the target of its join table.
GetCollectionRoots(q) ==
  LET collections == {t.alias : t \in {t \in JoinsOf(q) : t.collection # NoCollection}}
      roots == SelectSeq(q.tables, LAMBDA t : IsJoin(t) /\ t.collection.root = t.alias
                                                /\ t.collection.parent \notin collections)
      root(t) == LET aliases == Subtree(q, {t.alias})
                 IN [table |-> t, aliases |-> aliases,
                     empty |-> {u.alias : u \in {u \in JoinsOf(q) : /\ u.alias \in aliases
                                                                    /\ u.collection.root = t.alias}}]
  IN [i \in DOMAIN roots |-> root(roots[i])]

IsAntiJoin(c, root) ==
  c.kind = "column" /\ c.alias \in root.empty /\ c.column = "id" /\ c.cond = IsNull
RECURSIVE ContainsAntiJoin(_, _)
ContainsAntiJoin(c, root) ==
  \/ IsAntiJoin(c, root)
  \/ c.kind = "exp" /\ \E d \in ToSet(c.conditions) : ContainsAntiJoin(d, root)

\* SELECT and ORDER BY need their aliases and all that these are joined through.
RECURSIVE Through(_, _)
Through(q, aliases) ==
  LET more == UNION {JoinDependencies(t) : t \in {t \in JoinsOf(q) : t.alias \in aliases}} \ aliases
  IN IF more = {} THEN aliases ELSE Through(q, aliases \union more)
RequiredOutside(q) ==
  Through(q, {q.orderBys[i].alias : i \in DOMAIN q.orderBys})

RECURSIVE CrossScope(_, _), BlocksExists(_, _)
CrossScope(c, aliases) ==
  CASE c.kind = "none" \/ ~IsReal(c) -> FALSE
    [] c.kind = "exp" /\ c.op = "and" -> \E d \in ToSet(c.conditions) : CrossScope(d, aliases)
    [] OTHER -> AnyIn(c, aliases) /\ ~OnlyIn(c, aliases)
BlocksExists(c, aliases) ==
  CASE c.kind = "none" \/ ~IsReal(c) -> FALSE
    [] c.kind = "exp" /\ c.op = "and" -> \E d \in ToSet(c.conditions) : BlocksExists(d, aliases)
    [] OTHER -> AnyIn(c, aliases)

(***************************************************************************)
(* Rewriting into EXISTS                                                   *)
(***************************************************************************)
AddConditions(q, conditions) ==
  [q EXCEPT !.condition = IF @.kind = "none" THEN Exp("and", conditions)
                          ELSE [@ EXCEPT !.conditions = @ \o conditions]]

\* Takes the conditions of one subtree out of an AND; an OR moves whole or not at all.
RECURSIVE RemoveLocal(_, _)
RemoveLocal(c, aliases) ==
  IF c.op = "or"
  THEN IF OnlyIn(c, aliases) THEN [moved |-> <<c>>, rest |-> [c EXCEPT !.conditions = <<>>]]
       ELSE [moved |-> <<>>, rest |-> c]
  ELSE LET part(d) ==
             IF d.kind = "exp" /\ d.op = "and"
             THEN LET r == RemoveLocal(d, aliases)
                  IN [moved |-> r.moved, rest |-> IF r.rest.conditions = <<>> THEN <<>> ELSE <<r.rest>>]
             ELSE IF OnlyIn(d, aliases) THEN [moved |-> <<d>>, rest |-> <<>>]
             ELSE [moved |-> <<>>, rest |-> <<d>>]
           parts == [i \in DOMAIN c.conditions |-> part(c.conditions[i])]
       IN [moved |-> FlattenSeq([i \in DOMAIN parts |-> parts[i].moved]),
           rest |-> [c EXCEPT !.conditions = FlattenSeq([i \in DOMAIN parts |-> parts[i].rest])]]

RECURSIVE RemoveEmpty(_)
RemoveEmpty(c) ==
  IF c.kind # "exp" THEN c
  ELSE [c EXCEPT !.conditions =
          SelectSeq([i \in DOMAIN @ |-> RemoveEmpty(@[i])],
                    LAMBDA d : d.kind = "exp" => d.conditions # <<>>)]

RECURSIVE CreateExists(_, _, _), RewriteOr(_, _, _, _), RewriteSiblings(_, _, _, _),
          RewriteCollectionJoins(_)

\* None when the conditions must stay with a LEFT JOIN.
CreateExists(q, root, moved) ==
  LET antiJoin == Len(moved) = 1 /\ IsAntiJoin(moved[1], root)
      stays == \/ ~antiJoin /\ \A i \in DOMAIN moved : ~IsReal(moved[i])
               \/ ~antiJoin /\ \E i \in DOMAIN moved : ContainsAntiJoin(moved[i], root)
      outer == JoinDependencies(root.table)
      correlation == Raw({root.table.alias} \union outer, root.table.col1, "eq", <<root.table.col2>>, FALSE)
      inside(t) == IF antiJoin THEN t.alias = root.table.alias ELSE t.alias \in root.aliases
      from(t) == CASE t.alias = root.table.alias -> [alias |-> t.alias, table |-> t.table, join |-> "primary"]
                   [] t.join = "outer" -> [t EXCEPT !.distinct = FALSE]
                   [] OTHER -> t
      tables == SelectSeq(q.tables, inside)
      subquery == [tables |-> [i \in DOMAIN tables |-> from(tables[i])], orderBys |-> <<>>,
                   condition |-> Exp("and", <<correlation>> \o IF antiJoin THEN <<>> ELSE moved)]
  IN IF stays THEN None
     ELSE [kind |-> "exists", negate |-> antiJoin, outerAliases |-> outer,
           subquery |-> RewriteCollectionJoins(subquery)]

\* An OR of conditions each of one subtree, or of none, becomes an OR of EXISTS; `outside`
\* are the aliases the rest of the query's own conditions mention.
RewriteOr(q, c, roots, outside) ==
  LET match(d) == {i \in DOMAIN roots : OnlyIn(d, roots[i].aliases)}
      matched == {d \in DOMAIN c.conditions : match(c.conditions[d]) # {}}
      root(d) == roots[Min(match(c.conditions[d]))]
      used == UNION {root(d).aliases : d \in matched}
      exists(d) == CreateExists(q, root(d), <<c.conditions[d]>>)
      oneRoot == /\ matched = DOMAIN c.conditions
                 /\ Cardinality({root(d).table.alias : d \in matched}) < 2
                 /\ \A d \in matched : ~IsAntiJoin(c.conditions[d], root(d))
      keeps == \/ \E d \in DOMAIN c.conditions : ~IsReal(c.conditions[d])
               \/ \E d \in DOMAIN c.conditions \ matched, r \in ToSet(roots) :
                    AnyIn(c.conditions[d], r.aliases)
               \/ matched = {} \/ oneRoot
               \/ used \intersect (outside \union RequiredOutside(q)) # {}
               \/ \E d \in matched : exists(d) = None
  IN IF keeps THEN c
     ELSE [c EXCEPT !.conditions = [d \in DOMAIN @ |-> IF d \in matched THEN exists(d) ELSE @[d]]]

\* The siblings before a condition have already been rewritten.
RewriteSiblings(q, c, roots, outside) ==
  CASE c.kind # "exp" -> c
    [] c.op = "or" -> RewriteOr(q, c, roots, outside)
    [] OTHER ->
         LET step(done, i) ==
               LET others == UNION {RealAliases(done[j]) : j \in DOMAIN done \ {i}}
               IN [done EXCEPT ![i] = RewriteSiblings(q, @, roots, outside \union others)]
         IN [c EXCEPT !.conditions = FoldLeft(step, @, [i \in DOMAIN @ |-> i])]

RewriteCollectionJoins(q) ==
  LET roots == GetCollectionRoots(q)
      rewrite(r, root) ==
        IF \/ RequiredOutside(r) \intersect root.aliases # {}
           \/ CrossScope(r.condition, root.aliases)
           \/ r.condition.kind = "none"
        THEN r
        ELSE LET split == RemoveLocal(r.condition, root.aliases)
                 without == [r EXCEPT !.condition = split.rest]
                 exists == CreateExists(r, root, split.moved)
             IN CASE split.moved = <<>> -> r
                  [] exists = None -> AddConditions(without, split.moved)
                  [] OTHER ->
                       [AddConditions(without, <<exists>>)
                          EXCEPT !.tables = SelectSeq(@, LAMBDA t : t.alias \notin root.aliases)]
      start == IF q.condition.kind = "none" THEN q
               ELSE [q EXCEPT !.condition = RewriteSiblings(q, @, roots, {})]
      end == FoldLeft(rewrite, start, roots)
  IN [end EXCEPT !.condition = RemoveEmpty(@)]

(***************************************************************************)
(* Pruning                                                                 *)
(***************************************************************************)
MarksOwnScope(c) == ConditionAliases(c)

\* The aliases outside of it that a condition needs.
Marks(c) == IF c.kind = "exists" THEN c.outerAliases ELSE ConditionAliases(c)

\* Joins stay if SELECT, ORDER BY or a condition of the caller's needs them, or a join
\* that stays does.  Soft-delete conditions of the others go, at the top level.
PruneUnusedJoins(q) ==
  LET marked == UNION {Marks(c) : c \in RealLeaves(q.condition)}
      required == Through(q, {Primary(q)} \union marked
                               \union {q.orderBys[i].alias : i \in DOMAIN q.orderBys})
      stays(c) == ~(c.kind = "column" /\ c.pruneable /\ c.alias \notin required)
      condition == IF q.condition.kind = "exp" /\ q.condition.op = "and"
                   THEN [q.condition EXCEPT !.conditions = SelectSeq(@, stays)] ELSE q.condition
  IN [q EXCEPT !.tables = SelectSeq(@, LAMBDA t : t.alias \in required),
               !.condition = IF condition.kind = "exp" /\ condition.conditions = <<>> THEN None
                             ELSE condition]

Fanout(q) == {r \in ToSet(GetCollectionRoots(q)) : BlocksExists(q.condition, r.aliases)}

\* None is the error of several collections left as LEFT JOINs, whose rows would multiply.
CheckedAndPruned(q, throws) ==
  IF throws /\ Cardinality(Fanout(q)) > 1 THEN None ELSE PruneUnusedJoins(MaybeAddIdNotNulls(q))

OptimizeCollectionJoins(q, find) ==
  CheckedAndPruned(IF find.optimizeJoinsToExists THEN RewriteCollectionJoins(q) ELSE q,
                   find.optimizeJoinsToExists /\ ~find.allowMultipleLeftJoins)
=============================================================================
