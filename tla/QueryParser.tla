----------------------------- MODULE QueryParser -----------------------------
(***************************************************************************)
(* parseFindQuery (QueryParser.ts): from an em.find filter, its conditions *)
(* and its order to the logical query of joins and conditions, before any  *)
(* optimisation.                                                           *)
(*                                                                         *)
(* A filter is what the caller writes, tagged with its form: "undefined",  *)
(* "alias", "null", "value", "bool", "values", "new" (an entity without an *)
(* id), "ne", "id", "ops" (one or more operators on a column), "fields"    *)
(* (the nested literal, with its `as`) or "scope".  Entities are their     *)
(* table, and a table's columns are named as its fields.  The parse state  *)
(* holds the tables, the alias counters, the bindings of the caller's      *)
(* aliases and the ConditionBuilder being filled.                          *)
(***************************************************************************)
EXTENDS Scopes

CONSTANTS
  Schema,         \* [table -> [field -> its kind, columns and other side]]
  JoinTables,     \* the tables of many-to-many relations
  SoftDeletable   \* the tables with a deleted_at column

Eq(v) == [kind |-> "eq", value |-> v]
In(s) == [kind |-> "in", value |-> s]
IsNull == [kind |-> "is-null"]
NotNull == [kind |-> "not-null"]
Join(sub) == [kind |-> "join", subFilter |-> sub]

\* An operator's filter is dropped for undefined, and for false unless it compares.
ParseOp(o) ==
  CASE o.value.form = "undefined" \/ (o.value.form = "bool" /\ ~o.value.value /\ o.op \notin {"eq", "ne"}) -> None
    [] o.value.form = "null" -> IF o.op = "eq" THEN IsNull ELSE NotNull
    [] OTHER -> [kind |-> o.op, value |-> o.value.value]

ParseValueFilter(f) ==
  CASE f.form = "null" -> <<IsNull>>
    [] f.form = "undefined" -> <<>>
    [] f.form = "values" -> <<In(f.values)>>
    [] f.form = "value" -> <<Eq(f.value)>>
    [] f.form = "ops" ->
         IF {o.op : o \in ToSet(f.ops)} = {"gte", "lte"} /\ Len(f.ops) = 2
         THEN LET at(op) == (CHOOSE o \in ToSet(f.ops) : o.op = op).value.value
              IN <<[kind |-> "between", value |-> <<at("gte"), at("lte")>>]>>
         ELSE SelectSeq([i \in DOMAIN f.ops |-> ParseOp(f.ops[i])], LAMBDA p : p.kind # "none")

ParseEntityFilter(f) ==
  CASE f.form \in {"undefined", "alias"} -> None
    [] f.form = "scope" -> Join(<<>>)
    [] f.form = "null" -> IsNull
    [] f.form = "value" -> Eq(f.value)
    [] f.form = "bool" -> IF f.value THEN NotNull ELSE IsNull
    [] f.form = "values" -> In(f.values)
    [] f.form = "new" -> Eq(NilId)
    [] f.form = "ne" ->
         CASE f.of.form = "undefined" -> None
           [] f.of.form = "null" -> NotNull
           [] f.of.form = "new" -> [kind |-> "ne", value |-> NilId]
           [] OTHER -> [kind |-> "ne", value |-> f.of.value]
    [] f.form = "id" ->
         CASE f.of.form = "undefined" -> None
           [] f.of.form = "new" -> Eq(NilId)
           [] OTHER -> ParseValueFilter(f.of)[1]
    [] f.form = "fields" -> Join(f.fields)

(***************************************************************************)
(* ConditionBuilder                                                        *)
(***************************************************************************)
AddCondition(p, c) == [p EXCEPT !.conditions = Append(@, c)]
AddParsedExpression(p, e) == [p EXCEPT !.expressions = Append(@, e)]

\* `in: [x, null]` becomes `col IS NULL OR col IN (x)`.
AddValueFilter(p, alias, column, f) ==
  LET leaf(cond) == Leaf(alias, column, cond, FALSE)
  IN IF f.kind = "in" /\ Null \in f.value
     THEN AddParsedExpression(p, Exp("or", <<leaf(IsNull), leaf(In(f.value \ {Null}))>>))
     ELSE AddCondition(p, leaf(f))

ToExpressionFilter(p) ==
  LET one == IF Len(p.expressions) = 1 THEN p.expressions[1] ELSE None
  IN CASE p.conditions = <<>> /\ one # None -> one
       [] one # None /\ one.op = "and" -> Exp("and", p.conditions \o one.conditions)
       [] p.conditions \o p.expressions # <<>> -> Exp("and", p.conditions \o p.expressions)
       [] OTHER -> None

\* parseExpression, with the caller's aliases replaced by those they are bound to; a
\* skipped condition is undefined or a comparison with undefined.
RECURSIVE ParseExpression(_, _)
ParseExpression(e, bound) ==
  LET at(c) == [c EXCEPT !.alias = bound[@]]
      parsed == [i \in DOMAIN e.conditions |->
                   LET c == e.conditions[i]
                   IN CASE c.kind = "exp" -> ParseExpression(c, bound)
                        [] c.kind = "column" -> at(c)
                        [] c.kind = "raw" ->
                             [c EXCEPT !.aliases = {bound[a] : a \in @}, !.col = at(@),
                                       !.args = [j \in DOMAIN @ |-> at(@[j])]]
                        [] OTHER -> None]
      valid == SelectSeq(parsed, LAMBDA c : c # None)
  IN IF valid = <<>> \/ (e.prune = "any" /\ Len(valid) < Len(parsed)) THEN None
     ELSE Exp(e.op, valid)

MaybeAddExpression(p, e) ==
  LET parsed == IF e = None THEN None ELSE ParseExpression(e, p.bound)
  IN IF parsed = None THEN p ELSE AddParsedExpression(p, parsed)

(***************************************************************************)
(* Tables and filters                                                      *)
(***************************************************************************)
NewAlias(p, table) == <<table, p.counts[table]>>
Push(p, t) ==
  [p EXCEPT !.tables = Append(@, t), !.counts[t.table] = @ + 1]
NoCollection == [root |-> <<>>, parent |-> <<>>]
JoinTable(alias, join, col1, col2, collection) ==
  [alias |-> alias, table |-> alias[1], join |-> join, col1 |-> col1, col2 |-> col2,
   collection |-> collection, distinct |-> TRUE]

FilterSoftDeletes(p, table) == p.softDeletes = "exclude" /\ table \in SoftDeletable

\* Only the primary table and collections filter soft-deletes: references do not.
AddSoftDeleteCondition(p, table, alias) ==
  IF FilterSoftDeletes(p, table)
  THEN AddCondition(p, Leaf(alias, "deletedAt", IsNull, TRUE)) ELSE p

BindAlias(p, filter, alias) ==
  IF filter.form \in {"alias", "fields"} /\ filter.as # "" THEN [p EXCEPT !.bound = Bind(@, filter.as, alias)]
  ELSE p

Empty(p) == [p EXCEPT !.conditions = <<>>, !.expressions = <<>>]

RECURSIVE AddTable(_, _, _, _, _), AddFilterAt(_, _, _, _, _), AddSubFilter(_, _, _, _, _, _)

AddTable(p, t, filter, isCollection, table) ==
  IF ParseEntityFilter(filter).kind = "none" /\ filter.form # "alias" THEN p
  ELSE LET joined == Push(p, t)
           live == IF isCollection THEN AddSoftDeleteCondition(joined, table, t.alias) ELSE joined
       IN AddFilterAt(BindAlias(live, filter, t.alias), table, t.alias, filter, t.join)

AddScopeFilterAt(p, table, alias, scope, parentJoin) ==
  FoldLeft(LAMBDA q, fragment :
             LET named == [q EXCEPT !.bound = Bind(@, fragment.as, alias)]
                 joined == AddFilterAt(named, table, alias, fragment.where, parentJoin)
             IN MaybeAddExpression(joined, fragment.conditions),
           p, ResolveScope(scope).fragments)

AddFilterAt(p, table, alias, filter, parentJoin) ==
  LET ef == ParseEntityFilter(filter)
  IN CASE filter.form = "scope" -> AddScopeFilterAt(p, table, alias, filter, parentJoin)
       [] ef.kind = "join" ->
            FoldLeft(LAMBDA q, f : AddSubFilter(q, table, alias, f[1], f[2], parentJoin),
                     p, ef.subFilter)
       [] ef.kind = "none" -> p
       [] OTHER -> AddValueFilter(p, alias, "id", ef)

\* Every branch of an `and` or `or` key has a ConditionBuilder of its own.
AddLogicalFilter(p, table, alias, op, filters, parentJoin) ==
  LET branch(q, f) == AddFilterAt(Empty(q), table, alias, f, parentJoin)
      end == FoldLeft(LAMBDA acc, f :
                        LET q == branch(acc.p, f)
                            c == ToExpressionFilter(q)
                        IN [p |-> q, found |-> IF c = None THEN acc.found ELSE Append(acc.found, c)],
                      [p |-> p, found |-> <<>>], filters)
      merged == [end.p EXCEPT !.conditions = p.conditions, !.expressions = p.expressions]
  IN IF end.found = <<>> THEN merged ELSE AddParsedExpression(merged, Exp(op, end.found))

AddReference(p, alias, field, sub, parentJoin) ==
  LET f == ParseEntityFilter(sub)
      a == NewAlias(p, field.other)
      kind == IF field.required /\ parentJoin # "outer" THEN "inner" ELSE "outer"
  IN CASE sub.form = "alias" \/ f.kind = "join" ->
            AddTable(p, JoinTable(a, kind, Col(alias, field.column), Col(a, "id"), NoCollection),
                     sub, FALSE, field.other)
       [] f.kind = "none" -> p
       [] OTHER -> AddValueFilter(p, alias, field.column, f)

\* The ids of a polymorphic reference carry the table they belong to.
AddPolyReference(p, alias, field, sub) ==
  LET f == ParseEntityFilter(sub)
      columns == {c.column : c \in field.components}
      column(table) == (CHOOSE c \in field.components : c.other = table).column
      all(cond) == SetToSeq({Leaf(alias, c, cond, FALSE) : c \in columns})
  IN CASE f.kind \in {"eq", "ne"} ->
            IF f.value = NilId THEN p ELSE AddValueFilter(p, alias, column(sub.table), f)
       [] f.kind = "is-null" -> [p EXCEPT !.conditions = @ \o all(f)]
       [] f.kind = "not-null" -> AddParsedExpression(p, Exp("or", all(NotNull)))
       [] f.kind = "in" ->
            LET tables == {t \in DOMAIN sub.tables : sub.tables[t] # {}}
            IN IF tables = {} THEN AddValueFilter(p, alias, SetToSeq(columns)[1], In({}))
               ELSE AddParsedExpression(p, Exp("or",
                      SetToSeq({Leaf(alias, column(t), In(sub.tables[t]), FALSE) : t \in tables})))
       [] OTHER -> p

AddCollection(p, alias, field, sub) ==
  LET a == NewAlias(p, field.other)
  IN AddTable(p, JoinTable(a, "outer", Col(alias, "id"), Col(a, field.column),
                           [root |-> a, parent |-> alias]), sub, TRUE, field.other)

\* The join table is always joined, and its target only when more than its id matters.
AddManyToMany(p, alias, field, sub) ==
  LET f == ParseEntityFilter(sub)
      ja == NewAlias(p, field.joinTable)
      a == NewAlias(p, field.other)
      p1 == Push(p, JoinTable(ja, "outer", Col(alias, "id"), Col(ja, field.column),
                              [root |-> ja, parent |-> alias]))
  IN CASE f.kind = "none" /\ sub.form # "alias" -> p
       [] sub.form = "alias" \/ f.kind = "join" \/ FilterSoftDeletes(p, field.other) ->
            AddTable(p1, JoinTable(a, "outer", Col(ja, field.otherColumn), Col(a, "id"),
                                   [root |-> ja, parent |-> ja]), sub, TRUE, field.other)
       [] OTHER -> AddCondition(p1, Leaf(ja, field.otherColumn, f, FALSE))

AddSubFilter(p, table, alias, key, sub, parentJoin) ==
  IF key \in {"and", "or"} THEN AddLogicalFilter(p, table, alias, key, sub, parentJoin)
  ELSE LET field == Schema[table][key]
       IN CASE field.kind = "primitive" ->
                 FoldLeft(LAMBDA q, f : AddValueFilter(q, alias, key, f), p, ParseValueFilter(sub))
            [] field.kind = "m2o" -> AddReference(p, alias, field, sub, parentJoin)
            [] field.kind = "poly" -> AddPolyReference(p, alias, field, sub)
            [] field.kind = "o2o" ->
                 LET a == NewAlias(p, field.other)
                 IN AddTable(p, JoinTable(a, "outer", Col(alias, "id"), Col(a, field.column),
                                          NoCollection), sub, FALSE, field.other)
            [] field.kind = "o2m" -> AddCollection(p, alias, field, sub)
            [] field.kind = "m2m" -> AddManyToMany(p, alias, field, sub)

(***************************************************************************)
(* Orders, and the query                                                   *)
(***************************************************************************)
\* A path of references ending in a column; the first table of the right entity that is
\* already in the query is used, whatever it was joined for.
RECURSIVE AddOrderBy(_, _, _, _)
AddOrderBy(p, table, alias, path) ==
  IF Len(path) = 1 THEN [p EXCEPT !.orderBys = Append(@, Col(alias, path[1]))]
  ELSE LET field == Schema[table][path[1]]
           same == SelectSeq(p.tables, LAMBDA t : t.table = field.other)
           a == NewAlias(p, field.other)
           join == [JoinTable(a, "outer", Col(alias, field.column), Col(a, "id"), NoCollection)
                      EXCEPT !.distinct = FALSE]
       IN IF same # <<>> THEN AddOrderBy(p, field.other, same[1].alias, Tail(path))
          ELSE AddOrderBy(Push(p, join), field.other, a, Tail(path))

RECURSIVE MapLeaves(_, _)
\* `col IS NULL` on an outer join also matches a row that is not there, unless id is
\* asked for; EXISTS subqueries are visited with the tables of the outer query.
MapLeaves(c, outer) ==
  CASE c.kind = "exp" -> [c EXCEPT !.conditions = [i \in DOMAIN @ |-> MapLeaves(@[i], outer)]]
    [] c.kind = "exists" -> [c EXCEPT !.subquery.condition = MapLeaves(@, outer)]
    [] c.kind = "column" /\ c.cond.kind = "is-null" /\ c.column # "id" /\ ~c.pruneable /\ c.alias \in outer ->
         Exp("and", <<c, Leaf(c.alias, "id", NotNull, FALSE)>>)
    [] OTHER -> c

OuterAliases(q) == {t.alias : t \in {t \in ToSet(q.tables) : t.join = "outer"}}
MaybeAddIdNotNulls(q) == [q EXCEPT !.condition = MapLeaves(@, OuterAliases(q))]

MaybeAddOrderBy(orderBys, alias) ==
  IF Col(alias, "id") \in ToSet(orderBys) THEN orderBys ELSE Append(orderBys, Col(alias, "id"))

ParseFindQuery(find) ==
  LET primary == <<find.table, 0>>
      p0 == [tables |-> <<>>, orderBys |-> <<>>, conditions |-> <<>>, expressions |-> <<>>,
             counts |-> [t \in DOMAIN Schema \union JoinTables |-> 0],
             bound |-> [n \in {} |-> primary], softDeletes |-> find.softDeletes]
      p1 == AddSoftDeleteCondition(Push(p0, [alias |-> primary, table |-> find.table, join |-> "primary"]),
                                   find.table, primary)
      p2 == AddFilterAt(BindAlias(p1, find.where, primary), find.table, primary, find.where, "primary")
      p3 == MaybeAddExpression(p2, find.conditions)
      where == ToExpressionFilter(p3)
      named == MaybeAddIdNotNulls([tables |-> p3.tables, condition |-> where])
      p4 == FoldLeft(LAMBDA q, path : AddOrderBy(q, find.table, primary, path), p3, find.orderBy)
  IN [tables |-> p4.tables, condition |-> named.condition,
      orderBys |-> MaybeAddOrderBy(p4.orderBys, primary)]
=============================================================================
