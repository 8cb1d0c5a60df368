--------------------------- MODULE ParsedQueries ---------------------------
(***************************************************************************)
(* The query AST of QueryParser.ts, and the rows the SQL it is rendered to *)
(* selects (drivers/buildRawQuery.ts, drivers/buildUtils.ts).              *)
(*                                                                         *)
(* Values are integers, an `in` list is a set of them and a `between` a    *)
(* pair; an alias is a table with a number, as the parser hands them out.  *)
(* A row is a record of columns; the environment of a WHERE maps every     *)
(* alias of the FROM to its row.                                           *)
(***************************************************************************)
EXTENDS Integers, Sequences, FiniteSets, SequencesExt

Null == 0
NilId == -1
NullRow == [id |-> Null]

None == [kind |-> "none"]
Exp(op, conditions) == [kind |-> "exp", op |-> op, conditions |-> conditions]
Leaf(alias, column, cond, pruneable) ==
  [kind |-> "column", alias |-> alias, column |-> column, cond |-> cond, pruneable |-> pruneable]
\* `col op args`: a condition between columns, such as the correlation of an EXISTS.
Raw(aliases, col, op, args, pruneable) ==
  [kind |-> "raw", aliases |-> aliases, col |-> col, op |-> op, args |-> args,
   pruneable |-> pruneable]
Col(alias, column) == [alias |-> alias, column |-> column]

IsJoin(t) == t.join \in {"inner", "outer"}
Table(q, alias) == {t \in ToSet(q.tables) : t.alias = alias}
Primary(q) == (CHOOSE t \in ToSet(q.tables) : t.join = "primary").alias

\* SQL's three truth values, ordered so that AND is the least and OR the greatest.
FALSE3 == 0
UNKNOWN3 == 1
TRUE3 == 2
Truth3(b) == IF b THEN TRUE3 ELSE FALSE3

Compare(v, cond) ==
  CASE cond.kind = "is-null" -> Truth3(v = Null)
    [] cond.kind = "not-null" -> Truth3(v # Null)
    [] OTHER ->
         IF v = Null THEN UNKNOWN3
         ELSE CASE cond.kind = "eq" -> IF cond.value = Null THEN UNKNOWN3 ELSE Truth3(v = cond.value)
                [] cond.kind = "ne" -> IF cond.value = Null THEN UNKNOWN3 ELSE Truth3(v # cond.value)
                [] cond.kind = "in" -> Truth3(v \in cond.value)
                [] cond.kind = "nin" -> Truth3(v \notin cond.value)
                [] cond.kind = "between" -> Truth3(cond.value[1] <= v /\ v <= cond.value[2])

Value(env, c) ==
  IF c.column \in DOMAIN env[c.alias] THEN env[c.alias][c.column] ELSE Null

\* An expression without any condition below it renders to nothing.
RECURSIVE Renders(_)
Renders(c) == c.kind = "exp" => \E i \in DOMAIN c.conditions : Renders(c.conditions[i])

\* buildWhereClause of a condition, as the database evaluates it; Rows is the FROM and
\* WHERE of a query inside an outer environment.
RECURSIVE Holds(_, _, _), Rows(_, _, _)
Holds(c, env, db) ==
  CASE c.kind = "column" -> Compare(Value(env, c), c.cond)
    [] c.kind = "raw" ->
         LET value == IF c.op = "between" THEN <<Value(env, c.args[1]), Value(env, c.args[2])>>
                      ELSE Value(env, c.args[1])
         IN Compare(Value(env, c.col), [kind |-> c.op, value |-> value])
    [] c.kind = "exists" -> Truth3((Rows(c.subquery, env, db) # {}) # c.negate)
    [] c.kind = "exp" ->
         LET parts == {Holds(d, env, db) : d \in {x \in ToSet(c.conditions) : Renders(x)}}
         IN IF c.op = "and" THEN Min(parts) ELSE Max(parts)

Bind(env, alias, row) ==
  [a \in DOMAIN env \union {alias} |-> IF a = alias THEN row ELSE env[a]]

JoinTo(envs, t, db) ==
  UNION {LET on == {r \in db[t.table] :
                      IsJoin(t) =>
                        LET e == Bind(env, t.alias, r)
                        IN Compare(Value(e, t.col1), [kind |-> "eq", value |-> Value(e, t.col2)]) = TRUE3}
         IN {Bind(env, t.alias, r) :
               r \in IF t.join = "outer" /\ on = {} THEN {NullRow} ELSE on}
         : env \in envs}

PrimaryFirst(tables) ==
  SelectSeq(tables, LAMBDA t : t.join = "primary") \o SelectSeq(tables, LAMBDA t : t.join # "primary")

Rows(q, outer, db) ==
  {env \in FoldLeft(LAMBDA envs, t : JoinTo(envs, t, db), {outer}, PrimaryFirst(q.tables)) :
     q.condition.kind = "none" \/ ~Renders(q.condition) \/ Holds(q.condition, env, db) = TRUE3}

NoRow == [a \in {} |-> NullRow]

\* DISTINCT ON (the order by columns, the primary id) is added as soon as an outer join
\* may repeat the primary row.
NeedsDistinct(q) == \E t \in ToSet(q.tables) : t.join = "outer" /\ t.distinct

OrderKey(q, env) == [i \in DOMAIN q.orderBys |-> Value(env, q.orderBys[i])]

\* NULLs sort last, and id comes last in every ORDER BY.
Before(k1, k2) ==
  \E i \in DOMAIN k1 :
    /\ \A j \in 1..(i - 1) : k1[j] = k2[j]
    /\ k1[i] # k2[i] /\ k1[i] # Null
    /\ k2[i] = Null \/ k1[i] < k2[i]

\* The aliases a statement's conditions name, each of which must be in its FROM or in an
\* enclosing one.
RECURSIVE Named(_), OutOfScope(_, _)
Named(c) ==
  CASE c.kind = "column" -> {c.alias}
    [] c.kind = "raw" -> {c.col.alias} \union {c.args[i].alias : i \in DOMAIN c.args}
    [] c.kind = "exists" -> OutOfScope(c.subquery, {})
    [] c.kind = "exp" -> UNION {Named(d) : d \in ToSet(c.conditions)}
    [] OTHER -> {}
OutOfScope(q, outer) ==
  LET joined == UNION {{t.col1.alias, t.col2.alias} : t \in {t \in ToSet(q.tables) : IsJoin(t)}}
      aliases == {t.alias : t \in ToSet(q.tables)}
  IN (Named(q.condition) \union joined \union {q.orderBys[i].alias : i \in DOMAIN q.orderBys})
       \ (aliases \union outer)
=============================================================================
