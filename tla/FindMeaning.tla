----------------------------- MODULE FindMeaning -----------------------------
(***************************************************************************)
(* What em.find promises, without any query: the entities whose own        *)
(* relations, walked in memory, satisfy the filter and the conditions, in  *)
(* the order asked for.  A collection in a filter asks for a child that    *)
(* satisfies it, `id: null` in it for no child at all, what is undefined   *)
(* is not asked, and soft-deleted entities are not there unless included.  *)
(***************************************************************************)
EXTENDS QueryParser

Unbound == [n \in {} |-> NullRow]
Merge(e1, e2) == [n \in DOMAIN e1 \union DOMAIN e2 |-> IF n \in DOMAIN e2 THEN e2[n] ELSE e1[n]]
BothOf(envs1, envs2) == {Merge(pair[1], pair[2]) : pair \in envs1 \X envs2}

There(find, table, rows) ==
  {r \in rows : find.softDeletes = "include" \/ table \notin SoftDeletable \/ r.deletedAt = Null}

\* The entities a relation leads to; a reference also leads to a soft-deleted one.
Related(find, db, row, field) ==
  CASE field.kind = "m2o" -> {r \in db[field.other] : r.id = row[field.column]}
    [] field.kind = "o2o" -> {r \in db[field.other] : r[field.column] = row.id}
    [] field.kind = "o2m" -> There(find, field.other, {r \in db[field.other] : r[field.column] = row.id})
    [] field.kind = "m2m" ->
         There(find, field.other,
               {r \in db[field.other] : \E j \in db[field.joinTable] :
                                          j[field.column] = row.id /\ j[field.otherColumn] = r.id})

\* All that the ops of a scope ask, in whatever order they were chained.
Fragments(ops) ==
  LET refs(o) == {x.name : x \in {x \in ToSet(o) : x.op = "ref"}}
      more(names) == names \union UNION {refs(NamedScopes[n]) : n \in names}
      names == FoldLeft(LAMBDA acc, n : more(acc), refs(ops), SetToSeq(DOMAIN NamedScopes))
      all == ToSet(ops) \union UNION {ToSet(NamedScopes[n]) : n \in names}
  IN {x.fragment : x \in {x \in all : x.op = "fragment"}}

\* Does the filter ask for anything?
RECURSIVE Asks(_)
Asks(f) ==
  CASE f.form \in {"undefined", "alias"} -> FALSE
    [] f.form = "fields" -> \E g \in ToSet(f.fields) :
         IF g[1] \in {"and", "or"} THEN \E h \in ToSet(g[2]) : Asks(h) ELSE Asks(g[2])
    [] f.form = "ops" -> ParseValueFilter(f) # <<>>
    [] f.form \in {"id", "ne"} -> f.of.form # "undefined"
    [] f.form = "scope" -> \E s \in Fragments(f.ops) : Asks(s.where) \/ s.conditions # None
    [] OTHER -> TRUE

\* `{ id: null }` alone, or null: of a collection, that it is empty.
IsNoneOf(f) ==
  \/ f.form = "null"
  \/ f.form = "fields" /\ Len(f.fields) = 1 /\ f.fields[1][1] = "id" /\ f.fields[1][2].form = "null"

IdHolds(id, f) ==
  LET p == ParseEntityFilter(f) IN p.kind = "none" \/ Compare(id, p) = TRUE3
ValueHolds(v, f) ==
  \A p \in ToSet(ParseValueFilter(f)) :
    IF p.kind = "in" /\ Null \in p.value THEN v \in p.value ELSE Compare(v, p) = TRUE3

\* A condition of entities that are not there is false, `id IS NULL` excepted.
RECURSIVE ConditionHolds(_, _)
ConditionHolds(c, env) ==
  CASE c.kind = "exp" /\ c.op = "and" -> \A d \in ToSet(c.conditions) : ConditionHolds(d, env)
    [] c.kind = "exp" /\ c.op = "or" -> \E d \in ToSet(c.conditions) : ConditionHolds(d, env)
    [] c.kind = "column" -> /\ Holds(c, env, <<>>) = TRUE3
                            /\ c.cond = IsNull /\ c.column # "id" => env[c.alias] # NullRow
    [] OTHER -> Holds(c, env, <<>>) = TRUE3

Allows(conditions, env) ==
  LET parsed == IF conditions = None THEN None
                ELSE ParseExpression(conditions, [n \in DOMAIN env |-> n])
  IN parsed = None \/ ConditionHolds(parsed, env)

\* The ways to satisfy a filter: which entity each of its aliases may stand for.
RECURSIVE Ways(_, _, _, _, _), FieldWays(_, _, _, _, _, _)
Ways(find, db, table, row, f) ==
  CASE f.form = "alias" -> {[n \in {f.as} |-> row]}
    [] f.form = "fields" ->
         FoldLeft(LAMBDA envs, g : IF envs = {} THEN {}
                                   ELSE BothOf(envs, FieldWays(find, db, table, row, g[1], g[2])),
                  {IF f.as = "" THEN Unbound ELSE [n \in {f.as} |-> row]}, f.fields)
    [] f.form = "scope" ->
         FoldLeft(LAMBDA envs, s :
                    BothOf(envs, {e \in Ways(find, db, table, row, s.where) :
                                    Allows(s.conditions, Merge([n \in {s.as} |-> row], e))}),
                  {Unbound}, SetToSeq(Fragments(f.ops)))
    [] OTHER -> IF IdHolds(row.id, f) THEN {Unbound} ELSE {}

FieldWays(find, db, table, row, key, f) ==
  LET field == Schema[table][key]
      holds(b) == IF b THEN {Unbound} ELSE {}
      related == Related(find, db, row, field)
      ways(rows) == UNION {Ways(find, db, field.other, r, f) : r \in rows}
  IN CASE key = "and" -> FoldLeft(LAMBDA envs, g : BothOf(envs, Ways(find, db, table, row, g)), {Unbound}, f)
       [] key = "or" -> LET asked == {g \in ToSet(f) : Asks(g)}
                        IN IF asked = {} THEN {Unbound}
                           ELSE UNION {Ways(find, db, table, row, g) : g \in asked}
       [] key = "id" -> holds(~Asks(f) \/ IdHolds(row.id, f))
       [] key \notin {"and", "or", "id"} ->
          CASE field.kind = "primitive" -> holds(ValueHolds(row[key], f))
            [] field.kind = "poly" ->
                 holds(LET tables == {c.other : c \in field.components}
                           at(t) == row[(CHOOSE c \in field.components : c.other = t).column]
                           p == ParseEntityFilter(f)
                       IN CASE p.kind = "none" -> TRUE
                            [] p.kind = "is-null" -> \A t \in tables : at(t) = Null
                            [] p.kind = "not-null" -> \E t \in tables : at(t) # Null
                            [] p.kind = "in" -> \E t \in DOMAIN f.tables : at(t) \in f.tables[t]
                            [] OTHER -> Compare(at(f.table), p) = TRUE3)
            [] IsNoneOf(f) /\ field.kind = "m2o" -> holds(row[field.column] = Null)
            [] IsNoneOf(f) -> holds(related = {})
            [] ~Asks(f) -> ways(IF related = {} THEN {NullRow} ELSE related)
            [] f.form \notin {"alias", "fields", "scope"} /\ field.kind = "m2o" ->
                 holds(IdHolds(row[field.column], f))
            [] OTHER -> ways(related)

Matches(find, db, row) ==
  \E env \in Ways(find, db, find.table, row, find.where) : Allows(find.conditions, env)

\* The value an order's path leads to.
RECURSIVE PathValue(_, _, _, _)
PathValue(db, table, row, path) ==
  IF Len(path) = 1 THEN row[path[1]]
  ELSE LET field == Schema[table][path[1]]
           next == {r \in db[field.other] : r.id = row[field.column]}
       IN IF next = {} THEN Null ELSE PathValue(db, field.other, CHOOSE r \in next : TRUE, Tail(path))

\* What the find of a database in which `gone` have been deleted returns, in its order.
Wanted(find, db, gone) ==
  LET rows == {r \in There(find, find.table, db[find.table]) : r.id \notin gone /\ Matches(find, db, r)}
      key(r) == [i \in 1..(Len(find.orderBy) + 1) |->
                   IF i > Len(find.orderBy) THEN r.id ELSE PathValue(db, find.table, r, find.orderBy[i])]
      sorted == SetToSortSeq({[id |-> r.id, key |-> key(r)] : r \in rows},
                             LAMBDA x, y : Before(x.key, y.key))
  IN [i \in DOMAIN sorted |-> sorted[i].id]
=============================================================================
