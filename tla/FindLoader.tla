------------------------------ MODULE FindLoader ------------------------------
(***************************************************************************)
(* em.find (EntityManager.ts, dataloaders/findDataLoader.ts): the callers  *)
(* of one entity manager each parse and optimise their query at once, and  *)
(* queries of the same structure wait for the end of the tick in one       *)
(* DataLoader, which runs them as a single statement.  The statement is    *)
(* sent, the database answers later, and meanwhile the program goes on:    *)
(* it deletes entities, flushes (which drops every loader) and finds more. *)
(***************************************************************************)
EXTENDS CollectionJoins, FindMeaning

CONSTANTS
  Callers,       \* calls of em.find, each made once
  Finds,         \* a sequence of what they may ask: table, where, conditions, orderBy and options
  Databases,     \* the databases to start from, [table -> rows]
  Changes(_),    \* what another manager may make of a database
  EntityLimit,   \* the LIMIT of every find, reaching which is an error
  Deletable,     \* <<table, id>> of the entities em.delete may be called with
  DeletesFound,  \* TRUE: also of entities the current loaders have answered with
  MaxChanges,    \* bound on the changes of other managers
  MaxFlushes     \* bound on the flushes

VARIABLES
  dbs,       \* the database, after every change from the start
  flushed,   \* where in dbs the last flush was
  flushes,
  deleted,   \* em.delete-d entities, <<table, id>>
  entries,   \* the loaders' entries, in the order they were made
  calls      \* [caller -> which of Finds it asks, and the entry whose promise it holds]

vars == <<dbs, flushed, flushes, deleted, entries, calls>>

Db == Last(dbs)

(***************************************************************************)
(* Preparing a find                                                        *)
(***************************************************************************)
\* The query with its values left out, which callers of one batch share.
RECURSIVE Structure(_)
Structure(c) ==
  CASE c.kind = "exp" -> [c EXCEPT !.conditions = [i \in DOMAIN @ |-> Structure(@[i])]]
    [] c.kind = "exists" -> [c EXCEPT !.subquery.condition = Structure(@)]
    [] c.kind = "column" /\ "value" \in DOMAIN c.cond -> [c EXCEPT !.cond.value = "*"]
    [] OTHER -> c
BatchKey(q) == [q EXCEPT !.condition = Structure(@)]

\* The values of a query, in the order its conditions are visited.
RECURSIVE Bindings(_)
Bindings(c) ==
  CASE c.kind = "exp" -> FlattenSeq([i \in DOMAIN c.conditions |-> Bindings(c.conditions[i])])
    [] c.kind = "exists" -> Bindings(c.subquery.condition)
    [] c.kind = "column" /\ "value" \in DOMAIN c.cond ->
         IF c.cond.kind = "between" THEN c.cond.value ELSE <<c.cond.value>>
    [] OTHER -> <<>>

(***************************************************************************)
(* The batched statement                                                   *)
(***************************************************************************)
FindArgs == <<"_find", 0>>
Tag == 0

\* A condition whose value differs between the batch's queries reads it from the _find
\* table; the others keep the value they have in the first query.
RECURSIVE ReplaceArgs(_, _, _)
ReplaceArgs(c, start, varying) ==
  CASE c.kind = "exp" ->
         LET before(i) == Len(Bindings([c EXCEPT !.conditions = SubSeq(@, 1, i - 1)]))
         IN [c EXCEPT !.conditions = [i \in DOMAIN @ |-> ReplaceArgs(@[i], start + before(i), varying)]]
    [] c.kind = "exists" -> [c EXCEPT !.subquery.condition = ReplaceArgs(@, start, varying)]
    [] OTHER ->
         LET used == {start + i : i \in DOMAIN Bindings(c)}
         IN IF used \intersect varying = {} THEN c
            ELSE Raw({c.alias}, Col(c.alias, c.column), c.cond.kind,
                     [i \in 1..Cardinality(used) |-> Col(FindArgs, start + i)], c.pruneable)

VaryingButFirst(batch) ==
  {j \in 2..Len(batch[1].bindings) : \E e \in ToSet(batch) : e.bindings[j] # batch[1].bindings[j]}

Varying(batch) ==
  {j \in DOMAIN batch[1].bindings : \E e \in ToSet(batch) : e.bindings[j] # batch[1].bindings[j]}

\* One row of _find for each query: its tag and its values.
CteRows(batch) ==
  {[j \in 0..Len(batch[i].bindings) |-> IF j = Tag THEN i ELSE batch[i].bindings[j]] : i \in DOMAIN batch}

BatchedQuery(batch) ==
  LET q == batch[1].query
  IN [q EXCEPT !.tables = <<[alias |-> FindArgs, table |-> "_find", join |-> "cross"]>> \o @,
               !.condition = IF @.kind = "none" THEN @ ELSE ReplaceArgs(@, 0, Varying(batch))]

SortedBy(keys) == SetToSortSeq(keys, Before)

\* One query: a row per combination of joined rows, or per primary row and order.
SingleRows(q, now) ==
  LET primary == Primary(q)
      rows == Rows(q, NoRow, now)
      all == {[key |-> OrderKey(q, env), row |-> IF NeedsDistinct(q) THEN NoRow ELSE env] : env \in rows}
      sorted == SetToSortSeq(all, LAMBDA x, y : Before(x.key, y.key))
      id(x) == x.key[CHOOSE i \in DOMAIN x.key : q.orderBys[i] = Col(primary, "id")]
  IN [i \in DOMAIN sorted |-> [id |-> id(sorted[i]), tags |-> <<1>>]]

\* A batch: grouped by the primary row and the order, with the tags of all its joined rows.
BatchedRows(batch, now) ==
  LET q == BatchedQuery(batch)
      rows == Rows(q, NoRow, [t \in DOMAIN now \union {"_find"} |->
                                IF t = "_find" THEN CteRows(batch) ELSE now[t]])
      sorted == SortedBy({OrderKey(q, env) : env \in rows})
      id(key) == key[CHOOSE i \in DOMAIN key : q.orderBys[i] = Col(Primary(q), "id")]
      group(key) == SetToSeq({env \in rows : OrderKey(q, env) = key})
      tags(g) == [i \in DOMAIN g |-> g[i][FindArgs][Tag]]
  IN [i \in DOMAIN sorted |-> [id |-> id(sorted[i]), tags |-> tags(group(sorted[i]))]]

Selected(batch, now) ==
  IF Len(batch) = 1 THEN SingleRows(batch[1].query, now) ELSE BatchedRows(batch, now)

(***************************************************************************)
(* Steps                                                                   *)
(***************************************************************************)
Settings(find) == [find EXCEPT !.where = None]

Entry(q, settings) ==
  IF q = None THEN [query |-> None]
  ELSE [query |-> q, batch |-> BatchKey(q), settings |-> settings, bindings |-> Bindings(q.condition)]
Prepare(find) == Entry(OptimizeCollectionJoins(ParseFindQuery(find), find), Settings(find))

\* What each find is prepared to, as its caller makes it.
Prepared == [f \in DOMAIN Finds |-> Prepare(MergeFindOptions(Finds[f]))]

Idle == [find |-> 0, entry |-> 0, from |-> 1, gone |-> {}]

Gone(table) == {d[2] : d \in {d \in deleted : d[1] = table}}

Init ==
  /\ \E db \in Databases : dbs = <<db>>
  /\ flushed = 1 /\ flushes = 0 /\ deleted = {} /\ entries = <<>>
  /\ calls = [c \in Callers |-> Idle]

\* The error of several collections is thrown to the caller.
Refused == -1

\* The loader of the structure answers a query it already holds from its cache, unless
\* that failed.
Cached(key) ==
  {i \in DOMAIN entries :
     /\ entries[i].loader = flushes /\ entries[i].state # "failed"
     /\ entries[i].key = key}

Find(c, f) ==
  LET use(i) == calls' = [calls EXCEPT ![c] = [find |-> f, entry |-> i, from |-> flushed,
                                               gone |-> Gone(Finds[f].table)]]
  IN /\ calls[c] = Idle
     /\ \E key \in {Prepared[f]} :
          CASE key.query = None -> use(Refused) /\ UNCHANGED entries
            [] key.query # None /\ Cached(key) # {} -> use(Min(Cached(key))) /\ UNCHANGED entries
            [] OTHER ->
                 /\ use(Len(entries) + 1)
                 /\ entries' = Append(entries, [find |-> f, key |-> key, loader |-> flushes, state |-> "queued",
                                               statement |-> 0, tag |-> 0, rows |-> <<>>, answer |-> <<>>])
     /\ UNCHANGED <<dbs, flushed, flushes, deleted>>

\* The tick ends: all that is queued in the loader goes in one statement, which fails if a
\* condition names a table that is not joined.
Send(i) ==
  LET queued == {j \in DOMAIN entries : /\ entries[j].state = "queued"
                                        /\ entries[j].loader = entries[i].loader
                                        /\ entries[j].key.batch = entries[i].key.batch}
      order == SetToSortSeq(queued, <)
      batch == [k \in DOMAIN order |-> entries[order[k]].key]
      fails == OutOfScope(entries[i].key.query, {}) # {}
      rows == IF fails THEN <<>> ELSE Selected(batch, Db)
  IN /\ entries[i].state = "queued" /\ i = Min(queued)
     /\ entries' = [j \in DOMAIN entries |->
          IF j \notin queued THEN entries[j]
          ELSE [entries[j] EXCEPT !.state = IF fails THEN "failed" ELSE "sent", !.statement = i,
                                  !.rows = rows, !.tag = CHOOSE k \in DOMAIN order : order[k] = j]]
     /\ UNCHANGED <<dbs, flushed, flushes, deleted, calls>>

AnswerWithDeleted(e, gone) ==
  FlattenSeq([r \in DOMAIN e.rows |->
    LET mine == SelectSeq(e.rows[r].tags, LAMBDA t : t = e.tag)
    IN [k \in DOMAIN mine |-> e.rows[r].id]])

\* Every row goes to the queries whose tags it carries, but for entities deleted since.
Answer(e, gone) ==
  FlattenSeq([r \in DOMAIN e.rows |->
    IF e.rows[r].id \in gone THEN <<>>
    ELSE LET mine == SelectSeq(e.rows[r].tags, LAMBDA t : t = e.tag)
         IN [k \in DOMAIN mine |-> e.rows[r].id]])

Received(e, failed, gone) ==
  [e EXCEPT !.state = IF failed THEN "failed" ELSE "answered",
            !.answer = IF failed THEN @ ELSE Answer(e, gone), !.rows = <<>>]

Receive(i) ==
  LET batch == {j \in DOMAIN entries : entries[j].statement = i}
      failed == Len(entries[i].rows) >= EntityLimit
      gone == Gone(Finds[entries[i].find].table)
  IN /\ entries[i].state = "sent" /\ entries[i].statement = i
     /\ entries' = [j \in DOMAIN entries |->
          IF j \in batch THEN Received(entries[j], failed, gone) ELSE entries[j]]
     /\ UNCHANGED <<dbs, flushed, flushes, deleted, calls>>

Answered(e, d) == d[1] = Finds[e.find].table /\ d[2] \in ToSet(e.answer)

Delete(d) ==
  /\ d \notin deleted
  /\ DeletesFound \/ ~\E i \in DOMAIN entries : entries[i].loader = flushes /\ Answered(entries[i], d)
  /\ deleted' = deleted \union {d}
  /\ UNCHANGED <<dbs, flushed, flushes, entries, calls>>

\* The flush deletes the rows and forgets every loader; their statements go on.
Flush ==
  /\ flushes < MaxFlushes
  /\ dbs' = Append(dbs, [t \in DOMAIN Db |-> {r \in Db[t] : r.id \notin Gone(t)}])
  /\ flushes' = flushes + 1
  /\ flushed' = Len(dbs')
  /\ UNCHANGED <<deleted, entries, calls>>

ChangeRow ==
  /\ Len(dbs) - flushes <= MaxChanges
  /\ \E db \in Changes(Db) : dbs' = Append(dbs, db)
  /\ UNCHANGED <<flushed, flushes, deleted, entries, calls>>

Next ==
  \/ \E c \in Callers, f \in DOMAIN Finds : Find(c, f)
  \/ \E i \in DOMAIN entries : Send(i) \/ Receive(i)
  \/ \E d \in Deletable : Delete(d)
  \/ Flush
  \/ ChangeRow

Spec == Init /\ [][Next]_vars

(***************************************************************************)
(* Properties                                                              *)
(***************************************************************************)
\* What the steps rely on: entries and calls refer to what exists.
TypeOK ==
  /\ flushed \in DOMAIN dbs /\ flushes \in 0..MaxFlushes /\ deleted \subseteq Deletable
  /\ \A i \in DOMAIN entries :
       /\ entries[i].state \in {"queued", "sent", "answered", "failed"}
       /\ entries[i].statement \in 0..i /\ entries[i].loader \in 0..flushes
       /\ entries[i].state = "queued" <=> entries[i].statement = 0
       /\ entries[i].answer # <<>> => entries[i].state = "answered"
  /\ \A c \in Callers : calls[c].entry \in {Refused} \union 0..Len(entries)

AnswerOf(c) == entries[calls[c].entry].answer
HasAnswer(c) == calls[c].entry > 0 /\ entries[calls[c].entry].state = "answered"

\* A caller receives, whatever was rewritten, batched or cached for it, exactly the
\* entities that match its own filter, each once and in the order it asked for, in the
\* database of some moment since the flush before its call; only entities deleted
\* meanwhile may be missing.
FindsAreWanted ==
  TypeOK /\ \A c \in Callers : HasAnswer(c) =>
    \E k \in calls[c].from..Len(dbs), gone \in {calls[c].gone, Gone(Finds[calls[c].find].table)} :
      AnswerOf(c) = Wanted(MergeFindOptions(Finds[calls[c].find]), dbs[k], gone)

\* No caller is given an entity that had been deleted before it asked.
DeletedAreNotFound ==
  \A c \in Callers : HasAnswer(c) => ToSet(AnswerOf(c)) \intersect calls[c].gone = {}

\* A find fails only if its table has as many rows as the limit on entities: no statement
\* names a join that was pruned or moved away.
FailsOnlyAtLimit ==
  \A i \in DOMAIN entries : entries[i].state = "failed" =>
    \E k \in DOMAIN dbs : Cardinality(dbs[k][Finds[entries[i].find].table]) >= EntityLimit
=============================================================================
