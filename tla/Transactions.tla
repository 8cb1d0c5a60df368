---------------------------- MODULE Transactions ----------------------------
(***************************************************************************)
(* Entity managers that share a table: em.flush and em.transaction         *)
(* (EntityManager.ts), the transactions of the Postgres driver             *)
(* (PostgresDriver.ts), and the batch UPDATE and DELETE of a flush with     *)
(* the optimistic lock on updated_at (EntityWriter.ts).                    *)
(*                                                                         *)
(* Calls of one manager may overlap; they share its entities and em.txn.   *)
(* A statement locks its rows one by one and waits for those another       *)
(* transaction has written; what it waited for it reads as committed.      *)
(***************************************************************************)
EXTENDS Naturals, FiniteSets, FiniteSetsExt

CONSTANTS Manager, Row, Column, Value, Initially,
          Deletable,          \* rows the application may delete
          Call, ManagerOf,    \* calls of em.flush, each followed by others
          Lambdas,            \* those that may be calls of em.transaction
          DryRun,             \* managers that the application may set to in-memory-writes and back
          Stamped,            \* whether the table has updated_at
          Distinct,           \* whether every flush of the process takes a time no other has taken
          Reuses,             \* whether a manager goes on after its em.transaction was rolled back
          Catches,            \* whether the lambda of em.transaction may go on after a flush threw
          FailAt,             \* where a rule, the lambda, the driver or a hook may throw
          Absent, Gone, Untouched, None,
          MaxEdits, MaxCalls, MaxFlushes   \* bounds on edits, calls and flushes

ASSUME TransactionsAssumption ==
  /\ ManagerOf \in [Call -> Manager] /\ Lambdas \subseteq Call /\ DryRun \subseteq Manager /\ Initially \in Value
  /\ {Stamped, Distinct, Reuses, Catches} \subseteq BOOLEAN
  /\ {MaxEdits, MaxCalls, MaxFlushes} \subseteq Nat
  /\ Gone \notin Nat

VARIABLES rows,            \* what is committed
          work, open,      \* per client, what it wrote and did not commit; the clients in a transaction
          txn,             \* em.txn of each manager
          calls, mem,
          clock, lastNow,  \* the time, and getNow's last answer in the process of each manager
          edits, started, flushes,
          base             \* for the properties: the version an entity comes from

dbVars == <<rows, work, open>>
timeVars == <<clock, lastNow>>
vars == <<dbVars, txn, calls, mem, timeVars, edits, started, flushes, base>>

Client == Call \X {"transaction", "flush"}
Outer(c) == <<c, "transaction">>
Inner(c) == <<c, "flush">>

NoWork == [r \in Row |-> Untouched]
InFlush == {"flush", "connectFlush", "writing", "reset"}
RowState == [vals : [Column -> Value], stamp : Nat, version : Nat]
Entity == [deleted : BOOLEAN, vals : [Column -> Value], orig : [Column -> Value],
           stamp : Nat, original : Nat]
CallState == [pc : InFlush \cup {"idle", "connect", "inside", "commit", "rollback"},
              kind : {"none", "flush", "transaction"}, joined : BOOLEAN, last : BOOLEAN, dry : BOOLEAN,
              target : Client \cup {None}, todo : SUBSET Row, missed : BOOLEAN]

ASSUME SpecialAssumption ==
  /\ Gone # Untouched /\ {Gone, Untouched} \cap RowState = {}
  /\ Absent \notin Entity /\ None \notin Client

Idle == [pc |-> "idle", kind |-> "none", joined |-> FALSE, last |-> FALSE, dry |-> FALSE,
         target |-> None, todo |-> {}, missed |-> FALSE]

----------------------------------------------------------------------------
(* Entities and rows. *)

Hydrated(row) == [deleted |-> FALSE, vals |-> row.vals, orig |-> row.vals,
                  stamp |-> row.stamp, original |-> row.stamp]
Changed(e) == {k \in Column : e.vals[k] # e.orig[k]}
Loaded(m) == {r \in Row : mem[m][r] # Absent}
Updates(m) == {r \in Loaded(m) : ~mem[m][r].deleted /\ Changed(mem[m][r]) # {}}
Deletes(m) == {r \in Loaded(m) : mem[m][r].deleted}

\* What a client sees of a row, and what a manager does.
Latest(k, r) == IF work[k][r] = Untouched THEN rows[r] ELSE work[k][r]
View(m, r) == IF txn[m] = None THEN rows[r] ELSE Latest(txn[m], r)
Applied(k) == [r \in Row |-> Latest(k, r)]

\* The stamp a flush takes for an entity it will update, and the one its UPDATE looks for.
BumpUpdatedAt(e, now) == IF Stamped THEN [e EXCEPT !.original = e.stamp, !.stamp = now] ELSE e

Nows(m) ==
  LET times == IF Distinct THEN {clock + 1} ELSE {clock, clock + 1}
  IN {Max({t, lastNow[m] + 1}) : t \in times}

\* Slips: a flush that keeps the values it would compare with; a stamp that is not compared; a
\* nested flush that commits on its own; an end that keeps em.txn; a dry run that does not throw.
KeepsOriginals(e) == IF e # Absent /\ e.deleted THEN Absent ELSE e
MatchesAnything(m, r, row) == row # Gone
JoinsNothing(m) == FALSE
KeepsTxn(k, m) == txn
NeverRehearses(call) == FALSE

\* A flush saves these entities: what it wrote is what they were.
ResetAfterFlushed(e) ==
  CASE e = Absent -> Absent
    [] e # Absent /\ e.deleted -> Absent
    [] OTHER -> [e EXCEPT !.orig = e.vals, !.original = e.stamp]

\* The columns of the batch: what any of its entities changed.
ChangedFields(m) == UNION {Changed(mem[m][r]) : r \in Updates(m)}
Matches(m, r, row) == row # Gone /\ (Stamped => row.stamp = mem[m][r].original)
\* The new row, with the stamp that the trigger gives it when it has not changed.
Updated(m, r, row) ==
  [vals |-> [k \in Column |-> IF k \in ChangedFields(m) THEN mem[m][r].vals[k] ELSE row.vals[k]],
   stamp |-> CASE ~Stamped -> row.stamp
               [] Stamped /\ mem[m][r].stamp = row.stamp -> clock
               [] OTHER -> mem[m][r].stamp,
   version |-> rows[r].version + 1]

----------------------------------------------------------------------------
(* The application. *)

IsFlushing(m) == \E c \in Call : ManagerOf[c] = m /\ calls[c].pc \in InFlush
Quiet(m) == \A c \in Call : ManagerOf[c] = m => calls[c].pc = "idle"
\* The application awaits its calls, except in the lambda of em.transaction.
Runs(m) == ~IsFlushing(m) /\ (Quiet(m) \/ \E c \in Call : ManagerOf[c] = m /\ calls[c].pc = "inside")

\* Every manager has loaded the table; a new one (see Rollback) has not.
Init ==
  /\ rows = [r \in Row |-> [vals |-> [k \in Column |-> Initially], stamp |-> 1, version |-> 0]]
  /\ work = [k \in Client |-> NoWork] /\ open = {}
  /\ txn = [m \in Manager |-> None]
  /\ calls = [c \in Call |-> Idle]
  /\ mem = [m \in Manager |-> [r \in Row |-> Hydrated(rows[r])]]
  /\ clock = 1 /\ lastNow = [m \in Manager |-> 0]
  /\ edits = 0 /\ started = 0 /\ flushes = 0
  /\ base = [m \in Manager |-> [r \in Row |-> 0]]

\* Entities are read, and come from the committed version, unless m's transaction wrote it.
Hydrate(m, R) ==
  LET found == {r \in R : View(m, r) # Gone} IN
  /\ mem' = [mem EXCEPT ![m] = [r \in Row |->
       CASE r \in found -> Hydrated(View(m, r)) [] r \in R \ found -> Absent [] OTHER -> @[r]]]
  /\ base' = [base EXCEPT ![m] = [r \in Row |-> IF r \in found /\ rows[r] # Gone THEN rows[r].version ELSE @[r]]]

\* em.find of what is not in memory yet.
Find(m) ==
  /\ Runs(m)
  /\ Hydrate(m, Row \ Loaded(m)) /\ mem' # mem
  /\ UNCHANGED <<dbVars, txn, calls, timeVars, edits, started, flushes>>

\* em.refresh of what is loaded: changes are lost, and what is not found is gone.
Refresh(m) ==
  /\ Runs(m)
  /\ Hydrate(m, Loaded(m) \ Deletes(m)) /\ mem' # mem
  /\ UNCHANGED <<dbVars, txn, calls, timeVars, edits, started, flushes>>

\* A field of one or more entities is set, or an entity is deleted.
Edit(m) ==
  /\ edits < MaxEdits /\ Runs(m)
  /\ edits' = edits + 1
  /\ \/ \E R \in (SUBSET (Loaded(m) \ Deletes(m))) \ {{}}, k \in Column, v \in Value :
          /\ \A r \in R : mem[m][r].vals[k] # v
          /\ mem' = [mem EXCEPT ![m] = [r \in Row |-> IF r \in R THEN [@[r] EXCEPT !.vals[k] = v] ELSE @[r]]]
     \/ \E r \in (Deletable \cap Loaded(m)) \ Deletes(m) :
          mem' = [mem EXCEPT ![m][r].deleted = TRUE]
  /\ UNCHANGED <<dbVars, txn, calls, timeVars, started, flushes, base>>

----------------------------------------------------------------------------
(* em.transaction and em.flush. *)

StartTransaction(c) ==
  /\ c \in Lambdas /\ calls[c].pc = "idle" /\ started < MaxCalls
  /\ started' = started + 1
  /\ calls' = [calls EXCEPT ![c] =
       IF txn[ManagerOf[c]] = None THEN [Idle EXCEPT !.pc = "connect", !.kind = "transaction"]
       ELSE [Idle EXCEPT !.pc = "inside", !.kind = "transaction", !.joined = TRUE]]
  /\ UNCHANGED <<dbVars, txn, mem, timeVars, edits, flushes, base>>

Begin(c) ==
  /\ calls[c].pc = "connect"
  /\ calls' = [calls EXCEPT ![c].pc = "inside"]
  /\ open' = open \cup {Outer(c)} /\ txn' = [txn EXCEPT ![ManagerOf[c]] = Outer(c)]
  /\ UNCHANGED <<rows, work, mem, timeVars, edits, started, flushes, base>>

\* What a call is after its flush, and after a flush that threw.
Returned(call) ==
  CASE call.kind = "flush" \/ (call.last /\ call.joined) -> Idle
    [] call.kind = "transaction" /\ call.last /\ ~call.joined -> [call EXCEPT !.pc = "commit"]
    [] OTHER -> [call EXCEPT !.pc = "inside", !.target = None, !.missed = FALSE, !.todo = {}]
Threw(call) ==
  CASE call.kind = "flush" \/ call.joined -> Idle
    [] OTHER -> [call EXCEPT !.pc = "rollback", !.target = None, !.todo = {}, !.missed = FALSE]
Caught(call) == [call EXCEPT !.pc = "inside", !.target = None, !.todo = {}, !.missed = FALSE]

\* em.flush, by itself or in the lambda, or the last one of em.transaction; em.mode is what the
\* application has set it to.
StartFlush(c, last) ==
  LET m == ManagerOf[c]
      call == IF calls[c].pc = "idle" THEN [Idle EXCEPT !.kind = "flush"] ELSE [calls[c] EXCEPT !.last = last]
  IN
  /\ ~IsFlushing(m)
  /\ \/ calls[c].pc = "idle" /\ started < MaxCalls /\ ~last /\ Updates(m) \cup Deletes(m) # {}
        /\ started' = started + 1
     \/ calls[c].pc = "inside" /\ (last \/ Updates(m) \cup Deletes(m) # {}) /\ UNCHANGED started
  /\ IF Updates(m) \cup Deletes(m) = {}
     THEN calls' = [calls EXCEPT ![c] = Returned(call)] /\ UNCHANGED <<mem, timeVars, flushes>>
     ELSE /\ flushes < MaxFlushes \/ last
          /\ flushes' = Min({flushes + 1, MaxFlushes})
          /\ \E now \in Nows(m) :
               /\ mem' = [mem EXCEPT ![m] = [r \in Row |-> IF r \in Updates(m) THEN BumpUpdatedAt(@[r], now) ELSE @[r]]]
               /\ lastNow' = [lastNow EXCEPT ![m] = now] /\ clock' = Max({clock, now})
          /\ \E dry \in BOOLEAN :
               /\ dry => m \in DryRun
               /\ calls' = [calls EXCEPT ![c] =
                              [call EXCEPT !.pc = "flush", !.dry = dry, !.todo = Updates(m) \cup Deletes(m)]]
  /\ UNCHANGED <<dbVars, txn, edits, base>>

\* The flush joins the transaction of its manager, or opens one of its own.
Joins(m) == txn[m] # None
JoinOrConnect(c) ==
  /\ calls[c].pc = "flush"
  /\ calls' = [calls EXCEPT ![c] = IF Joins(ManagerOf[c])
                                   THEN [@ EXCEPT !.pc = "writing", !.target = txn[ManagerOf[c]]]
                                   ELSE [@ EXCEPT !.pc = "connectFlush"]]
  /\ UNCHANGED <<dbVars, txn, mem, timeVars, edits, started, flushes, base>>

BeginFlush(c) ==
  /\ calls[c].pc = "connectFlush"
  /\ calls' = [calls EXCEPT ![c].pc = "writing", ![c].target = Inner(c)]
  /\ open' = open \cup {Inner(c)} /\ txn' = [txn EXCEPT ![ManagerOf[c]] = Inner(c)]
  /\ UNCHANGED <<rows, work, mem, timeVars, edits, started, flushes, base>>

\* The UPDATE comes first.
Next1(c) == LET left == calls[c].todo \cap Updates(ManagerOf[c]) IN IF left # {} THEN left ELSE calls[c].todo
Free(c, r) == \A k \in Client \ {calls[c].target} : work[k][r] = Untouched

WriteRow(c, r) ==
  LET m == ManagerOf[c]  k == calls[c].target  row == Latest(k, r)
      written == CASE mem[m][r].deleted -> Gone
                   [] ~mem[m][r].deleted /\ Matches(m, r, row) -> Updated(m, r, row)
                   [] OTHER -> Untouched
  IN
  /\ calls[c].pc = "writing" /\ k \in open /\ r \in Next1(c) /\ Free(c, r)
  /\ work' = IF written = Untouched \/ (written = Gone /\ row = Gone) THEN work ELSE [work EXCEPT ![k][r] = written]
  /\ calls' = [calls EXCEPT ![c].todo = @ \ {r}, ![c].missed = @ \/ written = Untouched]
  /\ UNCHANGED <<rows, open, txn, mem, timeVars, edits, started, flushes, base>>

\* COMMIT of a client's work.
Committed(k, m) ==
  LET W == {r \in Row : work[k][r] # Untouched}
      here == {r \in W : work[k][r] # Gone}
  IN /\ rows' = Applied(k)
     /\ base' = [base EXCEPT ![m] = [r \in Row |-> IF r \in here THEN work[k][r].version ELSE @[r]]]
\* The end of a client's transaction.
TxnAfter(k, m) == [txn EXCEPT ![m] = None]
Ended(k, m) ==
  /\ work' = [work EXCEPT ![k] = NoWork] /\ open' = open \ {k} /\ txn' = TxnAfter(k, m)

\* Whether a flush throws InMemoryRollbackError before its COMMIT.
Rehearses(call) == call.dry

FlushWritten(c) ==
  LET m == ManagerOf[c]  k == calls[c].target IN
  /\ calls[c].pc = "writing" /\ calls[c].todo = {} /\ ~calls[c].missed /\ k \in open
  /\ ~Rehearses(calls[c])
  /\ calls' = [calls EXCEPT ![c].pc = "reset"]
  /\ IF k = Inner(c) THEN Committed(k, m) /\ Ended(k, m) ELSE UNCHANGED <<dbVars, txn, base>>
  /\ UNCHANGED <<mem, timeVars, edits, started, flushes>>

Reset(c) ==
  /\ calls[c].pc = "reset"
  /\ mem' = [mem EXCEPT ![ManagerOf[c]] = [r \in Row |-> ResetAfterFlushed(@[r])]]
  /\ calls' = [calls EXCEPT ![c] = Returned(@)]
  /\ UNCHANGED <<dbVars, txn, timeVars, edits, started, flushes, base>>

\* The flush throws: its own transaction is rolled back, another one is left to its owner.
FlushThrows(c, outcomes) ==
  LET k == Inner(c) IN
  /\ IF calls[c].target = k /\ calls[c].pc = "writing" THEN Ended(k, ManagerOf[c]) ELSE UNCHANGED <<work, open, txn>>
  /\ \E call \in outcomes : calls' = [calls EXCEPT ![c] = call]
  /\ UNCHANGED <<rows, mem, timeVars, edits, started, flushes, base>>

\* A dry run throws and em.flush catches it: nothing is reset, and a transaction it had joined
\* goes on with what was written.
DryRunEnds(c) ==
  LET call == calls[c] IN
  /\ call.pc = "writing" /\ call.todo = {} /\ ~call.missed /\ call.target \in open
  /\ Rehearses(call)
  /\ FlushThrows(c, {Returned(call)})

\* Fewer rows were updated than the statement has entities.  For Postgres that is no error: a
\* lambda that catches it may go on.
OplockFailure(c) ==
  LET call == calls[c] IN
  /\ call.pc = "writing" /\ call.todo = {} /\ call.missed
  /\ FlushThrows(c, {Threw(call)} \cup {x \in {Caught(call)} : Catches /\ call.kind = "transaction" /\ ~call.last})

\* Postgres ends a circle of statements that wait for each other, at one of them.
Blockers(c) == {d \in Call : calls[d].pc # "idle" /\ \E r \in Next1(c), k \in {Outer(d), Inner(d)} \ {calls[c].target} :
                               work[k][r] # Untouched}
Blocked(c) == calls[c].pc = "writing" /\ calls[c].todo # {} /\ \A r \in Next1(c) : ~Free(c, r)
DeadlockDetected(c) ==
  /\ \E S \in SUBSET Call : c \in S /\ \A d \in S : Blocked(d) /\ Blockers(d) \cap S # {}
  /\ FlushThrows(c, {Threw(calls[c])})

FlushFails(c) == calls[c].pc \in FailAt \cap InFlush /\ FlushThrows(c, {Threw(calls[c])})

LambdaFails(c) ==
  /\ calls[c].pc \in FailAt \cap {"inside", "commit"}
  /\ calls' = [calls EXCEPT ![c] = Threw(@)]
  /\ UNCHANGED <<dbVars, txn, mem, timeVars, edits, started, flushes, base>>

Commit(c) ==
  LET m == ManagerOf[c] IN
  /\ calls[c].pc = "commit"
  /\ Committed(Outer(c), m) /\ Ended(Outer(c), m)
  /\ calls' = [calls EXCEPT ![c] = Idle]
  /\ UNCHANGED <<mem, timeVars, edits, started, flushes>>

\* Unless Reuses, its manager is not used again: the next call has a new one.
Rollback(c) ==
  LET m == ManagerOf[c] IN
  /\ calls[c].pc = "rollback"
  /\ Ended(Outer(c), m)
  /\ calls' = [calls EXCEPT ![c] = Idle]
  /\ mem' = IF Reuses THEN mem ELSE [mem EXCEPT ![m] = [r \in Row |-> Absent]]
  /\ UNCHANGED <<rows, timeVars, edits, started, flushes, base>>

----------------------------------------------------------------------------
\* What the driver answers, and the lambda of em.transaction returns.
Step(c) ==
  \/ Begin(c) \/ JoinOrConnect(c) \/ BeginFlush(c) \/ FlushWritten(c) \/ DryRunEnds(c) \/ Reset(c)
  \/ OplockFailure(c) \/ DeadlockDetected(c) \/ Commit(c) \/ Rollback(c)
  \/ StartFlush(c, TRUE)
  \/ \E r \in Row : WriteRow(c, r)

Next ==
  \/ \E m \in Manager : Find(m) \/ Refresh(m) \/ Edit(m)
  \/ \E c \in Call : StartTransaction(c) \/ StartFlush(c, FALSE) \/ Step(c) \/ FlushFails(c) \/ LambdaFails(c)

Spec == Init /\ [][Next]_vars

----------------------------------------------------------------------------
(* Properties. *)

\* Every variable has its type; every client with uncommitted work is in a transaction.
TypeOK ==
  /\ rows \in [Row -> RowState \cup {Gone}]
  /\ work \in [Client -> [Row -> RowState \cup {Gone, Untouched}]]
  /\ open \subseteq Client /\ \A k \in Client : work[k] # NoWork => k \in open
  /\ txn \in [Manager -> Client \cup {None}]
  /\ calls \in [Call -> CallState]
  /\ mem \in [Manager -> [Row -> Entity \cup {Absent}]]
  /\ lastNow \in [Manager -> Nat] /\ {clock, edits, started, flushes} \subseteq Nat
  /\ base \in [Manager -> [Row -> Nat]]

\* No update is lost: a manager's transaction is one step for the others, and a row is updated
\* only from the version the manager had read or written last.
Rows == INSTANCE OptimisticRows WITH
          version <- [r \in Row |-> IF rows[r] = Gone THEN Gone ELSE rows[r].version], seen <- base
NoLostUpdate == Rows!Spec

\* Between calls, an entity that comes from the row's version and is not changed is as the row is.
UnchangedIsCommitted ==
  TypeOK /\ \A m \in Manager : Quiet(m) =>
    \A r \in Loaded(m) : LET e == mem[m][r] IN
      /\ rows[r] # Gone /\ base[m][r] = rows[r].version
      /\ ~e.deleted /\ Changed(e) = {}
      => e.vals = rows[r].vals

\* While an em.transaction is under way, nothing of its manager is committed.
TransactionCommitsOnce ==
  [][\A c \in Call :
       (/\ calls[c].kind = "transaction"
        /\ calls[c].pc \notin {"connect", "commit"}
        /\ base'[ManagerOf[c]] # base[ManagerOf[c]])
       => UNCHANGED rows]_vars

\* A dry run is never committed: as long as it lasts, nobody commits a row that it has written,
\* neither its own call, nor another flush or manager that waits for the row.
DryRunCommitsNothing ==
  [][\A c \in Call, r \in Row :
       calls[c].dry /\ (\E k \in {Outer(c), Inner(c)} : work[k][r] # Untouched)
       => rows'[r] = rows[r]]_vars

\* No managers wait for each other for ever: some call that is under way can go on, without
\* the application, and without a failure.
NeverStuck == (\A c \in Call : calls[c].pc = "idle") \/ \E c \in Call : ENABLED Step(c)
=============================================================================
