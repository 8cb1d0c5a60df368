------------------------- MODULE TransactionsProofs -------------------------
(***************************************************************************)
(* What transactions and the optimistic lock guarantee for any number of   *)
(* managers, rows, columns and edits, when the application awaits its      *)
(* calls.  The invariants come in three layers, each used by the next:     *)
(* CallsInv (who is in which transaction), LockInv (stamps are unique, and *)
(* what is written but not committed is the next version of its row), and  *)
(* Agree (memory is what its version of the row says).  DryOk says which   *)
(* calls may be dry runs.                                                  *)
(***************************************************************************)
EXTENDS Transactions, TLAPS

\* One call of em.flush or em.transaction at a time per manager; what the lambda of
\* em.transaction calls is part of that call.
AwaitsItsCalls == \A c, d \in Call : ManagerOf[c] = ManagerOf[d] => c = d

Flushing == {"flush", "connectFlush", "writing"}
Written(k, r) == work[k][r] \notin {Untouched, Gone}
Owner(k) == ManagerOf[k[1]]

----------------------------------------------------------------------------
(* Calls and transactions. *)

\* What a call is doing, and which transaction em.txn then is.
CallOk(c, call, t) ==
  /\ call.pc = "idle" <=> call.kind = "none"
  /\ call.pc \in {"connect", "inside", "commit", "rollback"} => call.kind = "transaction"
  /\ call.pc = "connectFlush" => call.kind = "flush"
  /\ call.last => call.kind = "transaction"
  /\ ~call.joined
  /\ call.kind = "transaction" /\ call.pc # "connect" => t = Outer(c)
  /\ call.kind = "flush" /\ call.pc = "writing" => t = Inner(c)
  /\ call.pc \in {"idle", "connect"} \/ (call.kind = "flush" /\ call.pc # "writing") => t = None
  /\ call.pc = "writing" => call.target = t

\* What a flush has still to write is loaded and has something to write.
TodoOk(call, memory) ==
  call.pc \in Flushing =>
    \A r \in call.todo : memory[r] # Absent /\ (memory[r].deleted \/ Changed(memory[r]) # {})

EachCallOk == \A c \in Call : CallOk(c, calls[c], txn[ManagerOf[c]]) /\ TodoOk(calls[c], mem[ManagerOf[c]])

\* Only the transaction that em.txn names is open, and it is its manager's own.
OpenIsTxn == /\ \A k \in open : txn[Owner(k)] = k
             /\ \A m \in Manager : txn[m] # None => Owner(txn[m]) = m

\* A row has one writer, who updates what is committed and is not gone.
OneWriter ==
  \A r \in Row : \A j, k \in Client : work[j][r] # Untouched /\ work[k][r] # Untouched => j = k
WorkOnRows == \A k \in Client, r \in Row : Written(k, r) => rows[r] # Gone

CallsInv == TypeOK /\ EachCallOk /\ OpenIsTxn /\ OneWriter /\ WorkOnRows

\* A manager that makes dry runs never calls em.transaction.
DryRunsAlone == \A c \in Lambdas : ManagerOf[c] \notin DryRun

\* Which calls may be dry runs, and which em.transaction.
DryOk ==
  \A c \in Call : /\ calls[c].dry => ManagerOf[c] \in DryRun
                  /\ calls[c].kind = "transaction" => c \in Lambdas

----------------------------------------------------------------------------
(* Versions and stamps. *)

\* What is written is the version after the committed one, which its writer had seen.
WorkIsNext ==
  \A k \in Client, r \in Row : Written(k, r) =>
    base[Owner(k)][r] = rows[r].version /\ work[k][r].version = rows[r].version + 1

\* An entity's stamps; those a manager has for a row.
Stamps(m, r) == IF mem[m][r] = Absent THEN {} ELSE {mem[m][r].stamp, mem[m][r].original}

\* No stamp is of the future.
StampsPast ==
  /\ \A m \in Manager : lastNow[m] <= clock /\ \A r \in Row : \A s \in Stamps(m, r) : s <= clock
  /\ \A r \in Row : rows[r] # Gone => rows[r].stamp <= clock
  /\ \A k \in Client, r \in Row : Written(k, r) => work[k][r].stamp <= clock

\* A stamp tells the version: who has the stamp of a row has seen its version.
StampIsVersion ==
  \A m \in Manager, r \in Row :
    rows[r] # Gone => /\ rows[r].stamp \in Stamps(m, r) => base[m][r] = rows[r].version
                      /\ base[m][r] <= rows[r].version

\* Nobody else has the stamp of what is not committed, or of what a flush is about to write.
WorkIsPrivate ==
  \A k \in Client, r \in Row : Written(k, r) =>
    /\ rows[r].stamp # work[k][r].stamp
    /\ \A m \in Manager \ {Owner(k)} : work[k][r].stamp \notin Stamps(m, r)
Private(m, r, s) ==
  /\ rows[r] # Gone => rows[r].stamp # s
  /\ \A k \in Client : Written(k, r) => work[k][r].stamp # s
  /\ \A n \in Manager \ {m} : s \notin Stamps(n, r)
TodoIsPrivate ==
  \A c \in Call : calls[c].pc \in Flushing => \A r \in calls[c].todo :
    LET e == mem[ManagerOf[c]][r] IN ~e.deleted => Private(ManagerOf[c], r, e.stamp)

LockInv == /\ WorkIsNext /\ StampsPast /\ StampIsVersion /\ WorkIsPrivate /\ TodoIsPrivate

----------------------------------------------------------------------------
(* Memory and rows. *)

\* What memory takes for the row's values.
OrigIs(m, r, row) == row # Gone => mem[m][r].orig = row.vals
ValsAre(m, r, row) == row # Gone => ~mem[m][r].deleted /\ mem[m][r].vals = row.vals

\* Whether m's entity comes from the row as it is committed.
Current(m, r) == mem[m][r] # Absent /\ rows[r] # Gone /\ base[m][r] = rows[r].version

\* Memory started from what the manager sees, or, once it is written, is what the manager sees.
CallAgrees(call, m, r) ==
  /\ call.pc \notin {"writing", "reset", "rollback"} => OrigIs(m, r, View(m, r))
  /\ call.pc = "writing" /\ r \in call.todo => OrigIs(m, r, View(m, r))
  /\ call.pc \in Flushing /\ r \notin call.todo /\ ~call.missed => ValsAre(m, r, View(m, r))
  /\ call.pc = "reset" => ValsAre(m, r, View(m, r))
  /\ call.kind = "flush" /\ call.pc = "writing" => OrigIs(m, r, rows[r])

Agrees(m, r) ==
  /\ (\A c \in Call : ManagerOf[c] # m) => OrigIs(m, r, View(m, r))
  /\ \A c \in Call : ManagerOf[c] = m => CallAgrees(calls[c], m, r)

Agree == \A m \in Manager, r \in Row : Current(m, r) => Agrees(m, r)

----------------------------------------------------------------------------
(* Lemmas on the operators. *)

\* The larger of two times.
LEMMA MaxOfTwo ==
  ASSUME NEW a \in Nat, NEW b \in Nat
  PROVE  Max({a, b}) \in {a, b} /\ Max({a, b}) >= a /\ Max({a, b}) >= b
<1>1. \E x \in {a, b} : \A y \in {a, b} : x >= y
  <2>1. CASE a >= b
    BY <2>1
  <2>2. CASE b >= a
    BY <2>2
  <2> QED
    BY <2>1, <2>2
<1>2. Max({a, b}) \in {a, b} /\ \A y \in {a, b} : Max({a, b}) >= y
  BY <1>1, Zenon DEF Max
<1> QED
  BY <1>2

\* A count that stops at its bound.
LEMMA MinOfTwo ==
  ASSUME NEW a \in Nat, NEW b \in Nat
  PROVE  Min({a, b}) \in Nat
<1>1. \E x \in {a, b} : \A y \in {a, b} : x <= y
  <2>1. CASE a <= b
    BY <2>1
  <2>2. CASE b <= a
    BY <2>2
  <2> QED
    BY <2>1, <2>2
<1>2. Min({a, b}) \in {a, b}
  BY <1>1, Zenon DEF Min
<1> QED
  BY <1>2

\* getNow answers a time, and one that nobody has, if the times are distinct.
LEMMA NowsTypes ==
  ASSUME TypeOK, NEW m \in Manager, NEW now \in Nows(m)
  PROVE  now \in Nat /\ (Distinct /\ lastNow[m] <= clock => now = clock + 1)
<1>1. PICK t \in IF Distinct THEN {clock + 1} ELSE {clock, clock + 1} : now = Max({t, lastNow[m] + 1})
  BY DEF Nows
<1>2. clock \in Nat /\ lastNow[m] \in Nat /\ t \in Nat
  BY <1>1 DEF TypeOK
<1>3. now \in {t, lastNow[m] + 1} /\ now >= t
  BY <1>1, <1>2, MaxOfTwo
<1> QED
  BY <1>1, <1>2, <1>3

\* What a manager sees of a row is a row or is gone.
LEMMA ViewTypes ==
  ASSUME TypeOK, NEW m \in Manager, NEW r \in Row
  PROVE  /\ View(m, r) \in RowState \cup {Gone}
         /\ \A k \in Client : Latest(k, r) \in RowState \cup {Gone}
BY DEF TypeOK, View, Latest

\* What is read from a row is an unchanged entity.
LEMMA HydratedTypes ==
  ASSUME NEW row \in RowState
  PROVE  /\ Hydrated(row) \in Entity /\ Hydrated(row).orig = row.vals /\ Hydrated(row).vals = row.vals
         /\ Hydrated(row).stamp = row.stamp /\ Hydrated(row).original = row.stamp
         /\ ~Hydrated(row).deleted
BY DEF Hydrated, RowState, Entity

\* A call that ends or goes on is a call.
LEMMA CallTypes ==
  ASSUME NEW call \in CallState
  PROVE  /\ Idle \in CallState /\ Returned(call) \in CallState
         /\ Threw(call) \in CallState /\ Caught(call) \in CallState
<1>1. Idle \in CallState
  BY DEF Idle, CallState, InFlush
<1>2. Returned(call) \in CallState
  BY <1>1 DEF Returned, CallState, InFlush
<1>3. Threw(call) \in CallState
  BY <1>1 DEF Threw, CallState, InFlush
<1>4. Caught(call) \in CallState
  BY DEF Caught, CallState, InFlush
<1> QED
  BY <1>1, <1>2, <1>3, <1>4

----------------------------------------------------------------------------
(* The first layer: calls and transactions. *)

\* No manager has a call or a transaction at first.
LEMMA CallsInit == Init => CallsInv
<1> SUFFICES ASSUME Init PROVE CallsInv
  OBVIOUS
<1> USE TransactionsAssumption, SpecialAssumption DEF Init
<1>1. \A r \in Row : rows[r] \in RowState
  BY DEF RowState
<1>2. \A m \in Manager, r \in Row : mem[m][r] \in Entity
  BY <1>1, HydratedTypes
<1>3. \A c \in Call : calls[c] \in CallState
  BY DEF Idle, CallState, InFlush
<1>4. TypeOK
  BY <1>1, <1>2, <1>3 DEF TypeOK, NoWork
<1>5. EachCallOk
  BY DEF EachCallOk, CallOk, TodoOk, Idle, Flushing
<1>6. OpenIsTxn /\ OneWriter /\ WorkOnRows
  BY DEF OpenIsTxn, OneWriter, WorkOnRows, Written, NoWork
<1> QED
  BY <1>4, <1>5, <1>6 DEF CallsInv

\* What a step of one call does to its manager leaves the calls of the others as they are.
LEMMA OneCallStep ==
  ASSUME AwaitsItsCalls, TypeOK, EachCallOk, NEW c \in Call, NEW call \in CallState,
         calls' = [calls EXCEPT ![c] = call],
         \A m \in Manager \ {ManagerOf[c]} : txn'[m] = txn[m] /\ mem'[m] = mem[m],
         CallOk(c, call, txn'[ManagerOf[c]]), TodoOk(call, mem'[ManagerOf[c]])
  PROVE  calls' \in [Call -> CallState] /\ EachCallOk'
<1> USE TransactionsAssumption DEF TypeOK
<1>1. calls' \in [Call -> CallState]
  OBVIOUS
<1>2. ASSUME NEW d \in Call
      PROVE  CallOk(d, calls'[d], txn'[ManagerOf[d]]) /\ TodoOk(calls'[d], mem'[ManagerOf[d]])
  <2>1. CASE d = c
    BY <2>1
  <2>2. CASE d # c
    <3>1. ManagerOf[d] \in Manager \ {ManagerOf[c]} /\ calls'[d] = calls[d]
      BY <2>2 DEF AwaitsItsCalls
    <3> QED
      BY <3>1 DEF EachCallOk
  <2> QED
    BY <2>1, <2>2
<1> QED
  BY <1>1, <1>2 DEF EachCallOk

\* em.find and em.refresh: entities are what the manager sees.
LEMMA HydrateStep ==
  ASSUME TypeOK, NEW m \in Manager, NEW R \in SUBSET Row, Hydrate(m, R)
  PROVE  /\ mem' \in [Manager -> [Row -> Entity \cup {Absent}]]
         /\ base' \in [Manager -> [Row -> Nat]]
         /\ \A n \in Manager \ {m} : mem'[n] = mem[n] /\ base'[n] = base[n]
         /\ \A r \in Row : base'[m][r] = IF r \in R /\ View(m, r) # Gone /\ rows[r] # Gone
                                         THEN rows[r].version ELSE base[m][r]
         /\ \A r \in Row : mem'[m][r] = CASE r \in R /\ View(m, r) # Gone -> Hydrated(View(m, r))
                                          [] r \in R /\ View(m, r) = Gone -> Absent
                                          [] OTHER -> mem[m][r]
<1> DEFINE found == {r \in R : View(m, r) # Gone}
           M == [r \in Row |-> CASE r \in found -> Hydrated(View(m, r)) [] r \in R \ found -> Absent
                                 [] OTHER -> mem[m][r]]
           B == [r \in Row |-> IF r \in found /\ rows[r] # Gone THEN rows[r].version ELSE base[m][r]]
<1>1. mem' = [mem EXCEPT ![m] = M] /\ base' = [base EXCEPT ![m] = B]
  BY DEF Hydrate
<1>2. M \in [Row -> Entity \cup {Absent}]
  BY ViewTypes, HydratedTypes DEF TypeOK
<1>3. B \in [Row -> Nat]
  BY DEF TypeOK, RowState
<1>4. mem'[m] = M /\ base'[m] = B
  BY <1>1 DEF TypeOK
<1> QED
  BY <1>1, <1>2, <1>3, <1>4 DEF TypeOK

\* A step that leaves calls, transactions and rows alone, of a manager that does not flush.
LEMMA QuietStep ==
  ASSUME CallsInv, NEW m \in Manager, Runs(m), UNCHANGED <<dbVars, txn, calls, timeVars, started, flushes>>,
         edits' \in Nat, mem' \in [Manager -> [Row -> Entity \cup {Absent}]],
         base' \in [Manager -> [Row -> Nat]], \A n \in Manager \ {m} : mem'[n] = mem[n]
  PROVE  CallsInv'
<1> USE TransactionsAssumption DEF CallsInv, dbVars, timeVars
<1>1. TypeOK'
  BY DEF TypeOK
<1>2. EachCallOk'
  <2> SUFFICES ASSUME NEW c \in Call PROVE TodoOk(calls[c], mem'[ManagerOf[c]])
    BY DEF EachCallOk
  <2>1. CASE ManagerOf[c] = m
    BY <2>1 DEF TodoOk, Runs, IsFlushing, InFlush, Flushing
  <2>2. CASE ManagerOf[c] # m
    BY <2>2 DEF EachCallOk
  <2> QED
    BY <2>1, <2>2
<1>3. OpenIsTxn' /\ OneWriter' /\ WorkOnRows'
  BY DEF OpenIsTxn, OneWriter, WorkOnRows, Written, Owner
<1> QED
  BY <1>1, <1>2, <1>3

\* The memory of one manager changes.
LEMMA OneMemory ==
  ASSUME TypeOK, NEW m \in Manager, NEW M \in [Row -> Entity \cup {Absent}],
         mem' = [mem EXCEPT ![m] = M]
  PROVE  /\ mem' \in [Manager -> [Row -> Entity \cup {Absent}]]
         /\ mem'[m] = M /\ \A n \in Manager \ {m} : mem'[n] = mem[n]
BY DEF TypeOK

\* What the application sets is an entity still.
LEMMA EditTypes ==
  ASSUME TypeOK, NEW m \in Manager, Edit(m)
  PROVE  /\ mem' \in [Manager -> [Row -> Entity \cup {Absent}]]
         /\ \A n \in Manager \ {m} : mem'[n] = mem[n]
         /\ \A r \in Row : /\ mem'[m][r] = Absent <=> mem[m][r] = Absent
                           /\ mem[m][r] # Absent => /\ mem'[m][r].orig = mem[m][r].orig
                                                    /\ mem'[m][r].stamp = mem[m][r].stamp
                                                    /\ mem'[m][r].original = mem[m][r].original
<1> DEFINE Same(e, f) == f \in Entity /\ f.orig = e.orig /\ f.stamp = e.stamp /\ f.original = e.original
<1>1. SUFFICES \E M : /\ mem' = [mem EXCEPT ![m] = M] /\ DOMAIN M = Row /\ M = [r \in Row |-> M[r]]
                      /\ \A r \in Row : M[r] = mem[m][r] \/ (mem[m][r] # Absent /\ Same(mem[m][r], M[r]))
  <2> PICK M : /\ mem' = [mem EXCEPT ![m] = M] /\ M = [r \in Row |-> M[r]]
               /\ \A r \in Row : M[r] = mem[m][r] \/ (mem[m][r] # Absent /\ Same(mem[m][r], M[r]))
    BY <1>1
  <2>1. M \in [Row -> Entity \cup {Absent}]
    BY DEF TypeOK
  <2>2. mem'[m] = M /\ mem' \in [Manager -> [Row -> Entity \cup {Absent}]]
        /\ \A n \in Manager \ {m} : mem'[n] = mem[n]
    BY <2>1, OneMemory
  <2> QED
    BY <2>2, SpecialAssumption
<1>2. CASE \E R \in SUBSET (Loaded(m) \ Deletes(m)), k \in Column, v \in Value :
             mem' = [mem EXCEPT ![m] = [r \in Row |-> IF r \in R THEN [mem[m][r] EXCEPT !.vals[k] = v] ELSE mem[m][r]]]
  <2> PICK R \in SUBSET Loaded(m), k \in Column, v \in Value :
             mem' = [mem EXCEPT ![m] = [r \in Row |-> IF r \in R THEN [mem[m][r] EXCEPT !.vals[k] = v] ELSE mem[m][r]]]
    BY <1>2
  <2> DEFINE M == [r \in Row |-> IF r \in R THEN [mem[m][r] EXCEPT !.vals[k] = v] ELSE mem[m][r]]
  <2>1. \A e \in Entity : Same(e, [e EXCEPT !.vals[k] = v])
    BY DEF Entity
  <2>2. \A r \in R : mem[m][r] \in Entity /\ mem[m][r] # Absent
    BY DEF Loaded, TypeOK
  <2>3. \A r \in Row : M[r] = mem[m][r] \/ (mem[m][r] # Absent /\ Same(mem[m][r], M[r]))
    BY <2>1, <2>2
  <2> QED
    BY <2>3
<1>3. CASE \E r \in Loaded(m) : mem' = [mem EXCEPT ![m] = [mem[m] EXCEPT ![r] = [mem[m][r] EXCEPT !.deleted = TRUE]]]
  <2> PICK r \in Loaded(m) : mem' = [mem EXCEPT ![m] = [mem[m] EXCEPT ![r] = [mem[m][r] EXCEPT !.deleted = TRUE]]]
    BY <1>3
  <2> DEFINE M == [q \in Row |-> IF q = r THEN [mem[m][r] EXCEPT !.deleted = TRUE] ELSE mem[m][q]]
  <2>1. \A e \in Entity : Same(e, [e EXCEPT !.deleted = TRUE])
    BY DEF Entity
  <2>2. r \in Row /\ mem[m][r] \in Entity /\ mem[m][r] # Absent
    BY DEF Loaded, TypeOK
  <2>3. M = [mem[m] EXCEPT ![r] = [mem[m][r] EXCEPT !.deleted = TRUE]]
    BY DEF TypeOK
  <2>4. \A q \in Row : M[q] = mem[m][q] \/ (mem[m][q] # Absent /\ Same(mem[m][q], M[q]))
    BY <2>1, <2>2
  <2>5. mem' = [mem EXCEPT ![m] = M] /\ DOMAIN M = Row /\ M = [q \in Row |-> M[q]]
    BY <2>3
  <2> HIDE DEF M, Same
  <2> QED
    BY <2>4, <2>5
<1>4. \/ \E R \in SUBSET (Loaded(m) \ Deletes(m)), k \in Column, v \in Value :
             mem' = [mem EXCEPT ![m] = [r \in Row |-> IF r \in R THEN [@[r] EXCEPT !.vals[k] = v] ELSE @[r]]]
      \/ \E r \in (Deletable \cap Loaded(m)) \ Deletes(m) : mem' = [mem EXCEPT ![m][r].deleted = TRUE]
  BY Zenon DEF Edit
<1>5. CASE \E R \in SUBSET (Loaded(m) \ Deletes(m)), k \in Column, v \in Value :
             mem' = [mem EXCEPT ![m] = [r \in Row |-> IF r \in R THEN [@[r] EXCEPT !.vals[k] = v] ELSE @[r]]]
  BY <1>2, <1>5 DEF TypeOK
<1>6. CASE \E r \in (Deletable \cap Loaded(m)) \ Deletes(m) : mem' = [mem EXCEPT ![m][r].deleted = TRUE]
  BY <1>3, <1>6
<1> QED
  BY <1>4, <1>5, <1>6

\* The owner of a call's clients.
LEMMA ClientTypes ==
  ASSUME NEW c \in Call
  PROVE  /\ Outer(c) \in Client /\ Inner(c) \in Client /\ Outer(c) # Inner(c)
         /\ Owner(Outer(c)) = ManagerOf[c] /\ Owner(Inner(c)) = ManagerOf[c]
         /\ ManagerOf[c] \in Manager /\ Outer(c) # None /\ Inner(c) # None
BY TransactionsAssumption, SpecialAssumption DEF Outer, Inner, Client, Owner

\* The end of the transaction that em.txn names, after a COMMIT or without.
LEMMA EndedStep ==
  ASSUME CallsInv, NEW k \in Client, txn[Owner(k)] = k, Ended(k, Owner(k)),
         rows' = rows \/ rows' = Applied(k)
  PROVE  /\ rows' \in [Row -> RowState \cup {Gone}]
         /\ work' \in [Client -> [Row -> RowState \cup {Gone, Untouched}]]
         /\ open' \subseteq Client /\ \A j \in Client : work'[j] # NoWork => j \in open'
         /\ txn' \in [Manager -> Client \cup {None}] /\ txn'[Owner(k)] = None
         /\ \A m \in Manager \ {Owner(k)} : txn'[m] = txn[m]
         /\ OpenIsTxn' /\ OneWriter' /\ WorkOnRows'
<1> USE SpecialAssumption DEF CallsInv, Ended, TxnAfter
<1>1. Owner(k) \in Manager
  BY TransactionsAssumption DEF Owner, Client
<1>2. NoWork \in [Row -> RowState \cup {Gone, Untouched}] /\ \A r \in Row : NoWork[r] = Untouched
  BY DEF NoWork
<1>3. /\ work' \in [Client -> [Row -> RowState \cup {Gone, Untouched}]]
      /\ work'[k] = NoWork /\ \A j \in Client \ {k} : work'[j] = work[j]
  BY <1>2 DEF TypeOK
<1>4. open' = open \ {k} /\ open' \subseteq Client
  BY DEF TypeOK
<1>5. \A j \in Client : work'[j] # NoWork => j \in open'
  BY <1>3, <1>4 DEF TypeOK
<1>6. /\ txn' \in [Manager -> Client \cup {None}] /\ txn'[Owner(k)] = None
      /\ \A m \in Manager \ {Owner(k)} : txn'[m] = txn[m]
  BY <1>1 DEF TypeOK
<1>7. OpenIsTxn'
  <2> SUFFICES ASSUME NEW j \in open' PROVE txn'[Owner(j)] = j
    BY <1>6 DEF OpenIsTxn, Owner
  <2>1. txn[Owner(j)] = j /\ j # k /\ Owner(j) \in Manager
    BY <1>4, TransactionsAssumption DEF OpenIsTxn, Owner, Client
  <2> QED
    BY <2>1, <1>6
<1>8. OneWriter'
  BY <1>2, <1>3 DEF OneWriter
<1>9. rows' \in [Row -> RowState \cup {Gone}]
  BY DEF Applied, Latest, TypeOK
<1>10. WorkOnRows'
  <2> SUFFICES ASSUME NEW j \in Client, NEW r \in Row, work'[j][r] \notin {Untouched, Gone}
               PROVE  rows'[r] # Gone
    BY DEF WorkOnRows, Written
  <2>1. j # k /\ work[j][r] \notin {Untouched, Gone} /\ rows[r] # Gone
    BY <1>2, <1>3 DEF WorkOnRows, Written
  <2>2. work[k][r] = Untouched
    BY <2>1 DEF OneWriter
  <2> QED
    BY <2>1, <2>2 DEF Applied, Latest
<1> QED
  BY <1>3, <1>4, <1>5, <1>6, <1>7, <1>8, <1>9, <1>10

\* em.txn and the open transactions when a client begins.
LEMMA BegunStep ==
  ASSUME CallsInv, NEW k \in Client, txn[Owner(k)] = None,
         open' = open \cup {k}, txn' = [txn EXCEPT ![Owner(k)] = k]
  PROVE  /\ open' \subseteq Client /\ \A j \in Client : work[j] # NoWork => j \in open'
         /\ txn' \in [Manager -> Client \cup {None}] /\ txn'[Owner(k)] = k
         /\ \A m \in Manager \ {Owner(k)} : txn'[m] = txn[m]
         /\ OpenIsTxn'
<1>1. Owner(k) \in Manager /\ \A j \in Client : Owner(j) \in Manager /\ j # None
  BY TransactionsAssumption, SpecialAssumption DEF Owner, Client
<1>2. \A j \in open' : txn'[Owner(j)] = j
  BY <1>1 DEF CallsInv, TypeOK, OpenIsTxn
<1> QED
  BY <1>1, <1>2 DEF CallsInv, TypeOK, OpenIsTxn, Owner

\* A step that changes only the state of one call.
LEMMA CallOnlyStep ==
  ASSUME AwaitsItsCalls, CallsInv, NEW c \in Call, NEW call \in CallState,
         calls' = [calls EXCEPT ![c] = call],
         UNCHANGED <<dbVars, txn, mem, timeVars, edits, flushes, base>>, started' \in Nat,
         CallOk(c, call, txn[ManagerOf[c]]), TodoOk(call, mem[ManagerOf[c]])
  PROVE  CallsInv'
<1> USE DEF CallsInv, dbVars, timeVars
<1>1. calls' \in [Call -> CallState] /\ EachCallOk'
  BY OneCallStep
<1>2. TypeOK'
  BY <1>1 DEF TypeOK
<1>3. OpenIsTxn' /\ OneWriter' /\ WorkOnRows'
  BY DEF OpenIsTxn, OneWriter, WorkOnRows, Written, Owner
<1> QED
  BY <1>1, <1>2, <1>3

\* What the application does between and in its calls begins and ends no transaction.
LEMMA CallsApplication ==
  ASSUME CallsInv, NEW m \in Manager, Find(m) \/ Refresh(m) \/ Edit(m)
  PROVE  CallsInv'
<1>1. ASSUME NEW R \in SUBSET Row, Runs(m), Hydrate(m, R),
             UNCHANGED <<dbVars, txn, calls, timeVars, edits, started, flushes>>
      PROVE  CallsInv'
  <2>1. TypeOK /\ edits' \in Nat
    BY <1>1 DEF CallsInv, TypeOK
  <2> QED
    BY <1>1, <2>1, HydrateStep, QuietStep
<1>2. CASE Find(m)
  BY <1>1, <1>2 DEF Find
<1>3. CASE Refresh(m)
  <2>1. Loaded(m) \ Deletes(m) \in SUBSET Row
    BY DEF Loaded
  <2> QED
    BY <1>1, <1>3, <2>1 DEF Refresh
<1>4. CASE Edit(m)
  <2>1. TypeOK /\ edits' \in Nat /\ base' \in [Manager -> [Row -> Nat]] /\ Runs(m)
        /\ UNCHANGED <<dbVars, txn, calls, timeVars, started, flushes>>
    BY <1>4 DEF CallsInv, TypeOK, Edit
  <2> QED
    BY <1>4, <2>1, EditTypes, QuietStep
<1> QED
  BY <1>2, <1>3, <1>4

\* em.transaction starts: no transaction of its manager is open.
LEMMA CallsStartTransaction ==
  ASSUME AwaitsItsCalls, CallsInv, NEW c \in Call, StartTransaction(c)
  PROVE  CallsInv'
<1> DEFINE call == [Idle EXCEPT !.pc = "connect", !.kind = "transaction"]
<1>1. CallOk(c, calls[c], txn[ManagerOf[c]]) /\ calls[c].pc = "idle" /\ TypeOK
  BY DEF StartTransaction, CallsInv, EachCallOk
<1>2. txn[ManagerOf[c]] = None
  BY <1>1 DEF CallOk
<1>3. call \in CallState
  BY SpecialAssumption DEF Idle, CallState, InFlush
<1>4. calls' = [calls EXCEPT ![c] = call] /\ started' \in Nat
  BY <1>2, <1>1 DEF StartTransaction, TypeOK
<1>5. CallOk(c, call, None) /\ TodoOk(call, mem[ManagerOf[c]])
  BY DEF CallOk, TodoOk, Flushing, Idle
<1> QED
  BY <1>2, <1>3, <1>4, <1>5, CallOnlyStep DEF StartTransaction

\* The transaction of em.transaction is the one em.txn names.
LEMMA CallsBegin ==
  ASSUME AwaitsItsCalls, CallsInv, NEW c \in Call, Begin(c)
  PROVE  CallsInv'
<1> DEFINE call == [calls[c] EXCEPT !.pc = "inside"]
<1>1. CallOk(c, calls[c], txn[ManagerOf[c]]) /\ calls[c].pc = "connect" /\ TypeOK /\ calls[c] \in CallState
  BY DEF Begin, CallsInv, EachCallOk, TypeOK
<1>2. txn[ManagerOf[c]] = None /\ calls[c].kind = "transaction" /\ ~calls[c].joined
  BY <1>1 DEF CallOk
<1>3. call \in CallState
  BY <1>1 DEF CallState, InFlush
<1>4. calls' = [calls EXCEPT ![c] = call]
  BY DEF Begin
<1>5. CallOk(c, call, Outer(c)) /\ TodoOk(call, mem[ManagerOf[c]])
  BY <1>1, <1>2 DEF CallOk, TodoOk, Flushing, CallState
<1>6. /\ open' \subseteq Client /\ \A j \in Client : work[j] # NoWork => j \in open'
      /\ txn' \in [Manager -> Client \cup {None}] /\ txn'[ManagerOf[c]] = Outer(c)
      /\ \A m \in Manager \ {ManagerOf[c]} : txn'[m] = txn[m]
      /\ OpenIsTxn'
  BY <1>2, BegunStep, ClientTypes DEF Begin
<1> HIDE DEF call
<1>7. mem' = mem /\ EachCallOk
  BY DEF Begin, CallsInv
<1>8. calls' \in [Call -> CallState] /\ EachCallOk'
  BY <1>1, <1>3, <1>4, <1>5, <1>6, <1>7, OneCallStep
<1>9. TypeOK'
  BY <1>1, <1>6, <1>8 DEF TypeOK, Begin, timeVars
<1> QED
  BY <1>6, <1>8, <1>9 DEF CallsInv, OneWriter, WorkOnRows, Written, Begin

\* So is the one a flush opens for itself.
LEMMA CallsBeginFlush ==
  ASSUME AwaitsItsCalls, CallsInv, NEW c \in Call, BeginFlush(c)
  PROVE  CallsInv'
<1> DEFINE call == [calls[c] EXCEPT !.pc = "writing", !.target = Inner(c)]
<1>1. /\ CallOk(c, calls[c], txn[ManagerOf[c]]) /\ TodoOk(calls[c], mem[ManagerOf[c]])
      /\ calls[c].pc = "connectFlush" /\ TypeOK /\ calls[c] \in CallState
  BY DEF BeginFlush, CallsInv, EachCallOk, TypeOK
<1>2. txn[ManagerOf[c]] = None /\ calls[c].kind = "flush" /\ ~calls[c].joined /\ ~calls[c].last
  BY <1>1 DEF CallOk
<1>3. call \in CallState
  BY <1>1, ClientTypes DEF CallState, InFlush
<1>4. calls' = [calls EXCEPT ![c] = call]
  BY <1>1, <1>3 DEF BeginFlush, TypeOK
<1>5. CallOk(c, call, Inner(c)) /\ TodoOk(call, mem[ManagerOf[c]])
  BY <1>1, <1>2 DEF CallOk, TodoOk, Flushing, CallState
<1>6. /\ open' \subseteq Client /\ \A j \in Client : work[j] # NoWork => j \in open'
      /\ txn' \in [Manager -> Client \cup {None}] /\ txn'[ManagerOf[c]] = Inner(c)
      /\ \A m \in Manager \ {ManagerOf[c]} : txn'[m] = txn[m]
      /\ OpenIsTxn'
  BY <1>2, BegunStep, ClientTypes DEF BeginFlush
<1> HIDE DEF call
<1>7. mem' = mem /\ EachCallOk
  BY DEF BeginFlush, CallsInv
<1>8. calls' \in [Call -> CallState] /\ EachCallOk'
  BY <1>1, <1>3, <1>4, <1>5, <1>6, <1>7, OneCallStep
<1>9. TypeOK'
  BY <1>1, <1>6, <1>8 DEF TypeOK, BeginFlush, timeVars
<1> QED
  BY <1>6, <1>8, <1>9 DEF CallsInv, OneWriter, WorkOnRows, Written, BeginFlush

\* A flush in the lambda writes in the transaction of em.txn.
LEMMA CallsJoinOrConnect ==
  ASSUME AwaitsItsCalls, CallsInv, NEW c \in Call, JoinOrConnect(c)
  PROVE  CallsInv'
<1> DEFINE t == txn[ManagerOf[c]]
           call == IF t # None THEN [calls[c] EXCEPT !.pc = "writing", !.target = t]
                   ELSE [calls[c] EXCEPT !.pc = "connectFlush"]
<1>1. /\ CallOk(c, calls[c], t) /\ TodoOk(calls[c], mem[ManagerOf[c]])
      /\ calls[c].pc = "flush" /\ TypeOK /\ calls[c] \in CallState /\ t \in Client \cup {None}
  BY ClientTypes DEF JoinOrConnect, CallsInv, EachCallOk, TypeOK
<1>2. call \in CallState
  BY <1>1 DEF CallState, InFlush
<1>3. calls' = [calls EXCEPT ![c] = call] /\ started' \in Nat
  BY <1>1 DEF JoinOrConnect, Joins, TypeOK
<1>4. CallOk(c, call, t)
  BY <1>1, ClientTypes DEF CallOk, CallState
<1>5. TodoOk(call, mem[ManagerOf[c]])
  BY <1>1 DEF TodoOk, Flushing, CallState
<1> QED
  BY <1>2, <1>3, <1>4, <1>5, CallOnlyStep DEF JoinOrConnect

\* The stamp a flush takes is a time, and says nothing of what the entity is.
LEMMA BumpTypes ==
  ASSUME NEW e \in Entity, NEW now \in Nat
  PROVE  /\ BumpUpdatedAt(e, now) \in Entity
         /\ BumpUpdatedAt(e, now).deleted = e.deleted /\ BumpUpdatedAt(e, now).orig = e.orig
         /\ BumpUpdatedAt(e, now).vals = e.vals
         /\ Changed(BumpUpdatedAt(e, now)) = Changed(e)
         /\ Stamped => BumpUpdatedAt(e, now).stamp = now /\ BumpUpdatedAt(e, now).original = e.stamp
BY DEF BumpUpdatedAt, Entity, Changed

\* A flush with something to write takes stamps.
LEMMA BumpStep ==
  ASSUME TypeOK, NEW m \in Manager, NEW now \in Nows(m),
         mem' = [mem EXCEPT ![m] = [r \in Row |-> IF r \in Updates(m) THEN BumpUpdatedAt(@[r], now) ELSE @[r]]],
         lastNow' = [lastNow EXCEPT ![m] = now], clock' = Max({clock, now})
  PROVE  /\ mem' \in [Manager -> [Row -> Entity \cup {Absent}]]
         /\ \A n \in Manager \ {m} : mem'[n] = mem[n]
         /\ \A r \in Row : mem'[m][r] = IF r \in Updates(m) THEN BumpUpdatedAt(mem[m][r], now) ELSE mem[m][r]
         /\ lastNow' \in [Manager -> Nat] /\ lastNow'[m] = now /\ \A n \in Manager \ {m} : lastNow'[n] = lastNow[n]
         /\ clock' \in {clock, now} /\ clock' \in Nat /\ clock' >= clock /\ clock' >= now
<1> DEFINE M == [r \in Row |-> IF r \in Updates(m) THEN BumpUpdatedAt(mem[m][r], now) ELSE mem[m][r]]
<1>1. now \in Nat /\ clock \in Nat
  BY NowsTypes DEF TypeOK
<1>2. \A r \in Updates(m) : mem[m][r] \in Entity
  BY DEF Updates, Loaded, TypeOK
<1>3. M \in [Row -> Entity \cup {Absent}]
  BY <1>1, <1>2, BumpTypes DEF TypeOK
<1>4. mem' = [mem EXCEPT ![m] = M]
  BY DEF TypeOK
<1>5. /\ mem' \in [Manager -> [Row -> Entity \cup {Absent}]]
      /\ mem'[m] = M /\ \A n \in Manager \ {m} : mem'[n] = mem[n]
  BY <1>3, <1>4, OneMemory
<1>6. clock' \in {clock, now} /\ clock' \in Nat /\ clock' >= clock /\ clock' >= now
  BY <1>1, MaxOfTwo
<1> QED
  BY <1>1, <1>5, <1>6 DEF TypeOK

\* What a call becomes when it starts a flush.
Starting(c, last) ==
  IF calls[c].pc = "idle" THEN [Idle EXCEPT !.kind = "flush"] ELSE [calls[c] EXCEPT !.last = last]

\* What a flush takes is loaded and has something to write, after its stamps as well.
LEMMA CallsStartFlush ==
  ASSUME AwaitsItsCalls, CallsInv, NEW c \in Call, NEW last \in BOOLEAN, StartFlush(c, last)
  PROVE  CallsInv'
<1> DEFINE m == ManagerOf[c]
           t == txn[m]
<1>1. /\ CallOk(c, calls[c], t) /\ calls[c].pc \in {"idle", "inside"}
      /\ TypeOK /\ calls[c] \in CallState /\ m \in Manager
  BY ClientTypes DEF StartFlush, CallsInv, EachCallOk, TypeOK
<1>2. Starting(c, last) \in CallState
  BY <1>1, SpecialAssumption DEF Starting, CallState, Idle, InFlush
<1>3. started' \in Nat
  <2>1. started' = started \/ started' = started + 1
    BY DEF StartFlush
  <2> QED
    BY <1>1, <2>1 DEF TypeOK
<1>4. CASE Updates(m) \cup Deletes(m) = {}
  <2>1. calls' = [calls EXCEPT ![c] = Returned(Starting(c, last))] /\ UNCHANGED <<mem, timeVars, flushes>>
        /\ calls[c].pc = "inside" /\ last
    BY <1>4 DEF StartFlush, Starting
  <2>2. Returned(Starting(c, last)) = [[calls[c] EXCEPT !.last = last] EXCEPT !.pc = "commit"]
    BY <1>1, <2>1, Zenon DEF Returned, Starting, CallOk, CallState
  <2>3. Returned(Starting(c, last)) \in CallState
    BY <1>2, CallTypes
  <2>4. CallOk(c, Returned(Starting(c, last)), t) /\ TodoOk(Returned(Starting(c, last)), mem[m])
    BY <1>1, <2>1, <2>2 DEF CallOk, TodoOk, Flushing, CallState
  <2>5. UNCHANGED <<dbVars, txn, mem, timeVars, edits, flushes, base>>
    BY <2>1 DEF StartFlush
  <2> QED
    BY <1>3, <2>1, <2>3, <2>4, <2>5, CallOnlyStep
<1>5. CASE Updates(m) \cup Deletes(m) # {}
  <2>1. PICK dry \in BOOLEAN :
          calls' = [calls EXCEPT ![c] =
                      [Starting(c, last) EXCEPT !.pc = "flush", !.dry = dry, !.todo = Updates(m) \cup Deletes(m)]]
    BY <1>5 DEF StartFlush, Starting
  <2> DEFINE call == [Starting(c, last) EXCEPT !.pc = "flush", !.dry = dry, !.todo = Updates(m) \cup Deletes(m)]
  <2>2. PICK now \in Nows(m) :
          /\ mem' = [mem EXCEPT ![m] = [r \in Row |-> IF r \in Updates(m) THEN BumpUpdatedAt(@[r], now) ELSE @[r]]]
          /\ lastNow' = [lastNow EXCEPT ![m] = now] /\ clock' = Max({clock, now})
    BY <1>5 DEF StartFlush
  <2>3. flushes' = Min({flushes + 1, MaxFlushes})
    BY <1>5 DEF StartFlush
  <2>4. call \in CallState
    BY <1>2 DEF CallState, InFlush, Updates, Deletes, Loaded
  <2>5. CallOk(c, call, t)
    BY <1>1 DEF CallOk, Starting, Idle, CallState
  <2>6. /\ mem' \in [Manager -> [Row -> Entity \cup {Absent}]]
        /\ \A n \in Manager \ {m} : mem'[n] = mem[n]
        /\ \A r \in Row : mem'[m][r] = IF r \in Updates(m) THEN BumpUpdatedAt(mem[m][r], now) ELSE mem[m][r]
        /\ lastNow' \in [Manager -> Nat] /\ clock' \in Nat
    BY <1>1, <2>2, BumpStep
  <2>7. TodoOk(call, mem'[m])
    <3> SUFFICES ASSUME NEW r \in Updates(m) \cup Deletes(m)
                 PROVE  mem'[m][r] # Absent /\ (mem'[m][r].deleted \/ Changed(mem'[m][r]) # {})
      BY <1>2 DEF TodoOk, CallState
    <3>1. r \in Row /\ mem[m][r] \in Entity /\ now \in Nat
      BY <1>1, NowsTypes DEF Updates, Deletes, Loaded, TypeOK
    <3>2. CASE r \in Updates(m)
      <4>1. mem'[m][r] = BumpUpdatedAt(mem[m][r], now)
        BY <3>1, <3>2, <2>6
      <4>2. Changed(mem[m][r]) # {}
        BY <3>2 DEF Updates
      <4> QED
        BY <3>1, <4>1, <4>2, BumpTypes, SpecialAssumption
    <3>3. CASE r \notin Updates(m)
      <4>1. mem'[m][r] = mem[m][r]
        BY <3>1, <3>3, <2>6
      <4> QED
        BY <3>1, <3>3, <4>1, SpecialAssumption DEF Deletes
    <3> QED
      BY <3>2, <3>3
  <2>8. flushes' \in Nat
    <3>1. flushes + 1 \in Nat /\ MaxFlushes \in Nat
      BY <1>1, TransactionsAssumption DEF TypeOK
    <3> QED
      BY <2>3, <3>1, MinOfTwo
  <2>9. calls' = [calls EXCEPT ![c] = call]
    BY <2>1
  <2> HIDE DEF call
  <2>10. txn' = txn /\ EachCallOk /\ UNCHANGED <<dbVars, edits, base>>
    BY DEF StartFlush, CallsInv
  <2>11. calls' \in [Call -> CallState] /\ EachCallOk'
    BY <1>1, <2>9, <2>4, <2>5, <2>6, <2>7, <2>10, OneCallStep
  <2>12. TypeOK'
    BY <1>1, <1>3, <2>6, <2>8, <2>10, <2>11 DEF TypeOK, dbVars
  <2> QED
    BY <2>10, <2>11, <2>12 DEF CallsInv, OpenIsTxn, OneWriter, WorkOnRows, Written, Owner, dbVars
<1> QED
  BY <1>4, <1>5

\* A row is written: it is free of other writers, and there was a row to update.
LEMMA WriteRowStep ==
  ASSUME CallsInv, NEW c \in Call, NEW r \in Row, WriteRow(c, r)
  PROVE  LET m == ManagerOf[c]  k == txn[m]  row == Latest(k, r) IN
         /\ k \in open /\ k \in Client /\ Owner(k) = m /\ calls[c].target = k
         /\ r \in calls[c].todo /\ mem[m][r] \in Entity
         /\ \A j \in Client \ {k} : work[j][r] = Untouched
         /\ calls' = [calls EXCEPT ![c] = [calls[c] EXCEPT !.todo = calls[c].todo \ {r}, !.missed = calls'[c].missed]]
         /\ calls'[c].missed \in BOOLEAN
         /\ \/ /\ mem[m][r].deleted /\ row # Gone /\ work' = [work EXCEPT ![k][r] = Gone]
               /\ (calls'[c].missed <=> calls[c].missed)
            \/ mem[m][r].deleted /\ row = Gone /\ work' = work /\ (calls'[c].missed <=> calls[c].missed)
            \/ /\ ~mem[m][r].deleted /\ Matches(m, r, row) /\ rows[r] # Gone
               /\ Updated(m, r, row) \in RowState /\ Changed(mem[m][r]) # {}
               /\ work' = [work EXCEPT ![k][r] = Updated(m, r, row)] /\ (calls'[c].missed <=> calls[c].missed)
            \/ ~mem[m][r].deleted /\ ~Matches(m, r, row) /\ work' = work /\ calls'[c].missed
<1> DEFINE m == ManagerOf[c]
           k == txn[m]
           row == Latest(k, r)
           written == CASE mem[m][r].deleted -> Gone
                        [] ~mem[m][r].deleted /\ Matches(m, r, row) -> Updated(m, r, row)
                        [] OTHER -> Untouched
<1> USE SpecialAssumption
<1>1. /\ CallOk(c, calls[c], k) /\ TodoOk(calls[c], mem[m]) /\ TypeOK /\ calls[c] \in CallState
      /\ m \in Manager /\ calls[c].pc = "writing" /\ calls[c].target \in open
      /\ r \in Next1(c) /\ Free(c, r)
  BY ClientTypes DEF CallsInv, EachCallOk, TypeOK, WriteRow
<1>2. calls[c].target = k /\ Owner(k) = m /\ k \in Client
  BY <1>1, ClientTypes DEF CallOk, TypeOK, CallState
<1>3. r \in calls[c].todo /\ mem[m][r] \in Entity /\ (mem[m][r].deleted \/ Changed(mem[m][r]) # {})
  <2>1. r \in calls[c].todo
    BY <1>1 DEF Next1
  <2> QED
    BY <1>1, <2>1 DEF TodoOk, Flushing, TypeOK
<1>4. \A j \in Client \ {k} : work[j][r] = Untouched
  BY <1>1, <1>2 DEF Free
<1>5. /\ work' = IF written = Untouched \/ (written = Gone /\ row = Gone) THEN work
                 ELSE [work EXCEPT ![k][r] = written]
      /\ calls' = [calls EXCEPT ![c].todo = @ \ {r}, ![c].missed = @ \/ written = Untouched]
  BY <1>2 DEF WriteRow
<1> HIDE DEF written
<1>6. /\ calls' = [calls EXCEPT ![c] = [calls[c] EXCEPT !.todo = calls[c].todo \ {r}, !.missed = calls'[c].missed]]
      /\ calls'[c].missed <=> calls[c].missed \/ written = Untouched
      /\ calls'[c].missed \in BOOLEAN
  BY <1>1, <1>5 DEF TypeOK, CallState
<1>7. CASE mem[m][r].deleted
  BY <1>1, <1>2, <1>3, <1>4, <1>5, <1>6, <1>7 DEF written
<1>8. CASE ~mem[m][r].deleted /\ Matches(m, r, row)
  <2>1. row # Gone /\ row = IF work[k][r] = Untouched THEN rows[r] ELSE work[k][r]
    BY <1>8 DEF Matches, Latest
  <2>2. rows[r] # Gone /\ rows[r] \in RowState /\ row \in RowState
    BY <1>1, <1>2, <2>1 DEF CallsInv, WorkOnRows, Written, TypeOK
  <2>3. Updated(m, r, row) \in RowState
    BY <1>1, <1>3, <2>2 DEF Updated, RowState, Entity, TypeOK
  <2>4. written = Updated(m, r, row) /\ written # Gone /\ written # Untouched
    BY <1>8, <2>3 DEF written
  <2>5. work' = [work EXCEPT ![k][r] = Updated(m, r, row)]
    BY <1>5, <2>4
  <2> QED
    BY <1>1, <1>2, <1>3, <1>4, <1>6, <1>8, <2>2, <2>3, <2>4, <2>5
<1>9. CASE ~mem[m][r].deleted /\ ~Matches(m, r, row)
  BY <1>1, <1>2, <1>3, <1>4, <1>5, <1>6, <1>9 DEF written
<1> QED
  BY <1>7, <1>8, <1>9

\* The writer of a row is the only one, and there was a row to update.
LEMMA CallsWriteRow ==
  ASSUME AwaitsItsCalls, CallsInv, NEW c \in Call, NEW r \in Row, WriteRow(c, r)
  PROVE  CallsInv'
<1> DEFINE m == ManagerOf[c]
           k == txn[m]
           call == [calls[c] EXCEPT !.todo = calls[c].todo \ {r}, !.missed = calls'[c].missed]
<1> USE SpecialAssumption
<1>1. /\ CallOk(c, calls[c], k) /\ TodoOk(calls[c], mem[m]) /\ TypeOK /\ calls[c] \in CallState /\ EachCallOk
      /\ UNCHANGED <<rows, open, txn, mem, timeVars, edits, started, flushes, base>>
  BY ClientTypes DEF CallsInv, EachCallOk, TypeOK, WriteRow
<1>2. /\ k \in open /\ k \in Client /\ calls' = [calls EXCEPT ![c] = call] /\ call \in CallState
      /\ \A j \in Client \ {k} : work[j][r] = Untouched
  BY <1>1, WriteRowStep DEF CallState
<1>3. CallOk(c, call, k) /\ TodoOk(call, mem[m])
  BY <1>1, <1>2 DEF CallOk, TodoOk, CallState
<1> HIDE DEF call
<1>4. calls' \in [Call -> CallState] /\ EachCallOk'
  BY <1>1, <1>2, <1>3, OneCallStep
<1> DEFINE row == Latest(k, r)
<1>5. \/ work' = work
      \/ work' = [work EXCEPT ![k][r] = Gone]
      \/ /\ rows[r] # Gone /\ Updated(m, r, row) \in RowState
         /\ work' = [work EXCEPT ![k][r] = Updated(m, r, row)]
  BY WriteRowStep
<1>6. /\ work' \in [Client -> [Row -> RowState \cup {Gone, Untouched}]]
      /\ \A j \in Client : j # k => work'[j] = work[j]
      /\ \A q \in Row : q # r => work'[k][q] = work[k][q]
      /\ work'[k][r] \notin {Untouched, Gone} => rows[r] # Gone
  <2>1. CASE work' = work
    BY <1>1, <1>2, <2>1 DEF TypeOK, Written, CallsInv, WorkOnRows
  <2>2. CASE work' = [work EXCEPT ![k][r] = Gone]
    BY <1>1, <1>2, <2>2 DEF TypeOK
  <2>3. ASSUME NEW w \in RowState, rows[r] # Gone, work' = [work EXCEPT ![k][r] = w]
        PROVE  /\ work' \in [Client -> [Row -> RowState \cup {Gone, Untouched}]]
               /\ \A j \in Client : j # k => work'[j] = work[j]
               /\ \A q \in Row : q # r => work'[k][q] = work[k][q]
    BY <1>1, <1>2, <2>3 DEF TypeOK
  <2> QED
    BY <1>5, <2>1, <2>2, <2>3
<1>7. TypeOK'
  BY <1>1, <1>2, <1>4, <1>6 DEF TypeOK, timeVars
<1>8. OneWriter'
  BY <1>2, <1>6 DEF OneWriter, CallsInv
<1>9. WorkOnRows'
  BY <1>1, <1>6 DEF WorkOnRows, CallsInv, Written
<1> QED
  BY <1>1, <1>4, <1>7, <1>8, <1>9 DEF CallsInv, OpenIsTxn, Owner

\* A call whose own transaction ends.
LEMMA OwnEndStep ==
  ASSUME AwaitsItsCalls, CallsInv, NEW c \in Call, NEW call \in CallState, NEW k \in {Inner(c), Outer(c)},
         txn[ManagerOf[c]] = k, Ended(k, ManagerOf[c]), calls' = [calls EXCEPT ![c] = call],
         \/ rows' = rows /\ base' = base
         \/ Committed(k, ManagerOf[c]),
         mem' \in [Manager -> [Row -> Entity \cup {Absent}]],
         \A m \in Manager \ {ManagerOf[c]} : mem'[m] = mem[m],
         UNCHANGED <<timeVars, edits, started, flushes>>,
         CallOk(c, call, None), TodoOk(call, mem'[ManagerOf[c]])
  PROVE  CallsInv'
<1> DEFINE m == ManagerOf[c]
<1>1. k \in Client /\ Owner(k) = m /\ m \in Manager /\ TypeOK /\ EachCallOk
  BY ClientTypes DEF CallsInv
<1>2. rows' = rows \/ rows' = Applied(k)
  BY DEF Committed
<1>3. /\ rows' \in [Row -> RowState \cup {Gone}]
      /\ work' \in [Client -> [Row -> RowState \cup {Gone, Untouched}]]
      /\ open' \subseteq Client /\ \A j \in Client : work'[j] # NoWork => j \in open'
      /\ txn' \in [Manager -> Client \cup {None}] /\ txn'[m] = None
      /\ \A n \in Manager \ {m} : txn'[n] = txn[n]
      /\ OpenIsTxn' /\ OneWriter' /\ WorkOnRows'
  BY <1>1, <1>2, EndedStep
<1>4. calls' \in [Call -> CallState] /\ EachCallOk'
  BY <1>1, <1>3, OneCallStep
<1>5. base' \in [Manager -> [Row -> Nat]]
  <2>1. CASE base' = base
    BY <1>1, <2>1 DEF TypeOK
  <2>2. CASE Committed(k, m)
    <3> DEFINE B == [r \in Row |-> IF work[k][r] # Untouched /\ work[k][r] # Gone
                                   THEN work[k][r].version ELSE base[m][r]]
    <3>1. base' = [base EXCEPT ![m] = B]
      BY <1>1, <2>2 DEF Committed, TypeOK
    <3>2. B \in [Row -> Nat]
      BY <1>1 DEF TypeOK, RowState
    <3> HIDE DEF B
    <3> QED
      BY <1>1, <3>1, <3>2 DEF TypeOK
  <2> QED
    BY <2>1, <2>2
<1>6. TypeOK'
  BY <1>1, <1>3, <1>4, <1>5 DEF TypeOK, timeVars
<1> QED
  BY <1>3, <1>4, <1>6 DEF CallsInv

\* What a client commits, as the rows and the versions seen become.
LEMMA CallsFlushWritten ==
  ASSUME AwaitsItsCalls, CallsInv, NEW c \in Call, FlushWritten(c)
  PROVE  CallsInv'
<1> DEFINE m == ManagerOf[c]
           k == txn[m]
           call == [calls[c] EXCEPT !.pc = "reset"]
<1>1. /\ CallOk(c, calls[c], k) /\ TypeOK /\ calls[c] \in CallState
      /\ UNCHANGED <<mem, timeVars, edits, started, flushes>> /\ calls[c].pc = "writing"
  BY DEF CallsInv, EachCallOk, TypeOK, FlushWritten
<1>2. calls[c].target = k /\ k \in {Inner(c), Outer(c)}
  BY <1>1 DEF CallOk, CallState
<1>3. calls' = [calls EXCEPT ![c] = call] /\ call \in CallState
  BY <1>1 DEF FlushWritten, CallState, InFlush
<1>4. TodoOk(call, mem[m])
  BY <1>1 DEF TodoOk, Flushing, CallState
<1>5. CASE k = Inner(c)
  <2>1. Committed(k, m) /\ Ended(k, m)
    BY <1>2, <1>5 DEF FlushWritten
  <2>2. CallOk(c, call, None)
    BY <1>1, <1>5, ClientTypes DEF CallOk, CallState
  <2>3. mem' = mem /\ mem \in [Manager -> [Row -> Entity \cup {Absent}]]
    BY <1>1 DEF TypeOK
  <2> HIDE DEF call
  <2> QED
    BY <1>1, <1>2, <1>3, <1>4, <2>1, <2>2, <2>3, OwnEndStep
<1>6. CASE k = Outer(c)
  <2>1. UNCHANGED <<dbVars, txn, base>> /\ started' \in Nat
    BY <1>1, <1>2, <1>6, ClientTypes DEF FlushWritten, TypeOK
  <2>2. CallOk(c, call, k)
    BY <1>1, <1>6, ClientTypes DEF CallOk, CallState
  <2> HIDE DEF call
  <2> QED
    BY <1>1, <1>3, <1>4, <2>1, <2>2, CallOnlyStep
<1> QED
  BY <1>2, <1>5, <1>6

\* What a manager saves is still an entity, or is not in memory any more.
LEMMA ResetTypes ==
  ASSUME NEW e \in Entity
  PROVE  /\ ResetAfterFlushed(e) \in Entity \cup {Absent}
         /\ ResetAfterFlushed(Absent) = Absent
         /\ e.deleted => ResetAfterFlushed(e) = Absent
         /\ ~e.deleted => /\ ResetAfterFlushed(e) # Absent
                          /\ ResetAfterFlushed(e) = [e EXCEPT !.orig = e.vals, !.original = e.stamp]
                          /\ ResetAfterFlushed(e).orig = e.vals /\ ResetAfterFlushed(e).vals = e.vals
                          /\ ResetAfterFlushed(e).stamp = e.stamp /\ ResetAfterFlushed(e).original = e.stamp
                          /\ ~ResetAfterFlushed(e).deleted
BY SpecialAssumption DEF ResetAfterFlushed, Entity

\* A call that goes on in its transaction, or ends, after a flush.
LEMMA ReturnedOk ==
  ASSUME NEW c \in Call, NEW call \in CallState, NEW t, NEW memory, CallOk(c, call, t),
         call.pc = "reset"
  PROVE  CallOk(c, Returned(call), t) /\ TodoOk(Returned(call), memory)
<1>1. CASE call.kind = "flush"
  BY <1>1 DEF CallOk, TodoOk, Returned, Idle, Flushing
<1>2. CASE call.kind = "transaction" /\ call.last
  <2>1. Returned(call) = [call EXCEPT !.pc = "commit"]
    BY <1>2 DEF CallOk, Returned
  <2> QED
    BY <1>2, <2>1 DEF CallOk, TodoOk, CallState, Flushing
<1>3. CASE call.kind = "transaction" /\ ~call.last
  <2>1. Returned(call) = [call EXCEPT !.pc = "inside", !.target = None, !.missed = FALSE, !.todo = {}]
    BY <1>3 DEF CallOk, Returned
  <2> QED
    BY <1>3, <2>1 DEF CallOk, TodoOk, CallState, Flushing
<1> QED
  BY <1>1, <1>2, <1>3 DEF CallOk, CallState

\* A flush ends when its entities are saved.
LEMMA CallsReset ==
  ASSUME AwaitsItsCalls, CallsInv, NEW c \in Call, Reset(c)
  PROVE  CallsInv'
<1> DEFINE m == ManagerOf[c]
           t == txn[m]
           M == [r \in Row |-> ResetAfterFlushed(mem[m][r])]
<1>1. /\ CallOk(c, calls[c], t) /\ TypeOK /\ EachCallOk /\ calls[c] \in CallState /\ m \in Manager
      /\ UNCHANGED <<dbVars, txn, timeVars, edits, started, flushes, base>> /\ calls[c].pc = "reset"
  BY ClientTypes DEF CallsInv, EachCallOk, TypeOK, Reset
<1>2. mem' = [mem EXCEPT ![m] = M]
  BY <1>1 DEF Reset
<1>3. M \in [Row -> Entity \cup {Absent}]
  <2>1. ResetAfterFlushed(Absent) = Absent
    BY DEF ResetAfterFlushed
  <2>2. \A r \in Row : mem[m][r] \in Entity \cup {Absent}
    BY <1>1 DEF TypeOK
  <2> QED
    BY <2>1, <2>2, ResetTypes
<1> HIDE DEF M
<1>4. mem' \in [Manager -> [Row -> Entity \cup {Absent}]] /\ \A n \in Manager \ {m} : mem'[n] = mem[n]
  BY <1>1, <1>2, <1>3, OneMemory
<1>5. calls' = [calls EXCEPT ![c] = Returned(calls[c])]
  BY DEF Reset
<1>6. calls' \in [Call -> CallState] /\ EachCallOk'
  BY <1>1, <1>4, <1>5, CallTypes, ReturnedOk, OneCallStep
<1>7. TypeOK'
  BY <1>1, <1>4, <1>6 DEF TypeOK, dbVars, timeVars
<1> QED
  BY <1>1, <1>6, <1>7 DEF CallsInv, OpenIsTxn, OneWriter, WorkOnRows, Written, Owner, dbVars

\* A flush that throws, or is caught, leaves a call that is about to roll back, goes on or has ended.
LEMMA CallsFlushThrows ==
  ASSUME AwaitsItsCalls, CallsInv, NEW c \in Call, NEW call, calls[c].pc \in InFlush,
         \/ call \in {Threw(calls[c]), Returned(calls[c])}
         \/ call = Caught(calls[c]) /\ calls[c].kind = "transaction",
         FlushThrows(c, {call})
  PROVE  CallsInv'
<1> DEFINE m == ManagerOf[c]
           t == txn[m]
<1>1. /\ CallOk(c, calls[c], t) /\ TypeOK /\ EachCallOk /\ calls[c] \in CallState /\ m \in Manager
      /\ UNCHANGED <<rows, mem, timeVars, edits, started, flushes, base>>
      /\ calls' = [calls EXCEPT ![c] = call] /\ calls[c].kind \in {"flush", "transaction"}
  BY ClientTypes DEF CallsInv, EachCallOk, TypeOK, FlushThrows, CallOk, CallState, InFlush
<1>2. call \in CallState
  BY <1>1, CallTypes
<1>3. CASE calls[c].kind = "flush"
  <2>1. call = Idle
    BY <1>3 DEF Threw, Returned
  <2>2. CallOk(c, call, None) /\ TodoOk(call, mem[m])
    BY <2>1 DEF CallOk, TodoOk, Idle, Flushing
  <2>3. CASE calls[c].pc = "writing"
    <3>1. calls[c].target = t /\ t = Inner(c) /\ Ended(Inner(c), m)
      BY <1>1, <1>3, <2>3 DEF CallOk, FlushThrows
    <3>2. mem' = mem /\ mem \in [Manager -> [Row -> Entity \cup {Absent}]]
      BY <1>1 DEF TypeOK
    <3> QED
      BY <1>1, <1>2, <2>2, <3>1, <3>2, OwnEndStep
  <2>4. CASE calls[c].pc # "writing"
    <3>1. t = None /\ UNCHANGED <<dbVars, txn, mem, timeVars, edits, flushes, base>> /\ started' \in Nat
      BY <1>1, <1>3, <2>4 DEF CallOk, FlushThrows, InFlush, dbVars, TypeOK
    <3> QED
      BY <1>1, <1>2, <2>2, <3>1, CallOnlyStep
  <2> QED
    BY <2>3, <2>4
<1>4. CASE calls[c].kind = "transaction"
  <2>1. t = Outer(c) /\ ~calls[c].joined
    BY <1>1, <1>4 DEF CallOk, InFlush
  <2>2. \/ call = [calls[c] EXCEPT !.pc = "rollback", !.target = None, !.todo = {}, !.missed = FALSE]
        \/ call = [calls[c] EXCEPT !.pc = "inside", !.target = None, !.todo = {}, !.missed = FALSE]
        \/ call = [calls[c] EXCEPT !.pc = "inside", !.target = None, !.missed = FALSE, !.todo = {}]
        \/ call = [calls[c] EXCEPT !.pc = "commit"]
    BY <1>1, <1>4, <2>1 DEF Threw, Caught, Returned
  <2>3. CallOk(c, call, t) /\ TodoOk(call, mem[m])
    BY <1>1, <1>4, <2>1, <2>2 DEF CallOk, TodoOk, Flushing, CallState
  <2>4. ~(calls[c].target = Inner(c) /\ calls[c].pc = "writing")
    BY <1>1, <2>1, ClientTypes DEF CallOk
  <2>5. UNCHANGED <<dbVars, txn, mem, timeVars, edits, flushes, base>> /\ started' \in Nat
    BY <1>1, <2>4 DEF FlushThrows, dbVars, TypeOK
  <2> QED
    BY <1>1, <1>2, <2>3, <2>5, CallOnlyStep
<1> QED
  BY <1>1, <1>3, <1>4

\* The ways in which a flush throws.
LEMMA ThrowingStep ==
  ASSUME NEW c \in Call, OplockFailure(c) \/ DeadlockDetected(c) \/ FlushFails(c) \/ DryRunEnds(c)
  PROVE  /\ calls[c].pc \in InFlush
         /\ \E call : /\ \/ call = Threw(calls[c])
                         \/ call = Returned(calls[c]) /\ DryRunEnds(c)
                         \/ /\ call = Caught(calls[c]) /\ calls[c].kind = "transaction" /\ Catches
                            /\ calls[c].pc = "writing" /\ ~calls[c].last
                      /\ FlushThrows(c, {call})
<1>1. CASE OplockFailure(c)
  <2>1. PICK call \in {Threw(calls[c])} \cup {x \in {Caught(calls[c])} : /\ Catches /\ ~calls[c].last
                                                                        /\ calls[c].kind = "transaction"} :
          calls' = [calls EXCEPT ![c] = call]
    BY <1>1 DEF OplockFailure, FlushThrows
  <2>2. FlushThrows(c, {call}) /\ calls[c].pc = "writing"
    BY <1>1, <2>1 DEF OplockFailure, FlushThrows
  <2> QED
    BY <2>1, <2>2 DEF InFlush
<1>2. CASE DeadlockDetected(c)
  BY <1>2 DEF DeadlockDetected, Blocked, InFlush
<1>3. CASE FlushFails(c)
  BY <1>3 DEF FlushFails
<1>4. CASE DryRunEnds(c)
  BY <1>4 DEF DryRunEnds, InFlush
<1> QED
  BY <1>1, <1>2, <1>3, <1>4

\* A lambda that throws leaves its transaction to be rolled back.
LEMMA CallsLambdaFails ==
  ASSUME AwaitsItsCalls, CallsInv, NEW c \in Call, LambdaFails(c)
  PROVE  CallsInv'
<1> DEFINE m == ManagerOf[c]
<1>1. /\ CallOk(c, calls[c], txn[m]) /\ TypeOK /\ calls[c] \in CallState
      /\ UNCHANGED <<dbVars, txn, mem, timeVars, edits, flushes, base>> /\ started' \in Nat
      /\ calls[c].pc \in {"inside", "commit"} /\ calls' = [calls EXCEPT ![c] = Threw(calls[c])]
  BY DEF CallsInv, EachCallOk, TypeOK, LambdaFails
<1>2. Threw(calls[c]) \in CallState
  BY <1>1, CallTypes
<1>3. Threw(calls[c]) = [calls[c] EXCEPT !.pc = "rollback", !.target = None, !.todo = {}, !.missed = FALSE]
  BY <1>1 DEF CallOk, Threw
<1>4. CallOk(c, Threw(calls[c]), txn[m]) /\ TodoOk(Threw(calls[c]), mem[m])
  BY <1>1, <1>3 DEF CallOk, TodoOk, Flushing, CallState
<1> QED
  BY <1>1, <1>2, <1>4, CallOnlyStep

\* With em.transaction ends the transaction that em.txn names.
LEMMA CallsEnds ==
  ASSUME AwaitsItsCalls, CallsInv, NEW c \in Call, Commit(c) \/ Rollback(c)
  PROVE  CallsInv'
<1> DEFINE m == ManagerOf[c]
<1>1. /\ CallOk(c, calls[c], txn[m]) /\ TypeOK /\ m \in Manager /\ calls[c].pc \in {"commit", "rollback"}
      /\ calls' = [calls EXCEPT ![c] = Idle] /\ Idle \in CallState /\ Ended(Outer(c), m)
      /\ UNCHANGED <<timeVars, edits, started, flushes>>
  BY ClientTypes, CallTypes DEF CallsInv, EachCallOk, TypeOK, Commit, Rollback
<1>2. txn[m] = Outer(c)
  BY <1>1 DEF CallOk
<1>3. (rows' = rows /\ base' = base) \/ Committed(Outer(c), m)
  BY DEF Commit, Rollback
<1>4. /\ mem' \in [Manager -> [Row -> Entity \cup {Absent}]]
      /\ \A n \in Manager \ {m} : mem'[n] = mem[n]
  BY <1>1 DEF Commit, Rollback, TypeOK
<1>5. CallOk(c, Idle, None) /\ TodoOk(Idle, mem'[m])
  BY DEF CallOk, TodoOk, Idle, Flushing
<1> QED
  BY <1>1, <1>2, <1>3, <1>4, <1>5, OwnEndStep

\* A step that changes nothing.
LEMMA CallsStutter == CallsInv /\ UNCHANGED vars => CallsInv'
BY DEF CallsInv, TypeOK, EachCallOk, OpenIsTxn, OneWriter, WorkOnRows, Written, Owner, vars, dbVars, timeVars

\* The first layer is inductive.
LEMMA CallsStep == ASSUME AwaitsItsCalls, CallsInv, [Next]_vars PROVE CallsInv'
<1>1. CASE \E m \in Manager : Find(m) \/ Refresh(m) \/ Edit(m)
  BY <1>1, CallsApplication
<1>2. ASSUME NEW c \in Call, StartTransaction(c) PROVE CallsInv'
  BY <1>2, CallsStartTransaction
<1>3. ASSUME NEW c \in Call, StartFlush(c, FALSE) \/ StartFlush(c, TRUE) PROVE CallsInv'
  BY <1>3, CallsStartFlush
<1>4. ASSUME NEW c \in Call, Begin(c) \/ BeginFlush(c) \/ JoinOrConnect(c) PROVE CallsInv'
  BY <1>4, CallsBegin, CallsBeginFlush, CallsJoinOrConnect
<1>5. ASSUME NEW c \in Call, NEW r \in Row, WriteRow(c, r) PROVE CallsInv'
  BY <1>5, CallsWriteRow
<1>6. ASSUME NEW c \in Call, FlushWritten(c) \/ Reset(c) \/ Commit(c) \/ Rollback(c) PROVE CallsInv'
  BY <1>6, CallsFlushWritten, CallsReset, CallsEnds
<1>7. ASSUME NEW c \in Call, OplockFailure(c) \/ DeadlockDetected(c) \/ FlushFails(c) \/ DryRunEnds(c)
      PROVE  CallsInv'
  BY <1>7, ThrowingStep, CallsFlushThrows
<1>8. ASSUME NEW c \in Call, LambdaFails(c) PROVE CallsInv'
  BY <1>8, CallsLambdaFails
<1>9. CASE UNCHANGED vars
  BY <1>9, CallsStutter
<1> QED
  BY <1>1, <1>2, <1>3, <1>4, <1>5, <1>6, <1>7, <1>8, <1>9 DEF Next, Step

\* The first layer, as an invariant.
LEMMA CallsAlways == ASSUME AwaitsItsCalls PROVE Spec => []CallsInv
<1>1. CallsInv /\ [Next]_vars => CallsInv'
  BY CallsStep
<1> QED
  BY <1>1, CallsInit, PTL DEF Spec

\* Variables keep their types, and what is not committed belongs to a transaction that is
\* open, if the application awaits its calls.
THEOREM TypeCorrect == ASSUME AwaitsItsCalls PROVE Spec => []TypeOK
<1>1. CallsInv => TypeOK
  BY DEF CallsInv
<1> QED
  BY <1>1, CallsAlways, PTL

\* Rows, and the versions they are known by, change when entities are read and when a flush
\* or em.transaction commits.
LEMMA OnlyCommits ==
  ASSUME [Next]_vars
  PROVE  \/ UNCHANGED <<rows, base>>
         \/ UNCHANGED rows /\ \E m \in Manager, R \in SUBSET Row : Hydrate(m, R)
         \/ \E c \in Call : FlushWritten(c) \/ Commit(c)
<1>1. ASSUME NEW m \in Manager, Find(m) \/ Refresh(m)
      PROVE  UNCHANGED rows /\ \E R \in SUBSET Row : Hydrate(m, R)
  <2>1. Row \ Loaded(m) \in SUBSET Row /\ Loaded(m) \ Deletes(m) \in SUBSET Row
    BY DEF Loaded
  <2> QED
    BY <1>1, <2>1 DEF Find, Refresh, dbVars
<1>2. ASSUME NEW m \in Manager, Edit(m) PROVE UNCHANGED <<rows, base>>
  BY <1>2 DEF Edit, dbVars
<1>3. ASSUME NEW c \in Call, StartTransaction(c) \/ StartFlush(c, FALSE) \/ StartFlush(c, TRUE)
      PROVE  UNCHANGED <<rows, base>>
  BY <1>3 DEF StartTransaction, StartFlush, dbVars
<1>4. ASSUME NEW c \in Call, Begin(c) \/ BeginFlush(c) \/ JoinOrConnect(c) \/ Reset(c) \/ Rollback(c) \/ LambdaFails(c)
      PROVE  UNCHANGED <<rows, base>>
  BY <1>4 DEF Begin, BeginFlush, JoinOrConnect, Reset, Rollback, LambdaFails, dbVars
<1>5. ASSUME NEW c \in Call, NEW r \in Row, WriteRow(c, r) PROVE UNCHANGED <<rows, base>>
  BY <1>5 DEF WriteRow
<1>6. ASSUME NEW c \in Call, OplockFailure(c) \/ DeadlockDetected(c) \/ FlushFails(c) \/ DryRunEnds(c)
      PROVE  UNCHANGED <<rows, base>>
  BY <1>6, ThrowingStep DEF FlushThrows
<1>7. CASE UNCHANGED vars
  BY <1>7 DEF vars, dbVars
<1> QED
  BY <1>1, <1>2, <1>3, <1>4, <1>5, <1>6, <1>7 DEF Next, Step

\* A flush in the lambda of em.transaction commits nothing: what its manager wrote is
\* committed with the transaction, at its end, or not at all.
THEOREM CommitsOnce == ASSUME AwaitsItsCalls PROVE Spec => TransactionCommitsOnce
<1> DEFINE Once == \A c \in Call :
             (/\ calls[c].kind = "transaction"
              /\ calls[c].pc \notin {"connect", "commit"}
              /\ base'[ManagerOf[c]] # base[ManagerOf[c]])
             => UNCHANGED rows
<1>1. ASSUME CallsInv, [Next]_vars PROVE Once
  <2> SUFFICES ASSUME NEW c \in Call, calls[c].kind = "transaction", calls[c].pc \notin {"connect", "commit"},
                      ~UNCHANGED rows
               PROVE  base'[ManagerOf[c]] = base[ManagerOf[c]]
    OBVIOUS
  <2>1. TypeOK /\ ManagerOf[c] \in Manager /\ txn[ManagerOf[c]] = Outer(c)
    BY <1>1, ClientTypes DEF CallsInv, EachCallOk, CallOk
  <2>2. base' = base \/ \E d \in Call : FlushWritten(d) \/ Commit(d)
    BY <1>1, OnlyCommits
  <2> SUFFICES ASSUME NEW d \in Call, FlushWritten(d) \/ Commit(d)
               PROVE  base'[ManagerOf[c]] = base[ManagerOf[c]]
    BY <2>2
  <2>3. ManagerOf[d] # ManagerOf[c]
    <3>1. CASE d = c
      <4>1. calls[c].pc = "writing" /\ calls[c].target = Inner(c)
        BY <3>1 DEF FlushWritten, Commit, dbVars
      <4> QED
        BY <1>1, <2>1, <4>1, ClientTypes DEF CallsInv, EachCallOk, CallOk
    <3> QED
      BY <3>1 DEF AwaitsItsCalls
  <2>4. base' = base \/ \E B : base' = [base EXCEPT ![ManagerOf[d]] = B]
    BY DEF FlushWritten, Commit, Committed
  <2> QED
    BY <2>1, <2>3, <2>4 DEF TypeOK
<1>2. CallsInv /\ [Next]_vars => [Once]_vars
  BY <1>1
<1> QED
  BY <1>2, CallsAlways, PTL DEF Spec, TransactionCommitsOnce

----------------------------------------------------------------------------
(* Dry runs. *)

\* A call of em.flush stays one, and a flush is a dry run only where its manager may make one.
LEMMA DryStep == ASSUME CallsInv, DryOk, [Next]_vars PROVE DryOk'
<1>1. ASSUME NEW c \in Call, NEW call, calls' = [calls EXCEPT ![c] = call],
             call.dry => calls[c].dry \/ ManagerOf[c] \in DryRun,
             call.kind = "transaction" => calls[c].kind = "transaction" \/ c \in Lambdas
      PROVE  DryOk'
  <2>1. calls'[c] = call /\ \A d \in Call \ {c} : calls'[d] = calls[d]
    BY <1>1 DEF CallsInv, TypeOK
  <2> QED
    BY <1>1, <2>1, Zenon DEF DryOk
<1>2. \A c \in Call : calls[c] \in CallState
  BY DEF CallsInv, TypeOK
<1>3. Idle.dry = FALSE /\ Idle.kind = "none"
  BY DEF Idle
<1>4. ASSUME NEW call \in CallState
      PROVE  /\ Threw(call) = Idle \/ (Threw(call).dry = call.dry /\ Threw(call).kind = call.kind)
             /\ Returned(call) = Idle \/ (Returned(call).dry = call.dry /\ Returned(call).kind = call.kind)
             /\ Caught(call).dry = call.dry /\ Caught(call).kind = call.kind
  BY DEF CallState, Threw, Returned, Caught
<1>5. ASSUME NEW c \in Call, NEW call \in {Idle, Threw(calls[c]), Returned(calls[c]), Caught(calls[c])},
              calls' = [calls EXCEPT ![c] = call]
       PROVE  DryOk'
  <2>1. call = Idle \/ (call.dry = calls[c].dry /\ call.kind = calls[c].kind)
    BY <1>2, <1>4
  <2>2. call.dry => calls[c].dry
    BY <1>3, <2>1, Zenon
  <2>3. call.kind = "transaction" => calls[c].kind = "transaction"
    BY <1>3, <2>1
  <2> QED
    BY <1>1, <1>5, <2>2, <2>3, Zenon
<1>6. ASSUME UNCHANGED calls PROVE DryOk'
  BY <1>6 DEF DryOk
<1>7. ASSUME NEW c \in Call, StartTransaction(c) PROVE DryOk'
  <2>1. PICK call \in {[Idle EXCEPT !.pc = "connect", !.kind = "transaction"],
                       [Idle EXCEPT !.pc = "inside", !.kind = "transaction", !.joined = TRUE]} :
          calls' = [calls EXCEPT ![c] = call] /\ c \in Lambdas
    BY <1>7 DEF StartTransaction
  <2>2. ~call.dry
    BY <2>1 DEF Idle
  <2> QED
    BY <1>1, <2>1, <2>2
<1>8. ASSUME NEW c \in Call, NEW last \in BOOLEAN, StartFlush(c, last) PROVE DryOk'
  <2>1. /\ Starting(c, last) \in CallState
        /\ Starting(c, last).dry => calls[c].dry
        /\ Starting(c, last).kind = "transaction" => calls[c].kind = "transaction"
    BY <1>2, SpecialAssumption DEF Starting, Idle, CallState, InFlush
  <2>2. CASE calls' = [calls EXCEPT ![c] = Returned(Starting(c, last))]
    BY <1>1, <1>3, <1>4, <2>1, <2>2
  <2>3. CASE calls' # [calls EXCEPT ![c] = Returned(Starting(c, last))]
    <3> DEFINE todo == Updates(ManagerOf[c]) \cup Deletes(ManagerOf[c])
    <3>1. PICK dry \in BOOLEAN :
            /\ dry => ManagerOf[c] \in DryRun
            /\ calls' = [calls EXCEPT ![c] = [Starting(c, last) EXCEPT !.pc = "flush", !.dry = dry, !.todo = todo]]
      BY <1>8, <2>3 DEF StartFlush, Starting
    <3> DEFINE call == [Starting(c, last) EXCEPT !.pc = "flush", !.dry = dry, !.todo = todo]
    <3>2. call.dry = dry /\ call.kind = Starting(c, last).kind /\ calls' = [calls EXCEPT ![c] = call]
      BY <2>1, <3>1 DEF CallState
    <3> HIDE DEF call
    <3> QED
      BY <1>1, <2>1, <3>1, <3>2
  <2> QED
    BY <2>2, <2>3
<1>9. ASSUME NEW c \in Call,
             \/ Begin(c) \/ JoinOrConnect(c) \/ BeginFlush(c) \/ FlushWritten(c)
             \/ \E r \in Row : WriteRow(c, r)
      PROVE  DryOk'
  <2>1. calls \in [Call -> CallState]
    BY DEF CallsInv, TypeOK
  <2>2. calls'[c].dry = calls[c].dry /\ calls'[c].kind = calls[c].kind
    <3>1. CASE JoinOrConnect(c)
      <4>1. \/ calls'[c] = [calls[c] EXCEPT !.pc = "writing", !.target = txn[ManagerOf[c]]]
            \/ calls'[c] = [calls[c] EXCEPT !.pc = "connectFlush"]
        BY <2>1, <3>1 DEF JoinOrConnect
      <4> QED
        BY <1>2, <4>1 DEF CallState
    <3>2. CASE Begin(c) \/ BeginFlush(c) \/ FlushWritten(c)
      BY <2>1, <3>2 DEF Begin, BeginFlush, FlushWritten, CallState
    <3>3. CASE \E r \in Row : WriteRow(c, r)
      BY <2>1, <3>3 DEF WriteRow, CallState
    <3> QED
      BY <1>9, <3>1, <3>2, <3>3
  <2>3. \A d \in Call \ {c} : calls'[d] = calls[d]
    BY <1>9, <2>1 DEF Begin, JoinOrConnect, BeginFlush, WriteRow, FlushWritten
  <2> QED
    BY <2>2, <2>3, Zenon DEF DryOk
<1>10. ASSUME NEW c \in Call, Reset(c) \/ LambdaFails(c) \/ Commit(c) \/ Rollback(c) PROVE DryOk'
  <2>1. PICK call \in {Idle, Threw(calls[c]), Returned(calls[c])} : calls' = [calls EXCEPT ![c] = call]
    BY <1>10 DEF Reset, LambdaFails, Commit, Rollback
  <2> QED
    BY <1>5, <2>1
<1>11. ASSUME NEW c \in Call, OplockFailure(c) \/ DeadlockDetected(c) \/ FlushFails(c) \/ DryRunEnds(c)
       PROVE  DryOk'
  <2>1. PICK call \in {Threw(calls[c]), Returned(calls[c]), Caught(calls[c])} : calls' = [calls EXCEPT ![c] = call]
    BY <1>11, ThrowingStep DEF FlushThrows
  <2> QED
    BY <1>5, <2>1
<1>12. ASSUME NEW m \in Manager, Find(m) \/ Refresh(m) \/ Edit(m) PROVE UNCHANGED calls
  BY <1>12 DEF Find, Refresh, Edit
<1>13. CASE UNCHANGED vars
  BY <1>6, <1>13 DEF vars
<1> QED
  BY <1>6, <1>7, <1>8, <1>9, <1>10, <1>11, <1>12, <1>13 DEF Next, Step

\* Who may make dry runs, as an invariant.
LEMMA DryAlways == ASSUME AwaitsItsCalls PROVE Spec => []DryOk
<1>1. Init => DryOk
  BY DEF Init, DryOk, Idle
<1>2. CallsInv /\ DryOk /\ [Next]_vars => DryOk'
  BY DryStep
<1> QED
  BY <1>1, <1>2, CallsAlways, PTL DEF Spec

\* What a dry run of em.flush has written stays uncommitted as long as it lasts, whoever else
\* flushes, waits for its rows or commits: if no manager that makes dry runs calls
\* em.transaction, which would commit what they wrote.
THEOREM DryRunsHarmless ==
  ASSUME AwaitsItsCalls, DryRunsAlone
  PROVE  Spec => DryRunCommitsNothing
<1> DEFINE Harmless == \A c \in Call, r \in Row :
             calls[c].dry /\ (\E k \in {Outer(c), Inner(c)} : work[k][r] # Untouched)
             => rows'[r] = rows[r]
<1>1. ASSUME CallsInv, DryOk, [Next]_vars PROVE Harmless
  <2> SUFFICES ASSUME NEW c \in Call, NEW r \in Row, calls[c].dry,
                      NEW k \in {Outer(c), Inner(c)}, work[k][r] # Untouched, rows'[r] # rows[r]
               PROVE  FALSE
    OBVIOUS
  <2>1. calls[c].kind # "transaction"
    BY <1>1, Zenon DEF DryOk, DryRunsAlone
  <2>2. calls[c].kind # "transaction" /\ TypeOK /\ CallOk(c, calls[c], txn[ManagerOf[c]])
    BY <1>1, <2>1, Zenon DEF CallsInv, EachCallOk
  <2>3. PICK d \in Call : FlushWritten(d) \/ Commit(d)
    BY <1>1, OnlyCommits
  \* Whose work on the row is committed.
  <2>4. PICK j \in {Outer(d), Inner(d)} : rows' = Applied(j)
    BY <2>3 DEF FlushWritten, Commit, Committed, dbVars
  <2>5. work[j][r] # Untouched
    BY <2>4 DEF Applied, Latest
  <2>6. j = k
    BY <1>1, <2>5, ClientTypes DEF CallsInv, OneWriter
  <2>7. c = d
    BY <2>6 DEF Inner, Outer
  <2>8. ~FlushWritten(c)
    BY DEF FlushWritten, Rehearses
  <2>9. ~Commit(c)
    BY <2>2 DEF CallOk, Commit
  <2> QED
    BY <2>3, <2>7, <2>8, <2>9
<1>2. CallsInv /\ DryOk /\ [Next]_vars => [Harmless]_vars
  BY <1>1
<1> QED
  BY <1>2, CallsAlways, DryAlways, PTL DEF Spec, DryRunCommitsNothing

----------------------------------------------------------------------------
(* The second layer: versions and stamps. *)

\* Every stamp is that of the rows as they were read.
LEMMA LockInit == ASSUME Init PROVE LockInv
<1> USE DEF Init, NoWork
<1>1. \A m \in Manager, r \in Row : mem[m][r].stamp = 1 /\ mem[m][r].original = 1
  BY DEF Hydrated
<1>2. WorkIsNext /\ WorkIsPrivate
  BY DEF WorkIsNext, WorkIsPrivate, Written
<1>3. StampsPast
  BY <1>1 DEF StampsPast, Stamps, Written
<1>4. StampIsVersion
  BY <1>1 DEF StampIsVersion, Stamps
<1>5. TodoIsPrivate
  BY DEF TodoIsPrivate, Idle, Flushing
<1> QED
  BY <1>2, <1>3, <1>4, <1>5 DEF LockInv

\* A step in which nothing is written, read or stamped: work and stamps may only go away.
LEMMA LessStep ==
  ASSUME CallsInv, LockInv, UNCHANGED <<rows, base, timeVars>>,
         \A k \in Client, r \in Row : Written(k, r)' => Written(k, r) /\ work'[k][r] = work[k][r],
         \A m \in Manager, r \in Row : Stamps(m, r)' \subseteq Stamps(m, r),
         \A c \in Call : calls'[c].pc \in Flushing =>
           calls[c].pc \in Flushing /\ calls'[c].todo \subseteq calls[c].todo /\ mem'[ManagerOf[c]] = mem[ManagerOf[c]]
  PROVE  LockInv'
<1> USE DEF LockInv, timeVars
<1>1. WorkIsNext'
  BY DEF WorkIsNext, Owner
<1>2. StampsPast'
  BY DEF StampsPast
<1>3. StampIsVersion'
  BY DEF StampIsVersion
<1>4. WorkIsPrivate'
  BY DEF WorkIsPrivate, Owner
<1>5. TodoIsPrivate'
  <2> SUFFICES ASSUME NEW c \in Call, calls'[c].pc \in Flushing, NEW r \in calls'[c].todo,
                      ~mem[ManagerOf[c]][r].deleted
               PROVE  Private(ManagerOf[c], r, mem[ManagerOf[c]][r].stamp)'
    BY DEF TodoIsPrivate
  <2>1. r \in Row /\ Private(ManagerOf[c], r, mem[ManagerOf[c]][r].stamp)
    BY DEF TodoIsPrivate, CallsInv, TypeOK, CallState
  <2>2. mem'[ManagerOf[c]] = mem[ManagerOf[c]]
    OBVIOUS
  <2> QED
    BY <2>1, <2>2 DEF Private
<1> QED
  BY <1>1, <1>2, <1>3, <1>4, <1>5

\* Entities are read: their stamps are those of the rows, or of what the manager itself wrote.
LEMMA LockHydrate ==
  ASSUME CallsInv, LockInv, NEW m \in Manager, NEW R \in SUBSET Row, Hydrate(m, R), Runs(m),
         UNCHANGED <<dbVars, txn, calls, timeVars>>
  PROVE  LockInv'
<1> USE DEF LockInv, timeVars, dbVars
<1>1. /\ \A n \in Manager \ {m} : mem'[n] = mem[n] /\ base'[n] = base[n]
      /\ \A r \in Row : base'[m][r] = IF r \in R /\ View(m, r) # Gone /\ rows[r] # Gone
                                      THEN rows[r].version ELSE base[m][r]
      /\ \A r \in Row : mem'[m][r] = CASE r \in R /\ View(m, r) # Gone -> Hydrated(View(m, r))
                                       [] r \in R /\ View(m, r) = Gone -> Absent
                                       [] OTHER -> mem[m][r]
  BY HydrateStep DEF CallsInv
<1>2. ASSUME NEW r \in Row, View(m, r) # Gone
      PROVE  View(m, r) = rows[r] \/ \E k \in Client : Owner(k) = m /\ Written(k, r) /\ View(m, r) = work[k][r]
  <2>1. CASE txn[m] = None
    BY <2>1 DEF View
  <2>2. CASE txn[m] # None
    <3>1. txn[m] \in Client /\ Owner(txn[m]) = m
      BY <2>2 DEF CallsInv, TypeOK, OpenIsTxn
    <3> QED
      BY <1>2, <2>2, <3>1 DEF View, Latest, Written
  <2> QED
    BY <2>1, <2>2
<1>3. ASSUME NEW r \in Row, NEW s \in Stamps(m, r)'
      PROVE  \/ s \in Stamps(m, r) /\ base'[m][r] = base[m][r]
             \/ rows[r] # Gone /\ s = rows[r].stamp /\ base'[m][r] = rows[r].version
             \/ \E k \in Client : /\ Owner(k) = m /\ Written(k, r) /\ s = work[k][r].stamp
                                  /\ base'[m][r] = rows[r].version /\ rows[r] # Gone
  <2>1. CASE r \notin R
    BY <1>1, <1>3, <2>1 DEF Stamps
  <2>2. CASE r \in R /\ View(m, r) = Gone
    BY <1>1, <1>3, <2>2 DEF Stamps
  <2>3. CASE r \in R /\ View(m, r) # Gone
    <3>1. mem'[m][r] = Hydrated(View(m, r)) /\ View(m, r) \in RowState
      BY <1>1, <2>3, ViewTypes DEF CallsInv
    <3>2. s = View(m, r).stamp
      BY <1>3, <3>1, HydratedTypes DEF Stamps
    <3>3. rows[r] # Gone /\ base'[m][r] = rows[r].version
      BY <1>1, <1>2, <2>3 DEF CallsInv, WorkOnRows
    <3> QED
      BY <1>2, <2>3, <3>2, <3>3
  <2> QED
    BY <2>1, <2>2, <2>3
<1>4. /\ \A k \in Client, r \in Row : Written(k, r)' <=> Written(k, r)
      /\ \A n \in Manager \ {m}, r \in Row : Stamps(n, r)' = Stamps(n, r)
      /\ \A k \in Client : Owner(k) \in Manager
      /\ UNCHANGED <<rows, work, clock, lastNow>>
  BY <1>1, TransactionsAssumption DEF Written, Stamps, Owner, Client
<1>5. WorkIsNext'
  <2> SUFFICES ASSUME NEW k \in Client, NEW r \in Row, Written(k, r)
               PROVE  base'[Owner(k)][r] = rows[r].version /\ work[k][r].version = rows[r].version + 1
    BY <1>4 DEF WorkIsNext, Owner
  <2>1. base[Owner(k)][r] = rows[r].version /\ work[k][r].version = rows[r].version + 1
    BY DEF WorkIsNext
  <2> QED
    BY <1>1, <1>4, <2>1
<1>6. StampsPast'
  <2>1. ASSUME NEW r \in Row, NEW s \in Stamps(m, r)' PROVE s <= clock
    BY <1>3, <2>1 DEF StampsPast
  <2>2. ASSUME NEW n \in Manager, NEW r \in Row, NEW s \in Stamps(n, r)' PROVE s <= clock
    BY <1>4, <2>1, <2>2 DEF StampsPast
  <2> QED
    BY <1>4, <2>2 DEF StampsPast
<1>7. StampIsVersion'
  <2> SUFFICES ASSUME NEW n \in Manager, NEW r \in Row, rows[r] # Gone
               PROVE  /\ rows[r].stamp \in Stamps(n, r)' => base'[n][r] = rows[r].version
                      /\ base'[n][r] <= rows[r].version
    BY <1>4 DEF StampIsVersion
  <2>1. /\ rows[r].stamp \in Stamps(n, r) => base[n][r] = rows[r].version
        /\ base[n][r] <= rows[r].version /\ rows[r].version \in Nat
    BY DEF StampIsVersion, CallsInv, TypeOK, RowState
  <2>2. CASE n # m
    BY <1>1, <1>4, <2>1, <2>2
  <2>3. CASE n = m
    BY <1>1, <1>3, <2>1, <2>3
  <2> QED
    BY <2>2, <2>3
<1>8. WorkIsPrivate'
  <2> SUFFICES ASSUME NEW k \in Client, NEW r \in Row, Written(k, r),
                      NEW n \in Manager \ {Owner(k)}
               PROVE  work[k][r].stamp \notin Stamps(n, r)'
    BY <1>4 DEF WorkIsPrivate, Owner
  <2>1. rows[r].stamp # work[k][r].stamp /\ work[k][r].stamp \notin Stamps(n, r)
    BY DEF WorkIsPrivate
  <2>2. CASE n # m
    BY <1>4, <2>1, <2>2
  <2>3. CASE n = m
    <3>1. \A j \in Client : Written(j, r) => j = k
      BY DEF Written, CallsInv, OneWriter
    <3> QED
      BY <1>3, <2>1, <2>3, <3>1
  <2> QED
    BY <2>2, <2>3
<1>9. TodoIsPrivate'
  <2> SUFFICES ASSUME NEW c \in Call, calls[c].pc \in Flushing, NEW r \in calls[c].todo,
                      ~mem'[ManagerOf[c]][r].deleted
               PROVE  Private(ManagerOf[c], r, mem[ManagerOf[c]][r].stamp)'
    BY DEF TodoIsPrivate
  <2>1. ManagerOf[c] # m /\ ManagerOf[c] \in Manager /\ r \in Row
    BY TransactionsAssumption DEF Runs, IsFlushing, InFlush, Flushing, CallsInv, TypeOK, CallState
  <2>2. mem'[ManagerOf[c]] = mem[ManagerOf[c]]
    BY <1>1, <2>1
  <2> DEFINE s == mem[ManagerOf[c]][r].stamp
  <2>3. Private(ManagerOf[c], r, s)
    BY <2>2 DEF TodoIsPrivate
  <2>4. s \notin Stamps(m, r)'
    BY <1>3, <2>1, <2>3 DEF Private
  <2>5. \A n \in Manager \ {ManagerOf[c]} : s \notin Stamps(n, r)'
    BY <1>4, <2>1, <2>3, <2>4 DEF Private
  <2>6. \A k \in Client : Written(k, r)' => work'[k][r].stamp # s
    BY <1>4, <2>1, <2>3 DEF Private
  <2>7. mem'[ManagerOf[c]][r].stamp = s
    BY <2>2
  <2> HIDE DEF s
  <2> QED
    BY <1>4, <2>3, <2>5, <2>6, <2>7 DEF Private
<1> QED
  BY <1>5, <1>6, <1>7, <1>8, <1>9

\* A flush takes the stamps for what it will update: a time that no stamp has.
LEMMA LockBump ==
  ASSUME AwaitsItsCalls, Stamped, Distinct, CallsInv, LockInv, NEW c \in Call, NEW last \in BOOLEAN,
         StartFlush(c, last), Updates(ManagerOf[c]) \cup Deletes(ManagerOf[c]) # {}
  PROVE  LockInv'
<1> USE DEF LockInv
<1> DEFINE m == ManagerOf[c]
<1>1. PICK now \in Nows(m) :
        /\ mem' = [mem EXCEPT ![m] = [r \in Row |-> IF r \in Updates(m) THEN BumpUpdatedAt(@[r], now) ELSE @[r]]]
        /\ lastNow' = [lastNow EXCEPT ![m] = now] /\ clock' = Max({clock, now})
  BY DEF StartFlush
<1>2. /\ TypeOK /\ m \in Manager /\ UNCHANGED <<rows, work, open, txn, base>>
      /\ \A d \in Call : d # c => calls'[d] = calls[d]
      /\ calls'[c].pc = "flush" /\ calls'[c].todo = Updates(m) \cup Deletes(m)
  <2>1. TypeOK /\ m \in Manager /\ UNCHANGED <<rows, work, open, txn, base>>
    BY ClientTypes DEF CallsInv, StartFlush, dbVars
  <2>2. PICK dry \in BOOLEAN :
          calls' = [calls EXCEPT ![c] =
                      [Starting(c, last) EXCEPT !.pc = "flush", !.dry = dry, !.todo = Updates(m) \cup Deletes(m)]]
    BY DEF StartFlush, Starting
  <2>3. calls[c] \in CallState
    BY <2>1 DEF TypeOK
  <2>4. DOMAIN Starting(c, last) = DOMAIN calls[c] /\ "pc" \in DOMAIN calls[c] /\ "todo" \in DOMAIN calls[c]
    BY <2>3 DEF Starting, Idle, CallState
  <2> HIDE DEF m
  <2> QED
    BY <2>1, <2>2, <2>4 DEF TypeOK
<1>3. /\ \A n \in Manager \ {m} : mem'[n] = mem[n]
      /\ \A r \in Row : mem'[m][r] = IF r \in Updates(m) THEN BumpUpdatedAt(mem[m][r], now) ELSE mem[m][r]
      /\ lastNow'[m] = now /\ \A n \in Manager \ {m} : lastNow'[n] = lastNow[n]
      /\ clock' \in Nat /\ clock' >= clock /\ clock' >= now /\ clock \in Nat /\ \A n \in Manager : lastNow[n] \in Nat
  BY <1>1, <1>2, BumpStep DEF TypeOK
<1>4. now = clock + 1
  BY <1>1, <1>2, NowsTypes DEF StampsPast
<1>5. /\ \A k \in Client, r \in Row : Written(k, r)' <=> Written(k, r)
      /\ \A n \in Manager \ {m}, r \in Row : Stamps(n, r)' = Stamps(n, r)
      /\ \A k \in Client : Owner(k) \in Manager
  BY <1>2, <1>3, TransactionsAssumption DEF Written, Stamps, Owner, Client
<1>6. \A r \in Updates(m) : r \in Row /\ mem[m][r] \in Entity
  BY <1>2 DEF Updates, Loaded, TypeOK
<1>7. \A r \in Row : Stamps(m, r)' \subseteq Stamps(m, r) \cup {now}
  <2> SUFFICES ASSUME NEW r \in Row PROVE Stamps(m, r)' \subseteq Stamps(m, r) \cup {now}
    OBVIOUS
  <2>1. CASE r \in Updates(m)
    <3>1. mem'[m][r] = BumpUpdatedAt(mem[m][r], now) /\ mem[m][r] \in Entity /\ now \in Nat
      BY <1>1, <1>2, <1>3, <1>6, <2>1, NowsTypes
    <3>2. mem'[m][r].stamp = now /\ mem'[m][r].original = mem[m][r].stamp
      BY <3>1, BumpTypes
    <3> QED
      BY <3>1, <3>2, SpecialAssumption DEF Stamps
  <2>2. CASE r \notin Updates(m)
    BY <1>3, <2>2 DEF Stamps
  <2> QED
    BY <2>1, <2>2
<1>8. \A n \in Manager, r \in Row : \A s \in Stamps(n, r) : s \in Nat /\ s <= clock
  BY <1>2 DEF Stamps, StampsPast, TypeOK, Entity
<1>9. \A n \in Manager, r \in Row : \A s \in Stamps(n, r)' : s \in Stamps(n, r) \/ s = now
  BY <1>5, <1>7
<1>10. \A k \in Client, r \in Row : Written(k, r) => work[k][r].stamp \in Nat /\ work[k][r].stamp <= clock
  BY <1>2 DEF StampsPast, Written, TypeOK, RowState
<1>11. \A r \in Row : rows[r] # Gone => rows[r].stamp \in Nat /\ rows[r].stamp <= clock
  BY <1>2 DEF StampsPast, TypeOK, RowState
<1>12. WorkIsNext'
  BY <1>2, <1>5 DEF WorkIsNext, Owner
<1>13. StampsPast'
  <2>1. \A n \in Manager : lastNow'[n] <= clock'
    BY <1>2, <1>3 DEF StampsPast
  <2>2. \A n \in Manager, r \in Row : \A s \in Stamps(n, r)' : s <= clock'
    BY <1>3, <1>8, <1>9
  <2>3. \A r \in Row : rows[r] # Gone => rows[r].stamp <= clock'
    BY <1>3, <1>11
  <2>4. \A k \in Client, r \in Row : Written(k, r) => work[k][r].stamp <= clock'
    BY <1>3, <1>10
  <2> QED
    BY <1>2, <1>5, <2>1, <2>2, <2>3, <2>4 DEF StampsPast
<1>14. StampIsVersion'
  BY <1>2, <1>4, <1>9, <1>11, <1>3 DEF StampIsVersion
<1>15. WorkIsPrivate'
  <2>1. \A k \in Client, r \in Row : Written(k, r) => work[k][r].stamp # now
    BY <1>3, <1>4, <1>10
  <2> QED
    BY <1>2, <1>5, <1>9, <2>1 DEF WorkIsPrivate, Owner
<1>16. TodoIsPrivate'
  <2> SUFFICES ASSUME NEW d \in Call, calls'[d].pc \in Flushing, NEW r \in calls'[d].todo,
                      ~mem'[ManagerOf[d]][r].deleted
               PROVE  Private(ManagerOf[d], r, mem[ManagerOf[d]][r].stamp)'
    BY DEF TodoIsPrivate
  <2>1. CASE d = c
    <3>1. r \in Updates(m)
      <4>1. r \in Deletes(m) => mem'[m][r] = mem[m][r]
        BY <1>3 DEF Deletes, Updates, Loaded
      <4> QED
        BY <1>2, <2>1, <4>1 DEF Deletes
    <3>2. mem'[m][r].stamp = now /\ r \in Row
      <4>1. mem'[m][r] = BumpUpdatedAt(mem[m][r], now) /\ mem[m][r] \in Entity /\ now \in Nat /\ r \in Row
        BY <1>1, <1>2, <1>3, <1>6, <3>1, NowsTypes
      <4> QED
        BY <4>1, BumpTypes
    <3>3. /\ rows[r] # Gone => rows[r].stamp # now
          /\ \A k \in Client : Written(k, r)' => work[k][r].stamp # now
          /\ \A n \in Manager \ {m} : now \notin Stamps(n, r)'
      BY <1>3, <1>4, <1>5, <1>8, <1>10, <1>11, <3>2
    <3> QED
      BY <1>2, <2>1, <3>2, <3>3 DEF Private
  <2>2. CASE d # c
    <3> DEFINE n == ManagerOf[d]
               s == mem[n][r].stamp
    <3>1. n \in Manager \ {m} /\ calls'[d] = calls[d] /\ mem'[n] = mem[n]
      BY <1>2, <1>3, <2>2, ClientTypes DEF AwaitsItsCalls
    <3>2. Private(n, r, s)
      BY <3>1 DEF TodoIsPrivate
    <3>3. r \in Row /\ s \in Stamps(n, r)
      BY <1>2, <3>1 DEF CallsInv, EachCallOk, TodoOk, TypeOK, CallState, Stamps
    <3>4. s # now
      BY <1>3, <1>4, <1>8, <3>1, <3>3
    <3>5. /\ rows[r] # Gone => rows[r].stamp # s
          /\ \A k \in Client : Written(k, r)' => work[k][r].stamp # s
          /\ \A j \in Manager \ {n} : s \notin Stamps(j, r)'
      BY <1>5, <1>9, <3>2, <3>3, <3>4 DEF Private
    <3>6. mem'[n][r].stamp = s
      BY <3>1
    <3> HIDE DEF s
    <3> QED
      BY <1>2, <3>5, <3>6 DEF Private
  <2> QED
    BY <2>1, <2>2
<1> QED
  BY <1>12, <1>13, <1>14, <1>15, <1>16

\* A row is updated: its writer has seen the version it comes from, and its stamp is new.
LEMMA LockWriteRow ==
  ASSUME AwaitsItsCalls, Stamped, CallsInv, LockInv, NEW c \in Call, NEW r \in Row, WriteRow(c, r)
  PROVE  LockInv'
<1> DEFINE m == ManagerOf[c]
           k == txn[m]
           row == Latest(k, r)
           e == mem[m][r]
<1>1. /\ k \in Client /\ Owner(k) = m /\ r \in calls[c].todo /\ e \in Entity
      /\ \A j \in Client \ {k} : work[j][r] = Untouched
      /\ calls' = [calls EXCEPT ![c] = [calls[c] EXCEPT !.todo = calls[c].todo \ {r}, !.missed = calls'[c].missed]]
      /\ \/ work' = [work EXCEPT ![k][r] = Gone] \/ work' = work
         \/ /\ ~e.deleted /\ Matches(m, r, row) /\ rows[r] # Gone
            /\ Updated(m, r, row) \in RowState /\ work' = [work EXCEPT ![k][r] = Updated(m, r, row)]
  BY WriteRowStep
<1>2. /\ TypeOK /\ m \in Manager /\ calls[c].pc = "writing" /\ calls[c] \in CallState
      /\ UNCHANGED <<rows, open, txn, mem, timeVars, edits, started, flushes, base>>
  BY ClientTypes DEF CallsInv, TypeOK, WriteRow
<1>3. /\ calls'[c].pc = "writing" /\ calls'[c].todo = calls[c].todo \ {r}
      /\ \A d \in Call : d # c => calls'[d] = calls[d]
  <2> DEFINE call == [calls[c] EXCEPT !.todo = calls[c].todo \ {r}, !.missed = calls'[c].missed]
  <2>1. call.pc = "writing" /\ call.todo = calls[c].todo \ {r}
    BY <1>2 DEF CallState
  <2>2. calls' = [calls EXCEPT ![c] = call]
    BY <1>1
  <2> HIDE DEF call
  <2> QED
    BY <1>2, <2>1, <2>2 DEF TypeOK
<1>4. \A n \in Manager, q \in Row : Stamps(n, q)' = Stamps(n, q)
  BY <1>2 DEF Stamps
<1>5. CASE work' = [work EXCEPT ![k][r] = Gone] \/ work' = work
  <2>1. \A j \in Client, q \in Row : Written(j, q)' => Written(j, q) /\ work'[j][q] = work[j][q]
    <3>1. CASE work' = work
      BY <3>1 DEF Written
    <3>2. CASE work' = [work EXCEPT ![k][r] = Gone]
      <4> DEFINE w == Gone
      <4>1. work' = [work EXCEPT ![k][r] = w] /\ k \in Client
        BY <1>1, <3>2
      <4> HIDE DEF w, k
      <4>2. work'[k][r] = w /\ \A j \in Client, q \in Row : j # k \/ q # r => work'[j][q] = work[j][q]
        BY <1>2, <4>1 DEF TypeOK
      <4> QED
        BY <4>2 DEF Written, w
    <3> QED
      BY <1>5, <3>1, <3>2
  <2>2. \A d \in Call : calls'[d].pc \in Flushing =>
           calls[d].pc \in Flushing /\ calls'[d].todo \subseteq calls[d].todo /\ mem'[ManagerOf[d]] = mem[ManagerOf[d]]
    BY <1>2, <1>3 DEF Flushing
  <2> QED
    BY <1>2, <1>4, <2>1, <2>2, LessStep
<1>6. ASSUME ~e.deleted, Matches(m, r, row), rows[r] # Gone,
             Updated(m, r, row) \in RowState, work' = [work EXCEPT ![k][r] = Updated(m, r, row)]
      PROVE  LockInv'
  <2> DEFINE s == e.stamp
  <2>1. Private(m, r, s)
    BY <1>1, <1>2, <1>6 DEF LockInv, TodoIsPrivate, Flushing
  <2>2. row # Gone /\ row.stamp = e.original /\ (row = rows[r] \/ (Written(k, r) /\ row = work[k][r]))
    BY <1>6 DEF Matches, Latest, Written
  <2>3. Updated(m, r, row).stamp = s
    <3>1. s # row.stamp
      BY <1>1, <2>1, <2>2 DEF Private
    <3> QED
      BY <3>1 DEF Updated
  <2>4. s \in Stamps(m, r) /\ e.original \in Stamps(m, r)
    BY <1>1, SpecialAssumption DEF Stamps
  <2>5. base[m][r] = rows[r].version
    BY <1>1, <1>2, <1>6, <2>2, <2>4 DEF LockInv, StampIsVersion, WorkIsNext
  <2>6. /\ work'[k][r] \notin {Untouched, Gone} /\ work'[k][r].stamp = s /\ work'[k][r].version = rows[r].version + 1
        /\ \A j \in Client, q \in Row : j # k \/ q # r => work'[j][q] = work[j][q]
    <3>1. work'[k][r] = Updated(m, r, row)
          /\ \A j \in Client, q \in Row : j # k \/ q # r => work'[j][q] = work[j][q]
      <4> DEFINE w == Updated(m, r, row)
      <4>1. work' = [work EXCEPT ![k][r] = w] /\ k \in Client
        BY <1>1, <1>6
      <4> HIDE DEF w, k
      <4>2. work'[k][r] = w /\ \A j \in Client, q \in Row : j # k \/ q # r => work'[j][q] = work[j][q]
        BY <1>2, <4>1 DEF TypeOK
      <4> QED
        BY <4>2 DEF w
    <3>2. Updated(m, r, row).version = rows[r].version + 1
      BY DEF Updated
    <3> QED
      <4>1. Updated(m, r, row) \notin {Untouched, Gone}
        BY <1>6, SpecialAssumption
      <4> QED
        BY <2>3, <3>1, <3>2, <4>1
  <2>7. \A j \in Client, q \in Row : Written(j, q)' => (j = k /\ q = r) \/ (Written(j, q) /\ work'[j][q] = work[j][q])
    BY <2>6 DEF Written
  <2>8. UNCHANGED <<rows, base, clock, lastNow>>
    BY <1>2 DEF timeVars
  <2> HIDE DEF s
  <2>9. WorkIsNext'
    BY <1>1, <2>5, <2>6, <2>7, <2>8 DEF LockInv, WorkIsNext, Owner
  <2>10. StampsPast'
    <3>1. s <= clock
      BY <1>2, <2>4 DEF LockInv, StampsPast
    <3> QED
      BY <1>4, <2>6, <2>7, <2>8, <3>1 DEF LockInv, StampsPast
  <2>11. StampIsVersion'
    BY <1>4, <2>8 DEF LockInv, StampIsVersion
  <2>12. WorkIsPrivate'
    <3> SUFFICES ASSUME NEW j \in Client, NEW q \in Row, Written(j, q)'
                 PROVE  /\ rows[q].stamp # work'[j][q].stamp
                        /\ \A n \in Manager \ {Owner(j)} : work'[j][q].stamp \notin Stamps(n, q)
      BY <1>4, <2>8 DEF WorkIsPrivate, Owner
    <3>1. CASE j = k /\ q = r
      BY <1>1, <1>6, <2>1, <2>6, <3>1 DEF Private
    <3>2. CASE ~(j = k /\ q = r)
      BY <2>7, <3>2 DEF LockInv, WorkIsPrivate
    <3> QED
      BY <3>1, <3>2
  <2>13. TodoIsPrivate'
    <3> SUFFICES ASSUME NEW d \in Call, calls'[d].pc \in Flushing, NEW q \in calls'[d].todo,
                        ~mem[ManagerOf[d]][q].deleted
                 PROVE  Private(ManagerOf[d], q, mem[ManagerOf[d]][q].stamp)'
      BY <1>2 DEF TodoIsPrivate
    <3> DEFINE n == ManagerOf[d]
               z == mem[n][q].stamp
    <3>1. calls[d].pc \in Flushing /\ q \in calls[d].todo /\ q \in Row /\ (d = c => q # r)
      BY <1>2, <1>3 DEF Flushing, TypeOK, CallState
    <3>2. Private(n, q, z)
      BY <3>1 DEF LockInv, TodoIsPrivate
    <3>3. q = r => z # s
      <4> SUFFICES ASSUME q = r PROVE z # s
        OBVIOUS
      <4>1. n \in Manager \ {m}
        BY <3>1, ClientTypes DEF AwaitsItsCalls
      <4>2. z \in Stamps(n, r)
        BY <3>1 DEF CallsInv, EachCallOk, TodoOk, Stamps
      <4> QED
        BY <2>1, <4>1, <4>2 DEF Private
    <3>4. \A j \in Client : Written(j, q)' => work'[j][q].stamp # z
      BY <2>6, <2>7, <3>1, <3>2, <3>3 DEF Private
    <3>5. mem'[n][q].stamp = z
      BY <1>2
    <3> HIDE DEF z
    <3> QED
      BY <1>4, <2>8, <3>1, <3>2, <3>4, <3>5 DEF Private
  <2> QED
    BY <2>9, <2>10, <2>11, <2>12, <2>13 DEF LockInv
<1> QED
  BY <1>1, <1>5, <1>6

\* A client commits: its work is what its rows are.
LEMMA LockCommitted ==
  ASSUME AwaitsItsCalls, CallsInv, LockInv, NEW c \in Call, NEW k \in {Inner(c), Outer(c)},
         txn[ManagerOf[c]] = k, Committed(k, ManagerOf[c]), Ended(k, ManagerOf[c]),
         UNCHANGED <<mem, timeVars>>, calls'[c].pc \notin Flushing,
         \A d \in Call : d # c => calls'[d] = calls[d]
  PROVE  LockInv'
<1> DEFINE m == ManagerOf[c]
<1> USE DEF LockInv
<1>1. /\ k \in Client /\ Owner(k) = m /\ m \in Manager /\ TypeOK
      /\ \A j \in Client : Owner(j) \in Manager
  BY ClientTypes, TransactionsAssumption DEF CallsInv, Owner, Client
<1>2. /\ \A r \in Row : rows'[r] = Latest(k, r)
      /\ \A n \in Manager \ {m} : base'[n] = base[n]
      /\ \A r \in Row : base'[m][r] = IF Written(k, r) THEN work[k][r].version ELSE base[m][r]
  BY <1>1 DEF Committed, Applied, TypeOK, Written
<1>3. \A r \in Row : \/ work[k][r] = Untouched /\ rows'[r] = rows[r] /\ base'[m][r] = base[m][r]
                     \/ rows'[r] = Gone /\ base'[m][r] = base[m][r]
                     \/ Written(k, r) /\ rows'[r] = work[k][r] /\ base'[m][r] = rows'[r].version
  BY <1>2 DEF Latest, Written
<1>4. \A j \in Client, r \in Row : Written(j, r)' =>
        j # k /\ Written(j, r) /\ work'[j][r] = work[j][r] /\ work[k][r] = Untouched
  <2> SUFFICES ASSUME NEW j \in Client, NEW r \in Row, Written(j, r)'
               PROVE  j # k /\ Written(j, r) /\ work'[j][r] = work[j][r] /\ work[k][r] = Untouched
    OBVIOUS
  <2>1. work' = [work EXCEPT ![k] = NoWork] /\ NoWork[r] = Untouched
    BY DEF Ended, NoWork
  <2>2. j # k /\ work'[j] = work[j] /\ Written(j, r)
    BY <1>1, <2>1 DEF TypeOK, Written
  <2> QED
    BY <1>1, <2>2 DEF CallsInv, OneWriter, Written
<1>5. \A n \in Manager, r \in Row : Stamps(n, r)' = Stamps(n, r)
  BY DEF Stamps
<1>6. WorkIsNext'
  <2> SUFFICES ASSUME NEW j \in Client, NEW r \in Row, Written(j, r)'
               PROVE  base'[Owner(j)][r] = rows'[r].version /\ work'[j][r].version = rows'[r].version + 1
    BY DEF WorkIsNext, Owner
  <2>1. rows'[r] = rows[r] /\ base'[Owner(j)][r] = base[Owner(j)][r]
    BY <1>1, <1>2, <1>4 DEF Latest, Written
  <2> QED
    BY <1>4, <2>1 DEF WorkIsNext
<1>7. StampsPast'
  <2>1. \A r \in Row : rows'[r] # Gone => rows'[r].stamp <= clock
    BY <1>1, <1>3 DEF StampsPast
  <2> QED
    BY <1>4, <1>5, <2>1 DEF StampsPast, timeVars
<1>8. StampIsVersion'
  <2> SUFFICES ASSUME NEW n \in Manager, NEW r \in Row, rows'[r] # Gone
               PROVE  /\ rows'[r].stamp \in Stamps(n, r) => base'[n][r] = rows'[r].version
                      /\ base'[n][r] <= rows'[r].version
    BY <1>5 DEF StampIsVersion
  <2>1. CASE work[k][r] = Untouched
    <3>1. rows'[r] = rows[r] /\ base'[n][r] = base[n][r]
      BY <1>2, <2>1 DEF Latest, Written
    <3> QED
      BY <3>1 DEF StampIsVersion
  <2>2. CASE Written(k, r)
    <3>1. /\ rows'[r] = work[k][r] /\ rows[r] # Gone /\ work[k][r].version = rows[r].version + 1
          /\ rows[r].version \in Nat /\ base[n][r] \in Nat /\ base[n][r] <= rows[r].version
      BY <1>1, <1>3, <2>2 DEF WorkIsNext, CallsInv, WorkOnRows, TypeOK, RowState, StampIsVersion, Written
    <3>2. CASE n = m
      BY <1>2, <2>2, <3>1, <3>2
    <3>3. CASE n # m
      <4>1. work[k][r].stamp \notin Stamps(n, r)
        BY <1>1, <2>2, <3>3 DEF WorkIsPrivate
      <4> QED
        BY <1>2, <3>1, <3>3, <4>1
    <3> QED
      BY <3>2, <3>3
  <2> QED
    BY <1>3, <2>1, <2>2
<1>9. WorkIsPrivate'
  <2> SUFFICES ASSUME NEW j \in Client, NEW r \in Row, Written(j, r)'
               PROVE  /\ rows'[r].stamp # work'[j][r].stamp
                      /\ \A n \in Manager \ {Owner(j)} : work'[j][r].stamp \notin Stamps(n, r)
    BY <1>5 DEF WorkIsPrivate, Owner
  <2>1. rows'[r] = rows[r]
    BY <1>2, <1>4 DEF Latest
  <2> QED
    BY <1>4, <2>1 DEF WorkIsPrivate
<1>10. TodoIsPrivate'
  <2> SUFFICES ASSUME NEW d \in Call, calls'[d].pc \in Flushing, NEW r \in calls'[d].todo,
                      ~mem[ManagerOf[d]][r].deleted
               PROVE  Private(ManagerOf[d], r, mem[ManagerOf[d]][r].stamp)'
    BY DEF TodoIsPrivate
  <2> DEFINE n == ManagerOf[d]
             s == mem[n][r].stamp
  <2>1. d # c /\ calls'[d] = calls[d] /\ r \in Row
    BY <1>1 DEF TypeOK, CallState
  <2>2. Private(n, r, s)
    BY <2>1 DEF TodoIsPrivate
  <2>3. rows'[r] # Gone => rows'[r].stamp # s
    BY <1>1, <1>3, <2>1, <2>2 DEF Private
  <2>4. \A j \in Client : Written(j, r)' => work'[j][r].stamp # s
    BY <1>4, <2>1, <2>2 DEF Private
  <2>5. mem'[n][r].stamp = s
    OBVIOUS
  <2> HIDE DEF s
  <2> QED
    BY <1>5, <2>1, <2>2, <2>3, <2>4, <2>5 DEF Private
<1> QED
  BY <1>6, <1>7, <1>8, <1>9, <1>10

\* What a call is after its flush has returned or thrown is not a flush.
LEMMA NoFlushAfter ==
  ASSUME NEW call \in CallState
  PROVE  /\ Idle.pc \notin Flushing /\ Threw(call).pc \notin Flushing /\ Caught(call).pc \notin Flushing
         /\ Returned(call).pc \notin Flushing
BY DEF Idle, Threw, Caught, Returned, CallState, Flushing

\* A step in which a call goes on without a flush, or ends its transaction without a commit.
LEMMA LockCallStep ==
  ASSUME AwaitsItsCalls, CallsInv, LockInv, NEW c \in Call, NEW call,
         calls' = [calls EXCEPT ![c] = call], call.pc \notin Flushing,
         UNCHANGED <<rows, base, timeVars>>,
         work' = work \/ \E k : Ended(k, ManagerOf[c]),
         \A r \in Row : Stamps(ManagerOf[c], r)' \subseteq Stamps(ManagerOf[c], r),
         \A n \in Manager \ {ManagerOf[c]} : mem'[n] = mem[n]
  PROVE  LockInv'
<1>1. ManagerOf[c] \in Manager /\ TypeOK
  BY ClientTypes DEF CallsInv
<1>2. \A k \in Client, r \in Row : Written(k, r)' => Written(k, r) /\ work'[k][r] = work[k][r]
  <2>1. CASE work' = work
    BY <2>1 DEF Written
  <2>2. ASSUME NEW j, Ended(j, ManagerOf[c]), NEW k \in Client, NEW r \in Row, Written(k, r)'
        PROVE  Written(k, r) /\ work'[k][r] = work[k][r]
    <3>1. work' = [work EXCEPT ![j] = NoWork] /\ NoWork[r] = Untouched
      BY <2>2 DEF Ended, NoWork
    <3> QED
      BY <1>1, <2>2, <3>1 DEF TypeOK, Written
  <2> QED
    BY <2>1, <2>2
<1>3. \A n \in Manager, r \in Row : Stamps(n, r)' \subseteq Stamps(n, r)
  BY DEF Stamps
<1>4. ASSUME NEW d \in Call, calls'[d].pc \in Flushing
      PROVE  calls[d].pc \in Flushing /\ calls'[d].todo \subseteq calls[d].todo /\ mem'[ManagerOf[d]] = mem[ManagerOf[d]]
  <2>1. d # c
    BY <1>1, <1>4 DEF TypeOK
  <2>2. calls'[d] = calls[d] /\ ManagerOf[d] \in Manager \ {ManagerOf[c]}
    BY <1>1, <2>1, ClientTypes DEF TypeOK, AwaitsItsCalls
  <2> QED
    BY <1>4, <2>2
<1> QED
  BY <1>2, <1>3, <1>4, LessStep

\* The same when the call does go on with its flush.
LEMMA LockFlushGoesOn ==
  ASSUME CallsInv, LockInv, NEW c \in Call, JoinOrConnect(c) \/ BeginFlush(c)
  PROVE  LockInv'
<1>1. TypeOK /\ UNCHANGED <<rows, work, mem, base, timeVars>>
  BY DEF CallsInv, JoinOrConnect, BeginFlush, dbVars
<1>2. calls[c].pc \in Flushing /\ calls[c] \in CallState
  BY <1>1 DEF JoinOrConnect, BeginFlush, Flushing, TypeOK
<1>3. calls'[c].todo = calls[c].todo /\ \A d \in Call : d # c => calls'[d] = calls[d]
  <2> DEFINE m == ManagerOf[c]
             joins == [calls[c] EXCEPT !.pc = "writing", !.target = txn[m]]
             connects == [calls[c] EXCEPT !.pc = "connectFlush"]
             begins == [calls[c] EXCEPT !.pc = "writing", !.target = Inner(c)]
  <2>1. /\ joins.todo = calls[c].todo /\ connects.todo = calls[c].todo /\ begins.todo = calls[c].todo
    BY <1>2 DEF CallState
  <2>2. PICK call \in {joins, connects, begins} : calls' = [calls EXCEPT ![c] = call]
    <3>1. CASE JoinOrConnect(c)
      <4>1. calls' = [calls EXCEPT ![c] = IF Joins(m) THEN joins ELSE connects]
        BY <3>1 DEF JoinOrConnect
      <4> QED
        BY <4>1
    <3>2. CASE BeginFlush(c)
      <4>1. calls' = [calls EXCEPT ![c] = begins]
        BY <1>1, <3>2 DEF BeginFlush, TypeOK
      <4> QED
        BY <4>1
    <3> QED
      BY <3>1, <3>2
  <2> HIDE DEF joins, connects, begins
  <2> QED
    BY <1>1, <2>1, <2>2 DEF TypeOK
<1>4. \A d \in Call : calls'[d].pc \in Flushing =>
           calls[d].pc \in Flushing /\ calls'[d].todo \subseteq calls[d].todo /\ mem'[ManagerOf[d]] = mem[ManagerOf[d]]
  BY <1>1, <1>2, <1>3
<1>5. \A k \in Client, r \in Row : Written(k, r)' => Written(k, r) /\ work'[k][r] = work[k][r]
  BY <1>1 DEF Written
<1>6. \A n \in Manager, r \in Row : Stamps(n, r)' \subseteq Stamps(n, r)
  BY <1>1 DEF Stamps
<1> QED
  BY <1>1, <1>4, <1>5, <1>6, LessStep

\* The application takes no stamp but those of the rows it reads.
LEMMA LockApplication ==
  ASSUME CallsInv, LockInv, NEW m \in Manager, Find(m) \/ Refresh(m) \/ Edit(m)
  PROVE  LockInv'
<1>1. CASE Find(m)
  <2>1. Row \ Loaded(m) \in SUBSET Row
    OBVIOUS
  <2> QED
    BY <1>1, <2>1, LockHydrate DEF Find
<1>2. CASE Refresh(m)
  <2>1. Loaded(m) \ Deletes(m) \in SUBSET Row
    BY DEF Loaded
  <2> QED
    BY <1>2, <2>1, LockHydrate DEF Refresh
<1>3. CASE Edit(m)
  <2>1. /\ UNCHANGED <<rows, work, base, timeVars, calls>> /\ Runs(m) /\ TypeOK
    BY <1>3 DEF Edit, dbVars, CallsInv
  <2>2. \A n \in Manager, r \in Row : Stamps(n, r)' = Stamps(n, r)
    <3>1. /\ \A n \in Manager \ {m} : mem'[n] = mem[n]
          /\ \A r \in Row : /\ mem'[m][r] = Absent <=> mem[m][r] = Absent
                            /\ mem[m][r] # Absent => /\ mem'[m][r].stamp = mem[m][r].stamp
                                                     /\ mem'[m][r].original = mem[m][r].original
      BY <1>3, <2>1, EditTypes
    <3> QED
      BY <3>1 DEF Stamps
  <2>3. \A d \in Call : calls[d].pc \in Flushing => mem'[ManagerOf[d]] = mem[ManagerOf[d]]
    BY <1>3, <2>1, EditTypes, ClientTypes DEF Runs, IsFlushing, InFlush, Flushing
  <2>4. \A k \in Client, r \in Row : Written(k, r)' => Written(k, r) /\ work'[k][r] = work[k][r]
    BY <2>1 DEF Written
  <2> QED
    BY <2>1, <2>2, <2>3, <2>4, LessStep
<1> QED
  BY <1>1, <1>2, <1>3

\* Steps of a call that write nothing, and those that end its transaction.
LEMMA LockCalls ==
  ASSUME AwaitsItsCalls, CallsInv, LockInv, NEW c \in Call,
         \/ StartTransaction(c) \/ Begin(c) \/ LambdaFails(c) \/ Rollback(c) \/ Reset(c) \/ Commit(c) \/ FlushWritten(c)
         \/ OplockFailure(c) \/ DeadlockDetected(c) \/ FlushFails(c) \/ DryRunEnds(c)
  PROVE  LockInv'
<1> DEFINE m == ManagerOf[c]
<1>1. /\ TypeOK /\ m \in Manager /\ calls[c] \in CallState /\ CallOk(c, calls[c], txn[m])
      /\ Idle.pc \notin Flushing /\ Threw(calls[c]).pc \notin Flushing /\ Caught(calls[c]).pc \notin Flushing
      /\ Returned(calls[c]).pc \notin Flushing
  BY ClientTypes, NoFlushAfter DEF CallsInv, TypeOK, EachCallOk
<1>2. UNCHANGED mem => \A r \in Row : Stamps(m, r)' \subseteq Stamps(m, r)
  BY DEF Stamps
<1>3. CASE StartTransaction(c)
  <2> DEFINE call == IF txn[m] = None THEN [Idle EXCEPT !.pc = "connect", !.kind = "transaction"]
                     ELSE [Idle EXCEPT !.pc = "inside", !.kind = "transaction", !.joined = TRUE]
  <2>1. call.pc \notin Flushing
    BY DEF Idle, Flushing
  <2>2. calls' = [calls EXCEPT ![c] = call] /\ UNCHANGED <<rows, work, base, timeVars, mem>>
    BY <1>3 DEF StartTransaction, dbVars
  <2> HIDE DEF call
  <2> QED
    BY <1>2, <2>1, <2>2, LockCallStep
<1>4. CASE Begin(c)
  <2> DEFINE call == [calls[c] EXCEPT !.pc = "inside"]
  <2>1. call.pc \notin Flushing
    BY <1>1 DEF CallState, Flushing
  <2>2. calls' = [calls EXCEPT ![c] = call] /\ UNCHANGED <<rows, work, base, timeVars, mem>>
    BY <1>4 DEF Begin
  <2> HIDE DEF call
  <2> QED
    BY <1>2, <2>1, <2>2, LockCallStep
<1>5. CASE LambdaFails(c)
  BY <1>1, <1>2, <1>5, LockCallStep DEF LambdaFails, dbVars
<1>6. CASE Rollback(c)
  <2>1. \A r \in Row : Stamps(m, r)' \subseteq Stamps(m, r)
    BY <1>1, <1>6 DEF Rollback, Stamps, TypeOK
  <2>2. \A n \in Manager \ {m} : mem'[n] = mem[n]
    BY <1>1, <1>6 DEF Rollback, TypeOK
  <2>3. calls' = [calls EXCEPT ![c] = Idle] /\ UNCHANGED <<rows, base, timeVars>> /\ Ended(Outer(c), m)
    BY <1>6 DEF Rollback
  <2> QED
    BY <1>1, <2>1, <2>2, <2>3, LockCallStep
<1>7. CASE Reset(c)
  <2>1. mem' = [mem EXCEPT ![m] = [r \in Row |-> ResetAfterFlushed(mem[m][r])]]
    BY <1>1, <1>7 DEF Reset
  <2>2. \A n \in Manager \ {m} : mem'[n] = mem[n]
    BY <1>1, <2>1 DEF TypeOK
  <2>3. ASSUME NEW r \in Row PROVE Stamps(m, r)' \subseteq Stamps(m, r)
    <3>1. mem'[m][r] = ResetAfterFlushed(mem[m][r]) /\ mem[m][r] \in Entity \cup {Absent}
      BY <1>1, <2>1 DEF TypeOK
    <3>2. CASE mem[m][r] = Absent
      BY <3>1, <3>2 DEF ResetAfterFlushed, Stamps
    <3>3. CASE mem[m][r] \in Entity
      BY <3>1, <3>3, ResetTypes, SpecialAssumption DEF Stamps
    <3> QED
      BY <3>1, <3>2, <3>3
  <2>4. calls' = [calls EXCEPT ![c] = Returned(calls[c])] /\ UNCHANGED <<rows, work, base, timeVars>>
    BY <1>7 DEF Reset, dbVars
  <2> QED
    BY <1>1, <2>2, <2>3, <2>4, LockCallStep
<1>8. CASE Commit(c)
  <2>1. txn[m] = Outer(c)
    BY <1>1, <1>8 DEF CallOk, Commit
  <2>2. calls'[c].pc \notin Flushing /\ \A d \in Call : d # c => calls'[d] = calls[d]
    BY <1>1, <1>8 DEF Commit, TypeOK
  <2> QED
    BY <1>8, <2>1, <2>2, LockCommitted DEF Commit
<1>9. CASE FlushWritten(c)
  <2> DEFINE call == [calls[c] EXCEPT !.pc = "reset"]
  <2>1. calls[c].target = txn[m] /\ txn[m] \in {Inner(c), Outer(c)} /\ calls' = [calls EXCEPT ![c] = call]
    BY <1>1, <1>9 DEF CallOk, FlushWritten, CallState
  <2>2. call.pc \notin Flushing
    BY <1>1 DEF CallState, Flushing
  <2> HIDE DEF call
  <2>3. CASE txn[m] = Inner(c)
    <3>1. calls'[c].pc \notin Flushing /\ \A d \in Call : d # c => calls'[d] = calls[d]
      BY <1>1, <2>1, <2>2 DEF TypeOK
    <3> QED
      BY <1>9, <2>1, <2>3, <3>1, LockCommitted DEF FlushWritten
  <2>4. CASE txn[m] # Inner(c)
    <3>1. UNCHANGED <<rows, work, base, timeVars, mem>>
      BY <1>9, <2>1, <2>4 DEF FlushWritten, dbVars
    <3> QED
      BY <1>2, <2>1, <2>2, <3>1, LockCallStep
  <2> QED
    BY <2>3, <2>4
<1>10. CASE OplockFailure(c) \/ DeadlockDetected(c) \/ FlushFails(c) \/ DryRunEnds(c)
  <2>1. PICK call : call \in {Threw(calls[c]), Caught(calls[c]), Returned(calls[c])} /\ FlushThrows(c, {call})
    BY <1>10, ThrowingStep
  <2>2. calls' = [calls EXCEPT ![c] = call] /\ UNCHANGED <<rows, base, timeVars, mem>>
    BY <2>1 DEF FlushThrows
  <2>3. work' = work \/ Ended(Inner(c), m)
    BY <2>1 DEF FlushThrows
  <2> QED
    BY <1>1, <1>2, <2>1, <2>2, <2>3, LockCallStep
<1> QED
  BY <1>3, <1>4, <1>5, <1>6, <1>7, <1>8, <1>9, <1>10

\* The second layer is inductive, for a table with updated_at and distinct times.
LEMMA LockStep ==
  ASSUME AwaitsItsCalls, Stamped, Distinct, CallsInv, LockInv, [Next]_vars
  PROVE  LockInv'
<1>1. CASE \E m \in Manager : Find(m) \/ Refresh(m) \/ Edit(m)
  BY <1>1, LockApplication
<1>2. ASSUME NEW c \in Call, NEW last \in BOOLEAN, StartFlush(c, last) PROVE LockInv'
  <2> DEFINE m == ManagerOf[c]
  <2>1. CASE Updates(m) \cup Deletes(m) # {}
    BY <1>2, <2>1, LockBump
  <2>2. CASE Updates(m) \cup Deletes(m) = {}
    <3>1. /\ calls' = [calls EXCEPT ![c] = Returned(Starting(c, last))]
          /\ UNCHANGED <<rows, work, base, mem, timeVars>> /\ TypeOK
      BY <1>2, <2>2 DEF StartFlush, Starting, dbVars, CallsInv
    <3>2. Starting(c, last) \in CallState
      <4>1. calls[c] \in CallState
        BY <3>1 DEF TypeOK
      <4> QED
        BY <4>1, SpecialAssumption DEF Starting, Idle, CallState, InFlush
    <3>3. \A r \in Row : Stamps(m, r)' \subseteq Stamps(m, r)
      BY <3>1 DEF Stamps
    <3> QED
      BY <3>1, <3>2, <3>3, NoFlushAfter, LockCallStep
  <2> QED
    BY <2>1, <2>2
<1>3. ASSUME NEW c \in Call, JoinOrConnect(c) \/ BeginFlush(c) PROVE LockInv'
  BY <1>3, LockFlushGoesOn
<1>4. ASSUME NEW c \in Call, NEW r \in Row, WriteRow(c, r) PROVE LockInv'
  BY <1>4, LockWriteRow
<1>5. CASE UNCHANGED vars
  <2>1. UNCHANGED <<rows, work, base, mem, timeVars, calls>>
    BY <1>5 DEF vars, dbVars
  <2>2. \A n \in Manager, r \in Row : Stamps(n, r)' \subseteq Stamps(n, r)
    BY <2>1 DEF Stamps
  <2>3. \A k \in Client, r \in Row : Written(k, r)' => Written(k, r) /\ work'[k][r] = work[k][r]
    BY <2>1 DEF Written
  <2> QED
    BY <2>1, <2>2, <2>3, LessStep
<1> QED
  BY <1>1, <1>2, <1>3, <1>4, <1>5, LockCalls DEF Next, Step

\* The second layer, as an invariant.
LEMMA LockAlways == ASSUME AwaitsItsCalls, Stamped, Distinct PROVE Spec => [](CallsInv /\ LockInv)
<1>1. Init => LockInv
  BY LockInit
<1>2. CallsInv /\ LockInv /\ [Next]_vars => LockInv'
  BY LockStep
<1> QED
  BY <1>1, <1>2, CallsAlways, PTL DEF Spec

----------------------------------------------------------------------------
(* The refinement of OptimisticRows. *)

\* The version of a row, or that it is gone.
LEMMA Versions ==
  ASSUME TypeOK, NEW r \in Row
  PROVE  LET version == IF rows[r] = Gone THEN Gone ELSE rows[r].version IN
         /\ version = Gone <=> rows[r] = Gone
         /\ rows[r] # Gone => version \in Nat
<1>1. rows[r] # Gone => rows[r].version \in Nat
  BY DEF TypeOK, RowState
<1> QED
  BY <1>1, TransactionsAssumption

\* Entities that are read have the versions that are committed.
LEMMA HydrateReads ==
  ASSUME TypeOK, NEW m \in Manager, NEW R \in SUBSET Row, Hydrate(m, R), UNCHANGED rows
  PROVE  Rows!Read(m)
<1> DEFINE version == [r \in Row |-> IF rows[r] = Gone THEN Gone ELSE rows[r].version]
           found == {r \in R : View(m, r) # Gone /\ rows[r] # Gone}
<1>1. found \in SUBSET {r \in Row : version[r] # Gone}
  BY Versions
<1>2. base' = [base EXCEPT ![m] = [r \in Row |-> IF r \in found THEN version[r] ELSE @[r]]]
  <2>1. \A r \in Row : (r \in {q \in R : View(m, q) # Gone} /\ rows[r] # Gone) <=> r \in found
    OBVIOUS
  <2>2. base' = [base EXCEPT ![m] = [r \in Row |-> IF r \in {q \in R : View(m, q) # Gone} /\ rows[r] # Gone
                                                   THEN rows[r].version ELSE @[r]]]
    BY DEF Hydrate
  <2> QED
    BY <2>1, <2>2
<1> QED
  BY <1>1, <1>2 DEF Rows!Read

\* A commit saves what its client wrote, from versions that are still the committed ones.
LEMMA CommitSaves ==
  ASSUME CallsInv, LockInv, NEW m \in Manager, txn[m] # None, Committed(txn[m], m)
  PROVE  Rows!Save(m)
<1> DEFINE k == txn[m]
           version == [r \in Row |-> IF rows[r] = Gone THEN Gone ELSE rows[r].version]
           updated == {r \in Row : Written(k, r)}
           deleted == {r \in Row : work[k][r] = Gone}
<1>1. TypeOK /\ k \in Client /\ Owner(k) = m
  BY DEF CallsInv, OpenIsTxn, TypeOK
<1>2. \A r \in updated : /\ rows[r] # Gone /\ version[r] # Gone /\ base[m][r] = version[r]
                         /\ work[k][r].version = version[r] + 1 /\ work[k][r] # Gone
  BY <1>1, Versions DEF CallsInv, WorkOnRows, LockInv, WorkIsNext, Written
<1>3. version' = [r \in Row |-> CASE r \in deleted -> Gone
                                  [] r \in updated \ deleted -> version[r] + 1
                                  [] OTHER -> version[r]]
  <2>1. ASSUME NEW r \in Row
        PROVE  (IF rows'[r] = Gone THEN Gone ELSE rows'[r].version) =
                  CASE r \in deleted -> Gone [] r \in updated \ deleted -> version[r] + 1 [] OTHER -> version[r]
    <3>1. rows'[r] = IF work[k][r] = Untouched THEN rows[r] ELSE work[k][r]
      BY DEF Committed, Applied, Latest
    <3>2. CASE r \in updated
      BY <1>2, <3>1, <3>2, SpecialAssumption DEF Written
    <3>3. CASE r \in deleted
      BY <3>1, <3>3, SpecialAssumption
    <3>4. CASE r \notin updated /\ r \notin deleted
      BY <3>1, <3>4 DEF Written
    <3> QED
      BY <3>2, <3>3, <3>4
  <2> QED
    BY <2>1
<1>4. base' = [base EXCEPT ![m] = [r \in Row |-> IF r \in updated THEN version[r] + 1 ELSE @[r]]]
  <2>1. \A r \in Row : r \in {q \in {p \in Row : work[k][p] # Untouched} : work[k][q] # Gone} <=> r \in updated
    BY DEF Written
  <2>2. base' = [base EXCEPT ![m] = [r \in Row |-> IF r \in {q \in {p \in Row : work[k][p] # Untouched} : work[k][q] # Gone}
                                                   THEN work[k][r].version ELSE @[r]]]
    BY DEF Committed
  <2> QED
    BY <1>2, <2>1, <2>2
<1>5. updated \in SUBSET Row /\ deleted \in SUBSET Row
  OBVIOUS
<1> QED
  BY <1>2, <1>3, <1>4, <1>5 DEF Rows!Save

\* No update is lost: with updated_at and distinct times, every transaction is a save of
\* OptimisticRows, which updates a row only from the version its manager has seen last.
THEOREM NoUpdateLost == ASSUME AwaitsItsCalls, Stamped, Distinct PROVE Spec => NoLostUpdate
<1>1. Init => Rows!Init
  <2>1. SUFFICES ASSUME Init PROVE Rows!Init
    OBVIOUS
  <2>2. ASSUME NEW r \in Row PROVE rows[r].version = 0 /\ rows[r] # Gone
    <3>1. rows[r] = [vals |-> [k \in Column |-> Initially], stamp |-> 1, version |-> 0]
      BY <2>1 DEF Init
    <3>2. rows[r] \in RowState
      BY <3>1, TransactionsAssumption DEF RowState
    <3> QED
      BY <3>1, <3>2, SpecialAssumption
  <2> QED
    BY <2>1, <2>2 DEF Init, Rows!Init
<1>2. ASSUME CallsInv, LockInv, [Next]_vars PROVE [Rows!Next]_Rows!vars
  <2>1. CASE UNCHANGED <<rows, base>>
    BY <2>1 DEF Rows!vars
  <2>2. CASE UNCHANGED rows /\ \E m \in Manager, R \in SUBSET Row : Hydrate(m, R)
    BY <1>2, <2>2, HydrateReads DEF Rows!Next, CallsInv
  <2>3. ASSUME NEW c \in Call, FlushWritten(c) \/ Commit(c) PROVE [Rows!Next]_Rows!vars
    <3> DEFINE m == ManagerOf[c]
    <3>1. /\ m \in Manager /\ CallOk(c, calls[c], txn[m]) /\ calls[c].pc \in {"writing", "commit"}
          /\ Inner(c) # None /\ Outer(c) # None
      BY <1>2, <2>3, ClientTypes, SpecialAssumption DEF CallsInv, EachCallOk, FlushWritten, Commit
    <3>2. UNCHANGED <<rows, base>> \/ (txn[m] # None /\ Committed(txn[m], m))
      BY <2>3, <3>1 DEF FlushWritten, Commit, CallOk, dbVars
    <3> QED
      BY <1>2, <2>1, <3>1, <3>2, CommitSaves DEF Rows!Next
  <2> QED
    BY <1>2, <2>1, <2>2, <2>3, OnlyCommits
<1> QED
  BY <1>1, <1>2, LockAlways, PTL DEF Spec, NoLostUpdate, Rows!Spec

----------------------------------------------------------------------------
(* The third layer: memory and rows. *)

\* What a commit of another manager, or another step of one, leaves of a manager's view.
LEMMA OthersAgree ==
  ASSUME CallsInv, NEW n \in Manager, NEW r \in Row, Current(n, r) => Agrees(n, r),
         mem'[n] = mem[n], base'[n] = base[n], txn'[n] = txn[n],
         \A d \in Call : ManagerOf[d] = n => calls'[d] = calls[d],
         \A k \in Client : Owner(k) = n => work'[k] = work[k],
         rows'[r] = rows[r] \/ rows'[r] = Gone \/ rows'[r].version # base[n][r]
  PROVE  Current(n, r)' => Agrees(n, r)'
<1> SUFFICES ASSUME Current(n, r)' PROVE Agrees(n, r)'
  OBVIOUS
<1>1. rows'[r] = rows[r] /\ Current(n, r) /\ Agrees(n, r)
  BY DEF Current
<1>2. View(n, r)' = View(n, r)
  <2>1. CASE txn[n] = None
    BY <1>1, <2>1 DEF View
  <2>2. CASE txn[n] # None
    <3>1. txn[n] \in Client /\ Owner(txn[n]) = n
      BY <2>2 DEF CallsInv, OpenIsTxn, TypeOK
    <3>2. work'[txn[n]] = work[txn[n]]
      BY <3>1
    <3>3. View(n, r) = IF work[txn[n]][r] = Untouched THEN rows[r] ELSE work[txn[n]][r]
      BY <2>2 DEF View, Latest
    <3>4. View(n, r)' = IF work'[txn'[n]][r] = Untouched THEN rows'[r] ELSE work'[txn'[n]][r]
      BY <2>2 DEF View, Latest
    <3> QED
      BY <1>1, <3>2, <3>3, <3>4
  <2> QED
    BY <2>1, <2>2
<1>3. /\ OrigIs(n, r, View(n, r))' <=> OrigIs(n, r, View(n, r))
      /\ ValsAre(n, r, View(n, r))' <=> ValsAre(n, r, View(n, r))
      /\ OrigIs(n, r, rows[r])' <=> OrigIs(n, r, rows[r])
  BY <1>1, <1>2 DEF OrigIs, ValsAre
<1>4. ASSUME NEW d \in Call, ManagerOf[d] = n PROVE CallAgrees(calls[d], n, r)'
  BY <1>1, <1>3, <1>4 DEF CallAgrees, Agrees
<1> QED
  BY <1>1, <1>3, <1>4 DEF Agrees

\* It is enough that the call that takes a step agrees, if the others see no change.
LEMMA CallSteps ==
  ASSUME AwaitsItsCalls, CallsInv, Agree, NEW c \in Call, NEW call,
         calls' = [calls EXCEPT ![c] = call],
         \A n \in Manager \ {ManagerOf[c]} :
           mem'[n] = mem[n] /\ base'[n] = base[n] /\ txn'[n] = txn[n],
         \A k \in Client : Owner(k) # ManagerOf[c] => work'[k] = work[k],
         \A n \in Manager \ {ManagerOf[c]}, r \in Row :
           rows'[r] = rows[r] \/ rows'[r] = Gone \/ rows'[r].version # base[n][r],
         \A r \in Row : Current(ManagerOf[c], r)' => CallAgrees(call, ManagerOf[c], r)'
  PROVE  Agree'
<1> DEFINE m == ManagerOf[c]
<1>1. calls'[c] = call /\ \A d \in Call : d # c => calls'[d] = calls[d]
  BY DEF CallsInv, TypeOK
<1>2. ASSUME NEW n \in Manager, NEW r \in Row, n # m PROVE Current(n, r)' => Agrees(n, r)'
  BY <1>1, <1>2, OthersAgree DEF Agree
<1>3. ASSUME NEW r \in Row, Current(m, r)' PROVE Agrees(m, r)'
  <2>1. \A d \in Call : ManagerOf[d] = m => d = c
    BY DEF AwaitsItsCalls
  <2>2. CallAgrees(calls[c], m, r)'
    BY <1>1, <1>3 DEF CallAgrees
  <2> QED
    BY <2>1, <2>2 DEF Agrees
<1> QED
  BY <1>2, <1>3 DEF Agree

\* The application changes the memory of a manager that does not write.
LEMMA AgreeApplication ==
  ASSUME AwaitsItsCalls, CallsInv, Agree, NEW m \in Manager, Find(m) \/ Refresh(m) \/ Edit(m)
  PROVE  Agree'
<1>1. /\ UNCHANGED <<rows, work, txn, calls>> /\ Runs(m) /\ TypeOK
      /\ \A n \in Manager : txn[n] # None => txn[n] \in Client
  BY DEF Find, Refresh, Edit, dbVars, CallsInv, TypeOK
<1>2. \A n \in Manager, r \in Row : View(n, r)' = View(n, r)
  BY <1>1 DEF View, Latest
<1>3. \A d \in Call : ManagerOf[d] = m => calls[d].pc \notin {"writing", "reset", "rollback", "flush", "connectFlush"}
  BY <1>1 DEF Runs, IsFlushing, InFlush, Quiet, AwaitsItsCalls
<1>4. SUFFICES ASSUME \A n \in Manager \ {m} : mem'[n] = mem[n] /\ base'[n] = base[n],
                      \A r \in Row : Current(m, r)' =>
                        OrigIs(m, r, View(m, r))' \/ (Current(m, r) /\ mem'[m][r].orig = mem[m][r].orig)
               PROVE  Agree'
  <2>1. CASE Edit(m)
    <3>1. /\ \A n \in Manager \ {m} : mem'[n] = mem[n]
          /\ \A r \in Row : /\ mem'[m][r] = Absent <=> mem[m][r] = Absent
                            /\ mem[m][r] # Absent => mem'[m][r].orig = mem[m][r].orig
      BY <1>1, <2>1, EditTypes
    <3>2. UNCHANGED <<rows, base>>
      BY <2>1 DEF Edit, dbVars
    <3> QED
      BY <1>4, <3>1, <3>2 DEF Current
  <2>2. CASE Find(m) \/ Refresh(m)
    <3>1. PICK R \in SUBSET Row : Hydrate(m, R)
      <4>1. Row \ Loaded(m) \in SUBSET Row /\ Loaded(m) \ Deletes(m) \in SUBSET Row
        BY DEF Loaded
      <4> QED
        BY <2>2, <4>1 DEF Find, Refresh
    <3>2. /\ \A n \in Manager \ {m} : mem'[n] = mem[n] /\ base'[n] = base[n]
          /\ \A r \in Row : base'[m][r] = IF r \in R /\ View(m, r) # Gone /\ rows[r] # Gone
                                          THEN rows[r].version ELSE base[m][r]
          /\ \A r \in Row : mem'[m][r] = CASE r \in R /\ View(m, r) # Gone -> Hydrated(View(m, r))
                                           [] r \in R /\ View(m, r) = Gone -> Absent
                                           [] OTHER -> mem[m][r]
      BY <1>1, <3>1, HydrateStep
    <3>3. ASSUME NEW r \in Row, Current(m, r)'
          PROVE  OrigIs(m, r, View(m, r))' \/ (Current(m, r) /\ mem'[m][r].orig = mem[m][r].orig)
      <4>1. CASE r \in R /\ View(m, r) # Gone
        <5>1. View(m, r) \in RowState /\ mem'[m][r] = Hydrated(View(m, r))
          BY <1>1, <3>2, <4>1, ViewTypes
        <5>2. mem'[m][r].orig = View(m, r).vals
          BY <5>1, HydratedTypes
        <5> QED
          BY <1>2, <5>2 DEF OrigIs
      <4>2. CASE r \in R /\ View(m, r) = Gone
        BY <3>2, <3>3, <4>2 DEF Current
      <4>3. CASE r \notin R
        BY <1>1, <3>2, <3>3, <4>3 DEF Current
      <4> QED
        BY <4>1, <4>2, <4>3
    <3> QED
      BY <1>4, <3>2, <3>3
  <2> QED
    BY <2>1, <2>2
<1>5. ASSUME NEW r \in Row, Current(m, r)' PROVE Agrees(m, r)'
  <2>1. ASSUME OrigIs(m, r, View(m, r))' PROVE Agrees(m, r)'
    BY <1>1, <1>3, <2>1 DEF Agrees, CallAgrees, Flushing
  <2>2. ASSUME Current(m, r), mem'[m][r].orig = mem[m][r].orig PROVE OrigIs(m, r, View(m, r))'
    <3>1. Agrees(m, r)
      BY <2>2 DEF Agree
    <3>2. OrigIs(m, r, View(m, r))
      BY <1>3, <3>1 DEF Agrees, CallAgrees
    <3> QED
      BY <1>2, <2>2, <3>2 DEF OrigIs
  <2> QED
    BY <1>4, <1>5, <2>1, <2>2
<1>6. ASSUME NEW n \in Manager, NEW r \in Row, n # m PROVE Current(n, r)' => Agrees(n, r)'
  BY <1>1, <1>4, <1>6, OthersAgree DEF Agree
<1> QED
  BY <1>5, <1>6 DEF Agree

\* A step that writes no row, ends no transaction and changes no entity's values: what the
\* manager sees stays.
LEMMA SameView ==
  ASSUME CallsInv, NEW m \in Manager, UNCHANGED <<rows, work, txn>>
  PROVE  \A r \in Row : View(m, r)' = View(m, r)
BY DEF View, Latest

\* A call that has ended, waits for a connection or runs its lambda has only to take the
\* view for the original values; one that rolls back has nothing to agree with.
LEMMA AgreesWhenSettled ==
  ASSUME NEW call, NEW m, NEW r, call.pc \in {"idle", "connect", "inside", "commit", "rollback"},
         call.pc # "rollback" => OrigIs(m, r, View(m, r))'
  PROVE  CallAgrees(call, m, r)'
BY DEF CallAgrees, Flushing

\* em.transaction starts, and the connection or the lambda fails.
LEMMA AgreeLambda ==
  ASSUME AwaitsItsCalls, CallsInv, Agree, NEW c \in Call, StartTransaction(c) \/ LambdaFails(c)
  PROVE  Agree'
<1> DEFINE m == ManagerOf[c]
<1>1. /\ UNCHANGED <<rows, work, txn, mem, base>> /\ m \in Manager /\ TypeOK /\ calls[c] \in CallState
      /\ CallOk(c, calls[c], txn[m]) /\ calls[c].pc \in {"idle", "inside", "commit"}
  BY ClientTypes DEF StartTransaction, LambdaFails, dbVars, CallsInv, TypeOK, EachCallOk
<1>2. PICK call : calls' = [calls EXCEPT ![c] = call] /\ call.pc \in {"connect", "inside", "rollback"}
  <2>1. CASE StartTransaction(c)
    <3> DEFINE new == IF txn[m] = None THEN [Idle EXCEPT !.pc = "connect", !.kind = "transaction"]
                      ELSE [Idle EXCEPT !.pc = "inside", !.kind = "transaction", !.joined = TRUE]
    <3>1. new.pc \in {"connect", "inside"}
      BY DEF Idle
    <3>2. calls' = [calls EXCEPT ![c] = new]
      BY <2>1 DEF StartTransaction
    <3> QED
      BY <3>1, <3>2
  <2>2. CASE LambdaFails(c)
    <3>1. Threw(calls[c]).pc = "rollback" /\ calls' = [calls EXCEPT ![c] = Threw(calls[c])]
      BY <1>1, <2>2 DEF LambdaFails, CallOk, Threw, CallState
    <3> QED
      BY <3>1
  <2> QED
    BY <2>1, <2>2
<1>3. ASSUME NEW r \in Row, Current(m, r)' PROVE CallAgrees(call, m, r)'
  <2>1. OrigIs(m, r, View(m, r))
    BY <1>1, <1>3 DEF Agree, Agrees, CallAgrees, Current
  <2>2. OrigIs(m, r, View(m, r))'
    BY <1>1, <2>1, SameView DEF OrigIs
  <2> QED
    BY <1>2, <2>2, AgreesWhenSettled
<1> QED
  BY <1>1, <1>2, <1>3, CallSteps

\* A transaction that begins has written nothing: its manager sees what is committed.
LEMMA AgreeBegins ==
  ASSUME AwaitsItsCalls, CallsInv, Agree, NEW c \in Call, Begin(c) \/ BeginFlush(c)
  PROVE  Agree'
<1> DEFINE m == ManagerOf[c]
<1>1. /\ UNCHANGED <<rows, work, mem, base>> /\ m \in Manager /\ TypeOK /\ calls[c] \in CallState
      /\ CallOk(c, calls[c], txn[m]) /\ calls[c].pc \in {"connect", "connectFlush"} /\ txn[m] = None
  BY ClientTypes DEF Begin, BeginFlush, CallsInv, TypeOK, EachCallOk, CallOk
<1>2. PICK k \in Client : txn' = [txn EXCEPT ![m] = k] /\ k \in {Inner(c), Outer(c)}
  BY ClientTypes DEF Begin, BeginFlush
<1>3. work[k] = NoWork
  <2>1. k \notin open
    BY <1>1, <1>2, ClientTypes DEF CallsInv, OpenIsTxn
  <2> QED
    BY <1>1, <2>1 DEF TypeOK
<1>4. ASSUME NEW r \in Row PROVE View(m, r)' = rows[r] /\ View(m, r) = rows[r]
  <2>1. work[k][r] = Untouched /\ txn'[m] = k /\ k # None
    BY <1>1, <1>2, <1>3, ClientTypes DEF NoWork, TypeOK
  <2> QED
    BY <1>1, <2>1 DEF View, Latest
<1>5. PICK call : /\ calls' = [calls EXCEPT ![c] = call]
                  /\ \/ calls[c].pc = "connect" /\ call.pc = "inside"
                     \/ /\ calls[c].pc = "connectFlush" /\ call.pc = "writing"
                        /\ call.todo = calls[c].todo /\ call.missed = calls[c].missed
  <2>1. CASE Begin(c)
    <3>1. calls' = [calls EXCEPT ![c] = [calls[c] EXCEPT !.pc = "inside"]] /\ calls[c].pc = "connect"
      BY <1>1, <2>1 DEF Begin, TypeOK
    <3>2. [calls[c] EXCEPT !.pc = "inside"].pc = "inside"
      BY <1>1 DEF CallState
    <3> QED
      BY <3>1, <3>2
  <2>2. CASE BeginFlush(c)
    <3> DEFINE new == [calls[c] EXCEPT !.pc = "writing", !.target = Inner(c)]
    <3>1. calls' = [calls EXCEPT ![c] = new] /\ calls[c].pc = "connectFlush"
      BY <1>1, <2>2 DEF BeginFlush, TypeOK
    <3>2. new.pc = "writing" /\ new.todo = calls[c].todo /\ new.missed = calls[c].missed
      BY <1>1 DEF CallState
    <3> HIDE DEF new
    <3> QED
      BY <3>1, <3>2
  <2> QED
    BY <2>1, <2>2
<1>6. ASSUME NEW r \in Row, Current(m, r)' PROVE CallAgrees(call, m, r)'
  <2>1. CallAgrees(calls[c], m, r)
    BY <1>1, <1>6 DEF Agree, Agrees, Current
  <2>2. OrigIs(m, r, View(m, r))' /\ OrigIs(m, r, rows[r])'
    BY <1>1, <1>4, <2>1 DEF CallAgrees, OrigIs
  <2>3. ValsAre(m, r, View(m, r)) => ValsAre(m, r, View(m, r))'
    BY <1>1, <1>4 DEF ValsAre
  <2>4. CASE call.pc = "inside"
    BY <2>2, <2>4, AgreesWhenSettled
  <2>5. CASE call.pc = "writing"
    <3>1. r \notin call.todo /\ ~call.missed => ValsAre(m, r, View(m, r))
      BY <1>5, <2>1, <2>5 DEF CallAgrees, Flushing
    <3> QED
      BY <2>2, <2>3, <2>5, <3>1 DEF CallAgrees
  <2> QED
    BY <1>5, <2>4, <2>5
<1>7. \A n \in Manager \ {m} : txn'[n] = txn[n]
  BY <1>1, <1>2 DEF TypeOK
<1> QED
  BY <1>1, <1>5, <1>6, <1>7, CallSteps

\* A flush that goes on in the transaction of its manager, or waits for a connection.
LEMMA AgreeJoins ==
  ASSUME AwaitsItsCalls, CallsInv, Agree, NEW c \in Call, JoinOrConnect(c)
  PROVE  Agree'
<1> DEFINE m == ManagerOf[c]
           joins == [calls[c] EXCEPT !.pc = "writing", !.target = txn[m]]
           connects == [calls[c] EXCEPT !.pc = "connectFlush"]
<1>1. /\ UNCHANGED <<rows, work, txn, mem, base>> /\ m \in Manager /\ TypeOK /\ calls[c] \in CallState
      /\ CallOk(c, calls[c], txn[m]) /\ calls[c].pc = "flush"
  BY ClientTypes DEF JoinOrConnect, dbVars, CallsInv, TypeOK, EachCallOk
<1>2. /\ joins.pc = "writing" /\ joins.todo = calls[c].todo /\ joins.missed = calls[c].missed /\ joins.kind = calls[c].kind
      /\ connects.pc = "connectFlush" /\ connects.todo = calls[c].todo /\ connects.missed = calls[c].missed
  BY <1>1 DEF CallState
<1>3. calls' = [calls EXCEPT ![c] = IF Joins(m) THEN joins ELSE connects]
  BY DEF JoinOrConnect
<1> HIDE DEF joins, connects
<1>4. PICK call : /\ calls' = [calls EXCEPT ![c] = call] /\ call.todo = calls[c].todo /\ call.missed = calls[c].missed
                  /\ \/ call.pc = "writing" /\ call.kind # "flush"
                     \/ call.pc = "connectFlush"
  <2>1. CASE Joins(m)
    BY <1>1, <1>2, <1>3, <2>1 DEF CallOk, Joins
  <2>2. CASE ~Joins(m)
    BY <1>2, <1>3, <2>2
  <2> QED
    BY <2>1, <2>2
<1>5. ASSUME NEW r \in Row, Current(m, r)' PROVE CallAgrees(call, m, r)'
  <2>1. CallAgrees(calls[c], m, r)
    BY <1>1, <1>5 DEF Agree, Agrees, Current
  <2>2. /\ OrigIs(m, r, View(m, r))' <=> OrigIs(m, r, View(m, r))
        /\ ValsAre(m, r, View(m, r))' <=> ValsAre(m, r, View(m, r))
    BY <1>1, SameView DEF OrigIs, ValsAre
  <2> QED
    BY <1>1, <1>4, <2>1, <2>2 DEF CallAgrees, Flushing
<1> QED
  BY <1>1, <1>4, <1>5, CallSteps

\* A call that starts a flush takes all that is not as memory took it.
LEMMA AgreeStartFlush ==
  ASSUME AwaitsItsCalls, CallsInv, Agree, NEW c \in Call, NEW last \in BOOLEAN, StartFlush(c, last)
  PROVE  Agree'
<1> DEFINE m == ManagerOf[c]
<1>1. /\ UNCHANGED <<rows, work, txn, base>> /\ m \in Manager /\ TypeOK /\ calls[c] \in CallState
      /\ CallOk(c, calls[c], txn[m]) /\ calls[c].pc \in {"idle", "inside"}
  BY ClientTypes DEF StartFlush, dbVars, CallsInv, TypeOK, EachCallOk
<1>2. ASSUME NEW r \in Row, Current(m, r) PROVE OrigIs(m, r, View(m, r))
  BY <1>1, <1>2 DEF Agree, Agrees, CallAgrees
<1>3. CASE Updates(m) \cup Deletes(m) = {}
  <2>1. /\ calls' = [calls EXCEPT ![c] = Returned(Starting(c, last))] /\ UNCHANGED mem
        /\ calls[c].pc = "inside" /\ last
    BY <1>3 DEF StartFlush, Starting
  <2>2. Returned(Starting(c, last)) = [[calls[c] EXCEPT !.last = last] EXCEPT !.pc = "commit"]
    BY <1>1, <2>1, Zenon DEF Returned, Starting, CallOk, CallState
  <2>3. PICK call : calls' = [calls EXCEPT ![c] = call] /\ call.pc = "commit"
    BY <1>1, <2>1, <2>2 DEF CallState
  <2>4. ASSUME NEW r \in Row, Current(m, r)' PROVE CallAgrees(call, m, r)'
    <3>1. OrigIs(m, r, View(m, r))'
      BY <1>1, <1>2, <2>1, <2>4, SameView DEF Current, OrigIs
    <3> QED
      BY <2>3, <3>1, AgreesWhenSettled
  <2> QED
    BY <1>1, <2>1, <2>3, <2>4, CallSteps
<1>4. CASE Updates(m) \cup Deletes(m) # {}
  <2>1. PICK dry \in BOOLEAN :
          calls' = [calls EXCEPT ![c] =
                      [Starting(c, last) EXCEPT !.pc = "flush", !.dry = dry, !.todo = Updates(m) \cup Deletes(m)]]
    BY <1>4 DEF StartFlush, Starting
  <2> DEFINE new == [Starting(c, last) EXCEPT !.pc = "flush", !.dry = dry, !.todo = Updates(m) \cup Deletes(m)]
  <2>2. PICK now \in Nows(m) :
          /\ mem' = [mem EXCEPT ![m] = [r \in Row |-> IF r \in Updates(m) THEN BumpUpdatedAt(@[r], now) ELSE @[r]]]
          /\ lastNow' = [lastNow EXCEPT ![m] = now] /\ clock' = Max({clock, now})
    BY <1>4 DEF StartFlush
  <2>3. calls' = [calls EXCEPT ![c] = new]
    BY <2>1
  <2>4. PICK call : /\ calls' = [calls EXCEPT ![c] = call]
                    /\ call.pc = "flush" /\ call.todo = Updates(m) \cup Deletes(m)
    <3>1. Starting(c, last) \in CallState
      BY <1>1, SpecialAssumption DEF Starting, CallState, Idle, InFlush
    <3>2. new.pc = "flush" /\ new.todo = Updates(m) \cup Deletes(m)
      BY <3>1 DEF CallState
    <3> HIDE DEF new
    <3> QED
      BY <2>3, <3>2
  <2>5. /\ \A n \in Manager \ {m} : mem'[n] = mem[n]
        /\ \A r \in Row : mem'[m][r] = IF r \in Updates(m) THEN BumpUpdatedAt(mem[m][r], now) ELSE mem[m][r]
    BY <1>1, <2>2, BumpStep
  <2>6. ASSUME NEW r \in Row, Current(m, r)' PROVE CallAgrees(call, m, r)'
    <3>1. mem[m][r] \in Entity /\ now \in Nat
      <4>1. mem[m][r] # Absent
        BY <2>5, <2>6 DEF Current, Updates, Loaded
      <4> QED
        BY <1>1, <4>1, NowsTypes DEF TypeOK
    <3>2. /\ mem'[m][r].orig = mem[m][r].orig /\ mem'[m][r].vals = mem[m][r].vals
          /\ mem'[m][r].deleted = mem[m][r].deleted
      BY <2>5, <3>1, BumpTypes
    <3>3. OrigIs(m, r, View(m, r))
      BY <1>1, <1>2, <2>6, <3>1, SpecialAssumption DEF Current
    <3>4. OrigIs(m, r, View(m, r))'
      BY <1>1, <3>2, <3>3, SameView DEF OrigIs
    <3>5. ASSUME r \notin call.todo PROVE ValsAre(m, r, View(m, r))'
      <4>1. ~mem[m][r].deleted /\ Changed(mem[m][r]) = {}
        BY <2>4, <3>1, <3>5, SpecialAssumption DEF Updates, Deletes, Loaded
      <4>2. mem[m][r].vals = mem[m][r].orig
        BY <3>1, <4>1 DEF Changed, Entity
      <4> QED
        BY <1>1, <3>2, <3>3, <4>1, <4>2, SameView DEF OrigIs, ValsAre
    <3> QED
      BY <2>4, <3>4, <3>5 DEF CallAgrees
  <2> QED
    BY <1>1, <2>4, <2>5, <2>6, CallSteps
<1> QED
  BY <1>3, <1>4

\* The values that the batch gives a row are those of its entity: the columns that other
\* entities of the batch bring in have the row's own values.
LEMMA UpdatedIsMemory ==
  ASSUME CallsInv, NEW m \in Manager, NEW r \in Row, NEW row \in RowState, mem[m][r] \in Entity,
         ~mem[m][r].deleted, Changed(mem[m][r]) # {}, mem[m][r].orig = row.vals
  PROVE  Updated(m, r, row).vals = mem[m][r].vals
<1>1. r \in Updates(m)
  BY SpecialAssumption DEF Updates, Loaded
<1>2. \A k \in Column \ ChangedFields(m) : mem[m][r].vals[k] = row.vals[k]
  BY <1>1 DEF ChangedFields, Changed
<1>3. Updated(m, r, row).vals =
        [k \in Column |-> IF k \in ChangedFields(m) THEN mem[m][r].vals[k] ELSE row.vals[k]]
  BY DEF Updated
<1>4. Updated(m, r, row).vals = [k \in Column |-> mem[m][r].vals[k]]
  BY <1>2, <1>3
<1> QED
  BY <1>4 DEF Entity

\* A row is written: it is as its entity, or the statement has missed it.
LEMMA AgreeWriteRow ==
  ASSUME AwaitsItsCalls, CallsInv, Agree, NEW c \in Call, NEW r \in Row, WriteRow(c, r)
  PROVE  Agree'
<1> DEFINE m == ManagerOf[c]
           writer == txn[m]
           was == Latest(writer, r)
           is == Updated(m, r, was)
<1>0. /\ writer \in Client /\ Owner(writer) = m /\ r \in calls[c].todo /\ mem[m][r] \in Entity
      /\ calls' = [calls EXCEPT ![c] = [calls[c] EXCEPT !.todo = calls[c].todo \ {r}, !.missed = calls'[c].missed]]
      /\ \/ mem[m][r].deleted /\ work' = [work EXCEPT ![writer][r] = Gone] /\ (calls'[c].missed <=> calls[c].missed)
         \/ mem[m][r].deleted /\ was = Gone /\ work' = work /\ (calls'[c].missed <=> calls[c].missed)
         \/ /\ ~mem[m][r].deleted /\ Matches(m, r, was) /\ is \in RowState /\ Changed(mem[m][r]) # {}
            /\ work' = [work EXCEPT ![writer][r] = is] /\ (calls'[c].missed <=> calls[c].missed)
         \/ ~mem[m][r].deleted /\ work' = work /\ calls'[c].missed
  BY WriteRowStep
<1> HIDE DEF was, is
<1> PICK k : k = writer
  OBVIOUS
<1> PICK row : row = was
  OBVIOUS
<1> PICK new : new = is
  OBVIOUS
<1>1. /\ k \in Client /\ Owner(k) = m /\ k # None /\ r \in calls[c].todo /\ mem[m][r] \in Entity
      /\ k = txn[m] /\ row = Latest(k, r)
      /\ \/ mem[m][r].deleted /\ work' = [work EXCEPT ![k][r] = Gone]
         \/ mem[m][r].deleted /\ row = Gone /\ work' = work
         \/ /\ ~mem[m][r].deleted /\ row # Gone /\ new \in RowState /\ Changed(mem[m][r]) # {}
            /\ new = Updated(m, r, row) /\ work' = [work EXCEPT ![k][r] = new]
         \/ ~mem[m][r].deleted /\ work' = work /\ calls'[c].missed
  BY <1>0, SpecialAssumption DEF was, is, Matches
<1>2. /\ UNCHANGED <<rows, txn, mem, base>> /\ m \in Manager /\ TypeOK /\ calls[c] \in CallState
      /\ calls[c].pc = "writing"
  BY ClientTypes DEF WriteRow, CallsInv, TypeOK
<1>3. PICK call : /\ calls' = [calls EXCEPT ![c] = call] /\ call.pc = "writing" /\ call.kind = calls[c].kind
                  /\ call.todo = calls[c].todo \ {r} /\ (call.missed <=> calls'[c].missed)
  <2> DEFINE next == [calls[c] EXCEPT !.todo = calls[c].todo \ {r}, !.missed = calls'[c].missed]
  <2>1. next.pc = "writing" /\ next.kind = calls[c].kind /\ next.todo = calls[c].todo \ {r} /\ next.missed = calls'[c].missed
    BY <1>2 DEF CallState
  <2>2. calls' = [calls EXCEPT ![c] = next]
    BY <1>0
  <2> HIDE DEF next
  <2> QED
    BY <2>1, <2>2
<1>4. calls[c].missed => calls'[c].missed
  BY <1>0
<1>5. /\ \A j \in Client : j # k => work'[j] = work[j]
      /\ \A q \in Row \ {r} : work'[k][q] = work[k][q]
  BY <1>1, <1>2 DEF TypeOK
<1>6. ASSUME NEW q \in Row PROVE View(m, q) = Latest(k, q) /\ View(m, q)' = Latest(k, q)'
  <2>1. k = txn[m] /\ k # None /\ txn' = txn
    BY <1>1, <1>2
  <2>2. View(m, q) = Latest(k, q)
    BY <2>1 DEF View
  <2>3. View(m, q)' = IF txn'[m] = None THEN rows'[q] ELSE Latest(txn[m], q)'
    BY DEF View
  <2> QED
    BY <2>1, <2>2, <2>3
<1>7. ASSUME NEW q \in Row, Current(m, q)' PROVE CallAgrees(call, m, q)'
  <2>1. CallAgrees(calls[c], m, q)
    BY <1>2, <1>7 DEF Agree, Agrees, Current
  <2>2. CASE q # r
    <3>1. Latest(k, q)' = Latest(k, q)
      BY <1>2, <1>5, <2>2 DEF Latest
    <3>2. View(m, q)' = View(m, q)
      BY <1>6, <3>1
    <3> QED
      BY <1>1, <1>2, <1>3, <1>4, <2>1, <2>2, <3>2 DEF CallAgrees, Flushing, OrigIs, ValsAre
  <2>3. CASE q = r
    <3>1. OrigIs(m, r, row)
      BY <1>1, <1>2, <1>6, <2>1, <2>3 DEF CallAgrees
    <3>2. ASSUME ~calls'[c].missed PROVE ValsAre(m, r, Latest(k, r))'
      <4>1. CASE mem[m][r].deleted
        <5>1. Latest(k, r)' = Gone
          <6>1. CASE row = Gone /\ work' = work
            BY <1>1, <1>2, <6>1 DEF Latest
          <6>2. CASE work' = [work EXCEPT ![k][r] = Gone]
            <7>1. work'[k][r] = Gone
              BY <1>1, <1>2, <6>2 DEF TypeOK
            <7> QED
              BY <7>1, SpecialAssumption DEF Latest
          <6> QED
            BY <1>1, <4>1, <6>1, <6>2
        <5> QED
          BY <5>1 DEF ValsAre
      <4>2. CASE ~mem[m][r].deleted
        <5>1. /\ new \in RowState /\ Changed(mem[m][r]) # {} /\ row # Gone
              /\ work' = [work EXCEPT ![k][r] = new] /\ new = Updated(m, r, row)
          BY <1>1, <3>2, <4>2
        <5>2. row \in RowState
          BY <1>1, <1>2, <5>1, ViewTypes
        <5>3. Latest(k, r)' = new
          <6>1. work'[k][r] = new
            BY <1>1, <1>2, <5>1 DEF TypeOK
          <6> QED
            BY <5>1, <6>1, SpecialAssumption DEF Latest
        <5>4. new.vals = mem[m][r].vals
          <6>1. mem[m][r].orig = row.vals /\ mem[m][r] \in Entity
            BY <1>1, <3>1, <5>1 DEF OrigIs
          <6> QED
            BY <1>2, <4>2, <5>1, <5>2, <6>1, UpdatedIsMemory
        <5> QED
          BY <1>2, <4>2, <5>3, <5>4 DEF ValsAre
      <4> QED
        BY <4>1, <4>2
    <3>3. calls[c].kind = "flush" => OrigIs(m, r, rows[r])'
      BY <1>2, <2>1, <2>3 DEF CallAgrees, OrigIs
    <3> QED
      BY <1>3, <1>6, <2>3, <3>2, <3>3 DEF CallAgrees
  <2> QED
    BY <2>2, <2>3
<1>8. \A j \in Client : Owner(j) # m => work'[j] = work[j]
  BY <1>1, <1>5
<1> QED
  BY <1>2, <1>3, <1>7, <1>8, CallSteps

\* A commit: its manager sees what it saw, and the others that the version is another one.
LEMMA CommitView ==
  ASSUME CallsInv, LockInv, NEW c \in Call, NEW k \in {Inner(c), Outer(c)}, txn[ManagerOf[c]] = k,
         Committed(k, ManagerOf[c]), Ended(k, ManagerOf[c]), UNCHANGED mem
  PROVE  /\ \A r \in Row : /\ View(ManagerOf[c], r)' = View(ManagerOf[c], r)
                           /\ Current(ManagerOf[c], r)' => Current(ManagerOf[c], r)
         /\ \A n \in Manager \ {ManagerOf[c]} : mem'[n] = mem[n] /\ base'[n] = base[n] /\ txn'[n] = txn[n]
         /\ \A j \in Client : Owner(j) # ManagerOf[c] => work'[j] = work[j]
         /\ \A n \in Manager \ {ManagerOf[c]}, r \in Row :
              rows'[r] = rows[r] \/ rows'[r] = Gone \/ rows'[r].version # base[n][r]
<1> DEFINE m == ManagerOf[c]
<1>1. k \in Client /\ Owner(k) = m /\ m \in Manager /\ k # None /\ TypeOK
  BY ClientTypes DEF CallsInv
<1>2. /\ \A r \in Row : rows'[r] = Latest(k, r)
      /\ \A n \in Manager \ {m} : base'[n] = base[n]
      /\ \A r \in Row : base'[m][r] = IF Written(k, r) THEN work[k][r].version ELSE base[m][r]
  BY <1>1 DEF Committed, Applied, TypeOK, Written
<1>3. /\ work' = [work EXCEPT ![k] = NoWork] /\ txn' = [txn EXCEPT ![m] = None]
      /\ txn'[m] = None /\ \A n \in Manager \ {m} : txn'[n] = txn[n]
      /\ \A j \in Client : j # k => work'[j] = work[j]
  BY <1>1 DEF Ended, TxnAfter, TypeOK
<1>4. ASSUME NEW r \in Row PROVE View(m, r)' = View(m, r)
  BY <1>1, <1>2, <1>3 DEF View
<1>5. ASSUME NEW r \in Row, Written(k, r)
      PROVE  /\ rows[r] # Gone /\ rows[r].version \in Nat /\ base[m][r] = rows[r].version
             /\ rows'[r] = work[k][r] /\ rows'[r].version = rows[r].version + 1
  BY <1>1, <1>2, <1>5 DEF CallsInv, LockInv, WorkOnRows, WorkIsNext, TypeOK, RowState, Latest, Written
<1>6. ASSUME NEW r \in Row, Current(m, r)' PROVE Current(m, r)
  <2>1. CASE Written(k, r)
    BY <1>5, <1>6, <2>1 DEF Current
  <2>2. CASE ~Written(k, r)
    BY <1>2, <1>6, <2>2 DEF Current, Latest, Written
  <2> QED
    BY <2>1, <2>2
<1>7. ASSUME NEW n \in Manager \ {m}, NEW r \in Row
      PROVE  rows'[r] = rows[r] \/ rows'[r] = Gone \/ rows'[r].version # base[n][r]
  <2>1. CASE Written(k, r)
    <3>1. base[n][r] <= rows[r].version /\ base[n][r] \in Nat
      BY <1>1, <1>5, <2>1 DEF LockInv, StampIsVersion, TypeOK
    <3> QED
      BY <1>5, <2>1, <3>1
  <2>2. CASE ~Written(k, r)
    BY <1>2, <2>2 DEF Latest, Written
  <2> QED
    BY <2>1, <2>2
<1>8. \A n \in Manager \ {m} : mem'[n] = mem[n]
  OBVIOUS
<1> QED
  BY <1>1, <1>2, <1>3, <1>4, <1>6, <1>7, <1>8

\* What a flush has written is committed, or left to the transaction it is in.
LEMMA AgreeFlushWritten ==
  ASSUME AwaitsItsCalls, CallsInv, LockInv, Agree, NEW c \in Call, FlushWritten(c)
  PROVE  Agree'
<1> DEFINE m == ManagerOf[c]
           k == txn[m]
<1>1. /\ m \in Manager /\ TypeOK /\ calls[c] \in CallState /\ CallOk(c, calls[c], k)
      /\ calls[c].pc = "writing" /\ calls[c].todo = {} /\ ~calls[c].missed /\ UNCHANGED mem
  BY ClientTypes DEF FlushWritten, CallsInv, TypeOK, EachCallOk
<1>2. PICK call : calls' = [calls EXCEPT ![c] = call] /\ call.pc = "reset" /\ calls[c].target = k
  <2> DEFINE new == [calls[c] EXCEPT !.pc = "reset"]
  <2>1. calls' = [calls EXCEPT ![c] = new] /\ new.pc = "reset" /\ calls[c].target = k
    BY <1>1 DEF FlushWritten, CallState, CallOk, TypeOK
  <2> HIDE DEF new
  <2> QED
    BY <2>1
<1>3. ASSUME NEW r \in Row, Current(m, r) PROVE ValsAre(m, r, View(m, r))
  BY <1>1, <1>3 DEF Agree, Agrees, CallAgrees, Flushing
<1>4. CASE k = Inner(c)
  <2>1. Committed(k, m) /\ Ended(k, m)
    BY <1>2, <1>4 DEF FlushWritten
  <2>2. /\ \A r \in Row : View(m, r)' = View(m, r) /\ (Current(m, r)' => Current(m, r))
        /\ \A n \in Manager \ {m} : mem'[n] = mem[n] /\ base'[n] = base[n] /\ txn'[n] = txn[n]
        /\ \A j \in Client : Owner(j) # m => work'[j] = work[j]
        /\ \A n \in Manager \ {m}, r \in Row :
             rows'[r] = rows[r] \/ rows'[r] = Gone \/ rows'[r].version # base[n][r]
    BY <1>1, <1>4, <2>1, CommitView
  <2>3. ASSUME NEW r \in Row, Current(m, r)' PROVE CallAgrees(call, m, r)'
    <3>1. ValsAre(m, r, View(m, r))'
      BY <1>1, <1>3, <2>2, <2>3 DEF ValsAre
    <3> QED
      BY <1>2, <3>1 DEF CallAgrees, Flushing
  <2> QED
    BY <1>2, <2>2, <2>3, CallSteps
<1>5. CASE k # Inner(c)
  <2>1. UNCHANGED <<rows, work, txn, base>>
    BY <1>2, <1>5 DEF FlushWritten, dbVars
  <2>2. ASSUME NEW r \in Row, Current(m, r)' PROVE CallAgrees(call, m, r)'
    <3>1. Current(m, r) /\ View(m, r)' = View(m, r)
      BY <1>1, <2>1, <2>2, SameView DEF Current
    <3>2. ValsAre(m, r, View(m, r))'
      BY <1>1, <1>3, <3>1 DEF ValsAre
    <3> QED
      BY <1>2, <3>2 DEF CallAgrees, Flushing
  <2> QED
    BY <1>1, <1>2, <2>1, <2>2, CallSteps
<1> QED
  BY <1>4, <1>5

\* em.transaction commits.
LEMMA AgreeCommit ==
  ASSUME AwaitsItsCalls, CallsInv, LockInv, Agree, NEW c \in Call, Commit(c)
  PROVE  Agree'
<1> DEFINE m == ManagerOf[c]
           k == Outer(c)
<1>1. /\ m \in Manager /\ CallOk(c, calls[c], txn[m]) /\ calls[c].pc = "commit" /\ UNCHANGED mem
      /\ Committed(k, m) /\ Ended(k, m) /\ calls' = [calls EXCEPT ![c] = Idle]
  BY ClientTypes DEF Commit, CallsInv, EachCallOk
<1>2. txn[m] = k
  BY <1>1 DEF CallOk
<1>3. /\ \A r \in Row : View(m, r)' = View(m, r) /\ (Current(m, r)' => Current(m, r))
      /\ \A n \in Manager \ {m} : mem'[n] = mem[n] /\ base'[n] = base[n] /\ txn'[n] = txn[n]
      /\ \A j \in Client : Owner(j) # m => work'[j] = work[j]
      /\ \A n \in Manager \ {m}, r \in Row :
           rows'[r] = rows[r] \/ rows'[r] = Gone \/ rows'[r].version # base[n][r]
  BY <1>1, <1>2, CommitView
<1>4. ASSUME NEW r \in Row, Current(m, r)' PROVE CallAgrees(Idle, m, r)'
  <2>1. OrigIs(m, r, View(m, r))
    BY <1>1, <1>3, <1>4 DEF Agree, Agrees, CallAgrees
  <2>2. OrigIs(m, r, View(m, r))'
    BY <1>1, <1>3, <2>1 DEF OrigIs
  <2> QED
    BY <2>2, AgreesWhenSettled DEF Idle
<1> QED
  BY <1>1, <1>3, <1>4, CallSteps

\* The flush saves its entities.
LEMMA AgreeReset ==
  ASSUME AwaitsItsCalls, CallsInv, Agree, NEW c \in Call, Reset(c)
  PROVE  Agree'
<1> DEFINE m == ManagerOf[c]
           M == [r \in Row |-> ResetAfterFlushed(mem[m][r])]
<1>1. /\ m \in Manager /\ TypeOK /\ calls[c] \in CallState /\ CallOk(c, calls[c], txn[m])
      /\ calls[c].pc = "reset" /\ UNCHANGED <<rows, work, txn, base>>
      /\ calls' = [calls EXCEPT ![c] = Returned(calls[c])] /\ mem' = [mem EXCEPT ![m] = M]
  BY ClientTypes DEF Reset, CallsInv, TypeOK, EachCallOk, dbVars
<1>2. PICK call : calls' = [calls EXCEPT ![c] = call] /\ call.pc \in {"idle", "commit", "inside"}
  <2>1. Returned(calls[c]).pc \in {"idle", "commit", "inside"}
    BY <1>1 DEF Returned, Idle, CallState
  <2> QED
    BY <1>1, <2>1
<1>3. /\ \A r \in Row : mem'[m][r] = ResetAfterFlushed(mem[m][r])
      /\ \A n \in Manager \ {m} : mem'[n] = mem[n]
  BY <1>1 DEF TypeOK
<1> HIDE DEF M
<1>4. ASSUME NEW r \in Row, Current(m, r)' PROVE CallAgrees(call, m, r)'
  <2>1. mem[m][r] \in Entity /\ mem[m][r] # Absent
    <3>1. mem[m][r] # Absent
      BY <1>3, <1>4 DEF Current, ResetAfterFlushed
    <3> QED
      BY <1>1, <3>1 DEF TypeOK
  <2>2. ValsAre(m, r, View(m, r))
    BY <1>1, <1>4, <2>1 DEF Agree, Agrees, CallAgrees, Current
  <2>3. ~mem[m][r].deleted /\ mem'[m][r].orig = mem[m][r].vals
    BY <1>3, <1>4, <2>1, ResetTypes DEF Current
  <2>4. OrigIs(m, r, View(m, r))'
    BY <1>1, <2>2, <2>3, SameView DEF OrigIs, ValsAre
  <2> QED
    BY <1>2, <2>4, AgreesWhenSettled
<1> QED
  BY <1>1, <1>2, <1>3, <1>4, CallSteps

\* A flush that throws ends with the rows as its manager read them; a transaction is rolled
\* back.  What a flush has committed it does save: no hook throws in between.
LEMMA AgreeThrows ==
  ASSUME AwaitsItsCalls, ~Catches, "reset" \notin FailAt, DryRunsAlone, CallsInv, DryOk, Agree, NEW c \in Call,
         OplockFailure(c) \/ DeadlockDetected(c) \/ FlushFails(c) \/ DryRunEnds(c)
  PROVE  Agree'
<1> DEFINE m == ManagerOf[c]
<1>1. /\ m \in Manager /\ TypeOK /\ calls[c] \in CallState /\ CallOk(c, calls[c], txn[m])
      /\ calls[c].pc \in {"flush", "connectFlush", "writing"}
  BY ClientTypes DEF CallsInv, TypeOK, EachCallOk, OplockFailure, DeadlockDetected, Blocked, FlushFails, DryRunEnds,
                     InFlush
<1>2. PICK call : call = Threw(calls[c]) /\ FlushThrows(c, {call})
  <2>1. ASSUME DryRunEnds(c) PROVE Returned(calls[c]) = Threw(calls[c])
    <3>1. calls[c].kind # "transaction"
      BY <2>1, Zenon DEF DryRunEnds, Rehearses, DryOk, DryRunsAlone
    <3>2. calls[c].kind = "flush"
      BY <1>1, <3>1 DEF CallOk, CallState
    <3> QED
      BY <3>2 DEF Returned, Threw
  <2> QED
    BY <2>1, ThrowingStep
<1>3. calls' = [calls EXCEPT ![c] = call] /\ UNCHANGED <<rows, mem, base>>
  BY <1>2 DEF FlushThrows
<1>4. \/ call.pc = "rollback" /\ calls[c].kind = "transaction"
      \/ call.pc = "idle" /\ calls[c].kind = "flush"
  BY <1>1, <1>2 DEF Threw, Idle, CallOk, CallState
<1>5. \/ UNCHANGED <<work, txn>> /\ ~(calls[c].target = Inner(c) /\ calls[c].pc = "writing")
      \/ Ended(Inner(c), m) /\ txn[m] = Inner(c) /\ calls[c].pc = "writing"
  BY <1>1, <1>2 DEF FlushThrows, CallOk
<1>6. /\ \A n \in Manager \ {m} : txn'[n] = txn[n]
      /\ \A j \in Client : Owner(j) # m => work'[j] = work[j]
  BY <1>1, <1>5, ClientTypes DEF Ended, TxnAfter, TypeOK
<1>7. ASSUME NEW r \in Row, Current(m, r)' PROVE CallAgrees(call, m, r)'
  <2>1. CallAgrees(calls[c], m, r) /\ Current(m, r)
    BY <1>1, <1>3, <1>7 DEF Agree, Agrees, Current
  <2>2. CASE call.pc = "rollback"
    BY <2>2, AgreesWhenSettled
  <2>3. CASE call.pc = "idle"
    <3>1. OrigIs(m, r, rows[r])
      <4>1. CASE calls[c].pc = "writing"
        BY <1>4, <2>1, <2>3, <4>1 DEF CallAgrees
      <4>2. CASE calls[c].pc # "writing"
        BY <1>1, <1>4, <2>1, <2>3, <4>2 DEF CallAgrees, CallOk, View
      <4> QED
        BY <4>1, <4>2
    <3>2. txn'[m] = None
      <4>1. CASE calls[c].pc = "writing"
        BY <1>1, <1>4, <1>5, <2>3, <4>1 DEF CallOk, Ended, TxnAfter, TypeOK
      <4>2. CASE calls[c].pc # "writing"
        BY <1>1, <1>4, <1>5, <2>3, <4>2 DEF CallOk
      <4> QED
        BY <4>1, <4>2
    <3>3. OrigIs(m, r, View(m, r))'
      BY <1>3, <3>1, <3>2 DEF OrigIs, View
    <3> QED
      BY <2>3, <3>3, AgreesWhenSettled
  <2> QED
    BY <1>4, <2>2, <2>3
<1> QED
  BY <1>3, <1>6, <1>7, CallSteps

\* The manager of an em.transaction that is rolled back is not used again.
LEMMA AgreeRollback ==
  ASSUME AwaitsItsCalls, ~Reuses, CallsInv, Agree, NEW c \in Call, Rollback(c)
  PROVE  Agree'
<1> DEFINE m == ManagerOf[c]
<1>1. /\ m \in Manager /\ TypeOK /\ Ended(Outer(c), m) /\ calls' = [calls EXCEPT ![c] = Idle]
      /\ mem' = [mem EXCEPT ![m] = [r \in Row |-> Absent]] /\ UNCHANGED <<rows, base>>
  BY ClientTypes DEF Rollback, CallsInv
<1>2. /\ \A n \in Manager \ {m} : mem'[n] = mem[n] /\ txn'[n] = txn[n]
      /\ \A j \in Client : Owner(j) # m => work'[j] = work[j]
      /\ \A r \in Row : mem'[m][r] = Absent
  BY <1>1, ClientTypes DEF Ended, TxnAfter, TypeOK
<1> QED
  BY <1>1, <1>2, CallSteps DEF Current

\* The third layer is inductive, if what is rolled back, caught or half saved is not used again.
LEMMA AgreeStep ==
  ASSUME AwaitsItsCalls, ~Reuses, ~Catches, "reset" \notin FailAt, DryRunsAlone,
         CallsInv, DryOk, LockInv, Agree, [Next]_vars
  PROVE  Agree'
<1>1. CASE \E m \in Manager : Find(m) \/ Refresh(m) \/ Edit(m)
  BY <1>1, AgreeApplication
<1>2. ASSUME NEW c \in Call, StartTransaction(c) \/ LambdaFails(c) PROVE Agree'
  BY <1>2, AgreeLambda
<1>3. ASSUME NEW c \in Call, StartFlush(c, FALSE) \/ StartFlush(c, TRUE) PROVE Agree'
  BY <1>3, AgreeStartFlush
<1>4. ASSUME NEW c \in Call, Begin(c) \/ BeginFlush(c) \/ JoinOrConnect(c) PROVE Agree'
  BY <1>4, AgreeBegins, AgreeJoins
<1>5. ASSUME NEW c \in Call, NEW r \in Row, WriteRow(c, r) PROVE Agree'
  BY <1>5, AgreeWriteRow
<1>6. ASSUME NEW c \in Call, FlushWritten(c) \/ Reset(c) \/ Commit(c) \/ Rollback(c) PROVE Agree'
  BY <1>6, AgreeFlushWritten, AgreeReset, AgreeCommit, AgreeRollback
<1>7. ASSUME NEW c \in Call, OplockFailure(c) \/ DeadlockDetected(c) \/ FlushFails(c) \/ DryRunEnds(c)
      PROVE  Agree'
  BY <1>7, AgreeThrows
<1>8. CASE UNCHANGED vars
  <2>1. UNCHANGED <<rows, work, txn, calls, mem, base>>
    BY <1>8 DEF vars, dbVars
  <2>2. \A n \in Manager, r \in Row : Current(n, r)' => Agrees(n, r)'
    BY <2>1, OthersAgree DEF Agree
  <2> QED
    BY <2>2 DEF Agree
<1> QED
  BY <1>1, <1>2, <1>3, <1>4, <1>5, <1>6, <1>7, <1>8 DEF Next, Step

\* Every manager has read the table.
LEMMA AgreeInit == ASSUME Init PROVE Agree
<1>1. CallsInv
  BY CallsInit
<1>2. ASSUME NEW m \in Manager, NEW r \in Row PROVE OrigIs(m, r, rows[r]) /\ View(m, r) = rows[r]
  <2>1. mem[m][r] = Hydrated(rows[r]) /\ txn[m] = None /\ rows[r] \in RowState \cup {Gone}
    BY <1>1 DEF Init, CallsInv, TypeOK
  <2> QED
    BY <2>1, HydratedTypes DEF OrigIs, View
<1>3. \A c \in Call : calls[c].pc = "idle"
  BY DEF Init, Idle
<1> QED
  BY <1>2, <1>3 DEF Agree, Agrees, CallAgrees, Flushing

\* Between its calls, what a manager has read of the committed version and has not changed is
\* what is committed: no flush, rollback, lost race or refresh leaves other values behind.
THEOREM UnchangedAgrees ==
  ASSUME AwaitsItsCalls, Stamped, Distinct, ~Reuses, ~Catches, "reset" \notin FailAt, DryRunsAlone
  PROVE  Spec => []UnchangedIsCommitted
<1>1. Init => Agree
  BY AgreeInit
<1>2. CallsInv /\ DryOk /\ LockInv /\ Agree /\ [Next]_vars => Agree'
  BY AgreeStep
<1>3. ASSUME CallsInv, Agree PROVE UnchangedIsCommitted
  <2> SUFFICES ASSUME NEW m \in Manager, Quiet(m), NEW r \in Loaded(m), Current(m, r), ~mem[m][r].deleted,
                      Changed(mem[m][r]) = {}
               PROVE  mem[m][r].vals = rows[r].vals
    BY <1>3 DEF UnchangedIsCommitted, CallsInv, Loaded, Current
  <2>1. Agrees(m, r) /\ r \in Row /\ mem[m][r] \in Entity /\ rows[r] # Gone
    BY <1>3 DEF Agree, Loaded, Current, CallsInv, TypeOK
  <2>2. txn[m] = None
    <3>1. CASE \E c \in Call : ManagerOf[c] = m
      BY <1>3, <3>1 DEF CallsInv, EachCallOk, CallOk, Quiet
    <3>2. CASE \A c \in Call : ManagerOf[c] # m
      <4>1. \A k \in Client : Owner(k) # m
        BY <3>2 DEF Owner, Client
      <4> QED
        BY <1>3, <4>1 DEF CallsInv, OpenIsTxn, TypeOK
    <3> QED
      BY <3>1, <3>2
  <2>3. OrigIs(m, r, View(m, r))
    BY <2>1 DEF Agrees, CallAgrees, Quiet
  <2>4. mem[m][r].orig = rows[r].vals
    BY <2>1, <2>2, <2>3 DEF OrigIs, View
  <2>5. mem[m][r].vals = mem[m][r].orig
    BY <2>1 DEF Changed, Entity
  <2> QED
    BY <2>4, <2>5
<1> QED
  BY <1>1, <1>2, <1>3, LockAlways, DryAlways, PTL DEF Spec
=============================================================================
