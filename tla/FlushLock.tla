----------------------------- MODULE FlushLock -----------------------------
(***************************************************************************)
(* The write lock of EntityManager.flush (FlushLock.ts).  A flush takes    *)
(* the lock of its entity manager; while it is held, only code that runs   *)
(* inside an `allowWrites` section of the flush may mutate entities.       *)
(* Code is recognised by node's AsyncLocalStorage: allowWrites stores the  *)
(* manager's current flushSecret in the async context it runs its callback *)
(* in, every promise started there inherits it, and a section that         *)
(* resolves (not one that rejects) bumps the manager's secret.             *)
(*                                                                         *)
(* A context is one live chain of promises.  The store of a context names  *)
(* the secret it carries and, for the properties only, the manager that    *)
(* issued it: the AsyncLocalStorage is a module global shared by all       *)
(* managers and holds the number alone.                                    *)
(***************************************************************************)
EXTENDS Naturals

CONSTANTS EM,         \* entity managers (one FlushLock each)
          Call,       \* calls of em.flush
          Ctx,        \* async contexts
          NoStore,    \* a context outside every allowWrites
          MaxSecret   \* bound on flushSecret

ASSUME MaxSecretAssumption == MaxSecret \in Nat

VARIABLES isFlushing,   \* FlushLock.#isFlushing
          flushSecret,  \* FlushLock.#flushSecret
          call,         \* where each em.flush call stands, and on which manager
          store,        \* currentFlushSecret.getStore() of each context
          members       \* contexts started by the open section of each call

vars == <<isFlushing, flushSecret, call, store, members>>

\* "section": inside allowWrites; "locked": holds the lock between sections
\* (validation, SQL, commit, afterCommit); "rejected": startLock has thrown.
CallState == [em : EM, phase : {"idle", "rejected", "section", "locked"}]
Stores == [em : EM, secret : 0..MaxSecret]

ASSUME NoStoreAssumption == NoStore \notin Stores

TypeOK ==
  /\ isFlushing \in [EM -> BOOLEAN]
  /\ flushSecret \in [EM -> 0..MaxSecret]
  /\ call \in [Call -> CallState]
  /\ store \in [Ctx -> Stores \cup {NoStore}]
  /\ members \in [Call -> SUBSET Ctx]

Init ==
  /\ isFlushing = [e \in EM |-> FALSE]
  /\ flushSecret = [e \in EM |-> 0]
  /\ call \in [Call -> [em : EM, phase : {"idle"}]]
  /\ store = [c \in Ctx |-> NoStore]
  /\ members = [f \in Call |-> {}]

InFlush(f, e) == call[f].phase \in {"section", "locked"} /\ call[f].em = e
Locked(f, e) == call[f].phase = "locked" /\ call[f].em = e

Becomes(f, phase) == call' = [call EXCEPT ![f] = [em |-> call[f].em, phase |-> phase]]

----------------------------------------------------------------------------
(* Forms of the code with one plausible slip each.                         *)

\* The rejected call runs the `finally` too.
UnlockAtReject(e) == isFlushing' = [isFlushing EXCEPT ![e] = FALSE]
\* A section resolves without retiring the contexts it blessed.
SecretKept(e) == UNCHANGED flushSecret
\* The secret is bumped when the section opens and again when it resolves.
BumpTwice(e) == flushSecret' = [flushSecret EXCEPT ![e] = @ + 2]

----------------------------------------------------------------------------
\* startLock throws when the manager is already flushing.
CanStart(e) == ~isFlushing[e]

\* What checkWritesAllowed accepts.  It compares numbers only: nothing in the
\* store says which manager issued the secret.
WriteAllowed(c, e) ==
  \/ ~isFlushing[e]
  \/ store[c] # NoStore /\ store[c].secret = flushSecret[e]

\* allowWrites bumps the secret in the `then` of its callback.
BumpSecret(e) == flushSecret' = [flushSecret EXCEPT ![e] = @ + 1]

\* A flush that startLock rejects: startLock stands before the `try`, so the
\* `finally` of the rejected call does not release the lock it does not hold.
KeepLock(e) == UNCHANGED isFlushing

\* em.flush: startLock, then synchronously the first allowWrites section, whose
\* callback starts running in context c.
StartFlush(f, e, c) ==
  /\ call[f].phase \in {"idle", "rejected"}
  /\ CanStart(e)
  /\ store[c] = NoStore
  /\ isFlushing' = [isFlushing EXCEPT ![e] = TRUE]
  /\ call' = [call EXCEPT ![f] = [em |-> e, phase |-> "section"]]
  /\ store' = [store EXCEPT ![c] = [em |-> e, secret |-> flushSecret[e]]]
  /\ members' = [members EXCEPT ![f] = {c}]
  /\ UNCHANGED flushSecret

RejectFlush(f, e) ==
  /\ call[f].phase \in {"idle", "rejected"}
  /\ ~CanStart(e)
  /\ call' = [call EXCEPT ![f] = [em |-> e, phase |-> "rejected"]]
  /\ KeepLock(e)
  /\ UNCHANGED <<flushSecret, store, members>>

\* A later allowWrites: a hook loop, or the recalculation of reactive queries.
OpenSection(f, c) ==
  /\ call[f].phase = "locked"
  /\ store[c] = NoStore
  /\ Becomes(f, "section")
  /\ store' = [store EXCEPT ![c] = [em |-> call[f].em, secret |-> flushSecret[call[f].em]]]
  /\ members' = [members EXCEPT ![f] = {c}]
  /\ UNCHANGED <<isFlushing, flushSecret>>

\* Code in context p starts a promise: the new context c inherits the store.
Fork(p, c) ==
  /\ store[p] # NoStore
  /\ store[c] = NoStore
  /\ store' = [store EXCEPT ![c] = store[p]]
  /\ members' = [f \in Call |-> IF p \in members[f] THEN members[f] \cup {c} ELSE members[f]]
  /\ UNCHANGED <<isFlushing, flushSecret, call>>

\* A context ends.  Nothing makes it end before its section does: hooks may
\* leave promises behind that nobody awaits.
EndContext(c) ==
  /\ store[c] # NoStore
  /\ store' = [store EXCEPT ![c] = NoStore]
  /\ members' = [f \in Call |-> members[f] \ {c}]
  /\ UNCHANGED <<isFlushing, flushSecret, call>>

\* The callback resolves.
ResolveSection(f) ==
  /\ call[f].phase = "section"
  /\ flushSecret[call[f].em] < MaxSecret
  /\ BumpSecret(call[f].em)
  /\ Becomes(f, "locked")
  /\ members' = [members EXCEPT ![f] = {}]
  /\ UNCHANGED <<isFlushing, store>>

\* The callback rejects, and so does the flush: `finally` releases the lock,
\* the secret stays as it was.
FailSection(f) ==
  /\ call[f].phase = "section"
  /\ isFlushing' = [isFlushing EXCEPT ![call[f].em] = FALSE]
  /\ Becomes(f, "idle")
  /\ members' = [members EXCEPT ![f] = {}]
  /\ UNCHANGED <<flushSecret, store>>

\* The flush returns, or fails outside a section: releaseLock.
EndFlush(f) ==
  /\ call[f].phase = "locked"
  /\ isFlushing' = [isFlushing EXCEPT ![call[f].em] = FALSE]
  /\ Becomes(f, "idle")
  /\ UNCHANGED <<flushSecret, store, members>>

Next ==
  \/ \E f \in Call, e \in EM, c \in Ctx : StartFlush(f, e, c)
  \/ \E f \in Call, e \in EM : RejectFlush(f, e)
  \/ \E f \in Call, c \in Ctx : OpenSection(f, c)
  \/ \E p, c \in Ctx : Fork(p, c)
  \/ \E c \in Ctx : EndContext(c)
  \/ \E f \in Call : ResolveSection(f) \/ FailSection(f) \/ EndFlush(f)

Spec == Init /\ [][Next]_vars

----------------------------------------------------------------------------
\* Two flushes of one manager never overlap, and the lock is held exactly while
\* one runs: a rejected or failed em.flush must not release another's lock.
FlushMutex ==
  \A e \in EM :
    /\ isFlushing[e] <=> \E f \in Call : InFlush(f, e)
    /\ \A f, g \in Call : InFlush(f, e) /\ InFlush(g, e) => f = g

\* Once the sections of a flush have resolved, no context of this manager, not
\* one left behind by this or any earlier flush, failed or not, can mutate an
\* entity until the flush ends: what validation and the SQL see stays what it
\* was.
NoOwnWriteWhileLocked ==
  \A e \in EM, f \in Call, c \in Ctx :
    Locked(f, e) /\ (store[c] = NoStore \/ store[c].em = e) => ~WriteAllowed(c, e)
=============================================================================
