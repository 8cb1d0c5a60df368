-------------------------- MODULE FlushLockProofs --------------------------
(***************************************************************************)
(* What the write lock guarantees for any number of managers, calls and    *)
(* contexts.                                                               *)
(***************************************************************************)
EXTENDS FlushLock, TLAPS

\* No context carries a secret its manager has not issued yet.
SecretsIssued ==
  \A c \in Ctx : store[c] # NoStore => store[c].secret <= flushSecret[store[c].em]

\* Between sections every secret handed out so far is already retired.
LockedIsFresh ==
  \A f \in Call, e \in EM, c \in Ctx :
    Locked(f, e) /\ store[c] # NoStore /\ store[c].em = e => store[c].secret < flushSecret[e]

\* The inductive invariant: a section that resolves retires the secrets of its
\* manager only because none of them is newer than the current one.
Inv == TypeOK /\ FlushMutex /\ SecretsIssued /\ LockedIsFresh

----------------------------------------------------------------------------
\* The variables keep their types (all of FlushLock.ts and its callers).
LEMMA TypeInit == Init => TypeOK
  BY MaxSecretAssumption DEF Init, TypeOK, CallState, Stores

\* Every step keeps the types.
LEMMA TypeStep == TypeOK /\ [Next]_vars => TypeOK'
<1> SUFFICES ASSUME TypeOK, [Next]_vars PROVE TypeOK'
  OBVIOUS
<1> USE MaxSecretAssumption, NoStoreAssumption DEF TypeOK, CallState, Stores, Becomes
<1>1. ASSUME NEW f \in Call, NEW e \in EM, NEW c \in Ctx, StartFlush(f, e, c) PROVE TypeOK'
  BY <1>1 DEF StartFlush
<1>2. ASSUME NEW f \in Call, NEW e \in EM, RejectFlush(f, e) PROVE TypeOK'
  BY <1>2 DEF RejectFlush, KeepLock
<1>3. ASSUME NEW f \in Call, NEW c \in Ctx, OpenSection(f, c) PROVE TypeOK'
  BY <1>3 DEF OpenSection
<1>4. ASSUME NEW p \in Ctx, NEW c \in Ctx, Fork(p, c) PROVE TypeOK'
  BY <1>4 DEF Fork
<1>5. ASSUME NEW c \in Ctx, EndContext(c) PROVE TypeOK'
  BY <1>5 DEF EndContext
<1>6. ASSUME NEW f \in Call, ResolveSection(f) PROVE TypeOK'
  BY <1>6 DEF ResolveSection, BumpSecret
<1>7. ASSUME NEW f \in Call, FailSection(f) PROVE TypeOK'
  BY <1>7 DEF FailSection
<1>8. ASSUME NEW f \in Call, EndFlush(f) PROVE TypeOK'
  BY <1>8 DEF EndFlush
<1>9. CASE UNCHANGED vars
  BY <1>9 DEF vars
<1> QED
  BY <1>1, <1>2, <1>3, <1>4, <1>5, <1>6, <1>7, <1>8, <1>9 DEF Next

\* Overlapping flushes and a lock that outlives its flush are both impossible:
\* a step changes the lock of a manager exactly when it starts or ends the one
\* flush that manager has.
LEMMA MutexStep == TypeOK /\ FlushMutex /\ [Next]_vars => FlushMutex'
<1> SUFFICES ASSUME TypeOK, FlushMutex, [Next]_vars PROVE FlushMutex'
  OBVIOUS
<1> USE DEF TypeOK, CallState, FlushMutex, InFlush
<1>1. ASSUME NEW f \in Call, NEW e \in EM, NEW c \in Ctx, StartFlush(f, e, c) PROVE FlushMutex'
  <2>1. \A g \in Call, d \in EM : InFlush(g, d)' <=> IF g = f THEN d = e ELSE InFlush(g, d)
    BY <1>1 DEF StartFlush
  <2>2. \A d \in EM : isFlushing'[d] <=> d = e \/ isFlushing[d]
    BY <1>1 DEF StartFlush
  <2>3. ~isFlushing[e] /\ \A g \in Call : ~InFlush(g, e)
    BY <1>1 DEF StartFlush, CanStart
  <2>4. \A d \in EM : ~InFlush(f, d)
    BY <1>1 DEF StartFlush
  <2> QED
    BY <2>1, <2>2, <2>3, <2>4
<1>2. ASSUME NEW f \in Call, NEW e \in EM, RejectFlush(f, e) PROVE FlushMutex'
  <2>1. \A g \in Call, d \in EM : InFlush(g, d)' <=> InFlush(g, d)
    BY <1>2 DEF RejectFlush
  <2> QED
    BY <2>1, <1>2 DEF RejectFlush, KeepLock
<1>3. ASSUME NEW f \in Call, NEW c \in Ctx, OpenSection(f, c) PROVE FlushMutex'
  <2>1. \A g \in Call, d \in EM : InFlush(g, d)' <=> InFlush(g, d)
    BY <1>3 DEF OpenSection, Becomes
  <2> QED
    BY <2>1, <1>3 DEF OpenSection
<1>4. ASSUME NEW p \in Ctx, NEW c \in Ctx, Fork(p, c) PROVE FlushMutex'
  BY <1>4 DEF Fork
<1>5. ASSUME NEW c \in Ctx, EndContext(c) PROVE FlushMutex'
  BY <1>5 DEF EndContext
<1>6. ASSUME NEW f \in Call, ResolveSection(f) PROVE FlushMutex'
  <2>1. \A g \in Call, d \in EM : InFlush(g, d)' <=> InFlush(g, d)
    BY <1>6 DEF ResolveSection, Becomes
  <2> QED
    BY <2>1, <1>6 DEF ResolveSection
<1>7. ASSUME NEW f \in Call, FailSection(f) \/ EndFlush(f) PROVE FlushMutex'
  <2>1. call[f].em \in EM /\ InFlush(f, call[f].em)
    BY <1>7 DEF FailSection, EndFlush
  <2>2. \A g \in Call, d \in EM : InFlush(g, d)' <=> g # f /\ InFlush(g, d)
    BY <1>7 DEF FailSection, EndFlush, Becomes
  <2>3. \A d \in EM : isFlushing'[d] <=> d # call[f].em /\ isFlushing[d]
    BY <1>7 DEF FailSection, EndFlush
  <2> QED
    BY <2>1, <2>2, <2>3
<1>8. CASE UNCHANGED vars
  BY <1>8 DEF vars
<1> QED
  BY <1>1, <1>2, <1>3, <1>4, <1>5, <1>6, <1>7, <1>8 DEF Next

\* Secrets only grow, and a section that resolves leaves every secret of its
\* manager behind.
LEMMA SecretStep == TypeOK /\ Inv /\ [Next]_vars => SecretsIssued' /\ LockedIsFresh'
<1> SUFFICES ASSUME TypeOK, FlushMutex, SecretsIssued, LockedIsFresh, [Next]_vars
             PROVE  SecretsIssued' /\ LockedIsFresh'
  BY DEF Inv
<1> USE MaxSecretAssumption, NoStoreAssumption
        DEF TypeOK, CallState, Stores, SecretsIssued, LockedIsFresh, Locked
<1>1. ASSUME NEW f \in Call, NEW e \in EM, NEW c \in Ctx, StartFlush(f, e, c)
      PROVE  SecretsIssued' /\ LockedIsFresh'
  <2>1. \A g \in Call, d \in EM : Locked(g, d)' => Locked(g, d) /\ d # e
    BY <1>1 DEF StartFlush, CanStart, FlushMutex, InFlush
  <2>2. \A b \in Ctx : store'[b] = IF b = c THEN [em |-> e, secret |-> flushSecret[e]] ELSE store[b]
    BY <1>1 DEF StartFlush
  <2> QED
    BY <2>1, <2>2, <1>1 DEF StartFlush
<1>2. ASSUME NEW f \in Call, NEW e \in EM, RejectFlush(f, e)
      PROVE  SecretsIssued' /\ LockedIsFresh'
  <2>1. \A g \in Call, d \in EM : Locked(g, d)' => Locked(g, d)
    BY <1>2 DEF RejectFlush
  <2> QED
    BY <2>1, <1>2 DEF RejectFlush
<1>3. ASSUME NEW f \in Call, NEW c \in Ctx, OpenSection(f, c)
      PROVE  SecretsIssued' /\ LockedIsFresh'
  <2>1. \A g \in Call, d \in EM : Locked(g, d)' => Locked(g, d) /\ d # call[f].em
    BY <1>3 DEF OpenSection, Becomes, FlushMutex, InFlush
  <2>2. \A b \in Ctx : store'[b] = IF b = c THEN [em |-> call[f].em, secret |-> flushSecret[call[f].em]]
                                   ELSE store[b]
    BY <1>3 DEF OpenSection
  <2>3. call[f].em \in EM /\ flushSecret[call[f].em] \in Nat
    OBVIOUS
  <2>4. UNCHANGED flushSecret
    BY <1>3 DEF OpenSection
  <2>5. SecretsIssued'
    <3> SUFFICES ASSUME NEW b \in Ctx, store'[b] # NoStore
                 PROVE  store'[b].secret <= flushSecret'[store'[b].em]
      OBVIOUS
    <3>1. CASE b = c
      BY <3>1, <2>2, <2>3, <2>4
    <3>2. CASE b # c
      BY <3>2, <2>2, <2>4
    <3> QED
      BY <3>1, <3>2
  <2>6. LockedIsFresh'
    <3> SUFFICES ASSUME NEW g \in Call, NEW d \in EM, NEW b \in Ctx, Locked(g, d)',
                        store'[b] # NoStore, store'[b].em = d
                 PROVE  store'[b].secret < flushSecret'[d]
      OBVIOUS
    <3>1. b # c
      BY <2>1, <2>2
    <3> QED
      BY <3>1, <2>1, <2>2, <2>4
  <2> QED
    BY <2>5, <2>6
<1>4. ASSUME NEW p \in Ctx, NEW c \in Ctx, Fork(p, c)
      PROVE  SecretsIssued' /\ LockedIsFresh'
  BY <1>4 DEF Fork
<1>5. ASSUME NEW c \in Ctx, EndContext(c)
      PROVE  SecretsIssued' /\ LockedIsFresh'
  BY <1>5 DEF EndContext
<1>6. ASSUME NEW f \in Call, ResolveSection(f)
      PROVE  SecretsIssued' /\ LockedIsFresh'
  <2>1. \A g \in Call, d \in EM : Locked(g, d)' => Locked(g, d) \/ (g = f /\ d = call[f].em)
    BY <1>6 DEF ResolveSection, Becomes
  <2>2. \A d \in EM : flushSecret'[d] = IF d = call[f].em THEN flushSecret[d] + 1 ELSE flushSecret[d]
    BY <1>6 DEF ResolveSection, BumpSecret
  <2>3. \A d \in EM : flushSecret[d] \in Nat
    OBVIOUS
  <2>4. \A b \in Ctx : store[b] # NoStore => store[b].em \in EM /\ store[b].secret \in Nat
    OBVIOUS
  <2>5. UNCHANGED store
    BY <1>6 DEF ResolveSection
  <2>6. ASSUME NEW b \in Ctx, store'[b] # NoStore
        PROVE  store'[b].secret <= flushSecret'[store'[b].em]
    <3>1. store[b].secret <= flushSecret[store[b].em]
      BY <2>5, <2>6
    <3> QED
      BY <3>1, <2>2, <2>3, <2>4, <2>5, <2>6
  <2>7. ASSUME NEW g \in Call, NEW d \in EM, NEW b \in Ctx, Locked(g, d)', store'[b] # NoStore,
               store'[b].em = d
        PROVE  store'[b].secret < flushSecret'[d]
    <3>1. store[b].secret <= flushSecret[d]
      BY <2>5, <2>7
    <3>2. CASE d = call[f].em
      BY <3>1, <3>2, <2>2, <2>3, <2>4, <2>5, <2>7
    <3>3. CASE d # call[f].em
      <4>1. store[b].secret < flushSecret[d]
        BY <3>3, <2>1, <2>5, <2>7
      <4> QED
        BY <4>1, <3>3, <2>2, <2>5
    <3> QED
      BY <3>2, <3>3
  <2> QED
    BY <2>6, <2>7
<1>7. ASSUME NEW f \in Call, FailSection(f) \/ EndFlush(f)
      PROVE  SecretsIssued' /\ LockedIsFresh'
  <2>1. \A g \in Call, d \in EM : Locked(g, d)' => Locked(g, d)
    BY <1>7 DEF FailSection, EndFlush, Becomes
  <2> QED
    BY <2>1, <1>7 DEF FailSection, EndFlush
<1>8. CASE UNCHANGED vars
  BY <1>8 DEF vars
<1> QED
  BY <1>1, <1>2, <1>3, <1>4, <1>5, <1>6, <1>7, <1>8 DEF Next

\* The strengthened invariant is inductive.
LEMMA Invariance == Spec => []Inv
<1>1. Init => Inv
  BY TypeInit DEF Init, Inv, FlushMutex, InFlush, SecretsIssued, LockedIsFresh, Locked
<1>2. Inv /\ [Next]_vars => Inv'
  BY TypeStep, MutexStep, SecretStep DEF Inv
<1> QED
  BY <1>1, <1>2, PTL DEF Spec

----------------------------------------------------------------------------
\* The types of the lock's state, for all constants.
THEOREM TypeCorrect == Spec => []TypeOK
<1>1. Inv => TypeOK
  BY DEF Inv
<1> QED
  BY Invariance, <1>1, PTL

\* startLock and releaseLock make the flushes of a manager mutually exclusive,
\* rejected and failed calls included.
THEOREM MutexCorrect == Spec => []FlushMutex
<1>1. Inv => FlushMutex
  BY DEF Inv
<1> QED
  BY Invariance, <1>1, PTL

\* Between the sections of a flush checkWritesAllowed rejects every context of
\* the manager itself, however many flushes failed and left contexts behind.
THEOREM NoOwnWriteCorrect == Spec => []NoOwnWriteWhileLocked
<1>1. Inv => NoOwnWriteWhileLocked
  <2> SUFFICES ASSUME Inv, NEW e \in EM, NEW f \in Call, NEW c \in Ctx, Locked(f, e),
                      store[c] = NoStore \/ store[c].em = e
               PROVE  ~WriteAllowed(c, e)
    BY DEF NoOwnWriteWhileLocked
  <2>1. isFlushing[e]
    BY DEF Inv, FlushMutex, InFlush, Locked
  <2>2. store[c] # NoStore => store[c].secret < flushSecret[e]
    BY DEF Inv, LockedIsFresh
  <2>3. store[c] # NoStore => store[c].secret \in Nat /\ flushSecret[e] \in Nat
    BY MaxSecretAssumption DEF Inv, TypeOK, Stores
  <2> QED
    BY <2>1, <2>2, <2>3 DEF WriteAllowed
<1> QED
  BY Invariance, <1>1, PTL
=============================================================================
