--------------------------- MODULE OptimisticRows ---------------------------
(***************************************************************************)
(* What optimistic locking promises about rows that several entity         *)
(* managers read and write: a manager's save is one step, and updates a    *)
(* row only from the version it has seen.  Deletions are unconditional.    *)
(***************************************************************************)
EXTENDS Naturals

CONSTANTS Manager, Row, Gone

VARIABLES version,   \* how often each row was updated, or that it is gone
          seen       \* the version each manager works from

vars == <<version, seen>>

Init == version = [r \in Row |-> 0] /\ seen = [m \in Manager |-> [r \in Row |-> 0]]

Read(m) ==
  /\ \E R \in SUBSET {r \in Row : version[r] # Gone} :
       seen' = [seen EXCEPT ![m] = [r \in Row |-> IF r \in R THEN version[r] ELSE @[r]]]
  /\ UNCHANGED version

Save(m) ==
  \E updated, deleted \in SUBSET Row :
    /\ \A r \in updated : version[r] # Gone /\ seen[m][r] = version[r]
    /\ version' = [r \in Row |-> CASE r \in deleted -> Gone
                                   [] r \in updated \ deleted -> version[r] + 1
                                   [] OTHER -> version[r]]
    /\ seen' = [seen EXCEPT ![m] = [r \in Row |-> IF r \in updated THEN version[r] + 1 ELSE @[r]]]

Next == \E m \in Manager : Read(m) \/ Save(m)

Spec == Init /\ [][Next]_vars
=============================================================================
