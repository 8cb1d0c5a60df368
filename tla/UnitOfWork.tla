----------------------------- MODULE UnitOfWork -----------------------------
(***************************************************************************)
(* What an entity manager promises: entities are edited in memory, and a   *)
(* save makes the database equal to memory, all of it or nothing.          *)
(***************************************************************************)
CONSTANTS Entity, Val, NotYet, Gone, NoRow

VARIABLES memory,  \* what the application sees: a value, NotYet or Gone
          rows     \* what is committed

vars == <<memory, rows>>

Persisted(m) == [e \in Entity |-> IF m[e] \in Val THEN m[e] ELSE NoRow]

Init ==
  /\ memory \in [Entity -> Val \cup {NotYet}]
  /\ rows = Persisted(memory)

\* Edits create, change and delete entities; a deleted entity does not come back.
Edit ==
  /\ memory' \in [Entity -> Val \cup {NotYet, Gone}]
  /\ \A e \in Entity : /\ memory[e] = Gone => memory'[e] = Gone
                       /\ memory[e] \in Val => memory'[e] # NotYet
  /\ UNCHANGED rows

Save ==
  /\ rows' = Persisted(memory)
  /\ UNCHANGED memory

Spec == Init /\ [][Edit \/ Save]_vars
=============================================================================
