----------------------------- MODULE MCOneToMany -----------------------------
\* Two owners, one of which may be new, a stored child and a new one.
EXTENDS OneToMany
CONSTANTS a1, a2, b1, b2
MCStored == [b \in {b1} |-> a1]
=============================================================================
