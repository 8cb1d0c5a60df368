--------------------------- MODULE MCTransactions ---------------------------
\* Two managers with a call each.
EXTENDS Transactions
CONSTANTS m1, m2, c1, c2
MCManagerOf == [c \in {c1, c2} |-> IF c = c1 THEN m1 ELSE m2]
=============================================================================
