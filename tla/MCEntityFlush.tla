--------------------------- MODULE MCEntityFlush ----------------------------
(***************************************************************************)
(* Small instances of EntityFlush.                                         *)
(***************************************************************************)
EXTENDS EntityFlush

CONSTANTS e1, e2, e3

NoCascade == [e \in Entity |-> {}]
OneChild == [e \in Entity |-> IF e = e1 THEN {e2} ELSE {}]
Chain == [e \in Entity |-> IF e = e1 THEN {e2} ELSE IF e = e2 THEN {e3} ELSE {}]
=============================================================================
