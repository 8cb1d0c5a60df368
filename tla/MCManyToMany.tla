---------------------------- MODULE MCManyToMany -----------------------------
(***************************************************************************)
(* Small instances of ManyToMany.                                          *)
(***************************************************************************)
EXTENDS ManyToMany

CONSTANTS b1, t1, t2, t3

OneLink == {<<b1, t1>>}
=============================================================================
