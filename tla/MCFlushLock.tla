---------------------------- MODULE MCFlushLock ----------------------------
(***************************************************************************)
(* Small instances of FlushLock.                                           *)
(***************************************************************************)
EXTENDS FlushLock, TLC

\* Managers, calls and contexts are interchangeable.
Interchangeable == Permutations(EM) \cup Permutations(Call) \cup Permutations(Ctx)
=============================================================================
