------------------------------ MODULE JoinRows -------------------------------
(***************************************************************************)
(* One row of a join table as an entity manager tracks it: JoinRow of      *)
(* JoinRows.ts.  NoRow is a pair that has no JoinRow in memory.            *)
(*                                                                         *)
(*   op         pending, flushed or completed                              *)
(*   persisted  whether the row is known, or assumed, to be in the table   *)
(*   deleted    whether the application removed it                         *)
(***************************************************************************)
CONSTANT NoRow

Tracked == [op : {"pending", "flushed", "completed"}, persisted : BOOLEAN, deleted : BOOLEAN]

ASSUME NoRowAssumption == NoRow \notin Tracked

Live(r) == r # NoRow /\ ~r.deleted

\* A slip: an unloaded remove does not assume that the row is in the table.
RemoveAssumesNothing(r) ==
  IF r = NoRow THEN NoRow ELSE [r EXCEPT !.deleted = TRUE, !.op = "pending"]
\* A slip: the row that was inserted is not marked as persisted.
InsertedUnmarked(r) == [r EXCEPT !.op = "flushed"]

AddNew(r) ==
  IF r = NoRow THEN [op |-> "pending", persisted |-> FALSE, deleted |-> FALSE]
  ELSE [r EXCEPT !.deleted = FALSE, !.op = "pending"]

\* A row that was only ever added in memory is dropped; one that nobody loaded is
\* assumed to be in the table.
AddRemove(r) ==
  CASE r = NoRow -> [op |-> "pending", persisted |-> TRUE, deleted |-> TRUE]
    [] r # NoRow /\ ~r.persisted -> NoRow
    [] r # NoRow /\ r.persisted -> [r EXCEPT !.deleted = TRUE, !.op = "pending"]

\* loadRows: the query of a collection did, or did not, return the row.
LoadRow(r, found) ==
  CASE r = NoRow -> IF found THEN [op |-> "completed", persisted |-> TRUE, deleted |-> FALSE] ELSE NoRow
    [] r # NoRow /\ found -> [r EXCEPT !.persisted = TRUE]
    [] r # NoRow /\ ~found -> [r EXCEPT !.deleted = TRUE]

\* toTodo.
IsInsert(r) == r # NoRow /\ ~r.persisted /\ ~r.deleted /\ r.op = "pending"
IsDelete(r) == r # NoRow /\ r.persisted /\ r.deleted /\ r.op = "pending"

\* m2mBatchInsert and m2mBatchDelete, once their SQL ran.
Inserted(r) == [r EXCEPT !.op = "flushed", !.persisted = TRUE]
Removed(r) == [r EXCEPT !.op = "flushed", !.persisted = FALSE]

ResetAfterFlushed(r) == IF r = NoRow THEN NoRow ELSE [r EXCEPT !.op = "completed"]
=============================================================================
