---------------------------- MODULE MCIdentityMap ----------------------------
(* A table of two or three rows, of which at most one is named x.          *)
EXTENDS IdentityMap

Row(name, ref, gone) == [name |-> name, ref |-> ref, gone |-> gone, at |-> 1]
MCTables ==
  {<<Row("y", None, FALSE), Row("x", 1, FALSE)>>, <<Row("y", None, FALSE), Row("x", None, TRUE)>>,
   <<Row("y", None, FALSE)>>}
MCNewRow == Row("y", None, FALSE)
MCLoads == {{2}, {1, 2, 3}}
\* By name, or by the first entity in memory.
MCWheresIn(m) ==
  {[name |-> "x"]} \union {[ref |-> EntityRef(e)] : e \in {e \in All(m) : e = 1 /\ IsLive(m, e) /\ m.ents[e].data.name # "x"}}
MCUpsert == [k1 |-> Clean, k2 |-> [gone |-> TRUE]]
=============================================================================
