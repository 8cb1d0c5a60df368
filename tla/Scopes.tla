-------------------------------- MODULE Scopes --------------------------------
(***************************************************************************)
(* Scopes (scopes.ts): named filters of an entity.  A scope is the ops     *)
(* that were recorded by chaining: fragments (a join literal and conditions *)
(* on its aliases), settings, and refs to other named scopes, which may    *)
(* refer to each other in circles.                                         *)
(***************************************************************************)
EXTENDS ParsedQueries

CONSTANT NamedScopes   \* [name -> the ops of the scope]

Resolved == [fragments |-> <<>>, orderBys |-> <<>>, softDeletes |-> "unset", seen |-> {}]

\* Refs are expanded in place, each once; the last soft-delete setting wins.
RECURSIVE ExpandOps(_, _)
ExpandOps(r, ops) ==
  FoldLeft(LAMBDA acc, o :
             CASE o.op = "fragment" -> [acc EXCEPT !.fragments = Append(@, o.fragment)]
               [] o.op = "orderBy" -> [acc EXCEPT !.orderBys = Append(@, o.path)]
               [] o.op = "softDeletes" -> [acc EXCEPT !.softDeletes = o.value]
               [] o.op = "ref" -> IF o.name \in acc.seen THEN acc
                                  ELSE ExpandOps([acc EXCEPT !.seen = @ \union {o.name}], NamedScopes[o.name]),
           r, ops)

ResolveScope(f) == ExpandOps(Resolved, f.ops)

\* The settings of a scope that is the whole filter, unless the caller gives others.
MergeFindOptions(find) ==
  LET r == IF find.where.form = "scope" THEN ResolveScope(find.where) ELSE Resolved
      softDeletes == IF find.softDeletes # "unset" THEN find.softDeletes ELSE r.softDeletes
  IN [find EXCEPT !.orderBy = IF @ # <<>> THEN @ ELSE r.orderBys,
                  !.softDeletes = IF softDeletes = "unset" THEN "exclude" ELSE softDeletes]
=============================================================================
