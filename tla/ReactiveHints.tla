--------------------------- MODULE ReactiveHints ----------------------------
(***************************************************************************)
(* Reactive hints and their reversal: what a derived value reads, and      *)
(* which changes of which entities must lead back to it.                   *)
(*                                                                         *)
(* A hint is a prefix-closed set of paths; a path is a sequence of steps   *)
(* [key, ro], where ro stands for the suffix `_ro` or `:ro`.  So the hint  *)
(* { books: ["title"] } has the two paths <<books>> and <<books, title>>.  *)
(* reverseReactiveHint recurses over the nested hint; each of its calls is *)
(* one node here, a path that ends in a relation.                          *)
(***************************************************************************)
EXTENDS Naturals, Sequences, SequencesExt

CONSTANT Meta   \* type -> key -> [kind, other, reverse, fk, immutable]

\* The key's column, for a primitive or a many-to-one; a collection has none.
FieldKinds == {"primitive", "m2o", "o2m", "o2o", "m2m", "parents", "children"}
Recursive == {"parents", "children"}

ASSUME MetaAssumption ==
  \A t \in DOMAIN Meta : \A k \in DOMAIN Meta[t] :
    /\ Meta[t][k].kind \in FieldKinds
    /\ Meta[t][k].immutable \in BOOLEAN
    /\ Meta[t][k].kind # "primitive" => Meta[t][k].other \in DOMAIN Meta

Columns(t) == {k \in DOMAIN Meta[t] : Meta[t][k].kind \in {"primitive", "m2o"}}

----------------------------------------------------------------------------
(* Paths of a hint. *)

TypeAt(root, p) == FoldLeft(LAMBDA t, s : Meta[t][s.key].other, root, p)
FieldAt(root, p) == Meta[TypeAt(root, Front(p))][Last(p).key]
Steps(hint, n) == {Last(p) : p \in {q \in hint : Len(q) = Len(n) + 1 /\ Front(q) = n}}
Nodes(root, hint) == {<<>>} \cup {p \in hint : FieldAt(root, p).kind # "primitive"}
Leaves(hint) == {p \in hint : Steps(hint, p) = {}}

ReadOnly(t, s) == s.ro \/ Meta[t][s.key].immutable

----------------------------------------------------------------------------
(* Forms of the operators below with one plausible slip each. *)

\* A collection does not react to rows that enter or leave it.
NoOtherSide(root, n, ro) == {}
\* The path back has the order of the hint.
BackUnreversed(root, n) ==
  [i \in 1..Len(n) |-> FieldAt(root, SubSeq(n, 1, i)).reverse]

----------------------------------------------------------------------------
(* Reversal. *)

\* The keys of type t that the steps of a node read, on the reactive or on the read-only side.
OwnFields(t, steps, ro) ==
  {Meta[t][s.key].fk : s \in {x \in steps : Meta[t][x.key].kind \in Recursive /\ x.ro = ro}}
    \cup {s.key : s \in {x \in steps : /\ Meta[t][x.key].kind \in {"primitive", "m2o", "m2m"}
                                       /\ ReadOnly(t, x) = ro}}

IsCollection(root, n) == n # <<>> /\ FieldAt(root, n).kind \in {"o2m", "o2o"}
HintReadOnly(root, n) == ReadOnly(TypeAt(root, Front(n)), Last(n))
FieldReadOnly(root, n) ==
  /\ ~HintReadOnly(root, n)
  /\ Meta[TypeAt(root, n)][FieldAt(root, n).reverse].immutable

\* reactForOtherSide: behind a collection, its entities' foreign key is watched as well.
OtherSide(root, n, ro) ==
  IF IsCollection(root, n) /\ (HintReadOnly(root, n) \/ FieldReadOnly(root, n)) = ro
  THEN {FieldAt(root, n).reverse} ELSE {}

\* appendPath: the reverse fields that lead from a node's entities back to the root.
Back(root, n) ==
  [i \in 1..Len(n) |-> FieldAt(root, SubSeq(n, 1, Len(n) + 1 - i)).reverse]

Target(ro, t, fields, path) == [ro |-> ro, entity |-> t, fields |-> fields, path |-> path]

\* What one call of reverseReactiveHint pushes itself.
NodeTargets(root, hint, n) ==
  LET t == TypeAt(root, n)
      Watched(ro) == OwnFields(t, Steps(hint, n), ro) \cup OtherSide(root, n, ro)
      isFirst == n = <<>> \/ FieldAt(root, n).kind \in Recursive
      update == \/ Watched(FALSE) # {}
                \/ isFirst
                \/ IsCollection(root, n) /\ FieldReadOnly(root, n)
  IN (IF update THEN {Target(FALSE, t, Watched(FALSE), Back(root, n))} ELSE {})
       \cup (IF Watched(TRUE) # {} THEN {Target(TRUE, t, Watched(TRUE), Back(root, n))} ELSE {})

\* maybeRecursive: a row that moves in a tree concerns all of the tree behind it.
RecursiveTargets(root, hint, n) ==
  LET t == TypeAt(root, n)
  IN {Target(s.ro, t, {Meta[t][s.key].fk}, <<Meta[t][s.key].reverse>> \o Back(root, n))
       : s \in {x \in Steps(hint, n) : Meta[t][x.key].kind \in Recursive}}

ReverseReactiveHint(root, hint) ==
  UNION {NodeTargets(root, hint, n) \cup RecursiveTargets(root, hint, n) : n \in Nodes(root, hint)}

----------------------------------------------------------------------------
(* Reactables: the targets as reverseIndexReactivity registers them.  A definition d is a *)
(* reactive field or a reaction, [kind, name, cstr, hint, runOnce].                       *)

ReactablesOf(d) ==
  {[kind |-> d.kind, name |-> d.name, cstr |-> d.cstr, runOnce |-> d.runOnce, isReadOnly |-> t.ro,
    source |-> t.entity, fields |-> t.fields, path |-> t.path]
     : t \in ReverseReactiveHint(d.cstr, d.hint)}

IndexReactables(defs) == UNION {ReactablesOf(d) : d \in defs}
=============================================================================
