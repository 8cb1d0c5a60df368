---------------------------- MODULE InstanceData ----------------------------
(***************************************************************************)
(* The change tracking of one entity: InstanceData.ts, and setField of     *)
(* fields.ts.  An entity has one ordinary field and its updated_at.        *)
(*                                                                         *)
(*   new, deleted  the Operation enum; an id not in the identity map yet   *)
(*                 is "unborn"                                             *)
(*   value, stamp  data: the field and updated_at                          *)
(*   orig          originalData of the field: Clean when it has no key     *)
(*   origStamp     originalData of updated_at                              *)
(*   flushed       flushedData: NoBag outside the reactive query loop,     *)
(*                 EmptyBag or the last value written inside it            *)
(*   touched       isTouched                                               *)
(*   maybe         membership of #maybePendingFlushEntities                *)
(***************************************************************************)
EXTENDS Naturals

CONSTANTS Val,        \* values of the field
          Undefined,  \* the field of a new entity before its first assignment
          Clean,      \* no key in originalData
          NoBag,      \* flushedData is undefined
          EmptyBag    \* flushedData is {}

ASSUME MarkersAssumption ==
  /\ Undefined \notin Val /\ Clean \notin Val \cup Nat \cup {Undefined}
  /\ NoBag \notin Val /\ EmptyBag \notin Val \cup {NoBag}

Instances ==
  [ new : {"unborn", "none", "pending", "flushed", "complete"},
    deleted : {"none", "pending", "flushed", "complete"},
    value : Val, stamp : Nat, orig : Val \cup {Undefined, Clean}, origStamp : Nat \cup {Clean},
    flushed : Val \cup {NoBag, EmptyBag}, touched : BOOLEAN, maybe : BOOLEAN ]

IsNew(d) == d.new \in {"pending", "flushed"}
IsDeleted(d) == d.deleted # "none"
InMap(d) == d.new # "unborn"
IsDirty(d) == d.orig # Clean \/ d.origStamp # Clean

\* A row as it is hydrated from the database, and an id nothing has created yet.
Hydrated(v, t) ==
  [ new |-> "none", deleted |-> "none", value |-> v, stamp |-> t, orig |-> Clean,
    origStamp |-> Clean, flushed |-> NoBag, touched |-> FALSE, maybe |-> FALSE ]
Unborn(v) == [Hydrated(v, 0) EXCEPT !.new = "unborn"]

\* A slip: em.create registers the entity but its opts are not applied.
CreatedUnset(v, t) == [Hydrated(Undefined, t) EXCEPT !.new = "pending", !.maybe = TRUE]

\* em.create: updated_at is assigned without marking it dirty.
Created(v, t) == [Hydrated(v, t) EXCEPT !.new = "pending", !.orig = Undefined, !.maybe = TRUE]

\* What the next SQL for the entity is; in the reactive query loop only what
\* changed since the last one counts.
PendingOperation(d) ==
  CASE ~InMap(d) -> "none"
    [] InMap(d) /\ IsDeleted(d) ->
         IF d.deleted # "pending" THEN "none"
         ELSE IF d.new = "pending" THEN "created-then-deleted" ELSE "delete"
    [] d.new = "pending" /\ ~IsDeleted(d) -> "insert"
    [] d.new \notin {"unborn", "pending"} /\ ~IsDeleted(d) ->
         IF IF d.flushed # NoBag THEN d.flushed # EmptyBag ELSE d.touched \/ IsDirty(d)
         THEN "update" ELSE "none"

----------------------------------------------------------------------------
(* Forms with one plausible slip each. *)

\* A revert drops the candidate: only this field is known to be clean.
CleanForgets(d, v) == [d EXCEPT !.value = v, !.orig = Clean, !.maybe = FALSE]

----------------------------------------------------------------------------
\* flushedData remembers the last value written, until the field is set back.
FlushedAfterSet(d, v) ==
  CASE d.flushed = NoBag -> NoBag
    [] d.flushed = EmptyBag -> IF v = d.value THEN EmptyBag ELSE d.value
    [] d.flushed \in Val -> IF v = d.flushed THEN EmptyBag ELSE d.flushed

\* markFieldClean of a field set back to what was loaded.
MarkFieldClean(d, v) == [d EXCEPT !.value = v, !.orig = Clean, !.maybe = TRUE]

\* markFieldDirty, the first time the field changes only.
MarkFieldDirty(d, v) ==
  IF d.orig = Clean THEN [d EXCEPT !.value = v, !.orig = d.value, !.maybe = TRUE]
  ELSE [d EXCEPT !.value = v]

CanSet(d) == InMap(d) /\ d.deleted # "complete"

SetField(d, v) ==
  LET b == [d EXCEPT !.flushed = FlushedAfterSet(d, v)]
  IN CASE d.orig = v -> MarkFieldClean(b, v)
       [] d.orig # v /\ v = d.value -> b
       [] d.orig # v /\ v # d.value -> MarkFieldDirty(b, v)

MarkTouched(d) == [d EXCEPT !.touched = TRUE, !.maybe = TRUE]

MarkDeleted(d) ==
  IF IsDeleted(d) THEN d ELSE [d EXCEPT !.deleted = "pending", !.maybe = TRUE]

\* maybeBumpUpdatedAt marks the column dirty again even when it is.
BumpUpdatedAt(d, now) ==
  [d EXCEPT !.origStamp = d.stamp, !.stamp = now, !.maybe = TRUE]

ResetForRqfLoop(d) ==
  [d EXCEPT !.flushed = EmptyBag,
            !.new = IF @ = "pending" THEN "flushed" ELSE @,
            !.deleted = IF @ = "pending" THEN "flushed" ELSE @]

ResetAfterFlushed(d) ==
  [d EXCEPT !.orig = Clean, !.origStamp = Clean, !.flushed = NoBag, !.touched = FALSE,
            !.new = IF IsNew(d) THEN "complete" ELSE @,
            !.deleted = IF IsDeleted(d) THEN "complete" ELSE @, !.maybe = FALSE]

FixupCreatedThenDeleted(d) == [d EXCEPT !.deleted = "complete", !.maybe = FALSE]

\* findPendingFlushEntities drops the candidates that have nothing to write.
Prune(d) == IF PendingOperation(d) = "none" THEN [d EXCEPT !.maybe = FALSE] ELSE d
IsCandidate(d) == d.maybe /\ PendingOperation(d) # "none"
=============================================================================
