--------------------------- MODULE RecordRegister ---------------------------
(***************************************************************************)
(* What research_store promises its callers: one record that every process *)
(* reads alike, to which set_task applies a patch in one step.  After 24   *)
(* hours the record falls back to the last completed one, if any.          *)
(***************************************************************************)
CONSTANTS Patches

VARIABLES
  value,  \* the record
  kept    \* the last completed one

Nothing == [status |-> "absent", stamped |-> FALSE]

Merge(old, patch) ==
  [status |-> patch.status, stamped |-> old.stamped \/ patch.stamped]

Init == value = Nothing /\ kept = Nothing

Set(patch) ==
  /\ value' = Merge(value, patch)
  /\ kept' = IF patch.status = "completed" THEN value' ELSE kept

Forget == value' = kept /\ UNCHANGED kept

Next == (\E patch \in Patches : Set(patch)) \/ Forget

Spec == Init /\ [][Next]_<<value, kept>>

=============================================================================
