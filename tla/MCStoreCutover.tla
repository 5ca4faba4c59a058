---------------------------- MODULE MCStoreCutover ----------------------------
(***************************************************************************)
(* Instances of StoreCutover for TLC: a legacy store with an active row, a *)
(* row that expired, one without pointer, a free-form one, an active       *)
(* prompt and an evidence row; its second content activates the third row. *)
(***************************************************************************)
EXTENDS StoreCutover, TLC

CONSTANTS r1, r2, r3, r4, r5, r6

Legacy(table, form, expires) == [table |-> table, form |-> form, expires |-> expires]
Rows == (r1 :> Legacy("guidance_versions", "exact", 1))
     @@ (r2 :> Legacy("guidance_versions", "exact", 0))
     @@ (r3 :> Legacy("guidance_versions", "exact", 2))
     @@ (r4 :> Legacy("guidance_versions", "free_form", 2))
     @@ (r5 :> Legacy("prompt_artifacts", "exact", 2))
     @@ (r6 :> Legacy("evidence_events", "broken", 2))
Contents == <<[row |-> Rows, active |-> {r1, r2, r4, r5}],
              [row |-> Rows, active |-> {r3}]>>

Symmetry == Permutations(Process) \cup Permutations(Owner)
=============================================================================
