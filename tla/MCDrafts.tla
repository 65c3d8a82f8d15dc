------------------------------ MODULE MCDrafts ------------------------------
(* One form with a draft from an earlier visit. *)
EXTENDS Drafts

MCBudgets == {[visits |-> 3, edits |-> 3, clears |-> 1, ages |-> 1,
                faults |-> 1, stirs |-> 1]}
=============================================================================
