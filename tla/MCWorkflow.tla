----------------------------- MODULE MCWorkflow -----------------------------
(***************************************************************************)
(* Workflows for TLC.                                                      *)
(***************************************************************************)
EXTENDS WorkflowEngine

(* A trigger leads to a condition and to a disabled node, which lead to an *)
(* action: a branch that may be left out, and a node that waits for two.   *)
Fork == {[from |-> "t", to |-> "c", port |-> "any"], [from |-> "t", to |-> "d", port |-> "any"],
         [from |-> "c", to |-> "a", port |-> "yes"], [from |-> "d", to |-> "a", port |-> "any"]}

(* Two triggers of one action.                                             *)
TwoTriggers == {[from |-> "t", to |-> "a", port |-> "any"],
                [from |-> "u", to |-> "a", port |-> "any"]}
=============================================================================
