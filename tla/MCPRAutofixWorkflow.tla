------------------------ MODULE MCPRAutofixWorkflow ------------------------
(* The workflow for TLC: the bounds are in the .cfg files. *)
EXTENDS PRAutofixWorkflow, TLC

Symmetry == Permutations(Deliveries) \cup Permutations(Updates)
=============================================================================
