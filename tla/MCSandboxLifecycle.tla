------------------------ MODULE MCSandboxLifecycle ------------------------
(* The sandboxes for TLC: the bounds are in the .cfg files. *)
EXTENDS SandboxLifecycle
=============================================================================
