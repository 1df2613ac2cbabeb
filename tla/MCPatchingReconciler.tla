------------------------ MODULE MCPatchingReconciler ------------------------
(***************************************************************************)
(* Two calls on an object with one field (its finalizers) and one in the   *)
(* status (its conditions).                                                *)
(***************************************************************************)
EXTENDS PatchingReconciler

MCCallers == {"cfapi", "other"}
MCMain == {"finalizers"}
MCStatus == {"conditions"}
=============================================================================
