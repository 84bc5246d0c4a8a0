--------------------------- MODULE MCSyncPipeline ---------------------------
(* Instances of SyncPipeline for TLC; the cfg files give the constants. *)
EXTENDS SyncPipeline
=============================================================================
