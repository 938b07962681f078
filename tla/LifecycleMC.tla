------------------------------ MODULE LifecycleMC ------------------------------
(* A clone with a trunk and a feature branch for Lifecycle. *)
EXTENDS Lifecycle

CONSTANTS main, feat
=============================================================================
