---------------------------- MODULE MCLifecycle ----------------------------
(***************************************************************************)
(* Lifecycle for TLC: three names for two places, one page with hooks.     *)
(***************************************************************************)
EXTENDS Lifecycle

MCPage == {"page"}
=============================================================================
