-------------------------- MODULE MCActivityReport --------------------------
(* Small instances of ActivityReport for TLC. *)
EXTENDS ActivityReport

CONSTANTS k1, k2, k3
=============================================================================
