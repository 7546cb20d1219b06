--------------------------- MODULE MCManagedNode ---------------------------
(* A small instance of ManagedNode for TLC: the times of the code in units *)
(* of 5 s, the watchdog's second rounded up to one unit.                   *)
EXTENDS ManagedNode

CONSTANTS u1, r1, r2

\* No access, a record, and the record after a rotation of the keys.
RotateTables == {Empty, [u \in User |-> r1], [u \in User |-> r2]}
=============================================================================
