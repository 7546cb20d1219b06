----------------------------- MODULE MCFraming ------------------------------
(* Instance for TLC of one direction of a session.                         *)
EXTENDS Framing

MCSizes == {1, 2, 3}
\* The node and Android, the Linux client, iOS.
MCReaders == {[max |-> 5, single |-> FALSE], [max |-> 3, single |-> FALSE],
              [max |-> 3, single |-> TRUE]}
=============================================================================
