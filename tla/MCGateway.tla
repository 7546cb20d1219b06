----------------------------- MODULE MCGateway -----------------------------
(* Small instances of Gateway for TLC. *)
EXTENDS Gateway, TLC

CONSTANTS c1, c2, c3, u1, u2, a1, a2, t1, t2

Table(f) == [u \in User |-> IF u \in DOMAIN f THEN f[u] ELSE None]
Row(a, t) == [ip |-> a, token |-> t]

\* One user; the same user moved to a second address while another gets the first.
MoveTables ==
    {Table(u1 :> Row(a1, t1)), Table(u1 :> Row(a2, t1) @@ u2 :> Row(a1, t1))}

\* One user, who is revoked and restored.
RevokeTables == {Table(<<>>), Table(u1 :> Row(a1, t1))}

\* One user whom nothing happens to.
FixedTables == {Table(u1 :> Row(a1, t1))}

Symmetry == Permutations(Conn)
=============================================================================
