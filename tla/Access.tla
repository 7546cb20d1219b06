------------------------------- MODULE Access -------------------------------
(***************************************************************************)
(* What the gateway promises to the rest of a node: at any time there is a *)
(* table in force, and a user's open session always rests on the record    *)
(* that table has for her.  Replacing the table ends every session whose   *)
(* record it changes, in the same step.                                    *)
(*                                                                         *)
(* Gateway implements this specification for the sessions that were not    *)
(* caught in a handover race; ManagedNode builds on it.                    *)
(***************************************************************************)
CONSTANTS
    User,        \* user names
    Tables,      \* tables: functions from User to a record or None
    None         \* no record, no session

VARIABLES
    users,       \* the table in force
    sess         \* the record each user's open session rests on

AccessInit ==
    /\ users \in Tables
    /\ sess = [u \in User |-> None]

\* A user with a record opens a session; an earlier one of hers is replaced.
Open(u) ==
    /\ users[u] # None
    /\ sess' = [sess EXCEPT ![u] = users[u]]
    /\ UNCHANGED users

\* Sessions end, for any reason.
Drop(S) ==
    /\ sess' = [u \in User |-> IF u \in S THEN None ELSE sess[u]]
    /\ UNCHANGED users

\* A new table: every changed record takes its session with it.
Replace(t) ==
    /\ users' = t
    /\ sess' = [u \in User |-> IF t[u] # users[u] THEN None ELSE sess[u]]

AccessNext ==
    \/ \E u \in User : Open(u)
    \/ \E S \in SUBSET User : Drop(S)
    \/ \E t \in Tables : Replace(t)

AccessSpec == AccessInit /\ [][AccessNext]_<<users, sess>>

\* Every open session rests on the record in force.
SessionsEntitled == \A u \in User : sess[u] \in {None, users[u]}
=============================================================================
