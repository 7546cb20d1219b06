--------------------------- MODULE LoginThrottle ----------------------------
(***************************************************************************)
(* The limit on login attempts in control/app.py: a deque of the times of  *)
(* the attempts per address and one of all attempts, purged when the next  *)
(* attempt looks at them, and a table of addresses emptied for its size.   *)
(*                                                                         *)
(* Check, count and purge lie between two awaits of login(), so an attempt *)
(* is one step here; what an attempt that is let through does next is      *)
(* PanelStaff!LoginAdmitted.  Times are ages in ticks, oldest first.       *)
(***************************************************************************)
EXTENDS Naturals, Sequences, FiniteSets

CONSTANTS
    Source,          \* addresses
    PerSource,       \* attempts of one address in the window (5)
    Global,          \* attempts of all addresses in the window (40)
    MaxSources,      \* addresses remembered before all are forgotten (4096)
    Window,          \* the window, 60 s, in ticks
    NoEntry          \* the address is not in the table

ASSUME ThrottleAssumption ==
    /\ PerSource \in Nat /\ Global \in Nat /\ MaxSources \in Nat /\ Window \in Nat
    /\ NoEntry \notin Seq(Nat)

VARIABLES
    attempts,    \* source -> NoEntry or the ages of its attempts
    recent,      \* the ages of all attempts: global_attempts
    admitted,    \* history: [source, age] of the attempts let through, as long
                 \* as they are in the window, oldest first
    cleared      \* history: `attempts` was emptied for its size

throttleVars == <<attempts, recent, admitted, cleared>>

ThrottleInit ==
    /\ attempts = [s \in Source |-> NoEntry]
    /\ recent = << >>
    /\ admitted = << >>
    /\ cleared = FALSE

\* How many attempts at the front of a deque are older than the window.
Expired(ages) ==
    CHOOSE n \in 0..Len(ages) :
        /\ \A i \in 1..n : ages[i] > Window
        /\ n < Len(ages) => ages[n + 1] <= Window

\* They leave it; the first that is not ends the loop.
Dropped(n, seq) == SubSeq(seq, n + 1, Len(seq))
Purged(ages) == Dropped(Expired(ages), ages)

Overfull == Cardinality({s \in Source : attempts[s] # NoEntry}) > MaxSources

\* What an attempt finds for its address: after clear(), setdefault, purge.
Own(s) == IF Overfull \/ attempts[s] = NoEntry THEN << >> ELSE Purged(attempts[s])

\* Mutant of TooMany: the attempt that reaches the limit passes as well.
OneTooMany(s) == Len(Own(s)) > PerSource \/ Len(Purged(recent)) > Global

TooMany(s) == Len(Own(s)) >= PerSource \/ Len(Purged(recent)) >= Global

\* The tables after the attempt; `new` is empty for one that is refused.
Looked(s, new) ==
    /\ attempts' = [t \in Source |->
         CASE t = s -> Own(s) \o new
           [] t # s /\ Overfull -> NoEntry
           [] OTHER -> attempts[t]]
    /\ recent' = Purged(recent) \o new
    /\ cleared' = (cleared \/ Overfull)

\* 429, or the attempt counts and login() goes on to the password.
Attempt(s) ==
    IF TooMany(s)
      THEN Looked(s, << >>) /\ UNCHANGED admitted
      ELSE /\ Looked(s, <<0>>)
           /\ admitted' = Append(admitted, [source |-> s, age |-> 0])

\* One tick past the window is as old as it gets.
Older(a) == IF a > Window THEN a ELSE a + 1

ThrottleTick ==
    /\ attempts' = [s \in Source |->
         IF attempts[s] = NoEntry THEN NoEntry
         ELSE [i \in DOMAIN attempts[s] |-> Older(attempts[s][i])]]
    /\ recent' = [i \in DOMAIN recent |-> Older(recent[i])]
    /\ LET aged == [i \in DOMAIN admitted |-> [admitted[i] EXCEPT !.age = @ + 1]] IN
         admitted' = Dropped(Expired([i \in DOMAIN aged |-> aged[i].age]), aged)
    /\ UNCHANGED cleared

ThrottleNext == (\E s \in Source : Attempt(s)) \/ ThrottleTick

ThrottleSpec == ThrottleInit /\ [][ThrottleNext]_throttleVars

-----------------------------------------------------------------------------
\* In every window at most Global attempts reach the password check, even
\* across the emptying of the table, and at most PerSource of one address
\* until it is first emptied.  (login's deques in control/app.py.)
ThrottleHolds ==
    /\ Len(admitted) <= Global
    /\ ~cleared => \A s \in Source :
         Cardinality({i \in DOMAIN admitted : admitted[i].source = s}) <= PerSource
=============================================================================
