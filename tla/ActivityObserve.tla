-------------------------- MODULE ActivityObserve ---------------------------
(***************************************************************************)
(* How the collector of a node (sever/activity.py) tells the site a packet *)
(* goes to: it remembers for each user the addresses DNS answers named for *)
(* a domain, until they expire, and when a UDP flow was last seen.  Both   *)
(* tables are pruned in passing, as packets come.  The rows that come of   *)
(* it are ActivityReport's subject.                                        *)
(*                                                                         *)
(* An entry carries the time it has left, a flow the time since it was     *)
(* seen, both in ticks of 30 s.  A DNS message is what parse_dns() makes   *)
(* of it: the name asked for, or none, and addresses with their TTL.       *)
(***************************************************************************)
EXTENDS Naturals, FiniteSets

CONSTANTS
    Subject,         \* users of the node
    Site,            \* public addresses
    Domain,          \* names; NoDomain for a question without one
    Ttls,            \* TTLs in DNS answers
    MinTtl, MaxTtl,  \* 30 s and one day
    FlowGap,         \* 60 s: a flow that was silent longer is a new connection
    FlowKept,        \* 120 s: a flow that was silent longer is forgotten
    MaxMappings,     \* addresses remembered per user (2048)
    NoDomain, Nothing

ASSUME ObserveAssumption ==
    /\ {MinTtl, MaxTtl, FlowGap, FlowKept, MaxMappings} \subseteq Nat
    /\ Ttls \subseteq Nat /\ 1 <= MinTtl /\ MinTtl <= MaxTtl
    /\ FlowGap <= FlowKept

Entry == [domain : Domain, left : Nat]

ASSUME NothingAssumption == Nothing \notin Nat \cup Entry

VARIABLES
    collecting,  \* the collector is enabled
    domains,     \* ip_domains: user -> address -> Nothing or [domain, left]
    flows,       \* udp_flows: user -> address -> Nothing or the time since
    told,        \* history: the same without any pruning
    spoken,
    displaced    \* history: <<user, address>> dropped because the table was full

tables == <<domains, flows>>
history == <<told, spoken, displaced>>
observeVars == <<collecting, tables, history>>

Empty == [u \in Subject |-> [a \in Site |-> Nothing]]

ObserveInit ==
    /\ collecting \in BOOLEAN
    /\ domains = Empty /\ flows = Empty
    /\ told = Empty /\ spoken = Empty /\ displaced = {}

-----------------------------------------------------------------------------
(* Lookups.                                                                *)

Live(entry) == entry # Nothing /\ entry.left > 0

\* Mutant of DomainForIp: what has expired still answers until it is pruned.
DomainForIpLate(table, u, a) ==
    IF table[u][a] # Nothing THEN table[u][a].domain ELSE NoDomain

\* _domain_for_ip: the domain traffic with this address is charged to.
DomainForIp(table, u, a) ==
    IF Live(table[u][a]) THEN table[u][a].domain ELSE NoDomain

\* A packet of this flow is a new connection.
NewFlow(table, u, a) == table[u][a] = Nothing \/ table[u][a] > FlowGap

\* An expired entry that was looked up is dropped.
LookedUp(table, u, a) ==
    [table EXCEPT ![u][a] = IF Live(@) THEN @ ELSE Nothing]

\* Mutant of FlowStays: pruning takes a flow that is merely idle.
FlowStaysBriefly(since) == since < FlowGap

\* _cleanup keeps a flow.
FlowStays(since) == since <= FlowKept

\* _cleanup, for all users.
CleanedDomains(table) ==
    [u \in Subject |-> [a \in Site |-> IF Live(table[u][a]) THEN table[u][a] ELSE Nothing]]
CleanedFlows(table) ==
    [u \in Subject |-> [a \in Site |->
        IF table[u][a] # Nothing /\ FlowStays(table[u][a]) THEN table[u][a] ELSE Nothing]]

-----------------------------------------------------------------------------
(* Packets.                                                                *)

Clamped(ttl) == IF ttl < MinTtl THEN MinTtl ELSE IF ttl > MaxTtl THEN MaxTtl ELSE ttl

Remembered(table, u) == {a \in Site : table[u][a] # Nothing}

\* A table that is full loses the entry that expires first.
Displaceable(u) ==
    {a \in Remembered(domains, u) :
        \A b \in Remembered(domains, u) : domains[u][a].left <= domains[u][b].left}

\* A DNS answer for u with one address; one with several is the same again.
DnsAnswer(u, domain, a, ttl) ==
    /\ collecting /\ domain # NoDomain
    /\ LET entry == [domain |-> domain, left |-> Clamped(ttl)]
           full == Cardinality(Remembered(domains, u)) >= MaxMappings /\ domains[u][a] = Nothing
       IN  /\ IF full
                THEN \E old \in Displaceable(u) :
                       /\ domains' = [domains EXCEPT ![u][old] = Nothing, ![u][a] = entry]
                       /\ displaced' = (displaced \cup {<<u, old>>}) \ {<<u, a>>}
                ELSE /\ domains' = [domains EXCEPT ![u][a] = entry]
                     /\ displaced' = displaced \ {<<u, a>>}
           /\ told' = [told EXCEPT ![u][a] = entry]
    /\ UNCHANGED <<collecting, flows, spoken>>

\* Upstream to a: UDP to a web port notes the flow; now and then, by the
\* second of the clock, everything is pruned afterwards.
Upstream(u, a, udp, prunes) ==
    /\ collecting
    /\ LET looked == LookedUp(domains, u, a)
           noted  == IF udp THEN [flows EXCEPT ![u][a] = 0] ELSE flows
       IN  /\ domains' = IF prunes THEN CleanedDomains(looked) ELSE looked
           /\ flows' = IF prunes THEN CleanedFlows(noted) ELSE noted
    /\ spoken' = IF udp THEN [spoken EXCEPT ![u][a] = 0] ELSE spoken
    /\ UNCHANGED <<collecting, told, displaced>>

Downstream(u, a) ==
    /\ collecting
    /\ domains' = LookedUp(domains, u, a)
    /\ UNCHANGED <<collecting, flows, history>>

\* configure(): a disabled collector forgets everything.
Switch(on) ==
    /\ collecting' = on
    /\ IF on THEN UNCHANGED <<tables, history>>
         ELSE /\ domains' = Empty /\ flows' = Empty
              /\ told' = Empty /\ spoken' = Empty /\ displaced' = {}

Less(n) == IF n > 0 THEN n - 1 ELSE 0
Shortened(entry) == [entry EXCEPT !.left = Less(@)]
Since(n) == IF n <= FlowKept THEN n + 1 ELSE n
Aged(table) ==
    [u \in Subject |-> [a \in Site |->
        IF table[u][a] = Nothing THEN Nothing ELSE Shortened(table[u][a])]]
AgedFlows(table) ==
    [u \in Subject |-> [a \in Site |->
        IF table[u][a] = Nothing THEN Nothing ELSE Since(table[u][a])]]

Pass ==
    /\ domains' = Aged(domains) /\ told' = Aged(told)
    /\ flows' = AgedFlows(flows) /\ spoken' = AgedFlows(spoken)
    /\ UNCHANGED <<collecting, displaced>>

ObserveNext ==
    \/ \E u \in Subject, a \in Site :
         \/ \E d \in Domain, ttl \in Ttls : DnsAnswer(u, d, a, ttl)
         \/ \E udp, prunes \in BOOLEAN : Upstream(u, a, udp, prunes)
         \/ Downstream(u, a)
    \/ \E on \in BOOLEAN : Switch(on)
    \/ Pass

ObserveSpec == ObserveInit /\ [][ObserveNext]_observeVars

-----------------------------------------------------------------------------
\* Pruning is never noticed: at every moment traffic of a user would be charged
\* to the domain of his own last answer for the address as long as that is
\* valid, and to none afterwards, and it would count as a new connection after
\* a minute of silence and not before - unless the entry had to make room, of
\* which there is never more than the limit.  (_domain_for_ip, _cleanup,
\* _remember_answers and observe_upstream in sever/activity.py.)
PruningUnseen ==
    \A u \in Subject :
        /\ Cardinality(Remembered(domains, u)) <= MaxMappings
        /\ \A a \in Site :
             /\ <<u, a>> \notin displaced =>
                  DomainForIp(domains, u, a) =
                      (IF Live(told[u][a]) THEN told[u][a].domain ELSE NoDomain)
             /\ NewFlow(flows, u, a) = NewFlow(spoken, u, a)
=============================================================================
