---------------------------- MODULE PanelDevices ----------------------------
(***************************************************************************)
(* Clients and nodes at the panel (control/app.py, control/store.py): what *)
(* the administrators save, the three places where the panel decides who   *)
(* is admitted - the table of a node, the profile and its subscription,    *)
(* the telemetry login - and a copy of a profile in a device that renews   *)
(* itself through its subscription link.                                   *)
(*                                                                         *)
(* A handler's work on the database lies between two awaits and is a step. *)
(* The four secrets of a client are numbered by the rotation that made     *)
(* them: hash and ciphertext of the key, hash and ciphertext of the link.  *)
(* Clients and nodes are never deleted.                                    *)
(***************************************************************************)
EXTENDS Naturals, FiniteSets

CONSTANTS
    Client, Node, Copy,
    Pool,            \* host parts of the tunnel addresses (2..254)
    MaxNodes,        \* nodes the panel accepts (64)
    MaxTime,         \* bound: the clock
    Expiries,        \* the expiries administrators set, Never or a time
    MaxRotation,     \* bound: rotations per client
    Never,           \* no expiry
    None

ASSUME DevicesAssumption ==
    /\ Pool \subseteq Nat /\ MaxTime \in Nat /\ MaxRotation \in Nat
    /\ Expiries \subseteq Nat \cup {Never} /\ Never \notin Nat

VARIABLES
    clients,     \* client -> None or its row
    nodes,       \* node -> None or whether it is enabled
    assigned,    \* <<client, node>>
    now,
    copies,      \* copy -> None or the profile a device holds
    asked        \* copy -> None, Asked, or the panel's answer under way

vars == <<clients, nodes, assigned, now, copies, asked>>
panel == <<clients, nodes, assigned, now>>

Time == 0..MaxTime
Rotation == 0..MaxRotation
Row == [ip : Pool, enabled : BOOLEAN, expires : Expiries,
        key : Rotation, keyEnc : Rotation, link : Rotation, linkEnc : Rotation]

\* A copy's secrets; which nodes it lists is left out.  `born` is history: the
\* rotation in force when the copy was handed out.
Held == [client : Client, born : Rotation, key : Rotation, link : Rotation,
         refused : BOOLEAN]
Asked == [status |-> 0]
Refusals == [status : {404, 410}]
Answer == Refusals \cup [status : {200}, key : Rotation]

ASSUME NoneAssumption == None \notin Row \cup BOOLEAN \cup Held \cup Answer \cup {Asked}

Init ==
    /\ clients = [c \in Client |-> None]
    /\ nodes = [n \in Node |-> None]
    /\ assigned = {}
    /\ now = 0
    /\ copies = [d \in Copy |-> None]
    /\ asked = [d \in Copy |-> None]

Known(c) == clients[c] # None
KnownNodes == {n \in Node : nodes[n] # None}

-----------------------------------------------------------------------------
(* The panel's three decisions.                                            *)

\* Mutant of ActiveUsers: a client is still admitted in the instant it expires.
ActiveUsersLate(n) ==
    {c \in Client :
       /\ Known(c) /\ <<c, n>> \in assigned /\ nodes[n] = TRUE /\ clients[c].enabled
       /\ clients[c].expires = Never \/ clients[c].expires >= now}

\* The users in the table of node n (active_users).
ActiveUsers(n) ==
    {c \in Client :
       /\ Known(c) /\ <<c, n>> \in assigned /\ nodes[n] = TRUE /\ clients[c].enabled
       /\ clients[c].expires = Never \/ clients[c].expires > now}

\* The record it has for each of them.
Record(c) == [ip |-> clients[c].ip, token |-> clients[c].key]

\* The device's login for telemetry (client_auth).
ClientAuth(c, key) ==
    /\ Known(c) /\ clients[c].key = key
    /\ clients[c].enabled
    /\ clients[c].expires = Never \/ clients[c].expires > now

\* The enabled nodes a profile lists.
Endpoints(c) == {n \in Node : <<c, n>> \in assigned /\ nodes[n] = TRUE}

\* profile() does not refuse.
HasProfile(c) ==
    /\ Known(c) /\ clients[c].enabled
    /\ ~(clients[c].expires # Never /\ clients[c].expires <= now)
    /\ Endpoints(c) # {}

\* GET /s/<link>.json: 404 for an unknown link, 410 when profile() refuses.
Subscription(c, link) ==
    IF ~(Known(c) /\ clients[c].link = link) THEN [status |-> 404]
    ELSE IF ~HasProfile(c) THEN [status |-> 410]
    ELSE [status |-> 200, key |-> clients[c].keyEnc]

-----------------------------------------------------------------------------
(* What the administrators save.                                           *)

\* POST /api/nodes creates, PUT changes; id 0 would create as well.
NodeSave(n, enabled) ==
    /\ nodes[n] = None => Cardinality(KnownNodes) < MaxNodes
    /\ nodes' = [nodes EXCEPT ![n] = enabled]
    /\ UNCHANGED <<clients, assigned, now, copies, asked>>

\* Mutant of FreeAddresses: the addresses of disabled clients are free.
AddressesOfActive == Pool \ {clients[c].ip : c \in {x \in Client : Known(x) /\ clients[x].enabled}}

FreeAddresses == Pool \ {clients[c].ip : c \in {x \in Client : Known(x)}}
Lowest(S) == CHOOSE i \in S : \A j \in S : i <= j

\* client_input: existing nodes, at least one; the expiry may lie in the past.
ValidInput(ids) == ids # {} /\ ids \subseteq KnownNodes

Assign(c, ids) == assigned' = {a \in assigned : a[1] # c} \cup ({c} \X ids)

ClientCreate(c, ids, enabled, expires) ==
    /\ ~Known(c) /\ ValidInput(ids) /\ FreeAddresses # {}
    /\ clients' = [clients EXCEPT ![c] =
         [ip |-> Lowest(FreeAddresses), enabled |-> enabled, expires |-> expires,
          key |-> 0, keyEnc |-> 0, link |-> 0, linkEnc |-> 0]]
    /\ Assign(c, ids)
    /\ UNCHANGED <<nodes, now, copies, asked>>

\* PUT writes whatever the page held when it was opened, `enabled` included.
ClientSave(c, ids, enabled, expires) ==
    /\ Known(c) /\ ValidInput(ids)
    /\ clients' = [clients EXCEPT ![c].enabled = enabled, ![c].expires = expires]
    /\ Assign(c, ids)
    /\ UNCHANGED <<nodes, now, copies, asked>>

ClientAccess(c, enabled) ==
    /\ Known(c)
    /\ clients' = [clients EXCEPT ![c].enabled = enabled]
    /\ UNCHANGED <<nodes, assigned, now, copies, asked>>

\* Mutant of NewSecrets: the subscription link stays.
NewKeyOnly(row) == [row EXCEPT !.key = row.key + 1, !.keyEnc = row.key + 1]

NewSecrets(row) ==
    [row EXCEPT !.key = row.key + 1, !.keyEnc = row.key + 1,
                !.link = row.key + 1, !.linkEnc = row.key + 1]

Rotate(c) ==
    /\ Known(c) /\ clients[c].key < MaxRotation
    /\ clients' = [clients EXCEPT ![c] = NewSecrets(clients[c])]
    /\ UNCHANGED <<nodes, assigned, now, copies, asked>>

Tick ==
    /\ now < MaxTime
    /\ now' = now + 1
    /\ UNCHANGED <<clients, nodes, assigned, copies, asked>>

-----------------------------------------------------------------------------
(* A copy of the profile in a device.                                      *)

\* POST .../profile: an administrator hands the profile out.
HandOut(c, d) ==
    /\ copies[d] = None /\ HasProfile(c)
    /\ copies' = [copies EXCEPT ![d] =
         [client |-> c, born |-> clients[c].key, key |-> clients[c].keyEnc,
          link |-> clients[c].linkEnc, refused |-> FALSE]]
    /\ UNCHANGED <<panel, asked>>

Ask(d) ==
    /\ copies[d] # None /\ asked[d] = None
    /\ asked' = [asked EXCEPT ![d] = Asked]
    /\ UNCHANGED <<panel, copies>>

PanelAnswers(d) ==
    /\ asked[d] = Asked
    /\ asked' = [asked EXCEPT ![d] = Subscription(copies[d].client, copies[d].link)]
    /\ UNCHANGED <<panel, copies>>

\* Mutant of Renewed: any answer but a profile leaves the device as it was.
RenewedOnly(held, answer) ==
    IF answer \in Refusals THEN held
    ELSE [held EXCEPT !.key = answer.key, !.refused = FALSE]

\* The device keeps its own link whatever the profile says (Subscription.fetch);
\* 404 and 410 both mean that access is revoked.
Renewed(held, answer) ==
    IF answer \in Refusals THEN [held EXCEPT !.refused = TRUE]
    ELSE [held EXCEPT !.key = answer.key, !.refused = FALSE]

Receive(d) ==
    /\ asked[d] \notin {None, Asked}
    /\ copies' = [copies EXCEPT ![d] = Renewed(@, asked[d])]
    /\ asked' = [asked EXCEPT ![d] = None]
    /\ UNCHANGED panel

\* The request or the answer is lost: the device goes on with what it has.
Lose(d) ==
    /\ asked[d] # None
    /\ asked' = [asked EXCEPT ![d] = None]
    /\ UNCHANGED <<panel, copies>>

CopyStep(d) == Ask(d) \/ PanelAnswers(d) \/ Receive(d)

Next ==
    \/ \E n \in Node, enabled \in BOOLEAN : NodeSave(n, enabled)
    \/ \E c \in Client, ids \in SUBSET Node, enabled \in BOOLEAN, e \in Expiries :
         ClientCreate(c, ids, enabled, e) \/ ClientSave(c, ids, enabled, e)
    \/ \E c \in Client, enabled \in BOOLEAN : ClientAccess(c, enabled)
    \/ \E c \in Client : Rotate(c)
    \/ \E c \in Client, d \in Copy : HandOut(c, d)
    \/ \E d \in Copy : CopyStep(d) \/ Lose(d)
    \/ Tick

\* A device asks again and again (its service loops), the panel answers, and
\* of infinitely many answers one arrives.
Fairness ==
    \A d \in Copy : WF_vars(Ask(d)) /\ SF_vars(PanelAnswers(d)) /\ SF_vars(Receive(d))

Spec == Init /\ [][Next]_vars /\ Fairness

-----------------------------------------------------------------------------
TypeOK ==
    /\ clients \in [Client -> {None} \cup Row]
    /\ nodes \in [Node -> {None} \cup BOOLEAN]
    /\ assigned \subseteq Client \X KnownNodes
    /\ now \in Time
    /\ copies \in [Copy -> {None} \cup Held]
    /\ asked \in [Copy -> {None, Asked} \cup Answer]

\* No two clients ever have the same address, the disabled ones included: a
\* node's table maps its users one to one, which Gateway assumes of every
\* table, and a client that is enabled again cannot meet its address in use.
AddressesUnique ==
    \A c, d \in Client : Known(c) /\ Known(d) /\ clients[c].ip = clients[d].ip => c = d

\* A profile lists a node exactly when the node's table has the client, with
\* the key of the profile, and with that key telemetry is accepted: the
\* queries of active_users, profile and client_auth agree in every instant,
\* the one of the expiry included.
OneVerdict ==
    \A c \in Client :
        /\ {n \in Node : c \in ActiveUsers(n)} = (IF HasProfile(c) THEN Endpoints(c) ELSE {})
        /\ HasProfile(c) => /\ ClientAuth(c, clients[c].keyEnc)
                            /\ Subscription(c, clients[c].linkEnc) \notin Refusals
        /\ \A n \in Node : c \in ActiveUsers(n) => Record(c).token = clients[c].keyEnc

\* Rotation is final: a copy handed out before it never learns the new key,
\* not even through an answer that was under way, and its own key opens
\* nothing any more.
RotationFinal ==
    \A d \in Copy : copies[d] # None =>
        LET held == copies[d] IN
        /\ held.key = held.born
        /\ clients[held.client].key # held.born =>
             /\ ~ClientAuth(held.client, held.key)
             /\ \A n \in Node : held.client \in ActiveUsers(n) => Record(held.client).token # held.key

\* A device whose profile was rotated away learns that it is refused.
RotationNoticed ==
    \A d \in Copy :
        (copies[d] # None /\ clients[copies[d].client].key # copies[d].born)
            ~> (copies[d] # None /\ copies[d].refused)
=============================================================================
