------------------------------ MODULE Gateway ------------------------------
(***************************************************************************)
(* The gateway of a VPN node: class Gateway of sever/server.py, with the   *)
(* WebSocket handler and writer of sever/webtransport.py that drive it.    *)
(*                                                                         *)
(* Everything runs on one asyncio event loop, so the code between two      *)
(* awaits is one action and every await is a point where the steps of      *)
(* other coroutines come in between.  A connection is one run of handle(); *)
(* its identifier is free again once handle() has returned.                *)
(*                                                                         *)
(* Abstracted: frames are either a tunnelled packet, tagged with the user  *)
(* the activity collector charged it to, or a PONG.  Upstream packets      *)
(* change no state of the gateway, so receiving one is not an action.       *)
(***************************************************************************)
EXTENDS Integers, Sequences, FiniteSets

CONSTANTS
    Conn,            \* runs of handle(); an identifier is reused after its run ended
    User,            \* user names
    Addr,            \* tunnel addresses 10.77.0.2 .. 10.77.0.254
    Token,           \* bearer tokens; a record keeps the token's hash
    Tables,          \* the user tables the gateway may be given
    MaxConnections,  \* 256 in the code
    MaxQueue,        \* maxsize of the queue of a peer, 512 in the code
    Batch,           \* frames written before one drain(), 32 in the code
    None,            \* Python's None
    Pong             \* a PONG frame

Record == [ip : Addr, token : Token]

(* What load_users and validate_users let through: no two users share an   *)
(* address.  A user without a record is mapped to None.                    *)
ValidTable(t) ==
    /\ t \in [User -> Record \cup {None}]
    /\ \A u, v \in User :
          t[u] # None /\ t[v] # None /\ t[u].ip = t[v].ip => u = v

ASSUME GatewayAssumption ==
    /\ IsFiniteSet(Conn)
    /\ \A t \in Tables : ValidTable(t)
    /\ MaxConnections \in Nat \ {0}
    /\ MaxQueue \in Nat \ {0}
    /\ Batch \in Nat \ {0}
    /\ None \notin Record \cup Conn \cup User \cup [user : User, token : Token]
    /\ Pong \notin User \cup {None}

VARIABLES
    users,           \* the table in force (ip_users is IpUser below)
    peers,           \* address -> connection whose queue takes its packets
    peer_writers,    \* address -> connection whose writer a revocation closes
    connections,     \* number of running handle() coroutines
    phase,           \* where each handle() stands
    claim,           \* the credentials the client presented, once handle() or tunnel() knows them
    cred,            \* the record handle() authenticated against
    queue,           \* the queue of each connection
    pending,         \* frames handed to the writer and not yet drained
    writer,          \* state of the connection's WebSocket writer
    rx,              \* the task receive()
    tx,              \* the task transmit()
    raced            \* history: connections caught in a handover race, see Register

registry == <<peers, peer_writers>>
tasks    == <<rx, tx, queue, pending>>
session  == <<claim, cred, raced>>
vars     == <<users, registry, connections, phase, session, tasks, writer>>

Phase  == {"idle", "upgrading", "auth", "yielding", "config", "serving", "stopping"}
Claim  == [user : User, token : Token]
Frame  == User \cup {None, Pong}

TypeOK ==
    /\ users \in Tables
    /\ peers \in [Addr -> Conn \cup {None}]
    /\ peer_writers \in [Addr -> Conn \cup {None}]
    /\ connections \in Int
    /\ phase \in [Conn -> Phase]
    /\ claim \in [Conn -> Claim \cup {None}]
    /\ cred \in [Conn -> Record \cup {None}]
    /\ queue \in [Conn -> Seq(Frame)]
    /\ pending \in [Conn -> Seq(Frame)]
    /\ writer \in [Conn -> {"open", "closing", "shut"}]
    /\ rx \in [Conn -> {"off", "reading", "ponging", "done"}]
    /\ tx \in [Conn -> {"off", "waiting", "draining", "done"}]
    /\ raced \in SUBSET Conn

Init ==
    /\ users \in Tables
    /\ peers = [a \in Addr |-> None]
    /\ peer_writers = [a \in Addr |-> None]
    /\ connections = 0
    /\ phase = [c \in Conn |-> "idle"]
    /\ claim = [c \in Conn |-> None]
    /\ cred = [c \in Conn |-> None]
    /\ queue = [c \in Conn |-> <<>>]
    /\ pending = [c \in Conn |-> <<>>]
    /\ writer = [c \in Conn |-> "open"]
    /\ rx = [c \in Conn |-> "off"]
    /\ tx = [c \in Conn |-> "off"]
    /\ raced = {}

-----------------------------------------------------------------------------
(* Helpers                                                                 *)

\* The check of authorize() and of handle(): the record exists and its hash matches.
Authorized(k) == users[k.user] # None /\ users[k.user].token = k.token

\* Mutant of IpUser: any user of the table, whatever the address.
IpUserAny(a) ==
    IF \E u \in User : users[u] # None
    THEN CHOOSE u \in User : users[u] # None
    ELSE None

\* ip_users, which is rebuilt from users whenever users is assigned.
IpUser(a) ==
    IF \E u \in User : users[u] # None /\ users[u].ip = a
    THEN CHOOSE u \in User : users[u] # None /\ users[u].ip = a
    ELSE None

Full(c) == Len(queue[c]) >= MaxQueue

Smaller(i, j) == IF i < j THEN i ELSE j

\* WSWriter.close(): idempotent; drops what was not sent, the closing task shuts the socket later.
Closed(W) == [c \in Conn |-> IF c \in W /\ writer[c] = "open" THEN "closing" ELSE writer[c]]
Dropped(W) == [c \in Conn |-> IF c \in W /\ writer[c] = "open" THEN <<>> ELSE pending[c]]

-----------------------------------------------------------------------------
(* A connection is accepted                                                *)

\* tunnel(): the header is checked and there is room, then `await ws.prepare`.
Tunnel(c, k) ==
    /\ phase[c] = "idle"
    /\ Authorized(k)
    /\ connections < MaxConnections
    /\ phase' = [phase EXCEPT ![c] = "upgrading"]
    /\ claim' = [claim EXCEPT ![c] = k]
    /\ UNCHANGED <<users, registry, connections, cred, raced, tasks, writer>>

\* Mutant of HandleUpgraded: only tunnel() checks the limit, before its await.
HandleUpgradedUnchecked(c) ==
    /\ phase[c] = "upgrading"
    /\ connections' = connections + 1
    /\ phase' = [phase EXCEPT ![c] = "auth"]
    /\ UNCHANGED <<users, registry, session, tasks, writer>>

\* handle() is entered and awaits AUTH: after the upgrade, with the credentials of the header ...
HandleUpgraded(c) ==
    /\ phase[c] = "upgrading"
    /\ connections < MaxConnections
    /\ connections' = connections + 1
    /\ phase' = [phase EXCEPT ![c] = "auth"]
    /\ UNCHANGED <<users, registry, session, tasks, writer>>

\* ... or is refused, because others filled the gateway during `await ws.prepare` ...
HandleRefused(c) ==
    /\ phase[c] = "upgrading"
    /\ connections >= MaxConnections
    /\ phase' = [phase EXCEPT ![c] = "idle"]
    /\ claim' = [claim EXCEPT ![c] = None]
    /\ writer' = [writer EXCEPT ![c] = "open"]
    /\ UNCHANGED <<users, registry, connections, cred, raced, tasks>>

\* ... or straight from a TLS stream (pt_backend), whose first frame will name the credentials.
HandleStream(c) ==
    /\ phase[c] = "idle"
    /\ connections < MaxConnections
    /\ connections' = connections + 1
    /\ phase' = [phase EXCEPT ![c] = "auth"]
    /\ UNCHANGED <<users, registry, session, tasks, writer>>

\* AUTH is refused, malformed, late (10 s) or the client is gone.
AuthFails(c) ==
    /\ phase[c] = "auth"
    /\ phase' = [phase EXCEPT ![c] = "stopping"]
    /\ claim' = [claim EXCEPT ![c] = None]
    /\ UNCHANGED <<users, registry, connections, cred, raced, tasks, writer>>

\* AUTH carries k: the credentials of the header, or what the stream's client sent.
Presents(c, k) == phase[c] = "auth" /\ claim[c] \in {None, k} /\ Authorized(k)

-----------------------------------------------------------------------------
(* Registration and handover                                               *)

\* Connections suspended in the handover's `sleep(0)` for the same address.
Rivals(c, a) == {d \in Conn \ {c} : phase[d] = "yielding" /\ cred[d].ip = a}

(* The new connection takes the address: both maps, a fresh queue, and     *)
(* CONFIG is written, which raises when the socket is already gone.        *)
(*                                                                         *)
(* History: a connection is `raced` from the moment a rival registers      *)
(* while it is suspended in the handover, and so is that rival; so is a    *)
(* suspended connection whose record is replaced (ReplaceUsers).           *)
Register(c, a) ==
    /\ peers' = [peers EXCEPT ![a] = c]
    /\ peer_writers' = [peer_writers EXCEPT ![a] = c]
    /\ queue' = [queue EXCEPT ![c] = <<>>]
    /\ phase' = [phase EXCEPT ![c] = IF writer[c] = "open" THEN "config" ELSE "stopping"]
    /\ raced' = IF Rivals(c, a) = {} THEN raced ELSE raced \cup Rivals(c, a) \cup {c}

\* AUTH is right and nobody holds the address: registered without an await in between.
Authenticate(c, k) ==
    /\ Presents(c, k)
    /\ LET record == users[k.user] IN
       /\ peer_writers[record.ip] = None
       /\ cred' = [cred EXCEPT ![c] = record]
       /\ Register(c, record.ip)
    /\ claim' = [claim EXCEPT ![c] = k]
    /\ UNCHANGED <<users, connections, rx, tx, pending, writer>>

\* Mutant of Handover: the old writer is left open.
HandoverLeavesOld(c, k) ==
    /\ Presents(c, k)
    /\ peer_writers[users[k.user].ip] # None
    /\ cred' = [cred EXCEPT ![c] = users[k.user]]
    /\ claim' = [claim EXCEPT ![c] = k]
    /\ phase' = [phase EXCEPT ![c] = "yielding"]
    /\ UNCHANGED <<users, registry, connections, raced, tasks, writer>>

\* AUTH is right and the address is held: close the holder's writer, then `sleep(0)`.
Handover(c, k) ==
    /\ Presents(c, k)
    /\ LET record == users[k.user]
           old == peer_writers[record.ip] IN
       /\ old # None
       /\ cred' = [cred EXCEPT ![c] = record]
       /\ writer' = Closed({old})
       /\ pending' = Dropped({old})
    /\ claim' = [claim EXCEPT ![c] = k]
    /\ phase' = [phase EXCEPT ![c] = "yielding"]
    /\ UNCHANGED <<users, registry, connections, raced, rx, tx, queue>>

\* The loop comes back to the suspended handover.
Resume(c) ==
    /\ phase[c] = "yielding"
    /\ Register(c, cred[c].ip)
    /\ UNCHANGED <<users, connections, claim, cred, rx, tx, pending, writer>>

\* CONFIG is drained and both tasks start; a writer closed meanwhile has nothing left to drain.
ConfigSent(c) ==
    /\ phase[c] = "config"
    /\ phase' = [phase EXCEPT ![c] = "serving"]
    /\ rx' = [rx EXCEPT ![c] = "reading"]
    /\ tx' = [tx EXCEPT ![c] = "waiting"]
    /\ UNCHANGED <<users, registry, connections, session, queue, pending, writer>>

\* The drain of CONFIG fails or takes longer than 10 s.
ConfigFails(c) ==
    /\ phase[c] = "config"
    /\ phase' = [phase EXCEPT ![c] = "stopping"]
    /\ UNCHANGED <<users, registry, connections, session, tasks, writer>>

-----------------------------------------------------------------------------
(* The task receive()                                                      *)

Reading(c) == phase[c] = "serving" /\ rx[c] = "reading"

\* A PING is answered through the queue; `await queue.put` suspends when it is full.
Ping(c) ==
    /\ Reading(c)
    /\ writer[c] # "shut"
    /\ IF Full(c)
       THEN rx' = [rx EXCEPT ![c] = "ponging"] /\ UNCHANGED queue
       ELSE queue' = [queue EXCEPT ![c] = Append(@, Pong)] /\ UNCHANGED rx
    /\ UNCHANGED <<users, registry, connections, phase, session, tx, pending, writer>>

\* Mutant of PongQueued: the put does not wait for a free place.
PongForced(c) ==
    /\ phase[c] = "serving" /\ rx[c] = "ponging"
    /\ queue' = [queue EXCEPT ![c] = Append(@, Pong)]
    /\ rx' = [rx EXCEPT ![c] = "reading"]
    /\ UNCHANGED <<users, registry, connections, phase, session, tx, pending, writer>>

PongQueued(c) ==
    /\ phase[c] = "serving" /\ rx[c] = "ponging"
    /\ ~Full(c)
    /\ queue' = [queue EXCEPT ![c] = Append(@, Pong)]
    /\ rx' = [rx EXCEPT ![c] = "reading"]
    /\ UNCHANGED <<users, registry, connections, phase, session, tx, pending, writer>>

\* The queue stayed full for 10 s.
PongTimeout(c) ==
    /\ phase[c] = "serving" /\ rx[c] = "ponging"
    /\ rx' = [rx EXCEPT ![c] = "done"]
    /\ UNCHANGED <<users, registry, connections, phase, session, tx, queue, pending, writer>>

\* CLOSE, a frame out of protocol, a wrong source address or 90 s of silence end the task.
ReceiveEnds(c) ==
    /\ Reading(c)
    /\ writer[c] # "shut"
    /\ rx' = [rx EXCEPT ![c] = "done"]
    /\ UNCHANGED <<users, registry, connections, phase, session, tx, queue, pending, writer>>

\* The socket is gone: the pending read raises IncompleteReadError.
ReceiveEof(c) ==
    /\ Reading(c)
    /\ writer[c] = "shut"
    /\ rx' = [rx EXCEPT ![c] = "done"]
    /\ UNCHANGED <<users, registry, connections, phase, session, tx, queue, pending, writer>>

-----------------------------------------------------------------------------
(* The task transmit()                                                     *)

Waiting(c) == phase[c] = "serving" /\ tx[c] = "waiting" /\ queue[c] # <<>>

\* Take a first frame and up to Batch - 1 more, write them all, then await the drain.
TakeBatch(c) ==
    /\ Waiting(c)
    /\ writer[c] = "open"
    /\ LET n == Smaller(Batch, Len(queue[c])) IN
       /\ pending' = [pending EXCEPT ![c] = @ \o SubSeq(queue[c], 1, n)]
       /\ queue' = [queue EXCEPT ![c] = SubSeq(@, n + 1, Len(@))]
    /\ tx' = [tx EXCEPT ![c] = "draining"]
    /\ UNCHANGED <<users, registry, connections, phase, session, rx, writer>>

\* write() on a closed writer raises; the frame taken first is lost.
WriteFails(c) ==
    /\ Waiting(c)
    /\ writer[c] # "open"
    /\ queue' = [queue EXCEPT ![c] = Tail(@)]
    /\ tx' = [tx EXCEPT ![c] = "done"]
    /\ UNCHANGED <<users, registry, connections, phase, session, rx, pending, writer>>

\* Mutant of Drained: transmit() returns after one batch and nobody notices.
DrainedOnce(c) ==
    /\ phase[c] = "serving" /\ tx[c] = "draining"
    /\ pending' = [pending EXCEPT ![c] = <<>>]
    /\ tx' = [tx EXCEPT ![c] = "off"]
    /\ UNCHANGED <<users, registry, connections, phase, session, rx, queue, writer>>

Drained(c) ==
    /\ phase[c] = "serving" /\ tx[c] = "draining"
    /\ pending' = [pending EXCEPT ![c] = <<>>]
    /\ tx' = [tx EXCEPT ![c] = "waiting"]
    /\ UNCHANGED <<users, registry, connections, phase, session, rx, queue, writer>>

\* The drain fails or takes longer than 10 s; the frames in flight are lost.
DrainFails(c) ==
    /\ phase[c] = "serving" /\ tx[c] = "draining"
    /\ pending' = [pending EXCEPT ![c] = <<>>]
    /\ tx' = [tx EXCEPT ![c] = "done"]
    /\ UNCHANGED <<users, registry, connections, phase, session, rx, queue, writer>>

-----------------------------------------------------------------------------
(* The end of a connection                                                 *)

\* Mutant of TasksStop: waits for ALL_COMPLETED instead of FIRST_COMPLETED.
TasksStopAll(c) ==
    /\ phase[c] = "serving"
    /\ rx[c] = "done" /\ tx[c] = "done"
    /\ phase' = [phase EXCEPT ![c] = "stopping"]
    /\ rx' = [rx EXCEPT ![c] = "off"]
    /\ tx' = [tx EXCEPT ![c] = "off"]
    /\ UNCHANGED <<users, registry, connections, session, queue, pending, writer>>

\* asyncio.wait returns and both tasks are cancelled; handle() then awaits their end.
TasksStop(c) ==
    /\ phase[c] = "serving"
    /\ "done" \in {rx[c], tx[c]}
    /\ phase' = [phase EXCEPT ![c] = "stopping"]
    /\ rx' = [rx EXCEPT ![c] = "off"]
    /\ tx' = [tx EXCEPT ![c] = "off"]
    /\ UNCHANGED <<users, registry, connections, session, queue, pending, writer>>

\* What every cleanup resets once the address has been dealt with.
Forget(c) ==
    /\ connections' = connections - 1
    /\ phase' = [phase EXCEPT ![c] = "idle"]
    /\ claim' = [claim EXCEPT ![c] = None]
    /\ cred' = [cred EXCEPT ![c] = None]
    /\ queue' = [queue EXCEPT ![c] = <<>>]
    /\ pending' = [pending EXCEPT ![c] = <<>>]
    /\ writer' = [writer EXCEPT ![c] = "open"]
    /\ rx' = [rx EXCEPT ![c] = "off"]
    /\ tx' = [tx EXCEPT ![c] = "off"]
    /\ raced' = raced \ {c}
    /\ UNCHANGED users

\* Mutant of Cleanup: does not ask whether the address is still its own.
CleanupTakesAll(c) ==
    /\ phase[c] = "stopping"
    /\ peers' = [a \in Addr |->
          IF cred[c] # None /\ cred[c].ip = a THEN None ELSE peers[a]]
    /\ peer_writers' = [a \in Addr |->
          IF cred[c] # None /\ cred[c].ip = a THEN None ELSE peer_writers[a]]
    /\ Forget(c)

\* Mutant of Cleanup: forgets the writer's entry.
CleanupKeepsWriter(c) ==
    /\ phase[c] = "stopping"
    /\ peers' = [a \in Addr |-> IF peers[a] = c THEN None ELSE peers[a]]
    /\ UNCHANGED peer_writers
    /\ Forget(c)

\* Mutant of Cleanup: waits for the socket to close before closing it.
CleanupWaits(c) ==
    /\ phase[c] = "stopping" /\ writer[c] # "open"
    /\ peers' = [a \in Addr |-> IF peers[a] = c THEN None ELSE peers[a]]
    /\ peer_writers' = [a \in Addr |-> IF peers[a] = c THEN None ELSE peer_writers[a]]
    /\ Forget(c)

\* The part of `finally` after the await: give the address up if it is still ours, count down.
Cleanup(c) ==
    /\ phase[c] = "stopping"
    /\ peers' = [a \in Addr |-> IF peers[a] = c THEN None ELSE peers[a]]
    /\ peer_writers' = [a \in Addr |->
          IF peers[a] = c /\ peer_writers[a] = c THEN None ELSE peer_writers[a]]
    /\ Forget(c)

\* The task created by WSWriter.close() has shut the socket (it gives up after 2 s).
SocketShut(c) ==
    /\ writer[c] = "closing"
    /\ writer' = [writer EXCEPT ![c] = "shut"]
    /\ UNCHANGED <<users, registry, connections, phase, session, tasks>>

\* The client or the network ends the connection.
Hangup(c) ==
    /\ phase[c] # "idle" /\ writer[c] = "open"
    /\ writer' = [writer EXCEPT ![c] = "shut"]
    /\ UNCHANGED <<users, registry, connections, phase, session, tasks>>

-----------------------------------------------------------------------------
(* The other users of the gateway's state                                  *)

\* Mutant of ReplaceUsers: a user missing from the new table keeps her session.
ReplaceUsersKeepsRemoved(t) ==
    LET changed == {u \in User : users[u] # None /\ t[u] \notin {None, users[u]}}
        revoked == {peer_writers[users[u].ip] : u \in changed} \ {None}
    IN  /\ users' = t
        /\ writer' = Closed(revoked)
        /\ pending' = Dropped(revoked)
        /\ UNCHANGED <<registry, connections, phase, session, rx, tx, queue>>

\* Mutant of ReplaceUsers: looks for the session at the address of the new record.
ReplaceUsersNewAddress(t) ==
    LET changed == {u \in User : users[u] # None /\ t[u] \notin {None, users[u]}}
        revoked == {peer_writers[t[u].ip] : u \in changed} \ {None}
    IN  /\ users' = t
        /\ writer' = Closed(revoked)
        /\ pending' = Dropped(revoked)
        /\ UNCHANGED <<registry, connections, phase, session, rx, tx, queue>>

(* replace_users(): every user whose record changed or disappeared has the *)
(* writer at its OLD address closed.                                       *)
ReplaceUsers(t) ==
    LET changed == {u \in User : users[u] # None /\ t[u] # users[u]}
        revoked == {peer_writers[users[u].ip] : u \in changed} \ {None}
    IN  /\ users' = t
        /\ writer' = Closed(revoked)
        /\ pending' = Dropped(revoked)
        /\ raced' = raced \cup
              {c \in Conn : phase[c] = "yielding" /\ t[claim[c].user] # cred[c]}
        /\ UNCHANGED <<registry, connections, phase, claim, cred, rx, tx, queue>>

\* tun_loop(): a packet for address a; without a peer or with a full queue it is dropped.
TunPacket(a) ==
    LET c == peers[a] IN
    /\ c # None
    /\ ~Full(c)
    /\ queue' = [queue EXCEPT ![c] = Append(@, IpUser(a))]
    /\ UNCHANGED <<users, registry, connections, phase, session, rx, tx, pending, writer>>

-----------------------------------------------------------------------------

Step(c) ==
    \/ \E k \in Claim : Tunnel(c, k) \/ Authenticate(c, k) \/ Handover(c, k)
    \/ HandleUpgraded(c) \/ HandleRefused(c) \/ HandleStream(c) \/ AuthFails(c)
    \/ Resume(c)
    \/ ConfigSent(c) \/ ConfigFails(c)
    \/ Ping(c) \/ PongQueued(c) \/ PongTimeout(c) \/ ReceiveEnds(c) \/ ReceiveEof(c)
    \/ TakeBatch(c) \/ WriteFails(c) \/ Drained(c) \/ DrainFails(c)
    \/ TasksStop(c) \/ Cleanup(c) \/ SocketShut(c) \/ Hangup(c)

Next ==
    \/ \E c \in Conn : Step(c)
    \/ \E t \in Tables : ReplaceUsers(t)
    \/ \E a \in Addr : TunPacket(a)

Spec == Init /\ [][Next]_vars

(* What asyncio promises: a coroutine that is ready, or whose awaited call *)
(* has a timeout, is resumed.  Nothing is assumed of clients or of the     *)
(* network: the timeouts are what makes each await end.                    *)
LoopStep(c) ==
    \/ HandleUpgraded(c) \/ HandleRefused(c)
    \/ AuthFails(c) \/ \E k \in Claim : Authenticate(c, k) \/ Handover(c, k)
    \/ ConfigSent(c) \/ ConfigFails(c)

Fairness ==
    \A c \in Conn :
        /\ WF_vars(LoopStep(c))
        /\ WF_vars(Resume(c))
        /\ WF_vars(PongQueued(c) \/ PongTimeout(c))
        /\ WF_vars(ReceiveEof(c))
        /\ WF_vars(TakeBatch(c) \/ WriteFails(c))
        /\ WF_vars(Drained(c) \/ DrainFails(c))
        /\ WF_vars(TasksStop(c))
        /\ WF_vars(Cleanup(c))
        /\ WF_vars(SocketShut(c))

FairSpec == Spec /\ Fairness

-----------------------------------------------------------------------------
(* Properties                                                              *)

\* A session the gateway would still send packets to, and take packets from.
Live(c) == phase[c] \in {"config", "serving"} /\ writer[c] = "open"

(* One profile, one session (handle, lines 90-98): two sessions that are   *)
(* not closed never share an address, unless one was caught in a handover  *)
(* race, where a second handover overtook it in `sleep(0)`.                *)
OneSession ==
    \A c, d \in Conn \ raced :
        Live(c) /\ Live(d) /\ cred[c].ip = cred[d].ip => c = d

(* A session that is not closed is entitled to its address by the table in *)
(* force, and that table's next change will find its writer (handle and    *)
(* replace_users together), unless it was caught in a handover race.       *)
LiveIsEntitled ==
    \A c \in Conn \ raced :
        Live(c) => /\ users[claim[c].user] = cred[c]
                   /\ peer_writers[cred[c].ip] = c

(* The two maps of the gateway name the same connections, each at the      *)
(* address it authenticated for and while its handle() is still running:   *)
(* no packet is queued for, and no revocation spent on, an ended session.  *)
RegistryAgrees ==
    \A a \in Addr :
        /\ peers[a] = peer_writers[a]
        /\ peers[a] # None => /\ phase[peers[a]] \in {"config", "serving", "stopping"}
                              /\ cred[peers[a]].ip = a

(* The frames waiting for a session's client were all charged to that      *)
(* client's user by tun_loop, however the table changed meanwhile.         *)
ChargedToReceiver ==
    \A c \in Conn \ raced :
        Live(c) => /\ queue[c] \in Seq({claim[c].user, Pong})
                   /\ pending[c] \in Seq({claim[c].user, Pong})

(* The gateway implements Access: seen from outside, a user's session is   *)
(* the open one of hers that no handover race touched, opening it takes a  *)
(* record, and a new table ends it in the very step that changes it.       *)
Holders(u) == {c \in Conn \ raced : Live(c) /\ claim[c].user = u}
SessionOf(u) == IF Holders(u) = {} THEN None ELSE cred[CHOOSE c \in Holders(u) : TRUE]

Promise == INSTANCE Access WITH sess <- [u \in User |-> SessionOf(u)]
ImplementsAccess == Promise!AccessSpec

(* The counter equals the number of running handle() coroutines: none is   *)
(* leaked by a refused AUTH, a lost handover or a failed CONFIG, and the   *)
(* limit of 256 holds although tunnel() checks it before an await.         *)
Running == {c \in Conn : phase[c] \notin {"idle", "upgrading"}}
CounterExact ==
    /\ connections = Cardinality(Running)
    /\ connections <= MaxConnections

(* A queue never exceeds its maxsize although tun_loop (put_nowait) and a  *)
(* suspended put of a PONG compete for its last place.                     *)
QueueBounded == \A c \in Conn : Len(queue[c]) <= MaxQueue

(* The late cleanup of a replaced session never takes the address from its *)
(* successor: an address becomes free only when its own holder ends.       *)
SuccessorKeepsAddress ==
    [][\A a \in Addr :
          peers[a] # None /\ peers'[a] = None => phase'[peers[a]] = "idle"]_vars

(* A closed connection ends: whatever each task awaits, handle() returns   *)
(* and gives its slot and its address back.                                *)
ClosedEnds == \A c \in Conn : writer[c] # "open" ~> phase[c] = "idle"

(* A client that stalls anywhere in the handshake does not hold its slot:  *)
(* every handshake ends in a served session or in its cleanup.             *)
HandshakeEnds ==
    \A c \in Conn :
        phase[c] \in {"upgrading", "auth", "yielding", "config", "stopping"}
            ~> phase[c] \in {"serving", "idle"}

(* A full queue does not stay full: transmit() takes from it or the session *)
(* ends, so neither tun_loop nor a suspended PONG is shut out for good.    *)
FullQueueDrains == \A c \in Conn : Full(c) ~> ~Full(c)

(* What the documents say without the exception.                           *)

\* docs/PROTOCOL.md: one profile, one session.
OneSessionAlways ==
    \A c, d \in Conn : Live(c) /\ Live(d) /\ cred[c].ip = cred[d].ip => c = d

\* docs/RELEASE_0.4.md: the gateway closes changed and revoked sessions.
RevokedClosedAlways == \A c \in Conn : Live(c) => users[claim[c].user] = cred[c]

-----------------------------------------------------------------------------
(* The inductive strengthening of the safety invariants                    *)

(* What handle() has set up at each of its awaits.                         *)
PhaseOK ==
    \A c \in Conn :
        /\ phase[c] \in {"idle", "upgrading", "auth"} => cred[c] = None
        /\ phase[c] \in {"yielding", "config", "serving"} =>
              cred[c] \in Record /\ claim[c] \in Claim
        /\ phase[c] \in {"idle", "upgrading", "auth", "yielding", "config"} =>
              pending[c] = <<>>

(* The window of the handover: while a connection is suspended in it, only *)
(* a raced session can be open at its address, and its own record is still *)
(* the one in force, unless it was raced itself.                           *)
WindowOK ==
    \A d \in Conn : phase[d] = "yielding" =>
        /\ d \notin raced => users[claim[d].user] = cred[d]
        /\ \A c \in Conn \ raced : ~(Live(c) /\ cred[c].ip = cred[d].ip)

IInv ==
    /\ TypeOK
    /\ PhaseOK
    /\ RegistryAgrees
    /\ WindowOK
    /\ LiveIsEntitled
=============================================================================
