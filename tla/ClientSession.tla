--------------------------- MODULE ClientSession ----------------------------
(***************************************************************************)
(* A session of the Linux client (sever/client.py, sever/heartbeat.py,     *)
(* sever/obfs4transport.py): it tries the endpoints of its profile until   *)
(* one answers with a CONFIG, and then both ends keep the session alive    *)
(* with a probe, and give it up after 90 s in which they heard nothing.    *)
(*                                                                         *)
(* Time passes in ticks of 5 s; what the event loops and a working network *)
(* do in time is forced before the clock goes on (Pressing).  The wait of  *)
(* 1 s between two looks at the heartbeat is part of DrainTicks.  Frames   *)
(* of one kind that are under way together are one.                        *)
(***************************************************************************)
EXTENDS Integers

CONSTANTS
    Endpoints,       \* number of endpoints in the profile
    IdleTicks,       \* 20..35 s: the idle interval, drawn with each probe
    ProbeTicks,      \* 50..65 s: the bound on the time between probes
    ConfigTicks,     \* 10 s: the limit for the CONFIG
    DrainTicks,      \* what drain() takes on a working network
    NetTicks,        \* what a frame takes on a working network
    Silence          \* 90 s: the limit of read_frame at both ends

ASSUME ClientAssumption ==
    /\ {Endpoints, ConfigTicks, DrainTicks, NetTicks, Silence} \subseteq Nat \ {0}
    /\ IdleTicks \cup ProbeTicks \subseteq Nat \ {0}

\* How prompt a network has to be to count as working: the intervals of the
\* heartbeat leave so much of the 90 s.  A probe waits for a packet's drain()
\* and then for its own.
ASSUME PromptAssumption ==
    /\ \A i \in IdleTicks : ConfigTicks + i + 2 * DrainTicks + NetTicks < Silence
    /\ \A p \in ProbeTicks : p + 2 * DrainTicks + 2 * NetTicks < Silence

VARIABLES
    stage,       \* see Stages
    trying,      \* the endpoint being tried or in use
    open,        \* endpoints to which a transport is open
    hung,        \* the network has stopped carrying anything
    nodeUp,      \* the node holds a session
    idleLeft, interval, probeLeft,   \* Heartbeat: ticks to its deadlines
    lock,        \* the kind of frame the holder of the send lock drains, and its age
    probing,     \* the heartbeat task waits for the lock
    wire,        \* kind of frame -> Absent or its age on the way
    quiet        \* end -> ticks since it last heard the other

timers == <<idleLeft, interval, probeLeft>>
traffic == <<lock, probing, wire>>
attempt == <<trying, open>>
clientVars == <<stage, attempt, hung, nodeUp, timers, traffic, quiet>>

Absent == -1
Unlocked == [kind |-> "none", age |-> 0]
Ends == {"client", "node"}
Kinds == {"packet", "ping", "pong"}
Attempting == {"dialling", "handshake", "config"}
Stages == Attempting \cup {"cleanup", "cancelled", "running", "over"}
Running == stage = "running"

ClientInit ==
    /\ stage = "dialling" /\ trying = 1 /\ open = {}
    /\ hung = FALSE /\ nodeUp = FALSE
    /\ interval = 0 /\ idleLeft = 0 /\ probeLeft = 0
    /\ lock = Unlocked /\ probing = FALSE
    /\ wire = [k \in Kinds |-> Absent]
    /\ quiet = [e \in Ends |-> 0]

-----------------------------------------------------------------------------
(* open_session and the end of main.                                       *)

\* A node that has read AUTH - the upgrade's header or a frame - sends CONFIG.
NodeAnswers ==
    stage' = "config" /\ nodeUp' = TRUE /\ quiet' = [e \in Ends |-> 0]

\* The transport is there: an upgraded WebSocket, or the obfs4 client's port,
\* through which SOCKS, TLS and AUTH still follow.
Dialled ==
    /\ stage = "dialling" /\ ~hung
    /\ open' = open \cup {trying}
    /\ \/ NodeAnswers
       \/ stage' = "handshake" /\ UNCHANGED <<nodeUp, quiet>>
    /\ UNCHANGED <<trying, hung, timers, traffic>>

HandshakeDone ==
    /\ stage = "handshake" /\ ~hung
    /\ NodeAnswers
    /\ UNCHANGED <<attempt, hung, timers, traffic>>

\* ping_sent() draws both intervals anew, and so does a new Heartbeat.
Redrawn ==
    /\ interval' \in IdleTicks /\ idleLeft' = interval'
    /\ probeLeft' \in ProbeTicks

\* A CONFIG the client supports: main() starts its tasks.
Configured ==
    /\ stage = "config" /\ ~hung /\ nodeUp
    /\ stage' = "running"
    /\ Redrawn
    /\ lock' = Unlocked /\ probing' = FALSE /\ wire' = [k \in Kinds |-> Absent]
    /\ quiet' = [quiet EXCEPT !["client"] = 0]
    /\ UNCHANGED <<attempt, hung, nodeUp>>

\* The tasks, if there were any, are gone and with them what they kept.
Leaves(next) ==
    /\ stage' = next
    /\ interval' = 0 /\ idleLeft' = 0 /\ probeLeft' = 0
    /\ lock' = Unlocked /\ probing' = FALSE /\ wire' = [k \in Kinds |-> Absent]
    /\ quiet' = [quiet EXCEPT !["client"] = 0]
    /\ UNCHANGED <<attempt, hung, nodeUp>>

\* Refused, a wrong answer, or a limit of 10 to 30 s.
AttemptFails == stage \in Attempting /\ Leaves("cleanup")

\* Cancelled, no TUN device, or any error of the three tasks.
Cancel == stage \in Attempting \cup {"cleanup", "running"} /\ Leaves("cancelled")

\* Mutant of CloseTransport: the HTTP session behind the writer is forgotten.
CloseWriterOnly ==
    /\ open' = open
    /\ nodeUp' = (nodeUp /\ hung)

\* Closed within 2 s whatever the peer does; it notices if the network works.
CloseTransport ==
    /\ open' = {}
    /\ nodeUp' = (nodeUp /\ hung)

NextEndpoint ==
    /\ stage = "cleanup"
    /\ CloseTransport
    /\ stage' = IF trying < Endpoints THEN "dialling" ELSE "over"
    /\ trying' = IF trying < Endpoints THEN trying + 1 ELSE trying
    /\ UNCHANGED <<hung, timers, traffic, quiet>>

Finish ==
    /\ stage = "cancelled"
    /\ CloseTransport
    /\ stage' = "over"
    /\ UNCHANGED <<trying, hung, timers, traffic, quiet>>

-----------------------------------------------------------------------------
(* The running session.                                                    *)

RunningOn == Running /\ UNCHANGED <<stage, attempt, hung, nodeUp>>

\* Mutant of Due: an uplink that is busy needs no probe.
DueWhenIdle == idleLeft = 0

Due == idleLeft = 0 \/ probeLeft = 0
MustProbe == Due /\ ~probing /\ lock.kind # "ping"

\* up(): a packet from the TUN device takes the lock.
SendPacket ==
    /\ RunningOn /\ lock = Unlocked
    /\ lock' = [kind |-> "packet", age |-> 0]
    /\ UNCHANGED <<timers, probing, wire, quiet>>

\* heartbeat(): it takes the lock or waits for it.
Probe ==
    /\ RunningOn /\ MustProbe
    /\ IF lock = Unlocked
         THEN lock' = [kind |-> "ping", age |-> 0] /\ UNCHANGED probing
         ELSE probing' = TRUE /\ UNCHANGED lock
    /\ UNCHANGED <<timers, wire, quiet>>

\* A frame sets out; nothing leaves on a dead network.
Departs(kind, w) ==
    IF hung \/ w[kind] # Absent THEN w ELSE [w EXCEPT ![kind] = 0]

\* drain() returned - on a dead network as long as the buffers have room -
\* and packet_sent() or ping_sent() follows under the lock.
Sent ==
    /\ RunningOn /\ lock # Unlocked
    /\ wire' = Departs(lock.kind, wire)
    /\ IF lock.kind = "ping" THEN Redrawn
         ELSE idleLeft' = interval /\ UNCHANGED <<interval, probeLeft>>
    /\ lock' = IF probing THEN [kind |-> "ping", age |-> 0] ELSE Unlocked
    /\ probing' = FALSE
    /\ UNCHANGED quiet

\* wait_for(drain(), 10): the buffers are full.
DrainTimeout == Running /\ hung /\ lock # Unlocked /\ Leaves("cancelled")

\* The node hears a frame, and answers a ping.
NodeHears(kind) ==
    /\ RunningOn /\ nodeUp /\ kind \in {"packet", "ping"} /\ wire[kind] # Absent
    /\ quiet' = [quiet EXCEPT !["node"] = 0]
    /\ LET taken == [wire EXCEPT ![kind] = Absent]
       IN  wire' = IF kind = "ping" THEN Departs("pong", taken) ELSE taken
    /\ UNCHANGED <<timers, lock, probing>>

\* Packets from the Internet would do as well, but need not come.
ClientHears ==
    /\ RunningOn /\ wire["pong"] # Absent
    /\ quiet' = [quiet EXCEPT !["client"] = 0]
    /\ wire' = [wire EXCEPT !["pong"] = Absent]
    /\ UNCHANGED <<timers, lock, probing>>

-----------------------------------------------------------------------------
(* The end of a session, and the clock.                                    *)

\* The network stops carrying anything, and nobody is told.
Hang ==
    /\ ~hung /\ hung' = TRUE
    /\ wire' = [k \in Kinds |-> Absent]
    /\ UNCHANGED <<stage, attempt, nodeUp, timers, lock, probing, quiet>>

\* Mutant of ClientGivesUp: what is being sent counts as a sign of life.
ClientGivesUpIdle ==
    /\ Running /\ quiet["client"] >= Silence /\ lock = Unlocked /\ ~probing
    /\ Leaves("cancelled")

\* read_frame's limit at the client; at the node, which may end the session
\* for reasons of its own as well (a replacement, a revocation).
ClientGivesUp == Running /\ quiet["client"] >= Silence /\ Leaves("cancelled")

NodeEnds ==
    /\ nodeUp /\ (hung => quiet["node"] >= Silence)
    /\ nodeUp' = FALSE
    /\ quiet' = [quiet EXCEPT !["node"] = 0]
    /\ UNCHANGED <<stage, attempt, hung, timers, traffic>>

ClientSeesEnd == Running /\ ~hung /\ ~nodeUp /\ Leaves("cancelled")

Down(n) == IF n > 0 THEN n - 1 ELSE 0

\* What comes before the next tick: a working network is prompt, and so is
\* an event loop.
Pressing ==
    \/ ~hung /\ nodeUp /\ stage = "config" /\ quiet["node"] >= ConfigTicks
    \/ Running /\ MustProbe
    \/ Running /\ ~hung /\ lock # Unlocked /\ lock.age >= DrainTicks
    \/ Running /\ \E k \in Kinds : wire[k] >= NetTicks
    \/ Running /\ quiet["client"] >= Silence
    \/ nodeUp /\ quiet["node"] >= Silence

Tick ==
    /\ Running \/ nodeUp
    /\ ~Pressing
    /\ quiet' = [e \in Ends |->
         IF quiet[e] < Silence /\ (IF e = "node" THEN nodeUp ELSE Running)
           THEN quiet[e] + 1 ELSE quiet[e]]
    /\ IF Running
         THEN /\ idleLeft' = Down(idleLeft) /\ probeLeft' = Down(probeLeft)
              /\ lock' = IF lock = Unlocked \/ hung THEN lock ELSE [lock EXCEPT !.age = @ + 1]
              /\ wire' = [k \in Kinds |-> IF wire[k] = Absent THEN Absent ELSE wire[k] + 1]
         ELSE UNCHANGED <<idleLeft, probeLeft, lock, wire>>
    /\ UNCHANGED <<stage, attempt, hung, nodeUp, interval, probing>>

Attempts == Dialled \/ HandshakeDone \/ Configured \/ AttemptFails
Cleans == NextEndpoint \/ Finish
Drains == Sent \/ DrainTimeout
NodeReads == \E kind \in Kinds : NodeHears(kind)
GivesUp == ClientGivesUp \/ ClientSeesEnd

ClientNext ==
    \/ Attempts \/ Cancel \/ Cleans
    \/ SendPacket \/ Probe \/ Drains \/ NodeReads \/ ClientHears
    \/ Hang \/ GivesUp \/ NodeEnds \/ Tick

\* Every attempt has a time limit, every task of the loop gets its turn and
\* the clock goes on.  Nothing is assumed of packets or of the network.
ClientFairness ==
    /\ WF_clientVars(Attempts) /\ WF_clientVars(Cleans) /\ WF_clientVars(Probe)
    /\ WF_clientVars(Drains) /\ WF_clientVars(NodeReads) /\ WF_clientVars(ClientHears)
    /\ WF_clientVars(GivesUp) /\ WF_clientVars(NodeEnds /\ hung) /\ WF_clientVars(Tick)

ClientSpec == ClientInit /\ [][ClientNext]_clientVars /\ ClientFairness

-----------------------------------------------------------------------------
\* On a working network neither end ever falls silent long enough for the
\* other to give it up: not while uploads keep the idle deadline away, and not
\* while the probe waits behind a packet for the lock.  (Heartbeat's probe
\* deadline in sever/heartbeat.py, send() in sever/client.py.)
HeardInTime == Running /\ nodeUp /\ ~hung => \A e \in Ends : quiet[e] < Silence

\* When the network hangs without telling anybody, both ends let go of the
\* session and of every transport, whatever the client is doing at that moment.
\* (The limits in open_session, send() and read_frame.)
HangNoticed == hung ~> (stage = "over" /\ open = {} /\ ~nodeUp)
=============================================================================
