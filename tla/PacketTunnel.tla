---------------------------- MODULE PacketTunnel ----------------------------
(***************************************************************************)
(* The tunnel of the iOS client (ios-client/Tunnel): class                 *)
(* PacketTunnelProvider, whose callbacks all run on one serial queue, and  *)
(* WebTransport, which puts the system's callbacks on it.                  *)
(*                                                                         *)
(* A callback that was asked for may come late: after the attempt it       *)
(* belongs to has failed, after the next one has begun, after stopTunnel.  *)
(* An attempt is known by its generation; ready, receiving, settings and   *)
(* sending name the attempts for which such a callback is outstanding.     *)
(* What frames and packets hold is left out.                               *)
(***************************************************************************)
EXTENDS Naturals

CONSTANTS
    EndpointCount,     \* endpoints of the profile
    MaxStarts,         \* bound: calls of startTunnel
    MaxGeneration      \* bound: no reconnection from this generation on

ASSUME TunnelAssumption ==
    EndpointCount \in Nat \ {0} /\ MaxStarts \in Nat /\ MaxGeneration \in Nat

VARIABLES
    generation, endpointIndex, stopped, configured, readingPackets,
    connected,       \* `connection` is set
    live,            \* attempts whose WebTransport was not cancelled
    startCompletion, \* the handler of startTunnel is kept
    answers,         \* history: calls of the handler of this start
    starts,          \* calls of startTunnel so far
    retries,         \* attempts scheduled and not cancelled
    attempts,        \* all attempts: any of them may report an error, even twice
    ready,           \* outstanding: the WebSocket has opened
    receiving,       \* outstanding: a frame or the error of receive()
    settings,        \* outstanding: setTunnelNetworkSettings
    reads,           \* outstanding calls of packetFlow.readPackets
    sending          \* outstanding: attempt -> chains of sendPackets

course == <<generation, endpointIndex, stopped, configured, connected, live,
            startCompletion, answers, retries>>
transportCalls == <<attempts, ready, receiving, settings>>
pump == <<readingPackets, reads, sending>>
tunnelVars == <<course, starts, transportCalls, pump>>

\* Every attempt begins and ends with a new generation.
Generations == 0..(MaxGeneration + 2 * (EndpointCount + 1) * (MaxStarts + 1))

TunnelInit ==
    /\ generation = 0 /\ endpointIndex = 0 /\ stopped = FALSE /\ configured = FALSE
    /\ connected = FALSE /\ live = {} /\ startCompletion = FALSE /\ answers = 0
    /\ starts = 0 /\ retries = 0 /\ attempts = {}
    /\ ready = {} /\ receiving = {} /\ settings = {}
    /\ readingPackets = FALSE /\ reads = 0 /\ sending = [g \in Generations |-> 0]

\* Mutant of Current: any attempt will do while the tunnel is not stopped.
CurrentIfRunning(id) == ~stopped

Current(id) == ~stopped /\ generation = id

-----------------------------------------------------------------------------
(* Attempts and their end.                                                 *)

\* attempt(): the transport of an earlier attempt is not looked at.
Attempt(index) ==
    LET id == generation + 1 IN
    /\ generation' = id
    /\ configured' = FALSE
    /\ endpointIndex' = index + 1
    /\ connected' = TRUE
    /\ live' = live \cup {id}
    /\ ready' = ready \cup {id}
    /\ attempts' = attempts \cup {id}

CancelConnection ==
    /\ live' = IF connected THEN live \ {generation} ELSE live
    /\ connected' = FALSE

\* Mutant of Answer: the handler is called and kept.
AnswerKept ==
    /\ answers' = IF startCompletion THEN answers + 1 ELSE answers
    /\ UNCHANGED startCompletion

\* The handler of startTunnel is called if it is still there, and forgotten.
Answer ==
    /\ answers' = IF startCompletion THEN answers + 1 ELSE answers
    /\ startCompletion' = FALSE

Exhausted == endpointIndex >= EndpointCount

\* fail(id): nothing if the attempt is over; a start that has tried all
\* endpoints is answered, otherwise the next attempt is scheduled.
Fail(id) ==
    IF ~Current(id) THEN UNCHANGED course
    ELSE /\ generation' = generation + 1
         /\ configured' = FALSE
         /\ CancelConnection
         /\ IF startCompletion /\ Exhausted
              THEN Answer /\ stopped' = TRUE /\ UNCHANGED retries
              ELSE retries' = retries + 1 /\ UNCHANGED <<stopped, startCompletion, answers>>
         /\ UNCHANGED endpointIndex

\* The system starts a tunnel for the first time or after it has ended.
Startable == starts < MaxStarts /\ (stopped \/ generation = 0)

StartTunnel ==
    /\ Startable
    /\ starts' = starts + 1
    /\ startCompletion' = TRUE /\ answers' = 0 /\ stopped' = FALSE
    /\ Attempt(0)
    /\ UNCHANGED <<retries, receiving, settings, pump>>

\* There is no profile in the vault.
StartRefused ==
    /\ Startable
    /\ starts' = starts + 1 /\ answers' = 1
    /\ UNCHANGED <<generation, endpointIndex, stopped, configured, connected, live,
                   startCompletion, retries, transportCalls, pump>>

\* The scheduled work item; attempt() does nothing in a stopped tunnel.
Retry ==
    /\ retries > 0 /\ (generation < MaxGeneration \/ startCompletion)
    /\ retries' = retries - 1
    /\ IF stopped
         THEN UNCHANGED <<generation, configured, endpointIndex, connected, live, ready, attempts>>
         ELSE Attempt(endpointIndex)
    /\ UNCHANGED <<stopped, startCompletion, answers, starts, receiving, settings, pump>>

\* Mutant of CancelRetry: the scheduled attempt is left alone.
RetryKept == UNCHANGED retries

\* stopTunnel knows of the last attempt that was scheduled.
CancelRetry == retries' = IF retries > 0 THEN retries - 1 ELSE 0

StopTunnel ==
    /\ generation > 0 /\ ~stopped
    /\ stopped' = TRUE /\ generation' = generation + 1
    /\ CancelRetry /\ CancelConnection /\ Answer
    /\ UNCHANGED <<endpointIndex, configured, starts, transportCalls, pump>>

-----------------------------------------------------------------------------
(* Callbacks of the transport and the timer.                               *)

OnReady(id) ==
    /\ id \in ready
    /\ ready' = ready \ {id}
    /\ receiving' = IF Current(id) THEN receiving \cup {id} ELSE receiving
    /\ UNCHANGED <<course, starts, attempts, settings, pump>>

\* The connection has ended - a cancelled one reports it as well - or a send
\* has failed.
OnError(id) ==
    /\ id \in attempts
    /\ Fail(id)
    /\ UNCHANGED <<starts, transportCalls, pump>>

\* Mutant of TimedOut: only a configured tunnel has its silence measured.
TimedOutIfConfigured ==
    /\ connected /\ ~stopped /\ configured
    /\ Fail(generation)
    /\ UNCHANGED <<starts, transportCalls, pump>>

\* The timer of the attempt: silence of 15 s, or of 90 s once configured.
TimedOut ==
    /\ connected /\ ~stopped
    /\ Fail(generation)
    /\ UNCHANGED <<starts, transportCalls, pump>>

\* A frame or an error.  The first frame must be the CONFIG, and nothing more
\* is read until its settings are in force; later ones are written out, and
\* the next one is read.
OnReceive(id) ==
    /\ id \in receiving
    /\ \/ /\ Fail(id)
          /\ receiving' = receiving \ {id} /\ UNCHANGED settings
       \/ /\ Current(id) /\ ~configured
          /\ receiving' = receiving \ {id} /\ settings' = settings \cup {id}
          /\ UNCHANGED course
    /\ UNCHANGED <<starts, attempts, ready, pump>>

-----------------------------------------------------------------------------
(* The packet pump.                                                        *)

\* Mutant of ReadPackets: it asks although a call is still outstanding.
ReadPacketsAgain == readingPackets' = TRUE /\ reads' = reads + 1

\* readPackets(id), of a configured and current attempt.
ReadPackets ==
    /\ readingPackets' = TRUE
    /\ reads' = IF readingPackets THEN reads ELSE reads + 1

\* The settings are in force, or the system refused them.
OnSettings(id) ==
    /\ id \in settings
    /\ settings' = settings \ {id}
    /\ \/ Fail(id) /\ UNCHANGED <<receiving, readingPackets, reads>>
       \/ /\ Current(id)
          /\ configured' = TRUE
          /\ Answer
          /\ ReadPackets
          /\ receiving' = receiving \cup {id}
          /\ UNCHANGED <<generation, endpointIndex, stopped, connected, live, retries>>
    /\ UNCHANGED <<starts, attempts, ready, sending>>

\* The device has packets: they go to the attempt of this moment, not to the
\* one that asked.
OnPackets ==
    /\ reads > 0
    /\ reads' = reads - 1
    /\ readingPackets' = FALSE
    /\ sending' = IF ~stopped /\ configured
                    THEN [sending EXCEPT ![generation] = @ + 1] ELSE sending
    /\ UNCHANGED <<course, starts, transportCalls>>

\* The chain of an attempt has sent its last packet, or one was not sent; a
\* chain of an attempt that is over just ends.
OnSent(id) ==
    /\ sending[id] > 0
    /\ sending' = [sending EXCEPT ![id] = @ - 1]
    /\ \/ Fail(id) /\ UNCHANGED <<readingPackets, reads>>
       \/ Current(id) /\ ReadPackets /\ UNCHANGED course
    /\ UNCHANGED <<starts, transportCalls>>

TunnelNext ==
    \/ StartTunnel \/ StartRefused \/ Retry \/ StopTunnel \/ TimedOut \/ OnPackets
    \/ \E id \in Generations :
         OnReady(id) \/ OnError(id) \/ OnReceive(id) \/ OnSettings(id) \/ OnSent(id)

\* The queue runs a timer that is due and an attempt that is scheduled;
\* nothing is assumed of the network and of the system's callbacks.
TunnelFairness ==
    WF_tunnelVars(TimedOut /\ ~configured) /\ WF_tunnelVars(Retry)

TunnelSpec == TunnelInit /\ [][TunnelNext]_tunnelVars /\ TunnelFairness

-----------------------------------------------------------------------------
\* A configured tunnel has exactly one loop that moves packets from the device
\* into it: a call of readPackets or a chain of sends of this attempt, also if
\* the call was made for an attempt that is over.  (readPackets, sendPackets.)
OnePump ==
    configured /\ ~stopped => reads + sending[generation] = 1

\* No WebTransport but the current one is left open, and none in a stopped
\* tunnel: late callbacks and scheduled attempts never start a second one.
\* (fail, attempt and stopTunnel.)
OneConnection == live = IF connected /\ ~stopped THEN {generation} ELSE {}

\* The system's handler is never called twice for one start, through whatever
\* failures, late callbacks and stops: the safety half of CompletedOnce.
\* (startCompletion.)
AnsweredOnce == answers <= 1

\* It is called exactly once for every start: never twice, and once even if the
\* network never says a word.  (startCompletion, the timer of attempt.)
CompletedOnce ==
    /\ []AnsweredOnce
    /\ startCompletion ~> (~startCompletion /\ answers = 1)
=============================================================================
