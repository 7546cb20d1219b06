--------------------------- MODULE AndroidSession ---------------------------
(***************************************************************************)
(* The VISION sessions of the Android client (SeverVpnService.java,        *)
(* NetworkTracker.java): the service's main thread starts and closes       *)
(* them, the connectivity callbacks tell them of another network, and the  *)
(* thread of a session refreshes the profile, tries the endpoints and      *)
(* serves the tunnel.  A session that was closed may still run while the   *)
(* next one starts, and when its service is destroyed it runs on without a *)
(* tracker: a thread that reads the generation there dies of a             *)
(* NullPointerException nobody catches, and the process with it.           *)
(*                                                                         *)
(* hold(), close() and closeResources() are synchronized; networkChanged() *)
(* reads `transport` outside the lock and may see an older value of it, as *)
(* a thread may see an older value of `networks`.  Which endpoint is       *)
(* tried, the frames and what the user is shown are left out.              *)
(***************************************************************************)
EXTENDS Naturals

CONSTANTS
    Session,        \* sessions, each of them started once
    Network,        \* physical networks
    NoSession

ASSUME SessionAssumption == NoSession \notin Session

VARIABLES
    service,        \* the service's session
    pc,             \* where the thread of a session stands
    cancelled, networkChanged, interrupted,
    moved,          \* NetworkTracker.generation is not connectGeneration any more
    tls,            \* the WebTransport of the attempt: "none", "open", "closed"
    bound,          \* the network its socket is bound to
    device,         \* the TUN descriptor of the attempt, likewise
    held,           \* which of them the session's fields hold
    orphans,        \* the sessions whose service is destroyed: networks = null
    network,        \* NetworkTracker.current
    telling         \* how far changed() has come

flags == <<cancelled, networkChanged, interrupted, moved>>
resources == <<tls, bound, device, held>>
tracker == <<network, telling>>
sessionVars == <<service, pc, flags, resources, orphans, tracker>>

Points == {"unborn", "top", "refresh", "pick", "chosen", "made", "dial", "config",
           "built", "serving", "failed", "ended", "delay", "wait", "done", "died"}

SessionInit ==
    /\ service = NoSession
    /\ pc = [s \in Session |-> "unborn"]
    /\ cancelled = [s \in Session |-> FALSE]
    /\ networkChanged = [s \in Session |-> FALSE]
    /\ interrupted = [s \in Session |-> FALSE]
    /\ moved = [s \in Session |-> FALSE]
    /\ network \in Network /\ telling = "nothing"
    /\ tls = [s \in Session |-> "none"] /\ bound = [s \in Session |-> network]
    /\ device = [s \in Session |-> "none"]
    /\ held = [s \in Session |-> {}]
    /\ orphans = {}

-----------------------------------------------------------------------------
(* The main thread.                                                        *)

Unborn == {s \in Session : pc[s] = "unborn"}
Alive == {s \in Session : pc[s] \notin {"unborn", "done", "died"}}

\* onStartCommand without a session in this service.
Start ==
    /\ service = NoSession /\ Unborn # {}
    /\ service' = CHOOSE s \in Unborn : TRUE
    /\ pc' = [pc EXCEPT ![service'] = "top"]
    /\ UNCHANGED <<flags, resources, orphans, tracker>>

Shut(state) == IF state = "open" THEN "closed" ELSE state

\* Closes what the fields hold, and empties them.
CloseResources(s) ==
    /\ tls' = [tls EXCEPT ![s] = IF "tls" \in held[s] THEN Shut(@) ELSE @]
    /\ device' = [device EXCEPT ![s] = IF "device" \in held[s] THEN Shut(@) ELSE @]
    /\ held' = [held EXCEPT ![s] = {}]
    /\ UNCHANGED bound

\* Mutant of Close: the fields are left to the thread.
CloseQuietly(s) ==
    /\ cancelled' = [cancelled EXCEPT ![s] = TRUE]
    /\ UNCHANGED <<interrupted, resources>>

\* Session.close().
Close(s) ==
    /\ cancelled' = [cancelled EXCEPT ![s] = TRUE]
    /\ interrupted' = [interrupted EXCEPT ![s] = TRUE]
    /\ CloseResources(s)

\* stopNow: the service lets go of its session.
Stop ==
    /\ service # NoSession
    /\ service' = NoSession
    /\ Close(service)
    /\ UNCHANGED <<pc, networkChanged, moved, orphans, tracker>>

\* onDestroy: the session is closed, the callbacks end, and `networks` is null for
\* every thread that still runs.  The next service's tracker begins with the best
\* network of its moment.
Destroy ==
    /\ service' = NoSession /\ orphans' = orphans \cup Alive
    /\ IF service = NoSession
         THEN UNCHANGED <<cancelled, interrupted, resources>>
         ELSE Close(service)
    /\ telling' = "nothing" /\ network' \in Network
    /\ UNCHANGED <<pc, networkChanged, moved>>

-----------------------------------------------------------------------------
(* The connectivity callbacks: one thread of the system.                   *)

\* choose() or onLost() takes another network.
Choose(n) ==
    /\ telling = "nothing" /\ n # network
    /\ network' = n /\ telling' = "count"
    /\ UNCHANGED <<service, pc, flags, resources, orphans>>

Count ==
    /\ telling = "count"
    /\ moved' = [s \in Session |-> s \in Alive] /\ telling' = "call"
    /\ UNCHANGED <<service, pc, cancelled, networkChanged, interrupted, resources, orphans,
                   network>>

\* Mutant of Notified: the thread is neither closed out of its read nor woken.
NotifiedLater(s) ==
    /\ networkChanged' = [networkChanged EXCEPT ![s] = TRUE]
    /\ UNCHANGED <<interrupted, tls>>

\* Session.networkChanged(); the read of `transport` may miss it.
Notified(s) ==
    /\ networkChanged' = [networkChanged EXCEPT ![s] = TRUE]
    /\ interrupted' = [interrupted EXCEPT ![s] = TRUE]
    /\ \/ UNCHANGED tls
       \/ "tls" \in held[s] /\ tls' = [tls EXCEPT ![s] = Shut(@)]

Call ==
    /\ telling = "call" /\ telling' = "nothing"
    /\ IF service = NoSession \/ cancelled[service]
         THEN UNCHANGED <<networkChanged, interrupted, tls>>
         ELSE Notified(service)
    /\ UNCHANGED <<service, pc, cancelled, moved, bound, device, held, orphans, network>>

-----------------------------------------------------------------------------
(* The thread of a session.                                                *)

Goes(s, from, to) == pc[s] = from /\ pc' = [pc EXCEPT ![s] = to]
Keeps == UNCHANGED <<service, orphans, tracker>>

\* while (!cancelled); a thread that has ended does not look at its flags.
Top(s) ==
    /\ Goes(s, "top", IF cancelled[s] THEN "done" ELSE "refresh")
    /\ networkChanged' = [networkChanged EXCEPT ![s] = FALSE]
    /\ IF cancelled[s]
         THEN /\ interrupted' = [interrupted EXCEPT ![s] = FALSE]
              /\ moved' = [moved EXCEPT ![s] = FALSE]
         ELSE UNCHANGED <<interrupted, moved>>
    /\ Keeps /\ UNCHANGED <<cancelled, resources>>

\* refreshSubscription: a new profile or the cached one, or access was revoked
\* and it tries again after 15 s.  An interrupt may be used up by the fetch.
Refresh(s) ==
    /\ \/ Goes(s, "refresh", IF cancelled[s] THEN "top" ELSE "pick")
       \/ Goes(s, "refresh", IF cancelled[s] THEN "top" ELSE "wait")
    /\ \/ UNCHANGED interrupted
       \/ interrupted' = [interrupted EXCEPT ![s] = FALSE]
    /\ Keeps
    /\ UNCHANGED <<cancelled, networkChanged, moved, resources>>

\* Thread.sleep(15000), or the delay between two rounds; an interrupt ends it.
Sleep(s) ==
    /\ Goes(s, "wait", "top")
    /\ interrupted' = [interrupted EXCEPT ![s] = FALSE]
    /\ Keeps
    /\ UNCHANGED <<cancelled, networkChanged, moved, resources>>

\* The next endpoint, if there is one and the session is not cancelled.
Pick(s) ==
    /\ ~cancelled[s] /\ Goes(s, "pick", "chosen")
    /\ Keeps /\ UNCHANGED <<flags, resources>>

EndRound(s) ==
    /\ Goes(s, "pick", "ended")
    /\ Keeps /\ UNCHANGED <<flags, resources>>

\* The generation is remembered; connect() begins with a new transport.
Begin(s) ==
    /\ Goes(s, "chosen", "made")
    /\ moved' = [moved EXCEPT ![s] = FALSE]
    /\ tls' = [tls EXCEPT ![s] = "none"]
    /\ device' = [device EXCEPT ![s] = "none"]
    /\ Keeps /\ UNCHANGED <<cancelled, networkChanged, interrupted, bound, held>>

\* Mutant of Hold: what was cancelled is not looked at.
HoldBlindly(s, what) == held' = [held EXCEPT ![s] = @ \cup {what}]

\* hold() for a session that is not cancelled.
Hold(s, what) == ~cancelled[s] /\ held' = [held EXCEPT ![s] = @ \cup {what}]

\* hold(tls): a cancelled session throws.
HoldTransport(s) ==
    /\ \/ Goes(s, "made", "dial") /\ Hold(s, "tls")
       \/ cancelled[s] /\ Goes(s, "made", "failed") /\ UNCHANGED held
    /\ Keeps /\ UNCHANGED <<flags, tls, bound, device>>

\* The socket is bound to the network of this moment and the WebSocket opens,
\* unless the transport was closed meanwhile.
Dial(s) ==
    /\ Goes(s, "dial", "config")
    /\ "tls" \in held[s] /\ ~interrupted[s]
    /\ tls' = [tls EXCEPT ![s] = "open"]
    /\ bound' = [bound EXCEPT ![s] = network]
    /\ Keeps /\ UNCHANGED <<flags, device, held>>

\* CONFIG has come; establish() makes the device.
Establish(s) ==
    /\ Goes(s, "config", "built")
    /\ tls[s] = "open" /\ ~interrupted[s]
    /\ device' = [device EXCEPT ![s] = "open"]
    /\ Keeps /\ UNCHANGED <<flags, tls, bound, held>>

\* Mutant of HoldDevice: the device of a cancelled session is forgotten.
HoldDeviceForgets(s) ==
    /\ \/ Goes(s, "built", "serving") /\ Hold(s, "device")
       \/ cancelled[s] /\ Goes(s, "built", "failed") /\ UNCHANGED held
    /\ Keeps /\ UNCHANGED <<flags, tls, bound, device>>

\* hold(device): a cancelled session closes it and throws.
HoldDevice(s) ==
    /\ \/ Goes(s, "built", "serving") /\ Hold(s, "device") /\ UNCHANGED device
       \/ /\ cancelled[s] /\ Goes(s, "built", "failed")
          /\ device' = [device EXCEPT ![s] = "closed"] /\ UNCHANGED held
    /\ Keeps /\ UNCHANGED <<flags, tls, bound>>

\* A blocking call throws: an interrupt, a closed transport, or a refusal, an
\* error, a silence of the peer.
Broken(s) == interrupted[s] \/ tls[s] = "closed" \/ cancelled[s]

AttemptThrows(s) ==
    /\ \/ Goes(s, "dial", "failed")
       \/ Goes(s, "config", "failed")
    /\ interrupted' = [interrupted EXCEPT ![s] = FALSE]
    /\ Keeps
    /\ UNCHANGED <<cancelled, networkChanged, moved, resources>>

\* The finally of connect() closes the transport and the device itself.
ServingThrows(s) ==
    /\ Goes(s, "serving", "failed")
    /\ tls' = [tls EXCEPT ![s] = Shut(@)]
    /\ device' = [device EXCEPT ![s] = Shut(@)]
    /\ interrupted' = [interrupted EXCEPT ![s] = FALSE]
    /\ Keeps
    /\ UNCHANGED <<cancelled, networkChanged, moved, bound, held>>

\* The finally of the round; another network ends the round.
Failed(s) ==
    /\ Goes(s, "failed",
            IF networkChanged[s] \/ moved[s] THEN "ended" ELSE "pick")
    /\ CloseResources(s)
    /\ Keeps /\ UNCHANGED <<flags>>

\* After the round: if (!cancelled), then the delay is computed.
Ended(s) ==
    /\ Goes(s, "ended", IF cancelled[s] THEN "top" ELSE "delay")
    /\ Keeps /\ UNCHANGED <<flags, resources>>

Delay(s) ==
    /\ Goes(s, "delay", "wait")
    /\ Keeps /\ UNCHANGED <<flags, resources>>

\* Where the thread calls networks.generation() outside the try: before connect(),
\* and after it and for the delay unless networkChanged decides alone.
AsksTracker(s) ==
    \/ pc[s] = "chosen"
    \/ pc[s] \in {"failed", "delay"} /\ ~networkChanged[s]

\* It finds null: the exception ends the process, with all its threads, sockets
\* and descriptors.  A thread that still sees the tracker goes on instead.
Dies(s) ==
    /\ s \in orphans /\ AsksTracker(s)
    /\ service' = NoSession /\ orphans' = {}
    /\ pc' = [t \in Session |-> IF t \in Alive THEN "died" ELSE pc[t]]
    /\ tls' = [t \in Session |-> Shut(tls[t])]
    /\ device' = [t \in Session |-> Shut(device[t])]
    /\ held' = [t \in Session |-> {}]
    /\ networkChanged' = [t \in Session |-> FALSE]
    /\ interrupted' = [t \in Session |-> FALSE]
    /\ moved' = [t \in Session |-> FALSE]
    /\ telling' = "nothing" /\ network' \in Network
    /\ UNCHANGED <<cancelled, bound>>

\* What the thread does without the help of the network.
ThreadStep(s) ==
    \/ Top(s) \/ Refresh(s) \/ Sleep(s) \/ Pick(s) \/ EndRound(s) \/ Begin(s)
    \/ HoldTransport(s) \/ HoldDevice(s) \/ AttemptThrows(s)
    \/ Broken(s) /\ ServingThrows(s)
    \/ Failed(s) \/ Ended(s) \/ Delay(s) \/ Dies(s)

SessionNext ==
    \/ Start \/ Stop \/ Destroy \/ Count \/ Call
    \/ \E n \in Network : Choose(n)
    \/ \E s \in Session :
         ThreadStep(s) \/ Dial(s) \/ Establish(s) \/ ServingThrows(s)

\* Threads run, every wait of an attempt has a limit, and the system finishes
\* its callbacks.  That a tunnel breaks down by itself is not assumed.
SessionFairness ==
    /\ WF_sessionVars(Count \/ Call)
    /\ \A s \in Session : WF_sessionVars(ThreadStep(s))

SessionSpec == SessionInit /\ [][SessionNext]_sessionVars /\ SessionFairness

-----------------------------------------------------------------------------
\* The fields of a closed session stay empty whatever its thread was making at
\* that moment, and no attempt leaves a transport or a device open behind it:
\* nothing is open when the next attempt begins, while the thread waits and
\* after its end.  (close, hold and the finally blocks.)
NothingLeaks ==
    \A s \in Session :
        /\ cancelled[s] => held[s] = {}
        /\ tls[s] = "open" => pc[s] \in {"config", "built", "serving", "failed"}
        /\ device[s] = "open" => pc[s] \in {"built", "serving", "failed"}

\* An open transport over a network that is not the chosen one any more is known
\* to be: the callback is still on its way, or the session will neither go on with
\* it (its thread is interrupted or at the finally block) nor with the endpoints
\* of this round.  The safety half of NetworkFollowed.  (networkChanged, and the
\* generation compared after each attempt.)
ChangeNoticed ==
    \A s \in Session :
        tls[s] = "open" /\ bound[s] # network /\ ~cancelled[s] =>
            \/ telling # "nothing"
            \/ networkChanged[s] /\ moved[s] /\ (interrupted[s] \/ pc[s] = "failed")

\* A session that is closed comes to its end with transport and device closed,
\* wherever its thread stood, whether the thread ends in order or, after its service
\* is destroyed, by the exception that takes the process with it.  (close, onDestroy,
\* the finally blocks and the reads of `networks` outside them.)
Released ==
    \A s \in Session :
        cancelled[s] ~> (pc[s] \in {"done", "died"} /\ "open" \notin {tls[s], device[s]})

\* A transport over a network that is not the chosen one any more is given up,
\* wherever the callback met the thread: before the transport was held, in the
\* handshake or while it serves.  (networkChanged and the
\* generation compared after each attempt.)
NetworkFollowed ==
    \A s \in Session :
        (tls[s] = "open" /\ bound[s] # network) ~> (tls[s] # "open" \/ bound[s] = network)
=============================================================================
