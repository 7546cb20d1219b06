---------------------------- MODULE MobileProofs ----------------------------
(***************************************************************************)
(* Proofs about AndroidSession, for any sessions and networks, and about   *)
(* PacketTunnel, for any number of endpoints, starts and generations, and  *)
(* callbacks that come as late as they like.                               *)
(***************************************************************************)
EXTENDS AndroidSession, PacketTunnel, TLAPS

-----------------------------------------------------------------------------
(* AndroidSession.                                                         *)

SessionTypes ==
    /\ pc \in [Session -> Points]
    /\ cancelled \in [Session -> BOOLEAN] /\ networkChanged \in [Session -> BOOLEAN]
    /\ interrupted \in [Session -> BOOLEAN] /\ moved \in [Session -> BOOLEAN]
    /\ tls \in [Session -> {"none", "open", "closed"}]
    /\ device \in [Session -> {"none", "open", "closed"}]
    /\ held \in [Session -> SUBSET {"tls", "device"}]
    /\ bound \in [Session -> Network]
    /\ network \in Network
    /\ service \in Session \cup {NoSession}
    /\ orphans \subseteq Session

\* What is open is held by the fields, from which close() and the finally block
\* of the round take it, or it is the device on its way there.
HeldWhileOpen ==
    \A s \in Session :
        /\ tls[s] = "open" => "tls" \in held[s]
        /\ device[s] = "open" => pc[s] = "built" \/ "device" \in held[s]

\* The inductive invariant.
SessionInv == SessionTypes /\ HeldWhileOpen /\ NothingLeaks

\* The invariant holds at the start.
LEMMA SessionInitInv == SessionInit => SessionInv
BY DEF SessionInit, SessionInv, SessionTypes, HeldWhileOpen, NothingLeaks, Points

\* Closing a session empties its fields, and what they held is closed.
LEMMA ClosedOf ==
    ASSUME SessionInv, NEW s \in Session, CloseResources(s)
    PROVE  /\ tls' \in [Session -> {"none", "open", "closed"}]
           /\ device' \in [Session -> {"none", "open", "closed"}]
           /\ held' \in [Session -> SUBSET {"tls", "device"}]
           /\ held'[s] = {} /\ tls'[s] # "open"
           /\ device'[s] = "open" => device[s] = "open" /\ pc[s] = "built"
           /\ \A t \in Session \ {s} :
                held'[t] = held[t] /\ tls'[t] = tls[t] /\ device'[t] = device[t]
BY DEF SessionInv, SessionTypes, HeldWhileOpen, NothingLeaks, CloseResources, Shut

\* STOP and onDestroy: what they close is closed.
LEMMA CloseStep ==
    ASSUME SessionInv, NEW s \in Session, Close(s), service' = NoSession,
           UNCHANGED <<pc, networkChanged, moved>>, network' \in Network,
           orphans' \subseteq Session
    PROVE  SessionInv'
<1>1. /\ CloseResources(s) /\ UNCHANGED bound
      /\ cancelled' = [cancelled EXCEPT ![s] = TRUE]
      /\ interrupted' = [interrupted EXCEPT ![s] = TRUE]
  BY DEF Close, CloseResources
<1>2. /\ tls' \in [Session -> {"none", "open", "closed"}]
      /\ device' \in [Session -> {"none", "open", "closed"}]
      /\ held' \in [Session -> SUBSET {"tls", "device"}]
      /\ held'[s] = {} /\ tls'[s] # "open"
      /\ device'[s] = "open" => device[s] = "open" /\ pc[s] = "built"
      /\ \A t \in Session \ {s} :
           held'[t] = held[t] /\ tls'[t] = tls[t] /\ device'[t] = device[t]
  BY <1>1, ClosedOf
<1>3. SessionTypes'
  BY <1>1, <1>2 DEF SessionInv, SessionTypes
<1>4. HeldWhileOpen' /\ NothingLeaks'
  BY <1>1, <1>2 DEF SessionInv, SessionTypes, HeldWhileOpen, NothingLeaks
<1>. QED BY <1>3, <1>4 DEF SessionInv

\* The main thread and the callbacks.
LEMMA OutsideStep ==
    ASSUME SessionInv,
           Start \/ Stop \/ Destroy \/ Count \/ Call \/ \E n \in Network : Choose(n)
    PROVE  SessionInv'
<1>. USE DEF SessionInv, SessionTypes, HeldWhileOpen, NothingLeaks, flags, resources, tracker
<1>1. CASE Start
  <2>1. service' \in Session /\ pc[service'] = "unborn"
    BY <1>1 DEF Start, Unborn
  <2>. QED BY <1>1, <2>1 DEF Start, Points
<1>2. CASE Stop
  BY <1>2, CloseStep DEF Stop
<1>3. CASE Destroy
  <2>1. /\ service' = NoSession /\ network' \in Network /\ orphans' \subseteq Session
        /\ UNCHANGED <<pc, networkChanged, moved>>
    BY <1>3 DEF Destroy, Alive
  <2>2. CASE service = NoSession
    BY <1>3, <2>1, <2>2 DEF Destroy
  <2>3. CASE service # NoSession
    BY <1>3, <2>1, <2>3, CloseStep DEF Destroy
  <2>. QED BY <2>2, <2>3
<1>4. CASE Count
  BY <1>4 DEF Count
<1>5. CASE Call
  <2>1. CASE service = NoSession \/ cancelled[service]
    BY <1>5, <2>1 DEF Call
  <2>2. CASE ~(service = NoSession \/ cancelled[service])
    BY <1>5, <2>2 DEF Call, Notified, Shut
  <2>. QED BY <2>1, <2>2
<1>6. ASSUME NEW n \in Network, Choose(n) PROVE SessionInv'
  BY <1>6 DEF Choose
<1>. QED BY <1>1, <1>2, <1>3, <1>4, <1>5, <1>6

\* A thread that has nothing open goes on.
LEMMA QuietStep ==
    ASSUME SessionInv, NEW s \in Session, NEW to \in Points, pc' = [pc EXCEPT ![s] = to],
           tls[s] # "open", device[s] # "open",
           networkChanged' \in [Session -> BOOLEAN], interrupted' \in [Session -> BOOLEAN],
           moved' \in [Session -> BOOLEAN],
           UNCHANGED <<service, orphans, network, cancelled, tls, bound, device, held>>
    PROVE  SessionInv'
<1>1. pc' \in [Session -> Points] /\ \A t \in Session \ {s} : pc'[t] = pc[t]
  BY DEF SessionInv, SessionTypes
<1>2. SessionTypes'
  BY <1>1 DEF SessionInv, SessionTypes
<1>3. HeldWhileOpen' /\ NothingLeaks'
  BY <1>1 DEF SessionInv, HeldWhileOpen, NothingLeaks
<1>. QED BY <1>2, <1>3 DEF SessionInv

\* The thread between two attempts.
LEMMA BetweenStep ==
    ASSUME SessionInv, NEW s \in Session,
           \/ Top(s) \/ Refresh(s) \/ Sleep(s) \/ Pick(s) \/ EndRound(s) \/ Begin(s)
           \/ Ended(s) \/ Delay(s)
    PROVE  SessionInv'
<1>1. /\ pc[s] \in {"top", "refresh", "wait", "pick", "chosen", "ended", "delay"}
      /\ UNCHANGED <<service, orphans, network, cancelled, bound, held>>
      /\ tls[s] # "open" /\ device[s] # "open"
  <2>1. /\ pc[s] \in {"top", "refresh", "wait", "pick", "chosen", "ended", "delay"}
        /\ UNCHANGED <<service, orphans, network, cancelled, bound, held>>
    BY DEF Top, Refresh, Sleep, Pick, EndRound, Begin, Ended, Delay, Goes, Keeps,
           flags, resources, tracker
  <2>. QED BY <2>1 DEF SessionInv, NothingLeaks
<1>2. /\ networkChanged' \in [Session -> BOOLEAN] /\ interrupted' \in [Session -> BOOLEAN]
      /\ moved' \in [Session -> BOOLEAN]
  <2>. USE DEF SessionInv, SessionTypes, Keeps, flags
  <2>1. CASE Top(s)
    BY <2>1 DEF Top
  <2>2. CASE Refresh(s)
    BY <2>2 DEF Refresh
  <2>3. CASE Sleep(s)
    BY <2>3 DEF Sleep
  <2>4. CASE Pick(s) \/ EndRound(s) \/ Ended(s) \/ Delay(s)
    BY <2>4 DEF Pick, EndRound, Ended, Delay
  <2>5. CASE Begin(s)
    BY <2>5 DEF Begin
  <2>. QED BY <2>1, <2>2, <2>3, <2>4, <2>5
<1>3. CASE Top(s) \/ Refresh(s) \/ Sleep(s) \/ Pick(s) \/ EndRound(s) \/ Ended(s) \/ Delay(s)
  <2>1. \E to \in Points : pc' = [pc EXCEPT ![s] = to]
    BY <1>3 DEF Top, Refresh, Sleep, Pick, EndRound, Ended, Delay, Goes, Points
  <2>2. UNCHANGED <<tls, device>>
    BY <1>3 DEF Top, Refresh, Sleep, Pick, EndRound, Ended, Delay, resources
  <2>. QED BY <1>1, <1>2, <2>1, <2>2, QuietStep
<1>4. CASE Begin(s)
  <2>1. /\ pc' = [pc EXCEPT ![s] = "made"]
        /\ tls' = [tls EXCEPT ![s] = "none"] /\ device' = [device EXCEPT ![s] = "none"]
    BY <1>4 DEF Begin, Goes
  <2>2. SessionTypes'
    BY <1>1, <1>2, <2>1 DEF SessionInv, SessionTypes, Points
  <2>3. HeldWhileOpen' /\ NothingLeaks'
    BY <1>1, <2>1 DEF SessionInv, SessionTypes, HeldWhileOpen, NothingLeaks
  <2>. QED BY <2>2, <2>3 DEF SessionInv
<1>. QED BY <1>3, <1>4

\* The process ends with whatever its threads had open.
LEMMA DeathStep ==
    ASSUME SessionInv, NEW s \in Session, Dies(s)
    PROVE  /\ SessionInv'
           /\ \A t \in Session : tls'[t] # "open"
<1>. USE DEF SessionInv, SessionTypes
<1>1. \A t \in Session : tls'[t] # "open" /\ device'[t] # "open" /\ held'[t] = {}
  BY DEF Dies, Shut
<1>2. SessionTypes'
  BY DEF Dies, Shut, Points
<1>3. HeldWhileOpen' /\ NothingLeaks'
  BY <1>1 DEF HeldWhileOpen, NothingLeaks
<1>. QED BY <1>1, <1>2, <1>3

\* The thread in an attempt.
LEMMA AttemptOfStep ==
    ASSUME SessionInv, NEW s \in Session,
           \/ HoldTransport(s) \/ Dial(s) \/ Establish(s) \/ HoldDevice(s)
           \/ AttemptThrows(s) \/ ServingThrows(s)
    PROVE  SessionInv'
<1>. USE DEF SessionInv, SessionTypes, HeldWhileOpen, NothingLeaks, flags, resources, tracker,
             Goes, Keeps, Points
<1>1. CASE HoldTransport(s)
  BY <1>1 DEF HoldTransport, Hold
<1>2. CASE Dial(s)
  BY <1>2 DEF Dial
<1>3. CASE Establish(s)
  BY <1>3 DEF Establish
<1>4. CASE HoldDevice(s)
  BY <1>4 DEF HoldDevice, Hold
<1>5. CASE AttemptThrows(s)
  BY <1>5 DEF AttemptThrows
<1>6. CASE ServingThrows(s)
  BY <1>6 DEF ServingThrows, Shut
<1>. QED BY <1>1, <1>2, <1>3, <1>4, <1>5, <1>6

\* The finally block of the round.
LEMMA FailedStep ==
    ASSUME SessionInv, NEW s \in Session, Failed(s)
    PROVE  SessionInv'
<1>1. /\ pc[s] = "failed" /\ CloseResources(s)
      /\ \E to \in {"ended", "pick"} : pc' = [pc EXCEPT ![s] = to]
      /\ UNCHANGED <<service, orphans, cancelled, networkChanged, interrupted, moved, network,
                     bound>>
  BY DEF Failed, Goes, Keeps, flags, tracker, CloseResources
<1>2. /\ tls' \in [Session -> {"none", "open", "closed"}]
      /\ device' \in [Session -> {"none", "open", "closed"}]
      /\ held' \in [Session -> SUBSET {"tls", "device"}]
      /\ held'[s] = {} /\ tls'[s] # "open"
      /\ device'[s] = "open" => device[s] = "open" /\ pc[s] = "built"
      /\ \A t \in Session \ {s} :
           held'[t] = held[t] /\ tls'[t] = tls[t] /\ device'[t] = device[t]
  BY <1>1, ClosedOf
<1>3. /\ pc' \in [Session -> Points] /\ \A t \in Session \ {s} : pc'[t] = pc[t]
      /\ device'[s] # "open"
  BY <1>1, <1>2 DEF SessionInv, SessionTypes, Points
<1>4. SessionTypes'
  BY <1>1, <1>2, <1>3 DEF SessionInv, SessionTypes
<1>5. HeldWhileOpen' /\ NothingLeaks'
  BY <1>1, <1>2, <1>3 DEF SessionInv, HeldWhileOpen, NothingLeaks
<1>. QED BY <1>4, <1>5 DEF SessionInv

\* What is open is held, in every state the sessions can reach.
LEMMA SessionInvariance == SessionSpec => []SessionInv
<1>1. SessionInv /\ [SessionNext]_sessionVars => SessionInv'
  <2>. SUFFICES ASSUME SessionInv, [SessionNext]_sessionVars PROVE SessionInv'
    OBVIOUS
  <2>1. CASE UNCHANGED sessionVars
    BY <2>1 DEF SessionInv, SessionTypes, HeldWhileOpen, NothingLeaks,
                sessionVars, flags, resources, tracker
  <2>. QED BY <2>1, OutsideStep, BetweenStep, AttemptOfStep, FailedStep, DeathStep
           DEF SessionNext, ThreadStep
<1>. QED BY <1>1, SessionInitInv, PTL DEF SessionSpec

\* However stops, callbacks and threads meet, no attempt of a session leaves a
\* transport or a device open behind it, and a closed session's fields are empty.
\* (hold, close, networkChanged and the finally blocks of SeverVpnService.java.)
THEOREM NothingOpenBehind == SessionSpec => []NothingLeaks
<1>1. SessionInv => NothingLeaks
  BY DEF SessionInv
<1>. QED BY <1>1, SessionInvariance, PTL

-----------------------------------------------------------------------------
(* AndroidSession: another network.                                        *)

USE SessionAssumption

\* Of the sessions whose threads run only the service's is not closed,
\* so that the callbacks find every session that could still use a transport.
InForce == \A s \in Alive : ~cancelled[s] => service = s

Stale(s) == tls[s] = "open" /\ bound[s] # network /\ ~cancelled[s]

\* How far the news of another network has come with an open transport.
NoticedOf(s) ==
    \/ telling = "count"
    \/ moved[s] /\ telling = "call"
    \/ moved[s] /\ networkChanged[s] /\ (interrupted[s] \/ pc[s] = "failed")

\* The inductive invariant, beside SessionInv.
NoticeInv ==
    /\ telling \in {"nothing", "count", "call"}
    /\ InForce
    /\ \A s \in Session : Stale(s) => NoticedOf(s)

LEMMA NoticeInitInv == SessionInit => NoticeInv
BY DEF SessionInit, NoticeInv, InForce, Alive, Stale, NoticedOf

\* The main thread and the callbacks: one by one they carry the news on.
LEMMA NoticeOutside ==
    ASSUME SessionInv, NoticeInv,
           Start \/ Stop \/ Destroy \/ Count \/ Call \/ \E n \in Network : Choose(n)
    PROVE  NoticeInv'
<1>. USE DEF SessionInv, SessionTypes, NoticeInv, InForce, Stale, NoticedOf, Alive,
             flags, resources, tracker
<1>1. CASE Start
  <2>1. service' \in Session /\ pc' = [pc EXCEPT ![service'] = "top"]
    BY <1>1 DEF Start, Unborn
  <2>2. service = NoSession /\ UNCHANGED <<flags, resources, tracker>>
        /\ pc[service'] = "unborn" /\ service' \in Session
    BY <1>1 DEF Start, Unborn
  <2>3. tls[service'] # "open"
    BY <2>2 DEF NothingLeaks
  <2>. QED BY <2>1, <2>2, <2>3
<1>2. CASE Stop
  BY <1>2 DEF Stop, Close, CloseResources, Shut
<1>3. CASE Destroy
  <2>1. \A s \in Session : pc'[s] = pc[s] /\ (cancelled[s] => cancelled'[s])
    BY <1>3 DEF Destroy, Close
  <2>2. \A s \in Session : s \in Alive => cancelled'[s]
    BY <1>3 DEF Destroy, Close
  <2>3. \A s \in Session : tls'[s] = "open" => tls[s] = "open"
    BY <1>3 DEF Destroy, Close, CloseResources, Shut
  <2>4. \A s \in Session : tls'[s] = "open" => s \in Alive
    BY <2>3 DEF NothingLeaks
  <2>5. telling' = "nothing"
    BY <1>3 DEF Destroy
  <2>. QED BY <2>1, <2>2, <2>4, <2>5
<1>4. CASE Count
  <2>1. \A s \in Session : tls[s] = "open" => s \in Alive
    BY DEF NothingLeaks
  <2>. QED BY <1>4, <2>1 DEF Count
<1>5. CASE Call
  <2>1. \A s \in Session : tls[s] = "open" => s \in Alive
    BY DEF NothingLeaks
  <2>2. CASE service = NoSession \/ cancelled[service]
    <3>1. ASSUME NEW s \in Session, tls[s] = "open" PROVE cancelled[s] = TRUE
      <4>1. s \in Alive /\ s # NoSession
        BY <2>1, <3>1
      <4>2. ~cancelled[s] => service = s
        BY <4>1
      <4>. QED BY <2>2, <4>1, <4>2
    <3>. QED BY <1>5, <2>2, <3>1 DEF Call
  <2>3. CASE ~(service = NoSession \/ cancelled[service])
    <3>1. ASSUME NEW s \in Session, tls[s] = "open", ~cancelled[s] PROVE s = service
      <4>1. s \in Alive
        BY <2>1, <3>1
      <4>. QED BY <3>1, <4>1
    <3>. QED BY <1>5, <2>3, <3>1 DEF Call, Notified, Shut
  <2>. QED BY <2>2, <2>3
<1>6. ASSUME NEW n \in Network, Choose(n) PROVE NoticeInv'
  BY <1>6 DEF Choose
<1>. QED BY <1>1, <1>2, <1>3, <1>4, <1>5, <1>6

\* A step of a thread: no other session is touched, and its own transport is not
\* open afterwards, or over the network of this moment, or the news stays.
LEMMA NoticeThread ==
    ASSUME SessionInv, NoticeInv, NEW s \in Session,
           (ThreadStep(s) /\ ~Dies(s)) \/ Dial(s) \/ Establish(s) \/ ServingThrows(s)
    PROVE  NoticeInv'
<1>. USE DEF flags, resources, tracker, Keeps, Goes
<1>1. /\ UNCHANGED <<service, network, telling, cancelled>>
      /\ s \in Alive /\ pc' = [pc EXCEPT ![s] = pc'[s]]
      /\ \A t \in Session \ {s} :
            /\ tls'[t] = tls[t] /\ bound'[t] = bound[t] /\ moved'[t] = moved[t]
            /\ networkChanged'[t] = networkChanged[t] /\ interrupted'[t] = interrupted[t]
  <2>. USE DEF Alive, SessionInv, SessionTypes
  <2>1. CASE \/ Top(s) \/ Refresh(s) \/ Sleep(s) \/ Pick(s) \/ EndRound(s) \/ Begin(s)
             \/ Ended(s) \/ Delay(s)
    BY <2>1 DEF Top, Refresh, Sleep, Pick, EndRound, Begin, Ended, Delay
  <2>2. CASE \/ HoldTransport(s) \/ HoldDevice(s) \/ AttemptThrows(s)
    BY <2>2 DEF HoldTransport, HoldDevice, AttemptThrows
  <2>3. CASE ServingThrows(s) \/ Failed(s) \/ Dial(s) \/ Establish(s)
    BY <2>3 DEF ServingThrows, Failed, Dial, Establish, CloseResources
  <2>. QED BY <2>1, <2>2, <2>3 DEF ThreadStep
<1>2. \/ tls'[s] # "open"
      \/ bound'[s] = network
      \/ /\ tls'[s] = tls[s] /\ bound'[s] = bound[s] /\ moved'[s] = moved[s]
         /\ networkChanged'[s] = networkChanged[s]
         /\ pc[s] # "failed"
         /\ interrupted'[s] = interrupted[s] \/ pc'[s] = "failed"
  <2>. USE DEF SessionInv, SessionTypes
  <2>1. CASE \/ Top(s) \/ Refresh(s) \/ Sleep(s) \/ Pick(s) \/ EndRound(s) \/ Begin(s)
             \/ Ended(s) \/ Delay(s) \/ HoldTransport(s)
    <3>1. tls[s] # "open"
      BY <2>1 DEF Top, Refresh, Sleep, Pick, EndRound, Begin, Ended, Delay, HoldTransport,
                  NothingLeaks
    <3>. QED BY <2>1, <3>1 DEF Top, Refresh, Sleep, Pick, EndRound, Begin, Ended, Delay,
                               HoldTransport
  <2>2. CASE HoldDevice(s)
    BY <2>2 DEF HoldDevice
  <2>3. CASE AttemptThrows(s)
    BY <2>3 DEF AttemptThrows
  <2>4. CASE ServingThrows(s)
    BY <2>4 DEF ServingThrows, Shut
  <2>5. CASE Failed(s)
    BY <2>5, ClosedOf DEF Failed
  <2>6. CASE Dial(s)
    BY <2>6 DEF Dial
  <2>7. CASE Establish(s)
    BY <2>7 DEF Establish
  <2>. QED BY <2>1, <2>2, <2>3, <2>4, <2>5, <2>6, <2>7 DEF ThreadStep
<1>3. InForce'
  BY <1>1 DEF NoticeInv, InForce, Alive, SessionInv, SessionTypes
<1>4. \A t \in Session \ {s} : Stale(t)' => NoticedOf(t)'
  BY <1>1 DEF NoticeInv, Stale, NoticedOf, SessionInv, SessionTypes
<1>5. Stale(s)' => NoticedOf(s)'
  BY <1>1, <1>2 DEF NoticeInv, Stale, NoticedOf
<1>. QED BY <1>1, <1>3, <1>4, <1>5 DEF NoticeInv

\* The end of the process leaves no session that could miss the news.
LEMMA NoticeDeath ==
    ASSUME SessionInv, NoticeInv, NEW s \in Session, Dies(s)
    PROVE  NoticeInv'
<1>1. InForce'
  BY DEF Dies, InForce, Alive, SessionInv, SessionTypes
<1>2. \A t \in Session : ~Stale(t)'
  BY DeathStep DEF Stale
<1>. QED BY <1>1, <1>2 DEF NoticeInv, Dies

\* The news of another network reaches every session with an open transport,
\* wherever its thread stands: none is used on unnoticed.
\* (networkChanged and the generation compared in SeverVpnService.java.)
THEOREM NoChangeMissed == SessionSpec => []ChangeNoticed
<1>1. SessionInv /\ NoticeInv /\ [SessionNext]_sessionVars => NoticeInv'
  <2>. SUFFICES ASSUME SessionInv, NoticeInv, [SessionNext]_sessionVars PROVE NoticeInv'
    OBVIOUS
  <2>1. CASE UNCHANGED sessionVars
    BY <2>1 DEF NoticeInv, InForce, Alive, Stale, NoticedOf, sessionVars, flags, resources,
                tracker
  <2>. QED BY <2>1, NoticeOutside, NoticeThread, NoticeDeath DEF SessionNext, ThreadStep
<1>2. NoticeInv => ChangeNoticed
  BY DEF NoticeInv, Stale, NoticedOf, ChangeNoticed
<1>. QED BY <1>1, <1>2, SessionInvariance, NoticeInitInv, PTL DEF SessionSpec

USE TunnelAssumption

-----------------------------------------------------------------------------
(* PacketTunnel: the inductive invariant.                                  *)

Flags ==
    /\ stopped \in BOOLEAN /\ configured \in BOOLEAN
    /\ connected \in BOOLEAN /\ startCompletion \in BOOLEAN

TunnelTypes ==
    /\ Flags
    /\ generation \in Nat /\ endpointIndex \in Nat /\ retries \in Nat
    /\ answers \in Nat
    /\ attempts \subseteq Nat \ {0}
    /\ sending \in [Generations -> Nat]

\* Who may still call back belongs to an attempt that was made, and of the
\* attempts made none is later than the current generation.
CallersMade ==
    /\ \A id \in attempts : id <= generation
    /\ ready \subseteq attempts /\ receiving \subseteq attempts /\ settings \subseteq attempts
    /\ \A id \in Generations : sending[id] > 0 => id \in attempts

\* A running tunnel is in an attempt, which has the current generation, or
\* waits for one retry, and then no attempt has it.  A stopped one waits for
\* none.
OneCourse ==
    /\ stopped => retries = 0
    /\ generation = 0 => ~connected /\ ~stopped /\ retries = 0 /\ ~startCompletion
    /\ generation > 0 /\ ~stopped =>
         \/ connected /\ generation \in attempts /\ retries = 0
         \/ ~connected /\ generation \notin attempts /\ retries = 1
    /\ configured /\ ~stopped => connected

\* The handler is kept or it was called, and a stopped tunnel keeps none.
HandlerOnce ==
    /\ answers <= 1
    /\ startCompletion => answers = 0 /\ ~stopped

TunnelInv == TunnelTypes /\ CallersMade /\ OneCourse /\ HandlerOnce /\ OneConnection

LEMMA TunnelInitInv == TunnelInit => TunnelInv
<1>. SUFFICES ASSUME TunnelInit PROVE TunnelInv
  OBVIOUS
<1>1. sending \in [Generations -> Nat] /\ \A id \in Generations : sending[id] = 0
  BY DEF TunnelInit
<1>2. TunnelTypes
  <2>1. Flags
    BY DEF TunnelInit, Flags
  <2>. QED BY <1>1, <2>1 DEF TunnelInit, TunnelTypes
<1>3. CallersMade /\ OneCourse /\ HandlerOnce /\ OneConnection
  BY <1>1 DEF TunnelInit, CallersMade, OneCourse, HandlerOnce, OneConnection
<1>. QED BY <1>2, <1>3 DEF TunnelInv

\* An attempt that begins is the only connection.
LEMMA AttemptStep ==
    ASSUME TunnelInv, NEW index \in Nat, Attempt(index),
           stopped' = FALSE, generation = 0 \/ stopped \/ ~connected,
           retries' = 0, answers' \in Nat, startCompletion' \in BOOLEAN,
           HandlerOnce', UNCHANGED <<receiving, settings, pump>>
    PROVE  TunnelInv'
<1>1. live = {}
  BY DEF TunnelInv, OneCourse, OneConnection
<1>2. /\ generation' = generation + 1 /\ generation \in Nat
      /\ attempts' = attempts \cup {generation'} /\ ready' = ready \cup {generation'}
      /\ configured' = FALSE /\ connected' = TRUE /\ endpointIndex' = index + 1
      /\ live' = live \cup {generation'} /\ sending' = sending
  BY DEF Attempt, TunnelInv, TunnelTypes, pump
<1>3. TunnelTypes'
  <2>1. Flags'
    BY <1>2 DEF Flags
  <2>. QED BY <1>2, <2>1 DEF TunnelInv, TunnelTypes
<1>4. CallersMade'
  BY <1>2 DEF TunnelInv, TunnelTypes, CallersMade
<1>5. OneCourse'
  BY <1>2 DEF OneCourse
<1>6. OneConnection'
  BY <1>1, <1>2 DEF OneConnection
<1>. QED BY <1>3, <1>4, <1>5, <1>6 DEF TunnelInv

\* What a step that begins no attempt leaves true of the callers.
LEMMA CallersStep ==
    ASSUME TunnelInv, generation' \in Nat, generation' >= generation,
           attempts' = attempts,
           ready' \subseteq attempts, receiving' \subseteq attempts, settings' \subseteq attempts,
           sending' \in [Generations -> Nat],
           \A id \in Generations : sending'[id] > 0 => id \in attempts
    PROVE  CallersMade'
BY DEF TunnelInv, TunnelTypes, CallersMade

\* The parts of the invariant about the course of the tunnel.
CourseOK ==
    /\ Flags
    /\ generation \in Nat /\ endpointIndex \in Nat /\ retries \in Nat
    /\ answers \in Nat
    /\ OneCourse /\ HandlerOnce /\ OneConnection

\* The course goes on as it was.
LEMMA CourseKept ==
    ASSUME TunnelInv, UNCHANGED course, attempts' = attempts
    PROVE  CourseOK' /\ generation' >= generation
<1>1. UNCHANGED <<generation, endpointIndex, stopped, configured, connected, live,
                  startCompletion, answers, retries>>
  BY DEF course
<1>2. Flags'
  BY <1>1 DEF TunnelInv, TunnelTypes, Flags
<1>3. OneCourse' /\ HandlerOnce' /\ OneConnection'
  BY <1>1 DEF TunnelInv, OneCourse, HandlerOnce, OneConnection
<1>. QED BY <1>1, <1>2, <1>3 DEF TunnelInv, TunnelTypes, CourseOK

\* A failure of an attempt that was made changes nothing if the attempt is
\* over; otherwise it closes the connection and leaves one retry, or none and
\* a stopped tunnel.
LEMMA FailStep ==
    ASSUME TunnelInv, NEW id \in attempts, Fail(id), attempts' = attempts
    PROVE  CourseOK' /\ generation' >= generation
<1>1. CASE ~Current(id)
  BY <1>1, CourseKept DEF Fail
<1>2. CASE Current(id)
  <2>1. /\ id = generation /\ ~stopped /\ generation \in Nat /\ generation > 0
        /\ connected /\ retries = 0 /\ live = {generation}
    BY <1>2 DEF Current, TunnelInv, TunnelTypes, OneCourse, OneConnection
  <2>2. /\ generation' = generation + 1 /\ configured' = FALSE /\ connected' = FALSE
        /\ live' = {} /\ endpointIndex' = endpointIndex
    BY <1>2, <2>1 DEF Fail, CancelConnection
  <2>3. generation' \notin attempts
    BY <2>1, <2>2 DEF TunnelInv, TunnelTypes, CallersMade
  <2>4. CASE startCompletion /\ Exhausted
    <3>1. /\ answers' = answers + 1 /\ startCompletion' = FALSE
          /\ stopped' = TRUE /\ retries' = retries
      BY <1>2, <2>4 DEF Fail, Answer
    <3>2. answers = 0
      BY <2>4 DEF TunnelInv, HandlerOnce
    <3>3. Flags'
      BY <2>2, <3>1 DEF TunnelInv, TunnelTypes, Flags
    <3>4. OneCourse' /\ HandlerOnce' /\ OneConnection'
      BY <2>1, <2>2, <3>1, <3>2 DEF OneCourse, HandlerOnce, OneConnection
    <3>. QED BY <2>1, <2>2, <3>1, <3>2, <3>3, <3>4 DEF TunnelInv, TunnelTypes, CourseOK
  <2>5. CASE ~(startCompletion /\ Exhausted)
    <3>1. /\ retries' = retries + 1
          /\ UNCHANGED <<stopped, startCompletion, answers>>
      BY <1>2, <2>5 DEF Fail
    <3>2. Flags'
      BY <2>2, <3>1 DEF TunnelInv, TunnelTypes, Flags
    <3>3. OneCourse' /\ HandlerOnce' /\ OneConnection'
      BY <2>1, <2>2, <2>3, <3>1 DEF TunnelInv, OneCourse, HandlerOnce, OneConnection
    <3>. QED BY <2>1, <2>2, <3>1, <3>2, <3>3 DEF TunnelInv, TunnelTypes, CourseOK
  <2>. QED BY <2>4, <2>5
<1>. QED BY <1>1, <1>2

\* Course and callers together.
LEMMA Together ==
    ASSUME TunnelInv, CourseOK', generation' >= generation, attempts' = attempts,
           ready' \subseteq attempts, receiving' \subseteq attempts, settings' \subseteq attempts,
           sending' \in [Generations -> Nat],
           \A id \in Generations : sending'[id] > 0 => id \in attempts
    PROVE  TunnelInv'
<1>1. CallersMade'
  BY CallersStep DEF CourseOK
<1>. QED BY <1>1 DEF TunnelInv, TunnelTypes, CourseOK

-----------------------------------------------------------------------------
(* The steps.                                                              *)

LEMMA StartStep ==
    ASSUME TunnelInv, StartTunnel \/ StartRefused
    PROVE  TunnelInv'
<1>. USE DEF TunnelInv, TunnelTypes
<1>1. /\ stopped \/ generation = 0
      /\ retries = 0 /\ startCompletion = FALSE
  BY DEF StartTunnel, StartRefused, Startable, OneCourse, HandlerOnce
<1>2. CASE StartTunnel
  <2>1. /\ Attempt(0) /\ stopped' = FALSE /\ retries' = 0 /\ answers' = 0
        /\ startCompletion' = TRUE /\ UNCHANGED <<receiving, settings, pump>>
    BY <1>1, <1>2 DEF StartTunnel
  <2>2. HandlerOnce'
    BY <2>1 DEF HandlerOnce
  <2>. QED BY <1>1, <2>1, <2>2, AttemptStep
<1>3. CASE StartRefused
  <2>1. /\ answers' = 1
        /\ UNCHANGED <<generation, endpointIndex, stopped, configured, connected, live,
                       startCompletion, retries, attempts, ready, receiving, settings, sending>>
    BY <1>3 DEF StartRefused, transportCalls, pump
  <2>2. Flags' /\ OneCourse' /\ OneConnection'
    BY <2>1 DEF Flags, OneCourse, OneConnection
  <2>3. CourseOK'
    BY <1>1, <2>1, <2>2 DEF CourseOK, HandlerOnce
  <2>. QED BY <2>1, <2>3, Together DEF CallersMade
<1>. QED BY <1>2, <1>3

\* A retry waits only where no connection is open.
LEMMA RetryStep ==
    ASSUME TunnelInv, Retry
    PROVE  TunnelInv'
<1>. USE DEF TunnelInv, TunnelTypes
<1>1. stopped = FALSE /\ generation > 0 /\ connected = FALSE /\ retries = 1
  BY DEF Retry, OneCourse
<1>2. /\ Attempt(endpointIndex) /\ retries' = 0
      /\ UNCHANGED <<stopped, startCompletion, answers, receiving, settings, pump>>
  BY <1>1 DEF Retry
<1>3. HandlerOnce'
  BY <1>2 DEF HandlerOnce
<1>4. stopped' = FALSE /\ startCompletion' \in BOOLEAN /\ answers' \in Nat
  BY <1>1, <1>2 DEF Flags
<1>. QED BY <1>1, <1>2, <1>3, <1>4, AttemptStep

LEMMA StopStep ==
    ASSUME TunnelInv, StopTunnel
    PROVE  TunnelInv'
<1>. USE DEF TunnelInv, TunnelTypes
<1>1. /\ ~stopped /\ generation > 0 /\ stopped' = TRUE /\ generation' = generation + 1
      /\ retries' = 0 /\ connected' = FALSE /\ live' = {} /\ startCompletion' = FALSE
      /\ answers' = IF startCompletion THEN answers + 1 ELSE answers
      /\ UNCHANGED <<endpointIndex, configured, attempts, ready, receiving, settings, sending>>
  BY DEF StopTunnel, CancelRetry, CancelConnection, Answer, OneCourse, OneConnection,
         transportCalls, pump
<1>2. answers' \in 0..1
  BY <1>1 DEF HandlerOnce
<1>3. CourseOK'
  <2>1. Flags'
    BY <1>1 DEF Flags
  <2>2. OneCourse' /\ HandlerOnce' /\ OneConnection'
    BY <1>1, <1>2 DEF OneCourse, HandlerOnce, OneConnection
  <2>. QED BY <1>1, <1>2, <2>1, <2>2 DEF CourseOK
<1>. QED BY <1>1, <1>3, Together DEF CallersMade

\* The timer and an error of an attempt.
LEMMA ErrorStep ==
    ASSUME TunnelInv, TimedOut \/ \E id \in Generations : OnError(id)
    PROVE  TunnelInv'
<1>. USE DEF TunnelInv, TunnelTypes
<1>1. UNCHANGED <<attempts, ready, receiving, settings, sending>>
  BY DEF TimedOut, OnError, transportCalls, pump
<1>2. PICK id \in attempts : Fail(id)
  <2>1. TimedOut => generation \in attempts /\ Fail(generation)
    BY DEF TimedOut, OneCourse
  <2>2. \A id \in Generations : OnError(id) => id \in attempts /\ Fail(id)
    BY DEF OnError
  <2>. QED BY <2>1, <2>2
<1>3. CourseOK' /\ generation' >= generation
  BY <1>1, <1>2, FailStep
<1>. QED BY <1>1, <1>3, Together DEF CallersMade

\* The WebSocket has opened, or a frame has come.
LEMMA TransportStep ==
    ASSUME TunnelInv, NEW id \in Generations, OnReady(id) \/ OnReceive(id)
    PROVE  TunnelInv'
<1>. USE DEF TunnelInv, TunnelTypes
<1>1. /\ UNCHANGED <<attempts, sending>>
      /\ ready' \subseteq attempts /\ receiving' \subseteq attempts /\ settings' \subseteq attempts
  BY DEF OnReady, OnReceive, CallersMade, transportCalls, pump
<1>2. CASE UNCHANGED course
  BY <1>1, <1>2, CourseKept, Together DEF CallersMade
<1>3. CASE ~UNCHANGED course
  <2>1. id \in attempts /\ Fail(id)
    BY <1>3 DEF OnReady, OnReceive, CallersMade
  <2>. QED BY <1>1, <2>1, FailStep, Together DEF CallersMade
<1>. QED BY <1>2, <1>3

\* The settings are in force: the handler is called if it is still kept.
LEMMA SettingsStep ==
    ASSUME TunnelInv, NEW id \in Generations, OnSettings(id)
    PROVE  TunnelInv'
<1>. USE DEF TunnelInv, TunnelTypes
<1>1. /\ UNCHANGED <<attempts, sending, ready>> /\ id \in attempts
      /\ receiving' \subseteq attempts /\ settings' \subseteq attempts
  BY DEF OnSettings, CallersMade
<1>2. CASE Fail(id)
  BY <1>1, <1>2, FailStep, Together DEF CallersMade
<1>3. CASE ~Fail(id)
  <2>1. /\ Current(id) /\ configured' = TRUE /\ startCompletion' = FALSE
        /\ answers' = IF startCompletion THEN answers + 1 ELSE answers
        /\ UNCHANGED <<generation, endpointIndex, stopped, connected, live, retries>>
    BY <1>3 DEF OnSettings, Answer
  <2>2. connected /\ answers' \in 0..1
    BY <1>1, <2>1 DEF Current, OneCourse, HandlerOnce
  <2>3. Flags'
    BY <2>1 DEF Flags
  <2>4. OneCourse' /\ HandlerOnce' /\ OneConnection'
    BY <1>1, <2>1, <2>2 DEF OneCourse, HandlerOnce, OneConnection
  <2>5. CourseOK'
    BY <2>1, <2>2, <2>3, <2>4 DEF CourseOK
  <2>. QED BY <1>1, <2>1, <2>5, Together DEF CallersMade
<1>. QED BY <1>2, <1>3

\* The packet pump.
LEMMA PumpStep ==
    ASSUME TunnelInv, OnPackets \/ \E id \in Generations : OnSent(id)
    PROVE  TunnelInv'
<1>. USE DEF TunnelInv, TunnelTypes
<1>1. UNCHANGED <<attempts, ready, receiving, settings>>
  BY DEF OnPackets, OnSent, transportCalls
<1>2. CASE OnPackets
  <2>1. UNCHANGED course
    BY <1>2 DEF OnPackets
  <2>2. ~stopped /\ configured => generation \in attempts
    BY DEF OneCourse
  <2>3. /\ sending' \in [Generations -> Nat]
        /\ \A i \in Generations : sending'[i] > 0 => i \in attempts
    <3>1. CASE ~stopped /\ configured
      <4>1. sending' = [sending EXCEPT ![generation] = @ + 1]
        BY <1>2, <3>1 DEF OnPackets
      <4>2. sending' = [i \in Generations |->
                          IF i = generation THEN sending[i] + 1 ELSE sending[i]]
        BY <4>1
      <4>3. sending' \in [Generations -> Nat]
        BY <4>2
      <4>. QED BY <2>2, <3>1, <4>2, <4>3 DEF CallersMade
    <3>2. CASE ~(~stopped /\ configured)
      BY <1>2, <3>2 DEF OnPackets, CallersMade
    <3>. QED BY <3>1, <3>2
  <2>. QED BY <1>1, <2>1, <2>3, CourseKept, Together DEF CallersMade
<1>3. ASSUME NEW id \in Generations, OnSent(id) PROVE TunnelInv'
  <2>1. id \in attempts /\ sending[id] > 0 /\ sending' = [sending EXCEPT ![id] = @ - 1]
    BY <1>3 DEF OnSent, CallersMade
  <2>2. /\ sending' \in [Generations -> Nat]
        /\ \A i \in Generations : sending'[i] > 0 => i \in attempts
    BY <2>1 DEF CallersMade
  <2>3. Fail(id) \/ UNCHANGED course
    BY <1>3 DEF OnSent
  <2>4. CourseOK' /\ generation' >= generation
    BY <1>1, <2>1, <2>3, FailStep, CourseKept
  <2>. QED BY <1>1, <2>2, <2>4, Together DEF CallersMade
<1>. QED BY <1>2, <1>3

LEMMA StutterStep ==
    ASSUME TunnelInv, UNCHANGED tunnelVars
    PROVE  TunnelInv'
<1>1. UNCHANGED <<course, attempts, ready, receiving, settings, sending>>
  BY DEF tunnelVars, transportCalls, pump
<1>. QED BY <1>1, CourseKept, Together DEF TunnelInv, TunnelTypes, CallersMade

-----------------------------------------------------------------------------
(* Theorems.                                                               *)

\* The inductive invariant holds in every state the tunnel can reach: one
\* attempt or one retry at a time, and callbacks only of attempts made.
THEOREM TunnelInvariance == TunnelSpec => []TunnelInv
<1>1. TunnelInv /\ [TunnelNext]_tunnelVars => TunnelInv'
  BY StartStep, RetryStep, StopStep, ErrorStep, TransportStep, SettingsStep, PumpStep,
     StutterStep DEF TunnelNext
<1>. QED BY <1>1, TunnelInitInv, PTL DEF TunnelSpec

\* There is never a second WebTransport, and none in a stopped tunnel,
\* whatever comes late.  (attempt, fail and stopTunnel in
\* PacketTunnelProvider.swift.)
THEOREM SingleConnection == TunnelSpec => []OneConnection
BY TunnelInvariance, PTL DEF TunnelInv

\* The handler of startTunnel is never called twice.  (fail, stopTunnel and the completion of
\* setTunnelNetworkSettings.)
THEOREM NotTwice == TunnelSpec => []AnsweredOnce
<1>1. TunnelInv => AnsweredOnce
  BY DEF TunnelInv, HandlerOnce, AnsweredOnce
<1>. QED BY <1>1, TunnelInvariance, PTL

-----------------------------------------------------------------------------
(* How many generations there are.                                         *)

\* The generations that `started` starts of the tunnel use up, at most: the
\* attempts of a start until its handler is called, each with its end, and
\* those before MaxGeneration.
UsedUp(started) == MaxGeneration + (2 * (EndpointCount + 1)) * started

\* While the handler of a start is kept, each attempt takes another endpoint.
Bounded ==
    /\ starts \in 0..MaxStarts
    /\ generation > 0 => starts > 0
    /\ startCompletion =>
         /\ endpointIndex \in 1..EndpointCount
         /\ ~connected => endpointIndex < EndpointCount
         /\ generation + 2 * (EndpointCount + 1) + (IF connected THEN 1 ELSE 0)
              <= UsedUp(starts) + 2 * endpointIndex
    /\ generation > 0 /\ ~startCompletion /\ ~stopped =>
         generation + (IF connected THEN 3 ELSE 2) <= UsedUp(starts)
    /\ stopped => generation + 1 <= UsedUp(starts)

LEMMA UsedUpGrows ==
    ASSUME NEW s \in Nat
    PROVE  /\ UsedUp(s) \in Nat /\ MaxGeneration <= UsedUp(s)
           /\ UsedUp(s + 1) = UsedUp(s) + 2 * EndpointCount + 2
           /\ s > 0 => MaxGeneration + 2 * EndpointCount + 2 <= UsedUp(s)
           /\ s <= MaxStarts => UsedUp(s) <= UsedUp(MaxStarts)
           /\ \A g \in Nat : g <= UsedUp(MaxStarts) => g \in Generations
<1>. DEFINE K == 2 * (EndpointCount + 1)
<1>1. K \in Nat /\ K = 2 * EndpointCount + 2
  OBVIOUS
<1>. HIDE DEF K
<1>2. \A t \in Nat : K * t \in Nat /\ K * (t + 1) = K * t + K
  BY <1>1
<1>3. \A t \in Nat : t > 0 => K <= K * t
  <2>. SUFFICES ASSUME NEW t \in Nat, t > 0 PROVE K <= K * t
    OBVIOUS
  <2>1. K * t = K * (t - 1) + K /\ K * (t - 1) \in Nat
    BY <1>1
  <2>. QED BY <1>1, <2>1
<1>4. s <= MaxStarts => K * s <= K * MaxStarts
  <2>1. ASSUME s <= MaxStarts PROVE K * s <= K * MaxStarts
    <3>1. K * MaxStarts = K * s + K * (MaxStarts - s) /\ K * (MaxStarts - s) \in Nat
      BY <1>1, <2>1
    <3>2. K * s \in Nat
      BY <1>2
    <3>. QED BY <3>1, <3>2
  <2>. QED BY <2>1
<1>5. /\ UsedUp(s) = MaxGeneration + K * s
      /\ UsedUp(s + 1) = MaxGeneration + K * (s + 1)
      /\ UsedUp(MaxStarts) = MaxGeneration + K * MaxStarts
      /\ Generations = 0..(MaxGeneration + K * (MaxStarts + 1))
  BY DEF UsedUp, Generations, K
<1>6. K * (MaxStarts + 1) = K * MaxStarts + K /\ K * MaxStarts \in Nat /\ K * s \in Nat
  BY <1>2
<1>. QED BY <1>1, <1>2, <1>3, <1>4, <1>5, <1>6

\* The current generation is one of Generations.
LEMMA GenerationInside == TunnelInv /\ Bounded => generation \in Generations
<1>. SUFFICES ASSUME TunnelInv, Bounded PROVE generation \in Generations
  OBVIOUS
<1>1. /\ starts \in Nat /\ starts <= MaxStarts /\ generation \in Nat
      /\ UsedUp(starts) \in Nat /\ UsedUp(MaxStarts) \in Nat
      /\ UsedUp(starts) <= UsedUp(MaxStarts)
  BY UsedUpGrows DEF Bounded, TunnelInv, TunnelTypes
<1>2. generation <= UsedUp(starts)
  BY <1>1 DEF Bounded, TunnelInv, TunnelTypes, Flags
<1>. QED BY <1>1, <1>2, UsedUpGrows

\* A failure uses up one generation more.
LEMMA FailBounded ==
    ASSUME TunnelInv, Bounded, NEW id \in attempts, Fail(id), UNCHANGED starts
    PROVE  Bounded'
<1>. USE DEF TunnelInv, TunnelTypes, Flags
<1>1. starts \in Nat /\ UsedUp(starts) \in Nat
  BY UsedUpGrows DEF Bounded
<1>2. CASE ~Current(id)
  BY <1>2 DEF Fail, course, Bounded
<1>3. CASE Current(id)
  <2>1. connected /\ ~stopped /\ generation > 0
    BY <1>3 DEF Current, OneCourse
  <2>2. /\ generation' = generation + 1 /\ connected' = FALSE
        /\ endpointIndex' = endpointIndex
    BY <1>3 DEF Fail, CancelConnection
  <2>3. CASE startCompletion /\ Exhausted
    <3>1. startCompletion' = FALSE /\ stopped' = TRUE
      BY <1>3, <2>3 DEF Fail, Answer
    <3>. QED BY <1>1, <2>1, <2>2, <2>3, <3>1 DEF Bounded
  <2>4. CASE ~(startCompletion /\ Exhausted)
    <3>1. UNCHANGED <<stopped, startCompletion>>
      BY <1>3, <2>4 DEF Fail
    <3>. QED BY <1>1, <2>1, <2>2, <2>4, <3>1 DEF Bounded, Exhausted
  <2>. QED BY <2>3, <2>4
<1>. QED BY <1>2, <1>3

LEMMA BoundedStep ==
    ASSUME TunnelInv, Bounded, [TunnelNext]_tunnelVars
    PROVE  Bounded'
<1>. USE DEF TunnelInv, TunnelTypes, Flags
<1>1. /\ starts \in Nat /\ starts <= MaxStarts
      /\ UsedUp(starts) \in Nat /\ UsedUp(starts + 1) \in Nat
      /\ UsedUp(starts + 1) = UsedUp(starts) + 2 * EndpointCount + 2
      /\ MaxGeneration <= UsedUp(starts)
      /\ starts > 0 => MaxGeneration + 2 * EndpointCount + 2 <= UsedUp(starts)
  BY UsedUpGrows DEF Bounded
<1>2. CASE StartTunnel
  <2>1. /\ starts < MaxStarts /\ (stopped \/ generation = 0)
        /\ starts' = starts + 1 /\ startCompletion' = TRUE /\ stopped' = FALSE
        /\ generation' = generation + 1 /\ endpointIndex' = 1 /\ connected' = TRUE
    BY <1>2 DEF StartTunnel, Startable, Attempt
  <2>2. starts' \in 0..MaxStarts
    BY <1>1, <1>2 DEF StartTunnel, Startable
  <2>. QED BY <1>1, <2>1, <2>2 DEF Bounded
<1>3. CASE StartRefused
  <2>1. /\ stopped \/ generation = 0
        /\ starts' = starts + 1 /\ starts' \in 0..MaxStarts
        /\ UNCHANGED <<generation, endpointIndex, stopped, connected, startCompletion>>
    BY <1>1, <1>3 DEF StartRefused, Startable
  <2>2. startCompletion = FALSE
    BY <2>1 DEF OneCourse, HandlerOnce
  <2>. QED BY <1>1, <2>1, <2>2 DEF Bounded
<1>4. CASE Retry
  <2>1. stopped = FALSE /\ generation > 0 /\ connected = FALSE
    BY <1>4 DEF Retry, OneCourse
  <2>2. /\ generation' = generation + 1 /\ endpointIndex' = endpointIndex + 1
        /\ connected' = TRUE
        /\ generation < MaxGeneration \/ startCompletion
        /\ UNCHANGED <<stopped, startCompletion, starts>>
    BY <1>4, <2>1 DEF Retry, Attempt
  <2>. QED BY <1>1, <2>1, <2>2 DEF Bounded
<1>5. CASE StopTunnel
  <2>1. /\ generation > 0 /\ ~stopped /\ stopped' = TRUE
        /\ generation' = generation + 1 /\ startCompletion' = FALSE
        /\ connected' = FALSE /\ UNCHANGED starts
    BY <1>5 DEF StopTunnel, CancelConnection, Answer
  <2>. QED BY <1>1, <2>1 DEF Bounded
<1>6. ASSUME NEW id \in attempts, Fail(id), UNCHANGED starts PROVE Bounded'
  BY <1>6, FailBounded
<1>7. CASE UNCHANGED <<course, starts>>
  BY <1>7 DEF course, Bounded
<1>8. ASSUME NEW id \in Generations, OnSettings(id) PROVE Bounded'
  <2>1. id \in attempts /\ UNCHANGED starts
    BY <1>8 DEF OnSettings, CallersMade
  <2>2. CASE ~Fail(id)
    <3>1. /\ Current(id) /\ startCompletion' = FALSE
          /\ UNCHANGED <<generation, endpointIndex, stopped, connected>>
      BY <1>8, <2>2 DEF OnSettings, Answer
    <3>2. connected
      BY <2>1, <3>1 DEF Current, OneCourse
    <3>. QED BY <1>1, <2>1, <3>1, <3>2 DEF Bounded
  <2>. QED BY <1>6, <2>1, <2>2
<1>9. TimedOut \/ (\E id \in Generations : OnError(id)) =>
         \E id \in attempts : Fail(id) /\ UNCHANGED starts
  <2>1. TimedOut => generation \in attempts /\ Fail(generation) /\ UNCHANGED starts
    BY DEF TimedOut, OneCourse
  <2>2. \A id \in Generations : OnError(id) => id \in attempts /\ Fail(id) /\ UNCHANGED starts
    BY DEF OnError
  <2>. QED BY <2>1, <2>2
<1>10. ASSUME NEW id \in Generations, OnReady(id) \/ OnReceive(id) \/ OnSent(id)
       PROVE  UNCHANGED <<course, starts>> \/ (id \in attempts /\ Fail(id) /\ UNCHANGED starts)
  BY <1>10 DEF OnReady, OnReceive, OnSent, CallersMade
<1>11. OnPackets \/ UNCHANGED tunnelVars => UNCHANGED <<course, starts>>
  BY DEF OnPackets, tunnelVars
<1>. QED BY <1>2, <1>3, <1>4, <1>5, <1>6, <1>7, <1>8, <1>9, <1>10, <1>11 DEF TunnelNext

-----------------------------------------------------------------------------
(* The packet pump.                                                        *)

\* An attempt that is not configured has no chain of sends, and settings that
\* are awaited are not in force yet.
Pumps ==
    /\ readingPackets \in BOOLEAN
    /\ reads = IF readingPackets THEN 1 ELSE 0
    /\ generation \in Generations
    /\ ~stopped /\ ~configured => sending[generation] = 0
    /\ ~stopped /\ configured => generation \notin settings
    /\ OnePump

\* A new generation has nothing to do with the callbacks of earlier ones.
LEMMA FreshPumps ==
    ASSUME TunnelInv, Pumps, generation' = generation + 1, generation' \in Generations,
           configured' = FALSE \/ stopped' = TRUE,
           readingPackets' = readingPackets, reads' = reads,
           sending' = sending \/ \E id \in attempts : sending' = [sending EXCEPT ![id] = @ - 1]
    PROVE  Pumps'
<1>1. /\ generation' \notin attempts /\ generation \in Nat
      /\ sending \in [Generations -> Nat]
  BY DEF TunnelInv, TunnelTypes, CallersMade
<1>2. sending[generation'] = 0
  BY <1>1 DEF TunnelInv, CallersMade
<1>3. sending'[generation'] = sending[generation']
  BY <1>1
<1>. QED BY <1>2, <1>3 DEF Pumps, OnePump

\* A failure takes the pump with it.
LEMMA FailPumps ==
    ASSUME TunnelInv, Pumps, generation' \in Generations,
           NEW id \in attempts, Fail(id),
           \A i \in settings' : i \in settings,
           readingPackets' = readingPackets, reads' = reads,
           sending' = sending \/ (sending' = [sending EXCEPT ![id] = @ - 1])
    PROVE  Pumps'
<1>1. CASE Current(id)
  <2>1. generation' = generation + 1 /\ configured' = FALSE
    BY <1>1 DEF Fail
  <2>. QED BY <2>1, FreshPumps
<1>2. CASE ~Current(id)
  <2>1. UNCHANGED <<generation, stopped, configured>>
    BY <1>2 DEF Fail, course
  <2>2. ~stopped => generation # id
    BY <1>2 DEF Current
  <2>3. ~stopped => sending'[generation] = sending[generation]
    BY <2>2 DEF TunnelInv, TunnelTypes, Pumps
  <2>. QED BY <2>1, <2>3 DEF Pumps, OnePump
<1>. QED BY <1>1, <1>2

LEMMA PumpsStep ==
    ASSUME TunnelInv, Pumps, generation' \in Generations, [TunnelNext]_tunnelVars
    PROVE  Pumps'
<1>. USE DEF TunnelInv, TunnelTypes, Flags
<1>1. CASE StartTunnel
  BY <1>1, FreshPumps DEF StartTunnel, Attempt, pump
<1>2. CASE StartRefused
  BY <1>2 DEF StartRefused, transportCalls, pump, Pumps, OnePump
<1>3. CASE Retry
  <2>1. stopped = FALSE
    BY <1>3 DEF Retry, OneCourse
  <2>. QED BY <1>3, <2>1, FreshPumps DEF Retry, Attempt, pump
<1>4. CASE StopTunnel
  BY <1>4, FreshPumps DEF StopTunnel, pump
<1>5. CASE TimedOut
  BY <1>5, FailPumps DEF TimedOut, OneCourse, pump, transportCalls
<1>6. ASSUME NEW id \in Generations, OnError(id) PROVE Pumps'
  BY <1>6, FailPumps DEF OnError, pump, transportCalls
<1>7. ASSUME NEW id \in Generations, OnReady(id) PROVE Pumps'
  BY <1>7 DEF OnReady, course, pump, Pumps, OnePump
<1>8. ASSUME NEW id \in Generations, OnReceive(id) PROVE Pumps'
  <2>1. id \in attempts /\ UNCHANGED <<readingPackets, reads, sending>>
    BY <1>8 DEF OnReceive, CallersMade, pump
  <2>2. CASE Fail(id) /\ UNCHANGED settings
    BY <2>1, <2>2, FailPumps
  <2>3. CASE ~configured /\ UNCHANGED course
    BY <2>1, <2>3 DEF course, Pumps, OnePump
  <2>. QED BY <1>8, <2>2, <2>3 DEF OnReceive
<1>9. ASSUME NEW id \in Generations, OnSettings(id) PROVE Pumps'
  <2>1. /\ id \in attempts /\ id \in settings /\ settings' = settings \ {id}
        /\ UNCHANGED sending
    BY <1>9 DEF OnSettings, CallersMade
  <2>2. CASE Fail(id) /\ UNCHANGED <<readingPackets, reads>>
    BY <2>1, <2>2, FailPumps
  <2>3. CASE Current(id) /\ configured' = TRUE /\ ReadPackets /\ UNCHANGED <<generation, stopped>>
    <3>1. id = generation /\ ~stopped /\ ~configured
      BY <2>1, <2>3 DEF Current, Pumps
    <3>2. readingPackets' = TRUE /\ reads' = 1
      BY <2>3 DEF ReadPackets, Pumps
    <3>. QED BY <2>1, <2>3, <3>1, <3>2 DEF Pumps, OnePump
  <2>. QED BY <1>9, <2>2, <2>3 DEF OnSettings
<1>10. CASE OnPackets
  <2>1. /\ readingPackets = TRUE /\ reads = 1 /\ readingPackets' = FALSE /\ reads' = 0
        /\ UNCHANGED <<generation, stopped, configured, settings>>
    BY <1>10 DEF OnPackets, Pumps, course, transportCalls
  <2>2. CASE ~stopped /\ configured
    <3>1. sending[generation] = 0
      BY <2>1, <2>2 DEF Pumps, OnePump
    <3>2. sending' = [sending EXCEPT ![generation] = @ + 1]
      BY <1>10, <2>2 DEF OnPackets
    <3>3. sending'[generation'] = 1
      BY <2>1, <3>1, <3>2 DEF Pumps
    <3>4. generation' \notin settings'
      BY <2>1, <2>2 DEF Pumps
    <3>5. OnePump'
      BY <2>1, <3>3 DEF OnePump
    <3>. QED BY <2>1, <2>2, <3>4, <3>5 DEF Pumps
  <2>3. CASE ~(~stopped /\ configured)
    BY <1>10, <2>1, <2>3 DEF OnPackets, Pumps, OnePump
  <2>. QED BY <2>2, <2>3
<1>11. ASSUME NEW id \in Generations, OnSent(id) PROVE Pumps'
  <2>1. /\ id \in attempts /\ sending[id] > 0 /\ sending' = [sending EXCEPT ![id] = @ - 1]
        /\ UNCHANGED settings
    BY <1>11 DEF OnSent, CallersMade, transportCalls
  <2>2. CASE Fail(id) /\ UNCHANGED <<readingPackets, reads>>
    BY <2>1, <2>2, FailPumps
  <2>3. CASE Current(id) /\ ReadPackets /\ UNCHANGED course
    <3>1. id = generation /\ ~stopped
      BY <2>3 DEF Current
    <3>2. configured /\ sending[id] = 1 /\ readingPackets = FALSE /\ reads = 0
      BY <2>1, <3>1 DEF Pumps, OnePump
    <3>3. readingPackets' = TRUE /\ reads' = 1 /\ sending'[id] = 0
      BY <2>1, <2>3, <3>2 DEF ReadPackets
    <3>4. UNCHANGED <<generation, stopped, configured>>
      BY <2>3 DEF course
    <3>. QED BY <2>1, <3>1, <3>2, <3>3, <3>4 DEF Pumps, OnePump
  <2>. QED BY <1>11, <2>2, <2>3 DEF OnSent
<1>12. CASE UNCHANGED tunnelVars
  BY <1>12 DEF tunnelVars, course, transportCalls, pump, Pumps, OnePump
<1>. QED BY <1>1, <1>2, <1>3, <1>4, <1>5, <1>6, <1>7, <1>8, <1>9, <1>10, <1>11, <1>12
     DEF TunnelNext

\* A configured tunnel always has exactly one loop that moves packets from
\* the device, whatever calls of earlier attempts and starts are still
\* outstanding.  (readPackets and sendPackets in PacketTunnelProvider.swift.)
THEOREM SinglePump == TunnelSpec => []OnePump
<1>1. TunnelInit => Bounded
  BY UsedUpGrows DEF TunnelInit, Bounded
<1>2. TunnelInit => Pumps
  <2>1. 0 \in Generations
    BY UsedUpGrows
  <2>. QED BY <2>1 DEF TunnelInit, Pumps, OnePump
<1>3. TunnelInv /\ Bounded /\ TunnelInv' /\ [TunnelNext]_tunnelVars => Bounded'
  BY BoundedStep
<1>4. TunnelInv /\ Bounded /\ Pumps /\ TunnelInv' /\ [TunnelNext]_tunnelVars => Pumps'
  <2>1. TunnelInv' /\ Bounded' => (generation \in Generations)'
    BY GenerationInside, PTL
  <2>. QED BY <2>1, BoundedStep, PumpsStep
<1>5. Pumps => OnePump
  BY DEF Pumps
<1>. QED BY <1>1, <1>2, <1>3, <1>4, <1>5, TunnelInvariance, PTL DEF TunnelSpec
=============================================================================
