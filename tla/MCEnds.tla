------------------------------- MODULE MCEnds -------------------------------
(***************************************************************************)
(* Instance for TLC of what works at the ends of a tunnel: the framing of  *)
(* a session, the sessions of the three clients and the collector of the   *)
(* node.  They share no state here, so each is explored alone: `part` says *)
(* which one runs, and only that one is scheduled.                         *)
(***************************************************************************)
EXTENDS Framing, ClientSession, PacketTunnel, AndroidSession, ActivityObserve

VARIABLE part

MCSizes == {1, 2, 3}
\* The node and Android, the Linux client, iOS.
MCReaders == {[max |-> 5, single |-> FALSE], [max |-> 3, single |-> FALSE],
              [max |-> 3, single |-> TRUE]}
MCIdle == {7}
MCProbe == {13}
MCTtls == {0, 9}

mcVars == <<framingVars, clientVars, tunnelVars, sessionVars, observeVars, part>>

MCInit ==
    /\ FramingInit /\ ClientInit /\ TunnelInit /\ SessionInit /\ ObserveInit
    /\ part \in {"framing", "client", "tunnel", "session", "observe"}
    /\ part # "observe" => collecting
    /\ part # "session" => network = CHOOSE n \in Network : TRUE
    /\ part # "framing" => reader = CHOOSE r \in Readers : TRUE

MCNext ==
    /\ UNCHANGED part
    /\ \/ /\ part = "framing" /\ FramingNext
          /\ UNCHANGED <<clientVars, tunnelVars, sessionVars, observeVars>>
       \/ /\ part = "client" /\ ClientNext
          /\ UNCHANGED <<framingVars, tunnelVars, sessionVars, observeVars>>
       \/ /\ part = "tunnel" /\ TunnelNext
          /\ UNCHANGED <<framingVars, clientVars, sessionVars, observeVars>>
       \/ /\ part = "session" /\ SessionNext
          /\ UNCHANGED <<framingVars, clientVars, tunnelVars, observeVars>>
       \/ /\ part = "observe" /\ ObserveNext
          /\ UNCHANGED <<framingVars, clientVars, tunnelVars, sessionVars>>

\* The fairness of the modules, each for its part.
Alone(p, action) == part = p /\ action

MCSpec ==
    /\ MCInit /\ [][MCNext]_mcVars
    /\ WF_framingVars(Alone("framing", Carry))
    /\ WF_clientVars(Alone("client", Attempts)) /\ WF_clientVars(Alone("client", Cleans))
    /\ WF_clientVars(Alone("client", Probe)) /\ WF_clientVars(Alone("client", Drains))
    /\ WF_clientVars(Alone("client", NodeReads)) /\ WF_clientVars(Alone("client", ClientHears))
    /\ WF_clientVars(Alone("client", GivesUp)) /\ WF_clientVars(Alone("client", NodeEnds /\ hung))
    /\ WF_clientVars(Alone("client", Tick))
    /\ WF_tunnelVars(Alone("tunnel", TimedOut /\ ~configured))
    /\ WF_tunnelVars(Alone("tunnel", Retry))
    /\ WF_sessionVars(Alone("session", Count \/ Call))
    /\ \A s \in Session : WF_sessionVars(Alone("session", ThreadStep(s)))
=============================================================================
