---------------------------- MODULE MCPanelStaff ----------------------------
(***************************************************************************)
(* Instance for TLC of the panel's staff and of the login throttle.  The   *)
(* two share no state, so each is explored alone: `part` says which runs.  *)
(***************************************************************************)
EXTENDS PanelStaff, LoginThrottle

VARIABLE part

MCRole == {"owner", "admin"}

mcVars == <<vars, throttleVars, part>>

MCInit == Init /\ ThrottleInit /\ part \in {"staff", "throttle"}

MCNext ==
    /\ UNCHANGED part
    /\ \/ part = "staff" /\ Next /\ UNCHANGED throttleVars
       \/ part = "throttle" /\ ThrottleNext /\ UNCHANGED vars

MCSpec == MCInit /\ [][MCNext]_mcVars /\ Fairness
=============================================================================
