------------------------- MODULE ManagedNodeProofs -------------------------
(***************************************************************************)
(* Proofs about ManagedNode, for every set of users and tables and every   *)
(* length of the lease, the timeouts and the pauses that satisfies         *)
(* ManagedAssumption.                                                      *)
(***************************************************************************)
EXTENDS ManagedNode, TLAPS

(* The lease is over only after two config requests have failed: the sum   *)
(* of the timers since the last success is too short otherwise.            *)
LEMMA MissBudget ==
    ASSUME TypeOK, SyncClock
    PROVE  OneMissTolerated
<1> USE ManagedAssumption DEF TypeOK, Age, Sync
<1>1. CASE misses = 0
    BY <1>1 DEF SyncClock, OneMissTolerated
<1>2. CASE misses = 1
    BY <1>2 DEF SyncClock, OneMissTolerated
<1>3. CASE misses = 2
    BY <1>3 DEF OneMissTolerated
<1>4. QED
    BY <1>1, <1>2, <1>3

(* Ageing keeps ages within the horizon and in order.                      *)
LEMMA OlderFacts ==
    ASSUME NEW a \in Age
    PROVE  /\ Older(a) \in Age
           /\ Older(a) <= a + 1
           /\ a <= Older(a)
           /\ \A b \in Age : a <= b => Older(a) <= Older(b)
           /\ \A b \in Age : a <= b + Timeout => Older(a) <= Older(b) + Timeout
<1>1. Horizon \in Nat /\ Timeout \in Nat /\ a \in Nat /\ a <= Horizon
    BY ManagedAssumption DEF Age
<1>2. Older(a) \in Age /\ Older(a) <= a + 1 /\ a <= Older(a)
    BY <1>1 DEF Older, Age
<1>3. ASSUME NEW b \in Age, a <= b
      PROVE  Older(a) <= Older(b)
    BY <1>1, <1>3 DEF Older, Age
<1>4. ASSUME NEW b \in Age, a <= b + Timeout
      PROVE  Older(a) <= Older(b) + Timeout
    BY <1>1, <1>4 DEF Older, Age
<1>5. QED
    BY <1>2, <1>3, <1>4

\* The invariant holds initially.
LEMMA NodeInit == Init => NodeInv
BY ManagedAssumption
   DEF Init, NodeInv, TypeOK, SyncClock, LeaseClock, SnapshotClock, NodeFollows, Age, Sync, Empty

\* Type correctness of one step.
LEMMA NodeTypeStep ==
    ASSUME NodeInv, [Next]_nodeVars
    PROVE  TypeOK'
<1> USE ManagedAssumption DEF NodeInv, TypeOK, Age, Sync
<1>1. Empty \in Tables /\ Empty \in [User -> Record \cup {None}]
    BY DEF Empty
<1>2. ASSUME NEW t \in Tables PROVE t \in [User -> Record \cup {None}]
    OBVIOUS
<1>3. ASSUME NEW t \in Tables, Replace(t) PROVE users' \in Tables /\ sess' \in [User -> Record \cup {None}]
    BY <1>3 DEF Replace
<1>4. CASE \E t \in Tables : ChangePanel(t)
    BY <1>4 DEF ChangePanel, request
<1>5. CASE PanelReads
    BY <1>5 DEF PanelReads, history
<1>6. CASE Apply
    BY <1>6, <1>3 DEF Apply, Await, SyncClock
<1>7. CASE ConfigFails
    BY <1>7 DEF ConfigFails, Await
<1>8. CASE StatusAccepted \/ StatusFails \/ ReportEnds \/ Poll
    BY <1>8 DEF StatusAccepted, StatusFails, ReportEnds, Poll, Await, history
<1>9. CASE Expire
    BY <1>9, <1>3, <1>1 DEF Expire, request, history
<1>10. CASE Start
    BY <1>10 DEF Start, Await, history
<1>11. CASE Stop
    BY <1>11, <1>3, <1>1 DEF Stop, Await
<1>12. CASE \E u \in User : Connect(u)
    BY <1>12, <1>2 DEF Connect, Open, request, history
<1>13. CASE \E u \in User : Disconnect({u})
    BY <1>13 DEF Disconnect, Drop, request, history
<1>14. CASE Tick
    <2>1. Older(fresh) \in Age /\ Older(snapshot) \in Age
        BY OlderFacts
    <2>2. [u \in User |-> Older(changed[u])] \in [User -> Age]
        BY OlderFacts
    <2>3. timer' \in Nat /\ watch' \in 0..Watch /\ replyAge' \in Nat
        BY <1>14 DEF Tick
    <2>4. QED
        BY <1>14, <2>1, <2>2, <2>3 DEF Tick
<1>15. CASE UNCHANGED nodeVars
    BY <1>15 DEF nodeVars, request, history
<1>16. QED
    BY <1>4, <1>5, <1>6, <1>7, <1>8, <1>9, <1>10, <1>11, <1>12, <1>13, <1>14, <1>15 DEF Next

\* The clocks of the sync, the watchdog and the snapshot over one step.
LEMMA ClockStep ==
    ASSUME NodeInv, [Next]_nodeVars
    PROVE  SyncClock' /\ LeaseClock' /\ SnapshotClock'
<1> USE ManagedAssumption DEF NodeInv, TypeOK, Age, Sync, SyncClock, LeaseClock, SnapshotClock
<1>1. CASE \E t \in Tables : ChangePanel(t)
    BY <1>1 DEF ChangePanel, request
<1>2. CASE PanelReads
    BY <1>2 DEF PanelReads, history
<1>3. CASE Apply
    BY <1>3 DEF Apply, Replace, Await
<1>4. CASE ConfigFails
    BY <1>4 DEF ConfigFails, Await
<1>5. CASE StatusAccepted
    BY <1>5 DEF StatusAccepted, Await, history
<1>6. CASE StatusFails
    BY <1>6 DEF StatusFails, Await, history
<1>7. CASE ReportEnds
    BY <1>7 DEF ReportEnds, Await, history
<1>8. CASE Poll
    BY <1>8 DEF Poll, Await, history
<1>9. CASE Expire
    BY <1>9 DEF Expire, Replace, request, history
<1>10. CASE Start
    BY <1>10 DEF Start, Await, history
<1>11. CASE Stop
    BY <1>11 DEF Stop, Replace, Await
<1>12. CASE \E u \in User : Connect(u)
    BY <1>12 DEF Connect, Open, request, history
<1>13. CASE \E u \in User : Disconnect({u})
    BY <1>13 DEF Disconnect, Drop, request, history
<1>14. CASE Tick
    <2>1. fresh' \in Age /\ fresh' <= fresh + 1 /\ fresh <= fresh'
        BY <1>14, OlderFacts DEF Tick
    <2>2. snapshot <= fresh + Timeout => snapshot' <= fresh' + Timeout
        BY <1>14, OlderFacts DEF Tick
    <2>3. SyncClock'
        BY <1>14, <2>1 DEF Tick
    <2>4. LeaseClock'
        BY <1>14, <2>1 DEF Tick
    <2>5. SnapshotClock'
        BY <1>14, <2>2 DEF Tick
    <2>6. QED
        BY <2>3, <2>4, <2>5
<1>15. CASE UNCHANGED nodeVars
    BY <1>15 DEF nodeVars, request, history
<1>16. QED
    BY <1>1, <1>2, <1>3, <1>4, <1>5, <1>6, <1>7, <1>8, <1>9, <1>10, <1>11, <1>12, <1>13,
       <1>14, <1>15 DEF Next

\* The node's table and the panel's over one step.
LEMMA FollowsStep ==
    ASSUME NodeInv, [Next]_nodeVars
    PROVE  NodeFollows'
<1> USE DEF NodeInv, NodeFollows
<1>0. TypeOK /\ Empty \in Tables /\ \A t \in Tables : t \in [User -> Record \cup {None}]
    BY ManagedAssumption
<1>1. CASE \E t \in Tables : ChangePanel(t)
    BY <1>1, <1>0 DEF ChangePanel, request, TypeOK, Age
<1>2. CASE PanelReads
    BY <1>2 DEF PanelReads, history
<1>3. CASE Apply
    <2>1. users' = reply /\ snapshot' = replyAge /\ sync' = "posting"
        BY <1>3 DEF Apply, Replace, Await
    <2>2. \A u \in User : sess'[u] \in {None, users'[u]}
        BY <1>3 DEF Apply, Replace
    <2>3. \A u \in User : users'[u] # panel'[u] => changed'[u] <= snapshot'
        BY <1>3, <2>1 DEF Apply
    <2>4. QED
        BY <2>1, <2>2, <2>3
<1>4. CASE ConfigFails
    BY <1>4, <1>0 DEF ConfigFails, Await, TypeOK
<1>5. CASE StatusAccepted \/ StatusFails \/ ReportEnds \/ Poll
    BY <1>5 DEF StatusAccepted, StatusFails, ReportEnds, Poll, Await, history
<1>6. CASE Expire
    <2>1. CASE fresh >= Lease
        <3>1. misses' = 2 /\ users' = Empty
            BY <1>6, <2>1, <1>0, MissBudget
               DEF Expire, Replace, history, OneMissTolerated, TypeOK
        <3>2. \A u \in User : sess'[u] \in {None, users'[u]}
            BY <1>6, <2>1 DEF Expire, Replace
        <3>3. QED
            BY <1>6, <3>1, <3>2 DEF Expire, request, history
    <2>2. CASE ~(fresh >= Lease)
        BY <1>6, <2>2 DEF Expire, request, history
    <2>3. QED
        BY <2>1, <2>2
<1>7. CASE Start
    BY <1>7 DEF Start, Await, history
<1>8. CASE Stop
    <2>1. misses' = 2 /\ users' = Empty /\ sync' = "down"
        BY <1>8 DEF Stop, Replace, Await
    <2>2. \A u \in User : sess'[u] \in {None, users'[u]}
        BY <1>8 DEF Stop, Replace
    <2>3. QED
        BY <2>1, <2>2
<1>9. CASE \E u \in User : Connect(u)
    BY <1>9, <1>0 DEF Connect, Open, request, history, TypeOK
<1>10. CASE \E u \in User : Disconnect({u})
    BY <1>10, <1>0 DEF Disconnect, Drop, request, history, TypeOK
<1>11. CASE Tick
    <2>1. UNCHANGED <<panel, users, sess, sync, reply, misses>>
        BY <1>11 DEF Tick
    <2>2. \A u \in User : changed[u] <= snapshot => changed'[u] <= snapshot'
        BY <1>11, <1>0, OlderFacts DEF Tick, TypeOK
    <2>3. \A u \in User : sync = "answered" /\ changed[u] <= replyAge => changed'[u] <= replyAge'
        <3> SUFFICES ASSUME NEW u \in User, sync = "answered", changed[u] <= replyAge
                     PROVE  changed'[u] <= replyAge'
            OBVIOUS
        <3>1. changed[u] \in Age /\ replyAge \in Nat
            BY <1>0 DEF TypeOK
        <3>2. Older(changed[u]) <= changed[u] + 1 /\ Older(changed[u]) \in Age
            BY <3>1, OlderFacts
        <3>3. QED
            BY <1>11, <3>1, <3>2, ManagedAssumption DEF Tick, Age
    <2>4. QED
        BY <2>1, <2>2, <2>3
<1>12. CASE UNCHANGED nodeVars
    BY <1>12 DEF nodeVars, request, history
<1>13. QED
    BY <1>1, <1>2, <1>3, <1>4, <1>5, <1>6, <1>7, <1>8, <1>9, <1>10, <1>11, <1>12 DEF Next

(* Every reachable state satisfies the inductive invariant: types, the     *)
(* clocks of the controller and the watchdog, and how the node's table     *)
(* follows the panel's.                                                    *)
THEOREM NodeInvariance == Spec => []NodeInv
<1>1. NodeInv /\ [Next]_nodeVars => NodeInv'
    BY NodeTypeStep, ClockStep, FollowsStep DEF NodeInv
<1>2. QED
    BY NodeInit, <1>1, PTL DEF Spec

(* Panel, replies on their way, the node's table and its sessions hold     *)
(* valid records only, and every timer stays within what the code sets.    *)
THEOREM NodeTypes == Spec => []TypeOK
<1>1. NodeInv => TypeOK
    BY DEF NodeInv
<1>2. QED
    BY NodeInvariance, <1>1, PTL

(* A revoked user's session ends within a lease, a turn of the watchdog    *)
(* and a request, whatever the panel and the network do.                   *)
THEOREM RevocationBound == Spec => []RevokedEnds
<1>1. NodeInv => RevokedEnds
    <2> SUFFICES ASSUME NodeInv, NEW u \in User, sess[u] \notin {None, panel[u]}
                 PROVE  changed[u] < Lease + Watch + Timeout
        BY DEF RevokedEnds
    <2>1. users[u] # panel[u] /\ users # Empty
        BY DEF NodeInv, NodeFollows, Empty
    <2>2. changed[u] <= snapshot
        BY <2>1 DEF NodeInv, NodeFollows
    <2>3. snapshot <= fresh + Timeout /\ fresh + watch < Lease + Watch
        BY <2>1 DEF NodeInv, SnapshotClock, LeaseClock
    <2>4. changed[u] \in Nat /\ snapshot \in Nat /\ fresh \in Nat /\ watch \in Nat
        BY ManagedAssumption DEF NodeInv, TypeOK, Age
    <2>5. QED
        BY <2>2, <2>3, <2>4, ManagedAssumption
<1>2. QED
    BY NodeInvariance, <1>1, PTL

(* The table in force was the panel's at most a lease, a turn of the       *)
(* watchdog and a request ago.                                             *)
THEOREM RulesAgeBound == Spec => []RulesAge
<1>1. NodeInv => RulesAge
    BY ManagedAssumption DEF NodeInv, TypeOK, Age, LeaseClock, SnapshotClock, RulesAge
<1>2. QED
    BY NodeInvariance, <1>1, PTL

(* The watchdog finds the lease over only after two failed config requests. *)
THEOREM OneMiss == Spec => []OneMissTolerated
<1>1. NodeInv => OneMissTolerated
    BY MissBudget DEF NodeInv
<1>2. QED
    BY NodeInvariance, <1>1, PTL

(* A change at the panel is in force after at most two syncs.              *)
THEOREM ChangePropagation == Spec => []ChangesArrive
<1>1. NodeInv => ChangesArrive
    <2> SUFFICES ASSUME NodeInv, NEW u \in User, misses < 2, users[u] # panel[u]
                 PROVE  changed[u] <= 4 * Timeout + PollGap + misses * (Timeout + PollGap)
        BY DEF ChangesArrive
    <2>1. changed[u] <= snapshot /\ snapshot <= fresh + Timeout
        BY DEF NodeInv, NodeFollows, SnapshotClock
    <2>2. changed[u] \in Nat /\ snapshot \in Nat /\ fresh \in Nat /\ timer \in Nat
        BY ManagedAssumption DEF NodeInv, TypeOK, Age
    <2>3. CASE misses = 0
        <3>1. fresh <= 3 * Timeout + PollGap
            BY <2>2, <2>3, ManagedAssumption DEF NodeInv, TypeOK, Sync, SyncClock
        <3>2. QED
            BY <2>1, <2>2, <2>3, <3>1, ManagedAssumption
    <2>4. CASE misses = 1
        <3>1. fresh <= 4 * Timeout + 2 * PollGap
            BY <2>2, <2>4, ManagedAssumption DEF NodeInv, TypeOK, Sync, SyncClock
        <3>2. QED
            BY <2>1, <2>2, <2>4, <3>1, ManagedAssumption
    <2>5. QED
        BY <2>3, <2>4 DEF NodeInv, TypeOK
<1>2. QED
    BY NodeInvariance, <1>1, PTL
=============================================================================
