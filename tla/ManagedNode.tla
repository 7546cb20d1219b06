---------------------------- MODULE ManagedNode ----------------------------
(***************************************************************************)
(* A managed node and its panel: class Controller of sever/managed.py      *)
(* polls /agent/config of control/app.py, gives the table of users it gets *)
(* to the gateway, and lets a watchdog empty that table when the panel has *)
(* not been heard of for a lease of 60 s.                                  *)
(*                                                                         *)
(* The gateway is its specification Access: the table in force `users` and *)
(* the sessions `sess` that rest on it.  Time is counted in units of any   *)
(* length.  Instead of clock readings the state holds ages (time since)    *)
(* and timers (time left): Tick lets one unit pass and never passes the    *)
(* end of a timer.  An age stops counting at Horizon, which no property    *)
(* tells apart from anything older; Python's last_success = None is such   *)
(* an age.                                                                 *)
(*                                                                         *)
(* One sync is config request, status report and, when the collector has   *)
(* something, activity report, one after the other, each with a timeout of *)
(* its own, then a pause.  The panel is external to the node: it may be    *)
(* down, slow or reject, and its answer is under way for a while.  What    *)
(* the activity report carries is the subject of ActivityReport.           *)
(***************************************************************************)
EXTENDS Integers, Access

CONSTANTS
    Record,     \* what a table has for a user
    Lease,      \* 60 s: the lease expire() allows
    Timeout,    \* 10 s: ClientTimeout(total=10) of each request
    PollGap,    \* 5 s: the pause between two syncs
    Watch,      \* 1 s: the pause of the watchdog
    Horizon     \* bound: ages are counted up to it

Empty == [u \in User |-> None]

\* The values of the code are 60, 10, 5 and 1: a lease outlives a sync and the next one
\* that fails, all requests as slow as they may be.
ASSUME ManagedAssumption ==
    /\ {Lease, Timeout, PollGap, Watch, Horizon} \subseteq Nat \ {0}
    /\ 4 * Timeout + 2 * PollGap < Lease
    /\ Lease + Watch + Timeout < Horizon
    /\ Tables \subseteq [User -> Record \cup {None}]
    /\ Empty \in Tables

VARIABLES
    panel,      \* the panel's active_users() for this node
    sync,       \* the request or the pause the controller awaits
    timer,      \* time left of that await
    reply,      \* the table on its way from the panel (sync = "answered")
    replyAge,   \* time since the panel read it
    fresh,      \* time since last_success
    watch,      \* time left of the watchdog's sleep
    snapshot,   \* history: time since the panel read the table in force
    changed,    \* history: time since the panel's record of each user changed
    misses      \* history: config requests failed in a row, 2 also before the first success

request == <<sync, timer, reply, replyAge>>
history == <<snapshot, changed, misses>>
nodeVars == <<panel, users, sess, request, fresh, watch, history>>

Sync == {"down", "getting", "answered", "posting", "reporting", "sleeping"}
Age == 0..Horizon

TypeOK ==
    /\ {panel, users, reply} \subseteq Tables
    /\ sess \in [User -> Record \cup {None}]
    /\ sync \in Sync
    /\ timer \in Nat
    /\ replyAge \in Nat
    /\ fresh \in Age
    /\ watch \in 0..Watch
    /\ snapshot \in Age
    /\ changed \in [User -> Age]
    /\ misses \in 0..2

Init ==
    /\ panel \in Tables
    /\ users = Empty
    /\ sess = Empty
    /\ sync = "down"
    /\ timer = 0
    /\ reply = Empty
    /\ replyAge = 0
    /\ fresh = Horizon
    /\ watch = 0
    /\ snapshot = Horizon
    /\ changed = [u \in User |-> 0]
    /\ misses = 2

-----------------------------------------------------------------------------
(* The panel                                                               *)

Older(age) == IF age < Horizon THEN age + 1 ELSE Horizon

\* An administrator, or the expiry of a client, changes what active_users() returns.
ChangePanel(t) ==
    /\ panel' = t
    /\ changed' = [u \in User |-> IF t[u] # panel[u] THEN 0 ELSE changed[u]]
    /\ UNCHANGED <<users, sess, request, fresh, watch, snapshot, misses>>

\* agent_config(): active_users() is read, the answer starts its way back.
PanelReads ==
    /\ sync = "getting"
    /\ sync' = "answered"
    /\ reply' = panel
    /\ replyAge' = 0
    /\ UNCHANGED <<panel, users, sess, timer, fresh, watch, history>>

-----------------------------------------------------------------------------
(* The controller: sync_once() and the loop of run()                       *)

\* The controller starts to await what `next` names, for at most `limit`.
Await(next, limit) == sync' = next /\ timer' = limit

\* Mutant of Apply: the new table does not close the sessions it changes.
ApplyKeepsSessions ==
    /\ sync = "answered"
    /\ users' = reply
    /\ fresh' = 0
    /\ snapshot' = replyAge
    /\ misses' = 0
    /\ Await("posting", Timeout)
    /\ UNCHANGED <<panel, sess, reply, replyAge, watch, changed>>

\* Mutant of Apply: last_success is left to the end of a sync that never gets there.
ApplyUnstamped ==
    /\ sync = "answered"
    /\ Replace(reply)
    /\ snapshot' = replyAge
    /\ misses' = 0
    /\ Await("posting", Timeout)
    /\ UNCHANGED <<panel, reply, replyAge, fresh, watch, changed>>

\* A valid answer: the gateway gets the table, the lease starts, the status is posted.
Apply ==
    /\ sync = "answered"
    /\ Replace(reply)
    /\ fresh' = 0
    /\ snapshot' = replyAge
    /\ misses' = 0
    /\ Await("posting", Timeout)
    /\ UNCHANGED <<panel, reply, replyAge, watch, changed>>

\* The config request fails: refused, rejected, invalid or out of time.  Nothing is applied.
ConfigFails ==
    /\ sync \in {"getting", "answered"}
    /\ misses' = IF misses < 2 THEN misses + 1 ELSE 2
    /\ Await("sleeping", PollGap)
    /\ UNCHANGED <<panel, users, sess, reply, replyAge, fresh, watch, snapshot, changed>>

\* The status is accepted: the collected activity, if any, is posted.
StatusAccepted ==
    /\ sync = "posting"
    /\ Await("reporting", Timeout) \/ Await("sleeping", PollGap)
    /\ UNCHANGED <<panel, users, sess, reply, replyAge, fresh, watch, history>>

\* The status report fails: the exception skips the activity report.
StatusFails ==
    /\ sync = "posting"
    /\ Await("sleeping", PollGap)
    /\ UNCHANGED <<panel, users, sess, reply, replyAge, fresh, watch, history>>

\* Mutant of ReportEnds: a rejected batch is posted again at once.
ReportEndsOrRetries ==
    /\ sync = "reporting"
    /\ Await("sleeping", PollGap) \/ Await("reporting", Timeout)
    /\ UNCHANGED <<panel, users, sess, reply, replyAge, fresh, watch, history>>

\* The activity report is accepted or fails; its exceptions stay inside sync_once().
ReportEnds ==
    /\ sync = "reporting"
    /\ Await("sleeping", PollGap)
    /\ UNCHANGED <<panel, users, sess, reply, replyAge, fresh, watch, history>>

\* The pause is over: the next sync_once() sends its config request.
Poll ==
    /\ sync = "sleeping"
    /\ timer = 0
    /\ Await("getting", Timeout)
    /\ UNCHANGED <<panel, users, sess, reply, replyAge, fresh, watch, history>>

-----------------------------------------------------------------------------
(* The watchdog, the process and time                                      *)

\* Mutant of Expire: the lease is only checked until the first success.
ExpireBeforeFirst ==
    /\ sync # "down"
    /\ watch = 0
    /\ watch' = Watch
    /\ IF fresh = Horizon
       THEN Replace(Empty)
       ELSE UNCHANGED <<users, sess>>
    /\ UNCHANGED <<panel, request, fresh, history>>

\* expire(), then the watchdog sleeps again.
Expire ==
    /\ sync # "down"
    /\ watch = 0
    /\ watch' = Watch
    /\ IF fresh >= Lease
       THEN Replace(Empty)
       ELSE UNCHANGED <<users, sess>>
    /\ UNCHANGED <<panel, request, fresh, history>>

\* The process starts with no users; the watchdog's first expire() is due at once.
Start ==
    /\ sync = "down"
    /\ Await("getting", Timeout)
    /\ watch' = 0
    /\ UNCHANGED <<panel, users, sess, reply, replyAge, fresh, history>>

\* The process stops, through the `finally` of run() and main() or by a crash.
Stop ==
    /\ sync # "down"
    /\ Replace(Empty)
    /\ Await("down", 0)
    /\ fresh' = Horizon
    /\ misses' = 2
    /\ UNCHANGED <<panel, reply, replyAge, watch, snapshot, changed>>

\* The gateway meanwhile: a user with a record connects, sessions end.
Connect(u) ==
    /\ sync # "down"
    /\ Open(u)
    /\ UNCHANGED <<panel, request, fresh, watch, history>>

Disconnect(S) ==
    /\ Drop(S)
    /\ UNCHANGED <<panel, request, fresh, watch, history>>

\* One unit of time; a timer that has run out is served first.
Tick ==
    /\ sync # "down" => timer > 0 /\ watch > 0
    /\ timer' = IF sync = "down" THEN timer ELSE timer - 1
    /\ watch' = IF sync = "down" THEN watch ELSE watch - 1
    /\ replyAge' = IF sync = "answered" THEN replyAge + 1 ELSE replyAge
    /\ fresh' = Older(fresh)
    /\ snapshot' = Older(snapshot)
    /\ changed' = [u \in User |-> Older(changed[u])]
    /\ UNCHANGED <<panel, users, sess, sync, reply, misses>>

-----------------------------------------------------------------------------

Next ==
    \/ \E t \in Tables : ChangePanel(t)
    \/ PanelReads \/ Apply \/ ConfigFails
    \/ StatusAccepted \/ StatusFails \/ ReportEnds \/ Poll
    \/ Expire \/ Start \/ Stop
    \/ \E u \in User : Connect(u)
    \/ \E u \in User : Disconnect({u})
    \/ Tick

Spec == Init /\ [][Next]_nodeVars

-----------------------------------------------------------------------------
(* Properties                                                              *)

(* Nobody keeps a session for long on rights the panel has taken back,     *)
(* whatever becomes of the panel or of the requests: the sync or else the  *)
(* watchdog ends it within a lease, a turn of the watchdog and the time an *)
(* answer may have been under way (sync_once, expire, replace_users).      *)
RevokedEnds ==
    \A u \in User :
        sess[u] \notin {None, panel[u]} => changed[u] < Lease + Watch + Timeout

(* The same for the table as a whole, also when the panel has changed its  *)
(* mind several times since: rules older than that admit nobody.           *)
RulesAge == users # Empty => snapshot < Lease + Watch + Timeout

(* One missed config request never cuts anybody off: with the timeouts and *)
(* pauses of the code the lease outlives a failed sync however slow every  *)
(* request of it is, so expire() finds it over only after two misses.      *)
OneMissTolerated == fresh >= Lease => misses >= 2

(* While at most one config request has failed since the last success, a   *)
(* change at the panel, a grant as well as a revocation, is in force after *)
(* at most two syncs, although status and activity reports delay the next  *)
(* config request.                                                         *)
ChangesArrive ==
    \A u \in User :
        misses < 2 /\ users[u] # panel[u] =>
            changed[u] <= 4 * Timeout + PollGap + misses * (Timeout + PollGap)

-----------------------------------------------------------------------------
(* The inductive strengthening                                             *)

(* What is left of the controller's await, and how long ago the config was *)
(* applied, by the step it has reached since.                              *)
SyncClock ==
    /\ sync \in {"getting", "answered", "posting", "reporting"} => timer <= Timeout
    /\ sync = "sleeping" => timer <= PollGap
    /\ sync = "answered" => replyAge + timer <= Timeout
    /\ sync \in {"posting", "reporting"} => misses = 0
    /\ sync = "down" => users = Empty /\ misses = 2
    /\ misses = 0 =>
         /\ sync = "posting" => fresh + timer <= Timeout
         /\ sync = "reporting" => fresh + timer <= 2 * Timeout
         /\ sync = "sleeping" => fresh + timer <= 2 * Timeout + PollGap
         /\ sync \in {"getting", "answered"} => fresh + timer <= 3 * Timeout + PollGap
    /\ misses = 1 =>
         /\ sync = "sleeping" => fresh + timer <= 3 * Timeout + 2 * PollGap
         /\ sync \in {"getting", "answered"} => fresh + timer <= 4 * Timeout + 2 * PollGap

\* The watchdog: a table in force is within its lease until the next turn.
LeaseClock == users # Empty => fresh + watch < Lease + Watch

\* The rules were read at most a request before they were applied.
SnapshotClock == users # Empty \/ misses < 2 => snapshot <= fresh + Timeout

\* Where the node and the panel differ, the panel changed after it was read.
NodeFollows ==
    /\ \A u \in User : sess[u] \in {None, users[u]}
    /\ \A u \in User :
          users[u] # panel[u] /\ (users # Empty \/ misses < 2) => changed[u] <= snapshot
    /\ \A u \in User :
          sync = "answered" /\ reply[u] # panel[u] => changed[u] <= replyAge

NodeInv == TypeOK /\ SyncClock /\ LeaseClock /\ SnapshotClock /\ NodeFollows
=============================================================================
