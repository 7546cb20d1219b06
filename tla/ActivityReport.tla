--------------------------- MODULE ActivityReport ---------------------------
(***************************************************************************)
(* The way of an activity record from a node to the panel: the collector   *)
(* of sever/activity.py aggregates what it observes by key (user, domain,  *)
(* address), the controller of sever/managed.py drains a batch and posts   *)
(* it at the end of a sync, Store.save_activity of control/store.py adds   *)
(* it up, and a batch whose report failed is restored.                     *)
(*                                                                         *)
(* The four counters of a row are one number, which stands for the one     *)
(* that is nearest to the panel's cap, and time is counted for each key by *)
(* its own observations, so first and last are the ordinals of two of them.*)
(* The network may lose the request or the answer; a request the node has  *)
(* given up may still reach the panel.  Retention at the panel is left     *)
(* out: it deletes what is older than 1 to 365 days.                       *)
(***************************************************************************)
EXTENDS Integers, SequencesExt

CONSTANTS
    Key,           \* (user, domain, address)
    IpOnly,        \* keys without a domain
    Poison,        \* keys parse_dns lets through and save_activity rejects
    Unassigned,    \* keys of users the panel no longer assigns to the node
    MaxCount,      \* the panel's cap of a counter: 1000000, 2^50 for bytes
    MaxPending,    \* 4096 in the code
    BatchLimit,    \* 500 in the code
    MaxObserved,   \* bound: observations altogether
    MaxFailures,   \* bound: lost messages and restarts
    None

ASSUME ActivityAssumption ==
    /\ IpOnly \cup Poison \cup Unassigned \subseteq Key
    /\ {MaxPending, BatchLimit, MaxObserved} \subseteq Nat \ {0}
    /\ {MaxCount, MaxFailures} \subseteq Nat
    /\ None \notin {"ok", "rejected"}

VARIABLES
    enabled, logIps,   \* the collector's switches
    pending,           \* its rows [key, n, first, last] in the order of the OrderedDict
    step,              \* where sync_once() stands
    config,            \* the switches [on, ips] on their way in the config answer
    batch,             \* the rows drained and not yet settled
    wire,              \* report requests [rows, live] the panel has not handled
    answer,            \* the panel's answer, "ok" or "rejected", not yet received
    panelOn, panelIps, \* the panel's switches
    saved,             \* site_activity at the panel: amount and first_seen
    observed,          \* history: observations the collector took, by key
    lost,              \* history: keys some of whose rows were given up on purpose
    repeated,          \* history: a batch was restored that the panel has or will have
    failures           \* history: losses and restarts so far

node == <<enabled, logIps, pending, batch>>
panelSwitches == <<panelOn, panelIps>>
link == <<wire, answer>>
vars == <<node, step, config, link, panelSwitches, saved, observed, lost, repeated, failures>>

(* A process that has just started has no users until its first config is  *)
(* applied, so that it observes nothing, as if it were not enabled.        *)
Init ==
    /\ enabled = FALSE /\ logIps = TRUE
    /\ pending = <<>> /\ batch = <<>>
    /\ step = "idle"
    /\ config = [on |-> TRUE, ips |-> TRUE]
    /\ wire = <<>> /\ answer = None
    /\ panelOn = TRUE /\ panelIps = TRUE
    /\ saved = [k \in Key |-> [n |-> 0, first |-> 0]]
    /\ observed = [k \in Key |-> 0]
    /\ lost = {} /\ repeated = FALSE /\ failures = 0

-----------------------------------------------------------------------------
(* The collector                                                           *)

Keys(rows) == {rows[i].key : i \in DOMAIN rows}
Place(rows, k) == CHOOSE i \in DOMAIN rows : rows[i].key = k
RowOf(rows, k) == rows[Place(rows, k)]
Amount(rows, k) == IF k \in Keys(rows) THEN RowOf(rows, k).n ELSE 0

\* _add() takes the row, given the switches.
Admits(k) == enabled /\ (k \in IpOnly => logIps)

\* Mutant of Add: a known key replaces its row instead of adding to it.
AddReplaces(acc, r) ==
    [acc EXCEPT !.rows = Append(RemoveAt(@, Place(@, r.key)), r)]

(* _add(): a known key is added to and moves to the end, a new one evicts  *)
(* the oldest row when the collector is full.  `gone` collects the evicted.*)
Add(acc, r) ==
    LET known == r.key \in Keys(acc.rows)
        full  == Len(acc.rows) >= MaxPending
        old   == RowOf(acc.rows, r.key)
        sum   == [old EXCEPT !.n = @ + r.n, !.last = IF @ < r.last THEN r.last ELSE @]
    IN  IF known
        THEN [acc EXCEPT !.rows = Append(RemoveAt(@, Place(@, r.key)), sum)]
        ELSE [rows |-> Append(IF full THEN Tail(acc.rows) ELSE acc.rows, r),
              gone |-> acc.gone \cup IF full THEN {Head(acc.rows).key} ELSE {}]

\* Mutant of Restored: the rows are appended to the collector as they are.
RestoredAppends(rows) == [rows |-> pending \o rows, gone |-> {}]

(* restore(): every row is added again with the time it was last seen; a   *)
(* row the switches no longer admit is given up.                           *)
AddBack(acc, r) ==
    IF Admits(r.key) THEN Add(acc, [r EXCEPT !.first = r.last])
                     ELSE [acc EXCEPT !.gone = @ \cup {r.key}]
Restored(rows) ==
    LET after[i \in 0..Len(rows)] ==
          IF i = 0 THEN [rows |-> pending, gone |-> {}] ELSE AddBack(after[i - 1], rows[i])
    IN  after[Len(rows)]

\* A packet of a user is observed under its key.
Observe(k) ==
    /\ Admits(k)
    /\ FoldFunction(+, 0, observed) < MaxObserved
    /\ LET t   == observed[k] + 1
           acc == Add([rows |-> pending, gone |-> {}],
                      [key |-> k, n |-> 1, first |-> t, last |-> t]) IN
       /\ observed' = [observed EXCEPT ![k] = t]
       /\ pending' = acc.rows
       /\ lost' = lost \cup acc.gone
    /\ UNCHANGED <<enabled, logIps, batch, step, config, link, panelSwitches, saved,
                   repeated, failures>>

-----------------------------------------------------------------------------
(* sync_once()                                                             *)

Fail == failures < MaxFailures /\ failures' = failures + 1

\* The panel answers /agent/config.
Ask ==
    /\ step = "idle"
    /\ config' = [on |-> panelOn, ips |-> panelIps]
    /\ step' = "configuring"
    /\ UNCHANGED <<node, link, panelSwitches, saved, observed, lost, repeated, failures>>

\* Mutant of Configure: the buffer outlives the switch.
ConfigureKeeps ==
    /\ step = "configuring"
    /\ enabled' = config.on
    /\ logIps' = config.ips
    /\ step' = "status"
    /\ UNCHANGED <<pending, batch, config, link, panelSwitches, saved, observed, lost,
                   repeated, failures>>

\* configure(): the switches are set; a disabled collector is emptied.
Configure ==
    /\ step = "configuring"
    /\ enabled' = config.on
    /\ logIps' = config.ips
    /\ IF config.on
       THEN UNCHANGED <<pending, lost>>
       ELSE pending' = <<>> /\ lost' = lost \cup Keys(pending)
    /\ step' = "status"
    /\ UNCHANGED <<batch, config, link, panelSwitches, saved, observed, repeated, failures>>

\* Mutant of SyncFails: the loop of run() does not survive the exception.
SyncFailsEnds ==
    /\ step \in {"configuring", "status"}
    /\ Fail
    /\ step' = "ended"
    /\ UNCHANGED <<node, config, link, panelSwitches, saved, observed, lost, repeated>>

\* The config request or the status report fails: the sync ends before its report.
SyncFails ==
    /\ step \in {"configuring", "status"}
    /\ Fail
    /\ step' = "idle"
    /\ UNCHANGED <<node, config, link, panelSwitches, saved, observed, lost, repeated>>

\* Mutant of Send: the rows stay in the collector while they are reported.
SendCopies ==
    /\ step = "status"
    /\ pending # <<>>
    /\ batch' = SubSeq(pending, 1, IF Len(pending) < BatchLimit THEN Len(pending) ELSE BatchLimit)
    /\ wire' = Append(wire, [rows |-> batch', live |-> TRUE])
    /\ step' = "reporting"
    /\ UNCHANGED <<enabled, logIps, pending, config, answer, panelSwitches, saved, observed, lost,
                   repeated, failures>>

\* The status is accepted: drain() takes the oldest rows and they are posted, if there are any.
Send ==
    /\ step = "status"
    /\ LET n == IF Len(pending) < BatchLimit THEN Len(pending) ELSE BatchLimit IN
       /\ batch' = SubSeq(pending, 1, n)
       /\ pending' = SubSeq(pending, n + 1, Len(pending))
       /\ IF n = 0
          THEN step' = "idle" /\ UNCHANGED wire
          ELSE step' = "reporting" /\ wire' = Append(wire, [rows |-> batch', live |-> TRUE])
    /\ UNCHANGED <<enabled, logIps, config, answer, panelSwitches, saved, observed, lost,
                   repeated, failures>>

\* 200: the rows are the panel's.
ReportAccepted ==
    /\ step = "reporting"
    /\ answer = "ok"
    /\ batch' = <<>> /\ answer' = None
    /\ step' = "idle"
    /\ UNCHANGED <<enabled, logIps, pending, config, wire, panelSwitches, saved, observed, lost,
                   repeated, failures>>

\* The batch goes back to the collector and the sync is over.
PutBack ==
    /\ LET acc == Restored(batch) IN
       /\ pending' = acc.rows
       /\ lost' = lost \cup acc.gone
    /\ batch' = <<>> /\ answer' = None
    /\ step' = "idle"

\* Mutant of ReportRejected: a rejected batch is not restored.
ReportRejectedDrops ==
    /\ step = "reporting"
    /\ answer = "rejected"
    /\ batch' = <<>> /\ answer' = None
    /\ step' = "idle"
    /\ UNCHANGED <<enabled, logIps, pending, config, wire, panelSwitches, saved, observed, lost,
                   repeated, failures>>

\* Any other status.
ReportRejected ==
    /\ step = "reporting"
    /\ answer = "rejected"
    /\ PutBack
    /\ UNCHANGED <<enabled, logIps, config, wire, panelSwitches, saved, observed, repeated, failures>>

\* No answer in 10 s, or a broken connection: the request is lost, late, or its answer is lost.
ReportLost ==
    /\ step = "reporting"
    /\ answer # "rejected"
    /\ Fail
    /\ PutBack
    /\ \/ /\ wire' = IF wire # <<>> /\ Last(wire).live THEN Front(wire) ELSE wire
          /\ repeated' = (repeated \/ answer = "ok")
       \/ /\ answer = None
          /\ wire' = [i \in DOMAIN wire |-> [wire[i] EXCEPT !.live = FALSE]]
          /\ repeated' = TRUE
    /\ UNCHANGED <<enabled, logIps, config, panelSwitches, saved, observed>>

\* The process ends; memory is lost, and the first sync of the next one starts from nothing.
Restart ==
    /\ Fail
    /\ enabled' = FALSE /\ logIps' = TRUE
    /\ pending' = <<>> /\ batch' = <<>> /\ answer' = None
    /\ step' = "idle"
    /\ lost' = lost \cup Keys(pending) \cup Keys(batch)
    /\ wire' = [i \in DOMAIN wire |-> [wire[i] EXCEPT !.live = FALSE]]
    /\ UNCHANGED <<config, panelSwitches, saved, observed, repeated>>

-----------------------------------------------------------------------------
(* The panel                                                               *)

\* settings_save()
SetPanel(on, ips) ==
    /\ <<on, ips>> # panelSwitches
    /\ panelOn' = on /\ panelIps' = ips
    /\ UNCHANGED <<node, step, config, link, saved, observed, lost, repeated, failures>>

\* The upsert of one row.
Upsert(s, r) ==
    [n |-> s.n + r.n, first |-> IF s.n = 0 \/ r.first < s.first THEN r.first ELSE s.first]

(* Some row makes save_activity() raise: a name it does not take, or a     *)
(* counter above its cap.  The collector has no cap, whether it observes   *)
(* or restores.  A row of a user of another node is skipped before that.   *)
Invalid(rows) ==
    \E i \in DOMAIN rows :
        /\ rows[i].key \notin Unassigned
        /\ rows[i].key \in Poison \/ rows[i].n > MaxCount

(* save_activity(): nothing when the panel's switch is off; otherwise one  *)
(* invalid row rejects the whole batch, rows of users of other nodes are   *)
(* skipped, and the rest is added up.                                      *)
Handle(i) ==
    LET rows    == wire[i].rows
        rejects == panelOn /\ Invalid(rows)
        stored  == IF panelOn /\ ~rejects THEN Keys(rows) \ Unassigned ELSE {}
    IN  /\ saved' = [k \in Key |->
                        IF k \in stored THEN Upsert(saved[k], RowOf(rows, k)) ELSE saved[k]]
        /\ lost' = IF rejects THEN lost ELSE lost \cup (Keys(rows) \ stored)
        /\ answer' = IF ~wire[i].live THEN answer ELSE IF rejects THEN "rejected" ELSE "ok"
        /\ wire' = RemoveAt(wire, i)
        /\ UNCHANGED <<node, step, config, panelSwitches, observed, repeated, failures>>

-----------------------------------------------------------------------------

Next ==
    \/ \E k \in Key : Observe(k)
    \/ Ask \/ Configure \/ SyncFails \/ Send
    \/ ReportAccepted \/ ReportRejected \/ ReportLost \/ Restart
    \/ \E on, ips \in BOOLEAN : SetPanel(on, ips)
    \/ \E i \in DOMAIN wire : Handle(i)

Spec == Init /\ [][Next]_vars

(* The controller keeps syncing, and the panel handles what reaches it.    *)
FairSpec ==
    /\ Spec
    /\ WF_vars(Ask \/ Configure \/ Send \/ ReportAccepted \/ ReportRejected)
    /\ WF_vars(\E i \in DOMAIN wire : Handle(i))

-----------------------------------------------------------------------------
(* Properties                                                              *)

(* The collector keeps one row per key, with the times of that key in      *)
(* order and no more than its limit, also when a batch comes back to it    *)
(* after newer observations.                                               *)
OneRowPerKey ==
    /\ Cardinality(Keys(pending)) = Len(pending)
    /\ Len(pending) <= MaxPending /\ Len(batch) <= BatchLimit
    /\ \A i \in DOMAIN pending : LET r == pending[i] IN
          1 <= r.first /\ r.first <= r.last /\ r.last <= observed[r.key]

(* No observation vanishes between the collector and the panel: what was   *)
(* observed of a key is in the collector, in the batch or at the panel,    *)
(* unless the code gave up a row of it (eviction, switch off, restart).    *)
NothingVanishes ==
    \A k \in Key \ lost :
        observed[k] <= Amount(pending, k) + Amount(batch, k) + saved[k].n

(* Nothing is counted twice, unless a report failed that the panel had     *)
(* handled or was still to handle.                                         *)
OnWire(k) == IF wire = <<>> THEN 0 ELSE Amount(Last(wire).rows, k)
NoDoubleCount ==
    ~repeated => \A k \in Key \ lost : saved[k].n + Amount(pending, k) + OnWire(k) <= observed[k]

(* CONTROL_RELEASE_NOTES.md: the buffers are cleared when collection is    *)
(* switched off, and a report that fails later does not fill them again.   *)
DisabledHoldsNothing == ~enabled => pending = <<>> /\ batch = <<>>

(* What was observed reaches the panel or is given up on purpose, unless a *)
(* row the panel rejects is with it, be it for its name or because it grew *)
(* beyond the cap while reports failed: a report that fails for any other  *)
(* reason only delays the rows, whatever comes in meanwhile.               *)
Reported ==
    \A k \in Key :
        k \in Keys(pending) ~>
            \/ k \notin Keys(pending) \cup Keys(batch)
            \/ Invalid(pending \o batch)

(* What the release notes say without exception.                           *)

(* CONTROL_RELEASE_NOTES.md: the panel shows the domains seen in ordinary  *)
(* DNS; here a domain whose own row is valid, while collection stays on.   *)
DomainsShown ==
    \A k \in Key \ Poison :
        k \in Keys(pending) ~> (saved[k].n > 0 \/ k \in lost \/ ~panelOn)
=============================================================================
