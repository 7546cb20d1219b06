----------------------------- MODULE PanelStaff -----------------------------
(***************************************************************************)
(* The panel's staff: administrators, their sessions and API keys and the  *)
(* two places for password checks (control/app.py, control/store.py), and  *)
(* the `init` and `reset-admin` commands of app.main, which run as a       *)
(* second process on the same database.  Which attempts get as far as a    *)
(* password check is LoginThrottle's matter: here any attempt may.         *)
(*                                                                         *)
(* The panel is one asyncio loop, so what lies between two awaits is one   *)
(* step: a login is admitted, waits for a slot, hashes in a thread, and    *)
(* writes its session; a request with a body is authorised by the          *)
(* middleware and acts when the body has arrived.  sqlite3 opens a         *)
(* transaction at the first write only, so the other process can commit    *)
(* between a handler's SELECT and its write: `between` is a handler that   *)
(* stands there.                                                           *)
(*                                                                         *)
(* A password is a number that no other password has (scrypt is salted).   *)
(* Sessions are named by the browser whose cookie holds the token.         *)
(***************************************************************************)
EXTENDS Naturals, Sequences, FiniteSets

CONSTANTS
    Name, Browser, Key,
    Role,            \* {"owner", "admin", "viewer"} or a part with "owner"
    Slots,           \* simultaneous password checks (2)
    MaxPasswords,    \* bound: passwords ever set
    None

ASSUME StaffAssumption ==
    /\ "owner" \in Role
    /\ Slots \in Nat \ {0} /\ MaxPasswords \in Nat

VARIABLES
    admins,      \* name -> None or [role, pw]
    passwords,   \* passwords set so far
    sessions,    \* browser -> None or [user, pw]: the password it logged in with
    keys,        \* API key -> "none", "enabled" or "revoked"
    phase,       \* browser -> the request it has under way
    slots,       \* free places of login_slots
    line,        \* browsers waiting for a place, first come first
    between,     \* None, or the handler between its SELECT and its write
    raced        \* history: a reset was committed in that gap

staff    == <<admins, passwords, sessions, keys>>
checks   == <<slots, line>>
vars     == <<staff, phase, checks, between, raced>>

Idle == [at |-> "idle"]
BodyOps == {"create", "password", "token"}
Phases ==
    {Idle} \cup [at : {"body"}, op : BodyOps]
           \cup [at : {"waiting", "hashing"}, user : Name, row : 0..MaxPasswords]
Handler == [op : {"login"}, by : Browser, user : Name, pw : 1..MaxPasswords]
             \cup [op : {"delete"}, by : Browser, user : Name]
Account == [role : Role, pw : 1..MaxPasswords]
Session == [user : Name, pw : 1..MaxPasswords]

ASSUME NoneAssumption == None \notin Account \cup Session \cup Handler

Exists(n) == admins[n] # None
Password(n) == IF Exists(n) THEN admins[n].pw ELSE 0
Owners == {n \in Name : Exists(n) /\ admins[n].role = "owner"}

\* The panel's loop can take its next step.
Free == between = None

Init ==
    /\ admins = [n \in Name |-> None] /\ passwords = 0
    /\ sessions = [b \in Browser |-> None]
    /\ keys = [k \in Key |-> "none"]
    /\ phase = [b \in Browser |-> Idle]
    /\ slots = Slots /\ line = << >>
    /\ between = None /\ raced = FALSE

-----------------------------------------------------------------------------
(* Sessions: the middleware and the store.                                 *)

\* The join of sessions and admins: the role is the one in force now.
LoggedIn(b) == sessions[b] # None /\ Exists(sessions[b].user)

\* require_owner after the middleware.
IsOwner(b) == LoggedIn(b) /\ sessions[b].user \in Owners

EndSessionsOf(n) ==
    sessions' = [b \in Browser |->
                   IF sessions[b] # None /\ sessions[b].user = n THEN None ELSE sessions[b]]

\* A fresh password, within the bound.
SetPassword(n, role) ==
    /\ passwords < MaxPasswords
    /\ passwords' = passwords + 1
    /\ admins' = [admins EXCEPT ![n] = [role |-> role, pw |-> passwords + 1]]

-----------------------------------------------------------------------------
(* Login.                                                                  *)

\* The row the password will be compared with is read before the wait for a
\* place (0: no such administrator, a dummy).
LoginAdmitted(b, n) ==
    /\ Free /\ phase[b] = Idle
    /\ IF slots > 0
         THEN /\ slots' = slots - 1 /\ line' = line
              /\ phase' = [phase EXCEPT ![b] = [at |-> "hashing", user |-> n, row |-> Password(n)]]
         ELSE /\ line' = Append(line, b) /\ slots' = slots
              /\ phase' = [phase EXCEPT ![b] = [at |-> "waiting", user |-> n, row |-> Password(n)]]
    /\ UNCHANGED <<staff, between, raced>>

Hashing(request) == [request EXCEPT !.at = "hashing"]

\* Mutant of SlotHandedOn: the place is lost.
SlotLost(b) ==
    slots' = slots /\ line' = line /\ phase' = [phase EXCEPT ![b] = Idle]

\* b leaves the semaphore: the first in line takes its place.
SlotHandedOn(b) ==
    IF line = << >>
      THEN slots' = slots + 1 /\ line' = line /\ phase' = [phase EXCEPT ![b] = Idle]
      ELSE /\ slots' = slots /\ line' = Tail(line)
           /\ phase' = [phase EXCEPT ![b] = Idle, ![Head(line)] = Hashing(@)]

WrongPassword(b) ==
    /\ Free /\ phase[b].at = "hashing"
    /\ SlotHandedOn(b)
    /\ UNCHANGED <<staff, between, raced>>

\* Mutant of StillThere: the second look asks only whether she exists.
StillNamed(n, pw) == Exists(n)

\* The row is compared again, for the password may have changed meanwhile.
StillThere(n, pw) == Exists(n) /\ admins[n].pw = pw

RightPassword(b) ==
    /\ Free /\ phase[b].at = "hashing" /\ phase[b].row # 0
    /\ SlotHandedOn(b)
    /\ between' = IF StillThere(phase[b].user, phase[b].row)
                    THEN [op |-> "login", by |-> b, user |-> phase[b].user, pw |-> phase[b].row]
                    ELSE None
    /\ UNCHANGED <<staff, raced>>

SessionWritten ==
    /\ between # None /\ between.op = "login"
    /\ sessions' = [sessions EXCEPT ![between.by] = [user |-> between.user, pw |-> between.pw]]
    /\ between' = None
    /\ UNCHANGED <<admins, passwords, keys, phase, checks, raced>>

Logout(b) ==
    /\ Free /\ LoggedIn(b)
    /\ sessions' = [sessions EXCEPT ![b] = None]
    /\ UNCHANGED <<admins, passwords, keys, phase, checks, between, raced>>

\* Twelve hours later the row no longer answers.
SessionExpires(b) ==
    /\ sessions[b] # None /\ Free
    /\ sessions' = [sessions EXCEPT ![b] = None]
    /\ UNCHANGED <<admins, passwords, keys, phase, checks, between, raced>>

-----------------------------------------------------------------------------
(* Administrators and keys.  Only a browser can be an owner: the           *)
(* middleware gives an API key the role admin or viewer.                   *)

\* The middleware and require_owner pass; the handler awaits the body.
OwnerAsks(b, op) ==
    /\ Free /\ phase[b] = Idle /\ IsOwner(b)
    /\ phase' = [phase EXCEPT ![b] = [at |-> "body", op |-> op]]
    /\ UNCHANGED <<staff, checks, between, raced>>

Served(b, op) ==
    /\ Free /\ phase[b] = [at |-> "body", op |-> op]
    /\ phase' = [phase EXCEPT ![b] = Idle]
    /\ UNCHANGED <<checks, between, raced>>

\* A malformed body, or a name that is taken or unknown.
BodyRejected(b) == (\E op \in BodyOps : Served(b, op)) /\ UNCHANGED staff

AdminCreate(b, n, role) ==
    /\ Served(b, "create") /\ ~Exists(n)
    /\ SetPassword(n, role)
    /\ UNCHANGED <<sessions, keys>>

AdminPassword(b, n) ==
    /\ Served(b, "password") /\ Exists(n)
    /\ SetPassword(n, admins[n].role)
    /\ EndSessionsOf(n)
    /\ UNCHANGED keys

TokenCreate(b, k) ==
    /\ Served(b, "token") /\ keys[k] = "none"
    /\ keys' = [keys EXCEPT ![k] = "enabled"]
    /\ UNCHANGED <<admins, passwords, sessions>>

TokenRevoke(b, k) ==
    /\ Free /\ IsOwner(b) /\ keys[k] # "none"
    /\ keys' = [keys EXCEPT ![k] = "revoked"]
    /\ UNCHANGED <<admins, passwords, sessions, phase, checks, between, raced>>

\* Mutant of Deletable: neither herself nor the last owner is spared.
AnyDeletable(b, n) == Exists(n)

\* delete_admin's checks; deleting has no body to wait for.
Deletable(b, n) ==
    /\ n # sessions[b].user /\ Exists(n)
    /\ admins[n].role = "owner" => Cardinality(Owners) > 1

\* Mutant of AdminDelete: it waits for a body and acts on the role it had.
AdminDeleteLater(b, n) ==
    /\ Free /\ phase[b] = [at |-> "body", op |-> "token"]
    /\ phase' = [phase EXCEPT ![b] = Idle]
    /\ Exists(n) /\ Cardinality(Owners) > 1
    /\ between' = [op |-> "delete", by |-> b, user |-> n]
    /\ UNCHANGED <<staff, checks, raced>>

AdminDelete(b, n) ==
    /\ Free /\ IsOwner(b) /\ Deletable(b, n)
    /\ between' = [op |-> "delete", by |-> b, user |-> n]
    /\ UNCHANGED <<staff, phase, checks, raced>>

AdminDeleted ==
    /\ between # None /\ between.op = "delete"
    /\ admins' = [admins EXCEPT ![between.user] = None]
    /\ EndSessionsOf(between.user)
    /\ between' = None
    /\ UNCHANGED <<passwords, keys, phase, checks, raced>>

-----------------------------------------------------------------------------
(* The other process.                                                      *)

\* `init` refuses when there is an administrator already.
CliInit(n) ==
    /\ \A m \in Name : ~Exists(m)
    /\ SetPassword(n, "owner")
    /\ sessions' = [b \in Browser |-> None]
    /\ raced' = (raced \/ ~Free)
    /\ UNCHANGED <<keys, phase, checks, between>>

\* `reset-admin`: one owner with a new password, no sessions.
CliReset(n) ==
    /\ passwords < MaxPasswords
    /\ passwords' = passwords + 1
    /\ admins' = [m \in Name |->
                    IF m = n THEN [role |-> "owner", pw |-> passwords + 1] ELSE None]
    /\ sessions' = [b \in Browser |-> None]
    /\ raced' = (raced \/ ~Free)
    /\ UNCHANGED <<keys, phase, checks, between>>

BrowserStep(b) ==
    \/ \E n \in Name : LoginAdmitted(b, n)
    \/ WrongPassword(b) \/ RightPassword(b)
    \/ Logout(b) \/ SessionExpires(b)
    \/ \E op \in BodyOps : OwnerAsks(b, op)
    \/ BodyRejected(b)
    \/ \E n \in Name, role \in Role : AdminCreate(b, n, role)
    \/ \E n \in Name : AdminPassword(b, n) \/ AdminDelete(b, n)
    \/ \E k \in Key : TokenCreate(b, k) \/ TokenRevoke(b, k)

Next ==
    \/ \E b \in Browser : BrowserStep(b)
    \/ SessionWritten \/ AdminDeleted
    \/ \E n \in Name : CliInit(n) \/ CliReset(n)

\* A password check returns and a handler past its SELECT finishes.  Nothing
\* is assumed of browsers, of the administrator at the shell or of bodies.
Fairness ==
    /\ \A b \in Browser : WF_vars(WrongPassword(b) \/ RightPassword(b))
    /\ WF_vars(SessionWritten \/ AdminDeleted)

Spec == Init /\ [][Next]_vars /\ Fairness

-----------------------------------------------------------------------------
TypeOK ==
    /\ admins \in [Name -> {None} \cup Account]
    /\ passwords \in 0..MaxPasswords
    /\ sessions \in [Browser -> {None} \cup Session]
    /\ keys \in [Key -> {"none", "enabled", "revoked"}]
    /\ phase \in [Browser -> Phases]
    /\ slots \in 0..Slots /\ line \in Seq(Browser)
    /\ between \in {None} \cup Handler /\ raced \in BOOLEAN

\* A session belongs to an administrator who exists and whose password is
\* still the one it was opened with: no login that was hashing while the
\* password changed or the account went leaves a session behind.  (login
\* compares the row again before it inserts.)  Only a reset in the gap
\* between that look and the insert escapes it.
SessionsCurrent ==
    ~raced => \A b \in Browser : sessions[b] # None =>
        Exists(sessions[b].user) /\ admins[sessions[b].user].pw = sessions[b].pw

\* Once the panel has an administrator it always has an owner, however many
\* owners delete each other at once.  (delete_admin's checks.)  Only a reset
\* in the gap before the DELETE escapes it.
OwnerRemains == passwords > 0 /\ ~raced => Owners # {}

\* An administrator disappears only by the word of another one who is an
\* owner at that very moment, or by a reset at the shell; a delete that waits
\* for nothing cannot act on a role that was taken away.
RemovedByOwner ==
    [][\A n \in Name : Exists(n) /\ admins'[n] = None =>
         \/ passwords' # passwords
         \/ raced
         \/ LET word == sessions[between.by]
            IN  word # None /\ word.user \in Owners \ {n}]_vars

\* Every login that was admitted is answered: the two places for password
\* checks are handed on whatever comes of a check.
LoginAnswered ==
    \A b \in Browser : (phase[b].at = "waiting") ~> (phase[b].at \notin {"waiting", "hashing"})
=============================================================================
