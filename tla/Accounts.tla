------------------------------ MODULE Accounts ------------------------------
(***************************************************************************)
(* Accounts: login with lockout (routers/auth.py) and what administrators  *)
(* do to accounts (routers/admin.py), as far as it decides who is let in.  *)
(*                                                                         *)
(* A handler loads the row of an account, works on it in memory, and       *)
(* commits the columns it changed. The row is locked from the UPDATE to    *)
(* the commit, not from the SELECT, so what a handler loaded may be old    *)
(* when it commits, and the commits of one account are in some order:      *)
(* loading and committing are two steps, and everything between them is    *)
(* local. How long sessions last is in module Sessions.                    *)
(***************************************************************************)
EXTENDS Integers, FiniteSets

CONSTANTS
  Users,        \* accounts that may ever exist
  Admins,       \* those with User.role = "admin"
  Founders,     \* those made by scripts/create_admin.py
  Requests,     \* bound: handlers that may run at the same time
  MaxFailures,  \* login_max_failures
  MaxEra,       \* bound: resets and deactivations of one account
  Apart         \* pairs of kinds that do not overlap

Kinds == {"login", "reset", "deactivate", "activate"}

ASSUME AccountsAssumption ==
  /\ IsFiniteSet(Users) /\ Admins \subseteq Users
  /\ Founders \subseteq Admins /\ Founders # {}
  /\ MaxFailures \in Nat \ {0, 1}
  /\ MaxEra \in Nat
  /\ Apart \subseteq SUBSET Kinds

VARIABLES
  exists,    \* rows of users
  active,    \* User.is_active
  failed,    \* User.failed_logins
  locked,    \* User.locked_until is in the future
  sessions,  \* Session rows: the account and, as history, its era
  req,       \* the handlers: what each has loaded
  era,       \* history: resets and deactivations so far
  wrong      \* history: wrong passwords in a row

userVars == <<active, failed, locked>>
vars == <<exists, userVars, sessions, req, era, wrong>>

Idle == [kind |-> "idle"]

Init ==
  /\ exists = Founders
  /\ active = [u \in Users |-> TRUE]
  /\ failed = [u \in Users |-> 0]
  /\ locked = [u \in Users |-> FALSE]
  /\ sessions = {}
  /\ req = [r \in Requests |-> Idle]
  /\ era = [u \in Users |-> 0]
  /\ wrong = [u \in Users |-> 0]

\* load_session(): a session of an inactive account is as good as none.
Usable(s) == active[s.user]

\* admin_user(): somebody sends the request.
AdminPresent == \E s \in sessions : Usable(s) /\ s.user \in Admins

ActiveAdmins == {u \in exists \cap Admins : active[u]}

-----------------------------------------------------------------------------
(* Requests                                                                *)

\* Two requests that are apart concern different accounts; deactivations, which
\* count the other administrators, do not overlap at all.
MayOverlap(kind, u, q) ==
  q # Idle /\ {kind, q.kind} \in Apart =>
    q.user # u /\ {kind, q.kind} # {"deactivate"}

\* SELECT of the account: what the handler keeps of it.
Load(r, kind, u) ==
  /\ req[r] = Idle
  /\ u \in exists
  /\ \A o \in Requests : MayOverlap(kind, u, req[o])
  /\ req' = [req EXCEPT ![r] =
       [kind |-> kind, user |-> u, active |-> active[u], failed |-> failed[u],
        locked |-> locked[u], era |-> era[u]]]
  /\ UNCHANGED <<exists, userVars, sessions, era, wrong>>

Return(r) == req' = [req EXCEPT ![r] = Idle]

\* The value a commit leaves in a column.
Written(loaded, set, current) == IF set = loaded THEN current ELSE set

\* The handler's columns of its account, written over what is there by now.
Set(r, column, loaded, value) ==
  [column EXCEPT ![req[r].user] = Written(loaded, value, @)]

-----------------------------------------------------------------------------
(* login                                                                   *)

\* An inactive account is treated like an unknown one: nothing changes.
LoginLoad(r, u) == active[u] /\ Load(r, "login", u)

\* The right password for the row that was loaded.
LoginOk(r) ==
  /\ req[r].kind = "login" /\ ~req[r].locked
  /\ LET q == req[r] IN
       /\ failed' = Set(r, failed, q.failed, 0)
       /\ sessions' = sessions \cup {[user |-> q.user, era |-> q.era]}
       /\ wrong' = [wrong EXCEPT ![q.user] = 0]
  /\ Return(r)
  /\ UNCHANGED <<exists, active, locked, era>>

\* Mutant: a lock does not start the count again.
LoginWrongKeepsCount(r) ==
  /\ req[r].kind = "login" /\ ~req[r].locked
  /\ LET q == req[r]
         full == q.failed + 1 >= MaxFailures
     IN /\ failed' = Set(r, failed, q.failed, q.failed + 1)
        /\ locked' = Set(r, locked, q.locked, full)
        /\ wrong' = [wrong EXCEPT ![q.user] = IF full THEN 0 ELSE @ + 1]
  /\ Return(r)
  /\ UNCHANGED <<exists, active, sessions, era>>

\* A wrong one: the last of MaxFailures locks the account and starts the
\* count again.
LoginWrong(r) ==
  /\ req[r].kind = "login" /\ ~req[r].locked
  /\ LET q == req[r]
         full == q.failed + 1 >= MaxFailures
     IN /\ failed' = Set(r, failed, q.failed, IF full THEN 0 ELSE q.failed + 1)
        /\ locked' = Set(r, locked, q.locked, full)
        /\ wrong' = [wrong EXCEPT ![q.user] = IF full THEN 0 ELSE @ + 1]
  /\ Return(r)
  /\ UNCHANGED <<exists, active, sessions, era>>

\* While it is locked no password is right, and none counts.
LoginBlocked(r) ==
  /\ req[r].kind = "login" /\ req[r].locked
  /\ Return(r)
  /\ UNCHANGED <<exists, userVars, sessions, era, wrong>>

\* login_lock_minutes have passed.
LockLapses(u) ==
  /\ locked[u]
  /\ locked' = [locked EXCEPT ![u] = FALSE]
  /\ UNCHANGED <<exists, active, failed, sessions, req, era, wrong>>

Logout(s) ==
  /\ sessions' = sessions \ {s}
  /\ UNCHANGED <<exists, userVars, req, era, wrong>>

\* load_session() deletes the session of an inactive account when it is used.
UseDead(s) ==
  /\ ~Usable(s)
  /\ sessions' = sessions \ {s}
  /\ UNCHANGED <<exists, userVars, req, era, wrong>>

-----------------------------------------------------------------------------
(* Administration                                                          *)

\* create_user: an email that is taken is refused, by the SELECT or by the
\* unique index.
CreateUser(u) ==
  /\ AdminPresent
  /\ u \notin exists
  /\ exists' = exists \cup {u}
  /\ UNCHANGED <<userVars, sessions, req, era, wrong>>

ResetLoad(r, u) == AdminPresent /\ era[u] < MaxEra /\ Load(r, "reset", u)

\* Mutant: the sessions stay.
ResetKeepsSessions(r) ==
  /\ req[r].kind = "reset"
  /\ LET q == req[r] IN
       /\ failed' = Set(r, failed, q.failed, 0)
       /\ locked' = Set(r, locked, q.locked, FALSE)
       /\ era' = [era EXCEPT ![q.user] = @ + 1]
       /\ wrong' = [wrong EXCEPT ![q.user] = 0]
  /\ Return(r)
  /\ UNCHANGED <<exists, active, sessions>>

\* The new hash, the count and the lock; then DELETE, which sees the sessions
\* that are committed by now.
ResetCommit(r) ==
  /\ req[r].kind = "reset"
  /\ LET q == req[r] IN
       /\ failed' = Set(r, failed, q.failed, 0)
       /\ locked' = Set(r, locked, q.locked, FALSE)
       /\ sessions' = {s \in sessions : s.user # q.user}
       /\ era' = [era EXCEPT ![q.user] = @ + 1]
       /\ wrong' = [wrong EXCEPT ![q.user] = 0]
  /\ Return(r)
  /\ UNCHANGED <<exists, active>>

\* Mutant: the administrator to be deactivated is not counted, one other is
\* not asked for.
NotTheOnlyAdmin(u) == ActiveAdmins # {}

\* The count of active administrators.
MayDeactivate(u) ==
  u \in Admins /\ active[u] => Cardinality(ActiveAdmins) > 1

DeactivateLoad(r, u) ==
  /\ AdminPresent /\ era[u] < MaxEra
  /\ MayDeactivate(u)
  /\ Load(r, "deactivate", u)

DeactivateCommit(r) ==
  /\ req[r].kind = "deactivate"
  /\ LET q == req[r] IN
       /\ active' = Set(r, active, q.active, FALSE)
       /\ sessions' = {s \in sessions : s.user # q.user}
       /\ era' = [era EXCEPT ![q.user] = @ + 1]
  /\ Return(r)
  /\ UNCHANGED <<exists, failed, locked, wrong>>

ActivateLoad(r, u) == AdminPresent /\ Load(r, "activate", u)

\* Mutant: the whole row is written as it was loaded.
ActivateWritesRow(r) ==
  /\ req[r].kind = "activate"
  /\ active' = [active EXCEPT ![req[r].user] = TRUE]
  /\ failed' = [failed EXCEPT ![req[r].user] = req[r].failed]
  /\ Return(r)
  /\ UNCHANGED <<exists, locked, sessions, era, wrong>>

ActivateCommit(r) ==
  /\ req[r].kind = "activate"
  /\ active' = Set(r, active, req[r].active, TRUE)
  /\ Return(r)
  /\ UNCHANGED <<exists, failed, locked, sessions, era, wrong>>

\* The transaction is rolled back.
Interrupted(r) ==
  /\ req[r] # Idle
  /\ Return(r)
  /\ UNCHANGED <<exists, userVars, sessions, era, wrong>>

Next ==
  \/ \E u \in Users : CreateUser(u) \/ LockLapses(u)
  \/ \E s \in sessions : Logout(s) \/ UseDead(s)
  \/ \E r \in Requests :
       \/ \E u \in Users :
            LoginLoad(r, u) \/ ResetLoad(r, u) \/ DeactivateLoad(r, u) \/ ActivateLoad(r, u)
       \/ LoginOk(r)
       \/ LoginWrong(r)
       \/ LoginBlocked(r)
       \/ ResetCommit(r)
       \/ DeactivateCommit(r)
       \/ ActivateCommit(r)
       \/ Interrupted(r)

Spec == Init /\ [][Next]_vars

-----------------------------------------------------------------------------
(* Properties.                                                             *)

\* Type invariant.
TypeOK ==
  /\ exists \subseteq Users
  /\ active \in [Users -> BOOLEAN]
  /\ failed \in [Users -> 0..(MaxFailures - 1)]
  /\ locked \in [Users -> BOOLEAN]
  /\ sessions \subseteq [user : Users, era : Nat]
  /\ \A r \in Requests : req[r] = Idle \/ req[r].kind \in Kinds
  /\ era \in [Users -> Nat]
  /\ wrong \in [Users -> Nat]

\* "The last administrator cannot be deactivated." (routers/admin.py:141)
AdminRemains == ActiveAdmins # {}

\* Logins and sessions of an account from before its last password reset or
\* deactivation.
OldLogins(u) ==
  {r \in Requests : req[r].kind = "login" /\ req[r].user = u /\ req[r].era < era[u]}
OldSessions(u) == {s \in sessions : s.user = u /\ s.era < era[u]}

\* A reset or a deactivation logs the user out (test_auth_admin.py:172), whatever
\* overlaps it: no session is left, and from then on an old one comes only from a
\* login that had loaded the account before. Those only get fewer, one for each
\* session they leave, also when the account is active again.
LogsOut ==
  [][\A u \in Users :
       IF era'[u] # era[u] THEN \A s \in sessions' : s.user # u
       ELSE /\ OldLogins(u)' \subseteq OldLogins(u)
            /\ OldSessions(u)' \subseteq OldSessions(u) \/ OldLogins(u)' # OldLogins(u)]_vars

\* The count is never behind the wrong passwords in a row, so the account is
\* locked at the latest by the one the login page announces ("After 5 wrong
\* attempts in a row", routers/auth.py:28), although resets, activations and
\* deactivations of the account overlap the logins. (Logins of one account must
\* not overlap each other: two wrong passwords at a time count as one.)
LockoutCounts == \A u \in Users : wrong[u] <= failed[u]
=============================================================================
