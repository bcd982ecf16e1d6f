------------------------------ MODULE Sessions ------------------------------
(***************************************************************************)
(* How long one session lasts (security/sessions.py). A request loads the  *)
(* row when it starts, and it is then that the session is accepted or      *)
(* found expired; a touch of last_seen_at is part of the request's own     *)
(* transaction, and reaches the row when that commits, if it does.         *)
(* Requests overlap, so an older touch may be written over a newer one.    *)
(* Whether the account is active is in module Accounts.                    *)
(***************************************************************************)
EXTENDS Integers

CONSTANTS
  Requests,    \* bound: requests of the session that may run at a time
  IdleLimit,   \* session_idle_hours
  Absolute,    \* session_absolute_days
  Touch,       \* _TOUCH_INTERVAL
  MaxRequest,  \* the longest a request takes
  Horizon      \* bound: the clock

ASSUME SessionsAssumption ==
  /\ IdleLimit \in Nat /\ Absolute \in Nat /\ Touch \in Nat
  /\ MaxRequest \in Nat /\ Horizon \in Nat
  /\ 0 < Touch /\ Touch + MaxRequest < IdleLimit /\ IdleLimit <= Absolute

VARIABLES
  now,       \* utcnow()
  row,       \* "live" while the row exists, else how it ended
  lastSeen,  \* Session.last_seen_at
  expires,   \* Session.expires_at
  req,       \* requests that were accepted and are running
  used       \* history: when the last request that committed was accepted

vars == <<now, row, lastSeen, expires, req, used>>

Idle == [since |-> -1, touch |-> "none"]
Busy == {r \in Requests : req[r] # Idle}

\* create_session(), committed by the login.
Init ==
  /\ now = 0
  /\ row = "live"
  /\ lastSeen = 0
  /\ expires = Absolute
  /\ req = [r \in Requests |-> Idle]
  /\ used = 0

\* Mutant: the absolute limit is not looked at.
ExpiredByIdle == now - lastSeen >= IdleLimit

Expired == now >= expires \/ now - lastSeen >= IdleLimit

\* Mutant: the touch waits until the session is about to expire.
LazyTouch == now - lastSeen >= IdleLimit - Touch

\* load_session() touches at most once in an interval.
NeedsTouch == now - lastSeen >= Touch

Accept(r) ==
  /\ req[r] = Idle
  /\ row = "live" /\ ~Expired
  /\ req' = [req EXCEPT ![r] = [since |-> now, touch |-> IF NeedsTouch THEN "due" ELSE "none"]]
  /\ UNCHANGED <<now, row, lastSeen, expires, used>>

\* The row is deleted, and this is committed at once.
Refuse ==
  /\ row = "live" /\ Expired
  /\ row' = "expired"
  /\ UNCHANGED <<now, lastSeen, expires, req, used>>

\* Mutant: the touch also prolongs the session.
CommitExtends(r) ==
  /\ req[r] # Idle
  /\ row = "live"
  /\ lastSeen' = IF req[r].touch = "due" THEN req[r].since ELSE lastSeen
  /\ expires' = IF req[r].touch = "due" THEN req[r].since + Absolute ELSE expires
  /\ used' = IF req[r].since > used THEN req[r].since ELSE used
  /\ req' = [req EXCEPT ![r] = Idle]
  /\ UNCHANGED <<now, row>>

\* The request commits, and its touch with it. A touch of a row that is gone
\* fails the request.
Commit(r) ==
  /\ req[r] # Idle
  /\ lastSeen' = IF req[r].touch = "due" /\ row = "live" THEN req[r].since ELSE lastSeen
  /\ used' = IF row = "live" /\ req[r].since > used THEN req[r].since ELSE used
  /\ req' = [req EXCEPT ![r] = Idle]
  /\ UNCHANGED <<now, row, expires>>

\* An error page: get_db() rolls back, the touch is lost.
Rollback(r) ==
  /\ req[r] # Idle
  /\ req' = [req EXCEPT ![r] = Idle]
  /\ UNCHANGED <<now, row, lastSeen, expires, used>>

\* Logout, a password reset or a deactivation.
Destroy ==
  /\ row = "live"
  /\ row' = "destroyed"
  /\ UNCHANGED <<now, lastSeen, expires, req, used>>

\* Time passes; no request runs for longer than MaxRequest.
Tick ==
  /\ now < Horizon
  /\ \A r \in Busy : now < req[r].since + MaxRequest
  /\ now' = now + 1
  /\ UNCHANGED <<row, lastSeen, expires, req, used>>

Next ==
  \/ \E r \in Requests : Accept(r) \/ Commit(r) \/ Rollback(r)
  \/ Refuse
  \/ Destroy
  \/ Tick

Spec == Init /\ [][Next]_vars

-----------------------------------------------------------------------------
(* Properties.                                                             *)

\* Type invariant.
TypeOK ==
  /\ now \in 0..Horizon
  /\ row \in {"live", "expired", "destroyed"}
  /\ lastSeen \in 0..Horizon
  /\ expires \in 0..Absolute
  /\ req \in [Requests -> [since : 0..Horizon, touch : {"due", "none"}] \cup {Idle}]
  /\ used \in 0..Horizon

\* A request is accepted only before the absolute limit, and less than
\* IdleLimit after the session was last used, whatever older touches were
\* written over newer ones.
AcceptedInTime ==
  [][\A r \in Requests : req[r] = Idle /\ req'[r] # Idle =>
       now < Absolute /\ now - used < IdleLimit]_vars

\* How much later than on record the last use may have been: a request within
\* Touch of the last is not recorded, and one that takes MaxRequest may write
\* its touch over newer ones.
Slack == IF MaxRequest < Touch THEN Touch - 1 ELSE MaxRequest

\* Nobody who keeps using the site is logged out: a session that is found
\* expired had reached its absolute limit, or had not been used for IdleLimit
\* but for the slack.
OnlyIdleExpire ==
  row = "live" /\ Expired => now >= Absolute \/ now - used >= IdleLimit - Slack
=============================================================================
