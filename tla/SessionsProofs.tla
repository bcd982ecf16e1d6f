--------------------------- MODULE SessionsProofs ---------------------------
(* Proofs about sessions, for every choice of the limits and any number of *)
(* overlapping requests. The clock is bounded only by Horizon, any number. *)
EXTENDS Sessions, TLAPS

\* The inductive invariant: what is on record lags behind the last use by at
\* most Slack, and so does the start of every request that will not touch;
\* a request that will touch began at most MaxRequest ago.
Lag ==
  /\ lastSeen <= used /\ used <= now
  /\ used - lastSeen <= Slack
  /\ \A r \in Requests : req[r] # Idle =>
       /\ req[r].since <= now /\ now <= req[r].since + MaxRequest
       /\ req[r].touch = "none" => req[r].since - lastSeen <= Slack

IInv == TypeOK /\ expires = Absolute /\ Lag

LEMMA SlackBounds == Slack \in Nat /\ MaxRequest <= Slack /\ Touch - 1 <= Slack
  BY SessionsAssumption DEF Slack

LEMMA InitIInv == Init => IInv
  BY SessionsAssumption, SlackBounds DEF Init, IInv, TypeOK, Lag, Idle

LEMMA StepIInv == IInv /\ [Next]_vars => IInv'
<1> SUFFICES ASSUME IInv, [Next]_vars PROVE IInv'
  OBVIOUS
<1> USE SessionsAssumption, SlackBounds
<1>1. ASSUME NEW r \in Requests, Accept(r) PROVE IInv'
  BY <1>1 DEF Accept, Expired, NeedsTouch, IInv, TypeOK, Lag, Idle
<1>2. ASSUME NEW r \in Requests, Commit(r) PROVE IInv'
  BY <1>2 DEF Commit, IInv, TypeOK, Lag, Idle
<1>3. ASSUME NEW r \in Requests, Rollback(r) PROVE IInv'
  BY <1>3 DEF Rollback, IInv, TypeOK, Lag, Idle
<1>4. CASE Refuse
  BY <1>4 DEF Refuse, IInv, TypeOK, Lag
<1>5. CASE Destroy
  BY <1>5 DEF Destroy, IInv, TypeOK, Lag
<1>6. CASE Tick
  BY <1>6 DEF Tick, Busy, IInv, TypeOK, Lag, Idle
<1>7. CASE UNCHANGED vars
  BY <1>7 DEF vars, IInv, TypeOK, Lag
<1> QED
  BY <1>1, <1>2, <1>3, <1>4, <1>5, <1>6, <1>7 DEF Next

LEMMA Always == Spec => []IInv
  BY InitIInv, StepIInv, PTL DEF Spec

\* The type invariant of the session.
THEOREM SessionTypes == Spec => []TypeOK
<1>1. IInv => TypeOK
  BY DEF IInv
<1> QED
  BY <1>1, Always, PTL

\* A session that is found expired was not in use: load_session() logs nobody
\* out who has been served within the idle limit, but for the slack.
THEOREM NobodyActiveExpires == Spec => []OnlyIdleExpire
<1>1. IInv => OnlyIdleExpire
  BY SessionsAssumption, SlackBounds DEF IInv, TypeOK, Lag, OnlyIdleExpire, Expired
<1> QED
  BY <1>1, Always, PTL

\* load_session() serves nobody after the absolute limit, or after an idle time
\* of IdleLimit.
THEOREM NobodyLateIsServed == Spec => AcceptedInTime
<1>1. IInv /\ [Next]_vars =>
        [\A r \in Requests : req[r] = Idle /\ req'[r] # Idle =>
           now < Absolute /\ now - used < IdleLimit]_vars
  <2> SUFFICES ASSUME IInv, Next, NEW r \in Requests, req[r] = Idle, req'[r] # Idle
               PROVE  now < Absolute /\ now - used < IdleLimit
    OBVIOUS
  <2>1. ~Expired
    BY SessionsAssumption DEF Next, Accept, Commit, Rollback, Refuse, Destroy, Tick,
       IInv, TypeOK, Idle
  <2> QED
    BY <2>1, SessionsAssumption DEF Expired, IInv, TypeOK, Lag
<1> QED
  BY <1>1, Always, PTL DEF Spec, AcceptedInTime
=============================================================================
