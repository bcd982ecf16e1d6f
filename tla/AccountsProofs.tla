--------------------------- MODULE AccountsProofs ---------------------------
(* Proofs about accounts, for any number of accounts, administrators and   *)
(* handlers that run at the same time.                                     *)
EXTENDS Accounts, FiniteSetTheorems, TLAPS

Loaded ==
  [kind : Kinds, user : Users, active : BOOLEAN, failed : 0..(MaxFailures - 1),
   locked : BOOLEAN, era : Nat]

\* What a handler has loaded is of the right type.
ReqOK == req \in [Requests -> Loaded \cup {Idle}]

IInv == TypeOK /\ ReqOK

-----------------------------------------------------------------------------
(* Types                                                                   *)

LEMMA LoadedIsBusy == ASSUME NEW q \in Loaded PROVE q # Idle /\ q.kind # "idle"
  BY DEF Loaded, Kinds, Idle

\* A request of one of the four kinds has loaded its account.
LEMMA KindLoaded ==
  ASSUME ReqOK, NEW r \in Requests, req[r].kind \in Kinds
  PROVE  req[r] \in Loaded
  BY DEF ReqOK, Kinds, Idle

\* Returning frees the handler and changes no other.
LEMMA ReturnKeeps ==
  ASSUME ReqOK, NEW r \in Requests, Return(r)
  PROVE  /\ ReqOK'
         /\ \A o \in Requests : o # r => req'[o] = req[o]
         /\ req'[r] = Idle
  BY DEF ReqOK, Return

\* A load touches nothing but its handler.
LEMMA LoadKeeps ==
  ASSUME IInv, NEW r \in Requests, NEW u \in Users, NEW kind \in Kinds, Load(r, kind, u)
  PROVE  /\ ReqOK'
         /\ UNCHANGED <<exists, userVars, sessions, era, wrong>>
         /\ \A o \in Requests : o # r => req'[o] = req[o]
         /\ req'[r] = [kind |-> kind, user |-> u, active |-> active[u],
                       failed |-> failed[u], locked |-> locked[u], era |-> era[u]]
         /\ req'[r] \in Loaded
         /\ u \in exists
         /\ \A o \in Requests : MayOverlap(kind, u, req[o])
  BY DEF IInv, TypeOK, ReqOK, Load, Loaded

\* The columns a handler commits: its account's, the others stay.
LEMMA SetColumn ==
  ASSUME NEW T, NEW r \in Requests, req[r].user \in Users,
         NEW column \in [Users -> T], NEW loaded \in T, NEW value \in T
  PROVE  /\ Set(r, column, loaded, value) \in [Users -> T]
         /\ \A u \in Users : Set(r, column, loaded, value)[u] =
              IF u = req[r].user THEN Written(loaded, value, column[u]) ELSE column[u]
<1>1. Written(loaded, value, column[req[r].user]) \in T
  BY DEF Written
<1> QED
  BY <1>1 DEF Set

LEMMA InitTypes == Init => IInv
  BY AccountsAssumption DEF Init, IInv, TypeOK, ReqOK, Idle

LEMMA StepTypes == IInv /\ [Next]_vars => IInv'
<1> SUFFICES ASSUME IInv, [Next]_vars PROVE IInv'
  OBVIOUS
<1> USE AccountsAssumption
<1>1. ASSUME NEW u \in Users, CreateUser(u) PROVE IInv'
  BY <1>1 DEF CreateUser, userVars, IInv, TypeOK, ReqOK
<1>2. ASSUME NEW u \in Users, LockLapses(u) PROVE IInv'
  BY <1>2 DEF LockLapses, userVars, IInv, TypeOK, ReqOK
<1>3. ASSUME NEW s \in sessions, Logout(s) \/ UseDead(s) PROVE IInv'
  BY <1>3 DEF Logout, UseDead, userVars, IInv, TypeOK, ReqOK
<1>4. ASSUME NEW r \in Requests, NEW u \in Users, NEW kind \in Kinds, Load(r, kind, u)
      PROVE  IInv'
  <2>1. ReqOK' /\ UNCHANGED <<exists, userVars, sessions, era, wrong>>
    BY <1>4, LoadKeeps
  <2>2. \A o \in Requests : req'[o] = Idle \/ req'[o].kind \in Kinds
    BY <2>1 DEF ReqOK, Loaded
  <2> QED
    BY <2>1, <2>2 DEF userVars, IInv, TypeOK
<1>5. ASSUME NEW r \in Requests,
             LoginOk(r) \/ LoginWrong(r) \/ LoginBlocked(r) \/ ResetCommit(r)
               \/ DeactivateCommit(r) \/ ActivateCommit(r) \/ Interrupted(r)
      PROVE  IInv'
  <2>1. Return(r)
    BY <1>5 DEF LoginOk, LoginWrong, LoginBlocked, ResetCommit, DeactivateCommit,
       ActivateCommit, Interrupted
  <2>2. ReqOK' /\ \A o \in Requests : req'[o] = Idle \/ req'[o].kind \in Kinds
    BY <2>1, ReturnKeeps DEF IInv, ReqOK, Loaded
  <2>3. req[r] \in Loaded
    BY <1>5, KindLoaded DEF LoginOk, LoginWrong, LoginBlocked, ResetCommit,
       DeactivateCommit, ActivateCommit, Interrupted, Kinds, IInv, ReqOK
  <2> DEFINE q == req[r]
  <2>a. /\ q.user \in Users /\ q.failed \in 0..(MaxFailures - 1)
        /\ q.locked \in BOOLEAN /\ q.active \in BOOLEAN /\ q.era \in Nat
        /\ 0 \in 0..(MaxFailures - 1)
    BY <2>3 DEF Loaded
  <2>4. CASE LoginOk(r)
    <3>1. failed' \in [Users -> 0..(MaxFailures - 1)]
      BY <2>4, <2>a, SetColumn DEF LoginOk, IInv, TypeOK
    <3>2. sessions' \subseteq [user : Users, era : Nat]
      BY <2>4, <2>a DEF LoginOk, IInv, TypeOK
    <3>3. wrong' \in [Users -> Nat]
      BY <2>4, <2>a DEF LoginOk, IInv, TypeOK
    <3> QED
      BY <2>2, <2>4, <3>1, <3>2, <3>3 DEF LoginOk, IInv, TypeOK
  <2>5. CASE LoginWrong(r)
    <3> DEFINE full == q.failed + 1 >= MaxFailures
    <3>1. (IF full THEN 0 ELSE q.failed + 1) \in 0..(MaxFailures - 1)
      BY <2>a
    <3>2. failed' = Set(r, failed, q.failed, IF full THEN 0 ELSE q.failed + 1)
      BY <2>5 DEF LoginWrong
    <3>3. failed' \in [Users -> 0..(MaxFailures - 1)]
      <4> HIDE DEF full, q
      <4> QED
        BY <2>a, <3>1, <3>2, SetColumn DEF q, IInv, TypeOK
    <3>4. locked' = Set(r, locked, q.locked, full) /\ full \in BOOLEAN
      BY <2>5 DEF LoginWrong
    <3>5. locked' \in [Users -> BOOLEAN]
      <4> HIDE DEF full
      <4> QED
        BY <2>a, <3>4, SetColumn DEF IInv, TypeOK
    <3>6. wrong' \in [Users -> Nat]
      BY <2>5, <2>a DEF LoginWrong, IInv, TypeOK
    <3> QED
      BY <2>2, <2>5, <3>3, <3>5, <3>6 DEF LoginWrong, IInv, TypeOK
  <2>6. CASE LoginBlocked(r) \/ Interrupted(r)
    BY <2>2, <2>6 DEF LoginBlocked, Interrupted, userVars, IInv, TypeOK
  <2>7. CASE ResetCommit(r)
    <3>1. failed' \in [Users -> 0..(MaxFailures - 1)] /\ locked' \in [Users -> BOOLEAN]
      BY <2>7, <2>a, SetColumn DEF ResetCommit, IInv, TypeOK
    <3>2. era' \in [Users -> Nat] /\ wrong' \in [Users -> Nat]
      BY <2>7, <2>a DEF ResetCommit, IInv, TypeOK
    <3> QED
      BY <2>2, <2>7, <3>1, <3>2 DEF ResetCommit, IInv, TypeOK
  <2>8. CASE DeactivateCommit(r)
    <3>1. active' \in [Users -> BOOLEAN]
      BY <2>8, <2>a, SetColumn DEF DeactivateCommit, IInv, TypeOK
    <3>2. era' \in [Users -> Nat] /\ sessions' \subseteq sessions
      BY <2>8, <2>a DEF DeactivateCommit, IInv, TypeOK
    <3> QED
      BY <2>2, <2>8, <3>1, <3>2 DEF DeactivateCommit, IInv, TypeOK
  <2>9. CASE ActivateCommit(r)
    <3>1. active' \in [Users -> BOOLEAN]
      BY <2>9, <2>a, SetColumn DEF ActivateCommit, IInv, TypeOK
    <3> QED
      BY <2>2, <2>9, <3>1 DEF ActivateCommit, IInv, TypeOK
  <2> QED
    BY <1>5, <2>4, <2>5, <2>6, <2>7, <2>8, <2>9
<1>6. CASE UNCHANGED vars
  BY <1>6 DEF vars, userVars, IInv, TypeOK, ReqOK
<1> QED
  BY <1>1, <1>2, <1>3, <1>4, <1>5, <1>6
     DEF Next, LoginLoad, ResetLoad, DeactivateLoad, ActivateLoad, Kinds

LEMMA TypesAlways == Spec => []IInv
  BY InitTypes, StepTypes, PTL DEF Spec

\* The type invariant of the accounts.
THEOREM AccountTypes == Spec => []TypeOK
<1>1. IInv => TypeOK
  BY DEF IInv
<1> QED
  BY <1>1, TypesAlways, PTL

-----------------------------------------------------------------------------
(* One step, as the invariants below see it.                               *)

\* Handlers that commit.
Commits(r) ==
  LoginOk(r) \/ LoginWrong(r) \/ LoginBlocked(r) \/ ResetCommit(r)
    \/ DeactivateCommit(r) \/ ActivateCommit(r) \/ Interrupted(r)

LEMMA Steps ==
  ASSUME IInv, [Next]_vars
  PROVE  \/ UNCHANGED vars
         \/ \E u \in Users : CreateUser(u) \/ LockLapses(u)
         \/ \E s \in sessions : Logout(s) \/ UseDead(s)
         \/ \E r \in Requests, u \in Users :
              LoginLoad(r, u) \/ ResetLoad(r, u) \/ DeactivateLoad(r, u) \/ ActivateLoad(r, u)
         \/ \E r \in Requests : Commits(r)
  BY DEF Next, Commits

\* A commit is that of a handler that has loaded, and frees it.
LEMMA CommitsBusy ==
  ASSUME IInv, NEW r \in Requests, Commits(r)
  PROVE  /\ req[r] \in Loaded
         /\ \A o \in Requests : o # r => req'[o] = req[o]
         /\ req'[r] = Idle
         /\ ReqOK'
<1>1. Return(r)
  BY DEF Commits, LoginOk, LoginWrong, LoginBlocked, ResetCommit, DeactivateCommit,
     ActivateCommit, Interrupted
<1>2. req[r] \in Loaded
  BY KindLoaded DEF Commits, LoginOk, LoginWrong, LoginBlocked, ResetCommit,
     DeactivateCommit, ActivateCommit, Interrupted, Kinds, IInv, ReqOK
<1> QED
  BY <1>1, <1>2, ReturnKeeps DEF IInv

\* Every load is a Load of its kind.
LEMMA LoadsLoad ==
  ASSUME NEW r \in Requests, NEW u \in Users,
         LoginLoad(r, u) \/ ResetLoad(r, u) \/ DeactivateLoad(r, u) \/ ActivateLoad(r, u)
  PROVE  \E kind \in Kinds :
           /\ Load(r, kind, u)
           /\ kind = "deactivate" => MayDeactivate(u)
           /\ kind = "login" => active[u]
  BY DEF LoginLoad, ResetLoad, DeactivateLoad, ActivateLoad, Kinds

-----------------------------------------------------------------------------
(* An administrator remains                                                *)

\* Whoever is to be deactivated leaves another administrator, and nobody else
\* is being deactivated.
AdminInv ==
  /\ ActiveAdmins # {}
  /\ \A r \in Requests : req[r].kind = "deactivate" =>
       /\ \A o \in Requests : req[o].kind = "deactivate" => o = r
       /\ req[r].user \in Admins /\ req[r].active =>
            \E v \in ActiveAdmins : v # req[r].user

\* deactivate() counts: more than one is one and another.
LEMMA AnotherAdmin ==
  ASSUME NEW u \in ActiveAdmins, Cardinality(ActiveAdmins) > 1
  PROVE  \E v \in ActiveAdmins : v # u
<1> SUFFICES ASSUME \A v \in ActiveAdmins : v = u PROVE FALSE
  OBVIOUS
<1>1. ActiveAdmins = {u}
  OBVIOUS
<1>2. Cardinality({u}) = 1
  BY FS_Singleton
<1> QED
  BY <1>1, <1>2

LEMMA AdminInit == Init => AdminInv
  BY AccountsAssumption DEF Init, AdminInv, ActiveAdmins, Idle

LEMMA AdminStep ==
  ASSUME {"deactivate"} \in Apart, IInv, AdminInv, [Next]_vars
  PROVE  AdminInv'
<1>1. CASE UNCHANGED vars
  BY <1>1 DEF vars, userVars, AdminInv, ActiveAdmins
<1>2. ASSUME NEW u \in Users, CreateUser(u) \/ LockLapses(u) PROVE AdminInv'
  <2>1. ActiveAdmins \subseteq ActiveAdmins' /\ req' = req
    BY <1>2 DEF CreateUser, LockLapses, userVars, ActiveAdmins
  <2> QED
    BY <2>1 DEF AdminInv
<1>3. ASSUME NEW s \in sessions, Logout(s) \/ UseDead(s) PROVE AdminInv'
  BY <1>3 DEF Logout, UseDead, userVars, AdminInv, ActiveAdmins
<1>4. ASSUME NEW r \in Requests, NEW u \in Users, NEW kind \in Kinds, Load(r, kind, u),
             kind = "deactivate" => MayDeactivate(u)
      PROVE  AdminInv'
  <2>1. ActiveAdmins' = ActiveAdmins
    BY <1>4, LoadKeeps DEF userVars, ActiveAdmins
  <2>2. \A o \in Requests : o # r => req'[o] = req[o]
    BY <1>4, LoadKeeps
  <2>3. req'[r].kind = kind /\ req'[r].user = u /\ req'[r].active = active[u]
    <3>1. req'[r] = [kind |-> kind, user |-> u, active |-> active[u],
                     failed |-> failed[u], locked |-> locked[u], era |-> era[u]]
      BY <1>4, LoadKeeps
    <3> QED
      BY <3>1
  <2>4. CASE kind = "deactivate"
    <3>1. \A o \in Requests : req[o].kind # "deactivate"
      <4> SUFFICES ASSUME NEW o \in Requests, req[o].kind = "deactivate" PROVE FALSE
        OBVIOUS
      <4>1. MayOverlap(kind, u, req[o])
        BY <1>4, LoadKeeps
      <4>2. req[o] # Idle
        BY KindLoaded, LoadedIsBusy DEF IInv, Kinds
      <4> QED
        BY <2>4, <4>1, <4>2 DEF MayOverlap
    <3>2. u \in Admins /\ active[u] => \E v \in ActiveAdmins : v # u
      <4> SUFFICES ASSUME u \in Admins, active[u] PROVE \E v \in ActiveAdmins : v # u
        OBVIOUS
      <4>1. u \in ActiveAdmins
        BY <1>4, LoadKeeps DEF ActiveAdmins
      <4>2. Cardinality(ActiveAdmins) > 1
        BY <1>4, <2>4 DEF MayDeactivate
      <4> QED
        BY <4>1, <4>2, AnotherAdmin
    <3> QED
      BY <2>1, <2>2, <2>3, <3>1, <3>2 DEF AdminInv
  <2>5. CASE kind # "deactivate"
    BY <2>1, <2>2, <2>3, <2>5 DEF AdminInv
  <2> QED
    BY <2>4, <2>5
<1>5. ASSUME NEW r \in Requests, Commits(r) PROVE AdminInv'
  <2>1. /\ req[r] \in Loaded /\ req'[r] = Idle
        /\ \A o \in Requests : o # r => req'[o] = req[o]
    BY <1>5, CommitsBusy
  <2>2. req'[r].kind # "deactivate"
    BY <2>1 DEF Idle
  <2>3. CASE DeactivateCommit(r)
    <3>1. \A o \in Requests : req'[o].kind # "deactivate"
      BY <2>1, <2>2, <2>3 DEF DeactivateCommit, AdminInv
    <3>2. exists' = exists /\ active' = Set(r, active, req[r].active, FALSE)
      BY <2>3 DEF DeactivateCommit
    <3>3. \A v \in Users : v # req[r].user => active'[v] = active[v]
      BY <3>2, <2>1 DEF Set, IInv, TypeOK
    <3>4. CASE req[r].user \in Admins /\ req[r].active
      <4>1. PICK v \in ActiveAdmins : v # req[r].user
        BY <2>3, <3>4 DEF DeactivateCommit, AdminInv
      <4>2. v \in ActiveAdmins'
        BY <3>2, <3>3, <4>1 DEF ActiveAdmins, IInv, TypeOK
      <4> QED
        BY <3>1, <4>2 DEF AdminInv
    <3>5. CASE ~req[r].active
      <4>1. req[r].active = FALSE
        BY <2>1, <3>5 DEF Loaded
      <4>2. active' = active
        BY <3>2, <4>1, <2>1 DEF Set, Written, IInv, TypeOK
      <4> QED
        BY <3>1, <3>2, <4>2 DEF AdminInv, ActiveAdmins
    <3>6. CASE req[r].user \notin Admins
      <4>1. ActiveAdmins' = ActiveAdmins
        BY <3>2, <3>3, <3>6 DEF ActiveAdmins, IInv, TypeOK
      <4> QED
        BY <3>1, <4>1 DEF AdminInv
    <3> QED
      BY <3>4, <3>5, <3>6
  <2>4. CASE ActivateCommit(r)
    <3>1. exists' = exists /\ active' = Set(r, active, req[r].active, TRUE)
      BY <2>4 DEF ActivateCommit
    <3>2. \A v \in Users : active[v] => active'[v]
      BY <3>1, <2>1 DEF Set, Written, Loaded, IInv, TypeOK
    <3>3. ActiveAdmins \subseteq ActiveAdmins'
      BY <3>1, <3>2 DEF ActiveAdmins, IInv, TypeOK
    <3> QED
      BY <2>1, <2>2, <3>3 DEF AdminInv
  <2>5. CASE LoginOk(r) \/ LoginWrong(r) \/ LoginBlocked(r) \/ ResetCommit(r) \/ Interrupted(r)
    <3>1. ActiveAdmins' = ActiveAdmins
      BY <2>5 DEF LoginOk, LoginWrong, LoginBlocked, ResetCommit, Interrupted, userVars,
         ActiveAdmins
    <3> QED
      BY <2>1, <2>2, <3>1 DEF AdminInv
  <2> QED
    BY <1>5, <2>3, <2>4, <2>5 DEF Commits
<1> QED
  BY <1>1, <1>2, <1>3, <1>4, <1>5, Steps, LoadsLoad

\* The last administrator is never deactivated (routers/admin.py:141), as long
\* as deactivations do not overlap each other.
THEOREM AnAdminRemains ==
  ASSUME {"deactivate"} \in Apart PROVE Spec => []AdminRemains
<1>1. IInv /\ AdminInv /\ [Next]_vars => AdminInv'
  BY AdminStep
<1>2. AdminInv => AdminRemains
  BY DEF AdminInv, AdminRemains
<1> QED
  BY <1>1, <1>2, AdminInit, TypesAlways, PTL DEF Spec

-----------------------------------------------------------------------------
(* Sessions end with a reset or a deactivation                             *)

\* What one step does to the sessions of an account and to its logins.
Ends(u) ==
  IF era'[u] # era[u] THEN \A s \in sessions' : s.user # u
  ELSE /\ OldLogins(u)' \subseteq OldLogins(u)
       /\ OldSessions(u)' \subseteq OldSessions(u) \/ OldLogins(u)' # OldLogins(u)

\* A step that makes no session and leaves the era alone.
LEMMA NothingOld ==
  ASSUME NEW u \in Users, era' = era, sessions' \subseteq sessions,
         \A o \in Requests : \/ req'[o] = req[o]
                             \/ req'[o].kind # "login"
                             \/ req'[o].user = u => ~(req'[o].era < era[u])
  PROVE  Ends(u)
<1>1. OldLogins(u)' \subseteq OldLogins(u)
  BY DEF OldLogins
<1>2. OldSessions(u)' \subseteq OldSessions(u)
  BY DEF OldSessions
<1> QED
  BY <1>1, <1>2 DEF Ends

LEMMA EndsStep == ASSUME IInv, [Next]_vars, NEW u \in Users PROVE Ends(u)
<1>1. CASE UNCHANGED vars
  BY <1>1, NothingOld DEF vars
<1>2. ASSUME NEW v \in Users, CreateUser(v) \/ LockLapses(v) PROVE Ends(u)
  BY <1>2, NothingOld DEF CreateUser, LockLapses
<1>3. ASSUME NEW s \in sessions, Logout(s) \/ UseDead(s) PROVE Ends(u)
  BY <1>3, NothingOld DEF Logout, UseDead
<1>4. ASSUME NEW r \in Requests, NEW v \in Users, NEW kind \in Kinds, Load(r, kind, v)
      PROVE  Ends(u)
  <2>1. /\ UNCHANGED <<sessions, era>>
        /\ \A o \in Requests : o # r => req'[o] = req[o]
    BY <1>4, LoadKeeps
  <2>2. req'[r].user = v /\ req'[r].era = era[v] /\ era[v] \in Nat
    <3>1. req'[r] = [kind |-> kind, user |-> v, active |-> active[v],
                     failed |-> failed[v], locked |-> locked[v], era |-> era[v]]
      BY <1>4, LoadKeeps
    <3> QED
      BY <3>1 DEF IInv, TypeOK
  <2>3. req'[r].user = u => ~(req'[r].era < era[u])
    BY <2>2
  <2> QED
    BY <2>1, <2>3, NothingOld
<1>5. ASSUME NEW r \in Requests, Commits(r) PROVE Ends(u)
  <2>1. /\ req[r] \in Loaded /\ req'[r].kind # "login"
        /\ \A o \in Requests : o # r => req'[o] = req[o]
    BY <1>5, CommitsBusy DEF Idle
  <2>2. CASE LoginOk(r)
    <3>1. /\ era' = era /\ req[r].kind = "login"
          /\ sessions' = sessions \cup {[user |-> req[r].user, era |-> req[r].era]}
      BY <2>2 DEF LoginOk
    <3>2. OldLogins(u)' \subseteq OldLogins(u)
      BY <2>1, <3>1 DEF OldLogins
    <3>3. CASE req[r].user = u /\ req[r].era < era[u]
      <4>1. r \in OldLogins(u) /\ r \notin OldLogins(u)'
        BY <2>1, <3>1, <3>3 DEF OldLogins
      <4> QED
        BY <3>1, <3>2, <4>1 DEF Ends
    <3>4. CASE ~(req[r].user = u /\ req[r].era < era[u])
      <4>1. OldSessions(u)' \subseteq OldSessions(u)
        BY <3>1, <3>4 DEF OldSessions
      <4> QED
        BY <3>1, <3>2, <4>1 DEF Ends
    <3> QED
      BY <3>3, <3>4
  <2>3. CASE ResetCommit(r) \/ DeactivateCommit(r)
    <3>1. /\ sessions' = {s \in sessions : s.user # req[r].user}
          /\ era' = [era EXCEPT ![req[r].user] = @ + 1]
      BY <2>3 DEF ResetCommit, DeactivateCommit
    <3>2. CASE req[r].user = u
      <4>1. era'[u] # era[u] /\ \A s \in sessions' : s.user # u
        BY <3>1, <3>2 DEF IInv, TypeOK
      <4> QED
        BY <4>1 DEF Ends
    <3>3. CASE req[r].user # u
      <4>1. era'[u] = era[u]
        BY <3>1, <3>3 DEF IInv, TypeOK
      <4>2. OldLogins(u)' \subseteq OldLogins(u)
        BY <2>1, <4>1 DEF OldLogins
      <4>3. OldSessions(u)' \subseteq OldSessions(u)
        BY <3>1, <4>1 DEF OldSessions
      <4> QED
        BY <4>1, <4>2, <4>3 DEF Ends
    <3> QED
      BY <3>2, <3>3
  <2>4. CASE LoginWrong(r) \/ LoginBlocked(r) \/ ActivateCommit(r) \/ Interrupted(r)
    <3>1. UNCHANGED <<sessions, era>>
      BY <2>4 DEF LoginWrong, LoginBlocked, ActivateCommit, Interrupted
    <3> QED
      BY <2>1, <3>1, NothingOld
  <2> QED
    BY <1>5, <2>2, <2>3, <2>4 DEF Commits
<1> QED
  BY <1>1, <1>2, <1>3, <1>4, <1>5, Steps, LoadsLoad

\* A password reset or a deactivation logs the user out, whatever requests
\* overlap it: the only way back to a session from before is a login that had
\* loaded the account by then, and each of those leaves at most one.
THEOREM OldSessionsAreDead == Spec => LogsOut
<1>1. IInv /\ [Next]_vars =>
        [\A u \in Users :
           IF era'[u] # era[u] THEN \A s \in sessions' : s.user # u
           ELSE /\ OldLogins(u)' \subseteq OldLogins(u)
                /\ OldSessions(u)' \subseteq OldSessions(u) \/ OldLogins(u)' # OldLogins(u)]_vars
  BY EndsStep DEF Ends
<1> QED
  BY <1>1, TypesAlways, PTL DEF Spec, LogsOut
=============================================================================
