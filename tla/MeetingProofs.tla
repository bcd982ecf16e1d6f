--------------------------- MODULE MeetingProofs ---------------------------
(* Proofs about a meeting, for any number of handlers, people, links and   *)
(* identities, any schedule and any life times.                            *)
EXTENDS Meeting, TLAPS

Statuses == {"none", "scheduled", "live", "ended", "cancelled"}
Stages == {"loaded", "flushed", "registered", "closed", "forgotten"}

RequestRecords ==
  [kind : Kinds, at : Stages, status : Statuses, members : SUBSET Users,
   for : Links \cup {Staff}, uses : Nat, who : SUBSET (Users \cup Identities)]

\* What a handler has loaded is what its kind loads.
Loaded(q) ==
  /\ q \in RequestRecords
  /\ q.status # "none"
  /\ q.kind = "invite" => q.who \subseteq Users
  /\ q.kind \in {"link", "revoke", "visit"} => q.for \in Links
  /\ q.kind = "visit" => q.uses < MaxUses
  /\ q.at \in {"closed", "forgotten"} => q.kind = "end"
  /\ q.at = "registered" => q.kind = "token"

ReqOK ==
  /\ req \in [Requests -> RequestRecords \cup {Idle}]
  /\ \A r \in Requests : req[r] # Idle => Loaded(req[r])

\* Nothing is there before the meeting is scheduled.
Unborn ==
  status = "none" =>
    /\ members = {} /\ told = {}
    /\ \A l \in Links : link[l] = "none"
    /\ \A r \in Requests : req[r] = Idle

\* A handler that has registered somebody holds the only copy of the token.
Registered(r) == {i \in Identities : req[r].at = "registered" /\ i \in req[r].who}
Pending ==
  \A r \in Requests : \A i \in Registered(r) :
    /\ person[i] # Unused /\ person[i].token = "made"
    /\ \A o \in Requests : i \in Registered(o) => o = r

TypeInv == TypeOK /\ ReqOK /\ Unborn /\ Pending

-----------------------------------------------------------------------------
(* How a step changes the handlers                                         *)

LEMMA BusyAt ==
  ASSUME ReqOK, NEW r \in Requests
  PROVE  /\ req[r] # Idle <=> req[r].at # "idle"
         /\ req[r] # Idle => req[r].at \in Stages /\ req[r].kind \in Kinds
  BY DEF ReqOK, Loaded, RequestRecords, Idle, Stages

LEMMA ReturnKeeps ==
  ASSUME ReqOK, NEW r \in Requests, Return(r)
  PROVE  /\ req'[r] = Idle
         /\ \A o \in Requests : o # r => req'[o] = req[o]
         /\ ReqOK'
  BY DEF ReqOK, Return

LEMMA GotoKeeps ==
  ASSUME ReqOK, NEW r \in Requests, req[r] # Idle, NEW stage \in Stages,
         stage \in {"closed", "forgotten"} => req[r].kind = "end",
         stage # "registered", Goto(r, stage)
  PROVE  /\ req'[r] = [req[r] EXCEPT !.at = stage]
         /\ \A o \in Requests : o # r => req'[o] = req[o]
         /\ Loaded(req'[r])
         /\ ReqOK'
<1>1. req'[r] = [req[r] EXCEPT !.at = stage] /\ \A o \in Requests : o # r => req'[o] = req[o]
  BY DEF Goto, ReqOK
<1>2. req[r] \in RequestRecords /\ Loaded(req[r])
  BY DEF ReqOK, Loaded
<1>3. Loaded(req'[r])
  BY <1>1, <1>2 DEF Loaded, RequestRecords
<1>4. req'[r] # Idle /\ req'[r] \in RequestRecords
  BY <1>1, <1>2, <1>3 DEF Loaded, Idle, Stages
<1> QED
  BY <1>1, <1>3, <1>4 DEF ReqOK, Goto

LEMMA LoadKeeps ==
  ASSUME ReqOK, NEW r \in Requests, NEW q, Loaded(q), Load(r, q)
  PROVE  /\ req[r] = Idle
         /\ req'[r] = q
         /\ \A o \in Requests : o # r => req'[o] = req[o]
         /\ ReqOK'
         /\ UNCHANGED <<rowVars, linkVars, person, now, told, amnesia>>
         /\ Writes(q) /\ ~WritersOverlap => \A o \in Requests : ~Writes(req[o])
<1>1. req'[r] = q /\ \A o \in Requests : o # r => req'[o] = req[o]
  BY DEF Load, ReqOK
<1>2. q \in RequestRecords
  BY DEF Loaded
<1> QED
  BY <1>1, <1>2 DEF Load, ReqOK

\* What is true of a request that has just been issued.
Suits(q) ==
  /\ Loaded(q)
  /\ q.status = status /\ q.at = "loaded"
  /\ q.kind \in {"token", "record"} => status \in Open
  /\ q.kind = "token" => q.for = Staff \/ link[q.for] = "open"
  /\ q.kind = "cancel" => status = "scheduled"
  /\ q.kind = "end" => status = "live"
  /\ q.kind = "invite" => q.members = members
  /\ q.kind = "link" => link[q.for] = "none" /\ \A o \in Running("link") : req[o].for # q.for
  /\ q.kind = "revoke" => link[q.for] # "none"

\* guest_invite_state() says ok for a link of an open meeting only.
LEMMA OkIsOpen ==
  ASSUME TypeInv, NEW l \in Links, LinkState(l) = "ok"
  PROVE  link[l] = "open" /\ status \in Open
<1>1. link[l] \in {"none", "open", "revoked"}
  BY DEF TypeInv, TypeOK
<1>2. status \in Open
  <2> SUFFICES ASSUME status \notin Open PROVE FALSE
    OBVIOUS
  <2>0. status # "none"
    BY DEF LinkState, TypeInv, Unborn
  <2>1. status \in {"cancelled", "ended"}
    BY <2>0 DEF Open, TypeInv, TypeOK
  <2> QED
    BY <1>1, <2>1 DEF LinkState, Open
<1> QED
  BY <1>1, <1>2 DEF LinkState, Open

LEMMA Requested ==
  ASSUME TypeInv, NEW r \in Requests, Issue(r)
  PROVE  \E q : Load(r, q) /\ Suits(q)
<1> USE MeetingAssumption, PermissionsAssumption
<1>1. ASSUME NEW kind \in {"token", "record", "cancel", "end"}, status # "none"
      PROVE  Loaded(Request(kind))
  BY <1>1 DEF Request, Loaded, RequestRecords, Stages, Statuses, Staff, TypeInv, TypeOK, Kinds
<1>2. ASSUME NEW kind \in {"link", "revoke", "token"}, NEW l \in Links, status # "none"
      PROVE  LET q == [Request(kind) EXCEPT !.for = l]
             IN /\ Loaded(q)
                /\ q.kind = kind /\ q.for = l /\ q.status = status /\ q.at = "loaded"
  BY <1>2 DEF Request, Loaded, RequestRecords, Stages, Statuses, Staff, TypeInv, TypeOK, Kinds
<1>3. CASE TokenLoad(r) \/ RecordLoad(r)
  <2>1. status \in Open /\ (Load(r, Request("token")) \/ Load(r, Request("record")))
    BY <1>3 DEF TokenLoad, TokenGranted, RecordLoad
  <2>2. ASSUME NEW kind \in {"token", "record"}, Load(r, Request(kind))
        PROVE  Suits(Request(kind))
    BY <1>1, <2>1, <2>2 DEF Suits, Request, Open
  <2> QED
    BY <2>1, <2>2
<1>4. CASE CancelLoad(r)
  <2>1. status = "scheduled" /\ Load(r, Request("cancel"))
    BY <1>4 DEF CancelLoad, MayMove, Transitions, Exists, TypeInv, TypeOK
  <2>2. Suits(Request("cancel"))
    BY <1>1, <2>1 DEF Suits, Request
  <2> QED
    BY <2>1, <2>2
<1>5. CASE EndLoad(r)
  <2>1. status = "live" /\ Load(r, Request("end"))
    BY <1>5 DEF EndLoad, MayMove, Transitions, Exists, TypeInv, TypeOK
  <2>2. Suits(Request("end"))
    BY <1>1, <2>1 DEF Suits, Request
  <2> QED
    BY <2>1, <2>2
<1>6. ASSUME NEW people \in SUBSET Invitees, InviteLoad(r, people)
      PROVE  \E q : Load(r, q) /\ Suits(q)
  <2> DEFINE q0 == [Request("invite") EXCEPT !.who = people, !.members = members]
             q1 == [Request("invite") EXCEPT !.who = people]
  <2>1. status \in Open /\ Load(r, q0)
    BY <1>6 DEF InviteLoad
  <2>2. /\ q1 \in RequestRecords
        /\ q1.kind = "invite" /\ q1.at = "loaded" /\ q1.status = status /\ q1.who = people
    BY DEF Request, RequestRecords, Stages, Statuses, Staff, TypeInv, TypeOK, Kinds
  <2>3. q0 = [q1 EXCEPT !.members = members]
    OBVIOUS
  <2> HIDE DEF q0, q1
  <2>4. Loaded(q0) /\ q0.status = status /\ q0.at = "loaded" /\ q0.members = members
          /\ q0.kind = "invite"
    BY <2>1, <2>2, <2>3 DEF Loaded, RequestRecords, Open, TypeInv, TypeOK
  <2>5. Suits(q0)
    BY <2>4 DEF Suits
  <2> QED
    BY <2>1, <2>5
<1>7. ASSUME NEW l \in Links, GuestTokenLoad(r, l)
      PROVE  \E q : Load(r, q) /\ Suits(q)
  <2> DEFINE q0 == [Request("token") EXCEPT !.for = l]
  <2>1. status \in Open /\ link[l] = "open" /\ Load(r, q0)
    BY <1>7, OkIsOpen DEF GuestTokenLoad, GuestTokenGranted
  <2>2. Loaded(q0) /\ q0.kind = "token" /\ q0.for = l /\ q0.status = status /\ q0.at = "loaded"
    BY <1>2, <2>1 DEF Open
  <2> HIDE DEF q0
  <2>3. Suits(q0)
    BY <2>1, <2>2 DEF Suits
  <2> QED
    BY <2>1, <2>3
<1>8. ASSUME NEW l \in Links, LinkLoad(r, l)
      PROVE  \E q : Load(r, q) /\ Suits(q)
  <2> DEFINE q0 == [Request("link") EXCEPT !.for = l]
  <2>1. /\ status \in Open /\ Load(r, q0)
        /\ link[l] = "none" /\ \A o \in Running("link") : req[o].for # l
    BY <1>8 DEF LinkLoad
  <2>2. Loaded(q0) /\ q0.kind = "link" /\ q0.for = l /\ q0.status = status /\ q0.at = "loaded"
    BY <1>2, <2>1 DEF Open
  <2> HIDE DEF q0
  <2>3. Suits(q0)
    BY <2>1, <2>2 DEF Suits
  <2> QED
    BY <2>1, <2>3
<1>9. ASSUME NEW l \in Links, RevokeLoad(r, l)
      PROVE  \E q : Load(r, q) /\ Suits(q)
  <2> DEFINE q0 == [Request("revoke") EXCEPT !.for = l]
  <2>1. status # "none" /\ link[l] # "none" /\ Load(r, q0)
    BY <1>9 DEF RevokeLoad, Can, Exists
  <2>2. Loaded(q0) /\ q0.kind = "revoke" /\ q0.for = l /\ q0.status = status /\ q0.at = "loaded"
    BY <1>2, <2>1
  <2> HIDE DEF q0
  <2>3. Suits(q0)
    BY <2>1, <2>2 DEF Suits
  <2> QED
    BY <2>1, <2>3
<1>10. ASSUME NEW l \in Links, VisitLoad(r, l)
       PROVE  \E q : Load(r, q) /\ Suits(q)
  <2> DEFINE q0 == [Request("visit") EXCEPT !.for = l, !.uses = uses[l]]
             q1 == [Request("visit") EXCEPT !.for = l]
  <2>1. status \in Open /\ uses[l] < MaxUses /\ uses[l] \in Nat /\ Load(r, q0)
    BY <1>10, OkIsOpen DEF VisitLoad, TypeInv, TypeOK
  <2>2. /\ q1 \in RequestRecords
        /\ q1.kind = "visit" /\ q1.at = "loaded" /\ q1.status = status /\ q1.for = l
    BY DEF Request, RequestRecords, Stages, Statuses, Staff, TypeInv, TypeOK, Kinds
  <2>3. q0 = [q1 EXCEPT !.uses = uses[l]]
    OBVIOUS
  <2> HIDE DEF q0, q1
  <2>4. Loaded(q0) /\ q0.status = status /\ q0.at = "loaded" /\ q0.kind = "visit"
    BY <2>1, <2>2, <2>3 DEF Loaded, RequestRecords, Open
  <2>5. Suits(q0)
    BY <2>4 DEF Suits
  <2> QED
    BY <2>1, <2>5
<1> QED
  BY <1>3, <1>4, <1>5, <1>6, <1>7, <1>8, <1>9, <1>10 DEF Issue

\* A handler that goes on has loaded, keeps what it has loaded, and changes no
\* other handler.
LEMMA HandlerKeeps ==
  ASSUME TypeInv, NEW r \in Requests, Handle(r) \/ Interrupted(r)
  PROVE  /\ req[r] # Idle /\ Loaded(req[r])
         /\ \A o \in Requests : o # r => req'[o] = req[o]
         /\ ReqOK'
         /\ \/ req'[r] = Idle
            \/ /\ req'[r] # Idle /\ Loaded(req'[r])
               /\ req'[r].kind = req[r].kind /\ req'[r].status = req[r].status
               /\ req'[r].members = req[r].members /\ req'[r].for = req[r].for
<1>1. ASSUME NEW stage \in Stages, Goto(r, stage), req[r] # Idle,
             stage \in {"closed", "forgotten"} => req[r].kind = "end", stage # "registered"
      PROVE  /\ req'[r] # Idle /\ Loaded(req'[r])
             /\ req'[r].kind = req[r].kind /\ req'[r].status = req[r].status
             /\ req'[r].members = req[r].members /\ req'[r].for = req[r].for
  <2>1. req'[r] = [req[r] EXCEPT !.at = stage] /\ Loaded(req'[r])
    BY <1>1, GotoKeeps DEF TypeInv
  <2>2. req[r] \in RequestRecords
    BY <1>1 DEF TypeInv, ReqOK
  <2> QED
    BY <2>1, <2>2 DEF RequestRecords, Stages, Idle
<1>2. CASE Flush(r) \/ CloseRoom(r) \/ ForgetRoom(r)
  <2>1. PICK stage \in {"flushed", "closed", "forgotten"} :
          Goto(r, stage) /\ req[r].at # "idle" /\ (stage # "flushed" => req[r].kind = "end")
    BY <1>2 DEF Flush, CloseRoom, ForgetRoom, At
  <2>2. req[r] # Idle
    BY <2>1 DEF Idle
  <2> QED
    BY <1>1, <2>1, <2>2, GotoKeeps DEF Stages, TypeInv, ReqOK
<1>3. ASSUME NEW i \in Identities, Register(r, i)
      PROVE  /\ req[r] # Idle /\ Loaded(req[r])
             /\ \A o \in Requests : o # r => req'[o] = req[o]
             /\ ReqOK'
             /\ req'[r] # Idle /\ Loaded(req'[r])
             /\ req'[r].kind = req[r].kind /\ req'[r].status = req[r].status
             /\ req'[r].members = req[r].members /\ req'[r].for = req[r].for
  <2>1. req[r] # Idle /\ Loaded(req[r]) /\ req[r] \in RequestRecords /\ req[r].kind = "token"
    BY <1>3 DEF Register, Idle, TypeInv, ReqOK
  <2> DEFINE q1 == [req[r] EXCEPT !.at = "registered"]
  <2>2. req'[r] = [q1 EXCEPT !.who = {i}] /\ \A o \in Requests : o # r => req'[o] = req[o]
    BY <1>3 DEF Register, TypeInv, ReqOK
  <2>3. /\ q1 \in RequestRecords /\ q1.at = "registered" /\ q1.kind = "token"
        /\ q1.status = req[r].status /\ q1.members = req[r].members /\ q1.for = req[r].for
    BY <2>1 DEF RequestRecords, Stages
  <2> HIDE DEF q1
  <2>4. /\ req'[r] \in RequestRecords /\ req'[r].at = "registered" /\ req'[r].kind = "token"
        /\ req'[r].status = req[r].status /\ req'[r].members = req[r].members
        /\ req'[r].for = req[r].for
    BY <2>2, <2>3 DEF RequestRecords
  <2>5. req'[r] # Idle /\ Loaded(req'[r])
    BY <2>1, <2>4 DEF Loaded, Idle
  <2>6. DOMAIN req' = Requests /\ req' = [o \in Requests |-> req'[o]]
    BY <1>3 DEF Register, TypeInv, ReqOK
  <2> QED
    BY <2>1, <2>2, <2>4, <2>5, <2>6 DEF TypeInv, ReqOK
<1>4. CASE TokenCommit(r) \/ RecordCommit(r) \/ CancelCommit(r) \/ EndCommit(r)
             \/ InviteCommit(r) \/ LinkCommit(r) \/ RevokeCommit(r) \/ VisitCommit(r)
             \/ Interrupted(r)
  <2>1. Return(r) /\ req[r] # Idle
    BY <1>4 DEF TokenCommit, RecordCommit, CancelCommit, EndCommit, InviteCommit, LinkCommit,
       RevokeCommit, VisitCommit, Interrupted, At, Idle
  <2> QED
    BY <2>1, ReturnKeeps DEF TypeInv, ReqOK
<1> QED
  BY <1>2, <1>3, <1>4 DEF Handle

\* The steps of Next, as the invariants below see them.
LEMMA Steps ==
  ASSUME TypeInv, [Next]_vars
  PROVE  \/ UNCHANGED vars
         \/ \E f \in Forms, people \in SUBSET Invitees : Create(f, people)
         \/ \E r \in Requests : \E q : Load(r, q) /\ Suits(q)
         \/ \E r \in Requests : Handle(r) \/ Interrupted(r)
         \/ \E i \in Identities : Join(i) \/ Leave(i)
         \/ \E t \in Instants : Later(t)
         \/ Age
         \/ Restart
  BY Requested DEF Next

-----------------------------------------------------------------------------
(* Types                                                                   *)

\* What the operators on people make of a person is a person.
LEMMA PeopleStay ==
  ASSUME NEW p \in People
  PROVE  /\ Gone(p) \in People /\ Nameless(p) \in People /\ Dropped(p) \in People
         /\ Settled(p) \in People /\ Older(p) \in People
         /\ p # Unused => /\ [p EXCEPT !.token = "held"] \in People
                          /\ [p EXCEPT !.inRoom = TRUE] \in People
                          /\ Settled([p EXCEPT !.inRoom = FALSE]) \in People
<1> USE MeetingAssumption
<1>1. Unused \in People
  BY DEF People
<1>2. CASE p = Unused
  BY <1>1, <1>2 DEF Gone, Nameless, Dropped, Settled, Older
<1>3. CASE p # Unused
  <2>1. p \in [token : {"made", "held"}, for : Links \cup {Staff}, age : 0..NameTTL,
                named : BOOLEAN, inRoom : BOOLEAN]
    BY <1>3 DEF People
  <2>2. /\ Gone(p) \in People /\ Nameless(p) \in People /\ Dropped(p) \in People
        /\ Settled(p) \in People
        /\ [p EXCEPT !.token = "held"] \in People /\ [p EXCEPT !.inRoom = TRUE] \in People
    BY <1>1, <2>1 DEF Gone, Nameless, Dropped, Settled, People
  <2>3. Settled([p EXCEPT !.inRoom = FALSE]) \in People
    BY <1>1, <2>1 DEF Settled, People
  <2>4. Older(p) \in People
    <3>1. CASE p.age = NameTTL
      BY <3>1 DEF Older
    <3>2. CASE p.age # NameTTL
      <4> DEFINE q1 == [p EXCEPT !.age = @ + 1]
                 q2 == [p EXCEPT !.age = @ + 1, !.named = @ /\ p.age + 1 < NameTTL]
      <4>1. q1 \in [token : {"made", "held"}, for : Links \cup {Staff}, age : 0..NameTTL,
                     named : BOOLEAN, inRoom : BOOLEAN]
        BY <2>1, <3>2
      <4>2. q2 \in [token : {"made", "held"}, for : Links \cup {Staff}, age : 0..NameTTL,
                     named : BOOLEAN, inRoom : BOOLEAN]
        BY <2>1, <4>1
      <4> HIDE DEF q2
      <4>3. Settled(q2) \in People
        BY <1>1, <4>2 DEF Settled, People
      <4>4. Older(p) = Settled(q2)
        BY <1>3, <3>2 DEF Older, q2
      <4> QED
        BY <4>3, <4>4
    <3> QED
      BY <3>1, <3>2
  <2> QED
    BY <2>2, <2>3, <2>4
<1> QED
  BY <1>2, <1>3

\* A form that is accepted starts after now, and ends after it starts.
LEMMA GoodForm ==
  ASSUME TypeInv, NEW f \in Forms, FormErrors(f) = {}
  PROVE  f.start \in Nat /\ f.start + f.minutes \in Nat
<1>1. f.start > now
  <2>1. "start" \notin FormErrors(f)
    OBVIOUS
  <2> QED
    BY <2>1, MeetingAssumption DEF FormErrors, TypeInv, TypeOK
<1>2. f.minutes \in 5..480
  <2>1. "duration" \notin FormErrors(f)
    OBVIOUS
  <2> QED
    BY <2>1 DEF FormErrors
<1>3. now \in Nat
  BY MeetingAssumption DEF TypeInv, TypeOK
<1> QED
  BY <1>1, <1>2, <1>3, MeetingAssumption

LEMMA TypeInit == Init => TypeInv
<1> SUFFICES ASSUME Init PROVE TypeInv
  OBVIOUS
<1>1. \A r \in Requests : req[r] = Idle
  BY DEF Init
<1>2. ReqOK /\ Unborn /\ Pending
  BY <1>1 DEF Init, ReqOK, Unborn, Pending, Registered, Idle
<1>3. TypeOK
  <2>1. /\ uses \in [Links -> 0..MaxUses]
        /\ person \in [Identities -> People]
    BY MeetingAssumption DEF Init, People
  <2> QED
    BY <1>1, <2>1 DEF Init, TypeOK
<1> QED
  BY <1>2, <1>3 DEF TypeInv

\* The conjuncts of TypeOK that speak of one variable each, for a step that
\* changes the handlers.
LEMMA ReqTyped == ASSUME ReqOK PROVE \A r \in Requests : req[r] = Idle \/ req[r].kind \in Kinds
  BY DEF ReqOK, RequestRecords

\* Nothing takes a pending token away but the handler that made it.
LEMMA MadeStays ==
  ASSUME NEW p, p # Unused, p.token = "made", p \in People
  PROVE  /\ Gone(p) # Unused /\ Gone(p).token = "made"
         /\ Nameless(p) # Unused /\ Nameless(p).token = "made"
         /\ Older(p) # Unused /\ Older(p).token = "made"
         /\ [p EXCEPT !.inRoom = TRUE] # Unused /\ [p EXCEPT !.inRoom = TRUE].token = "made"
         /\ Settled([p EXCEPT !.inRoom = FALSE]) # Unused
         /\ Settled([p EXCEPT !.inRoom = FALSE]).token = "made"
<1>1. p \in [token : {"made", "held"}, for : Links \cup {Staff}, age : 0..NameTTL,
              named : BOOLEAN, inRoom : BOOLEAN]
  BY DEF People
<1> DEFINE q2 == [p EXCEPT !.age = @ + 1, !.named = @ /\ p.age + 1 < NameTTL]
<1>2. q2.token = "made"
  BY <1>1
<1>3. Older(p) \in {p, q2}
  BY <1>1, <1>2 DEF Older, Settled
<1> HIDE DEF q2
<1>4. Older(p) # Unused /\ Older(p).token = "made"
  BY <1>2, <1>3 DEF Unused
<1> QED
  BY <1>1, <1>4 DEF Gone, Nameless, Settled, Unused

LEMMA HandlerPending ==
  ASSUME TypeInv, NEW r \in Requests, Handle(r) \/ Interrupted(r)
  PROVE  Pending'
<1>1. \A o \in Requests : o # r => Registered(o)' = Registered(o)
  BY HandlerKeeps DEF Registered
<1>2. ASSUME Registered(r)' = {},
             \A i \in Identities : i \notin Registered(r) /\ person[i] # Unused
               /\ person[i].token = "made" =>
                 person'[i] # Unused /\ person'[i].token = "made"
      PROVE  Pending'
  BY <1>1, <1>2 DEF TypeInv, Pending, Registered
<1>3. ASSUME Return(r) PROVE Registered(r)' = {}
  BY <1>3, ReturnKeeps DEF Registered, Idle, TypeInv
<1>4. ASSUME NEW stage \in Stages \ {"registered"}, Goto(r, stage), req[r] # Idle
      PROVE  Registered(r)' = {}
  <2>1. req'[r] = [req[r] EXCEPT !.at = stage] /\ req[r] \in RequestRecords
    BY <1>4 DEF Goto, TypeInv, ReqOK
  <2> QED
    BY <1>4, <2>1 DEF Registered, RequestRecords
<1>5. person \in [Identities -> People] /\ req[r] # Idle
  BY HandlerKeeps DEF TypeInv, TypeOK
<1>6. CASE Flush(r)
  BY <1>2, <1>4, <1>5, <1>6 DEF Flush, Stages
<1>7. CASE CloseRoom(r) \/ ForgetRoom(r)
  <2>1. Registered(r)' = {}
    BY <1>4, <1>5, <1>7 DEF CloseRoom, ForgetRoom, Stages
  <2>2. \A i \in Identities : person'[i] \in {person[i], Gone(person[i]), Nameless(person[i])}
    BY <1>5, <1>7 DEF CloseRoom, ForgetRoom
  <2>3. ASSUME NEW i \in Identities, person[i] # Unused, person[i].token = "made"
        PROVE  person'[i] # Unused /\ person'[i].token = "made"
    <3>1. /\ Gone(person[i]) # Unused /\ Gone(person[i]).token = "made"
          /\ Nameless(person[i]) # Unused /\ Nameless(person[i]).token = "made"
      BY <1>5, <2>3, MadeStays
    <3> QED
      BY <2>2, <2>3, <3>1
  <2> QED
    BY <1>2, <2>1, <2>3
<1>8. ASSUME NEW i \in Identities, Register(r, i) PROVE Pending'
  <2>1. req[r].at # "registered" /\ person[i] = Unused /\ req[r] \in RequestRecords
    BY <1>5, <1>8 DEF Register, TypeInv, ReqOK
  <2>2. person' = [person EXCEPT ![i] = NewPerson(req[r].for)]
    BY <1>8 DEF Register
  <2>3. person'[i] # Unused /\ person'[i].token = "made"
    BY <1>5, <2>2 DEF NewPerson, Unused
  <2>4. \A j \in Identities : j # i => person'[j] = person[j]
    BY <1>5, <2>2
  <2>5. req'[r].who = {i}
    <3> DEFINE q1 == [req[r] EXCEPT !.at = "registered"]
    <3>1. req'[r] = [q1 EXCEPT !.who = {i}]
      BY <1>8 DEF Register, TypeInv, ReqOK
    <3>2. q1 \in RequestRecords
      BY <2>1 DEF RequestRecords, Stages
    <3> HIDE DEF q1
    <3> QED
      BY <3>1, <3>2 DEF RequestRecords
  <2>6. Registered(r)' \subseteq {i}
    BY <2>5 DEF Registered
  <2>7. \A o \in Requests : o # r => i \notin Registered(o)'
    BY <1>1, <2>1 DEF TypeInv, Pending
  <2>8. ASSUME NEW o \in Requests, NEW j \in Registered(o)'
        PROVE  /\ person'[j] # Unused /\ person'[j].token = "made"
               /\ \A o2 \in Requests : j \in Registered(o2)' => o2 = o
    <3>1. CASE o = r
      BY <2>3, <2>6, <2>7, <2>8, <3>1
    <3>2. CASE o # r
      <4>1. j \in Registered(o) /\ j # i /\ j \in Identities
        BY <1>1, <2>7, <2>8, <3>2 DEF Registered
      <4>2. \A o2 \in Requests : j \in Registered(o2)' => o2 # r
        BY <2>6, <4>1
      <4> QED
        BY <1>1, <2>4, <4>1, <4>2 DEF TypeInv, Pending
    <3> QED
      BY <3>1, <3>2
  <2> QED
    BY <2>8 DEF Pending, Registered
<1>9. CASE TokenCommit(r)
  <2>1. Registered(r)' = {}
    BY <1>3, <1>9 DEF TokenCommit
  <2>2. \A i \in Identities : i \notin Registered(r) => person'[i] = person[i]
    BY <1>9 DEF TokenCommit, At, Registered
  <2> QED
    BY <1>2, <2>1, <2>2
<1>10. CASE Interrupted(r)
  <2>1. Registered(r)' = {}
    BY <1>3, <1>10 DEF Interrupted
  <2>2. \A i \in Identities : i \notin Registered(r) => person'[i] = person[i]
    BY <1>10 DEF Interrupted, Registered
  <2> QED
    BY <1>2, <2>1, <2>2
<1>11. CASE RecordCommit(r) \/ CancelCommit(r) \/ EndCommit(r)
             \/ InviteCommit(r) \/ LinkCommit(r) \/ RevokeCommit(r) \/ VisitCommit(r)
  <2>1. Return(r) /\ UNCHANGED person
    BY <1>11 DEF RecordCommit, CancelCommit, EndCommit, InviteCommit, LinkCommit,
       RevokeCommit, VisitCommit
  <2> QED
    BY <1>2, <1>3, <2>1
<1> QED
  BY <1>6, <1>7, <1>8, <1>9, <1>10, <1>11 DEF Handle

LEMMA HandlerTypes ==
  ASSUME TypeInv, NEW r \in Requests, Handle(r) \/ Interrupted(r)
  PROVE  TypeInv'
<1> USE MeetingAssumption
<1>1. req[r] # Idle /\ Loaded(req[r]) /\ ReqOK'
  BY HandlerKeeps
<1>2. \A o \in Requests : req'[o] = Idle \/ req'[o].kind \in Kinds
  BY <1>1, ReqTyped DEF ReqOK, RequestRecords
<1>3. status # "none"
  BY <1>1 DEF TypeInv, Unborn
<1>4. SUFFICES TypeOK' /\ Unborn'
  BY <1>1, HandlerPending DEF TypeInv
<1>5. ASSUME UNCHANGED <<rowVars, linkVars, now, told>>, person' \in [Identities -> People],
             amnesia' \in BOOLEAN
      PROVE  TypeOK' /\ Unborn'
  BY <1>2, <1>3, <1>5 DEF rowVars, linkVars, TypeInv, TypeOK, Unborn
<1>6. person \in [Identities -> People] /\ amnesia \in BOOLEAN
  BY DEF TypeInv, TypeOK
<1>7. CASE Flush(r)
  BY <1>5, <1>6, <1>7 DEF Flush
<1>8. ASSUME NEW i \in Identities, Register(r, i) PROVE TypeOK' /\ Unborn'
  <2>1. NewPerson(req[r].for) \in People
    BY <1>1 DEF NewPerson, People, Loaded, RequestRecords
  <2> QED
    BY <1>5, <1>6, <1>8, <2>1 DEF Register
<1>9. CASE CloseRoom(r) \/ ForgetRoom(r) \/ Interrupted(r)
  <2>1. person' \in [Identities -> People]
    BY <1>6, <1>9, PeopleStay DEF CloseRoom, ForgetRoom, Interrupted
  <2> QED
    BY <1>5, <1>6, <1>9, <2>1 DEF CloseRoom, ForgetRoom, Interrupted
<1>10. ASSUME UNCHANGED <<members, start, end, linkVars, now, told, amnesia>>,
              status' \in Statuses \ {"none"}, person' \in [Identities -> People]
       PROVE  TypeOK' /\ Unborn'
  BY <1>2, <1>10 DEF linkVars, Statuses, TypeInv, TypeOK, Unborn
<1>11. CASE TokenCommit(r)
  <2>1. status' \in Statuses \ {"none"}
    BY <1>3, <1>11 DEF TokenCommit, Moved, Statuses, TypeInv, TypeOK
  <2>2. \A i \in Identities : i \in req[r].who => person[i] # Unused
    BY <1>11 DEF TokenCommit, At, TypeInv, Pending, Registered
  <2>3. \A i \in Identities : i \in req[r].who =>
          [person[i] EXCEPT !.token = "held"] \in People
    BY <1>6, <2>2, PeopleStay
  <2>4. person' \in [Identities -> People]
    BY <1>6, <1>11, <2>3 DEF TokenCommit
  <2> QED
    BY <1>10, <1>11, <2>1, <2>4 DEF TokenCommit
<1>12. CASE RecordCommit(r)
  BY <1>3, <1>6, <1>10, <1>12 DEF RecordCommit, Moved, Statuses, TypeInv, TypeOK
<1>13. CASE CancelCommit(r) \/ EndCommit(r)
  BY <1>6, <1>10, <1>13 DEF CancelCommit, EndCommit, Statuses
<1>14. CASE InviteCommit(r)
  <2>1. req[r].who \subseteq Users
    BY <1>1, <1>14 DEF InviteCommit, At, Loaded
  <2> QED
    BY <1>2, <1>3, <1>14, <2>1 DEF InviteCommit, linkVars, TypeInv, TypeOK, Unborn
<1>15. CASE LinkCommit(r) \/ RevokeCommit(r)
  <2>1. link' \in [Links -> {"none", "open", "revoked"}]
    BY <1>15 DEF LinkCommit, RevokeCommit, TypeInv, TypeOK
  <2> QED
    BY <1>2, <1>3, <1>15, <2>1 DEF LinkCommit, RevokeCommit, rowVars, TypeInv, TypeOK, Unborn
<1>16. CASE VisitCommit(r)
  <2>1. req[r].uses \in Nat /\ req[r].uses < MaxUses
    BY <1>1, <1>16 DEF VisitCommit, At, Loaded, RequestRecords
  <2>2. req[r].uses + 1 \in 0..MaxUses
    BY <2>1
  <2>3. uses' \in [Links -> 0..MaxUses]
    BY <1>16, <2>2 DEF VisitCommit, TypeInv, TypeOK
  <2> QED
    BY <1>2, <1>3, <1>16, <2>3 DEF VisitCommit, rowVars, TypeInv, TypeOK, Unborn
<1> QED
  BY <1>7, <1>8, <1>9, <1>11, <1>12, <1>13, <1>14, <1>15, <1>16 DEF Handle

LEMMA TypeStep == TypeInv /\ [Next]_vars => TypeInv'
<1> SUFFICES ASSUME TypeInv, [Next]_vars PROVE TypeInv'
  OBVIOUS
<1> USE MeetingAssumption, PermissionsAssumption
<1>1. CASE UNCHANGED vars
  BY <1>1 DEF vars, rowVars, linkVars, TypeInv, TypeOK, ReqOK, Unborn, Pending, Registered
<1>2. ASSUME NEW f \in Forms, NEW people \in SUBSET Invitees, Create(f, people) PROVE TypeInv'
  <2>1. start' \in Nat /\ end' \in Nat
    BY <1>2, GoodForm DEF Create
  <2>2. members' \subseteq Users /\ told' \subseteq Users
    BY <1>2 DEF Create
  <2> QED
    BY <1>2, <2>1, <2>2 DEF Create, linkVars, TypeInv, TypeOK, ReqOK, Unborn, Pending, Registered
<1>3. ASSUME NEW r \in Requests, NEW q, Load(r, q), Suits(q) PROVE TypeInv'
  <2>1. Loaded(q) /\ status # "none"
    BY <1>3 DEF Suits, Loaded
  <2>2. ReqOK' /\ UNCHANGED <<rowVars, linkVars, person, now, told, amnesia>>
    BY <1>3, <2>1, LoadKeeps DEF TypeInv
  <2>3. \A o \in Requests : req'[o] = Idle \/ req'[o].kind \in Kinds
    BY <2>2 DEF ReqOK, RequestRecords
  <2>4. Registered(r)' = {} /\ \A o \in Requests : o # r => Registered(o)' = Registered(o)
    BY <1>3, <2>1, LoadKeeps DEF Suits, Registered, TypeInv
  <2>5. Pending'
    BY <2>2, <2>4 DEF TypeInv, Pending
  <2> QED
    BY <2>1, <2>2, <2>3, <2>5 DEF rowVars, linkVars, TypeInv, TypeOK, Unborn
<1>4. ASSUME NEW r \in Requests, Handle(r) \/ Interrupted(r) PROVE TypeInv'
  BY <1>4, HandlerTypes
<1>5. ASSUME UNCHANGED <<rowVars, linkVars, now, req, told, amnesia>>,
             person' \in [Identities -> People],
             \A i \in Identities : person[i] # Unused /\ person[i].token = "made" =>
               person'[i] # Unused /\ person'[i].token = "made"
      PROVE  TypeInv'
  <2>1. Pending'
    BY <1>5 DEF TypeInv, Pending, Registered
  <2> QED
    BY <1>5, <2>1 DEF rowVars, linkVars, TypeInv, TypeOK, ReqOK, Unborn
<1>6. ASSUME NEW i \in Identities, Join(i) \/ Leave(i) PROVE TypeInv'
  <2>1. person[i] # Unused /\ person[i] \in People
    BY <1>6 DEF Join, Leave, Valid, InRoom, TypeInv, TypeOK
  <2>2. /\ person' = [person EXCEPT ![i] = [person[i] EXCEPT !.inRoom = TRUE]]
           \/ person' = [person EXCEPT ![i] = Settled([person[i] EXCEPT !.inRoom = FALSE])]
        /\ UNCHANGED <<rowVars, linkVars, now, req, told, amnesia>>
    BY <1>6 DEF Join, Leave
  <2>3. person' \in [Identities -> People]
    BY <2>1, <2>2, PeopleStay DEF TypeInv, TypeOK
  <2>4. ASSUME NEW j \in Identities, person[j] # Unused, person[j].token = "made"
        PROVE  person'[j] # Unused /\ person'[j].token = "made"
    <3> DEFINE p == person[j]
    <3>1. p \in People
      BY DEF TypeInv, TypeOK
    <3>2. p # Unused /\ p.token = "made"
      BY <2>4
    <3> HIDE DEF p
    <3>3. /\ [p EXCEPT !.inRoom = TRUE] # Unused /\ [p EXCEPT !.inRoom = TRUE].token = "made"
          /\ Settled([p EXCEPT !.inRoom = FALSE]) # Unused
          /\ Settled([p EXCEPT !.inRoom = FALSE]).token = "made"
      BY <3>1, <3>2, MadeStays
    <3>4. person'[j] \in {p, [p EXCEPT !.inRoom = TRUE], Settled([p EXCEPT !.inRoom = FALSE])}
      <4>1. person \in [Identities -> People]
        BY DEF TypeInv, TypeOK
      <4>2. CASE j = i
        BY <2>2, <4>1, <4>2 DEF p
      <4>3. CASE j # i
        BY <2>2, <4>1, <4>3 DEF p
      <4> QED
        BY <4>2, <4>3
    <3> QED
      BY <3>2, <3>3, <3>4
  <2> QED
    BY <1>5, <2>2, <2>3, <2>4
<1>7. ASSUME NEW t \in Instants, Later(t) PROVE TypeInv'
  BY <1>7 DEF Later, rowVars, linkVars, TypeInv, TypeOK, ReqOK, Unborn, Pending, Registered
<1>8. CASE Age
  <2>1. /\ \A i \in Identities : person'[i] = Older(person[i]) /\ person[i] \in People
        /\ person' \in [Identities -> People]
        /\ UNCHANGED <<rowVars, linkVars, now, req, told, amnesia>>
    BY <1>8, PeopleStay DEF Age, TypeInv, TypeOK
  <2>2. ASSUME NEW j \in Identities, person[j] # Unused, person[j].token = "made"
        PROVE  person'[j] # Unused /\ person'[j].token = "made"
    <3>1. Older(person[j]) # Unused /\ Older(person[j]).token = "made"
      BY <2>1, <2>2, MadeStays
    <3> QED
      BY <2>1, <3>1
  <2> QED
    BY <1>5, <2>1, <2>2
<1>9. CASE Restart
  <2>1. \A p \in People : Dropped(Nameless(p)) \in People
    BY PeopleStay
  <2>2. person' \in [Identities -> People]
    BY <1>9, <2>1 DEF Restart, TypeInv, TypeOK
  <2> QED
    BY <1>9, <2>2 DEF Restart, rowVars, linkVars, TypeInv, TypeOK, ReqOK, Unborn, Pending,
       Registered, Idle
<1> QED
  BY <1>1, <1>2, <1>3, <1>4, <1>6, <1>7, <1>8, <1>9, Steps

LEMMA TypesAlways == Spec => []TypeInv
  BY TypeInit, TypeStep, PTL DEF Spec

\* The type invariant of a meeting.
THEOREM MeetingTypes == Spec => []TypeOK
<1>1. TypeInv => TypeOK
  BY DEF TypeInv
<1> QED
  BY <1>1, TypesAlways, PTL

-----------------------------------------------------------------------------
(* What lists and pages show                                               *)

\* The role decides alike in Python and in the SELECT.
LEMMA RolesAgree ==
  ASSUME NEW u \in Users, NEW people
  PROVE  /\ May(u, people, "view_meeting") <=> Visible(u, people)
         /\ May(u, people, "join_room") <=> Visible(u, people)
         /\ May(u, people, "play_recording") <=> Visible(u, people)
<1>1. RoleFor(u, people) \in {"admin", "host", "invited", "other"}
  BY DEF RoleFor
<1>2. Visible(u, people) <=> RoleFor(u, people) # "other"
  BY DEF RoleFor, Visible
<1>3. ASSUME NEW action \in {"view_meeting", "join_room", "play_recording"},
             NEW role \in {"admin", "host", "invited", "other"}
      PROVE  IsAllowed(role, action) <=> role # "other"
  BY <1>3 DEF IsAllowed, Matrix, Actions
<1> HIDE DEF IsAllowed
<1>4. ASSUME NEW action \in {"view_meeting", "join_room", "play_recording"}
      PROVE  May(u, people, action) <=> IsAllowed(RoleFor(u, people), action)
             /\ IsAllowed(RoleFor(u, people), "view_meeting")
  BY <1>4 DEF May, Access
<1> QED
  BY <1>1, <1>2, <1>3, <1>4

\* The lists and the checks of single pages agree, whoever the admins, the host
\* and the members are: ListedOpens in every state.
THEOREM ListsAreRight == Spec => []ListedOpens
<1>1. ListedOpens
  <2>1. ASSUME NEW u \in Users
        PROVE  /\ Library(u) <=> Detail(u)
               /\ Dashboard(u) => Lobby(u)
    BY RolesAgree DEF Library, Detail, Dashboard, Lobby, Can
  <2>2. ASSUME NEW u \in Users, NEW recording \in {"ready", "deleted"}
        PROVE  (Library(u) /\ recording # "deleted") <=>
               (Exists /\ RecordingAccess(u, members, recording, "play_recording") = "ok")
    BY RolesAgree DEF Library, RecordingAccess, May
  <2> QED
    BY <2>1, <2>2 DEF ListedOpens
<1> QED
  BY <1>1, PTL


-----------------------------------------------------------------------------
(* Invitations                                                             *)

InviteInv ==
  /\ told \subseteq members
  /\ \A r \in Requests : req[r] # Idle /\ req[r].kind = "invite" => req[r].members \subseteq members

LEMMA InviteStep == TypeInv /\ InviteInv /\ [Next]_vars => InviteInv'
<1> SUFFICES ASSUME TypeInv, InviteInv, [Next]_vars PROVE InviteInv'
  OBVIOUS
<1>1. CASE UNCHANGED vars
  BY <1>1 DEF vars, rowVars, InviteInv
<1>2. ASSUME NEW f \in Forms, NEW people \in SUBSET Invitees, Create(f, people) PROVE InviteInv'
  BY <1>2 DEF Create, TypeInv, Unborn, InviteInv
<1>3. ASSUME NEW r \in Requests, NEW q, Load(r, q), Suits(q) PROVE InviteInv'
  <2>1. /\ req'[r] = q /\ \A o \in Requests : o # r => req'[o] = req[o]
        /\ UNCHANGED <<rowVars, told>>
    BY <1>3, LoadKeeps DEF TypeInv, Suits
  <2> QED
    BY <1>3, <2>1 DEF InviteInv, rowVars, Suits
<1>4. ASSUME NEW r \in Requests, Handle(r) \/ Interrupted(r) PROVE InviteInv'
  <2>1. members \subseteq members' /\ told' \subseteq members'
    <3>1. CASE InviteCommit(r)
      <4>1. req[r].members \subseteq members
        BY <3>1, HandlerKeeps, <1>4 DEF InviteCommit, At, InviteInv
      <4> QED
        BY <3>1, <4>1 DEF InviteCommit, InviteInv
    <3>2. CASE ~InviteCommit(r)
      <4>1. UNCHANGED <<members, told>>
        BY <1>4, <3>2 DEF Handle, Flush, Register, TokenCommit, RecordCommit, CancelCommit,
           CloseRoom, ForgetRoom, EndCommit, LinkCommit, RevokeCommit, VisitCommit, Interrupted,
           rowVars
      <4> QED
        BY <4>1 DEF InviteInv
    <3> QED
      BY <3>1, <3>2
  <2>2. /\ \A o \in Requests : o # r => req'[o] = req[o]
        /\ req'[r] # Idle => req'[r].kind = req[r].kind /\ req'[r].members = req[r].members
        /\ req[r] # Idle
    BY <1>4, HandlerKeeps
  <2> QED
    BY <2>1, <2>2 DEF InviteInv
<1>5. CASE \/ \E i \in Identities : Join(i) \/ Leave(i)
           \/ \E t \in Instants : Later(t)
           \/ Age
           \/ Restart
  <2>1. UNCHANGED <<members, told>> /\ \A r \in Requests : req'[r] \in {req[r], Idle}
    BY <1>5 DEF Join, Leave, Later, Age, Restart, rowVars
  <2> QED
    BY <2>1 DEF InviteInv
<1> QED
  BY <1>1, <1>2, <1>3, <1>4, <1>5, Steps

\* No request that works on an older list of members takes a confirmed
\* invitation back, however many overlap.
THEOREM InvitationsStay == Spec => []InvitedStay
<1>1. Init => InviteInv
  BY DEF Init, InviteInv
<1>2. InviteInv => InvitedStay
  BY DEF InviteInv, InvitedStay
<1> QED
  BY <1>1, <1>2, InviteStep, TypesAlways, PTL DEF Spec

-----------------------------------------------------------------------------
(* Guest links                                                             *)

\* A link that is being created is not stored yet, and no other request
\* creates it; a link that is being revoked was stored.
LinkInv ==
  \A r \in Requests : req[r] # Idle =>
    /\ req[r].kind = "link" =>
         /\ link[req[r].for] = "none"
         /\ \A o \in Requests : o # r /\ req[o] # Idle /\ req[o].kind = "link" =>
              req[o].for # req[r].for
    /\ req[r].kind = "revoke" => link[req[r].for] # "none"

LEMMA LinkStep ==
  ASSUME TypeInv, LinkInv, [Next]_vars
  PROVE  LinkInv' /\ \A l \in Links : link[l] = "revoked" => link'[l] = "revoked"
<1>1. CASE UNCHANGED vars
  BY <1>1 DEF vars, linkVars, LinkInv
<1>2. ASSUME NEW f \in Forms, NEW people \in SUBSET Invitees, Create(f, people)
      PROVE  LinkInv' /\ UNCHANGED link
  BY <1>2 DEF Create, linkVars, LinkInv
<1>3. ASSUME NEW r \in Requests, NEW q, Load(r, q), Suits(q) PROVE LinkInv' /\ UNCHANGED link
  <2>1. /\ req'[r] = q /\ \A o \in Requests : o # r => req'[o] = req[o]
        /\ UNCHANGED link
    BY <1>3, LoadKeeps DEF TypeInv, Suits, linkVars
  <2>2. /\ q.kind = "link" => link[q.for] = "none" /\ \A o \in Running("link") : req[o].for # q.for
        /\ q.kind = "revoke" => link[q.for] # "none"
    BY <1>3 DEF Suits
  <2> QED
    BY <2>1, <2>2 DEF LinkInv, Running
<1>4. ASSUME NEW r \in Requests, Handle(r) \/ Interrupted(r)
      PROVE  LinkInv' /\ \A l \in Links : link[l] = "revoked" => link'[l] = "revoked"
  <2>1. /\ \A o \in Requests : o # r => req'[o] = req[o]
        /\ req'[r] # Idle => req'[r].kind = req[r].kind /\ req'[r].for = req[r].for
        /\ req[r] # Idle /\ Loaded(req[r])
    BY <1>4, HandlerKeeps
  <2>2. link \in [Links -> {"none", "open", "revoked"}]
    BY DEF TypeInv, TypeOK
  <2>3. CASE LinkCommit(r) \/ RevokeCommit(r)
    <3> DEFINE l == req[r].for
    <3>1. l \in Links /\ req'[r] = Idle
      BY <2>1, <2>3, ReturnKeeps DEF LinkCommit, RevokeCommit, At, Loaded, TypeInv
    <3>2. /\ link'[l] \in {"open", "revoked"}
          /\ link[l] = "revoked" => link'[l] = "revoked"
      BY <2>1, <2>2, <2>3, <3>1 DEF LinkCommit, RevokeCommit, At, LinkInv
    <3>3. \A k \in Links : k # l => link'[k] = link[k]
      BY <2>2, <2>3 DEF LinkCommit, RevokeCommit
    <3>4. ASSUME NEW o \in Requests, o # r, req[o] # Idle, req[o].kind = "link"
          PROVE  req[o].for # l /\ req[o].for \in Links
      <4>1. req[o].for \in Links
        BY <3>4 DEF TypeInv, ReqOK, Loaded
      <4> QED
        BY <2>1, <2>3, <3>4, <4>1 DEF LinkInv, LinkCommit, RevokeCommit, At
    <3>5. ASSUME NEW o \in Requests, o # r, req[o] # Idle, req[o].kind = "revoke"
          PROVE  link'[req[o].for] # "none"
      <4>1. req[o].for \in Links /\ link[req[o].for] # "none"
        BY <3>5 DEF TypeInv, ReqOK, Loaded, LinkInv
      <4> QED
        BY <3>2, <3>3, <4>1
    <3> HIDE DEF l
    <3> QED
      BY <2>1, <3>1, <3>2, <3>3, <3>4, <3>5 DEF LinkInv
  <2>4. CASE ~(LinkCommit(r) \/ RevokeCommit(r))
    <3>1. UNCHANGED link
      BY <1>4, <2>4 DEF Handle, Flush, Register, TokenCommit, RecordCommit, CancelCommit,
         CloseRoom, ForgetRoom, EndCommit, InviteCommit, VisitCommit, Interrupted, linkVars
    <3> QED
      BY <2>1, <3>1 DEF LinkInv
  <2> QED
    BY <2>3, <2>4
<1>5. CASE \/ \E i \in Identities : Join(i) \/ Leave(i)
           \/ \E t \in Instants : Later(t)
           \/ Age
           \/ Restart
  <2>1. UNCHANGED link /\ \A r \in Requests : req'[r] \in {req[r], Idle}
    BY <1>5 DEF Join, Leave, Later, Age, Restart, linkVars
  <2> QED
    BY <2>1 DEF LinkInv
<1> QED
  BY <1>1, <1>2, <1>3, <1>4, <1>5, Steps

\* A revoked link stays revoked, whatever other requests had loaded it before.
THEOREM RevokedStays == Spec => RevokedIsFinal
<1>1. Init => LinkInv
  BY DEF Init, LinkInv
<1>2. TypeInv /\ LinkInv /\ [Next]_vars => LinkInv'
  BY LinkStep
<1>3. TypeInv /\ LinkInv /\ [Next]_vars =>
        [\A l \in Links : link[l] = "revoked" => link'[l] = "revoked"]_vars
  BY LinkStep
<1> QED
  BY <1>1, <1>2, <1>3, TypesAlways, PTL DEF Spec, RevokedIsFinal

-----------------------------------------------------------------------------
(* The status, when requests that write it do not overlap                  *)

\* The one request that writes the status knows what it is; the others that
\* were let in knew a live meeting.
Knows(r) ==
  /\ Writes(req[r]) =>
       /\ status = req[r].status
       /\ req[r].kind = "cancel" => status = "scheduled"
       /\ req[r].kind = "end" => status = "live"
       /\ \A o \in Requests : Writes(req[o]) => o = r
  /\ req[r] # Idle /\ req[r].kind \in {"token", "record"} =>
       /\ req[r].status \in Open
       /\ req[r].status = "live" => status \in {"live", "ended"}

WriterInv == \A r \in Requests : Knows(r)

\* A step that touches neither the status nor what handlers have loaded.
LEMMA KnowsStill ==
  ASSUME WriterInv, UNCHANGED status,
         \A r \in Requests : \/ req'[r] \in {req[r], Idle}
                             \/ /\ req[r] # Idle
                                /\ req'[r].kind = req[r].kind /\ req'[r].status = req[r].status
  PROVE  WriterInv'
<1>1. \A r \in Requests : Writes(req[r])' => Writes(req[r]) /\ req'[r] # Idle
  BY DEF Writes, Idle
<1>2. \A r \in Requests : req'[r] # Idle =>
        req[r] # Idle /\ req'[r].kind = req[r].kind /\ req'[r].status = req[r].status
  OBVIOUS
<1> QED
  BY <1>1, <1>2 DEF WriterInv, Knows

Legal ==
  /\ status \in {"ended", "cancelled"} => status' = status
  /\ status = "live" => status' \in {"live", "ended"}
  /\ status = "scheduled" => status' # "ended"

\* The commit of a request that writes the status.
LEMMA WriterCommits ==
  ASSUME TypeInv, WriterInv, NEW r \in Requests, Writes(req[r]), req'[r] = Idle,
         \A o \in Requests : o # r => req'[o] = req[o],
         status' = CASE req[r].kind = "cancel" -> "cancelled"
                     [] req[r].kind = "end" -> "ended"
                     [] OTHER -> "live"
  PROVE  Legal /\ WriterInv'
<1>1. \A o \in Requests : ~Writes(req[o])'
  BY DEF WriterInv, Knows, Writes
<1>2. status \in Open /\ (status = "live" => req[r].kind = "end" /\ status' = "ended")
  BY DEF WriterInv, Knows, Writes, Open
<1>3. status = "scheduled" => status' # "ended"
  BY DEF WriterInv, Knows, Writes
<1>4. Legal
  BY <1>2, <1>3 DEF Legal, Open
<1>5. ASSUME NEW o \in Requests, req'[o] # Idle, req'[o].kind \in {"token", "record"}
      PROVE  /\ req'[o].status \in Open
             /\ req'[o].status = "live" => status' \in {"live", "ended"}
  <2>1. o # r /\ req'[o] = req[o]
    BY <1>5
  <2> QED
    BY <1>2, <1>4, <1>5, <2>1 DEF WriterInv, Knows, Legal
<1>6. WriterInv'
  BY <1>1, <1>5 DEF WriterInv, Knows
<1> QED
  BY <1>4, <1>6

LEMMA WriterStep ==
  ASSUME ~WritersOverlap, TypeInv, WriterInv, [Next]_vars
  PROVE  Legal /\ WriterInv'
<1>0. UNCHANGED status => Legal
  BY DEF Legal
<1>1. CASE UNCHANGED vars
  <2>1. UNCHANGED <<status, req>>
    BY <1>1 DEF vars, rowVars
  <2> QED
    BY <1>0, <2>1, KnowsStill
<1>2. ASSUME NEW f \in Forms, NEW people \in SUBSET Invitees, Create(f, people)
      PROVE  Legal /\ WriterInv'
  <2>1. status = "none" /\ \A r \in Requests : req'[r] = Idle
    BY <1>2 DEF Create, TypeInv, Unborn
  <2> QED
    BY <2>1 DEF Legal, WriterInv, Knows, Writes
<1>3. ASSUME NEW r \in Requests, NEW q, Load(r, q), Suits(q) PROVE Legal /\ WriterInv'
  <2>1. /\ req'[r] = q /\ \A o \in Requests : o # r => req'[o] = req[o]
        /\ UNCHANGED status
        /\ Writes(q) => \A o \in Requests : ~Writes(req[o])
    BY <1>3, LoadKeeps DEF TypeInv, Suits, rowVars
  <2>2. Knows(r)'
    <3>1. Writes(q) => \A o \in Requests : Writes(req[o])' => o = r
      BY <2>1
    <3>2. /\ q.status = status
          /\ q.kind = "cancel" => status = "scheduled"
          /\ q.kind = "end" => status = "live"
          /\ q.kind \in {"token", "record"} => status \in Open
      BY <1>3 DEF Suits
    <3> QED
      BY <2>1, <3>1, <3>2 DEF Knows
  <2>3. ASSUME NEW o \in Requests, o # r PROVE Knows(o)'
    <3>1. Writes(q) => ~Writes(req[o])
      BY <2>1
    <3>2. req'[o] = req[o] /\ (Writes(req[o])' <=> Writes(req[o]))
      BY <2>1, <2>3
    <3>3. Writes(req[o]) => \A p \in Requests : Writes(req[p])' => p = o
      BY <2>1, <2>3, <3>1 DEF WriterInv, Knows
    <3> QED
      BY <2>1, <3>2, <3>3 DEF WriterInv, Knows
  <2> QED
    BY <1>0, <2>1, <2>2, <2>3 DEF WriterInv
<1>4. ASSUME NEW r \in Requests, Handle(r) \/ Interrupted(r) PROVE Legal /\ WriterInv'
  <2>1. /\ req[r] # Idle /\ Loaded(req[r])
        /\ \A o \in Requests : o # r => req'[o] = req[o]
        /\ \/ req'[r] = Idle
           \/ /\ req'[r] # Idle
              /\ req'[r].kind = req[r].kind /\ req'[r].status = req[r].status
    BY <1>4, HandlerKeeps
  <2>2. CASE UNCHANGED status
    BY <1>0, <2>1, <2>2, KnowsStill
  <2>3. CASE TokenCommit(r) \/ RecordCommit(r)
    <3>1. Return(r) /\ status' = Moved(req[r], "live")
          /\ req[r].kind \in {"token", "record"}
      BY <2>3 DEF TokenCommit, RecordCommit, At
    <3>2. CASE Writes(req[r])
      BY <2>1, <3>1, <3>2, ReturnKeeps, WriterCommits DEF Moved, TypeInv
    <3>3. CASE ~Writes(req[r])
      BY <2>2, <3>1, <3>3 DEF Moved
    <3> QED
      BY <3>2, <3>3
  <2>4. CASE CancelCommit(r) \/ EndCommit(r)
    <3> DEFINE kind == req[r].kind
    <3>1. \/ kind = "cancel" /\ status' = "cancelled"
          \/ kind = "end" /\ status' = "ended"
      BY <2>4 DEF CancelCommit, EndCommit, At
    <3>2. Return(r) /\ Writes(req[r])
      BY <2>1, <2>4 DEF CancelCommit, EndCommit, At, Writes
    <3>3. status' = CASE kind = "cancel" -> "cancelled"
                      [] kind = "end" -> "ended"
                      [] OTHER -> "live"
      <4> HIDE DEF kind
      <4> QED
        BY <3>1
    <3>4. req'[r] = Idle
      BY <3>2, ReturnKeeps DEF TypeInv
    <3> QED
      BY <2>1, <3>2, <3>3, <3>4, WriterCommits
  <2>5. \/ TokenCommit(r) \/ RecordCommit(r) \/ CancelCommit(r) \/ EndCommit(r)
        \/ UNCHANGED status
    BY <1>4 DEF Handle, Flush, Register, CloseRoom, ForgetRoom, InviteCommit, LinkCommit,
       RevokeCommit, VisitCommit, Interrupted, rowVars
  <2> QED
    BY <2>2, <2>3, <2>4, <2>5
<1>5. CASE \/ \E i \in Identities : Join(i) \/ Leave(i)
           \/ \E t \in Instants : Later(t)
           \/ Age
           \/ Restart
  <2>1. UNCHANGED status /\ \A r \in Requests : req'[r] \in {req[r], Idle}
    BY <1>5 DEF Join, Leave, Later, Age, Restart, rowVars
  <2> QED
    BY <1>0, <2>1, KnowsStill
<1> QED
  BY <1>1, <1>2, <1>3, <1>4, <1>5, Steps

LEMMA WritersAlways == ASSUME ~WritersOverlap PROVE Spec => [](TypeInv /\ WriterInv)
<1>1. Init => WriterInv
  BY DEF Init, WriterInv, Knows, Writes
<1>2. TypeInv /\ WriterInv /\ [Next]_vars => WriterInv'
  BY WriterStep
<1> QED
  BY <1>1, <1>2, TypesAlways, PTL DEF Spec

\* Illegal jumps are refused although the status was checked on a row loaded
\* before, if requests that write it do not overlap.
THEOREM MovesAreLegal == ASSUME ~WritersOverlap PROVE Spec => LegalMoves
<1>1. TypeInv /\ WriterInv /\ [Next]_vars =>
        [/\ status \in {"ended", "cancelled"} => status' = status
         /\ status = "live" => status' \in {"live", "ended"}
         /\ status = "scheduled" => status' # "ended"]_vars
  BY WriterStep DEF Legal
<1> QED
  BY <1>1, WritersAlways, PTL DEF Spec, LegalMoves

-----------------------------------------------------------------------------
(* Who is where, in a meeting that has not been live                       *)

Early == {"none", "scheduled", "cancelled"}
Waiting(p) == p # Unused => p.token = "made" /\ ~p.inRoom
WaitingInv == status \in Early => \A i \in Identities : Waiting(person[i])

LEMMA WaitingStays ==
  ASSUME NEW p \in People, Waiting(p)
  PROVE  /\ Waiting(Gone(p)) /\ Waiting(Nameless(p)) /\ Waiting(Older(p))
         /\ Waiting(Dropped(p)) /\ Waiting(Dropped(Nameless(p)))
<1>1. CASE p = Unused
  BY <1>1 DEF Gone, Nameless, Older, Dropped, Waiting
<1>2. CASE p # Unused
  <2>1. p \in [token : {"made", "held"}, for : Links \cup {Staff}, age : 0..NameTTL,
                named : BOOLEAN, inRoom : BOOLEAN]
    BY <1>2 DEF People
  <2>2. p.token = "made" /\ ~p.inRoom
    BY <1>2 DEF Waiting
  <2>3. Waiting(Gone(p)) /\ Waiting(Nameless(p)) /\ Waiting(Dropped(p))
    BY <2>1, <2>2 DEF Gone, Nameless, Dropped, Waiting
  <2>4. Waiting(Dropped(Nameless(p)))
    BY <1>2, <2>1, <2>2 DEF Nameless, Dropped, Waiting
  <2>5. Waiting(Older(p))
    <3>1. Older(p) \in {p, Unused, [p EXCEPT !.age = @ + 1, !.named = @ /\ p.age + 1 < NameTTL]}
      BY DEF Older, Settled
    <3>2. /\ [p EXCEPT !.age = @ + 1, !.named = @ /\ p.age + 1 < NameTTL].token = "made"
          /\ ~[p EXCEPT !.age = @ + 1, !.named = @ /\ p.age + 1 < NameTTL].inRoom
      BY <2>1, <2>2
    <3> QED
      BY <2>2, <3>1, <3>2 DEF Waiting
  <2> QED
    BY <2>3, <2>4, <2>5
<1> QED
  BY <1>1, <1>2

LEMMA WaitingStep ==
  ASSUME ~WritersOverlap, TypeInv, WriterInv, WaitingInv, [Next]_vars
  PROVE  WaitingInv'
<1>1. SUFFICES ASSUME status' \in Early PROVE \A i \in Identities : Waiting(person'[i])
  BY DEF WaitingInv, Waiting
<1>2. /\ status \in Early
      /\ \A i \in Identities : Waiting(person[i]) /\ person[i] \in People
      /\ person \in [Identities -> People]
  BY <1>1, WriterStep DEF Legal, WaitingInv, Early, TypeInv, TypeOK
<1>3. CASE UNCHANGED person
  BY <1>2, <1>3
<1>4. ASSUME NEW r \in Requests, NEW i \in Identities, Register(r, i)
      PROVE  \A j \in Identities : Waiting(person'[j])
  BY <1>2, <1>4 DEF Register, NewPerson, Waiting
<1>5. ASSUME NEW r \in Requests, TokenCommit(r) PROVE FALSE
  <2>1. /\ req[r] # Idle /\ req[r].kind = "token"
        /\ status' = IF Writes(req[r]) THEN "live" ELSE status
    BY <1>5 DEF TokenCommit, At, Moved, Idle
  <2>2. Knows(r)
    BY DEF WriterInv
  <2> QED
    BY <1>1, <1>2, <2>1, <2>2 DEF Knows, Writes, Early, Open
<1>6. ASSUME NEW r \in Requests, CloseRoom(r) \/ ForgetRoom(r) \/ Interrupted(r)
      PROVE  \A i \in Identities : Waiting(person'[i])
  <2>1. \A i \in Identities :
          person'[i] \in {person[i], Gone(person[i]), Nameless(person[i]), Dropped(person[i])}
    BY <1>2, <1>6 DEF CloseRoom, ForgetRoom, Interrupted
  <2> QED
    BY <1>2, <2>1, WaitingStays
<1>7. ASSUME NEW i \in Identities, Join(i) \/ Leave(i) PROVE FALSE
  BY <1>2, <1>7 DEF Join, Leave, Valid, InRoom, Waiting
<1>8. CASE Age \/ Restart
  <2>1. \A i \in Identities : person'[i] \in {Older(person[i]), Dropped(Nameless(person[i]))}
    BY <1>8 DEF Age, Restart
  <2> QED
    BY <1>2, <2>1, WaitingStays
<1>9. ASSUME NEW r \in Requests, Handle(r) \/ Interrupted(r)
      PROVE  \A i \in Identities : Waiting(person'[i])
  BY <1>3, <1>4, <1>5, <1>6, <1>9 DEF Handle, Flush, RecordCommit, CancelCommit, EndCommit,
     InviteCommit, LinkCommit, RevokeCommit, VisitCommit
<1> QED
  <2>1. UNCHANGED vars => UNCHANGED person
    BY DEF vars
  <2>2. \A f \in Forms, people \in SUBSET Invitees : Create(f, people) => UNCHANGED person
    BY DEF Create
  <2>3. \A r \in Requests : \A q : Load(r, q) => UNCHANGED person
    BY DEF Load
  <2>4. \A t \in Instants : Later(t) => UNCHANGED person
    BY DEF Later
  <2> QED
    BY <1>3, <1>7, <1>8, <1>9, <2>1, <2>2, <2>3, <2>4, Steps

\* Nobody is in the room of a cancelled meeting, nor holds a token for it, if
\* requests that write the status do not overlap.
THEOREM CancelledMeetingsAreEmpty == ASSUME ~WritersOverlap PROVE Spec => []CancelledIsEmpty
<1>1. Init => WaitingInv
  BY DEF Init, WaitingInv, Waiting
<1>2. TypeInv /\ WriterInv /\ WaitingInv /\ [Next]_vars => WaitingInv'
  BY WaitingStep
<1>3. WaitingInv => CancelledIsEmpty
  BY DEF WaitingInv, Early, Waiting, CancelledIsEmpty, Valid, InRoom
<1> QED
  BY <1>1, <1>2, <1>3, WritersAlways, PTL DEF Spec

-----------------------------------------------------------------------------
(* Names                                                                   *)

Known(p) == p # Unused /\ p.age < NameTTL => p.named
Remembers == status # "ended" /\ ~amnesia /\ \A r \in Requests : req[r].at # "forgotten"
NamedInv == Remembers => \A i \in Identities : Known(person[i])

LEMMA KnownStays ==
  ASSUME NEW p \in People, Known(p)
  PROVE  /\ Known(Gone(p)) /\ Known(Older(p)) /\ Known(Dropped(p)) /\ Known(Settled(p))
         /\ p # Unused => /\ Known([p EXCEPT !.token = "held"])
                          /\ Known([p EXCEPT !.inRoom = TRUE])
                          /\ Known(Settled([p EXCEPT !.inRoom = FALSE]))
<1> USE MeetingAssumption
<1>1. CASE p = Unused
  BY <1>1 DEF Gone, Older, Dropped, Settled, Known
<1>2. CASE p # Unused
  <2>1. p \in [token : {"made", "held"}, for : Links \cup {Staff}, age : 0..NameTTL,
                named : BOOLEAN, inRoom : BOOLEAN]
    BY <1>2 DEF People
  <2>2. p.age < NameTTL => p.named
    BY <1>2 DEF Known
  <2>3. Known(Gone(p)) /\ Known(Dropped(p)) /\ Known(Settled(p))
    BY <2>1, <2>2 DEF Gone, Dropped, Settled, Known
  <2>4. Known([p EXCEPT !.token = "held"]) /\ Known([p EXCEPT !.inRoom = TRUE])
    BY <2>1, <2>2 DEF Known
  <2>5. Known(Settled([p EXCEPT !.inRoom = FALSE]))
    BY <2>1, <2>2 DEF Settled, Known
  <2>6. Known(Older(p))
    <3> DEFINE q1 == [p EXCEPT !.age = @ + 1, !.named = @ /\ p.age + 1 < NameTTL]
    <3>1. CASE p.age = NameTTL
      BY <2>2, <3>1 DEF Older, Known
    <3>2. CASE p.age # NameTTL
      <4>1. q1.age = p.age + 1 /\ q1.named = (p.named /\ p.age + 1 < NameTTL)
        BY <2>1
      <4>2. p.named
        BY <2>1, <2>2, <3>2
      <4> HIDE DEF q1
      <4>3. Known(q1) /\ Known(Unused)
        BY <4>1, <4>2 DEF Known
      <4>4. Older(p) \in {q1, Unused}
        BY <1>2, <3>2 DEF Older, Settled, q1
      <4> QED
        BY <4>3, <4>4
    <3> QED
      BY <3>1, <3>2
  <2> QED
    BY <2>3, <2>4, <2>5, <2>6
<1> QED
  BY <1>1, <1>2

\* Nothing but the end of a meeting and a restart forgets names for good.
LEMMA RemembersBack ==
  ASSUME ~WritersOverlap, TypeInv, WriterInv, [Next]_vars, Remembers'
  PROVE  Remembers
<1>1. status # "ended"
  BY WriterStep DEF Legal, Remembers
<1>2. ~amnesia
  BY Steps DEF vars, Create, Load, Handle, Flush, Register, TokenCommit, RecordCommit,
     CancelCommit, CloseRoom, ForgetRoom, EndCommit, InviteCommit, LinkCommit, RevokeCommit,
     VisitCommit, Interrupted, Join, Leave, Later, Age, Restart, Remembers
<1>3. ASSUME NEW r \in Requests, req[r].at = "forgotten" PROVE FALSE
  <2>1. req[r] # Idle /\ req[r].kind = "end" /\ req'[r] # req[r]
    BY <1>3 DEF Idle, TypeInv, ReqOK, Loaded, Remembers
  <2>2. \A o \in Requests : \A q : ~(Load(o, q) /\ Suits(q) /\ o = r)
    BY <2>1 DEF Load
  <2>3. ASSUME NEW o \in Requests, NEW q, Load(o, q), Suits(q) PROVE FALSE
    BY <2>1, <2>2, <2>3, LoadKeeps DEF TypeInv, Suits
  <2>4. ASSUME NEW o \in Requests, Handle(o) \/ Interrupted(o) PROVE FALSE
    <3>1. o = r
      BY <2>1, <2>4, HandlerKeeps
    <3>2. CASE EndCommit(r)
      BY <3>2 DEF EndCommit, Remembers
    <3>3. CASE Interrupted(r)
      BY <1>3, <3>3 DEF Interrupted, Remembers
    <3> QED
      BY <1>3, <2>1, <2>4, <3>1, <3>2, <3>3 DEF Handle, Flush, Register, TokenCommit,
         RecordCommit, CancelCommit, CloseRoom, ForgetRoom, InviteCommit, LinkCommit,
         RevokeCommit, VisitCommit, At
  <2>5. ~Restart
    BY DEF Restart, Remembers
  <2>6. \/ UNCHANGED vars
        \/ \E f \in Forms, people \in SUBSET Invitees : Create(f, people)
        \/ \E i \in Identities : Join(i) \/ Leave(i)
        \/ \E t \in Instants : Later(t)
        \/ Age
    BY <2>3, <2>4, <2>5, Steps
  <2> QED
    BY <2>1, <2>6 DEF vars, Create, Join, Leave, Later, Age
<1> QED
  BY <1>1, <1>2, <1>3 DEF Remembers

LEMMA NamedStep ==
  ASSUME ~WritersOverlap, TypeInv, WriterInv, NamedInv, [Next]_vars
  PROVE  NamedInv'
<1> USE MeetingAssumption
<1>1. SUFFICES ASSUME Remembers' PROVE \A i \in Identities : Known(person'[i])
  BY DEF NamedInv, Known
<1>2. /\ \A i \in Identities : Known(person[i]) /\ person[i] \in People
      /\ person \in [Identities -> People]
  BY <1>1, RemembersBack DEF NamedInv, TypeInv, TypeOK
<1>3. CASE UNCHANGED person
  BY <1>2, <1>3
<1>4. ASSUME NEW r \in Requests, NEW i \in Identities, Register(r, i)
      PROVE  \A j \in Identities : Known(person'[j])
  BY <1>2, <1>4 DEF Register, NewPerson, Known
<1>5. ASSUME NEW r \in Requests, TokenCommit(r)
      PROVE  \A i \in Identities : Known(person'[i])
  <2>1. \A i \in Identities : i \in req[r].who => person[i] # Unused
    BY <1>5 DEF TokenCommit, At, TypeInv, Pending, Registered
  <2>2. \A i \in Identities : person'[i] =
          IF i \in req[r].who THEN [person[i] EXCEPT !.token = "held"] ELSE person[i]
    BY <1>5 DEF TokenCommit
  <2> QED
    BY <1>2, <2>1, <2>2, KnownStays
<1>6. ASSUME NEW r \in Requests, CloseRoom(r) \/ Interrupted(r)
      PROVE  \A i \in Identities : Known(person'[i])
  <2>1. \A i \in Identities :
          person'[i] \in {person[i], Gone(person[i]), Dropped(person[i])}
    BY <1>2, <1>6 DEF CloseRoom, Interrupted
  <2> QED
    BY <1>2, <2>1, KnownStays
<1>7. ASSUME NEW r \in Requests, ForgetRoom(r) PROVE FALSE
  <2>1. req[r] # Idle /\ req[r].kind = "end" /\ Goto(r, "forgotten")
    BY <1>7 DEF ForgetRoom, At, Idle
  <2>2. req'[r] = [req[r] EXCEPT !.at = "forgotten"] /\ req[r] \in RequestRecords
    BY <2>1, GotoKeeps DEF TypeInv, ReqOK, Stages
  <2> QED
    BY <1>1, <2>2 DEF Remembers, RequestRecords
<1>8. ASSUME NEW i \in Identities, Join(i) \/ Leave(i)
      PROVE  \A j \in Identities : Known(person'[j])
  <2>1. person[i] # Unused
    BY <1>8 DEF Join, Leave, Valid, InRoom
  <2>2. /\ person'[i] \in {[person[i] EXCEPT !.inRoom = TRUE],
                           Settled([person[i] EXCEPT !.inRoom = FALSE])}
        /\ \A j \in Identities : j # i => person'[j] = person[j]
    BY <1>2, <1>8 DEF Join, Leave
  <2> QED
    BY <1>2, <2>1, <2>2, KnownStays
<1>9. CASE Age
  BY <1>2, <1>9, KnownStays DEF Age
<1>10. ~Restart
  BY <1>1 DEF Restart, Remembers
<1>11. ASSUME NEW r \in Requests, Handle(r) \/ Interrupted(r)
       PROVE  \A i \in Identities : Known(person'[i])
  BY <1>3, <1>4, <1>5, <1>6, <1>7, <1>11 DEF Handle, Flush, RecordCommit, CancelCommit,
     EndCommit, InviteCommit, LinkCommit, RevokeCommit, VisitCommit
<1> QED
  <2>1. UNCHANGED vars => UNCHANGED person
    BY DEF vars
  <2>2. \A f \in Forms, people \in SUBSET Invitees : Create(f, people) => UNCHANGED person
    BY DEF Create
  <2>3. \A r \in Requests : \A q : Load(r, q) => UNCHANGED person
    BY DEF Load
  <2>4. \A t \in Instants : Later(t) => UNCHANGED person
    BY DEF Later
  <2> QED
    BY <1>3, <1>8, <1>9, <1>10, <1>11, <2>1, <2>2, <2>3, <2>4, Steps

\* Whoever can still enter a live meeting has a name for the others to see, if
\* requests that write the status do not overlap.
THEOREM EntrantsAreNamed == ASSUME ~WritersOverlap PROVE Spec => []JoinersAreNamed
<1>1. Init => NamedInv
  BY DEF Init, NamedInv, Known
<1>2. TypeInv /\ WriterInv /\ NamedInv /\ [Next]_vars => NamedInv'
  BY NamedStep
<1>3. TypeInv /\ NamedInv => JoinersAreNamed
  <2> SUFFICES ASSUME TypeInv, NamedInv, status = "live", ~amnesia, Running("end") = {},
                      NEW i \in Identities, Valid(i)
               PROVE  i \in Names
    BY DEF JoinersAreNamed
  <2>1. Remembers
    BY DEF Remembers, Running, TypeInv, ReqOK, Loaded, Idle
  <2>2. person[i] # Unused /\ person[i].age < TokenTTL /\ person[i] \in People
    BY DEF Valid, TypeInv, TypeOK
  <2>3. person[i].age < NameTTL
    BY <2>2, MeetingAssumption DEF People
  <2> QED
    BY <2>1, <2>2, <2>3 DEF NamedInv, Known, Names
<1> QED
  BY <1>1, <1>2, <1>3, WritersAlways, PTL DEF Spec

-----------------------------------------------------------------------------
(* Tokens after an end, a cancellation or a revocation                     *)

\* A person stays who it is and only grows older, or makes room for another.
Keeps(p, q) ==
  q = Unused \/ (p # Unused /\ q.for = p.for /\ q.token = p.token /\ q.age >= p.age)

LEMMA PeopleKeep ==
  ASSUME NEW p \in People
  PROVE  /\ Keeps(p, p) /\ Keeps(p, Gone(p)) /\ Keeps(p, Nameless(p)) /\ Keeps(p, Older(p))
         /\ Keeps(p, Dropped(p)) /\ Keeps(p, Dropped(Nameless(p)))
         /\ p # Unused => /\ Keeps(p, [p EXCEPT !.inRoom = TRUE])
                          /\ Keeps(p, Settled([p EXCEPT !.inRoom = FALSE]))
<1>1. CASE p = Unused
  BY <1>1 DEF Keeps, Gone, Nameless, Older, Dropped
<1>2. CASE p # Unused
  <2> DEFINE q1 == [p EXCEPT !.age = @ + 1]
             q2 == [p EXCEPT !.age = @ + 1, !.named = @ /\ p.age + 1 < NameTTL]
  <2>1. p \in [token : {"made", "held"}, for : Links \cup {Staff}, age : 0..NameTTL,
                named : BOOLEAN, inRoom : BOOLEAN]
    BY <1>2 DEF People
  <2>2. p.age \in Nat
    BY <2>1, MeetingAssumption
  <2>3. q2.for = p.for /\ q2.token = p.token /\ q2.age = p.age + 1
    BY <2>1
  <2> HIDE DEF q2
  <2>4. Older(p) \in {p, q2, Unused}
    BY DEF Older, Settled, q2
  <2>5. Keeps(p, Older(p))
    BY <1>2, <2>2, <2>3, <2>4 DEF Keeps
  <2>6. /\ Keeps(p, p) /\ Keeps(p, Gone(p)) /\ Keeps(p, Nameless(p)) /\ Keeps(p, Dropped(p))
        /\ Keeps(p, Dropped(Nameless(p))) /\ Keeps(p, [p EXCEPT !.inRoom = TRUE])
        /\ Keeps(p, Settled([p EXCEPT !.inRoom = FALSE]))
    BY <1>2, <2>1, <2>2 DEF Keeps, Gone, Nameless, Dropped, Settled
  <2> QED
    BY <2>5, <2>6
<1> QED
  BY <1>1, <1>2

\* Tokens are made by a registration and sent by a commit, and change no hands.
LEMMA TokenSteps ==
  ASSUME TypeInv, [Next]_vars, NEW i \in Identities
  PROVE  \/ Keeps(person[i], person'[i])
         \/ \E r \in Requests : Register(r, i)
         \/ \E r \in Requests : TokenCommit(r) /\ i \in Registered(r)
<1>1. person \in [Identities -> People] /\ person[i] \in People
  BY DEF TypeInv, TypeOK
<1>2. UNCHANGED person => Keeps(person[i], person'[i])
  BY <1>1, PeopleKeep
<1>3. ASSUME NEW r \in Requests, Handle(r) \/ Interrupted(r)
      PROVE  \/ Keeps(person[i], person'[i])
             \/ Register(r, i)
             \/ TokenCommit(r) /\ i \in Registered(r)
  <2>1. CASE CloseRoom(r) \/ ForgetRoom(r) \/ Interrupted(r)
    BY <1>1, <2>1, PeopleKeep DEF CloseRoom, ForgetRoom, Interrupted
  <2>2. ASSUME NEW j \in Identities, Register(r, j), j # i PROVE Keeps(person[i], person'[i])
    <3>1. person'[i] = person[i]
      BY <1>1, <2>2 DEF Register
    <3> QED
      BY <1>1, <3>1, PeopleKeep
  <2>3. CASE TokenCommit(r) /\ i \notin Registered(r)
    <3>1. person'[i] = person[i]
      BY <1>1, <2>3 DEF TokenCommit, At, Registered
    <3> QED
      BY <1>1, <3>1, PeopleKeep
  <2>4. CASE \/ Flush(r) \/ RecordCommit(r) \/ CancelCommit(r) \/ EndCommit(r)
             \/ InviteCommit(r) \/ LinkCommit(r) \/ RevokeCommit(r) \/ VisitCommit(r)
    BY <1>2, <2>4 DEF Flush, RecordCommit, CancelCommit, EndCommit, InviteCommit, LinkCommit,
       RevokeCommit, VisitCommit
  <2> QED
    BY <1>3, <2>1, <2>2, <2>3, <2>4 DEF Handle
<1>4. ASSUME NEW j \in Identities, Join(j) \/ Leave(j) PROVE Keeps(person[i], person'[i])
  <2>1. CASE i = j
    <3>1. /\ person[i] # Unused
          /\ person'[i] \in {[person[i] EXCEPT !.inRoom = TRUE],
                             Settled([person[i] EXCEPT !.inRoom = FALSE])}
      BY <1>1, <1>4, <2>1 DEF Join, Leave, InRoom, Valid
    <3> QED
      BY <1>1, <3>1, PeopleKeep
  <2>2. CASE i # j
    <3>1. person'[i] = person[i]
      BY <1>1, <1>4, <2>2 DEF Join, Leave
    <3> QED
      BY <1>1, <3>1, PeopleKeep
  <2> QED
    BY <2>1, <2>2
<1>5. CASE Age \/ Restart
  BY <1>1, <1>5, PeopleKeep DEF Age, Restart
<1>6. \A r \in Requests : \A q : Load(r, q) => UNCHANGED person
  BY DEF Load
<1>7. \A f \in Forms, people \in SUBSET Invitees : Create(f, people) => UNCHANGED person
  BY DEF Create
<1>8. (UNCHANGED vars \/ \E t \in Instants : Later(t)) => UNCHANGED person
  BY DEF vars, Later
<1> QED
  BY <1>2, <1>3, <1>4, <1>5, <1>6, <1>7, <1>8, Steps

\* Whose token a handler makes is said in the token.
OwnerInv == \A r \in Requests : \A i \in Registered(r) : person[i].for = req[r].for

\* Nobody is newly registered but by Register.
LEMMA RegisteredBefore ==
  ASSUME TypeInv, [Next]_vars, NEW r \in Requests, NEW i \in Registered(r)', ~Register(r, i)
  PROVE  i \in Registered(r) /\ req'[r].for = req[r].for /\ ~TokenCommit(r)
<1>0. i \in Identities /\ req'[r].at = "registered" /\ i \in req'[r].who /\ req'[r] # Idle
  BY DEF Registered, Idle
<1>1. CASE req'[r] = req[r]
  <2>1. ~TokenCommit(r)
    <3>1. TokenCommit(r) => req'[r] = Idle
      BY ReturnKeeps DEF TokenCommit, TypeInv
    <3> QED
      BY <1>0, <3>1
  <2> QED
    BY <1>0, <1>1, <2>1 DEF Registered
<1>2. CASE Handle(r) \/ Interrupted(r)
  <2>1. ASSUME NEW stage \in Stages \ {"registered"}, Goto(r, stage), req[r] # Idle
        PROVE  FALSE
    <3>1. req'[r] = [req[r] EXCEPT !.at = stage] /\ req[r] \in RequestRecords
      BY <2>1 DEF Goto, TypeInv, ReqOK
    <3> QED
      BY <1>0, <2>1, <3>1 DEF RequestRecords
  <2>2. ~Return(r)
    BY <1>0, ReturnKeeps DEF TypeInv
  <2>3. ASSUME NEW j \in Identities, Register(r, j) PROVE j = i
    <3> DEFINE q1 == [req[r] EXCEPT !.at = "registered"]
    <3>1. req'[r] = [q1 EXCEPT !.who = {j}] /\ req[r] \in RequestRecords
      BY <2>3, HandlerKeeps, <1>2 DEF Register, TypeInv, ReqOK, Loaded
    <3>2. q1 \in RequestRecords
      BY <3>1 DEF RequestRecords, Stages
    <3> HIDE DEF q1
    <3> QED
      BY <1>0, <3>1, <3>2 DEF RequestRecords
  <2>4. req[r] # Idle
    BY <1>2, HandlerKeeps
  <2> QED
    BY <1>2, <2>1, <2>2, <2>3, <2>4 DEF Handle, Interrupted, Flush, TokenCommit, RecordCommit,
       CancelCommit, CloseRoom, ForgetRoom, EndCommit, InviteCommit, LinkCommit, RevokeCommit,
       VisitCommit, Stages
<1>3. ASSUME NEW o \in Requests, o # r, Handle(o) \/ Interrupted(o) PROVE req'[r] = req[r]
  BY <1>3, HandlerKeeps
<1>4. ASSUME NEW o \in Requests, NEW q, Load(o, q), Suits(q) PROVE req'[r] = req[r]
  <2>1. req'[o] = q /\ q.at = "loaded" /\ (o # r => req'[r] = req[r])
    BY <1>4, LoadKeeps DEF TypeInv, Suits
  <2> QED
    BY <1>0, <2>1
<1>5. Restart => req'[r] = Idle
  BY DEF Restart
<1>6. ASSUME \/ UNCHANGED vars
             \/ \E f \in Forms, people \in SUBSET Invitees : Create(f, people)
             \/ \E j \in Identities : Join(j) \/ Leave(j)
             \/ \E t \in Instants : Later(t)
             \/ Age
      PROVE  req'[r] = req[r]
  BY <1>6 DEF vars, Create, Join, Leave, Later, Age
<1>7. req'[r] = req[r] \/ Handle(r) \/ Interrupted(r)
  <2>1. ~Restart
    BY <1>0, <1>5
  <2>2. (\E o \in Requests : \E q : Load(o, q) /\ Suits(q)) => req'[r] = req[r]
    BY <1>4
  <2>3. (\E o \in Requests : Handle(o) \/ Interrupted(o)) =>
          req'[r] = req[r] \/ Handle(r) \/ Interrupted(r)
    BY <1>3
  <2> QED
    BY <1>6, <2>1, <2>2, <2>3, Steps
<1> QED
  BY <1>1, <1>2, <1>7

LEMMA OwnerStep ==
  ASSUME TypeInv, OwnerInv, [Next]_vars
  PROVE  OwnerInv'
<1> SUFFICES ASSUME NEW r \in Requests, NEW i \in Registered(r)'
             PROVE  person'[i].for = req'[r].for
  BY DEF OwnerInv
<1>0. i \in Identities
  BY DEF Registered
<1>1. CASE Register(r, i)
  <2>1. Handle(r)
    BY <1>0, <1>1 DEF Handle
  <2>2. req'[r] # Idle
    BY DEF Registered, Idle
  <2>3. req'[r].for = req[r].for
    BY <2>1, <2>2, HandlerKeeps
  <2>4. person' = [person EXCEPT ![i] = NewPerson(req[r].for)]
    BY <1>1 DEF Register
  <2>5. person'[i] = NewPerson(req[r].for)
    BY <1>0, <2>4 DEF TypeInv, TypeOK
  <2> QED
    BY <2>3, <2>5 DEF NewPerson
<1>2. CASE ~Register(r, i)
  <2>1. i \in Registered(r) /\ req'[r].for = req[r].for /\ ~TokenCommit(r)
    BY <1>2, RegisteredBefore
  <2>2. person[i] # Unused /\ \A o \in Requests : i \in Registered(o) => o = r
    BY <2>1 DEF TypeInv, Pending
  <2>3. Keeps(person[i], person'[i])
    BY <1>0, <2>1, <2>2, TokenSteps DEF Register
  <2>4. person'[i] # Unused
    BY TypeStep DEF TypeInv, Pending
  <2> QED
    BY <2>1, <2>3, <2>4 DEF Keeps, OwnerInv
<1> QED
  BY <1>1, <1>2

\* A request for a token that is running was running, or finds the door open.
LEMMA IssuedBefore ==
  ASSUME TypeInv, [Next]_vars, NEW for \in Links \cup {Staff}, Closed(for),
         NEW r \in Issuing(for)'
  PROVE  r \in Issuing(for)
<1>0. r \in Requests /\ req'[r] # Idle /\ req'[r].kind = "token" /\ req'[r].for = for
  BY DEF Issuing, Running
<1>1. req'[r] = req[r] => r \in Issuing(for)
  BY <1>0 DEF Issuing, Running
<1>2. ASSUME NEW o \in Requests, Handle(o) \/ Interrupted(o) PROVE r \in Issuing(for)
  <2>1. CASE o = r
    BY <1>0, <1>2, <2>1, HandlerKeeps DEF Issuing, Running
  <2>2. CASE o # r
    BY <1>0, <1>1, <1>2, <2>2, HandlerKeeps
  <2> QED
    BY <2>1, <2>2
<1>3. ASSUME NEW o \in Requests, NEW q, Load(o, q), Suits(q) PROVE r \in Issuing(for)
  <2>1. req'[o] = q /\ (o # r => req'[r] = req[r])
    BY <1>0, <1>3, LoadKeeps DEF TypeInv, Suits
  <2>2. o # r
    <3> SUFFICES ASSUME o = r PROVE FALSE
      OBVIOUS
    <3>1. status \in Open /\ (for = Staff \/ link[for] = "open")
      BY <1>0, <1>3, <2>1 DEF Suits
    <3>2. for \in Links /\ link[for] = "revoked"
      BY <3>1 DEF Closed, Open
    <3> QED
      BY <3>1, <3>2, MeetingAssumption
  <2> QED
    BY <1>1, <2>1, <2>2
<1>4. ASSUME \/ UNCHANGED vars
             \/ \E f \in Forms, people \in SUBSET Invitees : Create(f, people)
             \/ \E j \in Identities : Join(j) \/ Leave(j)
             \/ \E t \in Instants : Later(t)
             \/ Age
             \/ Restart
      PROVE  r \in Issuing(for)
  <2>1. req'[r] \in {req[r], Idle}
    BY <1>0, <1>4 DEF vars, Create, Join, Leave, Later, Age, Restart
  <2> QED
    BY <1>0, <1>1, <2>1
<1> QED
  BY <1>2, <1>3, <1>4, Steps

\* A new holder has the token from a request that ends with this step.
LEMMA HeldBefore ==
  ASSUME TypeInv, OwnerInv, [Next]_vars, NEW for \in Links \cup {Staff},
         NEW i \in Holders(for)', i \notin Holders(for)
  PROVE  Issuing(for)' # Issuing(for)
<1>0. /\ i \in Identities /\ person'[i] # Unused /\ person'[i].token = "held"
      /\ person'[i].age < TokenTTL /\ person'[i].for = for
  BY DEF Holders, Valid
<1>1. ~Keeps(person[i], person'[i])
  <2> SUFFICES ASSUME Keeps(person[i], person'[i]) PROVE FALSE
    OBVIOUS
  <2>1. /\ person[i] # Unused /\ person[i].token = "held" /\ person[i].for = for
        /\ person[i].age <= person'[i].age
    BY <1>0 DEF Keeps
  <2>2. person[i].age \in Nat /\ person'[i].age \in Nat
    <3>1. person[i] \in People /\ person'[i] \in People
      BY <1>0, TypeStep DEF TypeInv, TypeOK
    <3>2. person'[i].age \in 0..NameTTL /\ person[i].age \in 0..NameTTL
      BY <1>0, <2>1, <3>1 DEF People
    <3> QED
      BY <3>2, MeetingAssumption
  <2>3. person[i].age < TokenTTL
    BY <1>0, <2>1, <2>2, MeetingAssumption
  <2> QED
    BY <1>0, <2>1, <2>3 DEF Holders, Valid
<1>2. \A r \in Requests : ~Register(r, i)
  <2> SUFFICES ASSUME NEW r \in Requests, Register(r, i) PROVE FALSE
    OBVIOUS
  <2>1. person' = [person EXCEPT ![i] = NewPerson(req[r].for)]
    BY DEF Register
  <2>2. person'[i].token = "made"
    BY <1>0, <2>1 DEF NewPerson, TypeInv, TypeOK
  <2> QED
    BY <1>0, <2>2
<1>3. PICK r \in Requests : TokenCommit(r) /\ i \in Registered(r)
  BY <1>0, <1>1, <1>2, TokenSteps
<1>4. person[i] # Unused /\ person[i] \in People /\ person[i].for = req[r].for
  BY <1>0, <1>3 DEF TypeInv, TypeOK, Pending, OwnerInv
<1>5. person'[i].for = person[i].for
  <2>1. person'[i] = [person[i] EXCEPT !.token = "held"]
    BY <1>0, <1>3 DEF TokenCommit, Registered
  <2>2. person[i] \in [token : {"made", "held"}, for : Links \cup {Staff}, age : 0..NameTTL,
                       named : BOOLEAN, inRoom : BOOLEAN]
    BY <1>4 DEF People
  <2> QED
    BY <2>1, <2>2
<1>6. req[r] # Idle /\ req[r].kind = "token" /\ req'[r] = Idle
  BY <1>3, ReturnKeeps DEF TokenCommit, At, TypeInv, Idle
<1>7. r \in Issuing(for) /\ r \notin Issuing(for)'
  BY <1>0, <1>4, <1>5, <1>6 DEF Issuing, Running
<1> QED
  BY <1>7

\* No page and no handler lets anybody into what is closed.
Shut == \A for \in Links \cup {Staff} : Closed(for) => ~Door(for)

LEMMA ClosedIsShut == TypeInv => Shut
<1> SUFFICES ASSUME TypeInv, NEW for \in Links \cup {Staff}, Closed(for) PROVE ~Door(for)
  BY DEF Shut
<1>1. CASE for \in Links
  <2>1. LinkState(for) # "ok"
    BY <1>1, OkIsOpen DEF Closed, Open
  <2> QED
    BY <1>1, <2>1 DEF Door, GuestConsent, GuestRoom, GuestTokenGranted
<1>2. CASE for \notin Links
  BY <1>2 DEF Door, Lobby, Room, TokenGranted, Closed, Open
<1> QED
  BY <1>1, <1>2

\* What is closed stays closed, its requests for tokens only get fewer, and
\* every new holder uses one of them up, if requests that write the status do
\* not overlap. With the fairness of FairSpec this is why tokens run out.
THEOREM DoorsStayShut == ASSUME ~WritersOverlap PROVE Spec => ClosedForGood
<1>1. Init => LinkInv /\ OwnerInv
  BY DEF Init, LinkInv, OwnerInv, Registered, Idle
<1>2. TypeInv /\ LinkInv /\ OwnerInv /\ [Next]_vars => LinkInv' /\ OwnerInv'
  BY LinkStep, OwnerStep
<1>3. TypeInv /\ WriterInv /\ LinkInv /\ OwnerInv /\ Shut' /\ [Next]_vars =>
        [\A for \in Links \cup {Staff} : Closed(for) =>
           /\ Closed(for)' /\ ~Door(for)'
           /\ Issuing(for)' \subseteq Issuing(for)
           /\ Holders(for)' \subseteq Holders(for) \/ Issuing(for)' # Issuing(for)]_vars
  <2> SUFFICES ASSUME TypeInv, WriterInv, LinkInv, OwnerInv, Shut', [Next]_vars,
                      NEW for \in Links \cup {Staff}, Closed(for)
               PROVE  /\ Closed(for)' /\ ~Door(for)'
                      /\ Issuing(for)' \subseteq Issuing(for)
                      /\ Holders(for)' \subseteq Holders(for) \/ Issuing(for)' # Issuing(for)
    OBVIOUS
  <2>1. Legal /\ \A l \in Links : link[l] = "revoked" => link'[l] = "revoked"
    BY WriterStep, LinkStep
  <2>2. Closed(for)'
    BY <2>1 DEF Closed, Legal
  <2>5. ~Door(for)'
    BY <2>2 DEF Shut
  <2>3. Issuing(for)' \subseteq Issuing(for)
    BY IssuedBefore
  <2>4. Holders(for)' \subseteq Holders(for) \/ Issuing(for)' # Issuing(for)
    BY HeldBefore
  <2> QED
    BY <2>2, <2>3, <2>4, <2>5
<1> QED
  BY <1>1, <1>2, <1>3, ClosedIsShut, WritersAlways, PTL DEF Spec, ClosedForGood
=============================================================================
