------------------------------ MODULE Meeting ------------------------------
(***************************************************************************)
(* One meeting: its row, its members and guest links, the LiveKit room and *)
(* the tokens that open it (routers/meetings.py, guests.py, livekit.py and *)
(* the services they call).                                                *)
(*                                                                         *)
(* A handler loads the row, checks it in memory, flushes what it changes   *)
(* (which locks the row until the commit) and commits. PostgreSQL is at    *)
(* READ COMMITTED and the UPDATE has no condition on the status, so what a *)
(* handler checked may be old when it writes. The room, the tokens and the *)
(* names are in no transaction.                                            *)
(*                                                                         *)
(* Two clocks run at their own pace: now jumps through the minutes of the  *)
(* schedule, the ages of tokens and names count steps of five minutes.     *)
(***************************************************************************)
EXTENDS Integers, FiniteSets, Permissions

CONSTANTS
  Requests,       \* bound: handlers that may run at the same time
  Identities,     \* bound: random LiveKit identities in use at a time
  Links,          \* bound: guest links of the meeting
  Invitees,       \* bound: people who may ever be invited
  Forms,          \* what the scheduling form may be sent with
  MaxUses,        \* bound: visits by a guest link
  OpensBefore,    \* GUEST_OPENS_BEFORE, in minutes
  ClosesAfter,    \* GUEST_CLOSES_AFTER, in minutes
  Instants,       \* bound: minutes at which the schedule is looked at
  TokenTTL,       \* livekit_tokens.TOKEN_TTL
  NameTTL,        \* participant_names._TTL_SECONDS
  LivekitConfigured,  \* Settings.livekit_configured of this deployment
  WritersOverlap  \* may requests that write the status overlap each other?

Staff == "staff"   \* whose token it is, when it is not a guest's link

ASSUME MeetingAssumption ==
  /\ MaxUses \in Nat
  /\ OpensBefore \in Nat /\ ClosesAfter \in Nat /\ Instants \subseteq Nat
  /\ TokenTTL \in Nat \ {0} /\ NameTTL \in Nat /\ TokenTTL <= NameTTL
  /\ Invitees \subseteq Users \ {Host}
  /\ Staff \notin Links
  /\ \A f \in Forms : f.start \in Int /\ f.minutes \in Int
  /\ LivekitConfigured \in BOOLEAN /\ WritersOverlap \in BOOLEAN

VARIABLES
  status,    \* Meeting.status, "none" before the meeting is scheduled
  members,   \* MeetingMember rows
  start,     \* Meeting.scheduled_start
  end,       \* Meeting.scheduled_end
  link,      \* GuestInvite: none, open or revoked
  uses,      \* GuestInvite.use_count
  person,    \* per identity: its token, its name here, its place in the room
  now,       \* the schedule's clock
  req,       \* the handlers: what each has loaded and where it stands
  told,      \* history: people whose invitation was confirmed
  amnesia    \* history: names were dropped while the meeting went on

rowVars == <<status, members, start, end>>
linkVars == <<link, uses>>
vars == <<rowVars, linkVars, person, now, req, told, amnesia>>

Unused == [token |-> "none"]
Idle == [at |-> "idle"]

Init ==
  /\ status = "none"
  /\ members = {}
  /\ start = 0 /\ end = 0
  /\ link = [l \in Links |-> "none"]
  /\ uses = [l \in Links |-> 0]
  /\ person = [i \in Identities |-> Unused]
  /\ now = 0
  /\ req = [r \in Requests |-> Idle]
  /\ told = {}
  /\ amnesia = FALSE

-----------------------------------------------------------------------------
(* Rules: services/meetings.py                                             *)

\* Mutant: a meeting that is live may be cancelled.
LiveMayCancel ==
  [scheduled |-> {"live", "cancelled"}, live |-> {"ended", "cancelled"},
   ended |-> {}, cancelled |-> {}]

Transitions ==
  [scheduled |-> {"live", "cancelled"}, live |-> {"ended"},
   ended |-> {}, cancelled |-> {}]

MayMove(from, to) == to \in Transitions[from]

Open == {"scheduled", "live"}

\* parse_meeting_form(): the fields it complains about. Texts count by their
\* length; a start that does not parse in its time zone is NoDate.
NoDate == -1
FormErrors(f) ==
  {field \in {"title", "description", "mode", "timezone", "duration", "start"} :
     CASE field = "title"       -> f.title \notin 1..200
       [] field = "description" -> f.description \notin 0..2000
       [] field = "mode"        -> f.mode # "online"
       [] field = "timezone"    -> ~f.zoneKnown
       [] field = "duration"    -> f.minutes \notin 5..480
       [] field = "start"       -> ~f.zoneKnown \/ f.start = NoDate \/ f.start <= now}

\* Mutant: nobody looks at revoked_at.
LinkStateByClock(l) ==
  CASE link[l] = "none" -> "invalid"
    [] link[l] # "none" /\ status \notin Open -> "meeting_closed"
    [] link[l] # "none" /\ status \in Open ->
         IF now \in (start - OpensBefore)..(end + ClosesAfter) THEN "ok" ELSE "expired"

\* guest_invite_state(), in the order the code looks.
LinkState(l) ==
  CASE link[l] = "none"    -> "invalid"
    [] link[l] = "revoked" -> "revoked"
    [] link[l] = "open" /\ status \in {"cancelled", "ended"} -> "meeting_closed"
    [] link[l] = "open" /\ status \in Open ->
         CASE now < start - OpensBefore -> "not_yet"
           [] now > end + ClosesAfter   -> "expired"
           [] OTHER                     -> "ok"

-----------------------------------------------------------------------------
(* Pages. They only read. Without LiveKit the lobby and the consent page   *)
(* are shown all the same; the room pages and the tokens are a 503. (The   *)
(* lists stop at 20, 200 or 300 rows; here there is one meeting.)          *)

Exists == status # "none"
Can(u, action) == Exists /\ May(u, members, action)

Detail(u) == Can(u, "view_meeting")
Library(u) == Exists /\ Visible(u, members)
Dashboard(u) == Exists /\ Visible(u, members) /\ status \in Open /\ end >= now - 60
Lobby(u) == Can(u, "join_room") /\ status \in Open

Room(u) == Can(u, "join_room") /\ status \in Open /\ LivekitConfigured
GuestConsent(l) == LinkState(l) = "ok" /\ GuestMay("join_room")
GuestRoom(l) == LinkState(l) = "ok" /\ GuestMay("join_room") /\ LivekitConfigured

\* Mutant: a token needs no open meeting.
TokenAnyStatus(u) == Can(u, "join_room") /\ LivekitConfigured

\* What the two token handlers check once they have loaded the meeting.
TokenGranted(u) == Can(u, "join_room") /\ LivekitConfigured /\ status \in Open
GuestTokenGranted(l) ==
  LinkState(l) = "ok" /\ GuestMay("join_room") /\ LivekitConfigured /\ status \in Open

-----------------------------------------------------------------------------
(* Requests                                                                *)

\* A request, with what it keeps of the rows it loads: the status, and, where
\* the kind needs them, the members, the use count, and its link or people.
Request(kind) ==
  [kind |-> kind, at |-> "loaded", status |-> status, members |-> {},
   for |-> Staff, uses |-> 0, who |-> {}]

At(r, kind, stage) == req[r].at = stage /\ req[r].kind = kind
Goto(r, stage) == req' = [req EXCEPT ![r].at = stage]
Return(r) == req' = [req EXCEPT ![r] = Idle]
Running(kind) == {r \in Requests : req[r] # Idle /\ req[r].kind = kind}

\* A request that is going to write the status.
Writes(q) ==
  q # Idle /\ \/ q.kind \in {"cancel", "end"}
              \/ q.kind \in {"token", "record"} /\ q.status = "scheduled"

Load(r, q) ==
  /\ req[r] = Idle
  /\ Writes(q) /\ ~WritersOverlap => \A o \in Requests : ~Writes(req[o])
  /\ req' = [req EXCEPT ![r] = q]
  /\ UNCHANGED <<rowVars, linkVars, person, now, told, amnesia>>

\* UPDATE meetings: waits for the transaction that holds the row.
Locks(q) == Writes(q) /\ q.at # "loaded"
Flush(r) ==
  /\ req[r].at = "loaded" /\ Writes(req[r])
  /\ \A o \in Requests : ~Locks(req[o])
  /\ Goto(r, "flushed")
  /\ UNCHANGED <<rowVars, linkVars, person, now, told, amnesia>>

-----------------------------------------------------------------------------
(* meeting_create: the host and the people invited become members          *)

Create(f, people) ==
  /\ status = "none"
  /\ FormErrors(f) = {}
  /\ status' = "scheduled"
  /\ start' = f.start /\ end' = f.start + f.minutes
  /\ members' = {Host} \cup people
  /\ told' = people
  /\ UNCHANGED <<linkVars, person, now, req, amnesia>>

-----------------------------------------------------------------------------
(* issue_token, guest_livekit_token and the first steps of start_recording *)

TokenLoad(r) ==
  /\ \E u \in Users : TokenGranted(u)
  /\ Load(r, Request("token"))

GuestTokenLoad(r, l) ==
  /\ GuestTokenGranted(l)
  /\ Load(r, [Request("token") EXCEPT !.for = l])

RecordLoad(r) ==
  /\ \E u \in Users : Can(u, "record")
  /\ status \in Open
  /\ Load(r, Request("record"))

\* Mutant: only the names of staff are registered.
NewStaffPerson(for) ==
  [token |-> "made", for |-> for, age |-> 0, named |-> for = Staff, inRoom |-> FALSE]

NewPerson(for) ==
  [token |-> "made", for |-> for, age |-> 0, named |-> TRUE, inRoom |-> FALSE]

\* A random identity, its name, and a token that nobody has seen yet.
Register(r, i) ==
  /\ req[r].at = IF Writes(req[r]) THEN "flushed" ELSE "loaded"
  /\ req[r].kind = "token"
  /\ person[i] = Unused
  /\ person' = [person EXCEPT ![i] = NewPerson(req[r].for)]
  /\ req' = [req EXCEPT ![r].at = "registered", ![r].who = {i}]
  /\ UNCHANGED <<rowVars, linkVars, now, told, amnesia>>

\* Mutant: the status is written whether or not it changed.
MovedAlways(q, to) == to

\* What a commit leaves in the status: a transaction that loaded another one
\* writes its own over whatever is there.
Moved(q, to) == IF Writes(q) THEN to ELSE status

\* The commit, and the answer with the token.
TokenCommit(r) ==
  /\ At(r, "token", "registered")
  /\ status' = Moved(req[r], "live")
  /\ person' = [i \in Identities |->
       IF i \in req[r].who THEN [person[i] EXCEPT !.token = "held"] ELSE person[i]]
  /\ Return(r)
  /\ UNCHANGED <<members, start, end, linkVars, now, told, amnesia>>

RecordCommit(r) ==
  /\ At(r, "record", IF Writes(req[r]) THEN "flushed" ELSE "loaded")
  /\ status' = Moved(req[r], "live")
  /\ Return(r)
  /\ UNCHANGED <<members, start, end, linkVars, person, now, told, amnesia>>

-----------------------------------------------------------------------------
(* meeting_cancel; meeting_end and meeting_end_form                        *)

CancelLoad(r) ==
  /\ \E u \in Users : Can(u, "edit_meeting")
  /\ Exists /\ MayMove(status, "cancelled")
  /\ Load(r, Request("cancel"))

CancelCommit(r) ==
  /\ At(r, "cancel", "flushed")
  /\ status' = "cancelled"
  /\ Return(r)
  /\ UNCHANGED <<members, start, end, linkVars, person, now, told, amnesia>>

EndLoad(r) ==
  /\ \E u \in Users : Can(u, "record")
  /\ Exists /\ MayMove(status, "ended")
  /\ Load(r, Request("end"))

Gone(p) == IF p # Unused THEN [p EXCEPT !.inRoom = FALSE] ELSE p
Nameless(p) == IF p # Unused THEN [p EXCEPT !.named = FALSE] ELSE p

\* close_room(): LiveKit does it, or it fails and the error is only logged.
CloseRoom(r) ==
  /\ At(r, "end", "flushed")
  /\ \/ person' = [i \in Identities |-> Gone(person[i])]
     \/ person' = person
  /\ Goto(r, "closed")
  /\ UNCHANGED <<rowVars, linkVars, now, told, amnesia>>

ForgetRoom(r) ==
  /\ At(r, "end", "closed")
  /\ person' = [i \in Identities |-> Nameless(person[i])]
  /\ Goto(r, "forgotten")
  /\ UNCHANGED <<rowVars, linkVars, now, told, amnesia>>

EndCommit(r) ==
  /\ At(r, "end", "forgotten")
  /\ status' = "ended"
  /\ Return(r)
  /\ UNCHANGED <<members, start, end, linkVars, person, now, told, amnesia>>

-----------------------------------------------------------------------------
(* meeting_invite                                                          *)

InviteLoad(r, people) ==
  /\ \E u \in Users : Can(u, "edit_meeting")
  /\ status \in Open
  /\ Load(r, [Request("invite") EXCEPT !.who = people, !.members = members])

\* Mutant: the list of members is stored as it was loaded, with the new ones.
InviteReplaces(r) ==
  /\ At(r, "invite", "loaded")
  /\ members' = req[r].members \cup req[r].who
  /\ told' = told \cup req[r].who
  /\ Return(r)
  /\ UNCHANGED <<status, start, end, linkVars, person, now, amnesia>>

\* Rows are inserted for people who were not members. Somebody who has become
\* one since breaks the unique constraint, and the whole request with it.
InviteCommit(r) ==
  /\ At(r, "invite", "loaded")
  /\ LET new == req[r].who \ req[r].members
     IN IF new \cap members = {}
        THEN members' = members \cup new /\ told' = told \cup req[r].who
        ELSE UNCHANGED <<members, told>>
  /\ Return(r)
  /\ UNCHANGED <<status, start, end, linkVars, person, now, amnesia>>

-----------------------------------------------------------------------------
(* Guest links: guest_link_create, guest_link_revoke, guest_join_page      *)

LinkLoad(r, l) ==
  /\ \E u \in Users : Can(u, "manage_guest_links")
  /\ status \in Open
  /\ link[l] = "none" /\ \A o \in Running("link") : req[o].for # l
  /\ Load(r, [Request("link") EXCEPT !.for = l])

LinkCommit(r) ==
  /\ At(r, "link", "loaded")
  /\ link' = [link EXCEPT ![req[r].for] = "open"]
  /\ Return(r)
  /\ UNCHANGED <<rowVars, uses, person, now, told, amnesia>>

\* Revoking works whatever the status, and once more without effect.
RevokeLoad(r, l) ==
  /\ \E u \in Users : Can(u, "manage_guest_links")
  /\ link[l] # "none"
  /\ Load(r, [Request("revoke") EXCEPT !.for = l])

RevokeCommit(r) ==
  /\ At(r, "revoke", "loaded")
  /\ link' = [link EXCEPT ![req[r].for] = "revoked"]
  /\ Return(r)
  /\ UNCHANGED <<rowVars, uses, person, now, told, amnesia>>

VisitLoad(r, l) ==
  /\ LinkState(l) = "ok" /\ GuestMay("join_room")
  /\ uses[l] < MaxUses
  /\ Load(r, [Request("visit") EXCEPT !.for = l, !.uses = uses[l]])

\* Mutant: the commit writes the whole row as it was loaded.
VisitWritesRow(r) ==
  /\ At(r, "visit", "loaded")
  /\ uses' = [uses EXCEPT ![req[r].for] = req[r].uses + 1]
  /\ link' = [link EXCEPT ![req[r].for] = "open"]
  /\ Return(r)
  /\ UNCHANGED <<rowVars, person, now, told, amnesia>>

\* Mutant: the page counts its visit and so does the commit.
VisitCountsTwice(r) ==
  /\ At(r, "visit", "loaded")
  /\ uses' = [uses EXCEPT ![req[r].for] = req[r].uses + 2]
  /\ Return(r)
  /\ UNCHANGED <<rowVars, link, person, now, told, amnesia>>

\* use_count += 1 was computed from the row that was loaded; only the column
\* that changed is written.
VisitCommit(r) ==
  /\ At(r, "visit", "loaded")
  /\ uses' = [uses EXCEPT ![req[r].for] = req[r].uses + 1]
  /\ Return(r)
  /\ UNCHANGED <<rowVars, link, person, now, told, amnesia>>

-----------------------------------------------------------------------------
(* The room, the clocks, failures                                          *)

Valid(i) == person[i] # Unused /\ person[i].token = "held" /\ person[i].age < TokenTTL
InRoom(i) == person[i] # Unused /\ person[i].inRoom

\* names_for_room(): what GET participants answers.
Names == {i \in Identities : person[i] # Unused /\ person[i].named}

\* LiveKit lets a valid token in, and opens the room if there is none.
Join(i) ==
  /\ Valid(i) /\ ~InRoom(i)
  /\ person' = [person EXCEPT ![i].inRoom = TRUE]
  /\ UNCHANGED <<rowVars, linkVars, now, req, told, amnesia>>

\* An identity whose token and name have expired is as good as unused.
Settled(p) ==
  IF p # Unused /\ p.age = NameTTL /\ ~p.inRoom /\ p.token = "held" THEN Unused ELSE p

Leave(i) ==
  /\ InRoom(i)
  /\ person' = [person EXCEPT ![i] = Settled([@ EXCEPT !.inRoom = FALSE])]
  /\ UNCHANGED <<rowVars, linkVars, now, req, told, amnesia>>

Older(p) ==
  IF p = Unused \/ p.age = NameTTL THEN p
  ELSE Settled([p EXCEPT !.age = @ + 1, !.named = @ /\ p.age + 1 < NameTTL])

Age ==
  /\ \E i \in Identities : Older(person[i]) # person[i]
  /\ person' = [i \in Identities |-> Older(person[i])]
  /\ UNCHANGED <<rowVars, linkVars, now, req, told, amnesia>>

Later(t) ==
  /\ t > now
  /\ now' = t
  /\ UNCHANGED <<rowVars, linkVars, person, req, told, amnesia>>

\* A token that was made and is never sent.
Dropped(p) == IF p # Unused /\ p.token = "made" THEN Unused ELSE p

\* A handler ends before its commit: the transaction is rolled back, what it
\* did outside of it stays.
Interrupted(r) ==
  /\ req[r] # Idle
  /\ amnesia' = (amnesia \/ req[r].at = "forgotten")
  /\ person' = [i \in Identities |->
       IF req[r].at = "registered" /\ i \in req[r].who THEN Dropped(person[i]) ELSE person[i]]
  /\ Return(r)
  /\ UNCHANGED <<rowVars, linkVars, now, told>>

\* The one process restarts: no handler survives, no name does. (Bounded: the
\* names are lost once.)
Restart ==
  /\ ~amnesia
  /\ amnesia' = TRUE
  /\ req' = [r \in Requests |-> Idle]
  /\ person' = [i \in Identities |-> Dropped(Nameless(person[i]))]
  /\ UNCHANGED <<rowVars, linkVars, now, told>>

-----------------------------------------------------------------------------

Issue(r) ==
  \/ TokenLoad(r)
  \/ RecordLoad(r)
  \/ CancelLoad(r)
  \/ EndLoad(r)
  \/ \E people \in SUBSET Invitees : InviteLoad(r, people)
  \/ \E l \in Links :
       \/ GuestTokenLoad(r, l)
       \/ LinkLoad(r, l)
       \/ RevokeLoad(r, l)
       \/ VisitLoad(r, l)

\* The steps a handler takes by itself.
Handle(r) ==
  \/ Flush(r)
  \/ \E i \in Identities : Register(r, i)
  \/ TokenCommit(r)
  \/ RecordCommit(r)
  \/ CancelCommit(r)
  \/ CloseRoom(r)
  \/ ForgetRoom(r)
  \/ EndCommit(r)
  \/ InviteCommit(r)
  \/ LinkCommit(r)
  \/ RevokeCommit(r)
  \/ VisitCommit(r)

Next ==
  \/ \E f \in Forms, people \in SUBSET Invitees : Create(f, people)
  \/ \E r \in Requests : Issue(r) \/ Handle(r) \/ Interrupted(r)
  \/ \E i \in Identities : Join(i) \/ Leave(i)
  \/ \E t \in Instants : Later(t)
  \/ Age
  \/ Restart

Spec == Init /\ [][Next]_vars

\* Handlers go on, and minutes pass. Nothing else is owed: nobody has to join,
\* leave, cancel, end or revoke, and no failure has to happen.
FairSpec == Spec /\ (\A r \in Requests : WF_vars(Handle(r))) /\ WF_vars(Age)

-----------------------------------------------------------------------------
(* Properties.                                                             *)

Kinds == {"token", "record", "cancel", "end", "invite", "link", "revoke", "visit"}
People ==
  {Unused} \cup
  [token : {"made", "held"}, for : Links \cup {Staff}, age : 0..NameTTL,
   named : BOOLEAN, inRoom : BOOLEAN]

\* Type invariant.
TypeOK ==
  /\ status \in {"none", "scheduled", "live", "ended", "cancelled"}
  /\ members \subseteq Users
  /\ start \in Nat /\ end \in Nat
  /\ link \in [Links -> {"none", "open", "revoked"}]
  /\ uses \in [Links -> 0..MaxUses]
  /\ person \in [Identities -> People]
  /\ now \in Instants \cup {0}
  /\ \A r \in Requests : req[r] = Idle \/ req[r].kind \in Kinds
  /\ told \subseteq Users
  /\ amnesia \in BOOLEAN

\* "illegal jumps are refused" (services/meetings.py:20): every commit moves
\* the status along the machine, although it was checked on a row loaded
\* before. (Requests that write the status must not overlap; they do in the
\* run meeting_revived.)
LegalMoves ==
  [][/\ status \in {"ended", "cancelled"} => status' = status
     /\ status = "live" => status' \in {"live", "ended"}
     /\ status = "scheduled" => status' # "ended"]_vars

\* "Only a meeting that has not started can be cancelled."
\* (routers/meetings.py:311): nobody is in the room of a cancelled meeting or
\* holds a token for it.
CancelledIsEmpty ==
  status = "cancelled" => \A i \in Identities : ~Valid(i) /\ ~InRoom(i)

\* An invitation that was confirmed stays: no other request that works on an
\* older list of members takes it back.
InvitedStay == told \subseteq members

\* A revoked link stays revoked: a guest who opened it before and whose
\* use is counted later does not bring it back.
RevokedIsFinal ==
  [][\A l \in Links : link[l] = "revoked" => link'[l] = "revoked"]_vars

\* What a list shows can be opened, and nothing else: the condition of the
\* SELECTs (dashboard, meetings, recordings) says what the Python check says.
ListedOpens ==
  \A u \in Users :
    /\ Library(u) <=> Detail(u)
    /\ Dashboard(u) => Lobby(u)
    /\ \A recording \in {"ready", "deleted"} :
         (Library(u) /\ recording # "deleted") <=>
         (Exists /\ RecordingAccess(u, members, recording, "play_recording") = "ok")

\* Whoever can still enter has a name for the others to see: names outlive
\* tokens. (Not after names were lost in a restart or by an end that failed,
\* and not while the meeting is being ended.)
JoinersAreNamed ==
  status = "live" /\ ~amnesia /\ Running("end") = {} =>
    \A i \in Identities : Valid(i) => i \in Names

\* Tokens that are being made, and that are out, for a link or for staff.
Issuing(for) == {r \in Running("token") : req[r].for = for}
Holders(for) == {i \in Identities : Valid(i) /\ person[i].for = for}

Closed(for) ==
  status \in {"ended", "cancelled"} \/ (for \in Links /\ link[for] = "revoked")

\* The pages and the handlers on the way into the room, for the holder of a
\* link or for the staff. Each of them looks at the rows for itself.
Door(for) ==
  IF for \in Links THEN GuestConsent(for) \/ GuestRoom(for) \/ GuestTokenGranted(for)
  ELSE \E u \in Users : Lobby(u) \/ Room(u) \/ TokenGranted(u)

\* After an end, a cancellation or a revocation nothing opens again: no page and
\* no handler lets anybody in, requests for tokens only get fewer, and nobody
\* becomes a holder but by one of them, although handlers that had checked an
\* open meeting are still at work and identities are used again.
ClosedForGood ==
  [][\A for \in Links \cup {Staff} : Closed(for) =>
       /\ Closed(for)' /\ ~Door(for)'
       /\ Issuing(for)' \subseteq Issuing(for)
       /\ Holders(for)' \subseteq Holders(for) \/ Issuing(for)' # Issuing(for)]_vars

\* Once a meeting has ended, the tokens for its room run out for good, those
\* included that were being issued when it ended.
EndedDrains == status = "ended" ~> [](\A i \in Identities : ~Valid(i))

\* Once a link is revoked, no guest who came by it can enter after a while.
RevokedDrains ==
  \A l \in Links : link[l] = "revoked" ~>
    [](\A i \in Identities : Valid(i) => person[i].for # l)
=============================================================================
