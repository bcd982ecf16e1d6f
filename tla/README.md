# Meeting platform: verification project

TLA+ models of the meeting platform in `src/` (FastAPI server, browser pages,
LiveKit rooms, object storage), checked with TLC and proved with TLAPS. The
platform's hardest promise comes first: a meeting is recorded in the browser,
in parts, survives closed tabs and bad networks, and what the site calls *ready*
is really there. Around it: the meeting with its links, tokens and room, the
accounts that are let in, and the limits on both.

- [Inventory](#inventory): the system's components and what makes them correct
- [Modules](#modules): what is modelled and how it corresponds to the code
- [Runs](#runs): what TLC checks, bounds, fairness
- [Proofs](#proofs): what holds for every value of the constants
- [Findings](#findings): where the code does not do what the sources say
- [Limits](#limits) and [Plan](#plan)

## Inventory

| component | code | state | operations |
|---|---|---|---|
| Recording engine | `static/js/recorder.js` | `Recorder.state`, current part, `rotating`, parts with their `MediaRecorder` and chain of writes; `UploadQueue.items`; IndexedDB `chunks`, `parts`, `meta` | start, rotate, replaceStream, stop, enqueue/uploadOne, completeWhenUploaded, findUnfinished, recoverRecording |
| Recording API | `routers/recordings.py`, `models.py`, `security/permissions.py` | rows `recordings`, `recording_parts` | start, upload-url, complete, finish, transcript, delete (library, view, download only read) |
| Storage | `services/storage.py`, `routers/local_storage.py` | one file per part | create_upload (signed link, upsert), PUT, stat, get_bytes, delete |
| Room page | `static/js/room.js` | connection, tracks, `engine`, banner | join, start/stop recording, leave, end, recoverLeftoverRecording |
| Meetings | `services/meetings.py`, `routers/meetings.py` | `meetings.status`, members, guest links (`guest_invites`) | schedule, invite, cancel, end, create and revoke guest links; lists, lobby and room page |
| Guest links | `routers/guests.py` | `use_count` of a link, consents | open, consent, room page, token, participants |
| LiveKit control | `routers/livekit.py`, `services/livekit_tokens.py`, `services/participant_names.py` | names per room; LiveKit's rooms | token, participants, mute, close_room |
| Accounts, sessions | `routers/auth.py`, `routers/admin.py`, `security/sessions.py` | users (active, failed_logins, locked_until), sessions | login, logout, create, reset, deactivate, activate, load/touch |
| Permissions | `security/permissions.py` | none | the matrix, loaders (404 or 403) |
| Rate limiter | `security/ratelimit.py` | time stamps per key | hit |
| Player | `static/js/player.js` | current part, link, position | switch part, refresh link |
| Rest | pages' glue, csrf, headers, templating, transcription, ics, audit, scripts | none, or append-only | see `PROJECT.json` |

How they interact on the recording path:

    MediaRecorder --dataavailable/onstop--> Recorder --putChunk/saveMeta--> IndexedDB
                                              |  enqueue                      |  getPart
                                              v                               v
    recoverRecording() ----- enqueue ---> UploadQueue --upload-url/complete--> Recording API --> PostgreSQL
    (next page, reads meta and chunks)        |                                  |  stat, delete
                                              +--- PUT on a signed link --> Storage

Hard behaviours, and what makes each component correct:

- **Recording engine.** Everything is a callback or an `await`: a rotation can
  meet a rotation or a stop, a `MediaRecorder` may refuse to start, the last
  `dataavailable` comes after `stop()`, a tab can close between any two steps, a
  PUT can arrive after its page has gone, every answer can be lost. Correct means:
  a chunk on the device leaves it only when it is in a verified file; a verified
  file is the whole part; the number of parts told to `finish()` after a crash is
  right; `stop()` ends; what is left behind is found and finished by the next
  page.
- **Recording API.** Handlers load rows, await storage, commit; there is no
  version column, so a commit writes what differs from what was *loaded*.
  Correct means: *verified* stays true once a browser has acted on it, *ready*
  is backed by verified rows, a delete leaves no file and is not undone (it can be:
  a finding).
- **Storage.** Links allow upsert and outlive the verification of their part.
- **Room page.** Leave and End call `stop()` while an upload may be running.
  Correct means: whoever waited for `stop()` leaves nothing on the device, and
  the next page of an open meeting finishes what a closed tab left.
- **Meetings, LiveKit.** The status is checked in memory and written later;
  `close_room()` is a call to another service before the commit, tokens and
  names are in no transaction. Correct means: the status moves along its
  machine, and after an end or a revocation no page or token handler opens again and
  nobody can enter any more, in the end.
- **Guest links, accounts.** Read-modify-write counters, windows whose end is a
  matter of one second, the last administrator. Correct means: a revoked link
  stays revoked, a confirmed invitation stays, the lockout misses no wrong
  password, a reset or a deactivation logs the user out, and one administrator
  remains.
- **Sessions, rate limiter.** Two limits and a throttled touch against
  overlapping requests; a sliding window at its edges.

`PROJECT.json` lists these hazards at their lines, with the properties that
watch them or the reason none does yet.

## Modules

| module | what it is |
|---|---|
| `DurableRecording` | the abstract promise: chunks are kept until deletion, a part is archived once and whole, *ready* needs every part with a kept chunk |
| `Recorder` | engine, queues of two agents, device store, server (handlers atomic), bucket, crashes; implements `DurableRecording` |
| `RecordingRoom`, `MCRecordingRoom` | `Recorder` in the room page, with its buttons and the end of the meeting; liveness |
| `RecordingServer`, `MCRecordingServer` | the API at the grain of load / await / commit, without the engine |
| `Permissions` | the matrix of roles and the two forms of the access rule, as operators |
| `Meeting`, `MCMeeting` | a meeting, its members and guest links, its LiveKit room, tokens and names; uses `Permissions` |
| `Accounts`, `MCAccounts` | login with lockout, resets, deactivations, activations |
| `Sessions`, `MCSessions` | how long one session lasts |
| `RateLimiter` | the sliding window for one key |
| `RecorderProofs`, `RefinementProofs`, `RoomProofs` | theorems about `Recorder` (safety, then verdict and refinement) and `RecordingRoom` |
| `RecordingServerProofs`, `MeetingProofs`, `AccountsProofs`, `SessionsProofs`, `RateLimiterProofs` | theorems about the module of that name |

How they fit together: `Recorder` follows one recording id from the first
request to the last recovery. `RecordingRoom` puts it into the page that runs it.
`RecordingServer` takes the same handlers apart: `Recorder` has each of them as
one step because one agent at a time drives one part, and `RecordingServer`
shows what the overlaps that remain (a repeated request whose first copy is
still running, a second tab, a deletion) can and cannot do. `Meeting` models who
may be in that room at all, `Accounts` and `Sessions` who is logged in;
`RecordingRoom.open` is `Meeting.status` being *scheduled* or *live*, and
`Meeting.RecordLoad` is the handler behind `Recorder.StartRecording`.

The `MC` modules hold values and symmetry, and statements of the sources that TLC
refutes: `LeaveIsSafe` in `MCRecordingRoom`, `DeletedIsFinal` in
`MCRecordingServer`. Definitions whose comment begins with
"Mutant:" are not part of any specification: each is a plausible bug, and the
property it is paired with in `PROJECT.json` fails when it takes the place of
the definition it varies.

### Recorder

The data is reduced to what the properties can tell apart. A chunk is its index
in its part; a file is the set of chunks it was built from; a size is a number
of chunks. `saved` is the only history variable: every chunk IndexedDB ever
acknowledged.

| variables | code |
|---|---|
| `status`, `row`, `size` | `Recording.status`, `RecordingPart.status`, `.size_bytes` |
| `object`, `late` | the files; PUTs of a page that has given up on them or has gone |
| `chunks`, `meta` | IndexedDB `chunks`, and `meta.partsStarted` (-1 without a row) |
| `mode` | `Recorder.state` of the page with the awaits inside `stop()`; progress of `recoverRecording()` |
| `cur`, `rec`, `idx`, `written`, `metaDue` | `this.current`, each part's `MediaRecorder`, `part.idx`, the `part.writes` chain with its `saveMeta` link |
| `fin` | the part `finishPart()` is working on; `this.rotating` while recording |
| `queue`, `step`, `blob`, `expect` | `UploadQueue.items`, where `uploadOne()` stands, `item.prepared`, `partsWithData` or the recovered count |

An action is the code between two awaits. `rotate()` is `Rotate` (next part
begun, old one told to stop), then callbacks (`DataAvailable`,
`RecorderStopped`, `WriteChunk`, `SaveMeta`), then `FinishPart`,
`FinishEmptyPart` or `ClosePartFails`. `uploadOne()` is `Prepare` (or
`NothingLocal`), `GetLink` (or `SkipVerified` on 409), `Put`, `Complete`,
`Remove`; each has a variant in which the answer is lost after the server has
acted (`LinkLost`, `PutLost`, `CompleteLost`) and `RequestFails` for one in
which it has not. A failure sends the item back to the start with its prepared
blob, as the retry loop does. Items are a set because both agents enqueue and
upload in ascending order (`OrderInv` holds the page to it).

`RotateFails` is a rotation whose `rec.start()` throws, which it does on a stream
that has ended. By then the next part is the current one (recorder.js:668), and
`rotate()` rejects before it finishes the old part. The new part's recorder never
runs, so its `onstop` never comes and a `finishPart()` that waits for it waits for
ever: the page is `Stalled` until it goes away. `StartMayThrow` says whether this
may happen. The room page records a composite stream that ends only in
`stopRecording()`, and passes no `reacquire`; the recorder's test page records the
camera itself and does, and there it is real. The models allow it in either.

A tab may close at any point (`PageCrashes`, `RecoveryCrashes`): its memory
goes, IndexedDB stays, and a PUT in flight may still arrive, any number of
times (`LatePut`). `StartRecovery` is the next page of the same meeting.
`SharedTab` lets that page open while the first one is alive.

### RecordingRoom

`Room(A)` is a step `A` of the engine as the page allows it: a recording starts,
and a recovery runs, only while the meeting is open (`open`), and `stop()` is
called by buttons only. `recording` is `RoomController.recording`. `at[b]` is
where the click handler of Stop, Leave or End stands: *waits* in `stopRecording()`
for `stop()`; *stopped* when that has resolved; *returned* when `stopRecording()`
was called but did not wait, because `recorder.js:721` returns at once if the
state is not "recording"; *skipped* when `recording` was false and it was not
called. `Press`, `Returns`, `Leave`, `End` are the code between the awaits of
`room.js:326-378`; a page that navigates away or crashes takes its handlers along
(`Controller`). `EndedElsewhere` is another device of the host.

### RecordingServer

A handler is a record `req[r]` with what `load_recording_for()` brought into the
session, as far as its kind looks at it (`Looks`), and where it stands.
`Written(loaded, set, now)` is the ORM's rule: a column goes out only if the
handler's value differs from the loaded one. Two inserts of a part wait for each other (unique constraint). `Interrupted` is any
end before the next commit. `links` never shrinks: links expire in the code,
and a longer life only adds behaviours. `told` is a history variable: parts a
browser was told are verified, and whose chunks it may have deleted; `erased`
another: parts whose file a delete has removed since the last upload.

`Kinds` and `Overlap` choose what an instance issues and what may overlap a
delete (see Limits), `Sizes[n]` which sizes the blobs of part `n` may have. The
properties speak of a part with `OneBlob(n)`, one size: it was sealed before its
blob was made, which is what `RecorderProofs!UploadsAreSealed` proves of the
engine. Other parts may have several sizes.

### Meeting

| variables | code |
|---|---|
| `status`, `members`, `start`, `end` | the `meetings` row and its `meeting_members` |
| `link`, `uses` | `guest_invites`: none, open or revoked; `use_count` |
| `person` | per LiveKit identity: its token (*made*, or *held* once the answer is out), whose it is (`for`: a link or staff), its `age`, whether `participant_names` has its name, whether it is `inRoom` |
| `req` | the handlers: kind, what they loaded, and the stage they are at |
| `now` | the clock the schedule is compared with |
| `told`, `amnesia` | history: invitations that were confirmed; names were lost while the meeting went on |

A handler is a `Load` (the SELECTs and every check made on what they bring), and
a commit. In between, a handler that writes the status flushes it, since
`audit.log()` flushes (`Flush`, which takes the row's lock until the commit); a
token handler then registers an identity and its name (`Register`), the end of a
meeting closes the LiveKit room (`CloseRoom`, which may fail and is only logged)
and forgets its names (`ForgetRoom`). `Moved` is the UPDATE: no condition on the
status, and only if the handler changed it. `Interrupted` and `Restart` are the
failures: the transaction is undone, names and rooms are not.

The pages only read, so they are state predicates (`Detail`, `Library`,
`Dashboard`, `Lobby`, `Room`, `GuestConsent`, `GuestRoom`), each with the
conditions of its handler; `TokenGranted` and `GuestTokenGranted` are those of the
token handlers. A deployment without LiveKit keys (`LivekitConfigured`) answers 503
to the room pages and to token requests, but shows detail, lobby and consent.
`Door(for)` is every page and handler on the way into the room for the holder of a
link, or for the staff. `FormErrors` is `parse_meeting_form()`, field by field;
`LinkState` is `guest_invite_state()`.

`Permissions` has the matrix of `permissions.py`, `RoleFor` with its order, and
the rule in both forms: `Access`, in Python for a loaded meeting, and `Visible`,
the condition lists are selected with.

There are two clocks, because the schedule is about hours and days and the life
of a token about minutes: `now` jumps through `Instants`, `Age` adds five minutes
to every token and name.

### Accounts

A handler loads an account (`LoginLoad`, `ResetLoad`, `DeactivateLoad`,
`ActivateLoad`) and commits the columns it changed (`LoginOk`, `LoginWrong`,
`LoginBlocked`, `ResetCommit`, `DeactivateCommit`, `ActivateCommit`), by the same
rule `Written`. The password that is sent is right or wrong for the row that was
loaded. `era` (resets and deactivations so far) and `wrong` (wrong passwords in a
row) are history variables. `Apart` is a set of pairs of kinds that must not
overlap on one account, or at all for {"deactivate"}. The runs keep only {"login"}
and {"deactivate"} apart: a login may overlap a reset, a deactivation and an
activation of its account, and of these any two but two deactivations.

### Sessions, RateLimiter

`Sessions` is one row. `Accept` decides when a request loads it; whether the
throttled touch of `last_seen_at` reaches the row is decided by that request's
`Commit` or `Rollback`, and requests overlap. `used` is the history: when the last
request that committed was accepted. `RateLimiter` is `hit()` for one key, a step
of its own since there is no await in it; `Pops(k)` says which entries its loop
takes off, `accepted` is every hit since the process started.

## Runs

| run | constants | properties | result |
|---|---|---|---|
| `recorder_crashes` | 2 parts, 2 chunks, 2 crashes, store and `rec.start()` may fail, deletion | TypeOK, NoChunkLost, VerifiedIsWhole, ReadyIsComplete, FailedIsEmpty, UploadInv, ReadyIsStable, ImplementsDurable | hold |
| `recording_room` | 2 parts, 2 chunks, 1 crash, store works, `rec.start()` may fail, `FairRoomSpec` | ChunksAreFindable, StopperLeavesNothing, ReadyHasEveryChunk, StopCompletes, LeftoverIsRecovered | hold |
| `server` | 2 requests of every kind, 2 parts, the second with blobs of 2 sizes; completes, transcripts and deletes overlap a delete | TypeOK, ReadyIsBacked, VerifiedHasFile, ToldIsVerified, DeletedLeavesNoFile | hold |
| `meeting` | 2 requests, 1 identity, 1 link with 1 visit, 4 users, one accepted form and 9 refused, an hour ahead and looked at then, at the first minute of the guests' window and just after its last, tokens of 2 and names of 3 steps, `FairSpec` | TypeOK, CancelledIsEmpty, InvitedStay, ListedOpens, JoinersAreNamed, LegalMoves, RevokedIsFinal, ClosedForGood, EndedDrains, RevokedDrains | hold |
| `accounts` | 2 users, both administrators, 2 requests, lock after 3 failures, 1 reset or deactivation each | TypeOK, AdminRemains, LogsOut, LockoutCounts | hold |
| `sessions` | 3 requests of up to 3, idle limit 8, absolute 14, touch every 2, clock to 16 | TypeOK, OnlyIdleExpire, AcceptedInTime | hold |
| `rate_limiter` | 3 hits in 3 seconds, 8 hits, clock to 8 | TypeOK, NeverTooMany, RefusedOnlyWhenFull | hold |
| `recorder_two_tabs` | second tab | NoChunkLost | refuted |
| `room_leave` | Leave while Stop waits for the upload | LeaveIsSafe | refuted |
| `last_admin` | 3 users, 2 of them administrators; deactivations overlap | AdminRemains | refuted |
| `meeting_revived` | requests that write the status overlap | LegalMoves | refuted |
| `server_undelete` | 1 part; a finish overlaps a delete | DeletedIsFinal | refuted |

Deadlock checking is off where the system really stops: a recording that is
finished, deleted or given up, a cancelled meeting, a clock at its bound. It is on
in `accounts`, `last_admin` and `rate_limiter`.

**What the passing runs show.** Through any order of callbacks, failing local
writes, lost answers, repeated PUTs, two closed tabs and a deletion, no chunk
IndexedDB acknowledged is lost, no verified file is short or replaced by
something else, *ready* is right and never taken back, *failed* is only said of
a recording without a stored chunk, and the engine is a refinement of
`DurableRecording` (`kept` is what is on the device or in the verified file). In
the room, on a device whose IndexedDB works, a button that waited for `stop()`
goes on with an empty device, `stop()` ends (but for a page that has stalled),
*ready* has every chunk the `MediaRecorder` delivered, and what a closed tab leaves
is found and finished by the next page while the meeting is open. On the server, a part that a browser
was told is verified stays verified however requests overlap, deletes included,
*ready* has its rows, and a delete that was interrupted and repeated leaves
nothing.

A meeting moves along its status machine, a cancelled one is empty, invitations
and revocations stick, lists show what the pages open; and once a meeting has
ended or a link is revoked, no page and no token handler lets anybody in, only
requests that were already running still hand out a token (`ClosedForGood`), and
tokens run out for good, those included, although LiveKit may fail to close the
room. Of accounts, one administrator remains; the lockout never counts fewer than
the wrong passwords in a row, whatever resets, deactivations and activations
overlap the logins (`LockoutCounts`); and a reset or a deactivation leaves no
session of the account, and after it only a login that had loaded the account
before leaves one from before, at most one each (`LogsOut`). An active session
expires only at its absolute limit, but for a slack that `Sessions.Slack` states
exactly: `Touch - 1` for a use that is not recorded, or the length of a request
whose older touch is written over a newer one.

**Why the bounds are enough.** Two parts give a rotation, a queue of more than one
item and a last part. Two chunks tell the first (which is followed by `saveMeta`)
from the rest. Two crashes reach the case that needs both the page's and the
recovery's. Two requests are the smallest overlap, and every property of the
server, of meetings and of accounts relates two handlers; three requests of a
session let a touch be overwritten while another is pending. One identity is
enough for the properties of `Meeting`, each of which speaks of one person at a
time, and its token is made, held, expired and made again. Two administrators are
the fewest of whom one may be deactivated, and one has to send the request. The
proofs remove these bounds for all but the liveness properties.

**Fairness.** In `RecordingRoom`, weak fairness for what the event loop owes:
callbacks that are due, the steps of `stop()`, of an upload and of a recovery that
nothing can refuse, handlers whose wait is over (`Returns`, `Leave`); and for two
things the user does in the end, leaving a page that shows an error and opening
the meeting's room again on this device (`LeaveBrokenPage`, `StartRecovery`).
Requests get strong fairness: a failed request returns its item to the start, so
it is enabled again and again and the code retries for ever with a backoff
(recorder.js:396-410); strong fairness says the network is not against it every
time. Nothing obliges tabs to close, stores to fail, or users to stop recording.
`StopCompletes` excuses a page that has `Stalled`, and a deletion: all requests of
the part are then 404 and the queue never empties. So it is with any refusal that
lasts, a session that is over (401) or a part number above 500 (404): the fairness
of requests assumes that there is none. In `Meeting`, a handler that is running
goes on (`WF(Handle(r))`: it commits or is interrupted) and minutes pass
(`WF(Age)`); nobody has to join, leave, end or revoke.

## Proofs

| module | theorem | statement | assumes |
|---|---|---|---|
| `RecorderProofs` | `TypeCorrect` | `Spec => []TypeOK` | |
| | `UploadsAreSealed` | `Spec => []UploadInv` | `~SharedTab` |
| | `ChunksSurvive` | `Spec => []NoChunkLost` | `~SharedTab` |
| | `VerifiedPartsAreWhole` | `Spec => []VerifiedIsWhole` | `~SharedTab` |
| `RefinementProofs` | `ReadyMeansComplete` | `Spec => []ReadyIsComplete` | `~SharedTab` |
| | `FailedMeansEmpty` | `Spec => []FailedIsEmpty` | `~SharedTab` |
| | `ReadyIsForGood` | `Spec => ReadyIsStable` | `~SharedTab` |
| | `EngineIsDurable` | `Spec => ImplementsDurable` | `~SharedTab` |
| `RoomProofs` | `RoomLosesNoChunk` | `RoomSpec => []NoChunkLost` | `~SharedTab` |
| | `RoomVerifiesWholeParts` | `RoomSpec => []VerifiedIsWhole` | `~SharedTab` |
| | `RoomReadyIsComplete` | `RoomSpec => []ReadyIsComplete` | `~SharedTab` |
| | `RoomFailsOnlyEmpty` | `RoomSpec => []FailedIsEmpty` | `~SharedTab` |
| | `RoomIsDurable` | `RoomSpec => ImplementsDurable` | `~SharedTab` |
| | `LeftoversAreFound` | `RoomSpec => []ChunksAreFindable` | `~SharedTab`, `~StoreMayFail` |
| | `ForgottenIsArchived` | no meta row and not deleted: every stored part is verified, its file has every chunk | `~SharedTab`, `~StoreMayFail` |
| | `StopperMayGo` | `RoomSpec => []StopperLeavesNothing` | `~SharedTab`, `~StoreMayFail` |
| | `ReadyMissesNothing` | `RoomSpec => []ReadyHasEveryChunk` | `~SharedTab`, `~StoreMayFail` |
| `RecordingServerProofs` | `TypeCorrect` | `Spec => []TypeOK` | |
| | `AnswersStayTrue` | `Spec => []ToldIsVerified` | |
| | `VerifiedPartsHaveFiles` | `Spec => []VerifiedHasFile` | |
| | `ReadyHasItsRows` | `Spec => []ReadyIsBacked` | `FinishIsAlone`, `OneExpected` |
| | `FinishesInTurn` | `Spec /\ []InTurn => []ReadyIsBacked` | `FinishIsAlone` |
| | `DeletionSettles` | `Spec => [](Settled => [](status = "deleted"))` | |
| | `DeletionIsComplete` | `Spec => []DeletedLeavesNoFile` | `DeleteIsAlone` |
| `MeetingProofs` | `MeetingTypes` | `Spec => []TypeOK` | |
| | `ListsAreRight` | `Spec => []ListedOpens` | |
| | `InvitationsStay` | `Spec => []InvitedStay` | |
| | `RevokedStays` | `Spec => RevokedIsFinal` | |
| | `MovesAreLegal` | `Spec => LegalMoves` | `~WritersOverlap` |
| | `CancelledMeetingsAreEmpty` | `Spec => []CancelledIsEmpty` | `~WritersOverlap` |
| | `EntrantsAreNamed` | `Spec => []JoinersAreNamed` | `~WritersOverlap` |
| | `DoorsStayShut` | `Spec => ClosedForGood` | `~WritersOverlap` |
| `AccountsProofs` | `AccountTypes` | `Spec => []TypeOK` | |
| | `AnAdminRemains` | `Spec => []AdminRemains` | {"deactivate"} apart |
| | `OldSessionsAreDead` | `Spec => LogsOut` | |
| `SessionsProofs` | `SessionTypes`, `NobodyActiveExpires`, `NobodyLateIsServed` | `TypeOK`, `OnlyIdleExpire`, `AcceptedInTime` | |
| `RateLimiterProofs` | `LimiterTypes`, `WindowIsRespected`, `RefusalHasCause` | `TypeOK`, `NeverTooMany`, `RefusedOnlyWhenFull` | |

All of them also rest on the named ASSUMEs of the constants, which TLC evaluates.
On the server, `FinishIsAlone` is: a finish and a delete wait for each other;
everything else may overlap a delete. `OneExpected`: finishes agree on
`parts_expected`, and `InTurn`, its alternative: they run one after the other, as
those of one tab do. `DeleteIsAlone`: a delete overlaps no PUT, upload-url or
finish. The code enforces none of these; Findings and Limits say what happens
without them. `Settled` is a deleted recording with no finish running.

Every invariant but the plainest had to be strengthened. The arguments:

- **`UploadInv`** (`RecorderProofs`). `NoChunkLost` alone is not inductive: a late
  PUT could replace a verified file by a shorter one, a queue could upload a part
  that is still growing, a "remove" step could belong to a part that was never
  verified. `PageInv`: parts start in order, in a living page only. `OrderInv`:
  what the page has queued is behind the part `finishPart()` works on, so nothing
  queued can still grow. `QueueInv`: a queue lives in a living agent and holds
  sealed parts only (`Sealed`: the recorder has stopped and the writes chain has
  run, or the page has gone). `OpenInv`: a part that is not sealed is on the device
  and nowhere else. `WholeInv`: of a sealed part the same set of chunks is on the
  device, on the wire and in storage, and it leaves the device only verified.
  `StepInv`: where `uploadOne()` stands tells what is known of the head item.
- **`VerdictInv`** (`RefinementProofs`). Why the count told to `finish()` is
  right. `CountInv`: a finished part is quiet and counted. `WritesInv`: the meta
  row names a part that has a chunk. `RecoveryInv`: a recovery expects no less
  than any trace on the device. `FailedIsEmpty`: a count of 0 is only sent by a
  page that has stored nothing. `StalledInv`: the part whose recorder never
  started is the one being finished or the next to be, so in a page that has
  stalled no `finishPart()` returns any more and `finish()` is never called.
  `ReadyInv`: "ready" was reached with some count `e` up to which all is verified,
  and whoever will call `finish()` again sends at most `e` (`ReachedWith`). The
  refinement maps `WriteChunk` to `Keep`, a verified complete to `Archive`,
  `finish()` to `Conclude`, a deletion to `Delete`, and the clearing of the device
  afterwards to `Discard`; all else stutters.
- **`RoomInv`** (`RoomProofs`). `AccountedInv`: with a store that works, a chunk on
  the device belongs to a part that is queued, being finished or still open, and an
  agent that calls `finish()` has an empty queue. `ButtonInv`: a handler past
  `stop()` finds the engine done or refused. A step of the room is a step of the
  engine or the page going away (`RoomSteps`), so the engine's invariants, and its
  refinement of `DurableRecording`, carry over to the room.
- **`RecordingServerProofs`.** A step of one handler leaves what the others have
  loaded alone (`HandleAdvances`). `ToldInv`: of a part with one size (`Single`),
  a complete works on a row that was not verified, finds no other size, and a row
  that is being inserted is not there yet (`Honest`), so nothing that was verified
  is written again. `FileInv`: a complete that matched still finds that file,
  unless a delete has removed it. `SeenInv`: what a finish saw verified (`Saw`)
  still is, so its verdict is right when it is committed; `FinishInv` and
  `TurnInv` say why the column next to it has the count the verdict was made for,
  and `FinalInv` that nobody finishes a deleted recording, where finishes are
  alone. `DeletionSettles` assumes no such thing: a finish that is running never
  loaded "deleted", and none can start. `DeleteInv`: no file and no usable link
  without a row that a delete has seen. `TypeCorrect` needs `total_bytes`, a
  recursive function: `UpToAdds` shows that it exists, and `TotalBounds` bounds
  it, each by a least counterexample (`Climb`).
- **`MeetingProofs`.** `Suits` says what the load of a handler checked, `Knows`
  what is left of it at the commit: while the requests that write the status do
  not overlap, the status is still the one loaded. `InviteInv`: members only
  grow. `Shut`: every page and handler of `Door` looks at the status or at the link
  for itself. `LinkInv`: an insert of a link is the only one. `OwnerInv`: a token is
  for whom its request is. `WaitingInv`: before a meeting is live every token is
  unsent. `NamedInv`: a name that is not expired is there.
- **`AccountsProofs`.** `AdminInv`: the administrator being deactivated is not the
  only one. `Ends(u)`: what one step does to the sessions and the logins of an
  account, which is `LogsOut` for every step of every handler.
- **`Lag`** (`SessionsProofs`): the record lags behind the last use by at most
  `Slack`, and so does the start of every running request that will not touch.
- **`Suffix`, `Sorted`** (`RateLimiterProofs`): the bucket is the tail of all hits
  let through, and what was dropped is stale.

Model-checked only: `LockoutCounts`, and the four liveness properties
(`StopCompletes`, `LeftoverIsRecovered`, `EndedDrains`, `RevokedDrains`), since the
prover has no ENABLED and so no fairness. Of the last two the safety half is proved
(`DoorsStayShut`): requests for tokens only get fewer and every new holder uses one
up; that those requests end and tokens expire is the fairness.

## Findings

Each is a run that ends in a counterexample, with the sentence of the sources it
contradicts quoted in `PROJECT.json`.

1. `recorder_two_tabs` (recorder.js:785): a second tab recovers a recording the
   first is still making. The open part is uploaded as far as it goes, verified
   and deleted; chunks written later are skipped as already verified, and
   deleted.
2. `room_leave` (room.js:367): Leave pressed while the Stop button waits for the
   upload calls `stopRecording()` a second time, which returns without waiting; the
   page disconnects and navigates away with parts on the device.
3. `last_admin` (admin.py:140): two deactivations that overlap each count the
   other's administrator, and none is left.
4. `meeting_revived` (services/meetings.py:37): the first token of a meeting and a
   cancel, both checked on a scheduled one, overlap: the token commits "live" and
   the cancel "cancelled" over a live meeting, or the other way round.
5. `server_undelete` (recordings.py:234): a finish that loaded the recording
   before a delete commits its verdict after it, and a recording whose files and
   rows are gone is listed again.

## Limits

What a property leaves out, and what happens without it (each was tried with TLC):

- **Store failures.** `recording_room` is about a device whose IndexedDB works. With
  `StoreMayFail`, `closePart()` rejecting in a rotation leaves its part off the
  queue and `stop()` still resolves (refutes `StopperLeavesNothing`), and a chunk
  that cannot be written is in no file of a *ready* recording (refutes
  `ReadyHasEveryChunk`). `MemoryStore`, the fallback without IndexedDB, survives no
  page and so promises none of this.
- **Recovery.** `LeftoverIsRecovered` excuses a meeting that is no longer open,
  since only its room recovers, and `Stranded`: a tab closed between `putChunk(0)`
  and `saveMeta(1)` and a recovery closed before `finish()` leave a meta row that
  `findUnfinished()` skips, and the recording stays "recording". A part without data
  below one with data makes a recording *partial* though nothing is missing:
  `partsWithData` is a maximum.
- **A rotation that cannot start.** With `StartMayThrow` a page may be `Stalled`: its
  `stop()` never ends (`StopCompletes` excuses that), and what it has not uploaded
  stays on the device until the page goes away and the next one recovers it.
- **Overlaps with a delete.** The code allows them all; `server` cuts the three
  that are harmful. With "finish" in `Overlap` a verdict is committed over the
  delete (`server_undelete`; it refutes `ReadyIsBacked` and `DeletedLeavesNoFile`
  as well, and is why the theorems about them assume it away; `DeletionSettles`
  says what holds with it). With "put" a link that is still valid, and with "url"
  a row and a link that an upload-url makes for a recording it loaded before,
  leave a file behind a delete (both refute `DeletedLeavesNoFile`, and only that).
- **Uploads.** The properties of the server speak of parts whose blobs have one
  size, which the engine keeps to (`UploadInv`). A part that is prepared twice
  with different bytes is in `server` too, but nothing is said of it: a late
  upsert replaces the file of its verified row, and a complete of the other size
  takes the verification back. A file that is replaced by another of the same size
  is not seen. `ReadyIsBacked` needs finishes that agree on `parts_expected` or
  run one after the other; two that differ and overlap mix their columns.
- **Writers of a meeting's status.** Overlaps refute `LegalMoves` (a finding),
  and with it `CancelledIsEmpty`, `JoinersAreNamed` and `EndedDrains`.
- **Names.** `JoinersAreNamed` excuses names that were lost in a restart, or by an
  end that was interrupted after `forget_room()`.
- **Accounts.** `LockoutCounts` fails when two logins of one account overlap (two
  wrong passwords at a time count as one), and says only that none is missed: a
  login that overlaps a reset may write an older, higher count over it. A login
  that overlaps a reset or a deactivation does leave a session from before it,
  committed after the sessions were deleted; `LogsOut` says that nothing else
  does. Two deactivations at a time are the finding `last_admin`.
- **LiveKit.** The runs are of a deployment that has keys; `LivekitConfigured` is
  free in the proofs. Without them nobody gets in, and the lobby leads to a 503.
- **Lists.** `ListedOpens` is about what a list selects. That the library shows the
  latest 300 meetings (meetings.py:112), and the dashboard 20, is left out.

What the models do not see:

- One recording id, and one per room: recordings share nothing but the page's
  queue and the device's quota. Rows of a recording and of its parts are loaded in
  one step, though they are two SELECTs.
- A request other than a PUT that outlives its page is in `RecordingServer`
  (a handler nobody waits for), not in `Recorder`.
- Storage keeps a PUT as a whole or not at all. The development storage writes
  through one temporary file per path and does not when two PUTs overlap.
- In `Meeting` the minutes of the schedule and the five-minute steps of tokens run
  independently, which adds orders and removes none.
- Left out of modelled components: codecs, the WebM duration fix, battery, wake lock
  and device checks; streams and `replaceStream()`, whose effect on the parts is a
  `Rotate`, `RotateFails` or `TracksEnded`; muting, which only calls LiveKit; signatures and
  expiry of links, the transcript's text, hashing, cookies; `client_ip()`; a 429 is
  `RequestFails`.

Not modelled at all, with the reason, are the components that `PROJECT.json` marks
so: the player, composite and lobby pages, which draw or call one API and change
nothing stored; form and list pages without state; pure services (ICS text, key
derivation, transcription, an append-only log); request plumbing; scripts that an
operator runs once.

## Plan

What would be worth adding, in this order:

1. `Player`: the current part against a list of links that is refreshed while parts
   are verified or demoted (player.js:42, in the hazards).
2. Streams in `RecordingRoom`: which stream a part records when a device is lost
   during a rotation (recorder.js:604).
3. `Meeting` and `RecordingServer` in one module, for a recording that is started
   while its meeting ends.
4. A second recording id in `RecordingRoom`, whose recovery starts while another is
   being made.
5. `RecordingServer` as an implementation of the atomic handlers that `Recorder`
   assumes: for one browser, the commit of a handler is the step of `Recorder`, and
   the invariants of `RecordingServerProofs` say that what it loaded still holds.
