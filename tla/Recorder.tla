------------------------------ MODULE Recorder ------------------------------
(***************************************************************************)
(* The browser recording engine (src/app/static/js/recorder.js) working on *)
(* ONE recording id, together with everything it talks to:                 *)
(*                                                                         *)
(*   page       class Recorder: MediaRecorder parts, rotation, local       *)
(*              writes, stop() and completeWhenUploaded()                  *)
(*   queues     class UploadQueue, one instance in the recording page and  *)
(*              one in recoverRecording()                                  *)
(*   local      the IndexedDB store: chunks and the meta row               *)
(*   server     the part rows and the recording status, each API handler   *)
(*              taken as atomic here (RecordingServer splits them)         *)
(*   storage    the bucket, and PUTs that outlive the page that sent them  *)
(*                                                                         *)
(* A chunk is its index in its part and a file is the set of chunks it was *)
(* built from, so what a property can see is which chunks are where.       *)
(***************************************************************************)
EXTENDS Integers, FiniteSets

CONSTANTS
  MaxParts,      \* bound: parts a recording may have
  MaxChunks,     \* bound: chunks one part may produce
  MaxCrashes,    \* bound: closed, refreshed or crashed tabs
  StoreMayFail,  \* IndexedDB operations may reject (quota, eviction)
  StartMayThrow, \* MediaRecorder.start() may throw (its stream has ended)
  MayDelete,     \* someone may delete the recording while it is uploading
  SharedTab      \* a second tab of the same browser may run the recovery
                 \* while the recording page is still alive

ASSUME BoundsAssumption ==
  /\ MaxParts \in Nat \ {0}
  /\ MaxChunks \in Nat \ {0}
  /\ MaxCrashes \in Nat
ASSUME SwitchAssumption ==
  /\ StoreMayFail \in BOOLEAN /\ StartMayThrow \in BOOLEAN
  /\ MayDelete \in BOOLEAN /\ SharedTab \in BOOLEAN

Parts  == 1..MaxParts
Idx    == 0..(MaxChunks - 1)
Agents == {"page", "recovery"}

VARIABLES
  \* server: the Recording row and its RecordingPart rows
  status,     \* Recording.status, "none" before the row exists
  row,        \* RecordingPart.status of each part, "none" without a row
  size,       \* RecordingPart.size_bytes, counted in chunks
  \* storage
  object,     \* the file of each part, {} when there is none
  late,       \* PUTs the browser has given up on that may still arrive
  \* IndexedDB
  chunks,     \* chunks of each part on this device
  meta,       \* partsStarted of the meta row, NoMeta without the row
  \* Recorder
  mode,       \* Recorder.state of the page, progress of the recovery
  cur,        \* number of the current part
  rec,        \* state of each part's MediaRecorder
  idx,        \* part.idx: chunks handed over so far
  written,    \* how many links of the part.writes chain have run
  metaDue,    \* parts whose chunk 0 is stored and saveMeta(n) has not run
  fin,        \* the part finishPart() is working on, 0 when none
  \* UploadQueue, one per agent
  queue,      \* items: always enqueued and uploaded in ascending order
  step,       \* where uploadOne() stands with the head item
  blob,       \* item.prepared of the head item, {} when not prepared
  expect,     \* parts_expected the agent will send
  crashes,    \* bound counter
  saved       \* history: every chunk that was ever stored on this device

serverVars == <<status, row, size>>
bucketVars == <<object, late>>
localVars  == <<chunks, meta, saved>>
partVars   == <<cur, rec, idx, written, metaDue, fin>>
queueVars  == <<queue, step, blob>>
vars == <<serverVars, bucketVars, localVars, mode, partVars, queueVars,
          expect, crashes>>

NoMeta == -1
NoPart == 0
Outcomes == {"recording", "ready", "partial", "failed"}

Init ==
  /\ status = "none"
  /\ row = [n \in Parts |-> "none"]
  /\ size = [n \in Parts |-> 0]
  /\ object = [n \in Parts |-> {}]
  /\ late = {}
  /\ chunks = [n \in Parts |-> {}]
  /\ meta = NoMeta
  /\ saved = [n \in Parts |-> {}]
  /\ mode = [a \in Agents |-> "idle"]
  /\ cur = NoPart
  /\ rec = [n \in Parts |-> "none"]
  /\ idx = [n \in Parts |-> 0]
  /\ written = [n \in Parts |-> 0]
  /\ metaDue = {}
  /\ fin = NoPart
  /\ queue = [a \in Agents |-> {}]
  /\ step = [a \in Agents |-> "fetch"]
  /\ blob = [a \in Agents |-> {}]
  /\ expect = [a \in Agents |-> 0]
  /\ crashes = 0

-----------------------------------------------------------------------------
(* Starting: Recorder.start().                                             *)

Enter(a, m) == mode' = [mode EXCEPT ![a] = m]

\* POST /recordings answered: the row exists and the page knows its id.
StartRecording ==
  /\ mode["page"] = "idle"
  /\ Enter("page", "starting")
  /\ status' = "recording"
  /\ UNCHANGED <<row, size, bucketVars, localVars, partVars, queueVars,
                 expect, crashes>>

\* The answer is lost: no page ever learns this recording id.
StartLost ==
  /\ mode["page"] = "idle"
  /\ Enter("page", "closed")
  /\ status' = "recording"
  /\ UNCHANGED <<row, size, bucketVars, localVars, partVars, queueVars,
                 expect, crashes>>

\* saveMeta(0) rejects, or beginPart(1) throws after it, and start() with it:
\* the page drops the recording.
StartFails ==
  /\ mode["page"] = "starting"
  /\ Enter("page", "closed")
  /\ \/ StoreMayFail /\ meta' = meta
     \/ StartMayThrow /\ meta' = 0
  /\ UNCHANGED <<serverVars, bucketVars, chunks, saved, partVars, queueVars,
                 expect, crashes>>

\* saveMeta(0), then state = "recording" and beginPart(1).
BeginRecording ==
  /\ mode["page"] = "starting"
  /\ Enter("page", "recording")
  /\ meta' = 0
  /\ cur' = 1
  /\ rec' = [rec EXCEPT ![1] = "on"]
  /\ UNCHANGED <<serverVars, bucketVars, chunks, saved, idx, written, metaDue,
                 fin, queueVars, expect, crashes>>

-----------------------------------------------------------------------------
(* The parts: MediaRecorder events and the part.writes chain.              *)

\* ondataavailable: the chunk gets its index and a link of the writes chain.
\* The byte limit it may reach asks for a Rotate.
DataAvailable(n) ==
  /\ rec[n] \in {"on", "flushing"}
  /\ idx[n] < MaxChunks
  /\ idx' = [idx EXCEPT ![n] = @ + 1]
  /\ UNCHANGED <<serverVars, bucketVars, localVars, mode, cur, rec, written,
                 metaDue, fin, queueVars, expect, crashes>>

\* Every track of its stream ended: the MediaRecorder stops by itself.
TracksEnded(n) ==
  /\ rec[n] = "on"
  /\ rec' = [rec EXCEPT ![n] = "flushing"]
  /\ UNCHANGED <<serverVars, bucketVars, localVars, mode, cur, idx, written,
                 metaDue, fin, queueVars, expect, crashes>>

\* onstop, after the last dataavailable.
RecorderStopped(n) ==
  /\ rec[n] = "flushing"
  /\ rec' = [rec EXCEPT ![n] = "off"]
  /\ UNCHANGED <<serverVars, bucketVars, localVars, mode, cur, idx, written,
                 metaDue, fin, queueVars, expect, crashes>>

\* The next link of the writes chain may run: links run one at a time.
WriteDue(n) == written[n] < idx[n] /\ n \notin metaDue

\* putChunk(); the first chunk of a part is followed by saveMeta(n) in the
\* same link, so the link is not over yet.
WriteChunk(n) ==
  /\ WriteDue(n)
  /\ chunks' = [chunks EXCEPT ![n] = @ \cup {written[n]}]
  /\ saved' = [saved EXCEPT ![n] = @ \cup {written[n]}]
  /\ metaDue' = IF written[n] = 0 THEN metaDue \cup {n} ELSE metaDue
  /\ written' = [written EXCEPT ![n] = @ + 1]
  /\ UNCHANGED <<serverVars, bucketVars, meta, mode, cur, rec, idx, fin,
                 queueVars, expect, crashes>>

\* putChunk() rejects: "local_write_failed", the chunk is gone and the chain
\* goes on with the next one.
WriteFails(n) ==
  /\ StoreMayFail
  /\ WriteDue(n)
  /\ written' = [written EXCEPT ![n] = @ + 1]
  /\ UNCHANGED <<serverVars, bucketVars, localVars, mode, cur, rec, idx,
                 metaDue, fin, queueVars, expect, crashes>>

\* saveMeta(n), or its failure, which the link swallows.
SaveMeta(n) ==
  /\ n \in metaDue
  /\ metaDue' = metaDue \ {n}
  /\ \/ meta' = n
     \/ StoreMayFail /\ meta' = meta
  /\ UNCHANGED <<serverVars, bucketVars, chunks, saved, mode, cur, rec, idx,
                 written, fin, queueVars, expect, crashes>>

\* A second rotate() or one after stop() returns at once.
MayRotate == mode["page"] = "recording" /\ fin = NoPart

\* rec.stop(), which does nothing to a recorder that is not running.
Stopping(n) == [rec EXCEPT ![n] = IF @ = "on" THEN "flushing" ELSE @]

\* rotate() up to its first await: the next part starts, on the same stream or
\* on the one replaceStream() has brought, then the old one is told to stop.
\* MaxParts is a bound of the model: recorder.js has none, the server refuses
\* a part number above 500.
Rotate ==
  /\ MayRotate
  /\ cur < MaxParts
  /\ cur' = cur + 1
  /\ fin' = cur
  /\ rec' = [Stopping(cur) EXCEPT ![cur + 1] = "on"]
  /\ UNCHANGED <<serverVars, bucketVars, localVars, mode, idx, written,
                 metaDue, queueVars, expect, crashes>>

\* rec.start() throws on a stream that has ended: the next part is the current
\* one by then, and rotate() rejects before it finishes the old part, which was
\* told to stop only where two recorders must not overlap (Safari). The new
\* part's recorder never runs, so its onstop never comes.
RotateFails ==
  /\ StartMayThrow
  /\ MayRotate
  /\ cur < MaxParts
  /\ cur' = cur + 1
  /\ rec' \in {rec, Stopping(cur)}
  /\ UNCHANGED <<serverVars, bucketVars, localVars, mode, idx, written,
                 metaDue, fin, queueVars, expect, crashes>>

\* stop(): the state changes first, a running rotation is waited for.
StopClicked ==
  /\ mode["page"] = "recording"
  /\ Enter("page", "stopping")
  /\ UNCHANGED <<serverVars, bucketVars, localVars, partVars, queueVars,
                 expect, crashes>>

\* No rotation is running: finishPart(this.current).
StopCurrentPart ==
  /\ mode["page"] = "stopping"
  /\ fin = NoPart
  /\ fin' = cur
  /\ rec' = Stopping(cur)
  /\ UNCHANGED <<serverVars, bucketVars, localVars, mode, cur, idx, written,
                 metaDue, queueVars, expect, crashes>>

\* Mutant: finishPart() does not wait for the writes chain.
SettledBeforeWrites(n) == rec[n] = "off"

\* Mutant: finishPart() does not wait for onstop.
SettledBeforeStop(n) == written[n] = idx[n] /\ n \notin metaDue

\* What finishPart() has awaited when it goes on: part.stopped, part.writes.
PartSettled(n) ==
  /\ rec[n] = "off"
  /\ written[n] = idx[n]
  /\ n \notin metaDue

\* Mutant: this.rotating is never reset.
NeverReturns ==
  /\ fin' = fin
  /\ mode' = mode

\* finishPart() returned to rotate(), or to stop() which then uploads.
FinishReturns ==
  /\ fin' = NoPart
  /\ mode' = IF mode["page"] = "stopping" /\ fin = cur
             THEN [mode EXCEPT !["page"] = "uploading"] ELSE mode

\* A part that stopped before any data arrived is not uploaded or expected.
FinishEmptyPart ==
  /\ fin # NoPart
  /\ PartSettled(fin)
  /\ idx[fin] = 0
  /\ FinishReturns
  /\ UNCHANGED <<serverVars, bucketVars, localVars, cur, rec, idx, written,
                 metaDue, queueVars, expect, crashes>>

\* partsWithData, closePart() and enqueue(). A tab closed between closePart
\* and enqueue leaves what one closed right after enqueue leaves.
FinishPart ==
  /\ fin # NoPart
  /\ PartSettled(fin)
  /\ idx[fin] > 0
  /\ expect' = [expect EXCEPT !["page"] = IF @ > fin THEN @ ELSE fin]
  /\ queue' = [queue EXCEPT !["page"] = @ \cup {fin}]
  /\ FinishReturns
  /\ UNCHANGED <<serverVars, bucketVars, localVars, cur, rec, idx, written,
                 metaDue, step, blob, crashes>>

\* closePart() rejects: partsWithData has moved, the part is not enqueued.
\* rotate() only clears its flag; stop() rejects and stays in "stopping".
ClosePartFails ==
  /\ StoreMayFail
  /\ fin # NoPart
  /\ PartSettled(fin)
  /\ idx[fin] > 0
  /\ expect' = [expect EXCEPT !["page"] = IF @ > fin THEN @ ELSE fin]
  /\ fin' = NoPart
  /\ mode' = IF mode["page"] = "stopping" /\ fin = cur
             THEN [mode EXCEPT !["page"] = "stopFailed"] ELSE mode
  /\ UNCHANGED <<serverVars, bucketVars, localVars, cur, rec, idx, written,
                 metaDue, queueVars, crashes>>

-----------------------------------------------------------------------------
(* The server's handlers, each one transaction.                            *)

SizeOf(data) == Cardinality(data)

\* load_recording_for() finds the recording.
Exists == status \in Outcomes

\* Mutant: any part with a row is taken for verified.
AlreadyKnown(n) == row[n] # "none"

\* part_upload_url answers 409 already_verified.
AlreadyVerified(n) == row[n] = "verified"

\* part_upload_url creates the row of a part it has not seen.
UploadUrl(n) == row' = [row EXCEPT ![n] = IF @ = "none" THEN "pending" ELSE @]

\* part_complete: the row already says so, or storage holds as many bytes.
Accepts(n, data) ==
  \/ row[n] = "verified" /\ size[n] = SizeOf(data)
  \/ object[n] # {} /\ SizeOf(object[n]) = SizeOf(data)

CompletePart(n, data) ==
  IF Accepts(n, data)
  THEN /\ row' = [row EXCEPT ![n] = "verified"]
       /\ size' = [size EXCEPT ![n] = SizeOf(data)]
  ELSE /\ row' = [row EXCEPT ![n] = IF object[n] = {} THEN @ ELSE "uploaded"]
       /\ UNCHANGED size

\* Mutant: parts without a row are not missed.
MissingRows(expected) == {n \in 1..expected : row[n] \notin {"none", "verified"}}

Missing(expected) == {n \in 1..expected : row[n] # "verified"}

\* finish_recording: recomputed from what storage has confirmed.
Verdict(expected) ==
  CASE expected = 0            -> "failed"
    [] expected > 0 /\ Missing(expected) # {} -> "partial"
    [] OTHER                   -> "ready"

-----------------------------------------------------------------------------
(* UploadQueue.uploadOne() on the head item, for either agent. A failure   *)
(* at any step sends the item back to "fetch" after the backoff.           *)

Least(S) == CHOOSE n \in S : \A m \in S : n <= m

\* items[0]
Head(a) == Least(queue[a])

At(a, s) ==
  /\ queue[a] # {}
  /\ step[a] = s

Goto(a, s) == step' = [step EXCEPT ![a] = s]

\* items.shift(): the prepared blob goes with its item.
Shift(a) ==
  /\ queue' = [queue EXCEPT ![a] = @ \ {Head(a)}]
  /\ blob' = [blob EXCEPT ![a] = {}]
  /\ Goto(a, "fetch")

\* getPart() finds no chunks: already uploaded and cleaned up.
NothingLocal(a) ==
  /\ At(a, "fetch")
  /\ chunks[Head(a)] = {}
  /\ Shift(a)
  /\ UNCHANGED <<serverVars, bucketVars, localVars, mode, partVars, expect,
                 crashes>>

\* getPart(), then the blob unless an earlier attempt has prepared it.
Prepare(a) ==
  /\ At(a, "fetch")
  /\ chunks[Head(a)] # {}
  /\ blob' = [blob EXCEPT ![a] = IF @ = {} THEN chunks[Head(a)] ELSE @]
  /\ Goto(a, "link")
  /\ UNCHANGED <<serverVars, bucketVars, localVars, mode, partVars, queue,
                 expect, crashes>>

GetLink(a) ==
  /\ At(a, "link")
  /\ Exists
  /\ ~AlreadyVerified(Head(a))
  /\ UploadUrl(Head(a))
  /\ Goto(a, "put")
  /\ UNCHANGED <<status, size, bucketVars, localVars, mode, partVars, queue,
                 blob, expect, crashes>>

\* The row is created but its answer does not reach the browser.
LinkLost(a) ==
  /\ At(a, "link")
  /\ Exists
  /\ ~AlreadyVerified(Head(a))
  /\ UploadUrl(Head(a))
  /\ Goto(a, "fetch")
  /\ UNCHANGED <<status, size, bucketVars, localVars, mode, partVars, queue,
                 blob, expect, crashes>>

\* Mutant: 409 already_verified is an error like any other.
VerifiedIsRefused(a) ==
  /\ At(a, "link")
  /\ Exists
  /\ AlreadyVerified(Head(a))
  /\ Goto(a, "fetch")
  /\ UNCHANGED <<serverVars, bucketVars, localVars, mode, partVars, queue,
                 blob, expect, crashes>>

\* alreadyVerified: no PUT and no complete, prepared is dropped.
SkipVerified(a) ==
  /\ At(a, "link")
  /\ Exists
  /\ AlreadyVerified(Head(a))
  /\ blob' = [blob EXCEPT ![a] = {}]
  /\ Goto(a, "remove")
  /\ UNCHANGED <<serverVars, bucketVars, localVars, mode, partVars, queue,
                 expect, crashes>>

\* The signed link is an upsert: the file is replaced.
Put(a) ==
  /\ At(a, "put")
  /\ object' = [object EXCEPT ![Head(a)] = blob[a]]
  /\ Goto(a, "complete")
  /\ UNCHANGED <<serverVars, late, localVars, mode, partVars, queue, blob,
                 expect, crashes>>

\* Aborted after five minutes, or the answer is lost: the file is there, or
\* the request is still on its way. (RequestFails: it never got anywhere.)
PutLost(a) ==
  /\ At(a, "put")
  /\ \/ /\ object' = [object EXCEPT ![Head(a)] = blob[a]]
        /\ UNCHANGED late
     \/ /\ late' = late \cup {[part |-> Head(a), data |-> blob[a]]}
        /\ UNCHANGED object
  /\ Goto(a, "fetch")
  /\ UNCHANGED <<serverVars, localVars, mode, partVars, queue, blob, expect,
                 crashes>>

Complete(a) ==
  /\ At(a, "complete")
  /\ Exists
  /\ row[Head(a)] # "none"
  /\ CompletePart(Head(a), blob[a])
  /\ IF Accepts(Head(a), blob[a])
     THEN Goto(a, "remove") /\ blob' = [blob EXCEPT ![a] = {}]
     ELSE Goto(a, "fetch") /\ UNCHANGED blob
  /\ UNCHANGED <<status, bucketVars, localVars, mode, partVars, queue, expect,
                 crashes>>

\* The handler commits but its answer does not reach the browser.
CompleteLost(a) ==
  /\ At(a, "complete")
  /\ Exists
  /\ row[Head(a)] # "none"
  /\ CompletePart(Head(a), blob[a])
  /\ Goto(a, "fetch")
  /\ UNCHANGED <<status, bucketVars, localVars, mode, partVars, queue, blob,
                 expect, crashes>>

\* No connection, 404, 429 or 503: nothing happened on the other side.
RequestFails(a) ==
  /\ At(a, "link") \/ At(a, "put") \/ At(a, "complete")
  /\ Goto(a, "fetch")
  /\ UNCHANGED <<serverVars, bucketVars, localVars, mode, partVars, queue,
                 blob, expect, crashes>>

\* deletePart(), one transaction over chunks and parts.
Remove(a) ==
  /\ At(a, "remove")
  /\ chunks' = [chunks EXCEPT ![Head(a)] = {}]
  /\ Shift(a)
  /\ UNCHANGED <<serverVars, bucketVars, meta, saved, mode, partVars, expect,
                 crashes>>

RemoveFails(a) ==
  /\ StoreMayFail
  /\ At(a, "remove")
  /\ Goto(a, "fetch")
  /\ UNCHANGED <<serverVars, bucketVars, localVars, mode, partVars, queue,
                 blob, expect, crashes>>

-----------------------------------------------------------------------------
(* completeWhenUploaded() and the second half of recoverRecording().       *)

\* Mutant: idle() resolves while the queue waits for its next attempt.
NothingRunning(a) == step[a] = "fetch"

\* queue.idle() has resolved.
QueueIdle(a) == queue[a] = {}

Finish(a) ==
  /\ mode[a] = "uploading"
  /\ QueueIdle(a)
  /\ Exists
  /\ status' = Verdict(expect[a])
  /\ Enter(a, "confirmed")
  /\ UNCHANGED <<row, size, bucketVars, localVars, partVars, queueVars,
                 expect, crashes>>

FinishLost(a) ==
  /\ mode[a] = "uploading"
  /\ QueueIdle(a)
  /\ Exists
  /\ status' = Verdict(expect[a])
  /\ UNCHANGED <<row, size, bucketVars, localVars, mode, partVars, queueVars,
                 expect, crashes>>

\* 404: the page gives up with "finish_refused", recoverRecording() throws
\* and its caller lets the local data be.
FinishRefused(a) ==
  /\ mode[a] = "uploading"
  /\ QueueIdle(a)
  /\ ~Exists
  /\ Enter(a, IF a = "page" THEN "error" ELSE "idle")
  /\ UNCHANGED <<serverVars, bucketVars, localVars, partVars, queueVars,
                 expect, crashes>>

\* deleteMeta(): nothing on this device points at the recording any more.
ForgetMeta(a) ==
  /\ mode[a] = "confirmed"
  /\ meta' = NoMeta
  /\ Enter(a, IF a = "page" THEN "done" ELSE "idle")
  /\ UNCHANGED <<serverVars, bucketVars, chunks, saved, partVars, queueVars,
                 expect, crashes>>

\* deleteMeta() rejects inside the retry loop: finish() is sent again.
ForgetFails(a) ==
  /\ StoreMayFail
  /\ mode[a] = "confirmed"
  /\ Enter(a, "uploading")
  /\ UNCHANGED <<serverVars, bucketVars, localVars, partVars, queueVars,
                 expect, crashes>>

-----------------------------------------------------------------------------
(* Tabs, recovery, and the world outside.                                  *)

Listed == {n \in Parts : chunks[n] # {}}

\* findUnfinished(): a meta row with chunks, or one that saw data.
Unfinished == meta # NoMeta /\ (Listed # {} \/ meta > 0)

\* Mutant: recovery counts one part too many.
PartsFromOne == {n + 1 : n \in Listed \cup {meta}}

\* Mutant: recovery does not look at meta.partsStarted.
PartsWithChunks == Listed \cup {0}

\* What is left to tell how many parts the recording has.
PartsKnown == Listed \cup {meta}

\* The queue an agent had lives in its page.
DropQueue(a) ==
  /\ queue' = [queue EXCEPT ![a] = {}]
  /\ step' = [step EXCEPT ![a] = "fetch"]
  /\ blob' = [blob EXCEPT ![a] = {}]
  /\ expect' = [expect EXCEPT ![a] = 0]

\* A PUT in flight when its page goes away may still arrive.
OrphanPut(a) ==
  late' = IF At(a, "put")
          THEN late \cup {[part |-> Head(a), data |-> blob[a]]} ELSE late

\* What a page that goes away takes with it.
LosePage ==
  /\ Enter("page", "closed")
  /\ cur' = NoPart
  /\ rec' = [n \in Parts |-> "none"]
  /\ idx' = [n \in Parts |-> 0]
  /\ written' = [n \in Parts |-> 0]
  /\ metaDue' = {}
  /\ fin' = NoPart
  /\ DropQueue("page")
  /\ UNCHANGED <<serverVars, object, localVars>>

\* Refresh, crash or closed tab.
PageCrashes ==
  /\ mode["page"] \notin {"idle", "closed"}
  /\ crashes < MaxCrashes
  /\ crashes' = crashes + 1
  /\ OrphanPut("page") \/ UNCHANGED late
  /\ LosePage

\* stop() rejected or the server refused: the user leaves in the end.
LeaveBrokenPage ==
  /\ mode["page"] \in {"stopFailed", "error"}
  /\ OrphanPut("page") \/ UNCHANGED late
  /\ LosePage
  /\ UNCHANGED crashes

\* recoverLeftoverRecording() of a page of the same meeting: every listed
\* part is enqueued, the parts to expect are fixed here.
StartRecovery ==
  /\ mode["recovery"] = "idle"
  /\ mode["page"] = "closed" \/ SharedTab
  /\ Unfinished
  /\ Enter("recovery", "uploading")
  /\ queue' = [queue EXCEPT !["recovery"] = Listed]
  /\ \E most \in PartsKnown :
       /\ \A n \in PartsKnown : n <= most
       /\ expect' = [expect EXCEPT !["recovery"] = most]
  /\ UNCHANGED <<serverVars, bucketVars, localVars, partVars, step, blob,
                 crashes>>

RecoveryCrashes ==
  /\ mode["recovery"] # "idle"
  /\ crashes < MaxCrashes
  /\ crashes' = crashes + 1
  /\ OrphanPut("recovery") \/ UNCHANGED late
  /\ Enter("recovery", "idle")
  /\ DropQueue("recovery")
  /\ UNCHANGED <<serverVars, object, localVars, partVars>>

\* A PUT nobody waits for reaches storage; a twin of it may be on its way.
LatePut ==
  \E p \in late :
    /\ object' = [object EXCEPT ![p.part] = p.data]
    /\ late' \in {late, late \ {p}}
    /\ UNCHANGED <<serverVars, localVars, mode, partVars, queueVars, expect,
                   crashes>>

\* recording_delete by the host or an admin: files, then rows, then status.
DeleteRecording ==
  /\ MayDelete
  /\ Exists
  /\ status' = "deleted"
  /\ object' = [n \in Parts |-> IF row[n] = "none" THEN object[n] ELSE {}]
  /\ row' = [n \in Parts |-> "none"]
  /\ size' = [n \in Parts |-> 0]
  /\ UNCHANGED <<late, localVars, mode, partVars, queueVars, expect, crashes>>

-----------------------------------------------------------------------------

PartStep(n) ==
  \/ DataAvailable(n)
  \/ TracksEnded(n)
  \/ RecorderStopped(n)
  \/ WriteChunk(n)
  \/ WriteFails(n)
  \/ SaveMeta(n)

PageStep ==
  \/ StartRecording
  \/ StartLost
  \/ StartFails
  \/ BeginRecording
  \/ Rotate
  \/ RotateFails
  \/ StopClicked
  \/ StopCurrentPart
  \/ FinishEmptyPart
  \/ FinishPart
  \/ ClosePartFails

UploadStep(a) ==
  \/ NothingLocal(a)
  \/ Prepare(a)
  \/ GetLink(a)
  \/ LinkLost(a)
  \/ SkipVerified(a)
  \/ Put(a)
  \/ PutLost(a)
  \/ Complete(a)
  \/ CompleteLost(a)
  \/ RequestFails(a)
  \/ Remove(a)
  \/ RemoveFails(a)

FinishStep(a) ==
  \/ Finish(a)
  \/ FinishLost(a)
  \/ FinishRefused(a)
  \/ ForgetMeta(a)
  \/ ForgetFails(a)

Environment ==
  \/ PageCrashes
  \/ LeaveBrokenPage
  \/ StartRecovery
  \/ RecoveryCrashes
  \/ LatePut
  \/ DeleteRecording

Next ==
  \/ PageStep
  \/ \E n \in Parts : PartStep(n)
  \/ \E a \in Agents : UploadStep(a) \/ FinishStep(a)
  \/ Environment

Spec == Init /\ [][Next]_vars

\* Steps the event loop or the user owes the recording and that cannot be
\* refused: callbacks that are due, leaving a broken page, opening the meeting
\* room again on this device. No recording takes infinitely many of them.
LocalStep ==
  \/ BeginRecording
  \/ StopCurrentPart
  \/ FinishEmptyPart
  \/ FinishPart
  \/ \E n \in Parts : RecorderStopped(n) \/ WriteChunk(n) \/ SaveMeta(n)
  \/ LeaveBrokenPage
  \/ StartRecovery

\* Steps of an agent that stay enabled until they are taken.
AgentStep(a) ==
  \/ NothingLocal(a)
  \/ Prepare(a)
  \/ Remove(a)
  \/ Finish(a)
  \/ FinishRefused(a)
  \/ ForgetMeta(a)

-----------------------------------------------------------------------------
(* Properties.                                                             *)

Rows == {"none", "pending", "uploaded", "verified"}
PageModes == {"idle", "starting", "recording", "stopping", "uploading",
              "confirmed", "done", "error", "stopFailed", "closed"}
Puts == [part : Parts, data : SUBSET Idx]

\* Type invariant.
TypeOK ==
  /\ status \in Outcomes \cup {"none", "deleted"}
  /\ row \in [Parts -> Rows]
  /\ size \in [Parts -> Nat]
  /\ object \in [Parts -> SUBSET Idx]
  /\ late \subseteq Puts
  /\ chunks \in [Parts -> SUBSET Idx]
  /\ meta \in 0..MaxParts \cup {NoMeta}
  /\ saved \in [Parts -> SUBSET Idx]
  /\ mode \in [Agents -> PageModes]
  /\ cur \in Parts \cup {NoPart}
  /\ rec \in [Parts -> {"none", "on", "flushing", "off"}]
  /\ idx \in [Parts -> 0..MaxChunks]
  /\ written \in [Parts -> 0..MaxChunks]
  /\ metaDue \subseteq Parts
  /\ fin \in Parts \cup {NoPart}
  /\ queue \in [Agents -> SUBSET Parts]
  /\ step \in [Agents -> {"fetch", "link", "put", "complete", "remove"}]
  /\ blob \in [Agents -> SUBSET Idx]
  /\ expect \in [Agents -> 0..MaxParts]
  /\ crashes \in 0..MaxCrashes

\* rotate() has rejected: a part was begun whose recorder never started.
Stalled == \E n \in Parts : n <= cur /\ rec[n] = "none"

Kept(n) == IF row[n] = "verified" THEN object[n] ELSE {}

\* Every chunk that was ever stored on the device is still there or is part
\* of a verified file, whatever was closed, lost, repeated or late: the queue
\* "deletes local chunks only after the server confirms the part is verified"
\* (recorder.js:334).
NoChunkLost ==
  status # "deleted" => \A n \in Parts : saved[n] \subseteq chunks[n] \cup Kept(n)

\* A verified part is the whole part: no chunk joins it after the blob was
\* made, and no late PUT replaces it by something else.
VerifiedIsWhole ==
  \A n \in Parts :
    row[n] = "verified" => object[n] = saved[n] /\ size[n] = SizeOf(saved[n])

\* "ready" is never said of a recording with a stored part that is not
\* verified, even when the count to expect was recovered after a crash.
ReadyIsComplete ==
  status = "ready" => \A n \in Parts : saved[n] # {} => row[n] = "verified"

\* "failed" is only said of a recording that has nothing to lose: the meta row
\* goes after the verdict, so chunks of a failed recording are never uploaded.
\* finish() does not look at the device, it believes the count it is sent.
FailedIsEmpty ==
  status = "failed" => \A n \in Parts : saved[n] = {}

\* Chunks on the device can be found by the next page: the meta row outlives
\* every part (findUnfinished() only lists meta rows).
ChunksAreFindable == Listed # {} => meta # NoMeta

\* finish() is sent again after lost answers and after a crash before
\* deleteMeta(): a recording once "ready" is never worse afterwards.
ReadyIsStable ==
  [][status = "ready" => status' \in {"ready", "deleted"}]_vars

\* "ready" means nothing is missing: every chunk the MediaRecorder handed over
\* is in the verified files. Only a failed local write costs a chunk.
ReadyHasEveryChunk ==
  mode["page"] = "done" /\ status = "ready" =>
     \A n \in Parts : SizeOf(object[n]) = idx[n]

\* The engine implements DurableRecording: what it keeps of a part is what is
\* on the device or in its verified file, a verified part is archived.
Durable == INSTANCE DurableRecording WITH
  Part <- Parts, Chunk <- Idx,
  kept <- [n \in Parts |-> chunks[n] \cup Kept(n)],
  archived <- {n \in Parts : row[n] = "verified"},
  verdict <- status

\* Refinement: every step is a step of DurableRecording or leaves its state
\* alone.
ImplementsDurable == Durable!Spec

-----------------------------------------------------------------------------
(* Why no chunk is lost: the inductive invariant. It holds as long as only *)
(* one tab works on the recording (~SharedTab).                            *)

\* No chunk can join part n any more.
Sealed(n) ==
  \/ mode["page"] = "closed"
  \/ rec[n] = "off" /\ written[n] = idx[n]

\* Parts begin in order, one recorder each, and only in a living page.
PageInv ==
  /\ mode["page"] = "idle" => status = "none"
  /\ \A n \in Parts : rec[n] # "none" => n <= cur
  /\ mode["page"] \in {"idle", "starting", "closed"} =>
       cur = NoPart /\ \A n \in Parts : idx[n] = 0 /\ written[n] = 0

\* finishPart() enqueues parts in ascending order, and what is queued is
\* behind the part it works on.
OrderInv ==
  /\ fin # NoPart =>
       /\ mode["page"] \in {"recording", "stopping"}
       /\ fin <= cur
       /\ fin = cur => mode["page"] = "stopping"
  /\ mode["page"] \in {"recording", "stopping"} =>
       \A n \in queue["page"] : n < cur /\ (fin # NoPart => n < fin)

\* A queue lives in a living agent, an empty one starts at "fetch", and only
\* sealed parts are queued.
QueueInv ==
  /\ mode["page"] = "closed" => queue["page"] = {}
  /\ queue["recovery"] # {} => mode["page"] = "closed" /\ mode["recovery"] = "uploading"
  /\ \A a \in Agents :
       /\ queue[a] = {} => step[a] = "fetch" /\ blob[a] = {}
       /\ \A n \in queue[a] : Sealed(n)

\* Until a part is sealed it is only on the device.
OpenInv ==
  \A n \in Parts : ~Sealed(n) =>
    /\ chunks[n] = saved[n]
    /\ object[n] = {}
    /\ row[n] = "none"

\* It is the same whole part wherever it is: on the device, on the wire and in
\* storage. It leaves the device verified, and only sealed parts are sent.
WholeInv ==
  /\ \A n \in Parts :
       /\ object[n] \in {{}, saved[n]}
       /\ row[n] = "verified" => object[n] = saved[n] /\ size[n] = SizeOf(saved[n])
       /\ \/ chunks[n] = saved[n]
          \/ chunks[n] = {} /\ (row[n] = "verified" \/ status = "deleted")
  /\ \A p \in late : Sealed(p.part) /\ p.data = saved[p.part]

\* Where uploadOne() stands tells what is known of the head item.
StepInv ==
  \A a \in Agents : queue[a] # {} =>
    /\ blob[a] \in {{}, saved[Head(a)]}
    /\ step[a] \in {"link", "put", "complete"} => blob[a] # {}
    /\ step[a] = "remove" => row[Head(a)] = "verified" \/ status = "deleted"

UploadInv ==
  PageInv /\ OrderInv /\ QueueInv /\ OpenInv /\ WholeInv /\ StepInv
=============================================================================
