-------------------------- MODULE RecordingServer --------------------------
(***************************************************************************)
(* The API of one recording (src/app/routers/recordings.py) at the grain   *)
(* its handlers really have. A handler loads its rows, awaits storage, and *)
(* commits; anything may run in between. PostgreSQL is at READ COMMITTED   *)
(* and no row carries a version, so a commit writes exactly the columns    *)
(* whose value differs from the one the handler loaded, over whatever is   *)
(* there by then.                                                          *)
(*                                                                         *)
(* Requests overlap because the browser repeats them: an aborted or lost   *)
(* request does not stop its handler, two tabs may upload the same part,   *)
(* and the host may delete while a tab is still uploading.                 *)
(***************************************************************************)
EXTENDS Integers, FiniteSets, FiniteSetsExt

CONSTANTS
  Requests,   \* bound: handlers that may run at the same time
  MaxParts,   \* bound: part numbers in use
  Sizes,      \* for each part, the sizes the blobs prepared for it may have
  Expected,   \* values of parts_expected the clients send
  Kinds,      \* requests this instance issues
  Overlap     \* what may overlap a delete: kinds of requests, "put" for uploads

ASSUME ServerAssumption ==
  /\ MaxParts \in Nat \ {0}
  /\ Sizes \in [1..MaxParts -> SUBSET (Nat \ {0})]
  /\ \A n \in 1..MaxParts : IsFiniteSet(Sizes[n])
  /\ Expected \subseteq 0..MaxParts
  /\ Kinds \subseteq {"url", "complete", "finish", "delete", "transcript"}
  /\ Overlap \subseteq Kinds \cup {"put"}

Parts == 1..MaxParts

VARIABLES
  status,      \* Recording.status
  expected,    \* Recording.parts_expected, -1 for NULL
  total,       \* Recording.total_bytes
  transcript,  \* Recording.transcript_status
  row,         \* RecordingPart.status, "none" without a row
  size,        \* RecordingPart.size_bytes, 0 for NULL
  file,        \* size of the stored file, 0 when there is none
  links,       \* parts with a signed upload link in some browser
  req,         \* the handlers: what each has loaded and where it stands
  told,        \* history: parts some browser was told are verified, and whose
               \* chunks it may have deleted since
  erased       \* history: parts whose file a delete has removed since the last
               \* upload, whether that delete went on to commit or not

recordingVars == <<status, expected, total, transcript>>
partVars == <<row, size>>
vars == <<recordingVars, partVars, file, links, req, told, erased>>

Null == -1

\* The parts whose rows a request looks at.
Looks(kind, n) == IF kind \in {"url", "complete"} THEN {n} ELSE Parts

\* load_recording_for() brings the recording and all its parts into the session
\* (lazy="selectin"). A request keeps, with its arguments, the columns its kind
\* looks at; the others are blank, for nothing it does depends on them.
Snapshot(kind, n, arg) ==
  [kind |-> kind, at |-> "loaded", n |-> n, arg |-> arg,
   status |-> IF kind = "finish" THEN status ELSE "recording",
   expected |-> IF kind = "finish" THEN expected ELSE Null,
   total |-> IF kind \in {"finish", "delete"} THEN total ELSE 0,
   transcript |-> IF kind = "transcript" THEN transcript ELSE "none",
   row |-> [m \in Parts |-> IF m \in Looks(kind, n) THEN row[m] ELSE "none"],
   size |-> [m \in Parts |-> IF m \in Looks(kind, n) THEN size[m] ELSE 0]]

Idle == [at |-> "idle"]

Running(kind) == {r \in Requests : req[r] # Idle /\ req[r].kind = kind}

Init ==
  /\ status = "recording"
  /\ expected = Null
  /\ total = 0
  /\ transcript = "none"
  /\ row = [n \in Parts |-> "none"]
  /\ size = [n \in Parts |-> 0]
  /\ file = [n \in Parts |-> 0]
  /\ links = {}
  /\ req = [r \in Requests |-> Idle]
  /\ told = {}
  /\ erased = {}

At(r, kind, stage) == req[r].at = stage /\ req[r].kind = kind
Goto(r, stage) == req' = [req EXCEPT ![r].at = stage]
Return(r) == req' = [req EXCEPT ![r] = Idle]

\* load_recording_for(): deleted recordings are 404.
Found == status # "deleted"

\* A delete and the requests that may not overlap it wait for each other. That
\* is a bound of the instance, the code has no such rule: which overlaps are cut,
\* and what they break, is for the run to say.
MayLoad(kind) ==
  /\ kind \in Kinds
  /\ Found
  /\ IF kind = "delete"
     THEN \A k \in Kinds \ Overlap : Running(k) = {}
     ELSE kind \in Overlap \/ Running("delete") = {}

Load(r, kind, n, arg) ==
  /\ req[r] = Idle
  /\ MayLoad(kind)
  /\ req' = [req EXCEPT ![r] = Snapshot(kind, n, arg)]
  /\ UNCHANGED <<recordingVars, partVars, file, links, told, erased>>

-----------------------------------------------------------------------------
(* part_upload_url                                                         *)

UrlLoad(r, n) ==
  /\ row[n] # "verified"
  /\ Load(r, "url", n, 0)

\* 409 already_verified, or 200 at once for a repeated complete of that size:
\* the browser is told, nothing else happens.
AnswerVerified(n) ==
  /\ MayLoad("url") \/ MayLoad("complete")
  /\ row[n] = "verified"
  /\ told' = told \cup {n}
  /\ UNCHANGED <<recordingVars, partVars, file, links, req, erased>>

\* Rows that are inserted and flushed by handlers that have not committed.
Inserting(n) == {r \in Requests : req[r].at = "inserted" /\ req[r].n = n}

\* The part was not loaded: INSERT and flush. The unique constraint makes a
\* second one wait for the first transaction, and fail (500) once the row is
\* there.
UrlInsert(r) ==
  /\ At(r, "url", "loaded")
  /\ LET n == req[r].n IN
       /\ req[r].row[n] = "none"
       /\ Inserting(n) = {}
       /\ IF row[n] = "none" THEN Goto(r, "inserted") ELSE Return(r)
  /\ UNCHANGED <<recordingVars, partVars, file, links, told, erased>>

\* Mutant: a new link makes the part pending again.
UrlResets(r) ==
  /\ At(r, "url", "inserted") \/ At(r, "url", "loaded")
  /\ row' = [row EXCEPT ![req[r].n] = "pending"]
  /\ links' = links \cup {req[r].n}
  /\ Return(r)
  /\ UNCHANGED <<recordingVars, size, file, told, erased>>

\* create_upload() has signed a link, the transaction commits, the answer
\* leaves. Nothing is read again.
UrlCommit(r) ==
  /\ \/ At(r, "url", "inserted")
     \/ At(r, "url", "loaded") /\ req[r].row[req[r].n] # "none"
  /\ row' = IF req[r].at = "inserted"
            THEN [row EXCEPT ![req[r].n] = "pending"] ELSE row
  /\ links' = links \cup {req[r].n}
  /\ Return(r)
  /\ UNCHANGED <<recordingVars, size, file, told, erased>>

-----------------------------------------------------------------------------
(* The browser's PUT through a signed link, an upsert.                     *)

Put(n, s) ==
  /\ n \in links
  /\ "put" \in Overlap \/ (status # "deleted" /\ Running("delete") = {})
  /\ file' = [file EXCEPT ![n] = s]
  /\ erased' = erased \ {n}
  /\ UNCHANGED <<recordingVars, partVars, links, req, told>>

-----------------------------------------------------------------------------
(* part_complete                                                           *)

\* 404 without a row.
CompleteLoad(r, n, s) ==
  /\ row[n] # "none"
  /\ ~(row[n] = "verified" /\ size[n] = s)
  /\ Load(r, "complete", n, s)

\* Mutant: the size is not compared with what storage holds.
CompleteUnseen(r) ==
  /\ At(r, "complete", "loaded")
  /\ Goto(r, "matched")
  /\ UNCHANGED <<recordingVars, partVars, file, links, told, erased>>

\* storage.stat(): no file is a 409 without effect.
CompleteStat(r) ==
  /\ At(r, "complete", "loaded")
  /\ LET actual == file[req[r].n] IN
       CASE actual = 0          -> Return(r)
         [] actual = req[r].arg -> Goto(r, "matched")
         [] OTHER               -> Goto(r, "mismatched")
  /\ UNCHANGED <<recordingVars, partVars, file, links, told, erased>>

\* status and size_bytes go out if they differ from the loaded row; a row
\* that is gone by now fails the UPDATE (500) and nothing is written.
CompleteCommit(r) ==
  /\ At(r, "complete", "matched")
  /\ LET n == req[r].n
         loaded == req[r].row[n]
     IN IF row[n] = "none" THEN UNCHANGED <<partVars, told>>
        ELSE /\ told' = told \cup {n}
             /\ row' = [row EXCEPT ![n] = IF loaded = "verified" THEN @ ELSE "verified"]
             /\ size' = [size EXCEPT ![n] = IF req[r].size[n] = req[r].arg THEN @ ELSE req[r].arg]
  /\ Return(r)
  /\ UNCHANGED <<recordingVars, file, links, erased>>

\* size_mismatch: a part that was verified is no longer.
CompleteDemote(r) ==
  /\ At(r, "complete", "mismatched")
  /\ LET n == req[r].n IN
       row' = [row EXCEPT ![n] = IF @ = "none" \/ req[r].row[n] = "uploaded"
                                 THEN @ ELSE "uploaded"]
  /\ Return(r)
  /\ UNCHANGED <<recordingVars, size, file, links, told, erased>>

-----------------------------------------------------------------------------
(* finish_recording                                                        *)

FinishLoad(r, e) == Load(r, "finish", 0, e)

VerifiedIn(rows) == {n \in Parts : rows[n] = "verified"}

\* Mutant: only the last part is looked at.
VerdictOfLast(verified, e) ==
  IF e = 0 THEN "failed" ELSE IF e \in verified THEN "ready" ELSE "partial"

Verdict(verified, e) ==
  CASE e = 0                            -> "failed"
    [] e > 0 /\ ~(1..e \subseteq verified) -> "partial"
    [] OTHER                            -> "ready"

\* The bytes of the parts up to part k.
UpTo(s, parts) ==
  LET sum[k \in 0..MaxParts] ==
        IF k = 0 THEN 0 ELSE sum[k - 1] + (IF k \in parts THEN s.size[k] ELSE 0)
  IN sum

\* Mutant: a repeated finish adds to the total it finds.
TotalOnTop(s, parts) == s.total + UpTo(s, parts)[MaxParts]

\* total_bytes, from the rows the handler loaded.
Total(s, parts) == UpTo(s, parts)[MaxParts]

\* The value a commit leaves in a column: what the handler set, if that
\* differs from what it loaded.
Written(loaded, set, now) == IF set = loaded THEN now ELSE set

FinishCommit(r) ==
  /\ At(r, "finish", "loaded")
  /\ LET s == req[r]
         verified == VerifiedIn(s.row)
     IN /\ status' = Written(s.status, Verdict(verified, s.arg), status)
        /\ expected' = Written(s.expected, s.arg, expected)
        /\ total' = Written(s.total, Total(s, verified), total)
  /\ Return(r)
  /\ UNCHANGED <<transcript, partVars, file, links, told, erased>>

-----------------------------------------------------------------------------
(* generate_transcript                                                     *)

TranscriptLoad(r) ==
  /\ status \in {"ready", "partial"}
  /\ Load(r, "transcript", 0, 0)

TranscriptBegin(r) ==
  /\ At(r, "transcript", "loaded")
  /\ transcript' = Written(req[r].transcript, "processing", transcript)
  /\ Goto(r, "reading")
  /\ UNCHANGED <<status, expected, total, partVars, file, links, told, erased>>

\* get_bytes() of every part that was verified when the handler loaded it,
\* and the transcriber, which may fail as well.
TranscriptEnd(r) ==
  /\ At(r, "transcript", "reading")
  /\ \/ /\ \A n \in VerifiedIn(req[r].row) : file[n] > 0
        /\ transcript' = "ready"
     \/ transcript' = "failed"
  /\ Return(r)
  /\ UNCHANGED <<status, expected, total, partVars, file, links, told, erased>>

-----------------------------------------------------------------------------
(* recording_delete                                                        *)

DeleteLoad(r) == Load(r, "delete", 0, 0)

\* Mutant: only verified parts are deleted.
KnownVerified(r) == {n \in Parts : req[r].row[n] = "verified"}

Known(r) == {n \in Parts : req[r].row[n] # "none"}

\* storage.delete() of the paths that were loaded.
DeleteFiles(r) ==
  /\ At(r, "delete", "loaded")
  /\ file' = [n \in Parts |-> IF n \in Known(r) THEN 0 ELSE file[n]]
  /\ erased' = erased \cup Known(r)
  /\ Goto(r, "filesGone")
  /\ UNCHANGED <<recordingVars, partVars, links, told>>

\* parts.clear(), status and total_bytes; the transcript stays.
DeleteCommit(r) ==
  /\ At(r, "delete", "filesGone")
  /\ row' = [n \in Parts |-> IF n \in Known(r) THEN "none" ELSE row[n]]
  /\ size' = [n \in Parts |-> IF n \in Known(r) THEN 0 ELSE size[n]]
  /\ status' = "deleted"
  /\ total' = Written(req[r].total, 0, total)
  /\ told' = told \ Known(r)
  /\ Return(r)
  /\ UNCHANGED <<expected, transcript, file, links, erased>>

-----------------------------------------------------------------------------

\* A handler ends before its next commit: storage is not available (503), the
\* worker restarts, the connection is gone. What it has not committed is lost;
\* a delete may have removed the files by then.
Interrupted(r) ==
  /\ req[r] # Idle
  /\ Return(r)
  /\ UNCHANGED <<recordingVars, partVars, file, links, told, erased>>

Issue(r) ==
  \/ \E n \in Parts : UrlLoad(r, n)
  \/ \E n \in Parts : \E s \in Sizes[n] : CompleteLoad(r, n, s)
  \/ \E e \in Expected : FinishLoad(r, e)
  \/ TranscriptLoad(r)
  \/ DeleteLoad(r)

Handle(r) ==
  \/ UrlInsert(r)
  \/ UrlCommit(r)
  \/ CompleteStat(r)
  \/ CompleteCommit(r)
  \/ CompleteDemote(r)
  \/ FinishCommit(r)
  \/ TranscriptBegin(r)
  \/ TranscriptEnd(r)
  \/ DeleteFiles(r)
  \/ DeleteCommit(r)
  \/ Interrupted(r)

Next ==
  \/ \E r \in Requests : Issue(r) \/ Handle(r)
  \/ \E n \in Parts : \E s \in Sizes[n] : Put(n, s)
  \/ \E n \in Parts : AnswerVerified(n)

Spec == Init /\ [][Next]_vars

-----------------------------------------------------------------------------
(* Properties.                                                             *)

Rows == {"none", "pending", "uploaded", "verified"}
Outcomes == {"recording", "ready", "partial", "failed", "deleted"}
Stages == {"loaded", "inserted", "matched", "mismatched", "reading", "filesGone"}
MaxSize == Max({0} \cup UNION {Sizes[n] : n \in Parts})

\* Type invariant.
TypeOK ==
  /\ status \in Outcomes
  /\ expected \in 0..MaxParts \cup {Null}
  /\ total \in 0..(MaxParts * MaxSize)
  /\ transcript \in {"none", "processing", "ready", "failed"}
  /\ row \in [Parts -> Rows]
  /\ size \in [Parts -> Nat] /\ file \in [Parts -> Nat]
  /\ \A n \in Parts : size[n] \in Sizes[n] \cup {0} /\ file[n] \in Sizes[n] \cup {0}
  /\ links \subseteq Parts
  /\ told \subseteq Parts /\ erased \subseteq Parts
  /\ \A r \in Requests :
       req[r] = Idle \/ (req[r].kind \in Kinds /\ req[r].at \in Stages)

\* Every blob that was ever prepared for the part has one size, as it is when a
\* part is sealed before its blob is made (UploadsAreSealed of the recorder).
\* Two tabs that recover one recording at a time break it, and then a complete
\* finds another size and takes a verification back.
OneBlob(n) == \A s, t \in Sizes[n] : s = t

\* "ready" is backed by rows: however the loads and commits of completes and
\* finishes interleave, every part up to parts_expected is verified. (Finishes
\* that overlap have to agree on parts_expected: their columns may mix.)
ReadyIsBacked ==
  status = "ready" => \A n \in 1..expected : OneBlob(n) => row[n] = "verified"

\* A verified row names the size of the file that is there, whatever requests
\* for the part are repeated or interrupted: a row without its file is the mark
\* of a delete, one that runs or one that did not get as far as its commit.
VerifiedHasFile ==
  \A n \in Parts : OneBlob(n) /\ row[n] = "verified" =>
    file[n] = size[n] \/ n \in erased

\* What a browser was told is verified is verified, so the chunks it deletes
\* are not the last copy: no late commit of a request that saw an older row
\* takes it back.
ToldIsVerified == \A n \in told : OneBlob(n) => row[n] = "verified"

\* A delete leaves no file and no row behind (test_recordings.py:182), though
\* it may have been interrupted before and completes may overlap it.
DeletedLeavesNoFile ==
  status = "deleted" => \A n \in Parts : file[n] = 0 /\ row[n] = "none"
=============================================================================
