-------------------------- MODULE RefinementProofs --------------------------
(***************************************************************************)
(* The verdict of a recording, and the refinement of DurableRecording by   *)
(* Recorder, for every number of parts, chunks and crashes, with one tab   *)
(* at a time working on the recording.                                     *)
(***************************************************************************)
EXTENDS RecorderProofs

-----------------------------------------------------------------------------
(* Why "ready" is right: what an agent will send as parts_expected covers  *)
(* every part that has a chunk somewhere.                                  *)

\* Nothing more comes out of part n's MediaRecorder or its writes chain.
Quiet(n) == rec[n] \in {"none", "off"} /\ written[n] = idx[n] /\ n \notin metaDue

\* partsWithData has seen part n.
Counted(n) == idx[n] > 0 => n <= expect["page"]

\* The local writes of a part follow its MediaRecorder, and the meta row names
\* a part that has a chunk.
WritesInv ==
  /\ \A n \in Parts :
       /\ written[n] <= idx[n]
       /\ rec[n] = "none" => idx[n] = 0
       /\ n \in metaDue => saved[n] # {} /\ idx[n] > 0
       /\ saved[n] # {} => mode["page"] = "closed" \/ idx[n] > 0
  /\ \A n \in Parts : meta = n => saved[n] # {}

\* When a part's recorder never started, it is the part being finished or the
\* next to be: no finishPart() returns any more.
StalledInv ==
  Stalled =>
    /\ mode["page"] \in {"recording", "stopping"}
    /\ rec[IF fin = NoPart THEN cur ELSE fin] = "none"

\* A part that was finished is quiet and counted, unless the page has stalled, and
\* when the upload begins every part is.
CountInv ==
  /\ mode["page"] \in {"recording", "stopping"} /\ ~Stalled =>
       \A n \in Parts : n < cur /\ n # fin => Quiet(n) /\ Counted(n)
  /\ mode["page"] \in {"uploading", "confirmed", "done", "error"} =>
       \A n \in Parts : Quiet(n) /\ Counted(n)

\* There is no verdict before the page has stopped.
StatusInv ==
  mode["page"] \in {"starting", "recording", "stopping", "stopFailed"} =>
    status \in {"recording", "deleted"}

\* No trace on the device points beyond part e.
Covers(e) == meta <= e /\ \A n \in Parts : chunks[n] # {} => n <= e

\* A recovery runs when the page is gone, and expects what it has found.
RecoveryInv ==
  mode["recovery"] # "idle" =>
    /\ mode["page"] = "closed"
    /\ expect["recovery"] > 0
    /\ Covers(expect["recovery"])

Busy(a) == mode[a] \in {"uploading", "confirmed"}

\* The verdict "ready" was reached with some count e: up to e all is verified,
\* and whoever will call finish() again sends no more than e.
ReachedWith(e) ==
  /\ Missing(e) = {}
  /\ Covers(e)
  /\ \A a \in Agents : Busy(a) => expect[a] \in 1..e

ReadyInv ==
  status = "ready" =>
    /\ \A n \in Parts : saved[n] # {} => row[n] = "verified"
    /\ \E e \in Parts : ReachedWith(e)

VerdictInv ==
  WritesInv /\ StalledInv /\ CountInv /\ StatusInv /\ RecoveryInv /\ ReadyInv /\ FailedIsEmpty

\* The sets the model is built from.
LEMMA Names ==
  /\ Parts \subseteq Nat \ {0} /\ 1 \in Parts
  /\ Agents = {"page", "recovery"}
  /\ NoPart = 0 /\ NoMeta = -1
  BY BoundsAssumption DEF Parts, Agents, NoPart, NoMeta

\* A page that is closed stays closed, and only start() begins one.
LEMMA ClosedStays ==
  ASSUME TypeOK, [Next]_vars, mode["page"] = "closed"
  PROVE  mode'["page"] = "closed"
<1>1. CASE PageStep
  BY <1>1, Names DEF PageStep, StartRecording, StartLost, StartFails, BeginRecording,
     Rotate, RotateFails, Stopping, MayRotate, StopClicked, StopCurrentPart, FinishEmptyPart, FinishPart,
     FinishReturns, ClosePartFails, Enter, TypeOK
<1>2. ASSUME NEW m \in Parts, PartStep(m) PROVE mode' = mode
  BY <1>2, PartFrame
<1>3. ASSUME NEW a \in Agents, UploadStep(a) PROVE mode' = mode
  BY <1>3, UploadFrame
<1>4. ASSUME NEW a \in Agents, FinishStep(a) PROVE mode'["page"] = mode["page"]
  BY <1>4, FinishControl, Names
<1>5. CASE Environment
  BY <1>5, Names DEF Environment, PageCrashes, LeaveBrokenPage, LosePage, StartRecovery,
     RecoveryCrashes, LatePut, DeleteRecording, Enter, TypeOK
<1>6. CASE UNCHANGED vars
  BY <1>6 DEF vars
<1>7. QED
  BY <1>1, <1>2, <1>3, <1>4, <1>5, <1>6 DEF Next

\* WritesInv is preserved: a chunk is handed over before it is written, and
\* written before the meta row names its part.
LEMMA WritesInvStep ==
  ASSUME TypeOK, PageInv, OrderInv, WritesInv, [Next]_vars
  PROVE  WritesInv'
<1>c. mode["page"] = "closed" => mode'["page"] = "closed"
  BY ClosedStays
<1>1. CASE PageStep
  <2>1. /\ UNCHANGED <<saved, written, metaDue, idx>>
        /\ meta' = meta \/ meta' = 0
        /\ \A n \in Parts : rec'[n] = "none" => rec[n] = "none"
    BY <1>1, Names DEF PageStep, StartRecording, StartLost, StartFails, BeginRecording,
       Rotate, RotateFails, Stopping, StopClicked, StopCurrentPart, FinishEmptyPart,
       FinishPart, ClosePartFails, localVars, partVars, TypeOK
  <2>2. QED
    BY <2>1, <1>c, Names DEF WritesInv
<1>2. ASSUME NEW m \in Parts, PartStep(m) PROVE WritesInv'
  <2>u. mode' = mode
    BY <1>2, PartFrame
  <2>t. /\ idx \in [Parts -> 0..MaxChunks] /\ written \in [Parts -> 0..MaxChunks]
        /\ rec \in [Parts -> {"none", "on", "flushing", "off"}]
        /\ saved \in [Parts -> SUBSET Idx] /\ MaxChunks \in Nat
    BY BoundsAssumption DEF TypeOK
  <2>1. CASE DataAvailable(m)
    BY <2>1, <2>u, <2>t DEF DataAvailable, WritesInv, localVars
  <2>2. CASE TracksEnded(m) \/ RecorderStopped(m)
    BY <2>2, <2>u, <2>t DEF TracksEnded, RecorderStopped, WritesInv, localVars
  <2>3. CASE WriteChunk(m)
    <3>1. /\ written[m] < idx[m] /\ saved'[m] # {}
          /\ written'[m] <= idx[m]
          /\ \A n \in Parts : n # m => written'[n] = written[n] /\ saved'[n] = saved[n]
          /\ metaDue' \subseteq metaDue \cup {m}
          /\ UNCHANGED <<idx, rec, meta>>
      BY <2>3, <2>t DEF WriteChunk, WriteDue
    <3>2. QED
      BY <3>1, <2>u, <2>t DEF WritesInv
  <2>4. CASE WriteFails(m)
    BY <2>4, <2>u, <2>t DEF WriteFails, WriteDue, WritesInv, localVars
  <2>5. CASE SaveMeta(m)
    BY <2>5, <2>u, Names DEF SaveMeta, WritesInv
  <2>6. QED
    BY <1>2, <2>1, <2>2, <2>3, <2>4, <2>5 DEF PartStep
<1>3. ASSUME NEW a \in Agents, UploadStep(a) PROVE WritesInv'
  BY <1>3, UploadFrame DEF WritesInv, partVars
<1>4. ASSUME NEW a \in Agents, FinishStep(a) PROVE WritesInv'
  <2>1. meta' = meta \/ meta' = NoMeta
    BY <1>4 DEF FinishStep, Finish, FinishLost, FinishRefused, ForgetMeta, ForgetFails, localVars
  <2>2. QED
    BY <1>4, <1>c, <2>1, FinishFrame, Names DEF WritesInv, partVars
<1>5. CASE Environment
  <2>1. CASE PageCrashes \/ LeaveBrokenPage
    BY <2>1, Names DEF PageCrashes, LeaveBrokenPage, LosePage, Enter, WritesInv, TypeOK, localVars
  <2>2. CASE StartRecovery \/ RecoveryCrashes \/ LatePut \/ DeleteRecording
    BY <2>2, <1>c DEF StartRecovery, RecoveryCrashes, LatePut, DeleteRecording, WritesInv,
       localVars, partVars
  <2>3. QED
    BY <1>5, <2>1, <2>2 DEF Environment
<1>6. CASE UNCHANGED vars
  BY <1>6 DEF vars, WritesInv, localVars, partVars
<1>7. QED
  BY <1>1, <1>2, <1>3, <1>4, <1>5, <1>6 DEF Next

\* A part that is quiet, and whose recorder will not be started, stays quiet,
\* and it is handed no more chunks.
LEMMA QuietStays ==
  ASSUME TypeOK, PageInv, [Next]_vars, NEW n \in Parts, Quiet(n),
         n < cur \/ mode["page"] \notin {"idle", "starting", "recording"}
  PROVE  Quiet(n)' /\ (idx'[n] > 0 => idx[n] > 0)
<1>1. CASE PageStep
  <2>1. UNCHANGED <<idx, written, metaDue>>
    BY <1>1 DEF PageStep, StartRecording, StartLost, StartFails, BeginRecording,
       Rotate, RotateFails, Stopping, StopClicked, StopCurrentPart, FinishEmptyPart,
       FinishPart, ClosePartFails, partVars
  <2>2. rec'[n] = rec[n]
    <3>1. CASE BeginRecording
      BY <3>1, Names DEF BeginRecording, PageInv
    <3>2. CASE RotateFails
      BY <3>2, Names DEF RotateFails, Stopping, Quiet, TypeOK
    <3>3. CASE Rotate
      BY <3>3, Names DEF Rotate, MayRotate, Stopping, Quiet, TypeOK
    <3>4. CASE StopCurrentPart
      BY <3>4, Names DEF StopCurrentPart, Stopping, Quiet, TypeOK
    <3>5. CASE ~(BeginRecording \/ RotateFails \/ Rotate \/ StopCurrentPart)
      BY <1>1, <3>5 DEF PageStep, StartRecording, StartLost, StartFails,
         StopClicked, FinishEmptyPart, FinishPart, ClosePartFails, partVars
    <3>6. QED
      BY <3>1, <3>2, <3>3, <3>4, <3>5
  <2>3. QED
    BY <2>1, <2>2 DEF Quiet
<1>2. ASSUME NEW m \in Parts, PartStep(m) PROVE Quiet(n)' /\ (idx'[n] > 0 => idx[n] > 0)
  BY <1>2 DEF PartStep, DataAvailable, TracksEnded, RecorderStopped, WriteChunk, WriteFails, WriteDue,
     SaveMeta, Quiet, TypeOK
<1>3. ASSUME NEW a \in Agents, UploadStep(a) PROVE Quiet(n)' /\ (idx'[n] > 0 => idx[n] > 0)
  BY <1>3, UploadFrame DEF Quiet, partVars
<1>4. ASSUME NEW a \in Agents, FinishStep(a) PROVE Quiet(n)' /\ (idx'[n] > 0 => idx[n] > 0)
  BY <1>4, FinishFrame DEF Quiet, partVars
<1>5. CASE Environment
  BY <1>5 DEF Environment, PageCrashes, LeaveBrokenPage, LosePage, StartRecovery,
     RecoveryCrashes, LatePut, DeleteRecording, Quiet, partVars
<1>6. CASE UNCHANGED vars
  BY <1>6 DEF vars, Quiet, partVars
<1>7. QED
  BY <1>1, <1>2, <1>3, <1>4, <1>5, <1>6 DEF Next

\* StalledInv is preserved: a page that has stalled stays so until it goes away.
LEMMA StalledInvStep ==
  ASSUME TypeOK, PageInv, OrderInv, StalledInv, [Next]_vars
  PROVE  StalledInv'
<1>t. /\ cur \in Nat /\ fin \in Nat /\ fin <= cur
      /\ rec \in [Parts -> {"none", "on", "flushing", "off"}]
  BY Names DEF TypeOK, OrderInv
<1>k. ASSUME UNCHANGED <<cur, fin>>, \A n \in Parts : rec'[n] = "none" <=> rec[n] = "none",
             \/ mode'["page"] = mode["page"]
             \/ mode["page"] \notin {"recording", "stopping"}
             \/ mode["page"] = "recording" /\ mode'["page"] = "stopping"
      PROVE  StalledInv'
  <2>1. Stalled' <=> Stalled
    BY <1>k DEF Stalled
  <2>2. Stalled => (IF fin = NoPart THEN cur ELSE fin) \in Parts
    BY <1>t, Names DEF Stalled, TypeOK
  <2>3. QED
    BY <1>k, <2>1, <2>2 DEF StalledInv
<1>1. CASE PageStep
  <2>1. CASE StartRecording \/ StartLost \/ StartFails \/ StopClicked
    BY <2>1, <1>k, Names DEF StartRecording, StartLost, StartFails, StopClicked, Enter, TypeOK,
       partVars
  <2>2. CASE BeginRecording
    <3>1. cur' = 1 /\ rec'[1] = "on"
      BY <2>2, <1>t, Names DEF BeginRecording
    <3>2. ~Stalled'
      BY <3>1, Names DEF Stalled
    <3>3. QED
      BY <3>2 DEF StalledInv
  <2>3. CASE Rotate
    <3>1. /\ mode["page"] = "recording" /\ mode' = mode /\ fin = NoPart
          /\ cur' = cur + 1 /\ fin' = cur /\ cur + 1 \in Parts
          /\ \A n \in Parts : n # cur + 1 => (rec'[n] = "none" <=> rec[n] = "none")
          /\ rec'[cur + 1] = "on"
      BY <2>3, <1>t, Names, BoundsAssumption DEF Rotate, MayRotate, Stopping, TypeOK, Parts
    <3>2. Stalled' => Stalled
      BY <3>1, <1>t, Names DEF Stalled
    <3>3. Stalled => cur \in Parts /\ cur # cur + 1 /\ rec'[cur] = "none"
      BY <3>1, <1>t, Names DEF Stalled, StalledInv, TypeOK
    <3>4. QED
      BY <3>1, <3>2, <3>3, Names DEF StalledInv
  <2>4. CASE RotateFails
    <3>1. /\ mode["page"] = "recording" /\ mode' = mode /\ fin = NoPart /\ fin' = fin
          /\ cur' = cur + 1 /\ cur + 1 \in Parts /\ ~(cur + 1 <= cur)
      BY <2>4, <1>t, Names, BoundsAssumption DEF RotateFails, MayRotate, Parts
    <3>2. rec[cur + 1] = "none"
      BY <3>1 DEF PageInv
    <3>3. rec'[cur + 1] = "none"
      BY <2>4, <3>1, <3>2, <1>t DEF RotateFails, Stopping
    <3>4. QED
      BY <3>1, <3>3 DEF StalledInv
  <2>5. CASE StopCurrentPart
    <3>1. /\ mode["page"] = "stopping" /\ mode' = mode /\ fin = NoPart
          /\ cur' = cur /\ fin' = cur
          /\ \A n \in Parts : rec'[n] = "none" <=> rec[n] = "none"
      BY <2>5, <1>t DEF StopCurrentPart, Stopping
    <3>2. Stalled' <=> Stalled
      BY <3>1 DEF Stalled
    <3>3. Stalled => cur \in Parts
      BY <1>t, Names DEF Stalled, TypeOK
    <3>4. QED
      BY <3>1, <3>2, <3>3, Names DEF StalledInv
  <2>6. CASE FinishEmptyPart \/ FinishPart \/ ClosePartFails
    <3>1. fin \in Parts /\ rec[fin] = "off" /\ fin # NoPart /\ UNCHANGED <<cur, rec>>
      BY <2>6, Names DEF FinishEmptyPart, FinishPart, ClosePartFails, PartSettled, TypeOK
    <3>2. ~Stalled'
      BY <3>1 DEF StalledInv, Stalled
    <3>3. QED
      BY <3>2 DEF StalledInv
  <2>7. QED
    BY <1>1, <2>1, <2>2, <2>3, <2>4, <2>5, <2>6 DEF PageStep
<1>2. ASSUME NEW m \in Parts, PartStep(m) PROVE StalledInv'
  <2>1. \A n \in Parts : rec'[n] = "none" <=> rec[n] = "none"
    BY <1>2, <1>t DEF PartStep, DataAvailable, TracksEnded, RecorderStopped, WriteChunk,
       WriteFails, SaveMeta
  <2>2. QED
    BY <1>2, <1>k, <2>1, PartFrame
<1>3. ASSUME NEW a \in Agents, UploadStep(a) PROVE StalledInv'
  BY <1>3, <1>k, UploadFrame DEF partVars
<1>4. ASSUME NEW a \in Agents, FinishStep(a) PROVE StalledInv'
  BY <1>4, <1>k, FinishFrame, FinishControl, Names DEF partVars
<1>5. CASE Environment
  <2>1. CASE PageCrashes \/ LeaveBrokenPage
    <3>1. cur' = NoPart
      BY <2>1 DEF PageCrashes, LeaveBrokenPage, LosePage
    <3>2. ~Stalled'
      BY <3>1, Names DEF Stalled
    <3>3. QED
      BY <3>2 DEF StalledInv
  <2>2. CASE StartRecovery \/ RecoveryCrashes \/ LatePut \/ DeleteRecording
    BY <2>2, <1>k, Names DEF StartRecovery, RecoveryCrashes, LatePut, DeleteRecording, Enter,
       TypeOK, partVars
  <2>3. QED
    BY <1>5, <2>1, <2>2 DEF Environment
<1>6. CASE UNCHANGED vars
  BY <1>6, <1>k DEF vars, partVars
<1>7. QED
  BY <1>1, <1>2, <1>3, <1>4, <1>5, <1>6 DEF Next

\* When finishPart() returns, it has counted its part, and if that is the last
\* one, the parts that were never begun are quiet as well.
LEMMA FinishCounts ==
  ASSUME TypeOK, PageInv, OrderInv, WritesInv, StalledInv, CountInv,
         FinishEmptyPart \/ FinishPart \/ ClosePartFails
  PROVE  CountInv'
<1>1. /\ fin \in Parts /\ PartSettled(fin) /\ fin' = NoPart
      /\ mode["page"] \in {"recording", "stopping"} /\ fin <= cur /\ cur \in Nat
      /\ UNCHANGED <<cur, rec, idx, written, metaDue>>
  BY Names DEF FinishEmptyPart, FinishPart, ClosePartFails, FinishReturns, OrderInv, TypeOK
<1>s. ~Stalled /\ (Stalled' <=> Stalled)
  BY <1>1, Names DEF StalledInv, PartSettled, Stalled
<1>2. expect'["page"] >= expect["page"] /\ (idx[fin] > 0 => fin <= expect'["page"])
  <2>1. expect["page"] \in Nat /\ fin \in Nat
    BY <1>1, Names DEF TypeOK
  <2>2. expect \in [Agents -> 0..MaxParts] /\ "page" \in Agents
    BY Names DEF TypeOK
  <2>3. CASE FinishEmptyPart
    BY <2>1, <2>3 DEF FinishEmptyPart
  <2>4. CASE FinishPart \/ ClosePartFails
    BY <2>1, <2>2, <2>4 DEF FinishPart, ClosePartFails
  <2>5. QED
    BY <2>3, <2>4
<1>3. \/ mode' = mode
      \/ /\ fin = cur
         /\ mode'["page"] \in {"uploading", "stopFailed"}
  BY <1>1, Names DEF FinishEmptyPart, FinishPart, ClosePartFails, FinishReturns, TypeOK
<1>4. ASSUME NEW n \in Parts, n <= cur, n < cur \/ fin = cur
      PROVE  Quiet(n)' /\ Counted(n)'
  <2>1. Quiet(n) /\ (idx[n] > 0 => n <= expect'["page"])
    <3>1. CASE n = fin
      BY <1>1, <1>2, <3>1 DEF PartSettled, Quiet
    <3>2. CASE n # fin
      <4>1. n < cur
        BY <1>1, <1>4, <3>2, Names
      <4>2. Quiet(n) /\ Counted(n)
        BY <1>1, <1>s, <3>2, <4>1 DEF CountInv
      <4>3. n \in Nat /\ expect["page"] \in Nat /\ expect'["page"] >= expect["page"]
        BY <1>2, Names DEF TypeOK
      <4>4. expect'["page"] \in Nat
        BY <1>1, <4>3, Names DEF FinishEmptyPart, FinishPart, ClosePartFails, TypeOK
      <4>5. QED
        BY <4>2, <4>3, <4>4 DEF Counted
    <3>3. QED
      BY <3>1, <3>2
  <2>2. QED
    BY <1>1, <2>1 DEF Quiet, Counted
<1>5. ASSUME NEW n \in Parts, ~(n <= cur)
      PROVE  Quiet(n)' /\ Counted(n)'
  <2>1. rec[n] = "none" /\ idx[n] = 0 /\ n \notin metaDue /\ written[n] = idx[n]
    BY <1>5 DEF PageInv, WritesInv, TypeOK
  <2>2. QED
    BY <1>1, <2>1 DEF Quiet, Counted
<1>6. CASE mode' = mode
  BY <1>1, <1>s, <1>4, <1>6, Names DEF CountInv
<1>7. CASE fin = cur /\ mode'["page"] \in {"uploading", "stopFailed"}
  BY <1>4, <1>5, <1>7 DEF CountInv
<1>8. QED
  BY <1>3, <1>6, <1>7

\* CountInv is preserved.
LEMMA CountInvStep ==
  ASSUME TypeOK, PageInv, OrderInv, WritesInv, StalledInv, CountInv, [Next]_vars
  PROVE  CountInv'
<1>1. CASE PageStep
  <2>1. CASE StartRecording \/ StartLost \/ StartFails
    BY <2>1, Names DEF StartRecording, StartLost, StartFails, Enter, CountInv, TypeOK
  <2>2. CASE BeginRecording
    BY <2>2, Names DEF BeginRecording, Enter, CountInv, TypeOK
  <2>3. CASE RotateFails
    <3>1. cur + 1 \in Parts /\ rec[cur + 1] = "none" /\ cur \in Nat
      BY <2>3, Names, BoundsAssumption DEF RotateFails, MayRotate, PageInv, TypeOK, Parts
    <3>2. rec'[cur + 1] = "none" /\ cur' = cur + 1 /\ mode'["page"] = "recording"
      BY <2>3, <3>1, Names DEF RotateFails, MayRotate, Stopping, TypeOK
    <3>3. Stalled'
      BY <3>1, <3>2 DEF Stalled
    <3>4. QED
      BY <3>2, <3>3 DEF CountInv
  <2>4. CASE Rotate
    <3>1. /\ mode["page"] = "recording" /\ mode' = mode /\ fin = NoPart
          /\ cur' = cur + 1 /\ fin' = cur /\ UNCHANGED <<idx, expect>> /\ cur \in Nat
          /\ \A n \in Parts : n <= cur => n # cur + 1 /\ (rec'[n] = "none" <=> rec[n] = "none")
      BY <2>4, Names DEF Rotate, MayRotate, Stopping, TypeOK
    <3>s. Stalled => Stalled'
      BY <3>1, Names DEF Stalled
    <3>2. \A n \in Parts : n < cur' /\ n # fin' => n < cur /\ n # fin
      BY <3>1, Names
    <3>3. \A n \in Parts : n < cur /\ Quiet(n) => Quiet(n)'
      BY <1>1, QuietStays
    <3>4. QED
      BY <3>1, <3>s, <3>2, <3>3 DEF CountInv, Counted
  <2>5. CASE StopClicked \/ StopCurrentPart
    <3>1. /\ mode["page"] \in {"recording", "stopping"} /\ mode'["page"] = "stopping"
          /\ fin' = fin \/ (fin = NoPart /\ fin' = cur)
          /\ UNCHANGED <<cur, idx, expect>>
          /\ \A n \in Parts : rec'[n] = "none" <=> rec[n] = "none"
      BY <2>5, Names DEF StopClicked, StopCurrentPart, Stopping, Enter, TypeOK, partVars
    <3>s. Stalled => Stalled'
      BY <3>1 DEF Stalled
    <3>2. \A n \in Parts : n < cur' /\ n # fin' => n < cur /\ n # fin
      BY <3>1, Names
    <3>3. \A n \in Parts : n < cur /\ Quiet(n) => Quiet(n)'
      BY <1>1, QuietStays
    <3>4. QED
      BY <3>1, <3>s, <3>2, <3>3 DEF CountInv, Counted
  <2>6. CASE FinishEmptyPart \/ FinishPart \/ ClosePartFails
    BY <2>6, FinishCounts
  <2>7. QED
    BY <1>1, <2>1, <2>2, <2>3, <2>4, <2>5, <2>6 DEF PageStep
<1>k. ASSUME UNCHANGED <<cur, fin>>, expect'["page"] = expect["page"],
             Stalled => Stalled',
             \/ mode'["page"] = mode["page"]
             \/ /\ mode["page"] \in {"uploading", "confirmed"}
                /\ mode'["page"] \in {"uploading", "confirmed", "error", "done"}
      PROVE  CountInv'
  <2>1. ASSUME NEW n \in Parts, Quiet(n), Counted(n),
               n < cur \/ mode["page"] \notin {"idle", "starting", "recording"}
        PROVE  Quiet(n)' /\ Counted(n)'
    BY <2>1, <1>k, QuietStays DEF Counted
  <2>2. QED
    BY <2>1, <1>k DEF CountInv
<1>r. ASSUME UNCHANGED <<cur, rec>> PROVE Stalled => Stalled'
  BY <1>r DEF Stalled
<1>2. ASSUME NEW m \in Parts, PartStep(m) PROVE CountInv'
  <2>1. cur' = cur /\ \A n \in Parts : rec[n] = "none" => rec'[n] = "none"
    BY <1>2, PartFrame DEF PartStep, DataAvailable, TracksEnded, RecorderStopped, WriteChunk,
       WriteFails, SaveMeta, TypeOK
  <2>2. Stalled => Stalled'
    BY <2>1 DEF Stalled
  <2>3. QED
    BY <1>2, <1>k, <2>2, PartFrame
<1>3. ASSUME NEW a \in Agents, UploadStep(a) PROVE CountInv'
  BY <1>3, <1>k, <1>r, UploadFrame DEF partVars
<1>4. ASSUME NEW a \in Agents, FinishStep(a) PROVE CountInv'
  <2>1. expect' = expect
    BY <1>4 DEF FinishStep, Finish, FinishLost, FinishRefused, ForgetMeta, ForgetFails
  <2>2. \/ mode'["page"] = mode["page"]
        \/ /\ mode["page"] \in {"uploading", "confirmed"}
           /\ mode'["page"] \in {"uploading", "confirmed", "error", "done"}
    BY <1>4, FinishControl, Names
  <2>3. QED
    BY <1>4, <1>k, <1>r, <2>1, <2>2, FinishFrame DEF partVars
<1>5. CASE Environment
  <2>1. CASE PageCrashes \/ LeaveBrokenPage
    BY <2>1, Names DEF PageCrashes, LeaveBrokenPage, LosePage, Enter, CountInv, TypeOK
  <2>2. CASE StartRecovery \/ RecoveryCrashes
    BY <2>2, <1>k, <1>r, Names DEF StartRecovery, RecoveryCrashes, DropQueue, Enter, TypeOK, partVars
  <2>3. CASE LatePut \/ DeleteRecording
    BY <2>3, <1>k, <1>r DEF LatePut, DeleteRecording, partVars
  <2>4. QED
    BY <1>5, <2>1, <2>2, <2>3 DEF Environment
<1>6. CASE UNCHANGED vars
  BY <1>6, <1>k, <1>r DEF vars, partVars
<1>7. QED
  BY <1>1, <1>2, <1>3, <1>4, <1>5, <1>6 DEF Next

\* StatusInv is preserved: no verdict while the page records.
LEMMA StatusInvStep ==
  ASSUME TypeOK, PageInv, OrderInv, StatusInv, RecoveryInv, [Next]_vars
  PROVE  StatusInv'
<1>1. CASE PageStep
  <2>1. CASE StartRecording \/ StartLost \/ StartFails
    BY <2>1, Names DEF StartRecording, StartLost, StartFails, Enter, StatusInv, TypeOK, serverVars
  <2>2. CASE BeginRecording \/ StopClicked
    BY <2>2, Names DEF BeginRecording, StopClicked, Enter, StatusInv, TypeOK, serverVars
  <2>3. CASE Rotate \/ RotateFails \/ StopCurrentPart
    BY <2>3 DEF Rotate, RotateFails, StopCurrentPart, StatusInv, serverVars
  <2>4. CASE FinishEmptyPart \/ FinishPart \/ ClosePartFails
    BY <2>4 DEF FinishEmptyPart, FinishPart, ClosePartFails, OrderInv, StatusInv, serverVars
  <2>5. QED
    BY <1>1, <2>1, <2>2, <2>3, <2>4 DEF PageStep
<1>2. ASSUME NEW m \in Parts, PartStep(m) PROVE StatusInv'
  BY <1>2, PartFrame DEF StatusInv, serverVars
<1>3. ASSUME NEW a \in Agents, UploadStep(a) PROVE StatusInv'
  BY <1>3, UploadFrame DEF StatusInv
<1>4. ASSUME NEW a \in Agents, FinishStep(a) PROVE StatusInv'
  <2>1. CASE a = "page"
    BY <1>4, <2>1, FinishControl, Names DEF StatusInv
  <2>2. CASE a = "recovery"
    <3>1. mode["recovery"] # "idle"
      BY <1>4, <2>2 DEF FinishStep, Finish, FinishLost, FinishRefused, ForgetMeta, ForgetFails
    <3>2. mode'["page"] = "closed"
      BY <1>4, <2>2, <3>1, FinishControl, Names DEF RecoveryInv
    <3>3. QED
      BY <3>2 DEF StatusInv
  <2>3. QED
    BY <2>1, <2>2, Names
<1>5. CASE Environment
  <2>1. CASE PageCrashes \/ LeaveBrokenPage
    BY <2>1, Names DEF PageCrashes, LeaveBrokenPage, LosePage, Enter, StatusInv, TypeOK
  <2>2. CASE StartRecovery \/ RecoveryCrashes \/ LatePut \/ DeleteRecording
    BY <2>2, Names DEF StartRecovery, RecoveryCrashes, LatePut, DeleteRecording, Enter,
       StatusInv, TypeOK, serverVars
  <2>3. QED
    BY <1>5, <2>1, <2>2 DEF Environment
<1>6. CASE UNCHANGED vars
  BY <1>6 DEF vars, StatusInv, serverVars
<1>7. QED
  BY <1>1, <1>2, <1>3, <1>4, <1>5, <1>6 DEF Next

\* Once the page has stopped or is gone nothing is added to the device: chunks
\* only leave it, and the meta row only goes.
LEMMA TracesFade ==
  ASSUME TypeOK, PageInv, WritesInv, CountInv, [Next]_vars,
         mode["page"] \in {"uploading", "confirmed", "done", "error", "closed"}
  PROVE  /\ saved' = saved
         /\ \A n \in Parts : chunks'[n] # {} => chunks[n] # {}
         /\ meta' = meta \/ meta' = NoMeta
<1>q. \A n \in Parts : written[n] = idx[n] /\ n \notin metaDue
  <2>1. CASE mode["page"] = "closed"
    BY <2>1, Names DEF PageInv, WritesInv, TypeOK
  <2>2. CASE mode["page"] # "closed"
    BY <2>2 DEF CountInv, Quiet
  <2>3. QED
    BY <2>1, <2>2
<1>1. CASE PageStep
  BY <1>1, PageFrame DEF PageStep, StartRecording, StartLost, StartFails, BeginRecording,
     Rotate, RotateFails, Stopping, StopClicked, StopCurrentPart, FinishEmptyPart,
     FinishPart, ClosePartFails, localVars
<1>2. ASSUME NEW m \in Parts, PartStep(m)
      PROVE  UNCHANGED localVars
  <2>1. ~WriteChunk(m) /\ ~SaveMeta(m)
    BY <1>q DEF WriteChunk, WriteDue, SaveMeta, TypeOK
  <2>2. QED
    BY <1>2, <2>1 DEF PartStep, DataAvailable, TracksEnded, RecorderStopped, WriteFails
<1>3. ASSUME NEW a \in Agents, UploadStep(a)
      PROVE  /\ saved' = saved /\ meta' = meta
             /\ \A n \in Parts : chunks'[n] # {} => chunks[n] # {}
  <2>1. chunks' = chunks \/ chunks' = [chunks EXCEPT ![Head(a)] = {}]
    BY <1>3 DEF UploadStep, NothingLocal, Prepare, GetLink, LinkLost, SkipVerified, Put,
       PutLost, Complete, CompleteLost, RequestFails, Remove, RemoveFails, localVars
  <2>2. QED
    BY <1>3, <2>1, UploadFrame DEF TypeOK
<1>4. ASSUME NEW a \in Agents, FinishStep(a)
      PROVE  UNCHANGED <<saved, chunks>> /\ (meta' = meta \/ meta' = NoMeta)
  BY <1>4 DEF FinishStep, Finish, FinishLost, FinishRefused, ForgetMeta, ForgetFails, localVars
<1>5. CASE Environment
  BY <1>5 DEF Environment, PageCrashes, LeaveBrokenPage, LosePage, StartRecovery,
     RecoveryCrashes, LatePut, DeleteRecording, localVars
<1>6. CASE UNCHANGED vars
  BY <1>6 DEF vars, localVars
<1>7. QED
  BY <1>1, <1>2, <1>3, <1>4, <1>5, <1>6 DEF Next, localVars

\* A count that covers the traces on the device goes on to do so.
LEMMA CoversStays ==
  ASSUME TypeOK, PageInv, WritesInv, CountInv, [Next]_vars,
         mode["page"] \in {"uploading", "confirmed", "done", "error", "closed"},
         NEW e \in Nat, Covers(e)
  PROVE  Covers(e)'
<1>1. meta' = meta \/ meta' = -1
  BY TracesFade, Names
<1>2. \A n \in Parts : chunks'[n] # {} => chunks[n] # {}
  BY TracesFade
<1>3. QED
  BY <1>1, <1>2 DEF Covers

\* A recovery that starts has found everything there is to expect.
LEMMA RecoveryCovers ==
  ASSUME TypeOK, StartRecovery
  PROVE  expect'["recovery"] > 0 /\ Covers(expect'["recovery"])
<1>1. PICK most \in PartsKnown :
        (\A n \in PartsKnown : n <= most) /\ expect' = [expect EXCEPT !["recovery"] = most]
  BY DEF StartRecovery
<1>2. expect'["recovery"] = most
  BY <1>1, Names DEF TypeOK
<1>3. meta <= most /\ \A n \in Parts : chunks[n] # {} => n <= most
  BY <1>1 DEF PartsKnown, Listed
<1>4. most > 0
  <2>1. \E n \in PartsKnown : n > 0
    <3>1. CASE meta > 0
      BY <3>1 DEF PartsKnown
    <3>2. CASE Listed # {}
      <4>1. PICK n \in Listed : n \in Parts
        BY <3>2 DEF Listed
      <4>2. QED
        BY <4>1, Names DEF PartsKnown
    <3>3. QED
      BY <3>1, <3>2 DEF StartRecovery, Unfinished
  <2>2. \A n \in PartsKnown : n \in Int
    BY Names DEF PartsKnown, Listed, TypeOK
  <2>3. QED
    BY <1>1, <2>1, <2>2
<1>5. QED
  BY <1>2, <1>3, <1>4 DEF Covers

\* RecoveryInv is preserved when only one tab works on the recording.
LEMMA RecoveryInvStep ==
  ASSUME ~SharedTab, TypeOK, PageInv, WritesInv, CountInv, RecoveryInv, [Next]_vars
  PROVE  RecoveryInv'
<1>1. CASE StartRecovery
  <2>1. mode'["page"] = "closed" /\ UNCHANGED <<meta, chunks>>
    BY <1>1, Names DEF StartRecovery, Enter, TypeOK, localVars
  <2>2. QED
    BY <1>1, <2>1, RecoveryCovers DEF RecoveryInv, Covers
<1>2. ASSUME ~StartRecovery, mode'["recovery"] # "idle"
      PROVE  mode["recovery"] # "idle" /\ expect'["recovery"] = expect["recovery"]
  <2>1. CASE PageStep
    BY <1>2, <2>1, Names DEF PageStep, StartRecording, StartLost, StartFails, BeginRecording,
       Rotate, RotateFails, Stopping, StopClicked, StopCurrentPart, FinishEmptyPart, FinishPart,
       FinishReturns, ClosePartFails, Enter, TypeOK
  <2>2. ASSUME NEW m \in Parts, PartStep(m) PROVE UNCHANGED <<mode, expect>>
    BY <2>2, PartFrame
  <2>3. ASSUME NEW a \in Agents, UploadStep(a) PROVE UNCHANGED <<mode, expect>>
    BY <2>3, UploadFrame
  <2>4. ASSUME NEW a \in Agents, FinishStep(a)
        PROVE  mode["recovery"] # "idle" /\ expect' = expect
    BY <1>2, <2>4, Names DEF FinishStep, Finish, FinishLost, FinishRefused, ForgetMeta,
       ForgetFails, Enter, TypeOK
  <2>5. CASE Environment
    BY <1>2, <2>5, Names DEF Environment, PageCrashes, LeaveBrokenPage, LosePage, DropQueue,
       RecoveryCrashes, LatePut, DeleteRecording, Enter, TypeOK
  <2>6. CASE UNCHANGED vars
    BY <1>2, <2>6 DEF vars
  <2>7. QED
    BY <1>2, <2>1, <2>2, <2>3, <2>4, <2>5, <2>6 DEF Next
<1>3. CASE ~StartRecovery
  <2> SUFFICES ASSUME mode'["recovery"] # "idle"
               PROVE  /\ mode'["page"] = "closed"
                      /\ expect'["recovery"] > 0
                      /\ Covers(expect["recovery"])'
    BY DEF RecoveryInv
  <2>1. mode["recovery"] # "idle" /\ expect'["recovery"] = expect["recovery"]
    BY <1>2, <1>3
  <2>2. mode["page"] = "closed" /\ expect["recovery"] > 0 /\ Covers(expect["recovery"])
    BY <2>1 DEF RecoveryInv
  <2>3. expect["recovery"] \in Nat
    BY Names DEF TypeOK
  <2>4. mode'["page"] = "closed"
    BY <2>2, ClosedStays
  <2>5. (meta' = meta \/ meta' = -1) /\ \A n \in Parts : chunks'[n] # {} => chunks[n] # {}
    BY <2>2, TracesFade, Names
  <2>6. Covers(expect["recovery"])'
    BY <2>1, <2>2, <2>3, <2>5 DEF Covers
  <2>7. QED
    BY <2>1, <2>2, <2>4, <2>6
<1>4. QED
  BY <1>1, <1>3

\* A verified part stays verified until the recording is deleted: a repeated
\* complete finds the whole file.
LEMMA VerifiedStays ==
  ASSUME TypeOK, UploadInv, [Next]_vars, NEW n \in Parts, row[n] = "verified"
  PROVE  row'[n] = "verified" \/ status' = "deleted"
<1>1. CASE PageStep
  BY <1>1, PageFrame
<1>2. ASSUME NEW m \in Parts, PartStep(m) PROVE row' = row
  BY <1>2, PartFrame DEF serverVars
<1>3. ASSUME NEW a \in Agents, UploadStep(a) PROVE row'[n] = "verified"
  <2>1. CASE GetLink(a) \/ LinkLost(a)
    BY <2>1 DEF GetLink, LinkLost, UploadUrl, TypeOK
  <2>2. CASE Complete(a) \/ CompleteLost(a)
    <3>1. queue[a] # {} /\ blob[a] = saved[Head(a)] /\ Head(a) \in Parts
      BY <2>2, HeadIsWhole DEF Complete, CompleteLost, At, UploadInv
    <3>2. n = Head(a) => Accepts(n, blob[a])
      BY <3>1 DEF Accepts, UploadInv, WholeInv
    <3>3. CompletePart(Head(a), blob[a])
      BY <2>2 DEF Complete, CompleteLost
    <3>4. QED
      BY <3>1, <3>2, <3>3 DEF CompletePart, TypeOK
  <2>3. CASE ~(GetLink(a) \/ LinkLost(a) \/ Complete(a) \/ CompleteLost(a))
    BY <1>3, <2>3 DEF UploadStep, NothingLocal, Prepare, SkipVerified, Put, PutLost,
       RequestFails, Remove, RemoveFails, serverVars
  <2>4. QED
    BY <2>1, <2>2, <2>3
<1>4. ASSUME NEW a \in Agents, FinishStep(a) PROVE row' = row
  BY <1>4, FinishFrame
<1>5. CASE Environment
  BY <1>5 DEF Environment, PageCrashes, LeaveBrokenPage, LosePage, StartRecovery,
     RecoveryCrashes, LatePut, DeleteRecording, serverVars
<1>6. CASE UNCHANGED vars
  BY <1>6 DEF vars, serverVars
<1>7. QED
  BY <1>1, <1>2, <1>3, <1>4, <1>5, <1>6 DEF Next

\* Only finish() gives the verdict "ready".
LEMMA OnlyFinishReadies ==
  ASSUME TypeOK, PageInv, [Next]_vars, status' = "ready"
  PROVE  \/ status = "ready"
         \/ \E a \in Agents : Finish(a) \/ FinishLost(a)
<1>1. CASE PageStep
  BY <1>1 DEF PageStep, StartRecording, StartLost, StartFails, BeginRecording,
     Rotate, RotateFails, Stopping, StopClicked, StopCurrentPart, FinishEmptyPart, FinishPart,
     ClosePartFails, serverVars
<1>2. ASSUME NEW m \in Parts, PartStep(m) PROVE status' = status
  BY <1>2, PartFrame DEF serverVars
<1>3. ASSUME NEW a \in Agents, UploadStep(a) PROVE status' = status
  BY <1>3, UploadFrame
<1>4. ASSUME NEW a \in Agents, FinishStep(a)
      PROVE  status' = status \/ Finish(a) \/ FinishLost(a)
  BY <1>4 DEF FinishStep, FinishRefused, ForgetMeta, ForgetFails, serverVars
<1>5. CASE Environment
  BY <1>5 DEF Environment, PageCrashes, LeaveBrokenPage, LosePage, StartRecovery,
     RecoveryCrashes, LatePut, DeleteRecording, serverVars
<1>6. CASE UNCHANGED vars
  BY <1>6 DEF vars, serverVars
<1>7. QED
  BY <1>1, <1>2, <1>3, <1>4, <1>5, <1>6 DEF Next

\* finish() says "ready" only when what it sends is right.
LEMMA ReadyIsReached ==
  ASSUME TypeOK, UploadInv, WritesInv, CountInv, RecoveryInv,
         NEW a \in Agents, Finish(a) \/ FinishLost(a), status' = "ready"
  PROVE  /\ \A n \in Parts : saved[n] # {} => row[n] = "verified"
         /\ expect[a] \in Parts /\ Missing(expect[a]) = {} /\ Covers(expect[a])
         /\ \A b \in Agents : b # a => mode[b] \in {"idle", "closed"}
<1> DEFINE e == expect[a]
<1>1. mode[a] = "uploading" /\ status \in Outcomes /\ Verdict(e) = "ready"
  BY DEF Finish, FinishLost, Exists
<1>2. e \in 0..MaxParts
  BY DEF TypeOK
<1>3. e \in Parts /\ Missing(e) = {}
  BY <1>1, <1>2, BoundsAssumption DEF Verdict, Parts
<1>4. \A n \in Parts : n <= e => row[n] = "verified"
  BY <1>2, <1>3, Names DEF Missing
<1>5. CASE a = "page"
  <2>1. \A n \in Parts : saved[n] # {} => n <= e
    BY <1>1, <1>5 DEF WritesInv, CountInv, Counted
  <2>2. \A n \in Parts : chunks[n] # {} => saved[n] # {}
    BY DEF UploadInv, WholeInv
  <2>3. meta <= e
    BY <1>3, <2>1, Names DEF WritesInv, TypeOK, Parts
  <2>4. mode["recovery"] = "idle"
    BY <1>1, <1>5 DEF RecoveryInv
  <2>5. QED
    BY <1>3, <1>4, <1>5, <2>1, <2>2, <2>3, <2>4, Names DEF Covers
<1>6. CASE a = "recovery"
  <2>1. mode["page"] = "closed" /\ Covers(e)
    BY <1>1, <1>6 DEF RecoveryInv
  <2>2. \A n \in Parts : saved[n] # {} => chunks[n] # {} \/ row[n] = "verified"
    BY <1>1 DEF UploadInv, WholeInv, Outcomes
  <2>3. QED
    BY <1>3, <1>4, <1>6, <2>1, <2>2, Names DEF Covers
<1>7. QED
  BY <1>5, <1>6, Names

\* ReadyInv is preserved: what made the recording "ready" stays true.
LEMMA ReadyInvStep ==
  ASSUME ~SharedTab, TypeOK, UploadInv, WritesInv, CountInv, StatusInv, RecoveryInv, ReadyInv,
         [Next]_vars
  PROVE  ReadyInv'
<1>p. PageInv /\ OrderInv
  BY DEF UploadInv
<1> SUFFICES ASSUME status' = "ready"
             PROVE  /\ \A n \in Parts : saved'[n] # {} => row'[n] = "verified"
                    /\ \E e \in Parts : ReachedWith(e)'
  BY DEF ReadyInv
<1>1. ASSUME NEW a \in Agents, Finish(a) \/ FinishLost(a)
      PROVE  /\ \A n \in Parts : saved'[n] # {} => row'[n] = "verified"
             /\ \E e \in Parts : ReachedWith(e)'
  <2>1. UNCHANGED <<row, chunks, meta, saved, expect>>
    BY <1>1 DEF Finish, FinishLost, localVars
  <2>2. \A b \in Agents : b # a => mode'[b] = mode[b]
    BY <1>1 DEF Finish, FinishLost, Enter, TypeOK
  <2>3. /\ \A n \in Parts : saved[n] # {} => row[n] = "verified"
        /\ expect[a] \in Parts /\ Missing(expect[a]) = {} /\ Covers(expect[a])
        /\ \A b \in Agents : b # a => mode[b] \in {"idle", "closed"}
    BY <1>1, ReadyIsReached
  <2>4. \A b \in Agents : b # a => ~Busy(b)'
    BY <2>2, <2>3 DEF Busy
  <2>5. expect[a] \in 1..expect[a]
    <3>1. expect[a] \in Nat \ {0}
      BY <2>3, Names
    <3>2. QED
      BY <3>1
  <2>6. ReachedWith(expect[a])'
    BY <2>1, <2>3, <2>4, <2>5 DEF ReachedWith, Missing, Covers
  <2>7. QED
    BY <2>1, <2>3, <2>6
<1>2. CASE ~(\E a \in Agents : Finish(a) \/ FinishLost(a))
  <2>1. status = "ready"
    BY <1>p, <1>2, OnlyFinishReadies
  <2>2. mode["page"] \in {"uploading", "confirmed", "done", "error", "closed"}
    BY <1>p, <2>1, Names DEF StatusInv, PageInv, TypeOK, PageModes
  <2>3. \A n \in Parts : row[n] = "verified" => row'[n] = "verified"
    BY VerifiedStays
  <2>4. \A n \in Parts : saved[n] # {} => row[n] = "verified"
    BY <2>1 DEF ReadyInv
  <2>5. saved' = saved
    BY <1>p, <2>2, TracesFade
  <2>6. PICK e \in Parts : ReachedWith(e)
    BY <2>1 DEF ReadyInv
  <2>7. Missing(e)' = {}
    <3>1. \A n \in 1..e : n \in Parts
      BY Names, BoundsAssumption DEF Parts
    <3>2. QED
      BY <2>3, <2>6, <3>1 DEF ReachedWith, Missing
  <2>8. Covers(e)'
    BY <1>p, <2>2, <2>6, CoversStays, Names DEF ReachedWith
  <2>9. ASSUME NEW a \in Agents, Busy(a)'
        PROVE  expect'[a] \in 1..e
    <3>1. CASE StartRecovery /\ a = "recovery"
      <4>1. expect'[a] > 0 /\ expect'[a] \in PartsKnown
        <5>1. \E most \in PartsKnown : expect' = [expect EXCEPT !["recovery"] = most]
          BY <3>1 DEF StartRecovery
        <5>2. QED
          BY <3>1, <5>1, RecoveryCovers, Names DEF TypeOK
      <4>2. \A n \in PartsKnown : n <= e /\ n \in Int
        BY <2>6, Names DEF PartsKnown, Listed, ReachedWith, Covers, TypeOK
      <4>3. QED
        BY <4>1, <4>2, Names
    <3>2. CASE ~(StartRecovery /\ a = "recovery")
      <4>1. Busy(a) /\ expect'[a] = expect[a]
        <5>1. CASE PageStep
          BY <2>2, <2>9, <5>1, <1>p, Names DEF PageStep, StartRecording, StartLost, StartFails,
             BeginRecording, Rotate, RotateFails, Stopping, MayRotate, StopClicked, StopCurrentPart,
             FinishEmptyPart, FinishPart, FinishReturns, ClosePartFails, Enter, Busy, TypeOK,
             OrderInv
        <5>2. ASSUME NEW m \in Parts, PartStep(m) PROVE UNCHANGED <<mode, expect>>
          BY <5>2, PartFrame
        <5>3. ASSUME NEW b \in Agents, UploadStep(b) PROVE UNCHANGED <<mode, expect>>
          BY <5>3, UploadFrame
        <5>4. ASSUME NEW b \in Agents, FinishStep(b)
              PROVE  Busy(a) /\ expect'[a] = expect[a]
          BY <2>9, <5>4, Names DEF FinishStep, Finish, FinishLost, FinishRefused, ForgetMeta,
             ForgetFails, Enter, Busy, TypeOK
        <5>5. CASE Environment
          BY <2>9, <3>2, <5>5, Names DEF Environment, PageCrashes, LeaveBrokenPage, LosePage,
             DropQueue, StartRecovery, RecoveryCrashes, LatePut, DeleteRecording, Enter, Busy,
             TypeOK
        <5>6. CASE UNCHANGED vars
          BY <2>9, <5>6 DEF vars, Busy
        <5>7. QED
          BY <2>9, <5>1, <5>2, <5>3, <5>4, <5>5, <5>6 DEF Next, Busy
      <4>2. QED
        BY <2>6, <4>1 DEF ReachedWith
    <3>3. QED
      BY <3>1, <3>2
  <2>10. ReachedWith(e)'
    BY <2>7, <2>8, <2>9 DEF ReachedWith
  <2>11. QED
    BY <2>3, <2>4, <2>5, <2>10
<1>3. QED
  BY <1>1, <1>2

\* How the status of a recording moves.
LEMMA StatusMoves ==
  ASSUME TypeOK, PageInv, [Next]_vars
  PROVE  \/ status' = status
         \/ status = "none" /\ status' = "recording" /\ UNCHANGED <<row, object, chunks>>
         \/ \E a \in Agents : Finish(a) \/ FinishLost(a)
         \/ DeleteRecording
<1>1. CASE PageStep
  BY <1>1 DEF PageStep, StartRecording, StartLost, StartFails, BeginRecording, PageInv,
     Rotate, RotateFails, Stopping, StopClicked, StopCurrentPart, FinishEmptyPart, FinishPart,
     ClosePartFails, serverVars, bucketVars, localVars
<1>2. ASSUME NEW m \in Parts, PartStep(m) PROVE status' = status
  BY <1>2, PartFrame DEF serverVars
<1>3. ASSUME NEW a \in Agents, UploadStep(a) PROVE status' = status
  BY <1>3, UploadFrame
<1>4. ASSUME NEW a \in Agents, FinishStep(a)
      PROVE  status' = status \/ Finish(a) \/ FinishLost(a)
  BY <1>4 DEF FinishStep, FinishRefused, ForgetMeta, ForgetFails, serverVars
<1>5. CASE Environment
  BY <1>5 DEF Environment, PageCrashes, LeaveBrokenPage, LosePage, StartRecovery,
     RecoveryCrashes, LatePut, serverVars
<1>6. CASE UNCHANGED vars
  BY <1>6 DEF vars, serverVars
<1>7. QED
  BY <1>1, <1>2, <1>3, <1>4, <1>5, <1>6 DEF Next

\* FailedIsEmpty is preserved: only a count of 0 fails a recording, the page
\* sends it when no part has seen data, and from then on nothing is written.
LEMMA FailedStep ==
  ASSUME TypeOK, PageInv, WritesInv, CountInv, StatusInv, RecoveryInv, FailedIsEmpty,
         [Next]_vars
  PROVE  FailedIsEmpty'
<1>1. SUFFICES ASSUME status' = "failed", NEW n \in Parts
               PROVE  saved'[n] = {}
  BY DEF FailedIsEmpty
<1>2. ASSUME NEW a \in Agents, Finish(a) \/ FinishLost(a)
      PROVE  saved'[n] = {}
  <2>1. mode[a] = "uploading" /\ status' = Verdict(expect[a]) /\ saved' = saved
    BY <1>2 DEF Finish, FinishLost, localVars
  <2>2. expect[a] = 0
    BY <1>1, <2>1 DEF Verdict
  <2>3. a = "page"
    BY <2>1, <2>2, Names DEF RecoveryInv
  <2>4. ~(n <= 0) /\ idx[n] \in Nat
    BY Names, BoundsAssumption DEF TypeOK
  <2>5. idx[n] = 0
    BY <2>1, <2>2, <2>3, <2>4 DEF CountInv, Counted
  <2>6. saved[n] = {}
    BY <2>1, <2>3, <2>5 DEF WritesInv
  <2>7. QED
    BY <2>1, <2>6
<1>3. CASE status' = status
  <2>1. saved[n] = {}
    BY <1>1, <1>3 DEF FailedIsEmpty
  <2>2. ASSUME NEW m \in Parts, PartStep(m) PROVE saved' = saved
    <3>1. ~WriteDue(m)
      <4>1. mode["page"] \notin {"starting", "recording", "stopping", "stopFailed"}
        BY <1>1, <1>3 DEF StatusInv
      <4>2. mode["page"] \in PageModes
        BY Names DEF TypeOK
      <4>3. CASE mode["page"] \in {"idle", "closed"}
        BY <4>3 DEF PageInv, WriteDue
      <4>4. CASE mode["page"] \in {"uploading", "confirmed", "done", "error"}
        <5>1. written[m] = idx[m] /\ idx[m] \in 0..MaxChunks
          BY <4>4 DEF CountInv, Quiet, TypeOK
        <5>2. QED
          BY <5>1 DEF WriteDue
      <4>5. QED
        BY <4>1, <4>2, <4>3, <4>4 DEF PageModes
    <3>2. QED
      BY <2>2, <3>1 DEF PartStep, DataAvailable, TracksEnded, RecorderStopped, WriteChunk, WriteFails,
         SaveMeta, localVars
  <2>3. CASE PageStep
    BY <2>1, <2>3, PageFrame
  <2>4. ASSUME NEW a \in Agents, UploadStep(a) PROVE saved' = saved
    BY <2>4, UploadFrame
  <2>5. ASSUME NEW a \in Agents, FinishStep(a) PROVE saved' = saved
    BY <2>5, FinishFrame
  <2>6. CASE Environment
    BY <2>1, <2>6 DEF Environment, PageCrashes, LeaveBrokenPage, LosePage, StartRecovery,
       RecoveryCrashes, LatePut, DeleteRecording, localVars
  <2>7. CASE UNCHANGED vars
    BY <2>1, <2>7 DEF vars, localVars
  <2>8. QED
    BY <2>1, <2>2, <2>3, <2>4, <2>5, <2>6, <2>7 DEF Next
<1>4. CASE status = "none" /\ status' = "recording"
  BY <1>1, <1>4
<1>5. CASE DeleteRecording
  BY <1>1, <1>5 DEF DeleteRecording
<1>6. QED
  BY <1>2, <1>3, <1>4, <1>5, StatusMoves

\* VerdictInv holds before anything has been recorded.
LEMMA VerdictInvInit == Init => VerdictInv
<1> SUFFICES ASSUME Init PROVE VerdictInv
  OBVIOUS
<1>1. WritesInv /\ StalledInv /\ CountInv /\ StatusInv /\ RecoveryInv
  BY Names DEF Init, WritesInv, StalledInv, Stalled, CountInv, StatusInv, RecoveryInv
<1>2. ReadyInv /\ FailedIsEmpty
  BY DEF Init, ReadyInv, FailedIsEmpty
<1>3. QED
  BY <1>1, <1>2 DEF VerdictInv

\* VerdictInv is inductive, relative to the types and UploadInv.
LEMMA VerdictInvStep ==
  ASSUME ~SharedTab, TypeOK, UploadInv, VerdictInv, [Next]_vars
  PROVE  VerdictInv'
<1>1. PageInv /\ OrderInv
  BY DEF UploadInv
<1>2. WritesInv /\ StalledInv /\ CountInv /\ StatusInv /\ RecoveryInv /\ ReadyInv /\ FailedIsEmpty
  BY DEF VerdictInv
<1>3. WritesInv' /\ StalledInv' /\ CountInv' /\ StatusInv'
  BY <1>1, <1>2, WritesInvStep, StalledInvStep, CountInvStep, StatusInvStep
<1>4. RecoveryInv' /\ ReadyInv'
  BY <1>1, <1>2, RecoveryInvStep, ReadyInvStep
<1>5. FailedIsEmpty'
  BY <1>1, <1>2, FailedStep
<1>6. QED
  BY <1>3, <1>4, <1>5 DEF VerdictInv

IInv == TypeOK /\ UploadInv /\ VerdictInv

\* The inductive invariant holds always.
LEMMA IInvAlways == ASSUME ~SharedTab PROVE Spec => []IInv
<1>1. Init => IInv
  BY TypeInit, UploadInvInit, VerdictInvInit DEF IInv
<1>2. IInv /\ [Next]_vars => IInv'
  BY TypeStep, UploadInvStep, VerdictInvStep DEF IInv
<1>3. QED
  BY <1>1, <1>2, PTL DEF Spec

\* finish() is the last word on a recording: with one tab at work, "ready" is
\* never said of a recording with a stored part that is not verified, although
\* the count it rests on may have been put together from what a crash left.
THEOREM ReadyMeansComplete ==
  ASSUME ~SharedTab
  PROVE  Spec => []ReadyIsComplete
<1>1. IInv => ReadyIsComplete
  BY DEF IInv, VerdictInv, ReadyInv, ReadyIsComplete
<1>2. QED
  BY <1>1, IInvAlways, PTL

\* With one tab at work, "failed" is never said of a recording that has a
\* stored chunk: not by a repeated finish(), not by a recovery that has to guess
\* the count from what a crash left.
THEOREM FailedMeansEmpty ==
  ASSUME ~SharedTab
  PROVE  Spec => []FailedIsEmpty
<1>1. IInv => FailedIsEmpty
  BY DEF IInv, VerdictInv
<1>2. QED
  BY <1>1, IInvAlways, PTL

-----------------------------------------------------------------------------
(* The steps of the recording as steps of DurableRecording.                *)

\* Once it was "ready", the next finish() says so again.
LEMMA ReadyAgain ==
  ASSUME IInv, status = "ready", NEW a \in Agents, Finish(a) \/ FinishLost(a)
  PROVE  status' = "ready"
<1>1. Busy(a) /\ status' = Verdict(expect[a])
  BY DEF Finish, FinishLost, Busy
<1>2. PICK e \in Parts : Missing(e) = {} /\ expect[a] \in 1..e
  BY <1>1 DEF IInv, VerdictInv, ReadyInv, ReachedWith
<1>3. expect[a] > 0 /\ Missing(expect[a]) = {}
  BY <1>2, Names DEF Missing
<1>4. expect[a] # 0
  BY <1>3
<1>5. QED
  BY <1>1, <1>3, <1>4 DEF Verdict

\* A recording that is "ready" stays so until it is deleted: finish() repeated
\* after a lost answer or a crash never makes it worse.
THEOREM ReadyIsForGood ==
  ASSUME ~SharedTab
  PROVE  Spec => ReadyIsStable
<1>1. IInv /\ [Next]_vars => [status = "ready" => status' \in {"ready", "deleted"}]_vars
  <2> SUFFICES ASSUME IInv, [Next]_vars, status = "ready"
               PROVE  status' \in {"ready", "deleted"}
    OBVIOUS
  <2>1. CASE DeleteRecording
    BY <2>1 DEF DeleteRecording
  <2>2. CASE ~DeleteRecording
    BY <2>2, StatusMoves, ReadyAgain DEF IInv, UploadInv
  <2>3. QED
    BY <2>1, <2>2
<1>2. QED
  BY <1>1, IInvAlways, PTL DEF Spec, ReadyIsStable

\* A step that leaves what is kept, what is verified and the status alone is a
\* step that DurableRecording does not see.
LEMMA Unseen ==
  ASSUME status' = status,
         \A n \in Parts : (chunks[n] \cup Kept(n))' = chunks[n] \cup Kept(n),
         \A n \in Parts : row'[n] = "verified" <=> row[n] = "verified"
  PROVE  UNCHANGED Durable!vars
  BY DEF Durable!vars

\* The same for a step that does not touch parts at all.
LEMMA UnseenFrame ==
  ASSUME UNCHANGED <<status, row, object, chunks>>
  PROVE  UNCHANGED Durable!vars
  BY Unseen DEF Kept

\* Of a part that is not deleted, DurableRecording keeps what was stored.
LEMMA KeptIsSaved ==
  ASSUME WholeInv, NEW n \in Parts, status # "deleted"
  PROVE  chunks[n] \cup Kept(n) = saved[n]
  BY DEF WholeInv, Kept

\* A chunk is stored: it is kept.
LEMMA WriteIsKeep ==
  ASSUME IInv, NEW m \in Parts, WriteChunk(m)
  PROVE  \E c \in Idx : Durable!Keep(m, c)
<1>1. /\ TypeOK /\ PageInv /\ OpenInv /\ WritesInv /\ CountInv /\ StatusInv
  BY DEF IInv, UploadInv, VerdictInv
<1>2. row[m] = "none" /\ UNCHANGED <<row, object, status>>
  BY <1>1, WritesAreOpen DEF OpenInv, WriteChunk, serverVars, bucketVars
<1>3. written[m] < idx[m] /\ written[m] \in Idx
  BY <1>1, BoundsAssumption DEF WriteChunk, WriteDue, TypeOK, Idx
<1>4. status \in {"recording", "deleted"}
  <2>1. mode["page"] \notin {"idle", "starting", "closed"}
    BY <1>1, <1>3 DEF PageInv, TypeOK
  <2>2. mode["page"] \notin {"uploading", "confirmed", "done", "error"}
    BY <1>1, <1>3 DEF CountInv, Quiet, TypeOK
  <2>3. mode["page"] \in PageModes
    BY <1>1, Names DEF TypeOK
  <2>4. QED
    BY <1>1, <2>1, <2>2, <2>3 DEF StatusInv, PageModes
<1>5. \A n \in Parts : Kept(n)' = Kept(n)
  BY <1>2 DEF Kept
<1>6. chunks' = [chunks EXCEPT ![m] = @ \cup {written[m]}]
  BY DEF WriteChunk
<1>7. chunks \in [Parts -> SUBSET Idx]
  BY <1>1 DEF TypeOK
<1>8. [n \in Parts |-> (chunks[n] \cup Kept(n))'] =
        [[n \in Parts |-> chunks[n] \cup Kept(n)] EXCEPT ![m] = @ \cup {written[m]}]
  BY <1>5, <1>6, <1>7
<1>9. QED
  BY <1>2, <1>3, <1>4, <1>8 DEF Durable!Keep

\* An upload step archives the part at the head of the queue, or is not seen;
\* after a deletion it may clear what is left on the device.
LEMMA UploadIsArchive ==
  ASSUME IInv, NEW a \in Agents, UploadStep(a)
  PROVE  (\E n \in Parts : Durable!Archive(n)) \/ Durable!Discard \/ UNCHANGED Durable!vars
<1>t. TypeOK /\ QueueInv /\ WholeInv /\ StepInv
  BY DEF IInv, UploadInv
<1>h. queue[a] # {}
  BY DEF UploadStep, NothingLocal, Prepare, GetLink, LinkLost, SkipVerified,
     Put, PutLost, Complete, CompleteLost, RequestFails, Remove, RemoveFails, At
<1> DEFINE h == Head(a)
<1>p. h \in Parts /\ status' = status /\ saved' = saved
  BY <1>t, <1>h, HeadIsWhole, UploadFrame
<1>b. step[a] \in {"put", "complete"} => blob[a] = saved[h] /\ blob[a] # {}
  BY <1>t, <1>h, HeadIsWhole DEF StepInv
<1> HIDE DEF h
<1>1. CASE NothingLocal(a) \/ Prepare(a) \/ SkipVerified(a) \/ RequestFails(a) \/ RemoveFails(a)
  BY <1>1, UnseenFrame DEF NothingLocal, Prepare, SkipVerified, RequestFails, RemoveFails,
     serverVars, bucketVars, localVars
<1>2. CASE GetLink(a) \/ LinkLost(a)
  <2>1. UNCHANGED <<object, chunks>>
    BY <1>2 DEF GetLink, LinkLost, bucketVars, localVars
  <2>2. \A n \in Parts : row'[n] = "verified" <=> row[n] = "verified"
    BY <1>2, <1>t, <1>p DEF GetLink, LinkLost, UploadUrl, TypeOK, h
  <2>3. QED
    BY <1>p, <2>1, <2>2, Unseen DEF Kept
<1>3. CASE Put(a) \/ PutLost(a)
  <2>1. UNCHANGED <<row, chunks>>
    BY <1>3 DEF Put, PutLost, serverVars, localVars
  <2>2. blob[a] = saved[h]
    BY <1>3, <1>b DEF Put, PutLost, At
  <2>3. \A n \in Parts : object'[n] = object[n] \/ (n = h /\ object'[n] = saved[n])
    BY <1>3, <1>p, <1>t, <2>2 DEF Put, PutLost, TypeOK, h
  <2>4. \A n \in Parts : Kept(n)' = Kept(n)
    BY <1>t, <2>1, <2>3 DEF WholeInv, Kept
  <2>5. QED
    BY <1>p, <2>1, <2>4, Unseen
<1>4. CASE Complete(a) \/ CompleteLost(a)
  <2>1. /\ UNCHANGED <<object, chunks>> /\ status \in Outcomes
        /\ CompletePart(h, blob[a]) /\ blob[a] = saved[h] /\ blob[a] # {}
    BY <1>4, <1>b DEF Complete, CompleteLost, At, Exists, bucketVars, localVars, h
  <2>2. \A n \in Parts : n # h => row'[n] = row[n]
    BY <1>t, <2>1 DEF CompletePart, TypeOK
  <2>3. row[h] = "verified" => Accepts(h, blob[a])
    BY <1>t, <1>p, <2>1 DEF Accepts, WholeInv
  <2>4. CASE Accepts(h, blob[a]) /\ row[h] # "verified"
    <3>1. row'[h] = "verified" /\ object[h] = saved[h]
      BY <1>t, <1>p, <2>1, <2>4 DEF CompletePart, Accepts, WholeInv, TypeOK
    <3>2. chunks[h] = saved[h]
      BY <1>t, <1>p, <2>1, <2>4 DEF WholeInv, Outcomes
    <3>3. \A n \in Parts : (chunks[n] \cup Kept(n))' = chunks[n] \cup Kept(n)
      BY <2>1, <2>2, <2>4, <3>1, <3>2 DEF Kept
    <3>4. {n \in Parts : row'[n] = "verified"} = {n \in Parts : row[n] = "verified"} \cup {h}
      BY <1>p, <2>2, <3>1
    <3>5. chunks[h] \cup Kept(h) # {}
      BY <2>1, <3>2
    <3>6. \E n \in Parts : Durable!Archive(n)
      BY <1>p, <2>4, <3>3, <3>4, <3>5 DEF Durable!Archive
    <3>7. QED
      BY <3>6
  <2>5. CASE ~(Accepts(h, blob[a]) /\ row[h] # "verified")
    <3>1. row'[h] = "verified" <=> row[h] = "verified"
      BY <1>t, <1>p, <2>1, <2>3, <2>5 DEF CompletePart, TypeOK
    <3>2. \A n \in Parts : row'[n] = "verified" <=> row[n] = "verified"
      BY <2>2, <3>1
    <3>3. QED
      BY <1>p, <2>1, <3>2, Unseen DEF Kept
  <2>6. QED
    BY <2>4, <2>5
<1>5. CASE Remove(a)
  <2>1. UNCHANGED <<row, object>> /\ chunks' = [chunks EXCEPT ![h] = {}]
    BY <1>5 DEF Remove, serverVars, bucketVars, h
  <2>2. row[h] = "verified" \/ status = "deleted"
    BY <1>5, <1>t, <1>h DEF Remove, At, StepInv, h
  <2>3. \A n \in Parts : Kept(n)' = Kept(n)
    BY <2>1 DEF Kept
  <2>4. chunks \in [Parts -> SUBSET Idx] /\ \A n \in Parts : Kept(n) \in SUBSET Idx
    BY <1>t DEF TypeOK, Kept
  <2>5. CASE row[h] = "verified"
    <3>1. chunks[h] \subseteq Kept(h)
      BY <1>t, <1>p, <2>5 DEF WholeInv, Kept
    <3>2. \A n \in Parts : (chunks[n] \cup Kept(n))' = chunks[n] \cup Kept(n)
      BY <2>1, <2>3, <2>4, <3>1
    <3>3. QED
      BY <1>p, <2>1, <3>2, Unseen
  <2>6. CASE status = "deleted"
    <3>1. \A n \in Parts : (chunks[n] \cup Kept(n))' \subseteq chunks[n] \cup Kept(n)
      BY <2>1, <2>3, <2>4
    <3>2. \A n \in Parts : (chunks[n] \cup Kept(n))' \in SUBSET Idx
      BY <2>1, <2>3, <2>4
    <3>3. QED
      BY <1>p, <2>1, <2>6, <3>1, <3>2 DEF Durable!Discard, Durable!Lose
  <2>7. QED
    BY <2>2, <2>5, <2>6
<1>6. QED
  BY <1>1, <1>2, <1>3, <1>4, <1>5 DEF UploadStep

\* A verdict of finish() is a verdict of DurableRecording.
LEMMA FinishIsConclude ==
  ASSUME IInv, IInv', NEW a \in Agents, Finish(a) \/ FinishLost(a)
  PROVE  Durable!Conclude(status')
<1>1. UNCHANGED <<row, object, chunks, saved>>
  BY DEF Finish, FinishLost, bucketVars, localVars
<1>2. status \in {"recording", "ready", "partial", "failed"}
  BY DEF Finish, FinishLost, Exists, Outcomes
<1>3. status = "ready" => status' = "ready"
  BY ReadyAgain
<1>4. status' = "ready" => \A n \in Parts : saved[n] # {} => row[n] = "verified"
  BY <1>1 DEF IInv, VerdictInv, ReadyInv
<1>5. \A n \in Parts : chunks[n] \cup Kept(n) = saved[n]
  BY <1>2, KeptIsSaved DEF IInv, UploadInv
<1>6. \A n \in Parts : Kept(n)' = Kept(n)
  BY <1>1 DEF Kept
<1>7. QED
  BY <1>1, <1>2, <1>3, <1>4, <1>5, <1>6 DEF Durable!Conclude, Durable!Verdicts

\* Deleting the recording is a deletion of DurableRecording.
LEMMA DeleteIsDelete ==
  ASSUME IInv, DeleteRecording
  PROVE  Durable!Delete
<1>1. /\ status \in {"recording", "ready", "partial", "failed"}
      /\ status' = "deleted" /\ chunks' = chunks
      /\ \A n \in Parts : row'[n] = "none"
  BY DEF DeleteRecording, Exists, Outcomes, localVars
<1>2. {n \in Parts : row'[n] = "verified"} = {}
  BY <1>1
<1>3. \A n \in Parts : Kept(n)' = {}
  BY <1>1 DEF Kept
<1>4. chunks \in [Parts -> SUBSET Idx]
  BY DEF IInv, TypeOK
<1>5. QED
  BY <1>1, <1>2, <1>3, <1>4 DEF Durable!Delete, Durable!Lose, Durable!Verdicts

\* Every other step changes nothing that DurableRecording sees.
LEMMA OtherSteps ==
  ASSUME IInv, status' = status, PageStep \/ (\E a \in Agents : FinishStep(a)) \/ Environment
         \/ UNCHANGED vars, ~DeleteRecording
  PROVE  UNCHANGED Durable!vars
<1>1. CASE PageStep
  BY <1>1, PageFrame, UnseenFrame DEF bucketVars
<1>2. ASSUME NEW a \in Agents, FinishStep(a) PROVE UNCHANGED Durable!vars
  BY <1>2, FinishFrame, UnseenFrame DEF bucketVars
<1>3. CASE Environment
  <2>1. CASE PageCrashes \/ LeaveBrokenPage \/ StartRecovery \/ RecoveryCrashes
    BY <2>1, UnseenFrame DEF PageCrashes, LeaveBrokenPage, LosePage, StartRecovery,
       RecoveryCrashes, serverVars, bucketVars, localVars
  <2>2. CASE LatePut
    <3>1. UNCHANGED <<row, chunks>>
      BY <2>2 DEF LatePut, serverVars, localVars
    <3>2. \A n \in Parts : object'[n] = object[n] \/ object'[n] = saved[n]
      BY <2>2 DEF LatePut, IInv, UploadInv, WholeInv, TypeOK, Puts
    <3>3. \A n \in Parts : Kept(n)' = Kept(n)
      BY <3>1, <3>2 DEF IInv, UploadInv, WholeInv, Kept
    <3>4. QED
      BY <3>1, <3>3, Unseen
  <2>3. QED
    BY <1>3, <2>1, <2>2 DEF Environment
<1>4. CASE UNCHANGED vars
  BY <1>4, UnseenFrame DEF vars, serverVars, bucketVars, localVars
<1>5. QED
  BY <1>1, <1>2, <1>3, <1>4

\* Every step of the recording is a step of DurableRecording, or is not seen.
LEMMA DurableStep ==
  ASSUME IInv, IInv', [Next]_vars
  PROVE  [Durable!Next]_(Durable!vars)
<1>1. ASSUME NEW m \in Parts, PartStep(m)
      PROVE  [Durable!Next]_(Durable!vars)
  <2>1. CASE WriteChunk(m)
    <3>1. \E c \in Idx : Durable!Keep(m, c)
      BY <2>1, WriteIsKeep
    <3>2. QED
      BY <3>1 DEF Durable!Next
  <2>2. CASE ~WriteChunk(m)
    <3>1. chunks' = chunks
      BY <1>1, <2>2 DEF PartStep, DataAvailable, TracksEnded, RecorderStopped, WriteFails, SaveMeta, localVars
    <3>2. QED
      BY <1>1, <3>1, PartFrame, UnseenFrame DEF serverVars, bucketVars
  <2>3. QED
    BY <2>1, <2>2
<1>2. ASSUME NEW a \in Agents, UploadStep(a)
      PROVE  [Durable!Next]_(Durable!vars)
  <2>1. (\E n \in Parts : Durable!Archive(n)) \/ Durable!Discard \/ UNCHANGED Durable!vars
    BY <1>2, UploadIsArchive
  <2>2. QED
    BY <2>1 DEF Durable!Next
<1>3. ASSUME NEW a \in Agents, Finish(a) \/ FinishLost(a)
      PROVE  [Durable!Next]_(Durable!vars)
  <2>1. status' \in Durable!Verdicts
    BY <1>3 DEF Finish, FinishLost, Verdict, Durable!Verdicts
  <2>2. QED
    BY <1>3, <2>1, FinishIsConclude DEF Durable!Next
<1>4. CASE DeleteRecording
  BY <1>4, DeleteIsDelete DEF Durable!Next
<1>5. CASE status = "none" /\ status' = "recording" /\ UNCHANGED <<row, object, chunks>>
  <2>1. \A n \in Parts : (chunks[n] \cup Kept(n))' = chunks[n] \cup Kept(n)
    BY <1>5 DEF Kept
  <2>2. Durable!Open
    BY <1>5, <2>1 DEF Durable!Open
  <2>3. QED
    BY <2>2 DEF Durable!Next
<1>6. CASE status' = status /\ ~DeleteRecording
  BY <1>1, <1>2, <1>6, OtherSteps DEF Next
<1>7. QED
  BY <1>3, <1>4, <1>5, <1>6, StatusMoves DEF IInv, UploadInv

\* Nothing is kept at first.
LEMMA DurableInit == Init => Durable!Init
<1>1. SUFFICES ASSUME Init PROVE Durable!Init
  OBVIOUS
<1>2. \A n \in Parts : chunks[n] \cup Kept(n) = {} /\ row[n] # "verified"
  BY <1>1 DEF Init, Kept
<1>3. status = "none"
  BY <1>1 DEF Init
<1>4. QED
  BY <1>2, <1>3 DEF Durable!Init

\* The recording engine, with its queues, retries, crashes and late requests,
\* implements DurableRecording: a chunk that was stored is kept, a part is
\* archived once and whole, and "ready" is never taken back.
THEOREM EngineIsDurable ==
  ASSUME ~SharedTab
  PROVE  Spec => ImplementsDurable
<1>1. IInv /\ IInv' /\ [Next]_vars => [Durable!Next]_(Durable!vars)
  BY DurableStep
<1>2. QED
  BY <1>1, DurableInit, IInvAlways, PTL DEF Spec, ImplementsDurable, Durable!Spec
=============================================================================
