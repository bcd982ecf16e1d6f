----------------------------- MODULE RoomProofs -----------------------------
(***************************************************************************)
(* Theorems about RecordingRoom: what the room page may rely on when a     *)
(* recording stops, with one tab at work and a local store that works.     *)
(***************************************************************************)
EXTENDS RecordingRoom, RefinementProofs

\* Chunks on the device that nobody has yet to upload: there are none. What
\* the engine has stored of part n is what it has written.
AccountedInv ==
  /\ mode["page"] # "closed" => \A n \in Parts : saved[n] = 0..(written[n] - 1)
  /\ mode["page"] \in {"recording", "stopping"} /\ ~Stalled =>
       \A n \in Parts : chunks[n] # {} => n \in queue["page"] \/ n = fin \/ n >= cur
  /\ mode["page"] \in {"uploading", "confirmed", "done", "error"} =>
       \A n \in Parts : chunks[n] # {} => n \in queue["page"]
  /\ mode["page"] \in {"confirmed", "done", "error"} => queue["page"] = {}
  /\ mode["recovery"] = "uploading" =>
       \A n \in Parts : chunks[n] # {} => n \in queue["recovery"]
  /\ mode["recovery"] = "confirmed" => Listed = {}
  /\ meta = NoMeta => Listed = {}
  /\ mode["page"] \in {"recording", "stopping"} => meta # NoMeta
  /\ mode["page"] # "stopFailed"

\* A button that has waited for the engine goes on when the engine is done, or
\* was refused.
ButtonInv ==
  /\ at \in [Buttons -> {"idle", "waits", "stopped", "returned", "skipped"}]
  /\ \A b \in Buttons : at[b] = "stopped" => mode["page"] \in {"done", "error"}

RoomInv == IInv /\ AccountedInv /\ ButtonInv

\* A page that goes away, as far as the engine sees it.
PageGoes == LosePage /\ (OrphanPut("page") \/ UNCHANGED late) /\ UNCHANGED crashes

\* To the engine a step of the room is a step of its own, or the page going.
LEMMA RoomSteps ==
  ASSUME [RoomNext]_allVars
  PROVE  [Next]_vars \/ PageGoes
<1>1. CASE Room(Next)
  BY <1>1 DEF Room
<1>2. ASSUME NEW b \in Buttons, Press(b) PROVE [Next]_vars
  BY <1>2 DEF Press, Next, PageStep
<1>3. ASSUME NEW b \in Buttons, Returns(b) PROVE UNCHANGED vars
  BY <1>3 DEF Returns
<1>4. CASE Leave
  BY <1>4 DEF Leave, PageGoes
<1>5. CASE End \/ EndedElsewhere \/ UNCHANGED allVars
  BY <1>5 DEF End, EndedElsewhere, allVars
<1>6. QED
  BY <1>1, <1>2, <1>3, <1>4, <1>5 DEF RoomNext

\* A page that goes leaves nothing unsealed and takes its queue along.
LEMMA PageGoesKeeps ==
  ASSUME IInv, PageGoes
  PROVE  IInv'
<1>t. TypeOK /\ UploadInv /\ VerdictInv
  BY DEF IInv
<1>1. /\ mode' = [mode EXCEPT !["page"] = "closed"]
      /\ cur' = NoPart /\ rec' = [n \in Parts |-> "none"]
      /\ idx' = [n \in Parts |-> 0] /\ written' = [n \in Parts |-> 0]
      /\ metaDue' = {} /\ fin' = NoPart
      /\ queue' = [queue EXCEPT !["page"] = {}] /\ step' = [step EXCEPT !["page"] = "fetch"]
      /\ blob' = [blob EXCEPT !["page"] = {}] /\ expect' = [expect EXCEPT !["page"] = 0]
      /\ UNCHANGED <<status, row, size, object, chunks, meta, saved, crashes>>
  BY DEF PageGoes, LosePage, DropQueue, Enter, serverVars, localVars
<1>2. \A p \in late' : p \in late \/ (At("page", "put") /\ p = [part |-> Head("page"), data |-> blob["page"]])
  BY DEF PageGoes, OrphanPut
<1>3. ASSUME At("page", "put")
      PROVE  Head("page") \in Parts /\ blob["page"] = saved[Head("page")] /\ blob["page"] \in SUBSET Idx
  BY <1>t, <1>3, HeadIsWhole, Names DEF At, UploadInv, TypeOK
<1>4. TypeOK'
  <2>1. late' \subseteq Puts
    BY <1>t, <1>2, <1>3 DEF TypeOK, Puts
  <2>2. 0 \in 0..MaxParts /\ 0 \in 0..MaxChunks
    BY BoundsAssumption
  <2>3. QED
    BY <1>t, <1>1, <2>1, <2>2, Names DEF TypeOK, PageModes
<1>m. /\ mode'["page"] = "closed" /\ mode'["recovery"] = mode["recovery"]
      /\ queue'["page"] = {} /\ queue'["recovery"] = queue["recovery"]
      /\ step'["page"] = "fetch" /\ step'["recovery"] = step["recovery"]
      /\ blob'["page"] = {} /\ blob'["recovery"] = blob["recovery"]
      /\ expect'["recovery"] = expect["recovery"]
  BY <1>t, <1>1, Names DEF TypeOK
<1>5. UploadInv'
  <2>1. PageInv' /\ OrderInv'
    BY <1>1, <1>m DEF PageInv, OrderInv
  <2>2. \A n \in Parts : Sealed(n)'
    BY <1>m DEF Sealed
  <2>3. QueueInv'
    BY <1>t, <1>m, <2>2, Names DEF QueueInv, UploadInv, TypeOK
  <2>4. OpenInv'
    BY <2>2 DEF OpenInv
  <2>5. WholeInv'
    <3>1. \A p \in late' : p.part \in Parts /\ p.data = saved[p.part]
      BY <1>t, <1>2, <1>3 DEF UploadInv, WholeInv, TypeOK, Puts
    <3>2. QED
      BY <1>t, <1>1, <2>2, <3>1 DEF UploadInv, WholeInv
  <2>6. StepInv'
    BY <1>t, <1>1, <1>m, Names DEF UploadInv, StepInv, Head
  <2>7. QED
    BY <2>1, <2>3, <2>4, <2>5, <2>6 DEF UploadInv
<1>6. VerdictInv'
  <2>1. WritesInv'
    BY <1>t, <1>1, <1>m, Names DEF VerdictInv, WritesInv
  <2>2. CountInv' /\ StatusInv'
    BY <1>m DEF CountInv, StatusInv
  <2>3. RecoveryInv'
    BY <1>t, <1>1, <1>m DEF VerdictInv, RecoveryInv, Covers
  <2>4. ReadyInv'
    <3>1. SUFFICES ASSUME status = "ready"
                   PROVE  \E e \in Parts : ReachedWith(e)'
      BY <1>t, <1>1 DEF VerdictInv, ReadyInv
    <3>2. PICK e \in Parts : ReachedWith(e)
      BY <1>t, <3>1 DEF VerdictInv, ReadyInv
    <3>3. ReachedWith(e)'
      BY <1>1, <1>m, <3>2, Names DEF ReachedWith, Covers, Missing, Busy
    <3>4. QED
      BY <3>3
  <2>5. FailedIsEmpty'
    BY <1>t, <1>1 DEF VerdictInv, FailedIsEmpty
  <2>6. StalledInv'
    <3>1. ~Stalled'
      BY <1>1, Names DEF Stalled
    <3>2. QED
      BY <3>1 DEF StalledInv
  <2>7. QED
    BY <2>1, <2>2, <2>3, <2>4, <2>5, <2>6 DEF VerdictInv
<1>7. QED
  BY <1>4, <1>5, <1>6 DEF IInv

\* What holds of the engine holds of it in the room page, whatever its store
\* does.
LEMMA EngineInRoom == ASSUME ~SharedTab PROVE RoomSpec => []IInv
<1>1. RoomInit => IInv
  BY TypeInit, UploadInvInit, VerdictInvInit DEF RoomInit, IInv
<1>2. IInv /\ [RoomNext]_allVars => IInv'
  BY RoomSteps, PageGoesKeeps, TypeStep, UploadInvStep, VerdictInvStep DEF IInv
<1>3. QED
  BY <1>1, <1>2, PTL DEF RoomSpec

\* The chunks written so far, and the next one.
LEMMA NextChunk ==
  ASSUME NEW w \in Nat
  PROVE  (0..(w - 1)) \cup {w} = 0..((w + 1) - 1)
  OBVIOUS

\* AccountedInv is preserved when the store works: nothing leaves a queue but
\* a part that is no longer on the device.
LEMMA AccountedStep ==
  ASSUME ~StoreMayFail, ~SharedTab, IInv, AccountedInv, [Next]_vars
  PROVE  AccountedInv'
<1>t. /\ TypeOK /\ PageInv /\ OrderInv /\ QueueInv /\ WholeInv
      /\ WritesInv /\ StalledInv /\ CountInv /\ RecoveryInv
  BY DEF IInv, UploadInv, VerdictInv
<1>l. Listed = {} <=> \A n \in Parts : chunks[n] = {}
  BY DEF Listed
<1>s. ASSUME cur' = cur, \A n \in Parts : rec[n] = "none" => rec'[n] = "none"
      PROVE  Stalled => Stalled'
  BY <1>s DEF Stalled
<1>k. Listed' = {} <=> \A n \in Parts : chunks'[n] = {}
  BY DEF Listed
<1>1. CASE PageStep
  <2>f. UNCHANGED <<chunks, saved, written>>
    BY <1>1, PageFrame
  <2>1. CASE StartRecording \/ StartLost \/ StartFails
    <3>1. /\ mode["page"] \in {"idle", "starting"} /\ mode'["page"] \in {"starting", "closed"}
          /\ mode'["recovery"] = mode["recovery"] /\ queue' = queue
          /\ meta' = meta \/ meta' # NoMeta
      BY <2>1, <1>t, Names DEF StartRecording, StartLost, StartFails, Enter, TypeOK, queueVars,
         localVars
    <3>2. QED
      BY <2>f, <3>1, <1>l, <1>k DEF AccountedInv
  <2>2. CASE BeginRecording
    <3>1. \A n \in Parts : chunks[n] = {}
      <4>1. \A n \in Parts : written[n] = 0 /\ saved[n] = 0..(written[n] - 1)
        BY <2>2, <1>t DEF BeginRecording, PageInv, AccountedInv
      <4>2. \A n \in Parts : saved[n] = {}
        BY <4>1
      <4>3. QED
        BY <1>t, <4>2 DEF WholeInv
    <3>2. /\ mode' = [mode EXCEPT !["page"] = "recording"]
          /\ meta' = 0 /\ queue' = queue
      BY <2>2 DEF BeginRecording, Enter, queueVars
    <3>3. mode["page"] = "starting" /\ mode'["page"] = "recording" /\ mode'["recovery"] = mode["recovery"]
      BY <2>2, <3>2, <1>t, Names DEF BeginRecording, TypeOK
    <3>4. QED
      BY <2>f, <3>1, <3>2, <3>3, <1>k, Names DEF AccountedInv
  <2>3. CASE Rotate \/ RotateFails \/ StopClicked \/ StopCurrentPart
    <3>1. /\ UNCHANGED <<queue, meta>>
          /\ mode'["page"] = mode["page"] \/ (mode["page"] = "recording" /\ mode'["page"] = "stopping")
          /\ mode'["recovery"] = mode["recovery"]
      BY <2>3, <1>t, Names DEF Rotate, RotateFails, Stopping, StopClicked, StopCurrentPart,
         Enter, TypeOK, queueVars, localVars
    <3>2. mode["page"] \in {"recording", "stopping"} /\ ~Stalled' =>
            ~Stalled /\ \A n \in Parts : n = fin \/ n >= cur => n = fin' \/ n >= cur'
      <4>1. cur \in Nat /\ \A n \in Parts : n \in Nat
        BY <1>t, Names DEF TypeOK
      <4>2. CASE StopClicked
        BY <4>2 DEF StopClicked, partVars, Stalled
      <4>3. CASE Rotate
        <5>1. \A n \in Parts : n <= cur /\ rec[n] = "none" => n <= cur' /\ rec'[n] = "none"
          BY <1>t, <4>1, <4>3 DEF Rotate, Stopping, TypeOK
        <5>2. Stalled => Stalled'
          BY <5>1 DEF Stalled
        <5>3. QED
          BY <4>1, <4>3, <5>2, Names DEF Rotate, MayRotate
      <4>4. CASE StopCurrentPart
        <5>1. \A n \in Parts : rec[n] = "none" => rec'[n] = "none"
          BY <1>t, <4>4 DEF StopCurrentPart, Stopping, TypeOK
        <5>2. QED
          BY <1>s, <4>1, <4>4, <5>1, Names DEF StopCurrentPart
      <4>5. CASE RotateFails
        <5>1. cur + 1 \in Parts /\ cur' = cur + 1
          BY <4>1, <4>5, BoundsAssumption DEF RotateFails, Parts
        <5>2. rec[cur + 1] = "none" /\ cur + 1 # cur
          BY <1>t, <4>1, <5>1 DEF PageInv
        <5>3. rec'[cur + 1] = "none"
          BY <1>t, <4>5, <5>1, <5>2 DEF RotateFails, Stopping, TypeOK
        <5>4. Stalled'
          BY <4>1, <5>1, <5>3 DEF Stalled
        <5>5. QED
          BY <5>4
      <4>6. QED
        BY <2>3, <4>2, <4>3, <4>4, <4>5
    <3>3. QED
      BY <2>f, <3>1, <3>2, <1>l, <1>k DEF AccountedInv
  <2>4. CASE FinishEmptyPart \/ FinishPart
    <3>1. /\ fin \in Parts /\ fin <= cur /\ cur \in Nat /\ mode["page"] \in {"recording", "stopping"}
          /\ meta' = meta /\ cur' = cur /\ fin' = NoPart
          /\ mode'["recovery"] = mode["recovery"] /\ queue'["recovery"] = queue["recovery"]
          /\ mode' = mode \/ (fin = cur /\ mode'["page"] = "uploading")
          /\ rec[fin] = "off" /\ fin # NoPart
      BY <2>4, <1>t, Names DEF FinishEmptyPart, FinishPart, FinishReturns, OrderInv, TypeOK,
         PartSettled, queueVars, localVars
    <3>s. ~Stalled
      BY <1>t, <3>1 DEF StalledInv
    <3>2. queue["page"] \subseteq queue'["page"] /\ (chunks[fin] # {} => fin \in queue'["page"])
      <4>1. CASE FinishPart
        BY <4>1, <1>t, Names DEF FinishPart, TypeOK
      <4>2. CASE FinishEmptyPart
        BY <4>2, <3>1, <1>t DEF FinishEmptyPart, WritesInv, WholeInv, queueVars
      <4>3. QED
        BY <2>4, <4>1, <4>2
    <3>3. \A n \in Parts : n > cur => chunks[n] = {}
      <4>1. \A n \in Parts : n > cur => idx[n] = 0
        BY <1>t, <3>1, Names DEF PageInv, WritesInv, TypeOK
      <4>2. QED
        BY <1>t, <3>1, <4>1 DEF WritesInv, WholeInv, TypeOK
    <3>4. \A n \in Parts : chunks[n] # {} => n \in queue["page"] \/ n = fin \/ n >= cur
      BY <3>1, <3>s DEF AccountedInv
    <3>5. CASE mode' = mode
      BY <2>f, <3>1, <3>2, <3>4, <3>5, <1>l, <1>k DEF AccountedInv
    <3>6. CASE fin = cur /\ mode'["page"] = "uploading"
      <4>1. \A n \in Parts : chunks[n] # {} => n \in queue'["page"]
        <5>1. SUFFICES ASSUME NEW n \in Parts, chunks[n] # {}
                       PROVE  n \in queue'["page"]
          OBVIOUS
        <5>2. n \in Nat /\ fin \in Nat /\ cur \in Nat /\ ~(n > cur)
          BY <3>1, <3>3, <5>1, Names
        <5>3. n \in queue["page"] \/ n = fin \/ n >= cur
          BY <3>4, <5>1
        <5>4. n \in queue["page"] \/ n = fin
          BY <3>6, <5>2, <5>3
        <5>5. QED
          BY <3>2, <5>1, <5>4
      <4>2. QED
        BY <2>f, <3>1, <3>6, <4>1, <1>l, <1>k DEF AccountedInv
    <3>7. QED
      BY <3>1, <3>5, <3>6
  <2>5. ~ClosePartFails
    BY DEF ClosePartFails
  <2>6. QED
    BY <1>1, <2>1, <2>2, <2>3, <2>4, <2>5 DEF PageStep
<1>2. ASSUME NEW m \in Parts, PartStep(m) PROVE AccountedInv'
  <2>f. UNCHANGED <<mode, cur, fin, queue>>
    BY <1>2, PartFrame DEF queueVars
  <2>1. CASE WriteChunk(m)
    <3>1. /\ written[m] < idx[m] /\ written[m] \in Nat /\ idx[m] > 0
          /\ chunks' = [chunks EXCEPT ![m] = @ \cup {written[m]}]
          /\ saved' = [saved EXCEPT ![m] = @ \cup {written[m]}]
          /\ written' = [written EXCEPT ![m] = @ + 1] /\ meta' = meta
      BY <2>1, <1>t DEF WriteChunk, WriteDue, TypeOK
    <3>2. mode["page"] \in {"recording", "stopping"}
      <4>1. mode["page"] \notin {"idle", "starting", "closed"}
        BY <1>t, <3>1 DEF PageInv, TypeOK
      <4>2. mode["page"] \notin {"uploading", "confirmed", "done", "error"}
        BY <1>t, <3>1 DEF CountInv, Quiet, TypeOK
      <4>3. mode["page"] \in PageModes
        BY <1>t, Names DEF TypeOK
      <4>4. QED
        BY <4>1, <4>2, <4>3 DEF AccountedInv, PageModes
    <3>3. Stalled \/ m = fin \/ m >= cur
      <4>1. ~Quiet(m)
        BY <3>1 DEF Quiet
      <4>2. m \in Nat /\ cur \in Nat
        BY <1>t, Names DEF TypeOK
      <4>3. QED
        BY <1>t, <3>2, <4>1, <4>2 DEF CountInv
    <3>4. mode["recovery"] = "idle"
      BY <1>t, <3>2 DEF RecoveryInv
    <3>5. \A n \in Parts : n # m => chunks'[n] = chunks[n] /\ saved'[n] = saved[n] /\ written'[n] = written[n]
      BY <3>1, <1>t DEF TypeOK
    <3>6. saved'[m] = 0..(written'[m] - 1)
      <4>1. saved[m] = 0..(written[m] - 1)
        BY <3>2 DEF AccountedInv
      <4>2. saved'[m] = saved[m] \cup {written[m]} /\ written'[m] = written[m] + 1
        BY <3>1, <1>t DEF TypeOK
      <4>3. QED
        BY <3>1, <4>1, <4>2, NextChunk
    <3>7. meta # NoMeta
      BY <3>2 DEF AccountedInv
    <3>8. Stalled => Stalled'
      BY <1>s, <2>1, <2>f DEF WriteChunk
    <3>9. QED
      BY <2>f, <3>1, <3>2, <3>3, <3>4, <3>5, <3>6, <3>7, <3>8 DEF AccountedInv
  <2>2. CASE ~WriteChunk(m)
    <3>1. UNCHANGED <<chunks, saved, written>> /\ (meta' = meta \/ meta' = m)
      BY <1>2, <2>2 DEF PartStep, DataAvailable, TracksEnded, RecorderStopped, WriteFails, SaveMeta, localVars
    <3>2. \A n \in Parts : rec[n] = "none" => rec'[n] = "none"
      BY <1>2, <1>t DEF PartStep, DataAvailable, TracksEnded, RecorderStopped, WriteChunk,
         WriteFails, SaveMeta, TypeOK
    <3>3. Stalled => Stalled'
      BY <1>s, <2>f, <3>2
    <3>4. QED
      BY <2>f, <3>1, <3>3, <1>l, <1>k, Names DEF AccountedInv
  <2>3. QED
    BY <2>1, <2>2
<1>3. ASSUME NEW a \in Agents, UploadStep(a) PROVE AccountedInv'
  <2>1. UNCHANGED <<saved, written, mode, cur, rec, fin, meta>>
    BY <1>3, UploadFrame DEF partVars
  <2>s. Stalled => Stalled'
    BY <1>s, <2>1
  <2>2. \/ UNCHANGED <<chunks, queue>>
        \/ /\ queue' = [queue EXCEPT ![a] = @ \ {Head(a)}]
           /\ chunks' = [chunks EXCEPT ![Head(a)] = {}] \/ (chunks' = chunks /\ chunks[Head(a)] = {})
    BY <1>3 DEF UploadStep, NothingLocal, Prepare, GetLink, LinkLost, SkipVerified, Put,
       PutLost, Complete, CompleteLost, RequestFails, Remove, RemoveFails, Shift, localVars
  <2>3. \A n \in Parts : chunks'[n] # {} => chunks[n] # {}
    BY <2>2, <1>t DEF TypeOK
  <2>4. \A b \in Agents, n \in Parts : n \in queue[b] /\ chunks'[n] # {} => n \in queue'[b]
    BY <2>2, <1>t DEF TypeOK
  <2>5. \A b \in Agents : queue[b] = {} => queue'[b] = {}
    BY <2>2, <1>t DEF TypeOK
  <2>6. QED
    BY <2>1, <2>s, <2>3, <2>4, <2>5, <1>l, <1>k, Names DEF AccountedInv
<1>4. ASSUME NEW a \in Agents, FinishStep(a) PROVE AccountedInv'
  <2>f. UNCHANGED <<chunks, saved, written, cur, rec, fin, queue>>
    BY <1>4, FinishFrame DEF partVars, queueVars
  <2>s. Stalled => Stalled'
    BY <1>s, <2>f
  <2>1. CASE Finish(a)
    BY <2>1, <2>f, <2>s, <1>l, <1>k, <1>t, Names DEF Finish, Enter, QueueIdle, AccountedInv, TypeOK, localVars
  <2>2. CASE FinishLost(a)
    BY <2>2, <2>f, <2>s, <1>l, <1>k DEF FinishLost, AccountedInv, localVars
  <2>3. CASE FinishRefused(a)
    BY <2>3, <2>f, <2>s, <1>l, <1>k, <1>t, Names DEF FinishRefused, Enter, QueueIdle, AccountedInv, TypeOK, localVars
  <2>4. CASE ForgetMeta(a)
    <3>1. Listed = {}
      BY <2>4, <1>l, Names DEF ForgetMeta, AccountedInv
    <3>2. /\ mode'["page"] \in {"done", mode["page"]}
          /\ mode'["recovery"] \in {"idle", mode["recovery"]}
          /\ mode["page"] \in {"recording", "stopping"} => mode["recovery"] = "idle" /\ a = "recovery"
          /\ mode'["page"] = "done" => mode["page"] \in {"confirmed", "done"}
          /\ mode[a] = "confirmed"
      BY <2>4, <1>t, Names DEF ForgetMeta, Enter, RecoveryInv, TypeOK
    <3>3. mode'["page"] \notin {"recording", "stopping"}
      BY <3>2
    <3>4. \A n \in Parts : chunks[n] = {}
      BY <3>1, <1>l
    <3>5. mode["page"] = "closed" => mode'["page"] = "closed"
      BY <1>4, ClosedStays, <1>t
    <3>6. QED
      BY <2>f, <2>s, <3>2, <3>3, <3>4, <3>5, <1>k DEF AccountedInv
  <2>5. ~ForgetFails(a)
    BY DEF ForgetFails
  <2>6. QED
    BY <1>4, <2>1, <2>2, <2>3, <2>4, <2>5 DEF FinishStep
<1>5. CASE Environment
  <2>s. ASSUME UNCHANGED <<cur, rec>> PROVE Stalled => Stalled'
    BY <1>s, <2>s
  <2>1. CASE PageCrashes \/ LeaveBrokenPage
    BY <2>1, <1>l, <1>k, <1>t, Names DEF PageCrashes, LeaveBrokenPage, LosePage, DropQueue, Enter,
       AccountedInv, TypeOK, localVars
  <2>2. CASE StartRecovery
    <3>1. \A n \in Parts : chunks[n] # {} => n \in queue'["recovery"]
      BY <2>2, <1>t, Names DEF StartRecovery, Listed, TypeOK
    <3>2. QED
      BY <2>s, <2>2, <3>1, <1>l, <1>k, <1>t, Names DEF StartRecovery, Enter, AccountedInv, TypeOK, localVars, partVars
  <2>3. CASE RecoveryCrashes
    BY <2>s, <2>3, <1>l, <1>k, <1>t, Names DEF RecoveryCrashes, DropQueue, Enter, AccountedInv, TypeOK, localVars, partVars
  <2>4. CASE LatePut \/ DeleteRecording
    BY <2>s, <2>4, <1>l, <1>k DEF LatePut, DeleteRecording, AccountedInv, localVars, partVars, queueVars
  <2>5. QED
    BY <1>5, <2>1, <2>2, <2>3, <2>4 DEF Environment
<1>6. CASE UNCHANGED vars
  BY <1>6, <1>s, <1>l, <1>k DEF vars, AccountedInv, localVars, partVars, queueVars
<1>7. QED
  BY <1>1, <1>2, <1>3, <1>4, <1>5, <1>6 DEF Next

\* A page that goes away needs nothing but what is on the device.
LEMMA AccountedGone ==
  ASSUME IInv, AccountedInv, PageGoes
  PROVE  AccountedInv'
<1>1. /\ UNCHANGED <<chunks, meta>>
      /\ mode'["page"] = "closed" /\ mode'["recovery"] = mode["recovery"]
      /\ queue'["recovery"] = queue["recovery"]
  BY Names DEF PageGoes, LosePage, DropQueue, Enter, localVars, IInv, TypeOK
<1>2. QED
  BY <1>1 DEF AccountedInv, Listed

\* An engine that has stopped stays as it is until its page goes away.
LEMMA StoppedStays ==
  ASSUME IInv, [Next]_vars, mode["page"] \in {"done", "error"}
  PROVE  mode'["page"] \in {mode["page"], "closed"}
<1>t. TypeOK /\ OrderInv
  BY DEF IInv, UploadInv
<1>1. CASE PageStep
  <2>1. fin = NoPart
    BY <1>t DEF OrderInv
  <2>2. QED
    BY <1>1, <1>t, <2>1, Names DEF PageStep, StartRecording, StartLost, StartFails,
       BeginRecording, Rotate, RotateFails, Stopping, MayRotate, StopClicked, StopCurrentPart,
       FinishEmptyPart, FinishPart, ClosePartFails
<1>2. ASSUME NEW m \in Parts, PartStep(m) PROVE mode' = mode
  BY <1>2, PartFrame
<1>3. ASSUME NEW a \in Agents, UploadStep(a) PROVE mode' = mode
  BY <1>3, UploadFrame
<1>4. ASSUME NEW a \in Agents, FinishStep(a) PROVE mode'["page"] = mode["page"]
  BY <1>4, <1>t, FinishControl, Names
<1>5. CASE Environment
  BY <1>5, <1>t, Names DEF Environment, PageCrashes, LeaveBrokenPage, LosePage, StartRecovery,
     RecoveryCrashes, LatePut, DeleteRecording, Enter, TypeOK
<1>6. CASE UNCHANGED vars
  BY <1>6 DEF vars
<1>7. QED
  BY <1>1, <1>2, <1>3, <1>4, <1>5, <1>6 DEF Next

\* ButtonInv is preserved.
LEMMA ButtonStep ==
  ASSUME RoomInv, [RoomNext]_allVars
  PROVE  ButtonInv'
<1>t. TypeOK /\ ButtonInv
  BY DEF RoomInv, IInv
<1>1. CASE Room(Next)
  <2>1. [Next]_vars /\ at' = IF mode'["page"] = "closed" THEN [b \in Buttons |-> "idle"] ELSE at
    BY <1>1 DEF Room, Controller
  <2>2. mode["page"] \in {"done", "error"} => mode'["page"] \in {mode["page"], "closed"}
    BY <2>1, StoppedStays DEF RoomInv
  <2>3. QED
    BY <1>t, <2>1, <2>2 DEF ButtonInv
<1>2. ASSUME NEW b \in Buttons, Press(b) PROVE ButtonInv'
  <2>1. CASE recording /\ mode["page"] = "recording"
    BY <1>2, <1>t, <2>1 DEF Press, ButtonInv
  <2>2. CASE ~(recording /\ mode["page"] = "recording")
    BY <1>2, <1>t, <2>2 DEF Press, ButtonInv, vars
  <2>3. QED
    BY <2>1, <2>2
<1>3. ASSUME NEW b \in Buttons, Returns(b) PROVE ButtonInv'
  BY <1>3, <1>t DEF Returns, Resolved, ButtonInv, vars
<1>4. CASE Leave
  BY <1>4, <1>t, Names DEF Leave, Controller, LosePage, Enter, ButtonInv, TypeOK
<1>5. CASE End
  BY <1>5, <1>t DEF End, ButtonInv, vars
<1>6. CASE EndedElsewhere \/ UNCHANGED allVars
  BY <1>6, <1>t DEF EndedElsewhere, ButtonInv, allVars, vars
<1>7. QED
  BY <1>1, <1>2, <1>3, <1>4, <1>5, <1>6 DEF RoomNext

LEMMA RoomInvAlways ==
  ASSUME ~StoreMayFail, ~SharedTab
  PROVE  RoomSpec => []RoomInv
<1>1. RoomInit => RoomInv
  <2>1. SUFFICES ASSUME RoomInit PROVE RoomInv
    OBVIOUS
  <2>2. IInv
    BY <2>1, TypeInit, UploadInvInit, VerdictInvInit DEF RoomInit, IInv
  <2>3. AccountedInv
    BY <2>1, Names DEF RoomInit, Init, AccountedInv, Listed
  <2>4. ButtonInv
    BY <2>1 DEF RoomInit, ButtonInv
  <2>5. QED
    BY <2>2, <2>3, <2>4 DEF RoomInv
<1>2. RoomInv /\ [RoomNext]_allVars => RoomInv'
  <2>1. SUFFICES ASSUME RoomInv, [RoomNext]_allVars PROVE RoomInv'
    OBVIOUS
  <2>2. IInv /\ AccountedInv
    BY <2>1 DEF RoomInv
  <2>3. CASE [Next]_vars
    <3>1. IInv'
      BY <2>2, <2>3, TypeStep, UploadInvStep, VerdictInvStep DEF IInv
    <3>2. AccountedInv'
      BY <2>2, <2>3, AccountedStep
    <3>3. QED
      BY <2>1, <3>1, <3>2, ButtonStep DEF RoomInv
  <2>4. CASE PageGoes
    BY <2>1, <2>2, <2>4, PageGoesKeeps, AccountedGone, ButtonStep DEF RoomInv
  <2>5. QED
    BY <2>1, <2>3, <2>4, RoomSteps
<1>3. QED
  BY <1>1, <1>2, PTL DEF RoomSpec

-----------------------------------------------------------------------------

\* In the room page, with its buttons, a page that navigates away and a meeting
\* that ends, every chunk that was stored on the device is there or in the file
\* of its part.
THEOREM RoomLosesNoChunk ==
  ASSUME ~SharedTab
  PROVE  RoomSpec => []NoChunkLost
<1>1. IInv => NoChunkLost
  BY DEF IInv, UploadInv, WholeInv, NoChunkLost, Kept
<1>2. QED
  BY <1>1, EngineInRoom, PTL

\* In the room page, too, a verified file is every chunk the device stored of
\* that part.
THEOREM RoomVerifiesWholeParts ==
  ASSUME ~SharedTab
  PROVE  RoomSpec => []VerifiedIsWhole
<1>1. IInv => VerifiedIsWhole
  BY DEF IInv, UploadInv, WholeInv, VerifiedIsWhole
<1>2. QED
  BY <1>1, EngineInRoom, PTL

\* A recording that the room page brings to "ready" has every part that holds a
\* stored chunk.
THEOREM RoomReadyIsComplete ==
  ASSUME ~SharedTab
  PROVE  RoomSpec => []ReadyIsComplete
<1>1. IInv => ReadyIsComplete
  BY DEF IInv, VerdictInv, ReadyInv, ReadyIsComplete
<1>2. QED
  BY <1>1, EngineInRoom, PTL

\* In the room page, too, a failed recording has nothing on the device.
THEOREM RoomFailsOnlyEmpty ==
  ASSUME ~SharedTab
  PROVE  RoomSpec => []FailedIsEmpty
<1>1. IInv => FailedIsEmpty
  BY DEF IInv, VerdictInv
<1>2. QED
  BY <1>1, EngineInRoom, PTL

\* A page that goes away changes nothing that DurableRecording sees.
LEMMA PageGoesUnseen ==
  ASSUME PageGoes
  PROVE  UNCHANGED Durable!vars
<1>1. UNCHANGED <<status, row, object, chunks>>
  BY DEF PageGoes, LosePage, DropQueue, serverVars, localVars
<1>2. QED
  BY <1>1, UnseenFrame

\* The whole room page implements DurableRecording: no press of a button, no
\* navigation and no end of the meeting loses what was kept, archives half a
\* part or takes "ready" back.
THEOREM RoomIsDurable ==
  ASSUME ~SharedTab
  PROVE  RoomSpec => ImplementsDurable
<1>1. RoomInit => Durable!Init
  BY DurableInit DEF RoomInit
<1>2. IInv /\ IInv' /\ [RoomNext]_allVars => [Durable!Next]_(Durable!vars)
  BY RoomSteps, DurableStep, PageGoesUnseen
<1>3. QED
  BY <1>1, <1>2, EngineInRoom, PTL DEF RoomSpec, ImplementsDurable, Durable!Spec

\* Chunks that a page leaves on the device are never orphaned: whatever
\* buttons, rotations, retries and crashes came in between, the meta row that
\* findUnfinished() looks for is still there.
THEOREM LeftoversAreFound ==
  ASSUME ~StoreMayFail, ~SharedTab
  PROVE  RoomSpec => []ChunksAreFindable
<1>1. RoomInv => ChunksAreFindable
  BY DEF RoomInv, AccountedInv, ChunksAreFindable
<1>2. QED
  BY <1>1, RoomInvAlways, PTL

\* What the device has forgotten is on the server: when the meta row is gone,
\* and with it the only trace of the recording on this device, every chunk that
\* was stored is in the verified file of its part, or the recording was deleted.
THEOREM ForgottenIsArchived ==
  ASSUME ~StoreMayFail, ~SharedTab
  PROVE  RoomSpec => [](meta = NoMeta /\ status # "deleted" =>
                          \A n \in Parts : saved[n] # {} =>
                            row[n] = "verified" /\ object[n] = saved[n])
<1>1. RoomInv /\ meta = NoMeta /\ status # "deleted" =>
        \A n \in Parts : saved[n] # {} => row[n] = "verified" /\ object[n] = saved[n]
  BY DEF RoomInv, AccountedInv, Listed, IInv, UploadInv, WholeInv
<1>2. QED
  BY <1>1, RoomInvAlways, PTL

\* The button that stopped the recording goes on, to another page or to the end
\* of the meeting, when nothing of it is left on the device.
THEOREM StopperMayGo ==
  ASSUME ~StoreMayFail, ~SharedTab
  PROVE  RoomSpec => []StopperLeavesNothing
<1>1. RoomInv => StopperLeavesNothing
  BY DEF RoomInv, AccountedInv, ButtonInv, StopperLeavesNothing, Listed
<1>2. QED
  BY <1>1, RoomInvAlways, PTL

\* A recording the page calls done and the server "ready" has every chunk that
\* the MediaRecorder handed over in its files.
THEOREM ReadyMissesNothing ==
  ASSUME ~StoreMayFail, ~SharedTab
  PROVE  RoomSpec => []ReadyHasEveryChunk
<1>1. ASSUME RoomInv, mode["page"] = "done", status = "ready", NEW n \in Parts
      PROVE  SizeOf(object[n]) = idx[n]
  <2>1. written[n] = idx[n] /\ idx[n] \in Nat
    BY <1>1, BoundsAssumption DEF RoomInv, IInv, VerdictInv, CountInv, Quiet, TypeOK
  <2>2. saved[n] = 0..(idx[n] - 1)
    BY <1>1, <2>1 DEF RoomInv, AccountedInv
  <2>3. object[n] = saved[n]
    BY <1>1 DEF RoomInv, IInv, UploadInv, WholeInv, VerdictInv, ReadyInv
  <2>4. Cardinality(0..(idx[n] - 1)) = idx[n]
    BY <2>1, FS_Interval
  <2>5. QED
    BY <2>2, <2>3, <2>4 DEF SizeOf
<1>2. RoomInv => ReadyHasEveryChunk
  BY <1>1 DEF ReadyHasEveryChunk
<1>3. QED
  BY <1>2, RoomInvAlways, PTL
=============================================================================
