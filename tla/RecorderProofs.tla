--------------------------- MODULE RecorderProofs ---------------------------
(***************************************************************************)
(* Theorems about Recorder, for every number of parts, chunks and crashes. *)
(***************************************************************************)
EXTENDS Recorder, FiniteSetTheorems, WellFoundedInduction, TLAPS

\* A nonempty set of naturals has a least element.
LEMMA NatHasMinimum ==
  ASSUME NEW S \in SUBSET Nat, S # {}
  PROVE  \E n \in S : \A m \in S : n <= m
<1>1. PICK n \in S : \A m \in S : ~(<<m, n>> \in OpToRel(<, Nat))
  BY NatLessThanWellFounded, WFMin, Zenon
<1>2. \A m \in S : ~(m < n)
  BY <1>1 DEF OpToRel
<1>3. QED
  BY <1>2

\* The head item of a queue is one of its items.
LEMMA HeadInQueue ==
  ASSUME TypeOK
  PROVE  \A a \in Agents : queue[a] # {} => Head(a) \in queue[a] /\ Head(a) \in Parts
<1>1. SUFFICES ASSUME NEW a \in Agents, queue[a] # {}
               PROVE  Head(a) \in queue[a] /\ Head(a) \in Parts
  OBVIOUS
<1>2. queue[a] \in SUBSET Parts /\ Parts \subseteq Nat
  BY BoundsAssumption DEF TypeOK, Parts
<1>3. \E n \in queue[a] : \A m \in queue[a] : n <= m
  BY <1>1, <1>2, NatHasMinimum
<1>4. QED
  BY <1>2, <1>3 DEF Head, Least

\* The server counts the chunks of a file in a natural number.
LEMMA SizeType ==
  ASSUME NEW data \in SUBSET Idx
  PROVE  SizeOf(data) \in Nat
<1>1. IsFiniteSet(Idx)
  BY FS_Interval, BoundsAssumption DEF Idx
<1>2. IsFiniteSet(data)
  BY <1>1, FS_Subset
<1>3. QED
  BY <1>2, FS_CardinalityType DEF SizeOf

\* The initial state is typed.
LEMMA TypeInit == Init => TypeOK
  BY BoundsAssumption
  DEF Init, TypeOK, Parts, Idx, Agents, NoPart, NoMeta, Puts, Rows, PageModes, Outcomes

\* Every action of the page, the queues, the server and the world keeps the types.
LEMMA TypeStep == TypeOK /\ [Next]_vars => TypeOK'
<1> SUFFICES ASSUME TypeOK, [Next]_vars PROVE TypeOK'
  OBVIOUS
<1>a. "page" \in Agents /\ "recovery" \in Agents
  BY DEF Agents
<1>b. NoPart \in Nat /\ Parts \subseteq 0..MaxParts /\ NoPart \notin Parts /\ NoPart \in 0..MaxParts
  BY BoundsAssumption DEF NoPart, Parts
<1> USE <1>a, <1>b DEF TypeOK, vars, serverVars, bucketVars, localVars,
      partVars, queueVars, NoMeta, Rows, PageModes, Outcomes
<1>1. CASE StartRecording
  BY <1>1
  DEF StartRecording, Enter
<1>2. CASE StartLost
  BY <1>2
  DEF StartLost, Enter
<1>3. CASE StartFails
  <2>1. 0 \in 0..MaxParts
    BY BoundsAssumption
  <2>2. QED
    BY <1>3, <2>1 DEF StartFails, Enter
<1>4. CASE BeginRecording
  <2>1. 0 \in 0..MaxParts /\ 1 \in Parts
    BY BoundsAssumption DEF Parts
  <2>2. QED
    BY <1>4, <2>1 DEF BeginRecording, Enter
<1>5. ASSUME NEW n \in Parts, TracksEnded(n) PROVE TypeOK'
  BY <1>5
  DEF TracksEnded
<1>6. CASE Rotate \/ RotateFails
  <2>1. cur + 1 \in Parts
    BY <1>6, BoundsAssumption DEF Rotate, RotateFails, MayRotate, Parts, NoPart
  <2>2. CASE Rotate
    BY <2>2, <2>1 DEF Rotate, Stopping
  <2>3. CASE RotateFails
    BY <2>3, <2>1 DEF RotateFails, Stopping
  <2>4. QED
    BY <1>6, <2>2, <2>3
<1>7. CASE StopClicked
  BY <1>7
  DEF StopClicked, Enter
<1>8. CASE StopCurrentPart
  BY <1>8
  DEF StopCurrentPart, Stopping
<1>9. CASE FinishEmptyPart
  BY <1>9
  DEF FinishEmptyPart, FinishReturns
<1>10. CASE FinishPart
  BY <1>10
  DEF FinishPart, FinishReturns
<1>11. CASE ClosePartFails
  BY <1>11
  DEF ClosePartFails
<1>12. CASE PageCrashes
  <2>1. late' \subseteq Puts
    BY <1>12, HeadInQueue DEF PageCrashes, OrphanPut, At, Puts
  <2>2. 0 \in 0..MaxParts /\ 0 \in 0..MaxChunks /\ crashes' \in 0..MaxCrashes
    BY <1>12, BoundsAssumption DEF PageCrashes
  <2>3. QED
    BY <1>12, <2>1, <2>2 DEF PageCrashes, LosePage, DropQueue, Enter
<1>13. CASE LeaveBrokenPage
  <2>1. late' \subseteq Puts
    BY <1>13, HeadInQueue DEF LeaveBrokenPage, OrphanPut, At, Puts
  <2>2. 0 \in 0..MaxParts /\ 0 \in 0..MaxChunks /\ crashes' \in 0..MaxCrashes
    BY <1>13, BoundsAssumption DEF LeaveBrokenPage
  <2>3. QED
    BY <1>13, <2>1, <2>2 DEF LeaveBrokenPage, LosePage, DropQueue, Enter
<1>14. CASE StartRecovery
  <2>1. Listed \subseteq Parts /\ (Unfinished => meta \in 0..MaxParts)
    BY DEF Listed, Unfinished
  <2>2. expect' \in [Agents -> 0..MaxParts]
    BY <1>14, <2>1 DEF StartRecovery, PartsKnown
  <2>3. QED
    BY <1>14, <2>1, <2>2 DEF StartRecovery, Enter
<1>15. CASE RecoveryCrashes
  <2>1. late' \subseteq Puts
    BY <1>15, HeadInQueue DEF RecoveryCrashes, OrphanPut, At, Puts
  <2>2. 0 \in 0..MaxParts /\ 0 \in 0..MaxChunks /\ crashes' \in 0..MaxCrashes
    BY <1>15, BoundsAssumption DEF RecoveryCrashes
  <2>3. QED
    BY <1>15, <2>1, <2>2 DEF RecoveryCrashes, DropQueue, Enter
<1>16. CASE LatePut
  BY <1>16
  DEF LatePut, Puts
<1>17. CASE DeleteRecording
  BY <1>17
  DEF DeleteRecording
<1>18. ASSUME NEW n \in Parts, DataAvailable(n) PROVE TypeOK'
  <2>1. idx[n] + 1 \in 0..MaxChunks
    BY <1>18, BoundsAssumption DEF DataAvailable
  <2>2. QED
    BY <1>18, <2>1 DEF DataAvailable
<1>19. ASSUME NEW n \in Parts, RecorderStopped(n) PROVE TypeOK'
  BY <1>19
  DEF RecorderStopped
<1>20. ASSUME NEW n \in Parts, WriteChunk(n) PROVE TypeOK'
  <2>1. written[n] \in Idx /\ written[n] + 1 \in 0..MaxChunks
    BY <1>20, BoundsAssumption DEF WriteChunk, WriteDue, Idx
  <2>2. QED
    BY <1>20, <2>1 DEF WriteChunk
<1>21. ASSUME NEW n \in Parts, WriteFails(n) PROVE TypeOK'
  <2>1. written[n] + 1 \in 0..MaxChunks
    BY <1>21, BoundsAssumption DEF WriteFails, WriteDue
  <2>2. QED
    BY <1>21, <2>1 DEF WriteFails
<1>22. ASSUME NEW n \in Parts, SaveMeta(n) PROVE TypeOK'
  BY <1>22, BoundsAssumption
  DEF SaveMeta, Parts, Idx
<1>23. ASSUME NEW a \in Agents, NothingLocal(a) PROVE TypeOK'
  BY <1>23, HeadInQueue
  DEF NothingLocal, At, Shift, Goto
<1>24. ASSUME NEW a \in Agents, Prepare(a) PROVE TypeOK'
  BY <1>24, HeadInQueue
  DEF Prepare, At, Goto
<1>25. ASSUME NEW a \in Agents, GetLink(a) PROVE TypeOK'
  BY <1>25, HeadInQueue
  DEF GetLink, At, Goto, UploadUrl
<1>26. ASSUME NEW a \in Agents, LinkLost(a) PROVE TypeOK'
  BY <1>26, HeadInQueue
  DEF LinkLost, At, Goto, UploadUrl
<1>27. ASSUME NEW a \in Agents, SkipVerified(a) PROVE TypeOK'
  BY <1>27, HeadInQueue
  DEF SkipVerified, At, Goto
<1>28. ASSUME NEW a \in Agents, Put(a) PROVE TypeOK'
  BY <1>28, HeadInQueue
  DEF Put, At, Goto
<1>29. ASSUME NEW a \in Agents, PutLost(a) PROVE TypeOK'
  BY <1>29, HeadInQueue
  DEF PutLost, At, Goto, Puts
<1>30. ASSUME NEW a \in Agents, Complete(a) PROVE TypeOK'
  BY <1>30, HeadInQueue, SizeType
  DEF Complete, At, Goto, CompletePart
<1>31. ASSUME NEW a \in Agents, CompleteLost(a) PROVE TypeOK'
  BY <1>31, HeadInQueue, SizeType
  DEF CompleteLost, At, Goto, CompletePart
<1>32. ASSUME NEW a \in Agents, RequestFails(a) PROVE TypeOK'
  BY <1>32, HeadInQueue
  DEF RequestFails, At, Goto
<1>33. ASSUME NEW a \in Agents, Remove(a) PROVE TypeOK'
  BY <1>33, HeadInQueue
  DEF Remove, At, Shift, Goto
<1>34. ASSUME NEW a \in Agents, RemoveFails(a) PROVE TypeOK'
  BY <1>34, HeadInQueue
  DEF RemoveFails, At, Goto
<1>35. ASSUME NEW a \in Agents, Finish(a) PROVE TypeOK'
  BY <1>35
  DEF Finish, Enter, Verdict
<1>36. ASSUME NEW a \in Agents, FinishLost(a) PROVE TypeOK'
  BY <1>36
  DEF FinishLost, Verdict
<1>37. ASSUME NEW a \in Agents, FinishRefused(a) PROVE TypeOK'
  BY <1>37
  DEF FinishRefused, Enter
<1>38. ASSUME NEW a \in Agents, ForgetMeta(a) PROVE TypeOK'
  BY <1>38
  DEF ForgetMeta, Enter
<1>39. ASSUME NEW a \in Agents, ForgetFails(a) PROVE TypeOK'
  BY <1>39
  DEF ForgetFails, Enter
<1>40. CASE UNCHANGED vars
  BY <1>40
<1>41. QED
  BY <1>1, <1>2, <1>3, <1>4, <1>5, <1>6, <1>7, <1>8, <1>9, <1>10, <1>11, <1>12, <1>13, <1>14, <1>15, <1>16, <1>17, <1>18, <1>19, <1>20, <1>21, <1>22, <1>23, <1>24, <1>25, <1>26, <1>27, <1>28, <1>29, <1>30, <1>31, <1>32, <1>33, <1>34, <1>35, <1>36, <1>37, <1>38, <1>39, <1>40 DEF Next, PageStep, PartStep, UploadStep, FinishStep, Environment

\* Types hold in every reachable state: no counter leaves its bound, no file
\* or blob holds anything but chunks of its part.
THEOREM TypeCorrect == Spec => []TypeOK
<1>1. QED
  BY TypeInit, TypeStep, PTL DEF Spec

-----------------------------------------------------------------------------
(* What each group of actions leaves alone.                                *)

\* The page's own steps do not touch the server's parts, storage or stored chunks.
LEMMA PageFrame ==
  PageStep => UNCHANGED <<row, size, bucketVars, chunks, saved, written, metaDue, step, blob>>
  BY DEF PageStep, StartRecording, StartLost, StartFails, BeginRecording,
     Rotate, RotateFails, Stopping, StopClicked, StopCurrentPart, FinishEmptyPart,
     FinishPart, ClosePartFails, localVars, partVars, queueVars, serverVars, bucketVars

\* MediaRecorder events and local writes do not touch server, queue or mode.
LEMMA PartFrame ==
  ASSUME NEW n \in Parts, PartStep(n)
  PROVE  UNCHANGED <<serverVars, bucketVars, mode, cur, fin, queueVars, expect>>
  BY DEF PartStep, DataAvailable, TracksEnded, RecorderStopped, WriteChunk, WriteFails,
     SaveMeta, localVars, partVars, queueVars, serverVars, bucketVars

\* A queue does not touch the recorder, its mode or the recording's status.
LEMMA UploadFrame ==
  ASSUME NEW a \in Agents, UploadStep(a)
  PROVE  UNCHANGED <<status, meta, saved, mode, partVars, expect>>
  BY DEF UploadStep, NothingLocal, Prepare, GetLink, LinkLost, SkipVerified, Put,
     PutLost, Complete, CompleteLost, RequestFails, Remove, RemoveFails,
     localVars, partVars, queueVars, serverVars, bucketVars

\* finish() and deleteMeta() touch the status, the meta row and the mode only.
LEMMA FinishFrame ==
  ASSUME NEW a \in Agents, FinishStep(a)
  PROVE  UNCHANGED <<row, size, bucketVars, chunks, saved, partVars, queueVars>>
  BY DEF FinishStep, Finish, FinishLost, FinishRefused, ForgetMeta, ForgetFails,
     localVars, partVars, queueVars, serverVars, bucketVars

\* finish() needs a recording and gives it a verdict; the page moves on from
\* "uploading" and never back to a state that records.
LEMMA FinishControl ==
  ASSUME TypeOK, NEW a \in Agents, FinishStep(a)
  PROVE  /\ status' = status \/ (status \in Outcomes /\ status' \in Outcomes)
         /\ \A b \in Agents : b # a => mode'[b] = mode[b]
         /\ mode'[a] = mode[a] \/ mode[a] \in {"uploading", "confirmed"}
         /\ a = "page" => mode'[a] \in {"uploading", "confirmed", "error", "done"}
         /\ a = "recovery" => mode'[a] \in {"uploading", "confirmed", "idle"}
         /\ queue[a] = {} \/ mode[a] = "confirmed"
  BY DEF FinishStep, Finish, FinishLost, FinishRefused, ForgetMeta, ForgetFails,
     Exists, Verdict, Outcomes, Enter, QueueIdle, serverVars, TypeOK, Agents

-----------------------------------------------------------------------------

\* PageInv is preserved: a part's recorder is made once, in ascending order,
\* by the page that holds the recording.
LEMMA PageInvStep == TypeOK /\ PageInv /\ OrderInv /\ [Next]_vars => PageInv'
<1> SUFFICES ASSUME TypeOK, PageInv, OrderInv, [Next]_vars PROVE PageInv'
  OBVIOUS
<1>a. /\ Parts \subseteq Nat \ {0} /\ 1 \in Parts
      /\ "page" \in Agents /\ "recovery" \in Agents
  BY BoundsAssumption DEF Parts, Agents
<1>1. CASE PageStep
  <2> USE <1>a DEF PageInv, NoPart
  <2>1. CASE StartRecording \/ StartLost \/ StartFails
    BY <2>1 DEF StartRecording, StartLost, StartFails, Enter, TypeOK, partVars, serverVars
  <2>2. CASE BeginRecording
    BY <2>2 DEF BeginRecording, Enter, TypeOK, partVars, serverVars
  <2>3. CASE Rotate
    BY <2>3 DEF Rotate, MayRotate, Stopping, TypeOK, partVars, serverVars
  <2>4. CASE RotateFails
    BY <2>4 DEF RotateFails, MayRotate, Stopping, TypeOK, partVars, serverVars
  <2>5. CASE StopClicked
    BY <2>5 DEF StopClicked, Enter, TypeOK, partVars, serverVars
  <2>6. CASE StopCurrentPart
    BY <2>6 DEF StopCurrentPart, Stopping, TypeOK, partVars, serverVars
  <2>7. CASE FinishEmptyPart \/ FinishPart \/ ClosePartFails
    BY <2>7 DEF FinishEmptyPart, FinishPart, ClosePartFails, FinishReturns, TypeOK, partVars, serverVars
  <2>8. QED
    BY <1>1, <2>1, <2>2, <2>3, <2>4, <2>5, <2>6, <2>7 DEF PageStep
<1>2. ASSUME NEW n \in Parts, PartStep(n) PROVE PageInv'
  <2>1. CASE mode["page"] \in {"idle", "starting", "closed"}
    <3>1. rec[n] = "none" /\ idx[n] = 0 /\ written[n] = 0
      BY <2>1, <1>a DEF PageInv, NoPart, TypeOK
    <3>2. SaveMeta(n)
      BY <1>2, <3>1 DEF PartStep, DataAvailable, TracksEnded, RecorderStopped, WriteChunk, WriteFails,
         WriteDue
    <3>3. QED
      BY <3>2 DEF SaveMeta, PageInv, serverVars
  <2>2. CASE mode["page"] \notin {"idle", "starting", "closed"}
    <3>1. \A m \in Parts : rec'[m] # "none" => rec[m] # "none"
      BY <1>2 DEF PartStep, DataAvailable, TracksEnded, RecorderStopped, WriteChunk, WriteFails, SaveMeta,
         TypeOK
    <3>2. QED
      BY <1>2, <2>2, <3>1, PartFrame DEF PageInv
  <2>3. QED
    BY <2>1, <2>2
<1>3. ASSUME NEW a \in Agents, UploadStep(a) PROVE PageInv'
  BY <1>3, UploadFrame DEF PageInv, partVars
<1>4. ASSUME NEW a \in Agents, FinishStep(a) PROVE PageInv'
  BY <1>4, <1>a, FinishFrame, FinishControl DEF PageInv, partVars, Agents, Outcomes
<1>5. CASE Environment
  <2>1. CASE PageCrashes \/ LeaveBrokenPage
    BY <2>1, <1>a DEF PageCrashes, LeaveBrokenPage, LosePage, Enter, PageInv, TypeOK, serverVars
  <2>2. CASE StartRecovery \/ RecoveryCrashes
    BY <2>2, <1>a DEF StartRecovery, RecoveryCrashes, Enter, PageInv, TypeOK, partVars, serverVars
  <2>3. CASE LatePut \/ DeleteRecording
    BY <2>3, <1>a DEF LatePut, DeleteRecording, Exists, Outcomes, PageInv, partVars, serverVars
  <2>4. QED
    BY <1>5, <2>1, <2>2, <2>3 DEF Environment
<1>6. CASE UNCHANGED vars
  BY <1>6 DEF PageInv, vars, partVars, serverVars
<1>7. QED
  BY <1>1, <1>2, <1>3, <1>4, <1>5, <1>6 DEF Next

\* OrderInv is preserved: one part at a time is finished, behind it all that
\* are queued.
LEMMA OrderInvStep ==
  TypeOK /\ PageInv /\ OrderInv /\ QueueInv /\ [Next]_vars => OrderInv'
<1> SUFFICES ASSUME TypeOK, PageInv, OrderInv, QueueInv, [Next]_vars PROVE OrderInv'
  OBVIOUS
<1>a. /\ Parts \subseteq Nat \ {0} /\ 1 \in Parts
      /\ "page" \in Agents /\ "recovery" \in Agents
  BY BoundsAssumption DEF Parts, Agents
<1>1. CASE PageStep
  <2> USE <1>a DEF OrderInv, NoPart
  <2>1. CASE StartRecording \/ StartLost \/ StartFails
    BY <2>1 DEF StartRecording, StartLost, StartFails, Enter, TypeOK, partVars, queueVars
  <2>2. CASE BeginRecording
    <3>1. queue["page"] = {}
      <4>1. SUFFICES ASSUME NEW n \in queue["page"] PROVE FALSE
        OBVIOUS
      <4>2. n \in Parts /\ Sealed(n) /\ cur = NoPart /\ mode["page"] = "starting"
        BY <2>2, <1>a DEF BeginRecording, QueueInv, PageInv, TypeOK
      <4>3. n <= cur
        BY <4>2 DEF Sealed, PageInv
      <4>4. QED
        BY <4>2, <4>3, <1>a DEF NoPart
    <3>2. QED
      BY <2>2, <3>1 DEF BeginRecording, Enter, TypeOK, queueVars
  <2>3. CASE Rotate
    BY <2>3 DEF Rotate, MayRotate, TypeOK, queueVars
  <2>4. CASE RotateFails
    BY <2>4 DEF RotateFails, MayRotate, TypeOK, queueVars
  <2>5. CASE StopClicked
    BY <2>5 DEF StopClicked, Enter, TypeOK, partVars, queueVars
  <2>6. CASE StopCurrentPart
    BY <2>6 DEF StopCurrentPart, Stopping, TypeOK, queueVars
  <2>7. CASE FinishEmptyPart
    BY <2>7 DEF FinishEmptyPart, FinishReturns, TypeOK, queueVars
  <2>8. CASE FinishPart
    BY <2>8 DEF FinishPart, FinishReturns, TypeOK
  <2>9. CASE ClosePartFails
    BY <2>9 DEF ClosePartFails, TypeOK, queueVars
  <2>10. QED
    BY <1>1, <2>1, <2>2, <2>3, <2>4, <2>5, <2>6, <2>7, <2>8, <2>9 DEF PageStep
<1>2. ASSUME NEW n \in Parts, PartStep(n) PROVE OrderInv'
  BY <1>2, PartFrame DEF OrderInv, queueVars
<1>3. ASSUME NEW a \in Agents, UploadStep(a) PROVE OrderInv'
  <2>1. queue'["page"] \subseteq queue["page"]
    BY <1>3, <1>a DEF UploadStep, NothingLocal, Prepare, GetLink, LinkLost, SkipVerified,
       Put, PutLost, Complete, CompleteLost, RequestFails, Remove, RemoveFails, Shift,
       queueVars, TypeOK
  <2>2. QED
    BY <1>3, <2>1, UploadFrame DEF OrderInv, partVars
<1>4. ASSUME NEW a \in Agents, FinishStep(a) PROVE OrderInv'
  BY <1>4, <1>a, FinishFrame, FinishControl DEF OrderInv, partVars, queueVars, Agents
<1>5. CASE Environment
  <2>1. CASE PageCrashes \/ LeaveBrokenPage
    BY <2>1, <1>a DEF PageCrashes, LeaveBrokenPage, LosePage, Enter, OrderInv, TypeOK
  <2>2. CASE StartRecovery \/ RecoveryCrashes
    <3>1. queue'["page"] = queue["page"] /\ mode'["page"] = mode["page"]
      BY <2>2, <1>a DEF StartRecovery, RecoveryCrashes, DropQueue, Enter, TypeOK
    <3>2. UNCHANGED <<fin, cur>>
      BY <2>2 DEF StartRecovery, RecoveryCrashes, partVars
    <3>3. QED
      BY <3>1, <3>2 DEF OrderInv
  <2>3. CASE LatePut \/ DeleteRecording
    BY <2>3 DEF LatePut, DeleteRecording, OrderInv, partVars, queueVars
  <2>4. QED
    BY <1>5, <2>1, <2>2, <2>3 DEF Environment
<1>6. CASE UNCHANGED vars
  BY <1>6 DEF OrderInv, vars, partVars, queueVars
<1>7. QED
  BY <1>1, <1>2, <1>3, <1>4, <1>5, <1>6 DEF Next

\* A part that is sealed stays sealed: its recorder is never restarted and its
\* number is never used again.
LEMMA SealedStable ==
  ASSUME TypeOK, PageInv, OrderInv, [Next]_vars, NEW n \in Parts, Sealed(n)
  PROVE  Sealed(n)'
<1>a. Parts \subseteq Nat \ {0} /\ "page" \in Agents /\ "recovery" \in Agents
  BY DEF Parts, Agents
<1>1. CASE PageStep
  <2>1. CASE mode["page"] = "closed"
    BY <1>1, <2>1, <1>a DEF PageStep, StartRecording, StartLost, StartFails, BeginRecording,
       Rotate, RotateFails, Stopping, StopClicked, StopCurrentPart, FinishEmptyPart, FinishPart,
       ClosePartFails, PageInv, OrderInv, NoPart, Sealed
  <2>2. CASE mode["page"] # "closed"
    <3>1. rec[n] = "off" /\ written[n] = idx[n] /\ n <= cur
      BY <2>2 DEF Sealed, PageInv
    <3>2. UNCHANGED <<written, idx>>
      BY <1>1 DEF PageStep, StartRecording, StartLost, StartFails, BeginRecording,
         Rotate, RotateFails, Stopping, StopClicked, StopCurrentPart, FinishEmptyPart, FinishPart,
         ClosePartFails, partVars
    <3>3. CASE BeginRecording \/ Rotate
      <4>1. ~BeginRecording
        BY <3>1, <1>a DEF BeginRecording, PageInv, NoPart
      <4>2. Rotate /\ cur + 1 # n /\ cur \in Parts
        BY <3>1, <3>3, <4>1, <1>a DEF Rotate, TypeOK, NoPart
      <4>3. rec'[n] = "off"
        BY <3>1, <4>2 DEF Rotate, Stopping, TypeOK
      <4>4. QED
        BY <3>1, <3>2, <4>3 DEF Sealed
    <3>4. CASE ~(BeginRecording \/ Rotate)
      <4>1. rec'[n] = "off"
        BY <1>1, <3>1, <3>4 DEF PageStep, StartRecording, StartLost, StartFails,
           RotateFails, Stopping, StopClicked, StopCurrentPart, FinishEmptyPart, FinishPart,
           ClosePartFails, partVars, TypeOK
      <4>2. QED
        BY <3>1, <3>2, <4>1 DEF Sealed
    <3>5. QED
      BY <3>3, <3>4
  <2>3. QED
    BY <2>1, <2>2
<1>2. ASSUME NEW m \in Parts, PartStep(m) PROVE Sealed(n)'
  BY <1>2, <1>a, PartFrame
  DEF PartStep, DataAvailable, TracksEnded, RecorderStopped, WriteChunk, WriteFails, SaveMeta, WriteDue,
      Sealed, TypeOK
<1>3. ASSUME NEW a \in Agents, UploadStep(a) PROVE Sealed(n)'
  BY <1>3, UploadFrame DEF Sealed, partVars
<1>4. ASSUME NEW a \in Agents, FinishStep(a) PROVE Sealed(n)'
  BY <1>4, <1>a, FinishFrame, FinishControl DEF Sealed, partVars, Agents
<1>5. CASE Environment
  BY <1>5, <1>a DEF Environment, PageCrashes, LeaveBrokenPage, LosePage, StartRecovery,
     RecoveryCrashes, LatePut, DeleteRecording, Enter, Sealed, TypeOK, partVars
<1>6. CASE UNCHANGED vars
  BY <1>6 DEF Sealed, vars, partVars
<1>7. QED
  BY <1>1, <1>2, <1>3, <1>4, <1>5, <1>6 DEF Next

\* A closed page takes no step of the recording again, and only a recording
\* that has not begun can be dropped by a step of the page.
LEMMA PageClosing ==
  ASSUME TypeOK, PageInv, OrderInv, PageStep
  PROVE  /\ mode["page"] = "closed" => mode' = mode /\ queue' = queue
         /\ mode'["page"] = "closed" /\ mode["page"] # "closed" =>
              mode["page"] \in {"idle", "starting"} /\ queue' = queue
         /\ mode'["recovery"] = mode["recovery"]
<1>a. "page" \in Agents /\ "recovery" \in Agents /\ NoPart = 0
  BY DEF Agents, NoPart
<1>1. CASE StartRecording \/ StartLost \/ StartFails \/ BeginRecording \/ StopClicked
  BY <1>1, <1>a DEF StartRecording, StartLost, StartFails, BeginRecording, StopClicked,
     Enter, TypeOK, queueVars
<1>2. CASE Rotate \/ RotateFails
  BY <1>2, <1>a DEF Rotate, RotateFails, queueVars
<1>3. CASE StopCurrentPart
  BY <1>3, <1>a DEF StopCurrentPart, queueVars
<1>4. CASE FinishEmptyPart \/ FinishPart \/ ClosePartFails
  <2>1. mode["page"] \in {"recording", "stopping"}
    BY <1>4 DEF FinishEmptyPart, FinishPart, ClosePartFails, OrderInv
  <2>2. /\ mode'["page"] \in {"recording", "stopping", "uploading", "stopFailed"}
        /\ mode'["recovery"] = mode["recovery"]
    BY <1>4, <2>1, <1>a DEF FinishEmptyPart, FinishPart, ClosePartFails, FinishReturns, TypeOK
  <2>3. QED
    BY <2>1, <2>2
<1>5. QED
  BY <1>1, <1>2, <1>3, <1>4 DEF PageStep

\* Before the recording has begun nothing is queued.
LEMMA NothingQueuedYet ==
  ASSUME TypeOK, PageInv, QueueInv, mode["page"] \in {"idle", "starting"}
  PROVE  queue["page"] = {}
<1>1. SUFFICES ASSUME NEW n \in queue["page"] PROVE FALSE
  OBVIOUS
<1>2. n \in Parts /\ Sealed(n) /\ cur = NoPart
  BY DEF QueueInv, PageInv, TypeOK, Agents
<1>3. n <= cur
  BY <1>2 DEF Sealed, PageInv
<1>4. QED
  BY <1>2, <1>3, BoundsAssumption DEF NoPart, Parts

\* QueueInv is preserved: finishPart() enqueues a part only when it is sealed,
\* recovery starts only when the page is gone, and a queue goes with its page.
LEMMA QueueInvStep ==
  ASSUME ~SharedTab, TypeOK, PageInv, OrderInv, QueueInv, [Next]_vars
  PROVE  QueueInv'
<1>a. Agents = {"page", "recovery"}
  BY DEF Agents
<1>s. \A n \in Parts : Sealed(n) => Sealed(n)'
  BY SealedStable
<1>q. \A a \in Agents : queue[a] \subseteq Parts
  BY DEF TypeOK
<1>1. CASE PageStep
  <2>1. step' = step /\ blob' = blob
    BY <1>1, PageFrame
  <2>2. /\ queue'["recovery"] = queue["recovery"]
        /\ queue["page"] \subseteq queue'["page"]
        /\ \A n \in queue'["page"] : n \in queue["page"] \/ (n \in Parts /\ Sealed(n))
    BY <1>1, <1>a DEF PageStep, StartRecording, StartLost, StartFails, BeginRecording,
       Rotate, RotateFails, Stopping, StopClicked, StopCurrentPart, FinishEmptyPart, FinishPart,
       ClosePartFails, PartSettled, Sealed, TypeOK, queueVars
  <2>3. mode'["page"] = "closed" => queue'["page"] = {}
    BY <1>1, PageClosing, NothingQueuedYet DEF QueueInv
  <2>4. queue'["recovery"] # {} => mode'["page"] = "closed" /\ mode'["recovery"] = "uploading"
    BY <1>1, <2>2, PageClosing DEF QueueInv
  <2>5. \A a \in Agents : \A n \in queue'[a] : Sealed(n)'
    BY <2>2, <1>a, <1>s, <1>q DEF QueueInv
  <2>6. \A a \in Agents : queue'[a] = {} => queue[a] = {}
    BY <2>2, <1>a
  <2>7. QED
    BY <2>1, <2>3, <2>4, <2>5, <2>6 DEF QueueInv
<1>2. ASSUME NEW n \in Parts, PartStep(n) PROVE QueueInv'
  <2>1. UNCHANGED <<queue, step, blob, mode>>
    BY <1>2, PartFrame DEF queueVars
  <2>2. QED
    BY <2>1, <1>s, <1>q DEF QueueInv
<1>3. ASSUME NEW a \in Agents, UploadStep(a) PROVE QueueInv'
  <2>1. /\ queue[a] # {}
        /\ \A b \in Agents : queue'[b] \subseteq queue[b]
        /\ \A b \in Agents : b # a => queue'[b] = queue[b] /\ step'[b] = step[b] /\ blob'[b] = blob[b]
        /\ queue'[a] = queue[a] \/ (step'[a] = "fetch" /\ blob'[a] = {})
    BY <1>3 DEF UploadStep, NothingLocal, Prepare, GetLink, LinkLost, SkipVerified,
       Put, PutLost, Complete, CompleteLost, RequestFails, Remove, RemoveFails, Shift, Goto, At,
       TypeOK
  <2>2. mode' = mode
    BY <1>3, UploadFrame
  <2>3. \A b \in Agents : \A n \in queue'[b] : Sealed(n)'
    BY <2>1, <1>s, <1>q DEF QueueInv
  <2>4. QED
    BY <2>1, <2>2, <2>3, <1>a DEF QueueInv
<1>4. ASSUME NEW a \in Agents, FinishStep(a) PROVE QueueInv'
  <2>1. UNCHANGED <<queue, step, blob>>
    BY <1>4, FinishFrame DEF queueVars
  <2>2. mode'["page"] = "closed" => mode["page"] = "closed"
    BY <1>4, <1>a, FinishControl
  <2>3. queue["recovery"] # {} => mode' = mode
    <3>1. SUFFICES ASSUME queue["recovery"] # {} PROVE FALSE
      OBVIOUS
    <3>2. mode["page"] = "closed" /\ mode["recovery"] = "uploading"
      BY <3>1 DEF QueueInv
    <3>3. a = "recovery"
      BY <1>4, <3>2, <1>a, FinishControl
    <3>4. QED
      BY <1>4, <3>1, <3>2, <3>3, FinishControl
  <2>4. QED
    BY <2>1, <2>2, <2>3, <1>s, <1>q DEF QueueInv
<1>5. CASE Environment
  <2>1. CASE PageCrashes \/ LeaveBrokenPage
    <3>1. /\ mode'["page"] = "closed" /\ mode'["recovery"] = mode["recovery"]
          /\ queue'["page"] = {} /\ step'["page"] = "fetch" /\ blob'["page"] = {}
          /\ queue'["recovery"] = queue["recovery"]
          /\ step'["recovery"] = step["recovery"] /\ blob'["recovery"] = blob["recovery"]
      BY <2>1, <1>a DEF PageCrashes, LeaveBrokenPage, LosePage, DropQueue, Enter, TypeOK
    <3>2. QED
      BY <3>1, <1>a, <1>s, <1>q DEF QueueInv
  <2>2. CASE StartRecovery
    <3>1. /\ mode["page"] = "closed" /\ mode["recovery"] = "idle"
          /\ mode'["page"] = "closed" /\ mode'["recovery"] = "uploading"
          /\ queue'["page"] = queue["page"] /\ queue'["recovery"] = Listed
          /\ step' = step /\ blob' = blob
      BY <2>2, <1>a DEF StartRecovery, Enter, TypeOK
    <3>2. queue["recovery"] = {}
      BY <3>1 DEF QueueInv
    <3>3. \A n \in Listed : Sealed(n)'
      BY <3>1 DEF Sealed
    <3>4. QED
      BY <3>1, <3>2, <3>3, <1>a, <1>s, <1>q DEF QueueInv
  <2>3. CASE RecoveryCrashes
    <3>1. /\ mode'["page"] = mode["page"]
          /\ queue'["recovery"] = {} /\ step'["recovery"] = "fetch" /\ blob'["recovery"] = {}
          /\ queue'["page"] = queue["page"]
          /\ step'["page"] = step["page"] /\ blob'["page"] = blob["page"]
      BY <2>3, <1>a DEF RecoveryCrashes, DropQueue, Enter, TypeOK
    <3>2. QED
      BY <3>1, <1>a, <1>s, <1>q DEF QueueInv
  <2>4. CASE LatePut \/ DeleteRecording
    <3>1. UNCHANGED <<queue, step, blob, mode>>
      BY <2>4 DEF LatePut, DeleteRecording, queueVars
    <3>2. QED
      BY <3>1, <1>s, <1>q DEF QueueInv
  <2>5. QED
    BY <1>5, <2>1, <2>2, <2>3, <2>4 DEF Environment
<1>6. CASE UNCHANGED vars
  BY <1>6, <1>s, <1>q DEF QueueInv, vars, queueVars
<1>7. QED
  BY <1>1, <1>2, <1>3, <1>4, <1>5, <1>6 DEF Next

\* What reaches storage and the part rows is the head item, whose part is
\* sealed and whose blob, once prepared, is everything stored of it.
LEMMA HeadIsWhole ==
  ASSUME TypeOK, QueueInv, StepInv, NEW a \in Agents, queue[a] # {}
  PROVE  /\ Head(a) \in Parts /\ Sealed(Head(a))
         /\ step[a] \in {"link", "put", "complete"} => blob[a] = saved[Head(a)]
  BY HeadInQueue DEF QueueInv, StepInv

\* OpenInv is preserved: before a part is sealed nothing but the page's own
\* writes touches it.
LEMMA OpenInvStep ==
  ASSUME TypeOK, PageInv, OrderInv, QueueInv, OpenInv, WholeInv, StepInv, [Next]_vars
  PROVE  OpenInv'
<1>a. Agents = {"page", "recovery"}
  BY DEF Agents
<1> SUFFICES ASSUME NEW n \in Parts, ~(Sealed(n)')
             PROVE  (chunks[n] = saved[n] /\ object[n] = {} /\ row[n] = "none")'
  BY DEF OpenInv
<1>s. ~Sealed(n) /\ chunks[n] = saved[n] /\ object[n] = {} /\ row[n] = "none"
  BY SealedStable DEF OpenInv
<1>1. CASE PageStep
  BY <1>1, <1>s, PageFrame DEF bucketVars
<1>2. ASSUME NEW m \in Parts, PartStep(m)
      PROVE  (chunks[n] = saved[n] /\ object[n] = {} /\ row[n] = "none")'
  <2>1. UNCHANGED <<object, row>>
    BY <1>2, PartFrame DEF bucketVars, serverVars
  <2>2. chunks'[n] = saved'[n]
    <3>1. CASE WriteChunk(m)
      <4>1. n = m \/ n # m
        OBVIOUS
      <4>2. chunks \in [Parts -> SUBSET Idx] /\ saved \in [Parts -> SUBSET Idx]
        BY DEF TypeOK
      <4>3. QED
        BY <1>s, <3>1, <4>1, <4>2 DEF WriteChunk
    <3>2. CASE ~WriteChunk(m)
      <4>1. UNCHANGED <<chunks, saved>>
        BY <1>2, <3>2 DEF PartStep, DataAvailable, TracksEnded, RecorderStopped, WriteFails, SaveMeta,
           localVars
      <4>2. QED
        BY <1>s, <4>1
    <3>3. QED
      BY <3>1, <3>2
  <2>3. QED
    BY <1>s, <2>1, <2>2
<1>3. ASSUME NEW a \in Agents, UploadStep(a)
      PROVE  (chunks[n] = saved[n] /\ object[n] = {} /\ row[n] = "none")'
  <2>1. queue[a] # {}
    BY <1>3 DEF UploadStep, NothingLocal, Prepare, GetLink, LinkLost, SkipVerified,
       Put, PutLost, Complete, CompleteLost, RequestFails, Remove, RemoveFails, At
  <2>2. Head(a) # n
    BY <2>1, <1>s, HeadIsWhole
  <2>3. chunks'[n] = chunks[n] /\ object'[n] = object[n] /\ row'[n] = row[n]
    BY <1>3, <2>2 DEF UploadStep, NothingLocal, Prepare, GetLink, LinkLost, SkipVerified,
       Put, PutLost, Complete, CompleteLost, RequestFails, Remove, RemoveFails, UploadUrl,
       CompletePart, TypeOK, serverVars, bucketVars, localVars
  <2>4. QED
    BY <1>3, <1>s, <2>3, UploadFrame
<1>4. ASSUME NEW a \in Agents, FinishStep(a)
      PROVE  (chunks[n] = saved[n] /\ object[n] = {} /\ row[n] = "none")'
  BY <1>4, <1>s, FinishFrame DEF bucketVars
<1>5. CASE Environment
  <2>1. CASE PageCrashes \/ LeaveBrokenPage \/ StartRecovery \/ RecoveryCrashes
    BY <2>1, <1>s DEF PageCrashes, LeaveBrokenPage, LosePage, StartRecovery, RecoveryCrashes,
       serverVars, bucketVars, localVars
  <2>2. CASE LatePut
    BY <2>2, <1>s DEF LatePut, WholeInv, TypeOK, serverVars, localVars
  <2>3. CASE DeleteRecording
    BY <2>3, <1>s DEF DeleteRecording, localVars
  <2>4. QED
    BY <1>5, <2>1, <2>2, <2>3 DEF Environment
<1>6. CASE UNCHANGED vars
  BY <1>6, <1>s DEF vars, serverVars, bucketVars, localVars
<1>7. QED
  BY <1>1, <1>2, <1>3, <1>4, <1>5, <1>6 DEF Next

\* A chunk is written only to a part that is not sealed.
LEMMA WritesAreOpen ==
  ASSUME TypeOK, PageInv, NEW n \in Parts, WriteChunk(n)
  PROVE  ~Sealed(n)
  BY DEF WriteChunk, WriteDue, PageInv, Sealed, TypeOK

\* Nothing but recording_delete makes a recording "deleted" and nothing undoes it.
LEMMA DeletedStays ==
  ASSUME TypeOK, PageInv, [Next]_vars, status = "deleted"
  PROVE  status' = "deleted"
<1>1. CASE PageStep
  BY <1>1 DEF PageStep, StartRecording, StartLost, StartFails, BeginRecording,
     Rotate, RotateFails, Stopping, StopClicked, StopCurrentPart, FinishEmptyPart, FinishPart,
     ClosePartFails, PageInv, serverVars
<1>2. ASSUME NEW m \in Parts, PartStep(m) PROVE status' = status
  BY <1>2, PartFrame DEF serverVars
<1>3. ASSUME NEW a \in Agents, UploadStep(a) PROVE status' = status
  BY <1>3, UploadFrame
<1>4. ASSUME NEW a \in Agents, FinishStep(a) PROVE status' = status
  BY <1>4, FinishControl DEF Outcomes
<1>5. CASE Environment
  BY <1>5 DEF Environment, PageCrashes, LeaveBrokenPage, LosePage, StartRecovery,
     RecoveryCrashes, LatePut, DeleteRecording, serverVars
<1>6. CASE UNCHANGED vars
  BY <1>6 DEF vars, serverVars
<1>7. QED
  BY <1>1, <1>2, <1>3, <1>4, <1>5, <1>6 DEF Next

\* WholeInv is preserved: whatever copies a part, it copies all of it, and the
\* device lets go only of what the server has verified.
LEMMA WholeInvStep ==
  ASSUME TypeOK, PageInv, OrderInv, QueueInv, OpenInv, WholeInv, StepInv, [Next]_vars
  PROVE  WholeInv'
<1>s. \A n \in Parts : Sealed(n) => Sealed(n)'
  BY SealedStable
<1>d. status = "deleted" => status' = "deleted"
  BY DeletedStays
<1>l. \A p \in late : p.part \in Parts
  BY DEF TypeOK, Puts
<1>1. CASE UNCHANGED <<row, size, object, chunks, saved>> /\ late' = late
  BY <1>1, <1>s, <1>d, <1>l DEF WholeInv
<1>2. CASE PageStep
  BY <1>1, <1>2, PageFrame DEF bucketVars
<1>3. ASSUME NEW m \in Parts, PartStep(m) PROVE WholeInv'
  <2>1. CASE WriteChunk(m)
    <3>1. ~Sealed(m)
      BY <2>1, WritesAreOpen
    <3>2. UNCHANGED <<row, size, object, late>>
      BY <2>1 DEF WriteChunk, bucketVars, serverVars
    <3>3. chunks'[m] = saved'[m] /\ object[m] = {} /\ row[m] = "none"
      BY <2>1, <3>1 DEF OpenInv, WriteChunk, TypeOK
    <3>4. \A n \in Parts : n # m => chunks'[n] = chunks[n] /\ saved'[n] = saved[n]
      BY <2>1 DEF WriteChunk, TypeOK
    <3>5. \A p \in late : p.part # m
      BY <3>1 DEF WholeInv
    <3>6. QED
      BY <3>2, <3>3, <3>4, <3>5, <1>s, <1>d, <1>l DEF WholeInv
  <2>2. CASE ~WriteChunk(m)
    <3>1. UNCHANGED <<chunks, saved>>
      BY <1>3, <2>2 DEF PartStep, DataAvailable, TracksEnded, RecorderStopped, WriteFails, SaveMeta,
         localVars
    <3>2. QED
      BY <1>1, <1>3, <3>1, PartFrame DEF serverVars, bucketVars
  <2>3. QED
    BY <2>1, <2>2
<1>4. ASSUME NEW a \in Agents, UploadStep(a) PROVE WholeInv'
  <2>a. queue[a] # {}
    BY <1>4 DEF UploadStep, NothingLocal, Prepare, GetLink, LinkLost, SkipVerified,
       Put, PutLost, Complete, CompleteLost, RequestFails, Remove, RemoveFails, At
  <2> DEFINE h == Head(a)
  <2>b. h \in Parts /\ Sealed(h) /\ saved' = saved
    BY <2>a, HeadIsWhole, <1>4, UploadFrame
  <2>c. step[a] \in {"link", "put", "complete"} => blob[a] = saved[h]
    BY <2>a, HeadIsWhole
  <2> HIDE DEF h
  <2>1. CASE NothingLocal(a) \/ Prepare(a) \/ SkipVerified(a) \/ RequestFails(a) \/ RemoveFails(a)
    BY <1>1, <2>1 DEF NothingLocal, Prepare, SkipVerified, RequestFails, RemoveFails,
       serverVars, bucketVars, localVars
  <2>2. CASE GetLink(a) \/ LinkLost(a)
    <3>1. UNCHANGED <<size, object, chunks, late>>
      BY <2>2 DEF GetLink, LinkLost, bucketVars, localVars
    <3>2. \A n \in Parts : row'[n] = "verified" <=> row[n] = "verified"
      BY <2>2, <2>b DEF GetLink, LinkLost, UploadUrl, TypeOK
    <3>3. QED
      BY <3>1, <3>2, <2>b, <1>s, <1>d, <1>l DEF WholeInv
  <2>3. CASE Put(a) \/ PutLost(a)
    <3>1. UNCHANGED <<row, size, chunks>>
      BY <2>3 DEF Put, PutLost, serverVars, localVars
    <3>2. blob[a] = saved[h]
      BY <2>3, <2>c DEF Put, PutLost, At
    <3>3. \A n \in Parts : object'[n] = object[n] \/ object'[n] = saved[n]
      BY <2>3, <2>b, <3>2 DEF Put, PutLost, TypeOK, h
    <3>4. \A p \in late' : p \in late \/ (p.part = h /\ p.data = saved[h])
      BY <2>3, <3>2 DEF Put, PutLost, h
    <3>5. QED
      BY <3>1, <3>3, <3>4, <2>b, <1>s, <1>d, <1>l DEF WholeInv
  <2>4. CASE Complete(a) \/ CompleteLost(a)
    <3>1. UNCHANGED <<object, late, chunks>> /\ CompletePart(h, blob[a])
      BY <2>4 DEF Complete, CompleteLost, bucketVars, localVars, h
    <3>2. blob[a] = saved[h]
      BY <2>4, <2>c DEF Complete, CompleteLost, At
    <3>3. \A n \in Parts : n # h => row'[n] = row[n] /\ size'[n] = size[n]
      BY <3>1 DEF CompletePart, TypeOK
    <3>4. CASE Accepts(h, blob[a])
      <4>1. object[h] = saved[h]
        BY <2>b, <3>4 DEF Accepts, WholeInv
      <4>2. row'[h] = "verified" /\ size'[h] = SizeOf(saved[h])
        BY <2>b, <3>1, <3>2, <3>4 DEF CompletePart, TypeOK
      <4>3. QED
        BY <3>1, <3>3, <4>1, <4>2, <2>b, <1>s, <1>d, <1>l DEF WholeInv
    <3>5. CASE ~Accepts(h, blob[a])
      <4>1. object[h] = {}
        BY <2>b, <3>2, <3>5 DEF Accepts, WholeInv
      <4>2. row' = row /\ size' = size
        BY <2>b, <3>1, <3>5, <4>1 DEF CompletePart, TypeOK
      <4>3. QED
        BY <1>1, <3>1, <4>2, <2>b
    <3>6. QED
      BY <3>4, <3>5
  <2>5. CASE Remove(a)
    <3>1. UNCHANGED <<row, size, object, late>>
      BY <2>5 DEF Remove, serverVars, bucketVars
    <3>2. \A n \in Parts : chunks'[n] = IF n = h THEN {} ELSE chunks[n]
      BY <2>5 DEF Remove, TypeOK, h
    <3>3. row[h] = "verified" \/ status = "deleted"
      BY <2>5, <2>a DEF Remove, At, StepInv, h
    <3>4. QED
      BY <3>1, <3>2, <3>3, <2>b, <1>s, <1>d, <1>l DEF WholeInv
  <2>6. QED
    BY <1>4, <2>1, <2>2, <2>3, <2>4, <2>5 DEF UploadStep
<1>5. ASSUME NEW a \in Agents, FinishStep(a) PROVE WholeInv'
  BY <1>1, <1>5, FinishFrame DEF bucketVars
<1>6. CASE Environment
  <2>1. CASE StartRecovery
    BY <1>1, <2>1 DEF StartRecovery, serverVars, bucketVars, localVars
  <2>2. CASE PageCrashes \/ LeaveBrokenPage \/ RecoveryCrashes
    <3>1. UNCHANGED <<row, size, object, chunks, saved>>
      BY <2>2 DEF PageCrashes, LeaveBrokenPage, LosePage, RecoveryCrashes, serverVars, localVars
    <3>2. PICK a \in Agents : OrphanPut(a) \/ UNCHANGED late
      BY <2>2 DEF PageCrashes, LeaveBrokenPage, RecoveryCrashes, Agents
    <3>3. \A p \in late' : p \in late \/ (p.part \in Parts /\ Sealed(p.part) /\ p.data = saved[p.part])
      BY <3>2, HeadIsWhole DEF OrphanPut, At
    <3>4. QED
      BY <3>1, <3>3, <1>s, <1>d, <1>l DEF WholeInv
  <2>3. CASE LatePut
    <3>1. UNCHANGED <<row, size, chunks, saved>>
      BY <2>3 DEF LatePut, serverVars, localVars
    <3>2. late' \subseteq late
      BY <2>3 DEF LatePut
    <3>3. \A n \in Parts : object'[n] = object[n] \/ object'[n] = saved[n]
      BY <2>3, <1>l DEF LatePut, TypeOK, WholeInv
    <3>4. QED
      BY <3>1, <3>2, <3>3, <1>s, <1>d, <1>l DEF WholeInv
  <2>4. CASE DeleteRecording
    <3>1. UNCHANGED <<late, chunks, saved>> /\ status' = "deleted"
      BY <2>4 DEF DeleteRecording, localVars
    <3>2. \A n \in Parts : row'[n] = "none" /\ object'[n] \in {{}, object[n]}
      BY <2>4 DEF DeleteRecording
    <3>3. QED
      BY <3>1, <3>2, <1>s, <1>l DEF WholeInv
  <2>5. QED
    BY <1>6, <2>1, <2>2, <2>3, <2>4 DEF Environment
<1>7. CASE UNCHANGED vars
  BY <1>1, <1>7 DEF vars, serverVars, bucketVars, localVars
<1>8. QED
  BY <1>2, <1>3, <1>4, <1>5, <1>6, <1>7 DEF Next

\* A part added behind all others does not change the head of a queue.
LEMMA LeastOfLarger ==
  ASSUME NEW S \in SUBSET Nat, S # {}, NEW f \in Nat, \A n \in S : n < f
  PROVE  Least(S \cup {f}) = Least(S)
<1>1. PICK k \in S : \A n \in S : k <= n
  BY NatHasMinimum
<1>2. Least(S) \in S /\ \A n \in S : Least(S) <= n
  BY <1>1 DEF Least
<1>3. /\ Least(S \cup {f}) \in S \cup {f}
      /\ \A n \in S \cup {f} : Least(S \cup {f}) <= n
  <2>1. k \in S \cup {f} /\ \A n \in S \cup {f} : k <= n
    BY <1>1
  <2>2. QED
    BY <2>1 DEF Least
<1>4. Least(S \cup {f}) <= Least(S) /\ Least(S) < f
  BY <1>2, <1>3
<1>5. Least(S \cup {f}) \in S
  BY <1>2, <1>3, <1>4
<1>6. Least(S) \in Nat /\ Least(S \cup {f}) \in Nat /\ Least(S) <= Least(S \cup {f})
  BY <1>2, <1>5
<1>7. \A i, j \in Nat : i <= j /\ j <= i => i = j
  OBVIOUS
<1>8. QED
  BY <1>4, <1>6, <1>7

\* StepInv is preserved: while an item is being uploaded its part does not
\* change, and only a verified part gets to "remove".
LEMMA StepInvStep ==
  ASSUME ~SharedTab, TypeOK, PageInv, OrderInv, QueueInv, OpenInv, WholeInv, StepInv,
         [Next]_vars
  PROVE  StepInv'
<1>a. Agents = {"page", "recovery"}
  BY DEF Agents
<1>d. status = "deleted" => status' = "deleted"
  BY DeletedStays
<1>h. \A a \in Agents : queue[a] # {} => Head(a) \in Parts /\ Sealed(Head(a))
  BY HeadIsWhole
<1>1. ASSUME NEW a \in Agents, queue'[a] = queue[a], step'[a] = step[a], blob'[a] = blob[a],
             \A n \in Parts : Sealed(n) =>
                saved'[n] = saved[n] /\ (row[n] = "verified" => row'[n] = "verified" \/ status' = "deleted")
      PROVE  queue'[a] # {} =>
               /\ blob'[a] \in {{}, saved'[Head(a)']}
               /\ step'[a] \in {"link", "put", "complete"} => blob'[a] # {}
               /\ step'[a] = "remove" => row'[Head(a)'] = "verified" \/ status' = "deleted"
  <2>1. Head(a)' = Head(a)
    BY <1>1 DEF Head
  <2>2. QED
    BY <1>1, <2>1, <1>d, <1>h DEF StepInv
<1>2. CASE UNCHANGED <<queue, step, blob, row, saved>>
  BY <1>1, <1>2 DEF StepInv
<1>3. CASE PageStep
  <2>1. UNCHANGED <<step, blob, row, saved>>
    BY <1>3, PageFrame
  <2>2. CASE queue' = queue
    BY <1>2, <2>1, <2>2
  <2>3. CASE FinishPart
    <3>1. /\ queue'["page"] = queue["page"] \cup {fin} /\ queue'["recovery"] = queue["recovery"]
          /\ fin \in Nat
      BY <2>3, <1>a, BoundsAssumption DEF FinishPart, TypeOK, Parts, NoPart
    <3>2. queue["page"] \subseteq Nat /\ \A n \in queue["page"] : n < fin
      BY <2>3, <1>a, BoundsAssumption DEF FinishPart, OrderInv, TypeOK, Parts
    <3>3. CASE queue["page"] = {}
      <4>1. step["page"] = "fetch" /\ blob["page"] = {}
        BY <3>3, <1>a DEF QueueInv
      <4>2. QED
        BY <1>1, <2>1, <3>1, <4>1, <1>a DEF StepInv
    <3>4. CASE queue["page"] # {}
      <4>1. Head("page")' = Head("page")
        BY <3>1, <3>2, <3>4, LeastOfLarger DEF Head
      <4>2. QED
        BY <1>1, <2>1, <3>1, <3>4, <4>1, <1>a, <1>d DEF StepInv
    <3>5. QED
      BY <3>3, <3>4
  <2>4. QED
    BY <1>3, <2>2, <2>3 DEF PageStep, StartRecording, StartLost, StartFails, BeginRecording,
       Rotate, RotateFails, Stopping, StopClicked, StopCurrentPart, FinishEmptyPart, ClosePartFails,
       queueVars
<1>4. ASSUME NEW m \in Parts, PartStep(m) PROVE StepInv'
  <2>1. UNCHANGED <<queue, step, blob, row>>
    BY <1>4, PartFrame DEF queueVars, serverVars
  <2>2. \A n \in Parts : Sealed(n) => saved'[n] = saved[n]
    <3>1. CASE WriteChunk(m)
      <4>1. ~Sealed(m)
        BY <3>1, WritesAreOpen
      <4>2. QED
        BY <3>1, <4>1 DEF WriteChunk, TypeOK
    <3>2. CASE ~WriteChunk(m)
      BY <1>4, <3>2 DEF PartStep, DataAvailable, TracksEnded, RecorderStopped, WriteFails, SaveMeta, localVars
    <3>3. QED
      BY <3>1, <3>2
  <2>3. QED
    BY <1>1, <2>1, <2>2 DEF StepInv
<1>5. ASSUME NEW a \in Agents, UploadStep(a) PROVE StepInv'
  <2>a. queue[a] # {}
    BY <1>5 DEF UploadStep, NothingLocal, Prepare, GetLink, LinkLost, SkipVerified,
       Put, PutLost, Complete, CompleteLost, RequestFails, Remove, RemoveFails, At
  <2>b. \A b \in Agents : b # a => queue'[b] = {}
    <3>1. \A b \in Agents : b # a => queue[b] = {}
      BY <2>a, <1>a DEF QueueInv
    <3>2. \A b \in Agents : b # a => queue'[b] = queue[b]
      BY <1>5 DEF UploadStep, NothingLocal, Prepare, GetLink, LinkLost, SkipVerified,
         Put, PutLost, Complete, CompleteLost, RequestFails, Remove, RemoveFails, Shift, TypeOK
    <3>3. QED
      BY <3>1, <3>2
  <2>c. saved' = saved
    BY <1>5, UploadFrame
  <2>1. CASE NothingLocal(a) \/ Remove(a)
    <3>1. step'[a] = "fetch" /\ blob'[a] = {}
      BY <2>1 DEF NothingLocal, Remove, Shift, Goto, TypeOK
    <3>2. QED
      BY <3>1, <2>b DEF StepInv
  <2>2. CASE ~(NothingLocal(a) \/ Remove(a))
    <3>1. queue' = queue /\ Head(a)' = Head(a)
      BY <1>5, <2>2 DEF UploadStep, Prepare, GetLink, LinkLost, SkipVerified, Put, PutLost,
         Complete, CompleteLost, RequestFails, RemoveFails, Head, queueVars
    <3> DEFINE h == Head(a)
    <3>a. h \in Parts
      BY <2>a, <1>h
    <3> HIDE DEF h
    <3>2. CASE Prepare(a)
      <4>1. blob'[a] = saved[h] /\ blob'[a] # {} /\ step'[a] = "link"
        BY <2>a, <3>2, <3>a DEF Prepare, Goto, TypeOK, StepInv, WholeInv, h
      <4>2. QED
        BY <3>1, <4>1, <2>b, <2>c DEF StepInv, h
    <3>3. CASE SkipVerified(a)
      <4>1. blob'[a] = {} /\ step'[a] = "remove" /\ row'[h] = "verified"
        BY <3>3 DEF SkipVerified, AlreadyVerified, Goto, TypeOK, serverVars, h
      <4>2. QED
        BY <3>1, <4>1, <2>b, <2>c DEF StepInv, h
    <3>4. CASE Complete(a)
      <4>1. \/ step'[a] = "remove" /\ row'[h] = "verified" /\ blob'[a] = {}
            \/ step'[a] = "fetch" /\ blob'[a] = blob[a]
        BY <3>4, <3>a DEF Complete, CompletePart, Goto, TypeOK, h
      <4>2. QED
        BY <3>1, <4>1, <2>a, <2>b, <2>c DEF StepInv, h
    <3>5. CASE GetLink(a) \/ LinkLost(a) \/ Put(a) \/ PutLost(a) \/ CompleteLost(a)
                 \/ RequestFails(a) \/ RemoveFails(a)
      <4>1. blob'[a] = blob[a] /\ step'[a] \in {"fetch", "put", "complete"}
        BY <3>5 DEF GetLink, LinkLost, Put, PutLost, CompleteLost, RequestFails, RemoveFails,
           Goto, TypeOK, queueVars
      <4>2. step'[a] \in {"put", "complete"} => step[a] \in {"link", "put"}
        BY <3>5 DEF GetLink, LinkLost, Put, PutLost, CompleteLost, RequestFails, RemoveFails,
           Goto, At, TypeOK
      <4>3. QED
        BY <3>1, <4>1, <4>2, <2>a, <2>b, <2>c DEF StepInv, h
    <3>6. QED
      BY <1>5, <2>2, <3>2, <3>3, <3>4, <3>5 DEF UploadStep
  <2>3. QED
    BY <2>1, <2>2
<1>6. ASSUME NEW a \in Agents, FinishStep(a) PROVE StepInv'
  BY <1>2, <1>6, FinishFrame DEF queueVars
<1>7. CASE Environment
  <2>1. CASE PageCrashes \/ LeaveBrokenPage
    <3>1. /\ queue'["page"] = {}
          /\ queue'["recovery"] = queue["recovery"] /\ step'["recovery"] = step["recovery"]
          /\ blob'["recovery"] = blob["recovery"]
          /\ UNCHANGED <<row, saved>>
      BY <2>1, <1>a DEF PageCrashes, LeaveBrokenPage, LosePage, DropQueue, TypeOK,
         serverVars, localVars
    <3>2. QED
      BY <1>1, <3>1, <1>a DEF StepInv
  <2>2. CASE StartRecovery
    <3>1. step["recovery"] = "fetch" /\ blob["recovery"] = {}
      BY <2>2, <1>a DEF StartRecovery, QueueInv
    <3>2. /\ queue'["page"] = queue["page"] /\ UNCHANGED <<step, blob, row, saved>>
      BY <2>2, <1>a DEF StartRecovery, TypeOK, serverVars, localVars
    <3>3. QED
      BY <1>1, <3>1, <3>2, <1>a DEF StepInv
  <2>3. CASE RecoveryCrashes
    <3>1. /\ queue'["recovery"] = {}
          /\ queue'["page"] = queue["page"] /\ step'["page"] = step["page"]
          /\ blob'["page"] = blob["page"]
          /\ UNCHANGED <<row, saved>>
      BY <2>3, <1>a DEF RecoveryCrashes, DropQueue, TypeOK, serverVars, localVars
    <3>2. QED
      BY <1>1, <3>1, <1>a DEF StepInv
  <2>4. CASE LatePut
    BY <1>2, <2>4 DEF LatePut, serverVars, localVars, queueVars
  <2>5. CASE DeleteRecording
    <3>1. UNCHANGED <<queue, step, blob, saved>> /\ status' = "deleted"
      BY <2>5 DEF DeleteRecording, localVars, queueVars
    <3>2. QED
      BY <1>1, <3>1 DEF StepInv
  <2>6. QED
    BY <1>7, <2>1, <2>2, <2>3, <2>4, <2>5 DEF Environment
<1>8. CASE UNCHANGED vars
  BY <1>2, <1>8 DEF vars, serverVars, localVars, queueVars
<1>9. QED
  BY <1>3, <1>4, <1>5, <1>6, <1>7, <1>8 DEF Next

-----------------------------------------------------------------------------

\* UploadInv holds before anything has been recorded.
LEMMA UploadInvInit == Init => UploadInv
<1> SUFFICES ASSUME Init PROVE UploadInv
  OBVIOUS
<1>1. "page" \in Agents /\ "recovery" \in Agents /\ NoPart = 0
  BY DEF Agents, NoPart
<1>2. PageInv /\ OrderInv /\ QueueInv /\ OpenInv /\ StepInv
  BY <1>1 DEF Init, PageInv, OrderInv, QueueInv, OpenInv, StepInv
<1>3. WholeInv
  BY DEF Init, WholeInv
<1>4. QED
  BY <1>2, <1>3 DEF UploadInv

\* UploadInv is inductive when only one tab works on the recording.
LEMMA UploadInvStep ==
  ASSUME ~SharedTab, TypeOK, UploadInv, [Next]_vars
  PROVE  UploadInv'
<1>1. PageInv /\ OrderInv /\ QueueInv /\ OpenInv /\ WholeInv /\ StepInv
  BY DEF UploadInv
<1>2. PageInv' /\ OrderInv'
  BY <1>1, PageInvStep, OrderInvStep
<1>3. QueueInv' /\ OpenInv' /\ WholeInv' /\ StepInv'
  BY <1>1, QueueInvStep, OpenInvStep, WholeInvStep, StepInvStep
<1>4. QED
  BY <1>2, <1>3 DEF UploadInv

\* With one tab at work the invariant of the engine holds: a part that is
\* queued or uploaded is sealed, and what an upload holds is the whole of it.
THEOREM UploadsAreSealed ==
  ASSUME ~SharedTab
  PROVE  Spec => []UploadInv
<1>1. Init => TypeOK /\ UploadInv
  BY TypeInit, UploadInvInit
<1>2. TypeOK /\ UploadInv /\ [Next]_vars => (TypeOK /\ UploadInv)'
  BY TypeStep, UploadInvStep
<1>3. QED
  BY <1>1, <1>2, PTL DEF Spec

\* With one tab at work, a chunk that was stored on the device is there or in
\* a verified file at every moment: UploadQueue deletes local chunks "only
\* after the server confirms the part is verified" (recorder.js:334).
THEOREM ChunksSurvive ==
  ASSUME ~SharedTab
  PROVE  Spec => []NoChunkLost
<1>1. UploadInv => NoChunkLost
  BY DEF UploadInv, WholeInv, NoChunkLost, Kept
<1>2. QED
  BY <1>1, UploadsAreSealed, PTL

\* With one tab at work, a verified file is every chunk the device stored of
\* its part, and its row has its size: no late or repeated PUT leaves less.
THEOREM VerifiedPartsAreWhole ==
  ASSUME ~SharedTab
  PROVE  Spec => []VerifiedIsWhole
<1>1. UploadInv => VerifiedIsWhole
  BY DEF UploadInv, WholeInv, VerifiedIsWhole
<1>2. QED
  BY <1>1, UploadsAreSealed, PTL
=============================================================================
