----------------------- MODULE RecordingServerProofs -----------------------
(* Proofs about the API of one recording, for any number of handlers and   *)
(* parts. Requests are repeated and interrupted at will; what has to be    *)
(* assumed about deletes and finishes is said in each theorem.             *)
EXTENDS RecordingServer, FiniteSetTheorems, WellFoundedInduction, TLAPS

Fields ==
  {"kind", "at", "n", "arg", "status", "expected", "total", "transcript", "row", "size"}

\* A handler has its arguments, whatever rows it saw.
Loaded(q) ==
  /\ DOMAIN q = Fields
  /\ q.kind \in Kinds
  /\ q.at \in Stages
  /\ q.kind \in {"url", "complete"} => q.n \in Parts
  /\ q.kind = "complete" => q.arg \in Sizes[q.n]
  /\ q.kind = "finish" => q.arg \in Expected
  /\ q.at = "inserted" => q.kind = "url"
  /\ q.at \in {"matched", "mismatched"} => q.kind = "complete"
  /\ q.at = "filesGone" => q.kind = "delete"

ReqOK == DOMAIN req = Requests /\ \A r \in Requests : req[r] # Idle => Loaded(req[r])

RowsOK ==
  /\ row \in [Parts -> Rows]
  /\ size \in [Parts -> Nat]
  /\ file \in [Parts -> Nat]
  /\ \A n \in Parts : size[n] \in Sizes[n] \cup {0} /\ file[n] \in Sizes[n] \cup {0}
  /\ links \subseteq Parts
  /\ told \subseteq Parts /\ erased \subseteq Parts

ShapeInv == ReqOK /\ RowsOK

\* A new request has seen the columns it looks at as they are, and no others.
Saw(q) ==
  /\ q.row \in [Parts -> Rows] /\ q.size \in [Parts -> Nat]
  /\ \A m \in Parts : \/ q.row[m] = row[m] /\ q.size[m] = size[m]
                      \/ q.row[m] = "none" /\ q.size[m] = 0
  /\ q.kind \in {"url", "complete"} => q.row[q.n] = row[q.n] /\ q.size[q.n] = size[q.n]
  /\ q.kind \notin {"url", "complete"} => q.row = row /\ q.size = size
  /\ q.kind = "finish" => q.status = status /\ q.expected = expected
  /\ q.expected \in {Null, expected}

LEMMA SizeNames == \A n \in Parts : Sizes[n] \subseteq Nat \ {0}
  BY ServerAssumption DEF Parts

-----------------------------------------------------------------------------
(* How a step changes the handlers                                         *)

\* One handler changes, and what it has loaded stays as it was.
Advances(r) ==
  /\ req[r] # Idle /\ Loaded(req[r])
  /\ DOMAIN req' = Requests
  /\ \A o \in Requests : o # r => req'[o] = req[o]
  /\ \/ req'[r] = Idle
     \/ /\ req'[r] # Idle /\ Loaded(req'[r])
        /\ req'[r].kind = req[r].kind /\ req'[r].n = req[r].n /\ req'[r].arg = req[r].arg
        /\ req'[r].row = req[r].row /\ req'[r].size = req[r].size
        /\ req'[r].status = req[r].status /\ req'[r].expected = req[r].expected

LEMMA ReturnAdvances ==
  ASSUME ReqOK, NEW r \in Requests, req[r] # Idle, Return(r)
  PROVE  Advances(r) /\ req'[r] = Idle
  BY DEF ReqOK, Return, Advances

LEMMA GotoAdvances ==
  ASSUME ReqOK, NEW r \in Requests, req[r] # Idle, NEW stage \in Stages, Goto(r, stage),
         stage = "inserted" => req[r].kind = "url",
         stage \in {"matched", "mismatched"} => req[r].kind = "complete",
         stage = "filesGone" => req[r].kind = "delete"
  PROVE  Advances(r) /\ req'[r] # Idle /\ req'[r].at = stage
<1>1. Loaded(req[r])
  BY DEF ReqOK
<1>2. /\ req'[r] = [req[r] EXCEPT !.at = stage]
      /\ DOMAIN req' = Requests
      /\ \A o \in Requests : o # r => req'[o] = req[o]
  BY DEF ReqOK, Goto
<1>3. /\ DOMAIN req'[r] = Fields /\ req'[r].at = stage
      /\ req'[r].kind = req[r].kind /\ req'[r].n = req[r].n /\ req'[r].arg = req[r].arg
      /\ req'[r].row = req[r].row /\ req'[r].size = req[r].size
      /\ req'[r].status = req[r].status /\ req'[r].expected = req[r].expected
  BY <1>1, <1>2 DEF Loaded, Fields
<1>4. Loaded(req'[r])
  BY <1>1, <1>3 DEF Loaded
<1>5. req'[r] # Idle
  BY <1>3 DEF Idle, Stages
<1> QED
  BY <1>1, <1>2, <1>3, <1>4, <1>5 DEF Advances

LEMMA SnapshotSaw ==
  ASSUME ShapeInv, NEW kind, NEW n, NEW arg, kind \in {"url", "complete"} => n \in Parts
  PROVE  Saw(Snapshot(kind, n, arg))
<1> DEFINE q == Snapshot(kind, n, arg)
<1>1. /\ q.kind = kind /\ q.n = n
      /\ q.row = [m \in Parts |-> IF m \in Looks(kind, n) THEN row[m] ELSE "none"]
      /\ q.size = [m \in Parts |-> IF m \in Looks(kind, n) THEN size[m] ELSE 0]
      /\ kind = "finish" => q.status = status /\ q.expected = expected
      /\ q.expected \in {Null, expected}
  BY DEF Snapshot
<1>2. row \in [Parts -> Rows] /\ size \in [Parts -> Nat] /\ "none" \in Rows
  BY DEF ShapeInv, RowsOK, Rows
<1> HIDE DEF q
<1>3. /\ q.row \in [Parts -> Rows] /\ q.size \in [Parts -> Nat]
      /\ \A m \in Parts : \/ q.row[m] = row[m] /\ q.size[m] = size[m]
                          \/ q.row[m] = "none" /\ q.size[m] = 0
  BY <1>1, <1>2
<1>4. kind \in {"url", "complete"} => q.row[n] = row[n] /\ q.size[n] = size[n]
  BY <1>1 DEF Looks
<1>5. kind \notin {"url", "complete"} => q.row = row /\ q.size = size
  BY <1>1, <1>2 DEF Looks
<1>6. Saw(q)
  BY <1>1, <1>3, <1>4, <1>5 DEF Saw
<1> QED
  BY <1>6 DEF q

LEMMA LoadAdds ==
  ASSUME ShapeInv, NEW r \in Requests, NEW kind, NEW n, NEW arg, Load(r, kind, n, arg),
         kind \in {"url", "complete"} => n \in Parts,
         kind = "complete" => arg \in Sizes[n],
         kind = "finish" => arg \in Expected
  PROVE  /\ req[r] = Idle /\ MayLoad(kind)
         /\ req'[r] # Idle /\ Loaded(req'[r])
         /\ req'[r].kind = kind /\ req'[r].at = "loaded" /\ req'[r].n = n /\ req'[r].arg = arg
         /\ Saw(req'[r])
         /\ \A o \in Requests : o # r => req'[o] = req[o]
         /\ ReqOK'
         /\ UNCHANGED <<recordingVars, partVars, file, links, told, erased>>
<1>1. /\ req'[r] = Snapshot(kind, n, arg)
      /\ DOMAIN req' = Requests
      /\ \A o \in Requests : o # r => req'[o] = req[o]
  BY DEF ShapeInv, ReqOK, Load
<1>2. /\ DOMAIN req'[r] = Fields /\ req'[r].n = n
      /\ req'[r].kind = kind /\ req'[r].at = "loaded" /\ req'[r].arg = arg
  BY <1>1 DEF Snapshot, Fields
<1>a. Saw(req'[r])
  BY <1>1, SnapshotSaw
<1>3. kind \in Kinds /\ MayLoad(kind)
  BY DEF Load, MayLoad
<1>4. req'[r] # Idle /\ Loaded(req'[r])
  BY <1>2, <1>3 DEF Loaded, Idle, Stages
<1> QED
  BY <1>1, <1>2, <1>3, <1>4, <1>a DEF Load, ShapeInv, ReqOK

\* Every step that is not a new request, a PUT or an answer is one handler's.
LEMMA HandleAdvances ==
  ASSUME ReqOK, NEW r \in Requests, Handle(r)
  PROVE  Advances(r)
<1>1. CASE UrlInsert(r)
  BY <1>1, ReturnAdvances, GotoAdvances DEF UrlInsert, At, Idle, Stages
<1>2. CASE CompleteStat(r)
  BY <1>2, ReturnAdvances, GotoAdvances DEF CompleteStat, At, Idle, Stages
<1>3. CASE TranscriptBegin(r)
  BY <1>3, GotoAdvances DEF TranscriptBegin, At, Idle, Stages
<1>4. CASE DeleteFiles(r)
  BY <1>4, GotoAdvances DEF DeleteFiles, At, Idle, Stages
<1>5. CASE \/ UrlCommit(r) \/ CompleteCommit(r) \/ CompleteDemote(r) \/ FinishCommit(r)
           \/ TranscriptEnd(r) \/ DeleteCommit(r) \/ Interrupted(r)
  BY <1>5, ReturnAdvances DEF UrlCommit, CompleteCommit, CompleteDemote, FinishCommit,
     TranscriptEnd, DeleteCommit, Interrupted, At, Idle
<1> QED
  BY <1>1, <1>2, <1>3, <1>4, <1>5 DEF Handle

\* The handler is the one whose step it is.
LEMMA AdvancesKeeps == ASSUME ReqOK, NEW r \in Requests, Advances(r) PROVE ReqOK'
  BY DEF ReqOK, Advances

\* What a new request has seen is what is there.
LEMMA IssueLoads ==
  ASSUME ShapeInv, NEW r \in Requests, Issue(r)
  PROVE  /\ req[r] = Idle
         /\ req'[r] # Idle /\ Loaded(req'[r]) /\ MayLoad(req'[r].kind)
         /\ req'[r].at = "loaded" /\ Saw(req'[r])
         /\ \A o \in Requests : o # r => req'[o] = req[o]
         /\ ReqOK'
         /\ UNCHANGED <<recordingVars, partVars, file, links, told, erased>>
  BY LoadAdds DEF Issue, UrlLoad, CompleteLoad, FinishLoad, TranscriptLoad, DeleteLoad

-----------------------------------------------------------------------------
(* Types                                                                   *)

LEMMA ShapeInit == Init => ShapeInv
  BY ServerAssumption DEF Init, ShapeInv, ReqOK, RowsOK, Rows, Parts

LEMMA ShapeStep == ShapeInv /\ [Next]_vars => ShapeInv'
<1> SUFFICES ASSUME ShapeInv, [Next]_vars PROVE ShapeInv'
  OBVIOUS
<1>1. CASE UNCHANGED vars
  BY <1>1 DEF vars, partVars, recordingVars, ShapeInv, ReqOK, RowsOK
<1>2. ASSUME NEW r \in Requests, Issue(r) PROVE ShapeInv'
  BY <1>2, IssueLoads DEF partVars, ShapeInv, RowsOK
<1>3. ASSUME NEW r \in Requests, Handle(r) PROVE ShapeInv'
  <2>1. ReqOK' /\ Loaded(req[r])
    BY <1>3, HandleAdvances, AdvancesKeeps DEF ShapeInv, Advances
  <2>2. CASE UrlCommit(r)
    <3>1. req[r].n \in Parts
      BY <2>1, <2>2 DEF UrlCommit, At, Loaded
    <3> QED
      BY <2>1, <2>2, <3>1 DEF UrlCommit, ShapeInv, RowsOK, Rows
  <2>3. CASE CompleteCommit(r)
    <3>1. req[r].n \in Parts /\ req[r].arg \in Sizes[req[r].n]
          /\ req[r].arg \in Nat
      BY <2>1, <2>3, SizeNames DEF CompleteCommit, At, Loaded
    <3>2. CASE row[req[r].n] = "none"
      BY <2>1, <2>3, <3>2 DEF CompleteCommit, partVars, ShapeInv, RowsOK
    <3>3. CASE row[req[r].n] # "none"
      <4>1. /\ told' = told \cup {req[r].n}
            /\ row' = [row EXCEPT ![req[r].n] = IF req[r].row[req[r].n] = "verified"
                                               THEN row[req[r].n] ELSE "verified"]
            /\ size' = [size EXCEPT ![req[r].n] = IF req[r].size[req[r].n] = req[r].arg
                                                 THEN size[req[r].n] ELSE req[r].arg]
            /\ UNCHANGED <<file, links, erased>>
        BY <2>3, <3>3 DEF CompleteCommit
      <4>2. row' \in [Parts -> Rows] /\ size' \in [Parts -> Nat]
        BY <3>1, <4>1 DEF ShapeInv, RowsOK, Rows
      <4>3. \A n \in Parts : size'[n] \in Sizes[n] \cup {0}
        BY <3>1, <4>1 DEF ShapeInv, RowsOK
      <4> QED
        BY <2>1, <3>1, <4>1, <4>2, <4>3 DEF ShapeInv, RowsOK
    <3> QED
      BY <3>2, <3>3
  <2>4. CASE CompleteDemote(r)
    BY <2>1, <2>4 DEF CompleteDemote, ShapeInv, RowsOK, Rows
  <2>5. CASE DeleteFiles(r)
    BY <2>1, <2>5 DEF DeleteFiles, Known, partVars, ShapeInv, RowsOK
  <2>6. CASE DeleteCommit(r)
    BY <2>1, <2>6 DEF DeleteCommit, ShapeInv, RowsOK, Rows
  <2>7. CASE \/ UrlInsert(r) \/ CompleteStat(r) \/ FinishCommit(r) \/ TranscriptBegin(r)
             \/ TranscriptEnd(r) \/ Interrupted(r)
    BY <2>1, <2>7 DEF UrlInsert, CompleteStat, FinishCommit, TranscriptBegin, TranscriptEnd,
       Interrupted, partVars, ShapeInv, RowsOK
  <2> QED
    BY <1>3, <2>2, <2>3, <2>4, <2>5, <2>6, <2>7 DEF Handle
<1>4. ASSUME NEW n \in Parts, NEW s \in Sizes[n], Put(n, s) PROVE ShapeInv'
  BY <1>4, SizeNames DEF Put, partVars, ShapeInv, ReqOK, RowsOK
<1>5. ASSUME NEW n \in Parts, AnswerVerified(n) PROVE ShapeInv'
  BY <1>5 DEF AnswerVerified, partVars, ShapeInv, ReqOK, RowsOK
<1> QED
  BY <1>1, <1>2, <1>3, <1>4, <1>5 DEF Next

LEMMA ShapeAlways == Spec => []ShapeInv
  BY ShapeInit, ShapeStep, PTL DEF Spec

-----------------------------------------------------------------------------
(* What a browser was told, for the parts whose blobs have one size. That  *)
(* is so as long as a part is sealed before its blob is made               *)
(* (RecorderProofs!UploadsAreSealed). Deletes may overlap everything, and  *)
(* other parts may have several blobs.                                     *)

Single == {n \in Parts : OneBlob(n)}

LEMMA SingleSize == \A n \in Single : \A s, t \in Sizes[n] : s = t
  BY DEF Single, OneBlob

\* A complete of a part with one blob works on a row that was not verified and
\* never finds another size, and one handler at a time inserts a row.
Honest(r) ==
  req[r] # Idle =>
    /\ req[r].kind = "complete" /\ req[r].n \in Single =>
         req[r].row[req[r].n] # "verified" /\ req[r].size[req[r].n] = 0
    /\ req[r].at = "mismatched" => req[r].n \notin Single
    /\ req[r].at = "inserted" =>
         row[req[r].n] = "none" /\ \A o \in Inserting(req[r].n) : o = r

\* Exactly the verified rows of these parts have a size.
SizedInv == \A n \in Single : IF row[n] = "verified" THEN size[n] \in Sizes[n] ELSE size[n] = 0

ToldInv == SizedInv /\ ToldIsVerified /\ \A r \in Requests : Honest(r)

\* A handler does not notice a step of another one, unless that touches the row
\* it is inserting.
LEMMA OthersStayHonest ==
  ASSUME ShapeInv, NEW r \in Requests, NEW o \in Requests, o # r, Honest(o),
         \A q \in Requests : q # r => req'[q] = req[q],
         req[o] # Idle /\ req[o].at = "inserted" =>
           /\ row'[req[o].n] = "none"
           /\ req'[r] # Idle /\ req'[r].at = "inserted" => req'[r].n # req[o].n
  PROVE  Honest(o)'
<1>1. req'[o] = req[o]
  OBVIOUS
<1>2. ASSUME req[o] # Idle, req[o].at = "inserted", NEW q \in Inserting(req[o].n)'
      PROVE  q = o
  <2>1. q # r
    <3>1. q = r => req'[r] # Idle
      BY <1>2 DEF Inserting, Idle
    <3> QED
      BY <1>1, <1>2, <3>1 DEF Inserting
  <2>2. q \in Inserting(req[o].n)
    BY <1>1, <1>2, <2>1 DEF Inserting
  <2> QED
    BY <1>2, <2>2 DEF Honest
<1> QED
  BY <1>1, <1>2 DEF Honest

\* A step that leaves the rows alone and begins no insertion.
LEMMA ToldInvIdles ==
  ASSUME ShapeInv, ToldInv, NEW r \in Requests,
         \A q \in Requests : q # r => req'[q] = req[q],
         Honest(r)',
         req'[r] # Idle => req'[r].at # "inserted",
         UNCHANGED <<partVars, told>>
  PROVE  ToldInv'
<1>1. ASSUME NEW o \in Requests PROVE Honest(o)'
  <2>1. CASE o # r
    <3>1. Honest(o) /\ row' = row
      BY DEF ToldInv, partVars
    <3> QED
      BY <2>1, <3>1, OthersStayHonest DEF Honest
  <2> QED
    BY <2>1
<1> QED
  BY <1>1 DEF ToldInv, SizedInv, ToldIsVerified, partVars

LEMMA ToldStep ==
  ASSUME ShapeInv, ToldInv, [Next]_vars
  PROVE  ToldInv'
<1>0. /\ row \in [Parts -> Rows] /\ size \in [Parts -> Nat] /\ file \in [Parts -> Nat]
      /\ told \subseteq Parts
      /\ \A n \in Parts : size[n] \in Sizes[n] \cup {0} /\ file[n] \in Sizes[n] \cup {0}
  BY DEF ShapeInv, RowsOK
<1>1. CASE UNCHANGED vars
  BY <1>1 DEF vars, partVars, ToldInv, SizedInv, ToldIsVerified, Honest, Inserting
<1>2. ASSUME NEW r \in Requests, Issue(r) PROVE ToldInv'
  <2>1. /\ req'[r].at = "loaded" /\ Saw(req'[r])
        /\ \A o \in Requests : o # r => req'[o] = req[o]
        /\ UNCHANGED <<partVars, told>>
    BY <1>2, IssueLoads
  <2>2. ASSUME req'[r].kind = "complete", req'[r].n \in Single
        PROVE  req'[r].row[req'[r].n] # "verified" /\ req'[r].size[req'[r].n] = 0
    <3>1. PICK n \in Parts : \E s \in Sizes[n] : CompleteLoad(r, n, s)
      BY <1>2, <2>2, LoadAdds DEF Issue, UrlLoad, FinishLoad, TranscriptLoad, DeleteLoad
    <3>2. PICK s \in Sizes[n] : CompleteLoad(r, n, s)
      BY <3>1
    <3>3. req'[r].n = n
      BY <3>2, LoadAdds DEF CompleteLoad
    <3>4. row[n] = "verified" => size[n] = s
      BY <2>2, <3>3, SingleSize DEF ToldInv, SizedInv
    <3>5. row[n] # "verified" /\ size[n] = 0
      BY <2>2, <3>2, <3>3, <3>4 DEF CompleteLoad, ToldInv, SizedInv
    <3>6. req'[r].row[n] = row[n] /\ req'[r].size[n] = size[n]
      BY <2>1, <2>2, <3>3 DEF Saw
    <3> QED
      BY <3>3, <3>5, <3>6
  <2>3. Honest(r)'
    BY <2>1, <2>2 DEF Honest
  <2> QED
    BY <2>1, <2>3, ToldInvIdles
<1>3. ASSUME NEW r \in Requests, Handle(r) PROVE ToldInv'
  <2>1. /\ Advances(r) /\ Loaded(req[r]) /\ ReqOK /\ req[r] # Idle /\ Honest(r)
        /\ \A o \in Requests : o # r => req'[o] = req[o]
    BY <1>3, HandleAdvances DEF ShapeInv, Advances, ToldInv
  <2>i. ASSUME req'[r] = Idle, UNCHANGED <<partVars, told>> PROVE ToldInv'
    BY <2>1, <2>i, ToldInvIdles DEF Honest
  <2>g. ASSUME req'[r] # Idle, req'[r].at # "inserted",
               req'[r].at = "mismatched" => req[r].n \notin Single,
               UNCHANGED <<partVars, told>>
        PROVE  ToldInv'
    BY <2>1, <2>g, ToldInvIdles DEF Honest, Advances
  <2>3. CASE UrlInsert(r)
    <3> DEFINE p == req[r].n
    <3>1. p \in Parts /\ Inserting(p) = {} /\ UNCHANGED <<partVars, told>>
          /\ req[r].at = "loaded" /\ req[r].kind = "url"
      BY <2>1, <2>3 DEF UrlInsert, At, Loaded
    <3>2. CASE row[p] # "none"
      <4>1. Return(r)
        BY <2>3, <3>2 DEF UrlInsert
      <4> QED
        BY <2>1, <2>i, <3>1, <4>1, ReturnAdvances
    <3>3. CASE row[p] = "none"
      <4>1. Goto(r, "inserted")
        BY <2>3, <3>3 DEF UrlInsert
      <4>2. /\ req'[r].at = "inserted" /\ req'[r] # Idle /\ req'[r].n = p
            /\ req'[r].kind = "url"
        BY <2>1, <3>1, <4>1, GotoAdvances DEF Advances, Stages
      <4>3. ASSUME NEW o \in Requests, o # r PROVE Honest(o)'
        <5>1. req[o] # Idle /\ req[o].at = "inserted" => req[o].n # p
          BY <3>1 DEF Inserting
        <5>2. Honest(o) /\ row' = row
          BY <3>1 DEF ToldInv, partVars
        <5> QED
          BY <2>1, <4>2, <4>3, <5>1, <5>2, OthersStayHonest DEF Honest
      <4>4. Honest(r)'
        <5>1. Inserting(p)' \subseteq {r}
          BY <2>1, <3>1, <4>2 DEF Inserting
        <5> QED
          BY <3>1, <3>3, <4>2, <5>1 DEF Honest, partVars
      <4> QED
        BY <3>1, <4>3, <4>4 DEF ToldInv, SizedInv, ToldIsVerified, partVars
    <3> QED
      BY <3>2, <3>3
  <2>4. CASE UrlCommit(r)
    <3> DEFINE p == req[r].n
    <3>1. /\ p \in Parts /\ Return(r)
          /\ row' = IF req[r].at = "inserted" THEN [row EXCEPT ![p] = "pending"] ELSE row
          /\ UNCHANGED <<size, told>>
      BY <2>1, <2>4 DEF UrlCommit, At, Loaded
    <3>2. req'[r] = Idle
      BY <2>1, <3>1, ReturnAdvances
    <3>3. CASE req[r].at # "inserted"
      BY <2>i, <3>1, <3>2, <3>3 DEF partVars
    <3>4. CASE req[r].at = "inserted"
      <4>1. row[p] = "none" /\ \A o \in Inserting(p) : o = r
        BY <2>1, <3>4 DEF Honest
      <4>2. row'[p] = "pending" /\ \A n \in Parts : n # p => row'[n] = row[n]
        BY <1>0, <3>1, <3>4
      <4>3. ASSUME NEW o \in Requests, o # r PROVE Honest(o)'
        <5>1. req[o] # Idle /\ req[o].at = "inserted" =>
                req[o].n # p /\ req[o].n \in Parts /\ row[req[o].n] = "none"
          BY <4>1, <4>3 DEF Inserting, ToldInv, Honest, ReqOK, Loaded, ShapeInv
        <5>2. Honest(o)
          BY DEF ToldInv
        <5> HIDE DEF p
        <5> QED
          BY <2>1, <3>2, <4>2, <4>3, <5>1, <5>2, OthersStayHonest
      <4>4. Honest(r)'
        BY <3>2 DEF Honest
      <4>5. SizedInv' /\ ToldIsVerified'
        BY <1>0, <3>1, <4>1, <4>2 DEF ToldInv, SizedInv, ToldIsVerified
      <4> QED
        BY <4>3, <4>4, <4>5 DEF ToldInv
    <3> QED
      BY <3>3, <3>4
  <2>5. CASE CompleteStat(r)
    <3> DEFINE p == req[r].n
    <3>1. /\ p \in Parts /\ req[r].arg \in Sizes[p] /\ req[r].arg # 0
          /\ req[r].kind = "complete" /\ UNCHANGED <<partVars, told>>
      BY <2>1, <2>5, SizeNames DEF CompleteStat, At, Loaded
    <3>2. p \in Single => file[p] = 0 \/ file[p] = req[r].arg
      BY <1>0, <3>1, SingleSize
    <3>3. CASE file[p] = 0
      <4>1. Return(r)
        BY <2>5, <3>1, <3>3 DEF CompleteStat
      <4> QED
        BY <2>1, <2>i, <3>1, <4>1, ReturnAdvances
    <3>4. CASE file[p] # 0 /\ file[p] = req[r].arg
      <4>1. Goto(r, "matched")
        BY <2>5, <3>1, <3>4 DEF CompleteStat
      <4>2. req'[r].at = "matched" /\ req'[r] # Idle
        BY <2>1, <3>1, <4>1, GotoAdvances DEF Stages
      <4> QED
        BY <2>g, <3>1, <4>2
    <3>5. CASE file[p] # 0 /\ file[p] # req[r].arg
      <4>1. Goto(r, "mismatched")
        BY <2>5, <3>1, <3>5 DEF CompleteStat
      <4>2. req'[r].at = "mismatched" /\ req'[r] # Idle
        BY <2>1, <3>1, <4>1, GotoAdvances DEF Stages
      <4> QED
        BY <2>g, <3>1, <3>2, <3>5, <4>2
    <3> QED
      BY <3>3, <3>4, <3>5
  <2>6. CASE CompleteCommit(r)
    <3> DEFINE p == req[r].n
    <3>1. /\ p \in Parts /\ req[r].arg \in Sizes[p] /\ req[r].arg # 0 /\ req[r].arg \in Nat
          /\ Return(r) /\ req[r].kind = "complete"
      BY <2>1, <2>6, SizeNames DEF CompleteCommit, At, Loaded
    <3>2. req'[r] = Idle
      BY <2>1, <3>1, ReturnAdvances
    <3>3. CASE row[p] = "none"
      BY <2>6, <2>i, <3>2, <3>3 DEF CompleteCommit
    <3>4. CASE row[p] # "none"
      <4>1. p \in Single => req[r].row[p] # "verified" /\ req[r].size[p] # req[r].arg
        BY <2>1, <3>1 DEF Honest
      <4>2. /\ told' = told \cup {p}
            /\ row' = [row EXCEPT ![p] = IF req[r].row[p] = "verified" THEN row[p] ELSE "verified"]
            /\ size' = [size EXCEPT ![p] = IF req[r].size[p] = req[r].arg THEN size[p] ELSE req[r].arg]
        BY <2>6, <3>4 DEF CompleteCommit
      <4>3. /\ p \in Single => row'[p] = "verified" /\ size'[p] = req[r].arg
            /\ \A n \in Parts : n # p => row'[n] = row[n] /\ size'[n] = size[n]
        BY <1>0, <3>1, <4>1, <4>2
      <4>4. ASSUME NEW o \in Requests, o # r PROVE Honest(o)'
        <5>1. req[o] # Idle /\ req[o].at = "inserted" =>
                req[o].n # p /\ req[o].n \in Parts /\ row[req[o].n] = "none"
          BY <3>4 DEF ToldInv, Honest, ReqOK, Loaded, ShapeInv
        <5>2. Honest(o)
          BY DEF ToldInv
        <5> HIDE DEF p
        <5> QED
          BY <2>1, <3>2, <4>3, <4>4, <5>1, <5>2, OthersStayHonest
      <4>5. Honest(r)'
        BY <3>2 DEF Honest
      <4>6. SizedInv' /\ ToldIsVerified'
        <5> HIDE DEF p
        <5> QED
          BY <1>0, <3>1, <4>2, <4>3 DEF ToldInv, SizedInv, ToldIsVerified, Single
      <4> QED
        BY <4>4, <4>5, <4>6 DEF ToldInv
    <3> QED
      BY <3>3, <3>4
  <2>7. CASE CompleteDemote(r)
    <3> DEFINE p == req[r].n
    <3>1. /\ p \in Parts /\ p \notin Single /\ Return(r) /\ UNCHANGED <<size, told>>
          /\ row' = [row EXCEPT ![p] = IF @ = "none" \/ req[r].row[p] = "uploaded"
                                       THEN @ ELSE "uploaded"]
      BY <2>1, <2>7 DEF CompleteDemote, At, Honest, Loaded
    <3>2. req'[r] = Idle
      BY <2>1, <3>1, ReturnAdvances
    <3>3. /\ \A n \in Parts : n # p => row'[n] = row[n]
          /\ row[p] = "none" => row'[p] = "none"
      BY <1>0, <3>1
    <3>4. ASSUME NEW o \in Requests, o # r PROVE Honest(o)'
      <4>1. req[o] # Idle /\ req[o].at = "inserted" =>
              req[o].n \in Parts /\ row[req[o].n] = "none"
        BY DEF ToldInv, Honest, ReqOK, Loaded, ShapeInv
      <4>2. req[o] # Idle /\ req[o].at = "inserted" => row'[req[o].n] = "none"
        BY <3>3, <4>1
      <4>3. Honest(o)
        BY DEF ToldInv
      <4> HIDE DEF p
      <4> QED
        BY <2>1, <3>2, <3>4, <4>2, <4>3, OthersStayHonest
    <3>5. Honest(r)'
      BY <3>2 DEF Honest
    <3>6. SizedInv' /\ ToldIsVerified'
      <4> HIDE DEF p
      <4> QED
        BY <1>0, <3>1, <3>3 DEF ToldInv, SizedInv, ToldIsVerified, Single
    <3> QED
      BY <3>4, <3>5, <3>6 DEF ToldInv
  <2>8. CASE DeleteFiles(r)
    <3>1. req'[r].at = "filesGone" /\ req'[r] # Idle /\ UNCHANGED <<partVars, told>>
      BY <2>1, <2>8, GotoAdvances DEF DeleteFiles, At, Stages
    <3> QED
      BY <2>g, <3>1
  <2>9. CASE DeleteCommit(r)
    <3>1. /\ row' = [n \in Parts |-> IF n \in Known(r) THEN "none" ELSE row[n]]
          /\ size' = [n \in Parts |-> IF n \in Known(r) THEN 0 ELSE size[n]]
          /\ told' = told \ Known(r) /\ Return(r)
      BY <2>9 DEF DeleteCommit
    <3>2. req'[r] = Idle
      BY <2>1, <3>1, ReturnAdvances
    <3>3. ASSUME NEW o \in Requests, o # r PROVE Honest(o)'
      <4>1. req[o] # Idle /\ req[o].at = "inserted" =>
              req[o].n \in Parts /\ row[req[o].n] = "none"
        BY DEF ToldInv, Honest, ReqOK, Loaded, ShapeInv
      <4>2. Honest(o)
        BY DEF ToldInv
      <4> QED
        BY <2>1, <3>1, <3>2, <3>3, <4>1, <4>2, OthersStayHonest
    <3>4. Honest(r)'
      BY <3>2 DEF Honest
    <3>5. SizedInv' /\ ToldIsVerified'
      BY <1>0, <3>1 DEF ToldInv, SizedInv, ToldIsVerified, Single
    <3> QED
      BY <3>3, <3>4, <3>5 DEF ToldInv
  <2>10. CASE TranscriptBegin(r)
    <3>1. req'[r].at = "reading" /\ req'[r] # Idle /\ UNCHANGED <<partVars, told>>
      BY <2>1, <2>10, GotoAdvances DEF TranscriptBegin, At, Stages
    <3> QED
      BY <2>g, <3>1
  <2>11. CASE FinishCommit(r) \/ TranscriptEnd(r) \/ Interrupted(r)
    <3>1. req'[r] = Idle /\ UNCHANGED <<partVars, told>>
      BY <2>1, <2>11, ReturnAdvances DEF FinishCommit, TranscriptEnd, Interrupted
    <3> QED
      BY <2>i, <3>1
  <2> QED
    BY <1>3, <2>3, <2>4, <2>5, <2>6, <2>7, <2>8, <2>9, <2>10, <2>11 DEF Handle
<1>4. ASSUME NEW n \in Parts, NEW s \in Sizes[n], Put(n, s) PROVE ToldInv'
  BY <1>4 DEF Put, partVars, ToldInv, SizedInv, ToldIsVerified, Honest, Inserting
<1>5. ASSUME NEW n \in Parts, AnswerVerified(n) PROVE ToldInv'
  BY <1>5 DEF AnswerVerified, partVars, ToldInv, SizedInv, ToldIsVerified, Honest, Inserting
<1> QED
  BY <1>1, <1>2, <1>3, <1>4, <1>5 DEF Next

LEMMA ToldAlways == Spec => [](ShapeInv /\ ToldInv)
<1>1. Init => ToldInv
  BY DEF Init, ToldInv, SizedInv, ToldIsVerified, Honest, Single
<1>2. ShapeInv /\ ToldInv /\ [Next]_vars => ToldInv'
  BY ToldStep
<1> QED
  BY <1>1, <1>2, ShapeAlways, PTL DEF Spec

\* What a browser was told of a part with one blob stays verified, so that it may
\* delete its chunks: no handler that loaded an older row takes it back, for any
\* number of requests that overlap, are repeated or interrupted, deletes included.
THEOREM AnswersStayTrue == Spec => []ToldIsVerified
<1>1. ToldInv => ToldIsVerified
  BY DEF ToldInv
<1> QED
  BY <1>1, ToldAlways, PTL

\* A verified row of a part with one blob stays verified until a delete removes it.
LEMMA OnlyDeletesUnverify ==
  ASSUME ShapeInv, ToldInv, [Next]_vars, NEW n \in Single, row[n] = "verified"
  PROVE  row'[n] = "verified" \/ \E r \in Requests : DeleteCommit(r)
<1>0. row \in [Parts -> Rows] /\ n \in Parts
  BY DEF ShapeInv, RowsOK, Single
<1>1. ASSUME NEW r \in Requests, Handle(r), ~DeleteCommit(r) PROVE row'[n] = "verified"
  <2>1. Loaded(req[r]) /\ req[r] # Idle /\ Honest(r)
    BY <1>1, HandleAdvances DEF ShapeInv, Advances, ToldInv
  <2>2. CASE UrlCommit(r)
    <3>1. req[r].at = "inserted" => req[r].n # n
      BY <2>1 DEF Honest
    <3> QED
      BY <1>0, <2>2, <3>1 DEF UrlCommit
  <2>3. CASE CompleteCommit(r)
    <3>1. req[r].n = n => req[r].row[req[r].n] # "verified"
      BY <2>1, <2>3 DEF CompleteCommit, At, Loaded, Honest
    <3> QED
      BY <1>0, <2>3, <3>1 DEF CompleteCommit, partVars
  <2>4. CASE CompleteDemote(r)
    <3>1. req[r].n # n
      BY <2>1, <2>4 DEF CompleteDemote, At, Honest
    <3> QED
      BY <1>0, <2>4, <3>1 DEF CompleteDemote
  <2> QED
    BY <1>1, <2>2, <2>3, <2>4 DEF Handle, UrlInsert, CompleteStat, FinishCommit,
       TranscriptBegin, TranscriptEnd, DeleteFiles, Interrupted, partVars
<1>2. ASSUME NEW r \in Requests, Issue(r) PROVE row'[n] = "verified"
  BY <1>2, IssueLoads DEF ShapeInv, partVars
<1> QED
  BY <1>1, <1>2 DEF Next, vars, Put, AnswerVerified, partVars

-----------------------------------------------------------------------------
(* The files of verified parts, deletes included: a delete that is         *)
(* interrupted leaves verified rows without a file.                        *)

FileInv ==
  /\ VerifiedHasFile
  /\ \A r \in Requests : req[r] # Idle /\ req[r].at = "matched" /\ req[r].n \in Single =>
       file[req[r].n] = req[r].arg \/ req[r].n \in erased

\* A file that is as long as it may be stays so, or is erased.
LEMMA StoredStays ==
  ASSUME ShapeInv, [Next]_vars, NEW n \in Single, NEW s \in Sizes[n],
         file[n] = s \/ n \in erased
  PROVE  file'[n] = s \/ n \in erased'
<1>0. file \in [Parts -> Nat] /\ n \in Parts
  BY DEF ShapeInv, RowsOK, Single
<1>1. ASSUME NEW r \in Requests, DeleteFiles(r) PROVE file'[n] = s \/ n \in erased'
  BY <1>0, <1>1 DEF DeleteFiles
<1>2. ASSUME NEW r \in Requests, Handle(r), ~DeleteFiles(r) PROVE UNCHANGED <<file, erased>>
  BY <1>2 DEF Handle, UrlInsert, UrlCommit, CompleteStat, CompleteCommit, CompleteDemote,
     FinishCommit, TranscriptBegin, TranscriptEnd, DeleteCommit, Interrupted
<1>3. ASSUME NEW m \in Parts, NEW t \in Sizes[m], Put(m, t) PROVE file'[n] = s \/ n \in erased'
  BY <1>0, <1>3, SingleSize DEF Put
<1>4. ASSUME NEW r \in Requests, Issue(r) PROVE UNCHANGED <<file, erased>>
  BY <1>4, IssueLoads DEF ShapeInv
<1>5. CASE UNCHANGED <<file, erased>>
  BY <1>5
<1> QED
  BY <1>1, <1>2, <1>3, <1>4, <1>5 DEF Next, vars, AnswerVerified

\* A complete that goes on has seen a file of the size it names.
LEMMA MatchedHasFile ==
  ASSUME ShapeInv, NEW r \in Requests, Handle(r),
         req'[r] # Idle, req'[r].at = "matched"
  PROVE  /\ req[r].n \in Parts /\ req[r].arg \in Sizes[req[r].n]
         /\ file[req[r].n] = req[r].arg /\ UNCHANGED <<file, erased>>
         /\ req'[r].n = req[r].n /\ req'[r].arg = req[r].arg
<1>1. Advances(r) /\ Loaded(req[r]) /\ ReqOK /\ req[r] # Idle
  BY HandleAdvances DEF ShapeInv, Advances
<1>2. CASE CompleteStat(r)
  <2> DEFINE p == req[r].n
  <2>1. p \in Parts /\ req[r].arg \in Sizes[p] /\ req[r].arg # 0
    BY <1>1, <1>2, SizeNames DEF CompleteStat, At, Loaded
  <2>2. file[p] # 0
    <3>1. file[p] = 0 => Return(r)
      BY <1>2, <2>1 DEF CompleteStat
    <3> QED
      BY <1>1, <3>1, ReturnAdvances
  <2>3. file[p] = req[r].arg
    <3>1. file[p] # req[r].arg => Goto(r, "mismatched")
      BY <1>2, <2>1, <2>2 DEF CompleteStat
    <3> QED
      BY <1>1, <1>2, <3>1, GotoAdvances DEF CompleteStat, At, Stages
  <2> QED
    BY <1>1, <1>2, <2>1, <2>3 DEF CompleteStat, Advances
<1>3. CASE ~CompleteStat(r)
  BY <1>1, <1>3, GotoAdvances, ReturnAdvances DEF Handle, UrlInsert, UrlCommit,
     CompleteCommit, CompleteDemote, FinishCommit, TranscriptBegin, TranscriptEnd,
     DeleteFiles, DeleteCommit, Interrupted, At, Stages
<1> QED
  BY <1>2, <1>3

LEMMA FileStep ==
  ASSUME ShapeInv, ToldInv, FileInv, [Next]_vars
  PROVE  FileInv'
<1>0. /\ row \in [Parts -> Rows] /\ size \in [Parts -> Nat]
      /\ \A n \in Single : n \in Parts /\ (row[n] = "verified" => size[n] \in Sizes[n])
  BY DEF ShapeInv, RowsOK, ToldInv, SizedInv, Single
<1>1. ASSUME NEW r \in Requests, req'[r] # Idle, req'[r].at = "matched", req'[r].n \in Single
      PROVE  file'[req'[r].n] = req'[r].arg \/ req'[r].n \in erased'
  <2>1. CASE req'[r] = req[r]
    <3>1. /\ req[r].n \in Single /\ req[r].arg \in Sizes[req[r].n]
          /\ (file[req[r].n] = req[r].arg \/ req[r].n \in erased)
      BY <1>1, <2>1 DEF FileInv, ShapeInv, ReqOK, Loaded, Single
    <3> QED
      BY <2>1, <3>1, StoredStays
  <2>2. CASE req'[r] # req[r]
    <3>1. ASSUME NEW o \in Requests, Issue(o) PROVE FALSE
      BY <1>1, <2>2, <3>1, IssueLoads DEF ShapeInv
    <3>2. ASSUME NEW o \in Requests, Handle(o), o # r PROVE FALSE
      BY <2>2, <3>2, HandleAdvances DEF ShapeInv, Advances
    <3>3. ASSUME Handle(r) PROVE file'[req'[r].n] = req'[r].arg \/ req'[r].n \in erased'
      BY <1>1, <3>3, MatchedHasFile
    <3> QED
      BY <2>2, <3>1, <3>2, <3>3 DEF Next, vars, Put, AnswerVerified
  <2> QED
    BY <2>1, <2>2
<1>2. ASSUME NEW n \in Single, row'[n] = "verified"
      PROVE  file'[n] = size'[n] \/ n \in erased'
  <2>1. ASSUME row[n] = "verified", size'[n] = size[n] PROVE file'[n] = size'[n] \/ n \in erased'
    <3>1. size[n] \in Sizes[n] /\ (file[n] = size[n] \/ n \in erased)
      BY <1>0, <2>1 DEF FileInv, VerifiedHasFile, Single
    <3> QED
      BY <2>1, <3>1, StoredStays
  <2>2. ASSUME NEW r \in Requests, CompleteCommit(r), req[r].n = n, row[n] # "none"
        PROVE  file'[n] = size'[n] \/ n \in erased'
    <3>1. /\ Loaded(req[r]) /\ Honest(r) /\ req[r] # Idle
          /\ req[r].at = "matched" /\ req[r].kind = "complete"
      BY <2>2 DEF CompleteCommit, At, ToldInv, ShapeInv, ReqOK, Idle
    <3>2. size'[n] = req[r].arg
      <4>1. req[r].size[n] = 0 /\ req[r].arg # 0
        BY <2>2, <3>1, SizeNames DEF Honest, Loaded
      <4>2. size' = [size EXCEPT ![n] = req[r].arg]
        BY <2>2, <4>1 DEF CompleteCommit
      <4> QED
        BY <1>0, <4>2
    <3>3. req[r].arg \in Sizes[n] /\ (file[n] = req[r].arg \/ n \in erased)
      BY <2>2, <3>1 DEF FileInv, Loaded
    <3> QED
      BY <3>2, <3>3, StoredStays
  <2>3. ASSUME NEW r \in Requests, CompleteCommit(r), req[r].n # n \/ row[n] = "none"
        PROVE  row[n] = "verified" /\ size'[n] = size[n]
    BY <1>0, <1>2, <2>3 DEF CompleteCommit, partVars
  <2>4. ASSUME NEW r \in Requests, Handle(r), ~CompleteCommit(r)
        PROVE  row[n] = "verified" /\ size'[n] = size[n]
    BY <1>0, <1>2, <2>4 DEF Handle, UrlInsert, UrlCommit, CompleteStat, CompleteDemote,
       FinishCommit, TranscriptBegin, TranscriptEnd, DeleteFiles, DeleteCommit, Interrupted,
       partVars
  <2>5. ASSUME NEW r \in Requests, Issue(r) PROVE UNCHANGED <<row, size>>
    BY <2>5, IssueLoads DEF ShapeInv, partVars
  <2>6. CASE UNCHANGED <<row, size>>
    BY <1>2, <2>1, <2>6
  <2> QED
    BY <2>1, <2>2, <2>3, <2>4, <2>5, <2>6 DEF Next, vars, partVars, Put, AnswerVerified
<1> QED
  BY <1>1, <1>2 DEF FileInv, VerifiedHasFile, Single

\* The verified row of a part with one blob names the size of the file that is
\* there, unless a delete has removed that file, for any number of requests that
\* are repeated, overlap or are interrupted, deletes among them.
THEOREM VerifiedPartsHaveFiles == Spec => []VerifiedHasFile
<1>1. Init => FileInv
  BY DEF Init, FileInv, VerifiedHasFile
<1>2. ShapeInv /\ ToldInv /\ FileInv /\ [Next]_vars => FileInv'
  BY FileStep
<1>3. FileInv => VerifiedHasFile
  BY DEF FileInv
<1> QED
  BY <1>1, <1>2, <1>3, ToldAlways, PTL DEF Spec

-----------------------------------------------------------------------------
(* Requests that a delete waits for                                        *)

Busy(r, kind) == req[r] # Idle /\ req[r].kind = kind

\* A delete and a request of this kind do not run at the same time.
Apart(kind) == \A r, o \in Requests : ~(Busy(r, "delete") /\ Busy(o, kind))

LEMMA ApartStep ==
  ASSUME NEW kind, kind \notin Overlap, kind # "delete", ShapeInv, Apart(kind), [Next]_vars
  PROVE  Apart(kind)'
<1>1. ASSUME NEW r \in Requests, Handle(r) PROVE Apart(kind)'
  BY <1>1, HandleAdvances DEF ShapeInv, Advances, Apart, Busy
<1>2. ASSUME NEW r \in Requests, Issue(r) PROVE Apart(kind)'
  <2>1. /\ req'[r] # Idle /\ MayLoad(req'[r].kind) /\ req[r] = Idle
        /\ \A o \in Requests : o # r => req'[o] = req[o]
    BY <1>2, IssueLoads
  <2>2. req'[r].kind = "delete" => \A o \in Requests : ~Busy(o, kind)
    BY <2>1 DEF MayLoad, Running, Busy, ShapeInv, ReqOK, Loaded
  <2>3. req'[r].kind = kind => \A o \in Requests : ~Busy(o, "delete")
    BY <2>1 DEF MayLoad, Running, Busy
  <2> QED
    BY <2>1, <2>2, <2>3 DEF Apart, Busy
<1>3. CASE req' = req
  BY <1>3 DEF Apart, Busy
<1> QED
  BY <1>1, <1>2, <1>3 DEF Next, vars, Put, AnswerVerified

FinishIsAlone == "finish" \notin Overlap

\* Nobody finishes a recording that is deleted.
FinalInv ==
  /\ Apart("finish")
  /\ status = "deleted" => \A r \in Requests : ~Busy(r, "finish")

\* Only finishes and deletes write the status.
LEMMA StatusWriters ==
  ASSUME ShapeInv, [Next]_vars
  PROVE  \/ UNCHANGED <<status, expected>>
         \/ \E r \in Requests : FinishCommit(r) \/ DeleteCommit(r)
<1>1. ASSUME NEW r \in Requests, Handle(r), ~FinishCommit(r), ~DeleteCommit(r)
      PROVE  UNCHANGED <<status, expected>>
  BY <1>1 DEF Handle, UrlInsert, UrlCommit, CompleteStat, CompleteCommit,
     CompleteDemote, TranscriptBegin, TranscriptEnd, DeleteFiles, Interrupted, recordingVars
<1>2. ASSUME NEW r \in Requests, Issue(r) PROVE UNCHANGED <<status, expected>>
  BY <1>2, IssueLoads DEF recordingVars
<1> QED
  BY <1>1, <1>2 DEF Next, vars, Put, AnswerVerified, recordingVars

LEMMA FinalStep ==
  ASSUME FinishIsAlone, ShapeInv, FinalInv, [Next]_vars
  PROVE  FinalInv' /\ (status = "deleted" => status' = "deleted")
<1>1. Apart("finish")'
  BY ApartStep DEF FinishIsAlone, FinalInv
<1>2. ASSUME status = "deleted" PROVE status' = "deleted"
  BY <1>2, StatusWriters DEF FinalInv, FinishCommit, DeleteCommit, At, Busy, Idle
<1>3. ASSUME status' = "deleted", NEW o \in Requests PROVE ~Busy(o, "finish")'
  <2>1. CASE status = "deleted"
    <3>1. ~Busy(o, "finish")
      BY <2>1 DEF FinalInv
    <3>2. ASSUME NEW r \in Requests, Handle(r) PROVE ~Busy(o, "finish")'
      BY <3>1, <3>2, HandleAdvances DEF ShapeInv, Advances, Busy
    <3>3. ASSUME NEW r \in Requests, Issue(r) PROVE FALSE
      BY <2>1, <3>3, IssueLoads DEF MayLoad, Found
    <3>4. req' = req => ~Busy(o, "finish")'
      BY <3>1 DEF Busy
    <3> QED
      BY <3>2, <3>3, <3>4 DEF Next, vars, Put, AnswerVerified
  <2>2. CASE status # "deleted"
    <3>1. PICK r \in Requests : FinishCommit(r) \/ DeleteCommit(r)
      BY <1>3, <2>2, StatusWriters
    <3>2. Loaded(req[r]) /\ req[r] # Idle /\ Advances(r)
      BY <3>1, HandleAdvances DEF ShapeInv, Handle, Advances
    <3>3. CASE FinishCommit(r)
      <4>1. req[r].arg \in 0..MaxParts
        BY <3>2, <3>3, ServerAssumption DEF FinishCommit, At, Loaded
      <4>2. Verdict(VerifiedIn(req[r].row), req[r].arg) # "deleted"
        BY <4>1 DEF Verdict
      <4> QED
        BY <1>3, <2>2, <3>3, <4>2 DEF FinishCommit, Written
    <3>4. CASE DeleteCommit(r)
      <4>1. Busy(r, "delete")
        BY <3>2, <3>4 DEF DeleteCommit, At, Busy
      <4>2. ~Busy(o, "finish")
        BY <4>1 DEF FinalInv, Apart
      <4> QED
        BY <3>2, <4>2 DEF Advances, Busy
    <3> QED
      BY <3>1, <3>3, <3>4
  <2> QED
    BY <2>1, <2>2
<1> QED
  BY <1>1, <1>2, <1>3 DEF FinalInv

LEMMA FinalAlways == ASSUME FinishIsAlone PROVE Spec => [](ShapeInv /\ FinalInv)
<1>1. Init => FinalInv
  BY DEF Init, FinalInv, Apart, Busy
<1>2. ShapeInv /\ FinalInv /\ [Next]_vars => FinalInv'
  BY FinalStep
<1> QED
  BY <1>1, <1>2, ShapeAlways, PTL DEF Spec

\* A finish that loaded the recording before a delete committed can write its
\* verdict over "deleted" (ServerUndelete.cfg). It is the only handler that can,
\* and the ones that run at the commit are the last: once no finish is left, the
\* recording is deleted for good, whatever else overlaps.
Settled == status = "deleted" /\ Running("finish") = {}

THEOREM DeletionSettles == Spec => [](Settled => [](status = "deleted"))
<1>1. ASSUME ShapeInv, Settled, [Next]_vars PROVE Settled'
  <2>1. ReqOK /\ \A r \in Requests : ~Busy(r, "finish")
    BY <1>1 DEF ShapeInv, Settled, Running, Busy
  <2>2. status' = "deleted"
    BY <1>1, <2>1, StatusWriters DEF Settled, FinishCommit, DeleteCommit, At, Busy, Idle
  <2>3. ASSUME NEW o \in Requests PROVE ~Busy(o, "finish")'
    <3>1. ASSUME NEW r \in Requests, Handle(r) PROVE ~Busy(o, "finish")'
      BY <2>1, <3>1, HandleAdvances DEF Advances, Busy
    <3>2. ASSUME NEW r \in Requests, Issue(r) PROVE FALSE
      BY <1>1, <2>1, <3>2, IssueLoads DEF MayLoad, Found, Settled
    <3>3. req' = req => ~Busy(o, "finish")'
      BY <2>1 DEF Busy
    <3> QED
      BY <1>1, <3>1, <3>2, <3>3 DEF Next, vars, Put, AnswerVerified
  <2> QED
    BY <2>2, <2>3 DEF Settled, Running, Busy
<1>2. Settled => status = "deleted"
  BY DEF Settled
<1> QED
  BY <1>1, <1>2, ShapeAlways, PTL DEF Spec

-----------------------------------------------------------------------------
(* Finishes                                                                *)

\* What a finish saw verified still is: it does not overlap a delete.
SeenInv ==
  \A r \in Requests : Busy(r, "finish") =>
    \A n \in Single : req[r].row[n] = "verified" => row[n] = "verified"

LEMMA SeenStep ==
  ASSUME ShapeInv, ToldInv, FinalInv, SeenInv, [Next]_vars
  PROVE  SeenInv'
<1>1. SUFFICES ASSUME NEW r \in Requests, Busy(r, "finish")', NEW n \in Single,
                      req'[r].row[n] = "verified"
               PROVE  row'[n] = "verified"
  BY DEF SeenInv
<1>2. CASE req[r] = Idle
  <2>1. ASSUME NEW o \in Requests, Handle(o) PROVE FALSE
    BY <1>1, <1>2, <2>1, HandleAdvances DEF ShapeInv, Advances, Busy
  <2>2. ASSUME NEW o \in Requests, Issue(o) PROVE row'[n] = "verified"
    <3>1. o = r
      BY <1>1, <1>2, <2>2, IssueLoads DEF ShapeInv, Busy
    <3> QED
      BY <1>1, <2>2, <3>1, IssueLoads DEF Saw, Busy, partVars
  <2>3. req' # req
    BY <1>1, <1>2 DEF Busy
  <2> QED
    BY <2>1, <2>2, <2>3 DEF Next, vars, Put, AnswerVerified
<1>3. CASE req[r] # Idle
  <2>1. req[r].kind = "finish" /\ req[r].row = req'[r].row
    <3>1. ASSUME NEW o \in Requests, Handle(o)
          PROVE  req[r].kind = "finish" /\ req[r].row = req'[r].row
      BY <1>1, <3>1, HandleAdvances DEF ShapeInv, Advances, Busy
    <3>2. ASSUME NEW o \in Requests, Issue(o)
          PROVE  req[r].kind = "finish" /\ req[r].row = req'[r].row
      BY <1>1, <1>3, <3>2, IssueLoads DEF ShapeInv, Busy
    <3>3. req' = req => req[r].kind = "finish" /\ req[r].row = req'[r].row
      BY <1>1 DEF Busy
    <3> QED
      BY <3>1, <3>2, <3>3 DEF Next, vars, Put, AnswerVerified
  <2>2. row[n] = "verified"
    BY <1>1, <1>3, <2>1 DEF SeenInv, Busy
  <2>3. \A o \in Requests : ~DeleteCommit(o)
    BY <1>3, <2>1 DEF FinalInv, Apart, Busy, DeleteCommit, At, Idle
  <2> QED
    BY <2>2, <2>3, OnlyDeletesUnverify
<1> QED
  BY <1>2, <1>3

LEMMA SeenAlways ==
  ASSUME FinishIsAlone
  PROVE  Spec => [](ShapeInv /\ ToldInv /\ FinalInv /\ SeenInv)
<1>1. Init => SeenInv
  BY DEF Init, SeenInv, Busy
<1>2. ShapeInv /\ ToldInv /\ FinalInv /\ SeenInv /\ [Next]_vars => SeenInv'
  BY SeenStep
<1> QED
  BY <1>1, <1>2, ToldAlways, FinalAlways, PTL DEF Spec

\* A verdict of "ready" is backed by the rows the finish has seen.
LEMMA VerdictIsBacked ==
  ASSUME NEW e \in 0..MaxParts, NEW rows, Verdict(VerifiedIn(rows), e) = "ready"
  PROVE  \A n \in 1..e : n \in Parts /\ rows[n] = "verified"
<1>1. e # 0
  BY DEF Verdict
<1>2. e > 0
  BY <1>1
<1>3. 1..e \subseteq VerifiedIn(rows)
  BY <1>1, <1>2 DEF Verdict
<1> QED
  BY <1>3 DEF VerifiedIn

\* Rows that back a verdict are lost by nothing but a delete, which is a verdict
\* of its own.
LEMMA BackedStays ==
  ASSUME ShapeInv, ToldInv, [Next]_vars, status = "ready", ReadyIsBacked,
         expected \in 0..MaxParts, UNCHANGED <<status, expected>>
  PROVE  ReadyIsBacked'
<1>1. \A r \in Requests : ~DeleteCommit(r)
  BY DEF DeleteCommit
<1>2. \A n \in 1..expected : n \in Parts /\ (n \in Single => row[n] = "verified")
  BY ServerAssumption DEF ReadyIsBacked, Parts, Single
<1>3. \A n \in 1..expected : n \in Single => row'[n] = "verified"
  BY <1>1, <1>2, OnlyDeletesUnverify
<1> QED
  BY <1>2, <1>3 DEF ReadyIsBacked, Single

OneExpected == \A e, f \in Expected : e = f

\* Finishes send one count, so it is also the count of a verdict that is kept.
FinishInv ==
  /\ ReadyIsBacked
  /\ status = "ready" => expected \in Expected
  /\ expected \in Expected \cup {Null}
  /\ \A r \in Requests : req[r] # Idle /\ req[r].expected # Null =>
       req[r].expected \in Expected /\ expected = req[r].expected

LEMMA FinishStep ==
  ASSUME OneExpected, ShapeInv, ToldInv, FinalInv, SeenInv, FinishInv, [Next]_vars
  PROVE  FinishInv'
<1>0. \A e \in Expected : e \in 0..MaxParts /\ e # Null
  BY ServerAssumption DEF Null
<1>1. CASE UNCHANGED <<status, expected>>
  <2>1. ReadyIsBacked'
    <3>1. CASE status = "ready"
      BY <1>0, <1>1, <3>1, BackedStays DEF FinishInv
    <3>2. CASE status # "ready"
      BY <1>1, <3>2 DEF ReadyIsBacked
    <3> QED
      BY <3>1, <3>2
  <2>2. ASSUME NEW o \in Requests, req'[o] # Idle, req'[o].expected # Null
        PROVE  req'[o].expected \in Expected /\ expected = req'[o].expected
    <3>1. ASSUME NEW r \in Requests, Handle(r)
          PROVE  req[o] # Idle /\ req[o].expected = req'[o].expected
      BY <2>2, <3>1, HandleAdvances DEF ShapeInv, Advances
    <3>2. ASSUME NEW r \in Requests, Issue(r)
          PROVE  req'[o].expected = expected \/ req'[o] = req[o]
      BY <2>2, <3>2, IssueLoads DEF Saw
    <3>3. \/ req'[o].expected = expected
          \/ req[o] # Idle /\ req[o].expected = req'[o].expected
      BY <2>2, <3>1, <3>2 DEF Next, vars, Put, AnswerVerified
    <3> QED
      BY <2>2, <3>3 DEF FinishInv
  <2> QED
    BY <1>1, <2>1, <2>2 DEF FinishInv
<1>2. ASSUME NEW r \in Requests, DeleteCommit(r) PROVE FinishInv'
  <2>1. Handle(r) /\ status' = "deleted" /\ expected' = expected
    BY <1>2 DEF Handle, DeleteCommit
  <2>2. Advances(r)
    BY <2>1, HandleAdvances DEF ShapeInv
  <2> QED
    BY <2>1, <2>2 DEF FinishInv, Advances, ReadyIsBacked
<1>3. ASSUME NEW r \in Requests, FinishCommit(r) PROVE FinishInv'
  <2> DEFINE e == req[r].arg
             seen == VerifiedIn(req[r].row)
  <2>1. /\ Busy(r, "finish") /\ Advances(r) /\ Return(r) /\ row' = row
        /\ status' = Written(req[r].status, Verdict(seen, e), status)
        /\ expected' = Written(req[r].expected, e, expected)
    BY <1>3, HandleAdvances DEF Handle, Advances, ShapeInv, FinishCommit, At, Busy, partVars
  <2>2. e \in Expected /\ req'[r] = Idle
    BY <2>1, ReturnAdvances DEF ShapeInv, ReqOK, Loaded, Busy
  <2>3. expected' = e
    BY <1>0, <2>1, <2>2 DEF Written, FinishInv, Busy
  <2>4. Verdict(seen, e) = "ready" => \A n \in 1..e : n \in Single => row[n] = "verified"
    <3> SUFFICES ASSUME Verdict(seen, e) = "ready"
                 PROVE  \A n \in 1..e : n \in Single => row[n] = "verified"
      OBVIOUS
    <3>1. \A n \in 1..e : n \in Parts /\ req[r].row[n] = "verified"
      BY <1>0, <2>2, VerdictIsBacked
    <3> QED
      BY <2>1, <3>1 DEF SeenInv
  <2>5. status = "ready" => \A n \in 1..e : n \in Single => row[n] = "verified"
    BY <1>0, <2>2, ServerAssumption DEF FinishInv, OneExpected, ReadyIsBacked, Single
  <2>6. status' = "ready" => \A n \in 1..e : n \in Single => row[n] = "verified"
    BY <2>1, <2>4, <2>5 DEF Written
  <2>7. ReadyIsBacked'
    BY <1>0, <2>1, <2>2, <2>3, <2>6, ServerAssumption DEF ReadyIsBacked, Single, Parts
  <2>8. ASSUME NEW o \in Requests, req'[o] # Idle, req'[o].expected # Null
        PROVE  req'[o].expected \in Expected /\ e = req'[o].expected
    BY <2>1, <2>2, <2>8 DEF Advances, FinishInv, OneExpected
  <2> HIDE DEF e
  <2> QED
    BY <2>2, <2>3, <2>7, <2>8 DEF FinishInv
<1> QED
  BY <1>1, <1>2, <1>3, StatusWriters DEF ShapeInv

\* "ready" is backed by the rows of parts with one blob, however many completes,
\* deletes and finishes overlap, if the finishes agree on the number of parts and
\* a delete waits for them.
THEOREM ReadyHasItsRows ==
  ASSUME FinishIsAlone, OneExpected
  PROVE  Spec => []ReadyIsBacked
<1>1. Init => FinishInv
  BY DEF Init, FinishInv, ReadyIsBacked
<1>2. ShapeInv /\ ToldInv /\ FinalInv /\ SeenInv /\ FinishInv /\ [Next]_vars => FinishInv'
  BY FinishStep
<1>3. FinishInv => ReadyIsBacked
  BY DEF FinishInv
<1> QED
  BY <1>1, <1>2, <1>3, SeenAlways, PTL DEF Spec

\* Finishes come one after the other.
InTurn == \A r, o \in Requests : Busy(r, "finish") /\ Busy(o, "finish") => r = o

\* A finish knows the status and the count it is about to replace.
TurnInv ==
  /\ ReadyIsBacked
  /\ status = "ready" => expected \in Expected
  /\ \A r \in Requests : Busy(r, "finish") =>
       req[r].status = status /\ req[r].expected = expected

LEMMA TurnStep ==
  ASSUME ShapeInv, ToldInv, FinalInv, SeenInv, InTurn, TurnInv, [Next]_vars
  PROVE  TurnInv'
<1>0. \A e \in Expected : e \in 0..MaxParts
  BY ServerAssumption
<1>1. CASE UNCHANGED <<status, expected>>
  <2>1. ReadyIsBacked'
    <3>1. CASE status = "ready"
      BY <1>0, <1>1, <3>1, BackedStays DEF TurnInv
    <3>2. CASE status # "ready"
      BY <1>1, <3>2 DEF ReadyIsBacked
    <3> QED
      BY <3>1, <3>2
  <2>2. ASSUME NEW o \in Requests, Busy(o, "finish")'
        PROVE  req'[o].status = status /\ req'[o].expected = expected
    <3>1. ASSUME NEW r \in Requests, Handle(r)
          PROVE  /\ Busy(o, "finish") /\ req[o].status = req'[o].status
                 /\ req[o].expected = req'[o].expected
      BY <2>2, <3>1, HandleAdvances DEF ShapeInv, Advances, Busy
    <3>2. ASSUME NEW r \in Requests, Issue(r)
          PROVE  \/ req'[o].status = status /\ req'[o].expected = expected
                 \/ req'[o] = req[o]
      BY <2>2, <3>2, IssueLoads DEF Saw, Busy
    <3>3. \/ req'[o].status = status /\ req'[o].expected = expected
          \/ /\ Busy(o, "finish") /\ req[o].status = req'[o].status
             /\ req[o].expected = req'[o].expected
      BY <2>2, <3>1, <3>2 DEF Next, vars, Put, AnswerVerified, Busy
    <3> QED
      BY <3>3 DEF TurnInv
  <2> QED
    BY <1>1, <2>1, <2>2 DEF TurnInv
<1>2. ASSUME NEW r \in Requests, DeleteCommit(r) PROVE TurnInv'
  <2>1. Handle(r) /\ status' = "deleted" /\ Busy(r, "delete")
    BY <1>2 DEF Handle, DeleteCommit, At, Busy, Idle
  <2>2. Advances(r) /\ \A o \in Requests : ~Busy(o, "finish")
    BY <2>1, HandleAdvances DEF ShapeInv, FinalInv, Apart
  <2>3. \A o \in Requests : ~Busy(o, "finish")'
    BY <2>2 DEF Advances, Busy
  <2> QED
    BY <2>1, <2>3 DEF TurnInv, ReadyIsBacked
<1>3. ASSUME NEW r \in Requests, FinishCommit(r) PROVE TurnInv'
  <2> DEFINE e == req[r].arg
             seen == VerifiedIn(req[r].row)
  <2>1. /\ Busy(r, "finish") /\ Advances(r) /\ Return(r) /\ row' = row
        /\ status' = Written(req[r].status, Verdict(seen, e), status)
        /\ expected' = Written(req[r].expected, e, expected)
    BY <1>3, HandleAdvances DEF Handle, Advances, ShapeInv, FinishCommit, At, Busy, partVars
  <2>2. e \in Expected /\ req'[r] = Idle
    BY <2>1, ReturnAdvances DEF ShapeInv, ReqOK, Loaded, Busy
  <2>3. status' = Verdict(seen, e) /\ expected' = e
    BY <2>1 DEF Written, TurnInv
  <2>4. Verdict(seen, e) = "ready" => \A n \in 1..e : n \in Single => row[n] = "verified"
    <3> SUFFICES ASSUME Verdict(seen, e) = "ready"
                 PROVE  \A n \in 1..e : n \in Single => row[n] = "verified"
      OBVIOUS
    <3>1. \A n \in 1..e : n \in Parts /\ req[r].row[n] = "verified"
      BY <1>0, <2>2, VerdictIsBacked
    <3> QED
      BY <2>1, <3>1 DEF SeenInv
  <2>5. ReadyIsBacked'
    <3>1. e \in 0..MaxParts /\ MaxParts \in Nat
      BY <1>0, <2>2, ServerAssumption
    <3>2. status' = "ready" => \A n \in 1..e : n \in Single => row'[n] = "verified"
      BY <2>1, <2>3, <2>4
    <3>3. \A n \in 1..e : n \in Parts
      BY <3>1 DEF Parts
    <3> HIDE DEF e, seen
    <3> QED
      BY <2>3, <3>2, <3>3 DEF ReadyIsBacked, Single
  <2>6. \A o \in Requests : ~Busy(o, "finish")'
    BY <2>1, <2>2 DEF InTurn, Advances, Busy
  <2> HIDE DEF e
  <2> QED
    BY <2>2, <2>3, <2>5, <2>6 DEF TurnInv
<1> QED
  BY <1>1, <1>2, <1>3, StatusWriters DEF ShapeInv

\* When finishes come one after the other they need not agree on the number of
\* parts: a recovery may send another count than the page did, and "ready" is
\* still backed by every row of the count that stands next to it.
THEOREM FinishesInTurn ==
  ASSUME FinishIsAlone
  PROVE  Spec /\ []InTurn => []ReadyIsBacked
<1>1. Init => TurnInv
  BY DEF Init, TurnInv, ReadyIsBacked, Busy
<1>2. ShapeInv /\ ToldInv /\ FinalInv /\ SeenInv /\ InTurn /\ TurnInv /\ [Next]_vars => TurnInv'
  BY TurnStep
<1>3. TurnInv => ReadyIsBacked
  BY DEF TurnInv
<1> QED
  BY <1>1, <1>2, <1>3, SeenAlways, PTL DEF Spec

-----------------------------------------------------------------------------
(* Deletions, when uploads, upload-urls and finishes do not overlap them    *)

DeleteIsAlone == Overlap \cap {"put", "url", "finish"} = {}

\* A file and a usable link belong to a row, and a delete knows every row.
DeleteInv ==
  /\ status = "deleted" =>
       /\ \A r \in Requests : ~Busy(r, "url")
       /\ \A n \in Parts : row[n] = "none" /\ file[n] = 0
  /\ status # "deleted" => \A n \in links : row[n] # "none"
  /\ \A n \in Parts : file[n] # 0 => row[n] # "none"
  /\ \A r \in Requests : Busy(r, "url") =>
       \A n \in Parts : req[r].row[n] # "none" => row[n] # "none"
  /\ \A r \in Requests : Busy(r, "delete") =>
       /\ \A n \in Parts : row[n] # "none" => req[r].row[n] # "none"
       /\ req[r].at = "filesGone" => \A n \in Parts : file[n] = 0

\* A step of one handler that adds no row, no file and no link, and does not
\* change the status.
LEMMA DeleteInvIdles ==
  ASSUME ShapeInv, DeleteInv, NEW r \in Requests, Advances(r),
         req'[r] # Idle => req'[r].at # "filesGone",
         UNCHANGED <<status, links, file>>,
         \A n \in Parts : row'[n] = "none" <=> row[n] = "none"
  PROVE  DeleteInv'
<1>1. \A o \in Requests : req'[o] # Idle =>
        /\ req[o] # Idle /\ req'[o].kind = req[o].kind /\ req'[o].row = req[o].row
        /\ req'[o].at = "filesGone" => req[o].at = "filesGone"
  BY DEF Advances
<1> QED
  BY <1>1 DEF DeleteInv, Busy, ShapeInv, RowsOK

LEMMA DeleteStep ==
  ASSUME DeleteIsAlone, ShapeInv, Apart("url"), FinalInv, DeleteInv, [Next]_vars
  PROVE  DeleteInv'
<1>0. /\ row \in [Parts -> Rows] /\ file \in [Parts -> Nat] /\ links \subseteq Parts
  BY DEF ShapeInv, RowsOK
<1>1. CASE UNCHANGED vars
  BY <1>1 DEF vars, partVars, recordingVars, DeleteInv, Busy
<1>2. ASSUME NEW r \in Requests, Issue(r) PROVE DeleteInv'
  <2>1. /\ req[r] = Idle
        /\ req'[r] # Idle /\ Loaded(req'[r]) /\ MayLoad(req'[r].kind)
        /\ req'[r].at = "loaded" /\ \A n \in Parts : req'[r].row[n] # "none" => row[n] # "none"
        /\ req'[r].kind = "delete" => req'[r].row = row
        /\ \A o \in Requests : o # r => req'[o] = req[o]
        /\ UNCHANGED <<status, row, file, links>>
    BY <1>2, IssueLoads DEF Saw, partVars, recordingVars
  <2>2. status # "deleted"
    BY <2>1 DEF MayLoad, Found
  <2> QED
    BY <2>1, <2>2 DEF DeleteInv, Busy
<1>3. ASSUME NEW r \in Requests, Handle(r)
      PROVE  DeleteInv'
  <2>1. Advances(r) /\ Loaded(req[r]) /\ ReqOK /\ req[r] # Idle
        /\ \A o \in Requests : o # r => req'[o] = req[o]
    BY <1>3, HandleAdvances DEF ShapeInv, Advances
  <2>2. CASE UrlInsert(r)
    <3>1. req'[r] # Idle => req'[r].at # "filesGone"
      <4>1. req'[r] # Idle => Loaded(req'[r]) /\ req'[r].kind = "url"
        BY <2>1, <2>2 DEF Advances, UrlInsert, At
      <4> QED
        BY <4>1 DEF Loaded
    <3> QED
      BY <2>1, <2>2, <3>1, DeleteInvIdles DEF UrlInsert, recordingVars, partVars
  <2>3. CASE UrlCommit(r)
    <3> DEFINE p == req[r].n
    <3>1. /\ p \in Parts /\ Return(r) /\ Busy(r, "url")
          /\ row' = IF req[r].at = "inserted" THEN [row EXCEPT ![p] = "pending"] ELSE row
          /\ req[r].at = "inserted" \/ req[r].row[p] # "none"
          /\ links' = links \cup {p}
          /\ UNCHANGED <<status, file>>
      BY <2>1, <2>3 DEF UrlCommit, At, Loaded, Busy, recordingVars
    <3>2. req'[r] = Idle
      BY <2>1, <3>1, ReturnAdvances DEF Advances
    <3>3. /\ \A o \in Requests : ~Busy(o, "delete")
          /\ status # "deleted"
      BY <3>1 DEF DeleteInv, Apart
    <3>4. row'[p] # "none" /\ \A n \in Parts : row[n] # "none" => row'[n] # "none"
      BY <1>0, <3>1 DEF DeleteInv
    <3>5. \A o \in Requests : ~Busy(o, "delete")'
      BY <2>1, <3>2, <3>3 DEF Busy
    <3> HIDE DEF p
    <3> QED
      BY <1>0, <2>1, <3>1, <3>2, <3>3, <3>4, <3>5 DEF DeleteInv, Busy
  <2>4. CASE CompleteStat(r)
    <3>1. req'[r] # Idle => Loaded(req'[r]) /\ req'[r].kind = "complete"
      BY <2>1, <2>4 DEF Advances, CompleteStat, At
    <3>2. req'[r] # Idle => req'[r].at # "filesGone"
      BY <3>1 DEF Loaded
    <3> QED
      BY <2>1, <2>4, <3>2, DeleteInvIdles DEF CompleteStat, recordingVars, partVars
  <2>5. CASE CompleteCommit(r) \/ CompleteDemote(r)
    <3>1. req'[r] = Idle
      BY <2>1, <2>5, ReturnAdvances DEF CompleteCommit, CompleteDemote, Advances
    <3>2. \A n \in Parts : row'[n] = "none" <=> row[n] = "none"
      BY <1>0, <2>5 DEF CompleteCommit, CompleteDemote, partVars
    <3> QED
      BY <2>1, <2>5, <3>1, <3>2, DeleteInvIdles DEF CompleteCommit, CompleteDemote, recordingVars
  <2>6. CASE FinishCommit(r)
    <3>1. Busy(r, "finish") /\ Return(r) /\ UNCHANGED <<row, file, links>>
          /\ status' = Written(req[r].status, Verdict(VerifiedIn(req[r].row), req[r].arg), status)
      BY <2>1, <2>6 DEF FinishCommit, At, Busy, partVars
    <3>2. req'[r] = Idle
      BY <2>1, <3>1, ReturnAdvances DEF Advances
    <3>3. status # "deleted"
      BY <3>1 DEF FinalInv
    <3>4. req[r].arg \in 0..MaxParts
      BY <2>1, <3>1, ServerAssumption DEF Loaded, Busy
    <3>5. Verdict(VerifiedIn(req[r].row), req[r].arg) # "deleted"
      BY <3>4 DEF Verdict
    <3>6. status' # "deleted"
      BY <3>1, <3>3, <3>5 DEF Written
    <3> QED
      BY <2>1, <3>1, <3>2, <3>3, <3>6 DEF DeleteInv, Busy
  <2>7. CASE TranscriptBegin(r) \/ TranscriptEnd(r) \/ Interrupted(r)
    <3>1. req'[r] # Idle => req'[r].at # "filesGone"
      <4>1. req'[r] # Idle => req'[r].at = "reading"
        BY <2>1, <2>7, ReturnAdvances, GotoAdvances DEF TranscriptBegin, TranscriptEnd,
           Interrupted, Stages
      <4> QED
        BY <4>1
    <3> QED
      BY <2>1, <2>7, <3>1, DeleteInvIdles DEF TranscriptBegin, TranscriptEnd, Interrupted,
         recordingVars, partVars
  <2>8. CASE DeleteFiles(r)
    <3>1. Busy(r, "delete") /\ Goto(r, "filesGone") /\ UNCHANGED <<status, row, links>>
          /\ file' = [n \in Parts |-> IF n \in Known(r) THEN 0 ELSE file[n]]
      BY <2>1, <2>8 DEF DeleteFiles, At, Busy, recordingVars, partVars
    <3>2. \A n \in Parts : file'[n] = 0
      BY <3>1 DEF DeleteInv, Known
    <3>3. req'[r] # Idle /\ req'[r].kind = "delete" /\ req'[r].row = req[r].row
      BY <2>1, <3>1, GotoAdvances DEF Advances, Busy, Stages
    <3> QED
      BY <2>1, <3>1, <3>2, <3>3 DEF DeleteInv, Busy
  <2>9. CASE DeleteCommit(r)
    <3>1. Busy(r, "delete") /\ Return(r) /\ UNCHANGED <<file, links>> /\ status' = "deleted"
          /\ req[r].at = "filesGone"
          /\ row' = [n \in Parts |-> IF n \in Known(r) THEN "none" ELSE row[n]]
      BY <2>1, <2>9 DEF DeleteCommit, At, Busy
    <3>2. req'[r] = Idle
      BY <2>1, <3>1, ReturnAdvances DEF Advances
    <3>3. \A n \in Parts : row'[n] = "none" /\ file'[n] = 0
      BY <3>1 DEF DeleteInv, Known
    <3>4. \A o \in Requests : ~Busy(o, "url")'
      BY <2>1, <3>1, <3>2 DEF Apart, Busy
    <3> QED
      BY <2>1, <3>1, <3>2, <3>3, <3>4 DEF DeleteInv, Busy
  <2> QED
    BY <1>3, <2>2, <2>3, <2>4, <2>5, <2>6, <2>7, <2>8, <2>9 DEF Handle
<1>4. ASSUME NEW n \in Parts, NEW s \in Sizes[n], Put(n, s) PROVE DeleteInv'
  <2>1. /\ n \in links /\ status # "deleted" /\ Running("delete") = {}
        /\ file' = [file EXCEPT ![n] = s] /\ UNCHANGED <<status, row, links, req>>
    BY <1>4 DEF Put, DeleteIsAlone, partVars, recordingVars
  <2>2. \A r \in Requests : ~Busy(r, "delete")
    BY <2>1 DEF Running, Busy
  <2>3. \A m \in Parts : file'[m] # 0 => row[m] # "none"
    BY <1>0, <2>1 DEF DeleteInv
  <2> QED
    BY <2>1, <2>2, <2>3 DEF DeleteInv, Busy
<1>5. ASSUME NEW n \in Parts, AnswerVerified(n) PROVE DeleteInv'
  BY <1>5 DEF AnswerVerified, partVars, recordingVars, DeleteInv, Busy
<1> QED
  BY <1>1, <1>2, <1>3, <1>4, <1>5 DEF Next, vars, recordingVars

LEMMA DeletesAlways ==
  ASSUME DeleteIsAlone
  PROVE  Spec => [](ShapeInv /\ Apart("url") /\ FinalInv /\ DeleteInv)
<1>1. FinishIsAlone /\ "url" \notin Overlap /\ "url" # "delete"
  BY DEF DeleteIsAlone, FinishIsAlone
<1>2. Init => Apart("url") /\ DeleteInv
  BY DEF Init, DeleteInv, Apart, Busy
<1>3. ShapeInv /\ Apart("url") /\ [Next]_vars => Apart("url")'
  BY <1>1, ApartStep
<1>4. ShapeInv /\ Apart("url") /\ FinalInv /\ DeleteInv /\ [Next]_vars => DeleteInv'
  BY DeleteStep
<1>5. Spec => [](ShapeInv /\ FinalInv)
  BY <1>1, FinalAlways
<1> QED
  BY <1>2, <1>3, <1>4, <1>5, PTL DEF Spec

\* A delete leaves no file and no row.
THEOREM DeletionIsComplete == ASSUME DeleteIsAlone PROVE Spec => []DeletedLeavesNoFile
<1>1. DeleteInv => DeletedLeavesNoFile
  BY DEF DeleteInv, DeletedLeavesNoFile
<1> QED
  BY <1>1, DeletesAlways, PTL
-----------------------------------------------------------------------------
(* The type invariant. Only the bound on total_bytes takes work: UpTo is a *)
(* recursive function, which has to be shown to exist before it says       *)
(* anything, and MaxSize is a maximum that has to exist as well.           *)

\* A nonempty set of naturals has a least element.
LEMMA LeastNumber ==
  ASSUME NEW S \in SUBSET Nat, S # {}
  PROVE  \E n \in S : \A m \in S : n <= m
<1>1. PICK n \in S : \A m \in S : ~(<<m, n>> \in OpToRel(<, Nat))
  BY NatLessThanWellFounded, WFMin, Zenon
<1>2. \A m \in S : ~(m < n)
  BY <1>1 DEF OpToRel
<1> QED
  BY <1>2

\* What a set of numbers may not skip, it contains.
LEMMA Climb ==
  ASSUME NEW N \in Nat, NEW G, 0 \in G, \A k \in 1..N : k - 1 \in G => k \in G
  PROVE  0..N \subseteq G
<1> SUFFICES ASSUME ~(0..N \subseteq G) PROVE FALSE
  OBVIOUS
<1> DEFINE B == {k \in 0..N : k \notin G}
<1>1. B \in SUBSET Nat /\ B # {}
  OBVIOUS
<1>2. PICK k \in B : \A m \in B : k <= m
  BY <1>1, LeastNumber
<1>3. k \in 1..N /\ k - 1 \in 0..N
  BY <1>2
<1>4. k - 1 \in G
  BY <1>2, <1>3
<1> QED
  BY <1>2, <1>3, <1>4

\* A finite set of naturals with 0 in it has a largest element.
LEMMA Largest ==
  ASSUME NEW S \in SUBSET Nat, IsFiniteSet(S), 0 \in S
  PROVE  Max(S) \in S /\ \A x \in S : x <= Max(S)
<1>1. PICK n \in Nat : ExistsSurjection(1..n, S)
  BY FS_NatSurjection
<1>2. PICK f \in [1..n -> S] : \A x \in S : \E k \in 1..n : f[k] = x
  BY <1>1 DEF ExistsSurjection, Surjection
<1> DEFINE G == {k \in Nat : \E b \in Nat : \A j \in 1..n : j <= k => f[j] <= b}
<1>3. 0 \in G
  OBVIOUS
<1>4. ASSUME NEW k \in 1..n, k - 1 \in G PROVE k \in G
  <2>1. PICK b \in Nat : \A j \in 1..n : j <= k - 1 => f[j] <= b
    BY <1>4
  <2>2. f[k] \in Nat
    BY <1>2
  <2>3. \E c \in Nat : b <= c /\ f[k] <= c
    BY <2>2
  <2>4. PICK c \in Nat : b <= c /\ f[k] <= c
    BY <2>3
  <2>5. ASSUME NEW j \in 1..n, j <= k PROVE f[j] <= c
    <3>1. f[j] \in Nat
      BY <1>2
    <3>2. j = k \/ j <= k - 1
      BY <2>5
    <3> QED
      BY <2>1, <2>4, <3>1, <3>2
  <2> QED
    BY <2>5
<1>5. n \in G
  <2> HIDE DEF G
  <2> QED
    BY <1>3, <1>4, Climb
<1> DEFINE U == {b \in Nat : \A x \in S : x <= b}
<1>6. U # {}
  BY <1>2, <1>5
<1>7. PICK m \in U : \A b \in U : m <= b
  BY <1>6, LeastNumber
<1>8. m \in S
  <2> SUFFICES ASSUME m \notin S PROVE FALSE
    OBVIOUS
  <2>1. m \in Nat /\ m # 0
    BY <1>7
  <2>2. m - 1 \in Nat /\ \A x \in S : x <= m - 1
    BY <1>7, <2>1
  <2> QED
    BY <1>7, <2>1, <2>2
<1>9. m \in S /\ \A x \in S : m >= x
  BY <1>7, <1>8
<1>10. Max(S) \in S /\ \A x \in S : Max(S) >= x
  BY <1>9 DEF Max
<1> QED
  BY <1>10

\* MaxSize is the largest size there is.
LEMMA MaxSizeBounds ==
  MaxSize \in Nat /\ \A n \in Parts : \A s \in Sizes[n] \cup {0} : s <= MaxSize
<1> DEFINE Families == {Sizes[n] : n \in Parts}
           All == {0} \cup UNION Families
<1>1. IsFiniteSet(Parts)
  BY ServerAssumption, FS_Interval DEF Parts
<1>2. Sizes \in Surjection(Parts, Families)
  BY ServerAssumption DEF Surjection, Parts
<1>3. IsFiniteSet(Families)
  BY <1>1, <1>2, FS_Surjection
<1>4. IsFiniteSet(UNION Families)
  BY <1>3, FS_UNION, ServerAssumption DEF Parts
<1>5. IsFiniteSet(All)
  BY <1>4, FS_Singleton, FS_Union
<1>6. All \in SUBSET Nat /\ 0 \in All
  BY SizeNames
<1>7. MaxSize = Max(All)
  BY DEF MaxSize
<1>8. MaxSize \in All /\ \A x \in All : x <= MaxSize
  BY <1>5, <1>6, <1>7, Largest
<1> QED
  BY <1>6, <1>8

\* UpTo is the sum it is written as.
LEMMA UpToAdds ==
  ASSUME NEW s, NEW parts, s.size \in [Parts -> Nat]
  PROVE  /\ UpTo(s, parts)[0] = 0
         /\ \A k \in 1..MaxParts :
              UpTo(s, parts)[k] = UpTo(s, parts)[k - 1] + (IF k \in parts THEN s.size[k] ELSE 0)
<1> DEFINE w(k) == IF k \in parts THEN s.size[k] ELSE 0
           Sums(f) == f = [k \in 0..MaxParts |-> IF k = 0 THEN 0 ELSE f[k - 1] + w(k)]
           Begins(k, f) == f[0] = 0 /\ \A j \in 1..k : f[j] = f[j - 1] + w(j)
           G == {k \in 0..MaxParts : \E f \in [0..k -> Nat] : Begins(k, f)}
<1>1. MaxParts \in Nat /\ \A k \in 1..MaxParts : w(k) \in Nat
  BY ServerAssumption DEF Parts
<1> HIDE DEF w
<1>2. 0 \in G
  <2> DEFINE g == [j \in 0..0 |-> 0]
  <2>1. g \in [0..0 -> Nat] /\ Begins(0, g)
    OBVIOUS
  <2> HIDE DEF g, Begins
  <2>2. \E f \in [0..0 -> Nat] : Begins(0, f)
    BY <2>1
  <2> QED
    BY <1>1, <2>2
<1>3. ASSUME NEW k \in 1..MaxParts, k - 1 \in G PROVE k \in G
  <2>1. PICK f \in [0..(k - 1) -> Nat] : Begins(k - 1, f)
    BY <1>3
  <2> DEFINE g == [j \in 0..k |-> IF j = k THEN f[k - 1] + w(k) ELSE f[j]]
  <2>2. g \in [0..k -> Nat]
    BY <1>1
  <2>3. g[0] = 0
    BY <1>1, <2>1
  <2>4. ASSUME NEW j \in 1..k PROVE g[j] = g[j - 1] + w(j)
    <3>1. CASE j = k
      BY <1>1, <3>1
    <3>2. CASE j # k
      <4>1. j \in 1..(k - 1)
        BY <1>1, <3>2
      <4> QED
        BY <1>1, <2>1, <4>1
    <3> QED
      BY <3>1, <3>2
  <2>5. Begins(k, g)
    BY <2>3, <2>4
  <2> HIDE DEF g, Begins
  <2>6. \E h \in [0..k -> Nat] : Begins(k, h)
    BY <2>2, <2>5
  <2> QED
    BY <1>1, <2>6
<1>4. MaxParts \in G
  <2> HIDE DEF G
  <2> QED
    BY <1>1, <1>2, <1>3, Climb
<1>5. PICK f \in [0..MaxParts -> Nat] : Begins(MaxParts, f)
  BY <1>4
<1>6. Sums(f)
  BY <1>1, <1>5
<1>7. UpTo(s, parts) = CHOOSE h : Sums(h)
  BY DEF UpTo, w
<1>8. Sums(UpTo(s, parts))
  <2> HIDE DEF Sums
  <2> QED
    BY <1>6, <1>7
<1> QED
  BY <1>1, <1>8 DEF w

\* Every part adds MaxSize at most.
LEMMA TotalBounds ==
  ASSUME NEW s, NEW parts, s.size \in [Parts -> Nat],
         \A n \in Parts : s.size[n] \in Sizes[n] \cup {0}
  PROVE  Total(s, parts) \in 0..(MaxParts * MaxSize)
<1> DEFINE f == UpTo(s, parts)
           w(k) == IF k \in parts THEN s.size[k] ELSE 0
           G == {k \in 0..MaxParts : f[k] \in Nat /\ f[k] <= k * MaxSize}
<1>1. MaxParts \in Nat /\ MaxSize \in Nat
  BY ServerAssumption, MaxSizeBounds
<1>2. f[0] = 0 /\ \A k \in 1..MaxParts : f[k] = f[k - 1] + w(k)
  BY UpToAdds
<1>3. \A k \in 1..MaxParts : w(k) \in Nat /\ w(k) <= MaxSize
  BY <1>1, MaxSizeBounds DEF Parts
<1> HIDE DEF f, w
<1>4. 0 \in G
  BY <1>1, <1>2
<1>5. ASSUME NEW k \in 1..MaxParts, k - 1 \in G PROVE k \in G
  <2>1. f[k - 1] \in Nat /\ f[k - 1] <= (k - 1) * MaxSize
    BY <1>5
  <2>2. f[k] \in Nat /\ f[k] <= (k - 1) * MaxSize + MaxSize
    BY <1>1, <1>2, <1>3, <2>1
  <2>3. (k - 1) * MaxSize + MaxSize = k * MaxSize
    BY <1>1
  <2> QED
    BY <1>1, <2>2, <2>3
<1>6. MaxParts \in G
  <2> HIDE DEF G
  <2> QED
    BY <1>1, <1>4, <1>5, Climb
<1> QED
  BY <1>1, <1>6 DEF f, Total

\* A handler saw sizes the parts may have.
SizesSeen ==
  \A r \in Requests :
    req[r] # Idle =>
      /\ req[r].size \in [Parts -> Nat]
      /\ \A n \in Parts : req[r].size[n] \in Sizes[n] \cup {0}

LEMMA SizesSeenStep == ASSUME ShapeInv, SizesSeen, [Next]_vars PROVE SizesSeen'
<1> SUFFICES ASSUME NEW o \in Requests, req'[o] # Idle
             PROVE  /\ req'[o].size \in [Parts -> Nat]
                    /\ \A n \in Parts : req'[o].size[n] \in Sizes[n] \cup {0}
  BY DEF SizesSeen
<1>1. ASSUME NEW r \in Requests, Handle(r)
      PROVE  req[o] # Idle /\ req'[o].size = req[o].size
  BY <1>1, HandleAdvances DEF ShapeInv, Advances
<1>2. ASSUME NEW r \in Requests, Issue(r) PROVE Saw(req'[o]) \/ req'[o] = req[o]
  BY <1>2, IssueLoads
<1>3. Saw(req'[o]) \/ (req[o] # Idle /\ req'[o].size = req[o].size)
  BY <1>1, <1>2 DEF Next, vars, Put, AnswerVerified
<1> QED
  BY <1>3 DEF SizesSeen, Saw, ShapeInv, RowsOK

ColumnsOK ==
  /\ status \in Outcomes
  /\ expected \in 0..MaxParts \cup {Null}
  /\ total \in 0..(MaxParts * MaxSize)
  /\ transcript \in {"none", "processing", "ready", "failed"}

LEMMA ColumnsStep == ASSUME ShapeInv, SizesSeen, ColumnsOK, [Next]_vars PROVE ColumnsOK'
<1>1. ASSUME NEW r \in Requests, FinishCommit(r) PROVE ColumnsOK'
  <2> DEFINE verified == VerifiedIn(req[r].row)
  <2>1. Loaded(req[r]) /\ req[r] # Idle
    BY <1>1, HandleAdvances DEF Handle, ShapeInv, Advances
  <2>2. req[r].arg \in 0..MaxParts
    BY <1>1, <2>1, ServerAssumption DEF FinishCommit, At, Loaded
  <2>3. Verdict(verified, req[r].arg) \in Outcomes
    BY <2>2 DEF Verdict, Outcomes
  <2>4. Total(req[r], verified) \in 0..(MaxParts * MaxSize)
    BY <2>1, TotalBounds DEF SizesSeen
  <2>5. /\ status' = Written(req[r].status, Verdict(verified, req[r].arg), status)
        /\ expected' = Written(req[r].expected, req[r].arg, expected)
        /\ total' = Written(req[r].total, Total(req[r], verified), total)
        /\ transcript' = transcript
    BY <1>1 DEF FinishCommit
  <2> HIDE DEF verified
  <2> QED
    BY <2>2, <2>3, <2>4, <2>5 DEF Written, ColumnsOK
<1>2. ASSUME NEW r \in Requests, DeleteCommit(r) PROVE ColumnsOK'
  <2>1. 0 \in 0..(MaxParts * MaxSize)
    BY ServerAssumption, MaxSizeBounds
  <2> QED
    BY <1>2, <2>1 DEF DeleteCommit, Written, ColumnsOK, Outcomes
<1>3. ASSUME NEW r \in Requests, TranscriptBegin(r) \/ TranscriptEnd(r) PROVE ColumnsOK'
  BY <1>3 DEF TranscriptBegin, TranscriptEnd, Written, ColumnsOK
<1>4. ASSUME NEW r \in Requests, Handle(r), ~FinishCommit(r), ~DeleteCommit(r),
             ~TranscriptBegin(r), ~TranscriptEnd(r)
      PROVE  UNCHANGED recordingVars
  BY <1>4 DEF Handle, UrlInsert, UrlCommit, CompleteStat, CompleteCommit, CompleteDemote,
     DeleteFiles, Interrupted, recordingVars
<1>5. ASSUME NEW r \in Requests, Issue(r) PROVE UNCHANGED recordingVars
  BY <1>5, IssueLoads DEF ShapeInv
<1>6. UNCHANGED recordingVars => ColumnsOK'
  BY DEF recordingVars, ColumnsOK
<1> QED
  BY <1>1, <1>2, <1>3, <1>4, <1>5, <1>6 DEF Next, vars, Put, AnswerVerified

\* The type invariant, for any requests, sizes and overlaps: whichever columns
\* a late commit writes over newer ones, each has a value of its type, and
\* total_bytes never exceeds what the parts can hold, however often finish is
\* repeated.
THEOREM TypeCorrect == Spec => []TypeOK
<1>1. Init => SizesSeen /\ ColumnsOK
  <2>1. 0 \in 0..(MaxParts * MaxSize)
    BY ServerAssumption, MaxSizeBounds
  <2> QED
    BY <2>1 DEF Init, SizesSeen, ColumnsOK, Outcomes
<1>2. ShapeInv /\ SizesSeen /\ ColumnsOK /\ [Next]_vars => SizesSeen' /\ ColumnsOK'
  BY SizesSeenStep, ColumnsStep
<1>3. ShapeInv /\ ColumnsOK => TypeOK
  BY DEF ShapeInv, ReqOK, RowsOK, Loaded, ColumnsOK, TypeOK
<1> QED
  BY <1>1, <1>2, <1>3, ShapeAlways, PTL DEF Spec
=============================================================================
