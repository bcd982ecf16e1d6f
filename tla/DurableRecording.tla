-------------------------- MODULE DurableRecording --------------------------
(***************************************************************************)
(* What the recording path promises, without pages, queues, retries or     *)
(* storage: a chunk that was kept is kept until the recording is deleted,  *)
(* a part is archived once and as a whole, and "ready" is said only when   *)
(* every part that holds a kept chunk is archived. Recorder implements it. *)
(***************************************************************************)
EXTENDS Integers

CONSTANTS Part, Chunk

VARIABLES
  kept,      \* the chunks of each part the system answers for
  archived,  \* parts that are on the server for good
  verdict    \* "none", "recording", "ready", "partial", "failed", "deleted"

vars == <<kept, archived, verdict>>

Verdicts == {"ready", "partial", "failed"}

Init ==
  /\ kept = [n \in Part |-> {}]
  /\ archived = {}
  /\ verdict = "none"

Open ==
  /\ verdict = "none"
  /\ verdict' = "recording"
  /\ UNCHANGED <<kept, archived>>

\* A chunk joins a part that is not archived.
Keep(n, c) ==
  /\ verdict \in {"recording", "deleted"}
  /\ n \notin archived
  /\ kept' = [kept EXCEPT ![n] = @ \cup {c}]
  /\ UNCHANGED <<archived, verdict>>

\* The whole part reaches the server, all at once.
Archive(n) ==
  /\ n \notin archived
  /\ kept[n] # {}
  /\ archived' = archived \cup {n}
  /\ UNCHANGED <<kept, verdict>>

\* A verdict may be given again, a recording once ready stays ready.
Conclude(v) ==
  /\ verdict \in Verdicts \cup {"recording"}
  /\ verdict = "ready" => v = "ready"
  /\ v = "ready" => \A n \in Part : kept[n] # {} => n \in archived
  /\ verdict' = v
  /\ UNCHANGED <<kept, archived>>

\* Only a deleted recording loses what was kept.
Lose ==
  /\ kept' \in [Part -> SUBSET Chunk]
  /\ \A n \in Part : kept'[n] \subseteq kept[n]

Delete ==
  /\ verdict \in Verdicts \cup {"recording"}
  /\ verdict' = "deleted"
  /\ archived' = {}
  /\ Lose

Discard ==
  /\ verdict = "deleted"
  /\ Lose
  /\ UNCHANGED <<archived, verdict>>

Next ==
  \/ Open
  \/ \E n \in Part, c \in Chunk : Keep(n, c)
  \/ \E n \in Part : Archive(n)
  \/ \E v \in Verdicts : Conclude(v)
  \/ Delete
  \/ Discard

Spec == Init /\ [][Next]_vars
=============================================================================
