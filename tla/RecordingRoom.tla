--------------------------- MODULE RecordingRoom ---------------------------
(***************************************************************************)
(* The recording engine in the room page of a meeting                      *)
(* (src/app/static/js/room.js): the Stop, Leave and End buttons all call   *)
(* stopRecording(), one handler may be waiting in it while another runs,   *)
(* and only the room of a meeting that is still open starts or recovers a  *)
(* recording.                                                              *)
(***************************************************************************)
EXTENDS Recorder

VARIABLES
  open,       \* Meeting.status is "scheduled" or "live"
  recording,  \* RoomController.recording
  at          \* where the handler of each button stands

Buttons == {"stop", "leave", "end"}

allVars == <<vars, open, recording, at>>

RoomInit ==
  /\ Init
  /\ open = TRUE
  /\ recording = FALSE
  /\ at = [b \in Buttons |-> "idle"]

InPage == mode["page"] \notin {"idle", "closed"}

\* What the controller keeps when the engine makes a step: start() sets
\* recording, a page that is gone takes its handlers along.
Controller ==
  /\ recording' = CASE mode'["page"] = "closed" -> FALSE
                    [] mode["page"] = "starting" -> mode'["page"] = "recording"
                    [] OTHER -> recording
  /\ at' = IF mode'["page"] = "closed" THEN [b \in Buttons |-> "idle"] ELSE at

\* The room page, and the recovery it runs once connected, are only served
\* while the meeting is open. stop() is called by the buttons.
Room(A) ==
  /\ A
  /\ StartRecording \/ StartLost \/ StartRecovery => open
  /\ ~StopClicked
  /\ Controller
  /\ UNCHANGED open

\* leave() and endForEveryone() skip stopRecording() unless the controller is
\* recording. stopRecording() waits for stop(), but stop() returns at once if the
\* engine is no longer recording: another button has called it, for example.
Press(b) ==
  /\ InPage
  /\ at[b] = "idle"
  /\ b = "stop" => recording
  /\ IF recording /\ mode["page"] = "recording"
     THEN /\ StopClicked
          /\ at' = [at EXCEPT ![b] = "waits"]
          /\ UNCHANGED recording
     ELSE /\ at' = [at EXCEPT ![b] = CASE b = "stop" -> "idle"
                                       [] recording  -> "returned"
                                       [] OTHER      -> "skipped"]
          /\ recording' = FALSE
          /\ UNCHANGED vars
  /\ UNCHANGED open

\* Mutant: the handlers do not wait for stop().
ResolvedEarly == mode["page"] \in {"stopping", "uploading", "done", "error", "stopFailed"}

\* stop() has resolved or rejected.
Resolved == mode["page"] \in {"done", "error", "stopFailed"}

\* The finally block of stopRecording(); a rejection ends the handler.
Returns(b) ==
  /\ at[b] = "waits"
  /\ Resolved
  /\ recording' = FALSE
  /\ at' = [at EXCEPT ![b] = IF b = "stop" \/ mode["page"] = "stopFailed"
                             THEN "idle" ELSE "stopped"]
  /\ UNCHANGED <<vars, open>>

\* The handler is past stopRecording(): it has waited for stop(), stop() has
\* returned at once, or there was nothing to call.
GoesOn(b) == at[b] \in {"stopped", "returned", "skipped"}

\* leave() has returned: the page navigates away.
Leave ==
  /\ GoesOn("leave")
  /\ OrphanPut("page") \/ UNCHANGED late
  /\ LosePage
  /\ Controller
  /\ UNCHANGED <<crashes, open>>

\* POST /end, which may fail; the page stays where it is.
End ==
  /\ GoesOn("end")
  /\ open' \in {open, FALSE}
  /\ at' = [at EXCEPT !["end"] = "idle"]
  /\ UNCHANGED <<vars, recording>>

\* Another device of the host, or an admin, ends the meeting.
EndedElsewhere ==
  /\ open
  /\ open' = FALSE
  /\ UNCHANGED <<vars, recording, at>>

RoomNext ==
  \/ Room(Next)
  \/ \E b \in Buttons : Press(b) \/ Returns(b)
  \/ Leave
  \/ End
  \/ EndedElsewhere

RoomSpec == RoomInit /\ [][RoomNext]_allVars

\* Callbacks that are due run, and an agent goes on. A failed request sends its
\* item back to "fetch", so a request that is retried for ever is enabled again
\* and again: strong fairness says it gets through in the end.
Fairness ==
  /\ WF_allVars(Room(LocalStep))
  /\ WF_allVars(Room(\E a \in Agents : AgentStep(a)))
  /\ SF_allVars(Room(\E a \in Agents : GetLink(a) \/ SkipVerified(a)))
  /\ SF_allVars(Room(\E a \in Agents : Put(a)))
  /\ SF_allVars(Room(\E a \in Agents : Complete(a)))
  /\ WF_allVars(Leave \/ \E b \in Buttons : Returns(b))

FairRoomSpec == RoomSpec /\ Fairness

-----------------------------------------------------------------------------
(* Properties.                                                             *)

\* stop() comes to an end (or the page goes away): no retry, rotation or late
\* callback leaves it waiting for ever, with three exceptions. A rotation whose
\* MediaRecorder could not start leaves a part whose onstop never comes, and
\* finishPart() waits for it. After a deletion every request is refused and the
\* queue never empties. So it is with any refusal that lasts (a session that is
\* over, a part number above 500), which the fairness of requests leaves out.
StopCompletes ==
  mode["page"] = "stopping" ~>
     mode["page"] \in {"done", "error", "closed"} \/ Stalled \/ status = "deleted"

\* The parts are uploaded and gone from the device, the meta row never learned
\* of them, and the recovery closed before finish(): nobody will call it.
Stranded == meta = 0 /\ Listed = {} /\ mode["recovery"] = "idle"

\* What a closed tab left on the device is on the server in the end, whole
\* and with a verdict, unless the meeting ended (its room is gone then, and
\* with it the only page that recovers) or two pages closed at a bad moment.
LeftoverIsRecovered ==
  (mode["page"] = "closed" /\ Unfinished) ~>
     \/ status = "deleted"
     \/ ~open
     \/ Stranded
     \/ /\ status \in {"ready", "partial"}
        /\ \A n \in Parts : saved[n] # {} => row[n] = "verified"

\* The button that stops the recording goes on, to another page or to the end
\* of the meeting, only when nothing of it is left on the device, whatever
\* rotations, lost answers, retries and other buttons came in between.
StopperLeavesNothing ==
  (\E b \in Buttons : at[b] = "stopped") => Listed = {}
=============================================================================
