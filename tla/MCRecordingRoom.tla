-------------------------- MODULE MCRecordingRoom --------------------------
(***************************************************************************)
(* RecordingRoom for TLC, and what the page says of it that TLC refutes.   *)
(***************************************************************************)
EXTENDS RecordingRoom

\* stopRecording() resolves "only once the recording is fully uploaded and
\* confirmed by the server, so it is safe to disconnect or navigate away right
\* after this returns" (room.js:362): a Leave whose stopRecording() has returned
\* leaves nothing on the device. (A Leave that never called stopRecording(),
\* pressed while start() is still running, is not what the comment speaks of.)
LeaveIsSafe ==
  [][Leave /\ at["leave"] # "skipped" => Listed = {}]_allVars
=============================================================================
