----------------------------- MODULE MCMeeting -----------------------------
(* Values for TLC: one form that is accepted and some that are not, a      *)
(* meeting an hour ahead.                                                  *)
EXTENDS Meeting

Good == [title |-> 5, description |-> 0, mode |-> "online", zoneKnown |-> TRUE,
         minutes |-> 60, start |-> 60]
MCForms ==
  {Good, [Good EXCEPT !.title = 0], [Good EXCEPT !.title = 201],
   [Good EXCEPT !.description = 2001], [Good EXCEPT !.mode = "in_person"],
   [Good EXCEPT !.zoneKnown = FALSE], [Good EXCEPT !.minutes = 4],
   [Good EXCEPT !.minutes = 481], [Good EXCEPT !.start = 0],
   [Good EXCEPT !.start = NoDate]}
MCInstants == {30, 361}
=============================================================================
