---------------------------- MODULE Permissions ----------------------------
(***************************************************************************)
(* Who may do what to a meeting and its recordings                         *)
(* (src/app/security/permissions.py): the matrix of roles, and the two     *)
(* forms in which the rule is applied, to a loaded meeting in Python and   *)
(* as a condition of a SELECT. The answers are those of HTTP: someone who  *)
(* cannot see the meeting is told that it does not exist.                  *)
(***************************************************************************)
CONSTANTS
  Users,   \* accounts; guests have none
  Admins,  \* accounts with User.role = "admin"
  Host     \* Meeting.host_id

ASSUME PermissionsAssumption == Admins \subseteq Users /\ Host \in Users

Roles == {"admin", "host", "invited", "other", "guest"}

Actions ==
  {"edit_meeting", "view_meeting", "join_room", "manage_guest_links", "record",
   "moderate", "play_recording", "download_recording", "delete_recording",
   "transcribe"}

Matrix ==
  [admin   |-> Actions,
   host    |-> Actions,
   invited |-> {"view_meeting", "join_room", "play_recording"},
   other   |-> {},
   guest   |-> {"join_room"}]

IsAllowed(role, action) == action \in Matrix[role]

\* The host first: an admin who hosts the meeting is its host.
RoleFor(u, members) ==
  CASE u = Host                                -> "host"
    [] u # Host /\ u \in Admins                -> "admin"
    [] u \notin Admins \cup {Host} /\ u \in members -> "invited"
    [] OTHER                                   -> "other"

\* require_meeting_access() of a meeting that exists.
Access(u, members, action) ==
  LET role == RoleFor(u, members)
  IN CASE ~IsAllowed(role, "view_meeting") -> "404"
       [] IsAllowed(role, "view_meeting") /\ ~IsAllowed(role, action) -> "403"
       [] OTHER -> "ok"

May(u, members, action) == Access(u, members, action) = "ok"

\* require_guest_access() of the meeting the link belongs to.
GuestMay(action) == IsAllowed("guest", action)

\* Mutant: the SELECT looks only at the members.
VisibleToMembers(u, members) == u \in members

\* visible_meeting_filter(), the condition lists are selected with.
Visible(u, members) == u \in Admins \/ u = Host \/ u \in members

\* load_recording_for(): through the meeting, and a deleted one is 404.
RecordingAccess(u, members, recording, action) ==
  IF recording = "deleted" THEN "404" ELSE Access(u, members, action)
=============================================================================
