SPECIFICATION FairSpec
CONSTANTS
  host = host
  ann = ann
  eve = eve
  root = root
  Users = {host, ann, eve, root}
  Admins = {root}
  Invitees = {ann}
  Host = host
  r1 = r1
  r2 = r2
  Requests = {r1, r2}
  Identities = {1}
  Links = {"l1"}
  MaxUses = 1
  Forms <- MCForms
  OpensBefore = 30
  ClosesAfter = 240
  Instants <- MCInstants
  TokenTTL = 2
  NameTTL = 3
  LivekitConfigured = TRUE
  WritersOverlap = FALSE
INVARIANTS
  TypeOK
  CancelledIsEmpty
  InvitedStay
  ListedOpens
  JoinersAreNamed
PROPERTIES
  LegalMoves
  RevokedIsFinal
  ClosedForGood
  EndedDrains
  RevokedDrains
\* a cancelled meeting stops for good
CHECK_DEADLOCK FALSE
