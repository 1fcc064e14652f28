\* Two users, two requests at once, two backup threads; three requests, backups
\* and restores in all, and any number of restarts.  Repositories are not given:
\* no property of the run is about their names.
SPECIFICATION Spec
CONSTANTS
  u1 = u1
  u2 = u2
  c1 = c1
  c2 = c2
  s1 = s1
  s2 = s2
  t1 = t1
  srv = srv
  j1 = j1
  j2 = j2
  User = {u1, u2}
  Call = {c1, c2}
  Provider = {gemini, local}
  KeyedProvider = {gemini}
  Token = {t1}
  Owner = {org}
  Repo = {}
  AuthSecret = {s1, s2}
  Configured = TRUE
  ServerProvider = local
  ServerToken = srv
  ServerOwner = org
  ServerRepo = None
  None = None
  MaxCalls = 3
  Content <- MCContent
  Job = {j1, j2}
  Second <- MCSecond
  Keep = 1
  NoFile = NoFile
  Empty <- EmptyTables
  Torn = Torn
\* The requests of a behaviour run out, and a torn database may stay.
CHECK_DEADLOCK FALSE
SYMMETRY Symmetry
INVARIANTS
  ConnectionsCoherent
  BuiltFromOwnChoices
  OwnTokenUnlessOvertaken
  RestoreIsSafe
  RotationKeepsNewest
