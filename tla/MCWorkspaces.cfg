SPECIFICATION MCSpec
CONSTANTS
  t1 = t1
  t2 = t2
  home = home
  other = other
  ownA = ownA
  ownB = ownB
  Task = {t1, t2}
  Name = {home, other}
  Branch = {main, ownA, ownB}
  Main = main
  None = None
  Root <- MCRoot
  Own <- MCOwn
  Nobody = Nobody
  Slot = {s1, s2}
  Visit = {v1, v2}
  Project = {r}
  MaxSessions = 3
  MaxCalls = 2
  MaxStarts = 2
  MaxVisits = 6
\* The requests of a behaviour run out.
CHECK_DEADLOCK FALSE
SYMMETRY Symmetry
INVARIANTS
  PushedAsTold
  RecentsFollow
  OneActivePerRepo

  
