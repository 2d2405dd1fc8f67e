\* A portal taken before the enter job: an entry of a session that is gone.
SPECIFICATION BeginSpec
CONSTANTS
  Sids = {s1, s2}
  Channels = {c1, c2}
  Maps = {m1, m2}
  None = none
  Scripts <- Casts
  MoveCap = 1
  JobsPerTick = 2
SYMMETRY Interchangeable
INVARIANTS
  NoDanglingEntry
CHECK_DEADLOCK FALSE
