\* A session that travels, one that stays, two channels.
SPECIFICATION BeginSpec
CONSTANTS
  Sids = {s1, s2}
  Channels = {c1, c2}
  Maps = {m1, m2}
  None = none
  Scripts <- Casts
  MoveCap = 1
  JobsPerTick = 2
SYMMETRY Interchangeable
INVARIANTS
  TypeOK
  GridSound
  LeaveUnderWay
  ArrivalUnderWay
  PopulationExact
  SoleWriter
  FlushListExact
  LatestMoveWins
CHECK_DEADLOCK FALSE
