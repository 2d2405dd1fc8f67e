\* Two logins of one account, on a link that stays up and around a failure of it.
SPECIFICATION Spec
CONSTANTS
  Sids = {s1, s2}
  NoSid = none
  MaxTokens = 1
  Scripts <- Usual
  Timings <- SplitOrBroken
SYMMETRY Interchangeable
INVARIANTS
  TypeOK
  OneSession
  IndexExact
  GateMatchesKicked
  NoOrphan
  HolderKnown
  ResultMatchesRequest
PROPERTIES
  ProgressNeverLost
CHECK_DEADLOCK FALSE
