\* A login that throws out a playing session, under fair threads.
SPECIFICATION LiveSpec
CONSTANTS
  Sids = {s1, s2}
  NoSid = none
  MaxTokens = 1
  Scripts <- Usual
  Timings <- Unfortunate
PROPERTIES
  GateReopens
  GhostExpires
  PendingEnds
CHECK_DEADLOCK FALSE
