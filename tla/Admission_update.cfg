\* Three logins in a row.
SPECIFICATION Spec
CONSTANTS
  Sids = {s1, s2, s3}
  NoSid = none
  MaxTokens = 1
  Scripts <- Usual
  Timings <- Patiently
SYMMETRY Interchangeable
CONSTRAINT Patient
PROPERTIES
  ProgressNeverLost
CHECK_DEADLOCK FALSE
