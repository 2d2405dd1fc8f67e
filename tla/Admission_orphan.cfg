\* A connection dies between its disconnect notice and the end of its slot.
SPECIFICATION Spec
CONSTANTS
  Sids = {s1, s2}
  NoSid = none
  MaxTokens = 1
  Scripts <- Usual
  Timings <- OnlySplit
SYMMETRY Interchangeable
INVARIANTS
  OrphanFree
CHECK_DEADLOCK FALSE
