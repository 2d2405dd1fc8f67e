\* One slot through several incarnations with all kinds of threads on it, and
\* two slots at once: reference counts, teardown, the free list, the contract.
SPECIFICATION Spec
CONSTANTS
  MaxSession = 2
  Acceptor = acc
  Workers = {w1, w2}
  Callers = {c1}
  Reapers = {r1}
  NoSlot = none
  QueueCap = 2
  MaxGen = 2
SYMMETRY Symmetry
INVARIANTS
  TypeOK
  CountIsExact
  NoUseAfterRelease
  NoSlotLeak
  FreeListSound
  OneOwnerPerContext
  NoStalledSend
PROPERTIES
  ImplementsNetEvents
CONSTRAINT Affordable
CHECK_DEADLOCK FALSE
