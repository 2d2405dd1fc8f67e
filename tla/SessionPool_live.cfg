\* Fair runs with a sender and the sweep: slots and silent sockets come back.
SPECIFICATION FairSpec
CONSTANTS
  MaxSession = 1
  Acceptor = acc
  Workers = {w1}
  Callers = {c1}
  Reapers = {r1}
  NoSlot = none
  QueueCap = 1
  MaxGen = 2
PROPERTIES
  TeardownCompletes
  SilentSocketReaped
CHECK_DEADLOCK FALSE
