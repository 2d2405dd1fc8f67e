\* A trade whose commit failed is saved in two halves; a crash between them.
SPECIFICATION Spec
CONSTANTS
  ann = ann
  bob = bob
  sword = sword
  Players = {ann, bob}
  Channels = {c1, c2}
  Nowhere = none
  Movers = {}
  Items = {sword}
  StartRow <- MCStartRow
  MaxLogins <- OneLogin
  MaxFaults = 1
  QueueCap = 2
  EventCap = 1
CONSTRAINT Affordable
SYMMETRY Interchangeable
INVARIANTS
  NoHalfTrade
CHECK_DEADLOCK FALSE
