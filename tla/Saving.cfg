\* Autosaves, a trade, channel changes, departures, failing commands, crashes, shutdown.
SPECIFICATION Spec
CONSTANTS
  ann = ann
  bob = bob
  sword = sword
  Players = {ann, bob}
  Channels = {c1, c2}
  Nowhere = none
  Movers = {ann}
  Items = {sword}
  StartRow <- MCStartRow
  MaxLogins <- AnnComesBack
  MaxFaults = 1
  QueueCap = 2
  EventCap = 1
CONSTRAINT Affordable
SYMMETRY Interchangeable
INVARIANTS
  NothingForgotten
  NoItemTwice
  SavedAtTheEnd
CHECK_DEADLOCK FALSE
