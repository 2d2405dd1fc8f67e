\* Monsters die, are swept and spawned again while they hunt players along paths that arrive late.
SPECIFICATION Spec
CONSTANTS
  wolf = wolf
  Slots = {1, 2}
  Groups = {wolf}
  Count <- MCCount
  Cap = 2
  Targets = {p1}
  Nobody = nobody
  NoPath = nopath
  QueueCap = 1
  MailCap = 1
  MaxKills = 1
  MaxRequests = 2
INVARIANTS
  PopulationExact
  FreshPaths
PROPERTIES
  SelfHealing
