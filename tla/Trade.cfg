\* Two players trade, drop and pick up items in one map of one channel; every
\* handler may come between the steps of the trade.
SPECIFICATION Spec
CONSTANTS
  ann = ann
  bob = bob
  potion = potion
  sword = sword
  m1 = m1
  m2 = m2
  BagSize = 2
  Kinds = {potion, sword}
  None = None
  Weapons = {sword}
  Armors = {}
  Consumables = {potion}
  StackMax <- MCStackMax
  Players = {ann, bob}
  Maps = {m1, m2}
  Nowhere = Nowhere
  Nobody = Nobody
  MaxTradeSlots = 2
  GroundCap = 1
  MaxOffer = 2
  StartInv <- MCStartInv
  StartGround <- MCStartGround
INVARIANTS
  TypeOK
  ItemsConserved
  Paired
  OffersCovered
PROPERTIES
  ExchangeAsAgreed
