------------------------------ MODULE Inventory ------------------------------
(***************************************************************************)
(* The inventory of one player (ServerApp/Game/Item/Inventory.cpp): the    *)
(* slots of the bag and the two equipment slots, and the operations the    *)
(* item and trade handlers are built from.  Every operation is a total     *)
(* operator that returns the inventory after a success; the operator       *)
(* Can... with the same parameters says when the code succeeds.            *)
(*                                                                         *)
(* The unique number of an item is left out: it serves as the mark of an   *)
(* occupied slot (uid # 0), which is quantity > 0 here.                    *)
(***************************************************************************)
EXTENDS Integers, FiniteSets, FiniteSetsExt, Functions

CONSTANTS
  BagSize,     \* MAX_INVENTORY_SLOTS
  Kinds,       \* item templates
  None,        \* no template
  Weapons, Armors, Consumables,   \* templates by EItemType
  StackMax     \* StackMax[k]: how many of k fit into one slot

Weapon == 100                          \* EQUIP_SLOT_WEAPON
Armor  == 101                          \* EQUIP_SLOT_ARMOR

ASSUME InventoryAssumption ==
  /\ BagSize \in 1 .. Weapon
  /\ None \notin Kinds
  /\ Weapons \subseteq Kinds /\ Armors \subseteq Kinds /\ Consumables \subseteq Kinds
  /\ StackMax \in [Kinds -> Nat \ {0}]

Bag    == 0 .. BagSize - 1
Slots  == Bag \cup {Weapon, Armor}

NoItem == [kind |-> None, quantity |-> 0]
Item   == [kind : Kinds, quantity : Nat \ {0}] \cup {NoItem}
Empty  == [s \in Slots |-> NoItem]

IsEmpty(inv, s)  == inv[s].quantity = 0
EmptyBag(inv)    == {s \in Bag : IsEmpty(inv, s)}
Holds(inv, s, k) == ~ IsEmpty(inv, s) /\ inv[s].kind = k

-----------------------------------------------------------------------------
(* Adding pours into the stacks of the same kind from the first slot on and *)
(* puts what is left into the first empty slot.                             *)

Spare(inv, k, s) ==
  IF Holds(inv, s, k) /\ inv[s].quantity < StackMax[k] THEN StackMax[k] - inv[s].quantity ELSE 0

SpareBelow(inv, k, n) == SumFunction([s \in 0 .. n - 1 |-> Spare(inv, k, s)])

\* What is left after the stacks are full.
Rest(inv, k, q) == Max({0, q - SpareBelow(inv, k, BagSize)})

CanAdd(inv, k, q) ==
  /\ q > 0
  /\ \/ Rest(inv, k, q) = 0
     \/ Rest(inv, k, q) <= StackMax[k] /\ EmptyBag(inv) # {}

BadPoured(inv, k, q, s) == Min({Spare(inv, k, s), q})

Poured(inv, k, q, s) ==
  Min({Spare(inv, k, s), Max({0, q - SpareBelow(inv, k, s)})})

Add(inv, k, q) ==
  [s \in Slots |->
     IF s \in Bag /\ Holds(inv, s, k)
       THEN [kind |-> k, quantity |-> inv[s].quantity + Poured(inv, k, q, s)]
     ELSE IF Rest(inv, k, q) > 0 /\ s = Min(EmptyBag(inv))
       THEN [kind |-> k, quantity |-> Rest(inv, k, q)]
     ELSE inv[s]]

-----------------------------------------------------------------------------
CanRemove(inv, s, q) == s \in Slots /\ q > 0 /\ inv[s].quantity >= q

Remove(inv, s, q) ==
  [inv EXCEPT ![s] = IF inv[s].quantity = q
                       THEN NoItem ELSE [kind |-> inv[s].kind, quantity |-> inv[s].quantity - q]]

CanMove(inv, s, t) ==
  /\ s \in Bag /\ t \in Bag /\ s # t /\ ~ IsEmpty(inv, s)
  /\ Holds(inv, t, inv[s].kind) => inv[t].quantity < StackMax[inv[s].kind]

BadMove(inv, s, t) ==
  IF Holds(inv, t, inv[s].kind)
    THEN [inv EXCEPT ![s] = NoItem, ![t].quantity = @ + inv[s].quantity]
    ELSE [inv EXCEPT ![s] = inv[t], ![t] = inv[s]]

\* Stacks of one kind are merged up to the limit, anything else changes places.
Move(inv, s, t) ==
  IF Holds(inv, t, inv[s].kind)
    THEN LET pour == Min({inv[s].quantity, Spare(inv, inv[s].kind, t)})
         IN  [Remove(inv, s, pour) EXCEPT ![t].quantity = @ + pour]
    ELSE [inv EXCEPT ![s] = inv[t], ![t] = inv[s]]

EquipSlot(k) == IF k \in Weapons THEN Weapon ELSE Armor

CanEquip(inv, s) == s \in Bag /\ inv[s].kind \in Weapons \cup Armors

Equip(inv, s) ==
  LET e == EquipSlot(inv[s].kind) IN [inv EXCEPT ![s] = inv[e], ![e] = inv[s]]

CanUnequip(inv, e) == e \in {Weapon, Armor} /\ ~ IsEmpty(inv, e) /\ EmptyBag(inv) # {}

Unequip(inv, e) == [inv EXCEPT ![Min(EmptyBag(inv))] = inv[e], ![e] = NoItem]

-----------------------------------------------------------------------------
\* How many of one kind an item is, and an inventory holds.
OfKind(item, k) == IF item.kind = k THEN item.quantity ELSE 0
Amount(inv, k)  == SumFunction([s \in Slots |-> OfKind(inv[s], k)])

\* No slot exceeds the limit of its kind, and equipment slots hold equipment.
WithinLimits(inv) ==
  /\ \A s \in Slots : ~ IsEmpty(inv, s) => inv[s].quantity <= StackMax[inv[s].kind]
  /\ ~ IsEmpty(inv, Weapon) => inv[Weapon].kind \in Weapons
  /\ ~ IsEmpty(inv, Armor)  => inv[Armor].kind \in Armors
=============================================================================
