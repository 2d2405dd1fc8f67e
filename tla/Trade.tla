-------------------------------- MODULE Trade --------------------------------
(***************************************************************************)
(* Items of the players of one channel: the two-sided trade and the item   *)
(* handlers beside it (ServerApp/Game/Channel/Channel.cpp, TradeState,     *)
(* Inventory, the ground items of MapManager).                             *)
(*                                                                         *)
(* All handlers run on the thread of the channel, each to its end, so one  *)
(* handler is one step.  What makes the trade hard is the sequence: the    *)
(* state of a trade is kept twice, once per player, and offers refer to    *)
(* slots of inventories that other handlers change.                        *)
(*                                                                         *)
(* Positions, the clock and hit points are left out: a pickup may find the *)
(* item too far or protected at any moment, and a player may die and rise  *)
(* at any moment.  Trade windows and results sent to clients are left out. *)
(***************************************************************************)
EXTENDS Inventory, Sequences

CONSTANTS
  Players,
  Maps,
  Nowhere,      \* the map of a player who is not in this channel
  Nobody,       \* partnerSid = 0
  MaxTradeSlots, \* MAX_TRADE_SLOTS: offers per side
  GroundCap,    \* GROUND_ITEM_MAP_CAP
  MaxOffer,     \* bound: the largest quantity a request names
  StartInv,     \* the inventories the players start with
  StartGround   \* the drops that lie on the ground at the start

ASSUME TradeAssumption ==
  /\ Nowhere \notin Maps /\ Nobody \notin Players
  /\ IsFiniteSet(Players) /\ IsFiniteSet(Maps)
  /\ {MaxTradeSlots, GroundCap, MaxOffer} \subseteq Nat \ {0}
  /\ StartInv \in [Players -> [Slots -> Item]]
  /\ \A p \in Players : WithinLimits(StartInv[p])
  /\ StartGround \in [Maps -> Seq(Item \ {NoItem})]

VARIABLES
  inv,      \* m_inventory
  at,       \* the map the player is in, Nowhere when another channel or none has him
  dead,     \* IsDead()
  trade,    \* m_trade
  ground,   \* ground[m]: the drops of a map, oldest first
  agreed,   \* history: the two offers a player accepted
  gone      \* history: how many of each kind were used up, expired or pushed out

vars == <<inv, at, dead, trade, ground, agreed, gone>>

TradeSlots == 0 .. MaxTradeSlots - 1

NoOffer == [used |-> FALSE, slot |-> 0, kind |-> None, quantity |-> 0]
NoTrade == [partner |-> Nobody, state |-> "NONE", accepted |-> FALSE,
            offer |-> [i \in TradeSlots |-> NoOffer]]
NoDeal  == <<>>

Offer == {NoOffer} \cup [used : BOOLEAN, slot : Bag, kind : Kinds, quantity : 1 .. MaxOffer]
TradeState == [partner : Players \cup {Nobody},
               state : {"NONE", "PENDING_OUT", "PENDING_IN", "OPEN"},
               accepted : BOOLEAN, offer : [TradeSlots -> Offer]]

\* Every variable keeps its type, and no slot more than fits into it: the trade relies on
\* that when it expects one new slot per received offer.
TypeOK ==
  /\ inv \in [Players -> [Slots -> Item]] /\ \A p \in Players : WithinLimits(inv[p])
  /\ at \in [Players -> Maps \cup {Nowhere}]
  /\ dead \in [Players -> BOOLEAN]
  /\ trade \in [Players -> TradeState]
  /\ ground \in [Maps -> Seq(Item \ {NoItem})]
  /\ gone \in [Kinds -> Nat]

-----------------------------------------------------------------------------
Here(p)      == at[p] # Nowhere
IsTrading(p) == trade[p].state # "NONE"

\* ResolveItemSender: the session belongs to this channel and the player lives.
MayAct(p) == Here(p) /\ ~ dead[p]

\* BeginItemHandler: an inventory is locked while its owner trades.
MayUseItems(p) == MayAct(p) /\ ~ IsTrading(p)

\* ResolvePartnerSession: the partner is still a session of this channel.
PartnerHere(p) == trade[p].partner # Nobody /\ Here(trade[p].partner)

\* ResolveTradePartner checks again that both name each other in one map.
HasPartner(p) ==
  /\ PartnerHere(p)
  /\ LET q == trade[p].partner
     IN  trade[q].partner = p /\ at[q] = at[p] /\ ~ dead[q]

BadCancelled(p) == IF IsTrading(p) THEN [trade EXCEPT ![p] = NoTrade] ELSE trade

\* CancelTradeFor: both sides are reset, or p alone when the partner names another.
Cancelled(p) ==
  IF ~ IsTrading(p) THEN trade
  ELSE [x \in Players |->
          IF \/ x = p
             \/ PartnerHere(p) /\ x = trade[p].partner /\ trade[x].partner = p
            THEN NoTrade ELSE trade[x]]

Deals(t) == [x \in Players |-> IF t[x].accepted THEN agreed[x] ELSE NoDeal]

\* The offers of p and q as both see them.
Offers(p, q) == [x \in {p, q} |-> trade[x].offer]

BadResetBothAccepts(t, p, q) == [t EXCEPT ![p].accepted = FALSE]

\* Any change of an offer takes both acceptances back.
ResetBothAccepts(t, p, q) == [t EXCEPT ![p].accepted = FALSE, ![q].accepted = FALSE]

-----------------------------------------------------------------------------
Init ==
  /\ inv = StartInv
  /\ at \in [Players -> Maps]
  /\ dead = [p \in Players |-> FALSE]
  /\ trade = [p \in Players |-> NoTrade]
  /\ ground = StartGround
  /\ agreed = [p \in Players |-> NoDeal]
  /\ gone = [k \in Kinds |-> 0]

\* CS_TRADE_REQUEST: FindPlayerByNameInMap finds the living player q in the map of p.
Request(p, q) ==
  /\ MayAct(p) /\ ~ IsTrading(p)
  /\ q # p /\ at[q] = at[p] /\ ~ dead[q] /\ ~ IsTrading(q)
  /\ trade' = [trade EXCEPT ![p] = [NoTrade EXCEPT !.partner = q, !.state = "PENDING_OUT"],
                            ![q] = [NoTrade EXCEPT !.partner = p, !.state = "PENDING_IN"]]
  /\ UNCHANGED <<inv, at, dead, ground, agreed, gone>>

\* CS_TRADE_RESPONSE.
Respond(p, accept) ==
  LET q == trade[p].partner
  IN  /\ MayAct(p) /\ trade[p].state = "PENDING_IN"
      /\ trade' =
           IF ~ (HasPartner(p) /\ trade[q].state = "PENDING_OUT")
             THEN [trade EXCEPT ![p] = NoTrade]
           ELSE IF ~ accept THEN Cancelled(p)
           ELSE [trade EXCEPT ![p].state = "OPEN", ![p].accepted = FALSE,
                              ![q].state = "OPEN", ![q].accepted = FALSE]
      /\ UNCHANGED <<inv, at, dead, ground, agreed, gone>>

\* Handlers of the open window first look for the partner and end the trade without one.
InWindow(p) == MayAct(p) /\ trade[p].state = "OPEN"
EndTrade(p) == trade' = Cancelled(p) /\ agreed' = Deals(trade')

OfSlot(offer, s) == IF offer.used /\ offer.slot = s THEN offer.quantity ELSE 0

BadOfferedElsewhere(p, s, i) == 0

\* How much of slot s p offers already, without what trade slot i names.
OfferedElsewhere(p, s, i) ==
  SumFunction([j \in TradeSlots \ {i} |-> OfSlot(trade[p].offer[j], s)])

\* CS_TRADE_ADD_ITEM: quantity n of bag slot s is put into trade slot i.
AddItem(p, i, s, n) ==
  LET q == trade[p].partner
  IN  /\ InWindow(p)
      /\ IF ~ HasPartner(p) THEN EndTrade(p)
         ELSE /\ n <= inv[p][s].quantity
              /\ OfferedElsewhere(p, s, i) + n <= inv[p][s].quantity
              /\ trade' = ResetBothAccepts(
                   [trade EXCEPT ![p].offer[i] =
                      [used |-> TRUE, slot |-> s, kind |-> inv[p][s].kind, quantity |-> n]], p, q)
              /\ agreed' = Deals(trade')
      /\ UNCHANGED <<inv, at, dead, ground, gone>>

\* CS_TRADE_REMOVE_ITEM.
RemoveItem(p, i) ==
  LET q == trade[p].partner
  IN  /\ InWindow(p)
      /\ IF ~ HasPartner(p) THEN EndTrade(p)
         ELSE /\ trade' = ResetBothAccepts([trade EXCEPT ![p].offer[i].used = FALSE], p, q)
              /\ agreed' = Deals(trade')
      /\ UNCHANGED <<inv, at, dead, ground, gone>>

-----------------------------------------------------------------------------
(* CommitTrade.  Both inventories are computed on copies first: what is     *)
(* offered is taken out of both, then what the other offered is put in, in  *)
(* the order of the trade slots.  The real exchange does the same again.    *)

\* One offer less; a removal that fails changes nothing.
TakeOffer(w, offer) ==
  IF offer.used /\ CanRemove(w, offer.slot, offer.quantity)
    THEN Remove(w, offer.slot, offer.quantity) ELSE w

Without(v, o) ==
  LET F[n \in 0 .. MaxTradeSlots] == IF n = 0 THEN v ELSE TakeOffer(F[n - 1], o[n - 1])
  IN  F[MaxTradeSlots]

\* One offer more; <<>> from the first one on that does not fit.
PutOffer(w, offer) ==
  IF ~ offer.used \/ w = <<>> THEN w
  ELSE IF CanAdd(w, offer.kind, offer.quantity) THEN Add(w, offer.kind, offer.quantity)
  ELSE <<>>

Received(v, o) ==
  LET F[n \in 0 .. MaxTradeSlots] == IF n = 0 THEN v ELSE PutOffer(F[n - 1], o[n - 1])
  IN  F[MaxTradeSlots]

Exchanged(p, q) == Received(Without(inv[p], trade[p].offer), trade[q].offer)

Commit(p, q) ==
  IF <<>> \in {Exchanged(p, q), Exchanged(q, p)}
    THEN trade' = ResetBothAccepts(trade, p, q) /\ UNCHANGED inv
    ELSE /\ inv' = [inv EXCEPT ![p] = Exchanged(p, q), ![q] = Exchanged(q, p)]
         /\ trade' = [trade EXCEPT ![p] = NoTrade, ![q] = NoTrade]

\* CS_TRADE_ACCEPT: the second acceptance commits.
Accept(p) ==
  LET q == trade[p].partner
  IN  /\ InWindow(p)
      /\ IF ~ HasPartner(p) THEN EndTrade(p) /\ UNCHANGED inv
         ELSE IF trade[q].accepted
           THEN Commit(p, q) /\ agreed' = Deals(trade')
         ELSE /\ trade' = [trade EXCEPT ![p].accepted = TRUE]
              /\ agreed' = [agreed EXCEPT ![p] = Offers(p, q)]
              /\ UNCHANGED inv
      /\ UNCHANGED <<at, dead, ground, gone>>

\* CS_TRADE_CANCEL.
Cancel(p) ==
  /\ MayAct(p) /\ IsTrading(p)
  /\ EndTrade(p)
  /\ UNCHANGED <<inv, at, dead, ground, gone>>

-----------------------------------------------------------------------------
(* The item handlers.                                                       *)

Lost(item) == gone' = [gone EXCEPT ![item.kind] = @ + item.quantity]

\* CS_ITEM_PICKUP of the i-th drop of the map, when it is near, free and fits.
Pickup(p, i) ==
  /\ MayUseItems(p)
  /\ i \in DOMAIN ground[at[p]]
  /\ LET drop == ground[at[p]][i]
     IN  /\ CanAdd(inv[p], drop.kind, drop.quantity)
         /\ inv' = [inv EXCEPT ![p] = Add(@, drop.kind, drop.quantity)]
  /\ ground' = [ground EXCEPT ![at[p]] = SubSeq(@, 1, i - 1) \o SubSeq(@, i + 1, Len(@))]
  /\ UNCHANGED <<at, dead, trade, agreed, gone>>

\* CS_ITEM_MOVE, CS_ITEM_EQUIP and CS_ITEM_UNEQUIP only rearrange.
Rearrange(p) ==
  /\ MayUseItems(p)
  /\ \/ \E s, t \in Bag : CanMove(inv[p], s, t) /\ inv' = [inv EXCEPT ![p] = Move(@, s, t)]
     \/ \E s \in Bag : CanEquip(inv[p], s) /\ inv' = [inv EXCEPT ![p] = Equip(@, s)]
     \/ \E e \in {Weapon, Armor} : CanUnequip(inv[p], e) /\ inv' = [inv EXCEPT ![p] = Unequip(@, e)]
  /\ UNCHANGED <<at, dead, trade, ground, agreed, gone>>

\* CS_ITEM_USE of one piece; the hit points it restores are left out.
Use(p, s) ==
  /\ MayUseItems(p)
  /\ inv[p][s].kind \in Consumables
  /\ inv' = [inv EXCEPT ![p] = Remove(@, s, 1)]
  /\ Lost([kind |-> inv[p][s].kind, quantity |-> 1])
  /\ UNCHANGED <<at, dead, trade, ground, agreed>>

\* CS_ITEM_DISCARD: SpawnGroundItem pushes the oldest drop out when the map is full.
Discard(p, s, n) ==
  /\ MayUseItems(p)
  /\ CanRemove(inv[p], s, n)
  /\ inv' = [inv EXCEPT ![p] = Remove(@, s, n)]
  /\ LET g    == ground[at[p]]
         drop == [kind |-> inv[p][s].kind, quantity |-> n]
     IN  IF Len(g) >= GroundCap
           THEN ground' = [ground EXCEPT ![at[p]] = Append(Tail(g), drop)] /\ Lost(Head(g))
           ELSE ground' = [ground EXCEPT ![at[p]] = Append(g, drop)] /\ UNCHANGED gone
  /\ UNCHANGED <<at, dead, trade, agreed>>

\* SweepExpiredGroundItems: drops expire in the order in which they were dropped.
Expire(m) ==
  /\ ground[m] # <<>>
  /\ ground' = [ground EXCEPT ![m] = Tail(@)]
  /\ Lost(Head(ground[m]))
  /\ UNCHANGED <<inv, at, dead, trade, agreed>>

-----------------------------------------------------------------------------
(* What ends a trade from outside: each of these cancels it first.          *)

\* OnPortal: to another map of this channel.
Portal(p, m) ==
  /\ MayAct(p) /\ m # at[p]
  /\ EndTrade(p)
  /\ at' = [at EXCEPT ![p] = m]
  /\ UNCHANGED <<inv, dead, ground, gone>>

\* OnChannelChange and OnClientLeave: the player leaves this channel.
Leave(p) ==
  /\ Here(p)
  /\ EndTrade(p)
  /\ at' = [at EXCEPT ![p] = Nowhere]
  /\ UNCHANGED <<inv, dead, ground, gone>>

\* A player enters with the inventory he left with.
Arrive(p, m) ==
  /\ ~ Here(p)
  /\ at' = [at EXCEPT ![p] = m]
  /\ UNCHANGED <<inv, dead, trade, ground, agreed, gone>>

\* UpdateFrame: a monster kills the player, and CollectDiedPlayers ends his trade in the same tick.
Die(p) ==
  /\ MayAct(p)
  /\ dead' = [dead EXCEPT ![p] = TRUE]
  /\ EndTrade(p)
  /\ UNCHANGED <<inv, at, ground, gone>>

\* Player::Update.
Respawn(p) ==
  /\ dead[p]
  /\ dead' = [dead EXCEPT ![p] = FALSE]
  /\ UNCHANGED <<inv, at, trade, ground, agreed, gone>>

Next ==
  \/ \E p \in Players :
       \/ \E q \in Players : Request(p, q)
       \/ \E accept \in BOOLEAN : Respond(p, accept)
       \/ \E i \in TradeSlots, s \in Bag, n \in 1 .. MaxOffer : AddItem(p, i, s, n)
       \/ \E i \in TradeSlots : RemoveItem(p, i)
       \/ Accept(p)
       \/ Cancel(p)
       \/ \E i \in 1 .. GroundCap : Pickup(p, i)
       \/ Rearrange(p)
       \/ \E s \in Bag : Use(p, s)
       \/ \E s \in Bag, n \in 1 .. MaxOffer : Discard(p, s, n)
       \/ \E m \in Maps : Portal(p, m)
       \/ Leave(p)
       \/ \E m \in Maps : Arrive(p, m)
       \/ Die(p)
       \/ Respawn(p)
  \/ \E m \in Maps : Expire(m)

Spec == Init /\ [][Next]_vars

-----------------------------------------------------------------------------
\* How much of a slot, and of a kind, the offers o name.
OfferedFrom(o, s) == SumFunction([i \in TradeSlots |-> OfSlot(o[i], s)])
OfferedKind(o, k) == SumFunction([i \in TradeSlots |-> IF o[i].used THEN OfKind(o[i], k) ELSE 0])

OnGround(g, k) == SumFunction([i \in DOMAIN g |-> OfKind(g[i], k)])

\* What the players hold in v and what lies in g.
Total(v, g, k) == SumFunction([p \in Players |-> Amount(v[p], k)])
                  + SumFunction([m \in Maps |-> OnGround(g[m], k)])

\* No item is duplicated or lost, whatever trades, pickups and drops are mixed
\* (the reason CommitTrade tries the exchange on copies first).
ItemsConserved ==
  \A k \in Kinds : Total(inv, ground, k) + gone[k] = Total(StartInv, StartGround, k)

\* A trade is held by two players who name each other, live and stand in one map, with
\* states that fit: portals, channel changes, departures and deaths leave no ghost.
Paired ==
  \A p \in Players : IsTrading(p) =>
    /\ HasPartner(p)
    /\ LET q == trade[p].partner
       IN  <<trade[p].state, trade[q].state>> \in
             {<<"PENDING_OUT", "PENDING_IN">>, <<"PENDING_IN", "PENDING_OUT">>, <<"OPEN", "OPEN">>}

\* The offers o can be taken out of the inventory v.
Covered(v, o) ==
  /\ \A s \in Bag : OfferedFrom(o, s) <= v[s].quantity
  /\ \A i \in TradeSlots : o[i].used => o[i].kind = v[o[i].slot].kind

\* What is offered from a slot is in that slot until the trade ends, so that no
\* removal of the exchange can fail.
OffersCovered == \A p \in Players : trade[p].state = "OPEN" => Covered(inv[p], trade[p].offer)

\* When two inventories change in one step, it is a trade that one side had accepted and
\* the other just accepts, and each side ends with what it had, less its offer, plus the other's.
ExchangeAsAgreed ==
  [][\A p, q \in Players : p # q /\ inv'[p] # inv[p] /\ inv'[q] # inv[q] =>
       /\ Offers(p, q) \in {agreed[p], agreed[q]}
       /\ \A k \in Kinds :
            Amount(inv'[p], k) = Amount(inv[p], k) - OfferedKind(trade[p].offer, k)
                                                   + OfferedKind(trade[q].offer, k)]_vars
=============================================================================
