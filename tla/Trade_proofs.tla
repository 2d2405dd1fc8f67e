---------------------------- MODULE Trade_proofs ----------------------------
(***************************************************************************)
(* Proofs about module Trade for any number of players, maps, item kinds,  *)
(* bag slots and offers.                                                   *)
(***************************************************************************)
EXTENDS Trade, Inventory_proofs, SequenceTheorems

-----------------------------------------------------------------------------
(* Offers.                                                                  *)

OfferLists == [TradeSlots -> Offer]

QuantityOf(offer, k) == IF offer.used THEN OfKind(offer, k) ELSE 0

LEMMA TradeConstants ==
  /\ MaxTradeSlots \in Nat \ {0} /\ GroundCap \in Nat \ {0} /\ MaxOffer \in Nat \ {0}
  /\ IsFiniteSet(Players) /\ IsFiniteSet(Maps) /\ Nowhere \notin Maps /\ Nobody \notin Players
  /\ TradeSlots = 0 .. MaxTradeSlots - 1 /\ IsFiniteSet(TradeSlots)
<1>1. MaxTradeSlots \in Nat \ {0} /\ GroundCap \in Nat \ {0} /\ MaxOffer \in Nat \ {0}
  BY TradeAssumption
<1>2. IsFiniteSet(TradeSlots)
  BY <1>1, FS_Interval DEF TradeSlots
<1> QED
  BY <1>1, <1>2, TradeAssumption DEF TradeSlots

LEMMA OfferFacts ==
  ASSUME NEW x \in Offer
  PROVE  /\ x.used \in BOOLEAN
         /\ x.used => x.slot \in Bag /\ x.slot \in Slots /\ x.kind \in Kinds /\ x.quantity \in Nat \ {0}
         /\ \A s : OfSlot(x, s) \in Nat
         /\ \A k : QuantityOf(x, k) \in Nat
<1>1. x.used \in BOOLEAN
  <2>1. CASE x = NoOffer
    <3>1. x.used = FALSE
      BY <2>1 DEF NoOffer
    <3> QED
      BY <3>1
  <2>2. CASE x \in [used : BOOLEAN, slot : Bag, kind : Kinds, quantity : 1 .. MaxOffer]
    BY <2>2
  <2> QED
    BY <2>1, <2>2 DEF Offer
<1>2. x.used => x.slot \in Bag /\ x.slot \in Slots /\ x.kind \in Kinds /\ x.quantity \in Nat \ {0}
  BY TradeConstants, SlotFacts DEF Offer, NoOffer
<1> QED
  BY <1>1, <1>2 DEF OfSlot, QuantityOf, OfKind

LEMMA OfferedIsSum ==
  ASSUME NEW o \in OfferLists, NEW x
  PROVE  /\ OfferedFrom(o, x) = Sum([i \in TradeSlots |-> OfSlot(o[i], x)], TradeSlots)
         /\ OfferedFrom(o, x) \in Nat
         /\ OfferedKind(o, x) = Sum([i \in TradeSlots |-> QuantityOf(o[i], x)], TradeSlots)
         /\ OfferedKind(o, x) \in Nat
<1>1. PICK f : f = [i \in TradeSlots |-> OfSlot(o[i], x)]
  OBVIOUS
<1>2. PICK g : g = [i \in TradeSlots |-> QuantityOf(o[i], x)]
  OBVIOUS
<1>3. OfferedFrom(o, x) = Sum(f, TradeSlots)
  BY <1>1, SumOfFunction DEF OfferedFrom
<1>4. OfferedKind(o, x) = Sum(g, TradeSlots)
  BY <1>2, SumOfFunction DEF OfferedKind, QuantityOf
<1>5. \A i \in TradeSlots : o[i] \in Offer
  BY DEF OfferLists
<1>6. \A i \in TradeSlots : f[i] \in Nat /\ g[i] \in Nat
  BY <1>1, <1>2, <1>5, OfferFacts
<1>7. Sum(f, TradeSlots) \in Nat /\ Sum(g, TradeSlots) \in Nat
  BY <1>6, TradeConstants, SumNat
<1> QED
  BY <1>1, <1>2, <1>3, <1>4, <1>7

(* One offer changes.                                                      *)
LEMMA OfferedChanges ==
  ASSUME NEW o \in OfferLists, NEW u \in OfferLists, NEW i \in TradeSlots,
         \A j \in TradeSlots \ {i} : u[j] = o[j], NEW s
  PROVE  OfferedFrom(u, s) = OfferedFrom(o, s) - OfSlot(o[i], s) + OfSlot(u[i], s)
<1>0. PICK f, g : f = [j \in TradeSlots |-> OfSlot(o[j], s)] /\ g = [j \in TradeSlots |-> OfSlot(u[j], s)]
  OBVIOUS
<1>1. OfferedFrom(o, s) = Sum(f, TradeSlots) /\ OfferedFrom(u, s) = Sum(g, TradeSlots)
  BY <1>0, OfferedIsSum
<1>2. \A j \in TradeSlots : o[j] \in Offer /\ u[j] \in Offer
  BY DEF OfferLists
<1>3. \A j \in TradeSlots : f[j] \in Int /\ g[j] \in Int
  BY <1>0, <1>2, OfferFacts
<1>4. \A j \in TradeSlots \ {i} : g[j] = f[j]
  BY <1>0
<1>5. IsFiniteSet(TradeSlots)
  BY TradeConstants
<1>6. Sum(g, TradeSlots) = Sum(f, TradeSlots) - f[i] + g[i]
  BY <1>3, <1>4, <1>5, SumOneChange
<1>7. f[i] = OfSlot(o[i], s) /\ g[i] = OfSlot(u[i], s)
  BY <1>0
<1> QED
  BY <1>1, <1>6, <1>7

(* What is offered without one trade slot.                                 *)
LEMMA OfferedWithout ==
  ASSUME NEW p, trade[p].offer \in OfferLists, NEW i \in TradeSlots, NEW s
  PROVE  /\ OfferedElsewhere(p, s, i) \in Nat
         /\ OfferedFrom(trade[p].offer, s) = OfSlot(trade[p].offer[i], s) + OfferedElsewhere(p, s, i)
<1>0. PICK o \in OfferLists : o = trade[p].offer
  OBVIOUS
<1>1. PICK f, g : f = [j \in TradeSlots |-> OfSlot(o[j], s)]
                  /\ g = [j \in TradeSlots \ {i} |-> OfSlot(o[j], s)]
  OBVIOUS
<1>2. OfferedFrom(o, s) = Sum(f, TradeSlots)
  BY <1>1, OfferedIsSum
<1>3. OfferedElsewhere(p, s, i) = Sum(g, TradeSlots \ {i})
  BY <1>0, <1>1, SumOfFunction DEF OfferedElsewhere
<1>4. \A j \in TradeSlots : o[j] \in Offer
  BY DEF OfferLists
<1>5. \A j \in TradeSlots : f[j] \in Nat
  BY <1>1, <1>4, OfferFacts
<1>6. IsFiniteSet(TradeSlots) /\ IsFiniteSet(TradeSlots \ {i})
  BY TradeConstants, FS_Subset
<1>7. \A j \in TradeSlots \ {i} : g[j] = f[j]
  BY <1>1
<1>8. Sum(g, TradeSlots \ {i}) = Sum(f, TradeSlots \ {i})
  BY <1>6, <1>7, SumSame
<1>9. Sum(f, TradeSlots \ {i}) \in Nat
  BY <1>5, <1>6, SumNat
<1>10. Sum(f, TradeSlots) = f[i] + Sum(f, TradeSlots \ {i})
  BY <1>5, <1>6, SumRemove
<1>11. f[i] = OfSlot(o[i], s)
  BY <1>1
<1> QED
  BY <1>0, <1>2, <1>3, <1>8, <1>9, <1>10, <1>11

-----------------------------------------------------------------------------
(* The exchange.  The first n offers are taken out, or put in, one by one.   *)

Inhabited == {v \in Inventories : WithinLimits(v)}

LEMMA InhabitedIsValid == \A v : v \in Inhabited <=> Valid(v)
  BY DEF Inhabited, Valid

NamedBelow(o, s, n) == Sum([i \in TradeSlots |-> OfSlot(o[i], s)], 0 .. n - 1)
KindBelow(o, k, n)  == Sum([i \in TradeSlots |-> QuantityOf(o[i], k)], 0 .. n - 1)

LEMMA BelowSteps ==
  ASSUME NEW o \in OfferLists, NEW x
  PROVE  /\ NamedBelow(o, x, 0) = 0 /\ KindBelow(o, x, 0) = 0
         /\ NamedBelow(o, x, MaxTradeSlots) = OfferedFrom(o, x)
         /\ KindBelow(o, x, MaxTradeSlots) = OfferedKind(o, x)
         /\ \A n \in 0 .. MaxTradeSlots :
              /\ NamedBelow(o, x, n) \in Nat /\ KindBelow(o, x, n) \in Nat
              /\ NamedBelow(o, x, n) <= OfferedFrom(o, x)
         /\ \A n \in TradeSlots :
              /\ NamedBelow(o, x, n + 1) = NamedBelow(o, x, n) + OfSlot(o[n], x)
              /\ KindBelow(o, x, n + 1) = KindBelow(o, x, n) + QuantityOf(o[n], x)
<1>1. PICK f : f = [i \in TradeSlots |-> OfSlot(o[i], x)]
  OBVIOUS
<1>2. PICK g : g = [i \in TradeSlots |-> QuantityOf(o[i], x)]
  OBVIOUS
<1>3. \A i \in TradeSlots : o[i] \in Offer
  BY DEF OfferLists
<1>4. \A i \in TradeSlots : f[i] = OfSlot(o[i], x) /\ g[i] = QuantityOf(o[i], x) /\ f[i] \in Nat /\ g[i] \in Nat
  BY <1>1, <1>2, <1>3, OfferFacts
<1>5. \A n : NamedBelow(o, x, n) = Sum(f, 0 .. n - 1) /\ KindBelow(o, x, n) = Sum(g, 0 .. n - 1)
  BY <1>1, <1>2 DEF NamedBelow, KindBelow
<1>6. OfferedFrom(o, x) = Sum(f, TradeSlots) /\ OfferedKind(o, x) = Sum(g, TradeSlots)
  BY <1>1, <1>2, OfferedIsSum
<1>7. 0 .. (0 - 1) = {} /\ TradeSlots = 0 .. MaxTradeSlots - 1 /\ MaxTradeSlots \in Nat
  BY TradeConstants
<1>8. Sum(f, {}) = 0 /\ Sum(g, {}) = 0
  BY SumEmpty
<1>9. ASSUME NEW n \in 0 .. MaxTradeSlots
      PROVE  /\ Sum(f, 0 .. n - 1) \in Nat /\ Sum(g, 0 .. n - 1) \in Nat
             /\ Sum(f, 0 .. n - 1) <= Sum(f, TradeSlots)
  <2>1. PICK T : T = 0 .. n - 1
    OBVIOUS
  <2>2. T \in SUBSET TradeSlots /\ TradeSlots \cap T = T /\ IsFiniteSet(TradeSlots) /\ IsFiniteSet(T)
    <3>1. T \in SUBSET TradeSlots
      BY <1>7, <2>1
    <3>2. IsFiniteSet(TradeSlots)
      BY TradeConstants
    <3> QED
      BY <3>1, <3>2, FS_Subset
  <2>3. Sum(f, T) \in Nat /\ Sum(g, T) \in Nat
    BY <1>4, <2>2, SumNat
  <2>4. Sum(f, TradeSlots \cap T) <= Sum(f, TradeSlots)
    BY <1>4, <2>2, SumOfFewer
  <2> QED
    BY <2>1, <2>2, <2>3, <2>4
<1>10. ASSUME NEW n \in TradeSlots
       PROVE  /\ Sum(f, 0 .. n) = f[n] + Sum(f, 0 .. n - 1)
              /\ Sum(g, 0 .. n) = g[n] + Sum(g, 0 .. n - 1)
  <2>1. n \in Nat /\ \A i \in 0 .. n : i \in TradeSlots
    BY <1>7
  <2>2. \A i \in 0 .. n : f[i] \in Int /\ g[i] \in Int
    BY <1>4, <2>1
  <2> QED
    BY <2>1, <2>2, SumLast
<1>11. ASSUME NEW n \in TradeSlots
       PROVE  /\ NamedBelow(o, x, n + 1) = NamedBelow(o, x, n) + OfSlot(o[n], x)
              /\ KindBelow(o, x, n + 1) = KindBelow(o, x, n) + QuantityOf(o[n], x)
  <2>1. n \in 0 .. MaxTradeSlots /\ (n + 1) - 1 = n
    BY <1>7
  <2>2. NamedBelow(o, x, n + 1) = Sum(f, 0 .. n) /\ KindBelow(o, x, n + 1) = Sum(g, 0 .. n)
    BY <1>5, <2>1
  <2>3. NamedBelow(o, x, n) = Sum(f, 0 .. n - 1) /\ KindBelow(o, x, n) = Sum(g, 0 .. n - 1)
    BY <1>5
  <2>4. f[n] \in Nat /\ g[n] \in Nat /\ f[n] = OfSlot(o[n], x) /\ g[n] = QuantityOf(o[n], x)
    BY <1>4
  <2> QED
    BY <1>9, <1>10, <2>1, <2>2, <2>3, <2>4
<1> QED
  BY <1>5, <1>6, <1>7, <1>8, <1>9, <1>11

LEMMA TakeKeepsValid ==
  ASSUME NEW w \in Inhabited, NEW x \in Offer
  PROVE  TakeOffer(w, x) \in Inhabited
<1>1. CASE x.used /\ CanRemove(w, x.slot, x.quantity)
  <2>1. x.slot \in Slots /\ x.quantity \in Nat
    BY <1>1, OfferFacts
  <2>2. Valid(w)
    BY InhabitedIsValid
  <2>3. Valid(Remove(w, x.slot, x.quantity))
    BY <1>1, <2>1, <2>2, RemoveTakes
  <2> QED
    BY <1>1, <2>3, InhabitedIsValid DEF TakeOffer
<1>2. CASE ~ (x.used /\ CanRemove(w, x.slot, x.quantity))
  BY <1>2 DEF TakeOffer
<1> QED
  BY <1>1, <1>2

LEMMA WithoutSteps ==
  ASSUME NEW v \in Inhabited, NEW o \in OfferLists
  PROVE  \E F \in [0 .. MaxTradeSlots -> Inhabited] :
           /\ F[0] = v
           /\ \A n \in 1 .. MaxTradeSlots : F[n] = TakeOffer(F[n - 1], o[n - 1])
           /\ Without(v, o) = F[MaxTradeSlots]
<1> DEFINE Eq(F) == F = [n \in 0 .. MaxTradeSlots |-> IF n = 0 THEN v ELSE TakeOffer(F[n - 1], o[n - 1])]
           G == CHOOSE F : Eq(F)
<1>1. Without(v, o) = G[MaxTradeSlots]
  BY DEF Without
<1>2. PICK step : step = [nw \in (0 .. MaxTradeSlots - 1) \X Inhabited |-> TakeOffer(nw[2], o[nw[1]])]
  OBVIOUS
<1>3. \A i \in 0 .. MaxTradeSlots - 1 : o[i] \in Offer
  BY TradeConstants DEF OfferLists
<1>4. step \in [(0 .. MaxTradeSlots - 1) \X Inhabited -> Inhabited]
  BY <1>2, <1>3, TakeKeepsValid
<1>5. \A i \in 0 .. MaxTradeSlots - 1 : \A w \in Inhabited : step[<<i, w>>] = TakeOffer(w, o[i])
  BY <1>2
<1>6. PICK F \in [0 .. MaxTradeSlots -> Inhabited] :
        F[0] = v /\ \A n \in 1 .. MaxTradeSlots : F[n] = step[<<n - 1, F[n - 1]>>]
  <2>1. MaxTradeSlots \in Nat /\ v \in Inhabited
    BY TradeConstants
  <2>2. step \in StepFunctions(MaxTradeSlots, Inhabited)
    BY <1>4 DEF StepFunctions
  <2>3. Runs(MaxTradeSlots, Inhabited, v, step) # {}
    BY <2>1, <2>2, RecursionExists
  <2> QED
    BY <2>3 DEF Runs
<1>7. \A n \in 1 .. MaxTradeSlots : F[n] = TakeOffer(F[n - 1], o[n - 1])
  <2> TAKE n \in 1 .. MaxTradeSlots
  <2>1. n - 1 \in 0 .. MaxTradeSlots - 1 /\ n - 1 \in 0 .. MaxTradeSlots
    BY TradeConstants
  <2> QED
    BY <1>5, <1>6, <2>1
<1>8. Eq(F)
  <2>1. \A n \in 0 .. MaxTradeSlots : F[n] = IF n = 0 THEN v ELSE TakeOffer(F[n - 1], o[n - 1])
    BY <1>6, <1>7, TradeConstants
  <2> QED
    BY <2>1
<1>9. Eq(G)
  BY <1>8
<1> HIDE DEF G
<1>10. \A n \in 0 .. MaxTradeSlots : G[n] = IF n = 0 THEN v ELSE TakeOffer(G[n - 1], o[n - 1])
  BY <1>9
<1>11. \A n \in 1 .. MaxTradeSlots : G[n] = TakeOffer(G[n - 1], o[n - 1])
  BY <1>10, TradeConstants
<1>12. G[0] = v
  BY <1>10, TradeConstants
<1>13. G \in [0 .. MaxTradeSlots -> Inhabited]
  <2> DEFINE A == {n \in Nat : n <= MaxTradeSlots => G[n] \in Inhabited}
  <2>1. 0 \in A
    BY <1>12
  <2>2. ASSUME NEW n \in A PROVE n + 1 \in A
    <3>1. n + 1 <= MaxTradeSlots => G[n + 1] \in Inhabited
      <4> HAVE n + 1 <= MaxTradeSlots
      <4>1. n + 1 \in 1 .. MaxTradeSlots /\ (n + 1) - 1 = n /\ n \in 0 .. MaxTradeSlots - 1
            /\ n <= MaxTradeSlots
        BY TradeConstants
      <4>2. G[n + 1] = TakeOffer(G[n], o[n])
        BY <1>11, <4>1
      <4>3. G[n] \in Inhabited
        BY <4>1
      <4> QED
        BY <1>3, <4>1, <4>2, <4>3, TakeKeepsValid
    <3>2. n + 1 \in Nat
      OBVIOUS
    <3> QED
      BY <3>1, <3>2
  <2>3. A = Nat
    <3>1. A \subseteq Nat
      OBVIOUS
    <3> HIDE DEF A
    <3> QED
      BY <2>1, <2>2, <3>1, Induct
  <2>4. \A n \in 0 .. MaxTradeSlots : G[n] \in Inhabited
    BY <2>3, TradeConstants
  <2> HIDE DEF A
  <2> QED
    BY <1>9, <2>4
<1> QED
  BY <1>1, <1>11, <1>12, <1>13

(* Nothing fails on the way: each slot has what is still to be taken.      *)
LEMMA WithoutTakes ==
  ASSUME NEW v \in Inhabited, NEW o \in OfferLists, Covered(v, o)
  PROVE  /\ Without(v, o) \in Inhabited
         /\ \A k \in Kinds : Amount(Without(v, o), k) = Amount(v, k) - OfferedKind(o, k)
<1>1. PICK F \in [0 .. MaxTradeSlots -> Inhabited] :
           /\ F[0] = v
           /\ \A n \in 1 .. MaxTradeSlots : F[n] = TakeOffer(F[n - 1], o[n - 1])
           /\ Without(v, o) = F[MaxTradeSlots]
  BY WithoutSteps
<1> DEFINE Good(n) ==
             /\ \A s \in Bag : /\ F[n][s].quantity = v[s].quantity - NamedBelow(o, s, n)
                               /\ F[n][s].quantity > 0 => F[n][s].kind = v[s].kind
             /\ \A k \in Kinds : Amount(F[n], k) = Amount(v, k) - KindBelow(o, k, n)
           A == {n \in Nat : n <= MaxTradeSlots => Good(n)}
<1>2. v \in Inventories /\ \A n \in 0 .. MaxTradeSlots : F[n] \in Inventories /\ Valid(F[n])
  BY InhabitedIsValid DEF Inhabited
<1>3. \A s \in Slots : v[s] \in Item /\ v[s].quantity \in Nat
  BY <1>2, ItemFacts DEF Inventories
<1>4. \A k : Amount(v, k) \in Nat
  BY <1>2, AmountIsSum
<1>5. 0 \in A
  <2>1. \A x : NamedBelow(o, x, 0) = 0 /\ KindBelow(o, x, 0) = 0
    BY BelowSteps
  <2>2. \A s \in Bag : s \in Slots
    BY SlotFacts
  <2> QED
    BY <1>1, <1>3, <1>4, <2>1, <2>2
<1>6. ASSUME NEW n \in A PROVE n + 1 \in A
  <2>1. n \in Nat /\ n + 1 \in Nat
    OBVIOUS
  <2>2. ASSUME n + 1 <= MaxTradeSlots PROVE Good(n + 1)
    <3>1. n \in TradeSlots /\ n + 1 \in 1 .. MaxTradeSlots /\ (n + 1) - 1 = n
          /\ n \in 0 .. MaxTradeSlots /\ n <= MaxTradeSlots
      BY <2>1, <2>2, TradeConstants
    <3>2. PICK w, x : w = F[n] /\ x = o[n]
      OBVIOUS
    <3>3. F[n + 1] = TakeOffer(w, x) /\ x \in Offer /\ w \in Inventories /\ Valid(w)
      BY <1>1, <1>2, <3>1, <3>2 DEF OfferLists
    <3>4. \A s \in Bag : /\ w[s].quantity = v[s].quantity - NamedBelow(o, s, n)
                         /\ w[s].quantity > 0 => w[s].kind = v[s].kind
      BY <3>1, <3>2
    <3>5. \A k \in Kinds : Amount(w, k) = Amount(v, k) - KindBelow(o, k, n)
      BY <3>1, <3>2
    <3> HIDE DEF A
    <3>6. \A s : /\ NamedBelow(o, s, n + 1) = NamedBelow(o, s, n) + OfSlot(x, s)
                 /\ NamedBelow(o, s, n) \in Nat /\ OfSlot(x, s) \in Nat
      BY <3>1, <3>2, <3>3, BelowSteps, OfferFacts
    <3>7. \A k : /\ KindBelow(o, k, n + 1) = KindBelow(o, k, n) + QuantityOf(x, k)
                 /\ KindBelow(o, k, n) \in Nat /\ QuantityOf(x, k) \in Nat
      BY <3>1, <3>2, <3>3, BelowSteps, OfferFacts
    <3>8. CASE ~ x.used
      <4>1. F[n + 1] = w /\ (\A s : OfSlot(x, s) = 0) /\ \A k : QuantityOf(x, k) = 0
        BY <3>3, <3>8 DEF TakeOffer, OfSlot, QuantityOf
      <4>2. \A s : NamedBelow(o, s, n + 1) = NamedBelow(o, s, n)
        BY <3>6, <4>1
      <4>3. \A k : KindBelow(o, k, n + 1) = KindBelow(o, k, n)
        BY <3>7, <4>1
      <4> QED
        BY <3>4, <3>5, <4>1, <4>2, <4>3
    <3>9. CASE x.used
      <4>1. PICK s, q : s = x.slot /\ q = x.quantity
        OBVIOUS
      <4>2. s \in Bag /\ s \in Slots /\ q \in Nat \ {0} /\ x.kind \in Kinds
        BY <3>3, <3>9, <4>1, OfferFacts
      <4>3. OfSlot(x, s) = q /\ \A t : t # s => OfSlot(x, t) = 0
        BY <3>9, <4>1 DEF OfSlot
      <4>4. NamedBelow(o, s, n + 1) <= v[s].quantity
        <5>1. OfferedFrom(o, s) <= v[s].quantity
          BY <4>2 DEF Covered
        <5>2. n + 1 \in 0 .. MaxTradeSlots
          BY <3>1
        <5>3. NamedBelow(o, s, n + 1) <= OfferedFrom(o, s) /\ NamedBelow(o, s, n + 1) \in Nat
          BY <5>2, BelowSteps
        <5>4. OfferedFrom(o, s) \in Nat
          BY OfferedIsSum
        <5> QED
          BY <1>3, <4>2, <5>1, <5>3, <5>4
      <4>5. q <= w[s].quantity /\ w[s].quantity \in Nat
        <5>1. w[s].quantity = v[s].quantity - NamedBelow(o, s, n)
          BY <3>4, <4>2
        <5>2. NamedBelow(o, s, n + 1) = NamedBelow(o, s, n) + q
          BY <3>6, <4>3
        <5> QED
          BY <1>3, <3>6, <4>2, <4>4, <5>1, <5>2
      <4>6. CanRemove(w, s, q)
        BY <4>2, <4>5 DEF CanRemove
      <4>7. F[n + 1] = Remove(w, s, q)
        BY <3>3, <3>9, <4>1, <4>6 DEF TakeOffer
      <4>8. PICK u : u = Remove(w, s, q)
        OBVIOUS
      <4>9. /\ \A t \in Slots \ {s} : u[t] = w[t]
            /\ u[s].quantity = w[s].quantity - q
            /\ u[s].quantity > 0 => u[s].kind = w[s].kind
            /\ \A k \in Kinds : Amount(u, k) = Amount(w, k) - (IF w[s].kind = k THEN q ELSE 0)
        BY <3>3, <4>2, <4>6, <4>8, RemoveTakes
      <4>10. w[s].kind = x.kind
        <5>1. w[s].kind = v[s].kind
          BY <3>4, <4>2, <4>5
        <5>2. x.kind = v[s].kind
          BY <3>1, <3>2, <3>9, <4>1 DEF Covered
        <5> QED
          BY <5>1, <5>2
      <4>11. ASSUME NEW t \in Bag
             PROVE  /\ u[t].quantity = v[t].quantity - NamedBelow(o, t, n + 1)
                    /\ u[t].quantity > 0 => u[t].kind = v[t].kind
        <5>1. CASE t = s
          <6>1. u[t].quantity = v[t].quantity - NamedBelow(o, t, n + 1)
            <7>1. NamedBelow(o, s, n + 1) = NamedBelow(o, s, n) + q
              BY <3>6, <4>3
            <7>2. w[s].quantity = v[s].quantity - NamedBelow(o, s, n)
              BY <3>4, <4>2
            <7> QED
              BY <1>3, <3>6, <4>2, <4>9, <5>1, <7>1, <7>2
          <6>2. u[t].quantity > 0 => u[t].kind = v[t].kind
            <7> HAVE u[t].quantity > 0
            <7>1. u[s].kind = w[s].kind
              BY <4>9, <5>1
            <7>2. w[s].quantity > 0
              BY <4>2, <4>5
            <7> QED
              BY <3>4, <4>2, <5>1, <7>1, <7>2
          <6> QED
            BY <6>1, <6>2
        <5>2. CASE t # s
          <6>1. t \in Slots /\ u[t] = w[t]
            BY <4>9, <5>2, SlotFacts
          <6>2. NamedBelow(o, t, n + 1) = NamedBelow(o, t, n)
            BY <3>6, <4>3, <5>2
          <6> QED
            BY <3>4, <6>1, <6>2
        <5> QED
          BY <5>1, <5>2
      <4>12. ASSUME NEW k \in Kinds PROVE Amount(u, k) = Amount(v, k) - KindBelow(o, k, n + 1)
        <5>1. Amount(u, k) = Amount(w, k) - (IF x.kind = k THEN q ELSE 0)
          BY <4>9, <4>10
        <5>2. QuantityOf(x, k) = IF x.kind = k THEN q ELSE 0
          BY <3>9, <4>1 DEF QuantityOf, OfKind
        <5> QED
          BY <1>4, <3>5, <3>7, <5>1, <5>2
      <4> QED
        BY <4>7, <4>8, <4>11, <4>12
    <3> QED
      BY <3>8, <3>9
  <2> HIDE DEF Good
  <2> QED
    BY <2>1, <2>2
<1>7. MaxTradeSlots \in A
  <2>1. A \subseteq Nat
    OBVIOUS
  <2> HIDE DEF A
  <2> QED
    BY <1>5, <1>6, <2>1, Induct, TradeConstants
<1>8. Good(MaxTradeSlots)
  BY <1>7, TradeConstants
<1>9. \A k \in Kinds : Amount(Without(v, o), k) = Amount(v, k) - OfferedKind(o, k)
  BY <1>1, <1>8, BelowSteps
<1>10. Without(v, o) \in Inhabited
  BY <1>1, TradeConstants
<1> QED
  BY <1>9, <1>10

LEMMA NotAnInventory == \A w \in Inhabited : w # <<>>
<1> TAKE w \in Inhabited
<1>1. DOMAIN w = Slots /\ Weapon \in Slots
  BY SlotFacts DEF Inhabited, Inventories
<1>2. DOMAIN <<>> = {}
  OBVIOUS
<1> QED
  BY <1>1, <1>2

MaybeInhabited == Inhabited \cup {<<>>}

LEMMA PutKeepsValid ==
  ASSUME NEW w \in MaybeInhabited, NEW x \in Offer
  PROVE  PutOffer(w, x) \in MaybeInhabited
<1>1. CASE ~ x.used \/ w = <<>>
  BY <1>1 DEF PutOffer
<1>2. CASE x.used /\ w # <<>> /\ CanAdd(w, x.kind, x.quantity)
  <2>1. x.kind \in Kinds /\ x.quantity \in Nat /\ Valid(w)
    BY <1>2, OfferFacts, InhabitedIsValid DEF MaybeInhabited
  <2>2. Valid(Add(w, x.kind, x.quantity))
    BY <1>2, <2>1, AddValid
  <2> QED
    BY <1>2, <2>2, InhabitedIsValid DEF PutOffer, MaybeInhabited
<1>3. CASE x.used /\ w # <<>> /\ ~ CanAdd(w, x.kind, x.quantity)
  BY <1>3 DEF PutOffer, MaybeInhabited
<1> QED
  BY <1>1, <1>2, <1>3

LEMMA ReceivedSteps ==
  ASSUME NEW v \in Inhabited, NEW o \in OfferLists
  PROVE  \E F \in [0 .. MaxTradeSlots -> MaybeInhabited] :
           /\ F[0] = v
           /\ \A n \in 1 .. MaxTradeSlots : F[n] = PutOffer(F[n - 1], o[n - 1])
           /\ Received(v, o) = F[MaxTradeSlots]
<1> DEFINE Eq(F) == F = [n \in 0 .. MaxTradeSlots |-> IF n = 0 THEN v ELSE PutOffer(F[n - 1], o[n - 1])]
           G == CHOOSE F : Eq(F)
<1>1. Received(v, o) = G[MaxTradeSlots]
  BY DEF Received
<1>2. PICK step : step = [nw \in (0 .. MaxTradeSlots - 1) \X MaybeInhabited |-> PutOffer(nw[2], o[nw[1]])]
  OBVIOUS
<1>3. \A i \in 0 .. MaxTradeSlots - 1 : o[i] \in Offer
  BY TradeConstants DEF OfferLists
<1>4. step \in [(0 .. MaxTradeSlots - 1) \X MaybeInhabited -> MaybeInhabited]
  BY <1>2, <1>3, PutKeepsValid
<1>5. \A i \in 0 .. MaxTradeSlots - 1 : \A w \in MaybeInhabited : step[<<i, w>>] = PutOffer(w, o[i])
  BY <1>2
<1>6. PICK F \in [0 .. MaxTradeSlots -> MaybeInhabited] :
        F[0] = v /\ \A n \in 1 .. MaxTradeSlots : F[n] = step[<<n - 1, F[n - 1]>>]
  <2>1. MaxTradeSlots \in Nat /\ v \in MaybeInhabited
    BY TradeConstants DEF MaybeInhabited
  <2>2. step \in StepFunctions(MaxTradeSlots, MaybeInhabited)
    BY <1>4 DEF StepFunctions
  <2>3. Runs(MaxTradeSlots, MaybeInhabited, v, step) # {}
    BY <2>1, <2>2, RecursionExists
  <2> QED
    BY <2>3 DEF Runs
<1>7. \A n \in 1 .. MaxTradeSlots : F[n] = PutOffer(F[n - 1], o[n - 1])
  <2> TAKE n \in 1 .. MaxTradeSlots
  <2>1. n - 1 \in 0 .. MaxTradeSlots - 1 /\ n - 1 \in 0 .. MaxTradeSlots
    BY TradeConstants
  <2> QED
    BY <1>5, <1>6, <2>1
<1>8. Eq(F)
  <2>1. \A n \in 0 .. MaxTradeSlots : F[n] = IF n = 0 THEN v ELSE PutOffer(F[n - 1], o[n - 1])
    BY <1>6, <1>7, TradeConstants
  <2> QED
    BY <2>1
<1>9. Eq(G)
  BY <1>8
<1> HIDE DEF G
<1>10. \A n \in 0 .. MaxTradeSlots : G[n] = IF n = 0 THEN v ELSE PutOffer(G[n - 1], o[n - 1])
  BY <1>9
<1>11. \A n \in 1 .. MaxTradeSlots : G[n] = PutOffer(G[n - 1], o[n - 1])
  BY <1>10, TradeConstants
<1>12. G[0] = v
  BY <1>10, TradeConstants
<1>13. G \in [0 .. MaxTradeSlots -> MaybeInhabited]
  <2> DEFINE A == {n \in Nat : n <= MaxTradeSlots => G[n] \in MaybeInhabited}
  <2>1. 0 \in A
    BY <1>12 DEF MaybeInhabited
  <2>2. ASSUME NEW n \in A PROVE n + 1 \in A
    <3>1. n + 1 <= MaxTradeSlots => G[n + 1] \in MaybeInhabited
      <4> HAVE n + 1 <= MaxTradeSlots
      <4>1. n + 1 \in 1 .. MaxTradeSlots /\ (n + 1) - 1 = n /\ n \in 0 .. MaxTradeSlots - 1
            /\ n <= MaxTradeSlots
        BY TradeConstants
      <4>2. G[n + 1] = PutOffer(G[n], o[n])
        BY <1>11, <4>1
      <4>3. G[n] \in MaybeInhabited
        BY <4>1
      <4> QED
        BY <1>3, <4>1, <4>2, <4>3, PutKeepsValid
    <3>2. n + 1 \in Nat
      OBVIOUS
    <3> QED
      BY <3>1, <3>2
  <2>3. A = Nat
    <3>1. A \subseteq Nat
      OBVIOUS
    <3> HIDE DEF A
    <3> QED
      BY <2>1, <2>2, <3>1, Induct
  <2>4. \A n \in 0 .. MaxTradeSlots : G[n] \in MaybeInhabited
    BY <2>3, TradeConstants
  <2> HIDE DEF A
  <2> QED
    BY <1>9, <2>4
<1> QED
  BY <1>1, <1>11, <1>12, <1>13

(* Either some offer does not fit, or all of them arrive.                  *)
LEMMA ReceivedGives ==
  ASSUME NEW v \in Inhabited, NEW o \in OfferLists, Received(v, o) # <<>>
  PROVE  /\ Received(v, o) \in Inhabited
         /\ \A k \in Kinds : Amount(Received(v, o), k) = Amount(v, k) + OfferedKind(o, k)
<1>1. PICK F \in [0 .. MaxTradeSlots -> MaybeInhabited] :
           /\ F[0] = v
           /\ \A n \in 1 .. MaxTradeSlots : F[n] = PutOffer(F[n - 1], o[n - 1])
           /\ Received(v, o) = F[MaxTradeSlots]
  BY ReceivedSteps
<1> DEFINE Good(n) == F[n] # <<>> => \A k \in Kinds : Amount(F[n], k) = Amount(v, k) + KindBelow(o, k, n)
           A == {n \in Nat : n <= MaxTradeSlots => Good(n)}
<1>2. \A k : Amount(v, k) \in Nat
  BY AmountIsSum DEF Inhabited
<1>3. 0 \in A
  <2>1. \A x : KindBelow(o, x, 0) = 0
    BY BelowSteps
  <2> QED
    BY <1>1, <1>2, <2>1
<1>4. ASSUME NEW n \in A PROVE n + 1 \in A
  <2>1. n \in Nat /\ n + 1 \in Nat
    OBVIOUS
  <2>2. ASSUME n + 1 <= MaxTradeSlots, F[n + 1] # <<>>, NEW k \in Kinds
        PROVE  Amount(F[n + 1], k) = Amount(v, k) + KindBelow(o, k, n + 1)
    <3>1. n \in TradeSlots /\ n + 1 \in 1 .. MaxTradeSlots /\ (n + 1) - 1 = n
          /\ n \in 0 .. MaxTradeSlots /\ n <= MaxTradeSlots
      BY <2>1, <2>2, TradeConstants
    <3>2. PICK w, x : w = F[n] /\ x = o[n]
      OBVIOUS
    <3>3. F[n + 1] = PutOffer(w, x) /\ x \in Offer /\ w \in MaybeInhabited
      BY <1>1, <3>1, <3>2 DEF OfferLists
    <3>4. w # <<>>
      BY <2>2, <3>3 DEF PutOffer
    <3>5. w \in Inhabited /\ w \in Inventories
      BY <3>3, <3>4 DEF MaybeInhabited, Inhabited
    <3>6. Amount(w, k) = Amount(v, k) + KindBelow(o, k, n)
      BY <3>1, <3>2, <3>4
    <3> HIDE DEF A
    <3>7. /\ KindBelow(o, k, n + 1) = KindBelow(o, k, n) + QuantityOf(x, k)
          /\ KindBelow(o, k, n) \in Nat /\ QuantityOf(x, k) \in Nat
      BY <3>1, <3>2, <3>3, BelowSteps, OfferFacts
    <3>8. CASE ~ x.used
      <4>1. F[n + 1] = w /\ QuantityOf(x, k) = 0
        BY <3>3, <3>8 DEF PutOffer, QuantityOf
      <4> QED
        BY <3>6, <3>7, <4>1
    <3>9. CASE x.used
      <4>1. CanAdd(w, x.kind, x.quantity) /\ F[n + 1] = Add(w, x.kind, x.quantity)
        BY <2>2, <3>3, <3>4, <3>9 DEF PutOffer
      <4>2. x.kind \in Kinds /\ x.quantity \in Nat
        BY <3>3, <3>9, OfferFacts
      <4>3. Amount(F[n + 1], k) = Amount(w, k) + (IF k = x.kind THEN x.quantity ELSE 0)
        BY <3>5, <4>1, <4>2, AddAmount
      <4>4. QuantityOf(x, k) = IF k = x.kind THEN x.quantity ELSE 0
        BY <3>9 DEF QuantityOf, OfKind
      <4> QED
        BY <1>2, <3>6, <3>7, <4>3, <4>4
    <3> QED
      BY <3>8, <3>9
  <2> QED
    BY <2>1, <2>2
<1>5. MaxTradeSlots \in A
  <2>1. A \subseteq Nat
    OBVIOUS
  <2> HIDE DEF A
  <2> QED
    BY <1>3, <1>4, <2>1, Induct, TradeConstants
<1>6. Good(MaxTradeSlots)
  BY <1>5, TradeConstants
<1>7. \A k \in Kinds : Amount(Received(v, o), k) = Amount(v, k) + OfferedKind(o, k)
  BY <1>1, <1>6, BelowSteps
<1>8. Received(v, o) \in Inhabited
  BY <1>1, TradeConstants DEF MaybeInhabited
<1> QED
  BY <1>7, <1>8

(* What one side of an exchange ends with.                                 *)
LEMMA ExchangeGives ==
  ASSUME NEW p, NEW q, inv[p] \in Inhabited,
         trade[p].offer \in OfferLists, trade[q].offer \in OfferLists,
         Covered(inv[p], trade[p].offer), Exchanged(p, q) # <<>>
  PROVE  /\ Exchanged(p, q) \in Inhabited
         /\ \A k \in Kinds : Amount(Exchanged(p, q), k)
              = Amount(inv[p], k) - OfferedKind(trade[p].offer, k) + OfferedKind(trade[q].offer, k)
<1>1. PICK w : w = Without(inv[p], trade[p].offer)
  OBVIOUS
<1>2. w \in Inhabited /\ \A k \in Kinds : Amount(w, k) = Amount(inv[p], k) - OfferedKind(trade[p].offer, k)
  BY <1>1, WithoutTakes
<1>3. Exchanged(p, q) = Received(w, trade[q].offer)
  BY <1>1 DEF Exchanged
<1> QED
  BY <1>2, <1>3, ReceivedGives

-----------------------------------------------------------------------------
(* The drops on the ground.                                                 *)

Drops == Item \ {NoItem}

LEMMA DropFacts == \A d \in Drops : d.kind \in Kinds /\ d.quantity \in Nat \ {0} /\ d \in Item
  BY ItemFacts DEF Drops

LEMMA OnGroundIsSum ==
  ASSUME NEW g \in Seq(Drops), NEW k
  PROVE  /\ OnGround(g, k) = Sum([i \in 1 .. Len(g) |-> OfKind(g[i], k)], 1 .. Len(g))
         /\ OnGround(g, k) \in Nat
         /\ IsFiniteSet(1 .. Len(g))
         /\ \A i \in 1 .. Len(g) : g[i] \in Item /\ OfKind(g[i], k) \in Nat
<1>1. DOMAIN g = 1 .. Len(g) /\ Len(g) \in Nat /\ \A i \in 1 .. Len(g) : g[i] \in Drops
  OBVIOUS
<1>2. PICK f : f = [i \in 1 .. Len(g) |-> OfKind(g[i], k)]
  OBVIOUS
<1>3. OnGround(g, k) = Sum(f, 1 .. Len(g))
  BY <1>1, <1>2, SumOfFunction DEF OnGround
<1>4. \A i \in 1 .. Len(g) : g[i] \in Item /\ OfKind(g[i], k) \in Nat
  BY <1>1, DropFacts, OfKindType
<1>5. IsFiniteSet(1 .. Len(g))
  BY <1>1, FS_Interval
<1>6. PICK S : S = 1 .. Len(g)
  OBVIOUS
<1>7. Sum(f, S) \in Nat
  BY <1>2, <1>4, <1>5, <1>6, SumNat
<1> QED
  BY <1>2, <1>3, <1>4, <1>5, <1>6, <1>7

LEMMA OneDropMore ==
  ASSUME NEW g \in Seq(Drops), NEW d \in Drops, NEW k
  PROVE  Append(g, d) \in Seq(Drops) /\ OnGround(Append(g, d), k) = OnGround(g, k) + OfKind(d, k)
<1>1. PICK h : h = Append(g, d)
  OBVIOUS
<1>2. PICK n \in Nat : n = Len(g)
  OBVIOUS
<1>3. h \in Seq(Drops) /\ Len(h) = n + 1 /\ h[n + 1] = d /\ \A i \in 1 .. n : h[i] = g[i]
  BY <1>1, <1>2
<1>4. PICK S, R : S = 1 .. n + 1 /\ R = 1 .. n
  OBVIOUS
<1>5. PICK f : f = [i \in 1 .. n + 1 |-> OfKind(h[i], k)]
  OBVIOUS
<1>6. PICK e : e = [i \in 1 .. n |-> OfKind(g[i], k)]
  OBVIOUS
<1>7. OnGround(h, k) = Sum(f, S) /\ IsFiniteSet(S) /\ \A i \in S : OfKind(h[i], k) \in Nat
  BY <1>3, <1>4, <1>5, OnGroundIsSum
<1>8. OnGround(g, k) = Sum(e, R) /\ IsFiniteSet(R) /\ OnGround(g, k) \in Nat
  BY <1>2, <1>4, <1>6, OnGroundIsSum
<1>9. \A i \in S : f[i] \in Int
  <2> TAKE i \in S
  <2>1. f[i] = OfKind(h[i], k)
    BY <1>4, <1>5
  <2> QED
    BY <1>7, <2>1
<1>10. n + 1 \in S /\ S \ {n + 1} = R
  BY <1>4
<1>11. Sum(f, S) = f[n + 1] + Sum(f, R)
  BY <1>7, <1>9, <1>10, SumRemove
<1>12. \A i \in R : f[i] = e[i]
  BY <1>3, <1>4, <1>5, <1>6
<1>13. Sum(f, R) = Sum(e, R)
  BY <1>8, <1>12, SumSame
<1>14. f[n + 1] = OfKind(d, k)
  BY <1>3, <1>5
<1>15. OfKind(d, k) \in Nat
  BY DropFacts, OfKindType
<1>16. OnGround(h, k) = OfKind(d, k) + OnGround(g, k)
  BY <1>7, <1>8, <1>11, <1>13, <1>14
<1> QED
  BY <1>1, <1>3, <1>8, <1>15, <1>16

LEMMA OneDropLess ==
  ASSUME NEW g \in Seq(Drops), NEW h \in Seq(Drops), NEW i \in 1 .. Len(g),
         Len(h) = Len(g) - 1,
         \A j \in 1 .. Len(h) : h[j] = IF j < i THEN g[j] ELSE g[j + 1], NEW k
  PROVE  OnGround(h, k) = OnGround(g, k) - OfKind(g[i], k)
<1>1. PICK n \in Nat : n = Len(g)
  OBVIOUS
<1>2. PICK S, T : S = 1 .. Len(h) /\ T = 1 .. n
  OBVIOUS
<1>3. PICK f : f = [j \in 1 .. n |-> OfKind(g[j], k)]
  OBVIOUS
<1>4. PICK e : e = [j \in 1 .. Len(h) |-> OfKind(h[j], k)]
  OBVIOUS
<1>5. PICK r : r = [j \in 1 .. Len(h) |-> IF j < i THEN j ELSE j + 1]
  OBVIOUS
<1>6. OnGround(g, k) = Sum(f, T) /\ IsFiniteSet(T) /\ OnGround(g, k) \in Nat
      /\ \A j \in T : OfKind(g[j], k) \in Nat
  BY <1>1, <1>2, <1>3, OnGroundIsSum
<1>7. OnGround(h, k) = Sum(e, S) /\ IsFiniteSet(S) /\ OnGround(h, k) \in Nat
  <2>1. OnGround(h, k) = Sum([j \in 1 .. Len(h) |-> OfKind(h[j], k)], 1 .. Len(h))
        /\ IsFiniteSet(1 .. Len(h)) /\ OnGround(h, k) \in Nat
    BY OnGroundIsSum
  <2> QED
    BY <1>2, <1>4, <2>1
<1>8. Len(h) = n - 1 /\ i \in T /\ i \in Nat
  BY <1>1, <1>2
<1>9. \A j \in T : f[j] \in Int
  <2> TAKE j \in T
  <2>1. f[j] = OfKind(g[j], k)
    BY <1>2, <1>3
  <2> QED
    BY <1>6, <2>1
<1>10. Sum(f, T) = f[i] + Sum(f, T \ {i})
  BY <1>6, <1>8, <1>9, SumRemove
<1>11. IsFiniteSet(T \ {i})
  BY <1>6, FS_Subset
<1>12. \A j \in S : r[j] \in T \ {i} /\ f[r[j]] \in Int /\ e[j] = f[r[j]]
  <2> TAKE j \in S
  <2>1. j \in 1 .. Len(h) /\ j \in Nat
    BY <1>2
  <2>2. r[j] = IF j < i THEN j ELSE j + 1
    BY <1>5, <2>1
  <2>3. r[j] \in T \ {i}
    BY <1>2, <1>8, <2>1, <2>2
  <2>4. h[j] = g[r[j]]
    BY <2>1, <2>2
  <2>5. e[j] = OfKind(h[j], k) /\ f[r[j]] = OfKind(g[r[j]], k)
    BY <1>2, <1>3, <1>4, <2>1, <2>3
  <2> QED
    BY <1>9, <2>3, <2>4, <2>5
<1>13. \A x, y \in S : x # y => r[x] # r[y]
  BY <1>2, <1>5, <1>8
<1>14. \A z \in T \ {i} : \E j \in S : r[j] = z
  <2> TAKE z \in T \ {i}
  <2>1. z \in Nat /\ z >= 1 /\ z <= n /\ z # i
    BY <1>2
  <2>2. CASE z < i
    <3>1. z \in S /\ r[z] = z
      BY <1>1, <1>2, <1>5, <1>8, <2>1, <2>2
    <3> QED
      BY <3>1
  <2>3. CASE z > i
    <3>1. z - 1 \in S /\ r[z - 1] = z
      BY <1>1, <1>2, <1>5, <1>8, <2>1, <2>3
    <3> QED
      BY <3>1
  <2> QED
    BY <1>8, <2>1, <2>2, <2>3
<1>15. Sum(e, S) = Sum(f, T \ {i})
  BY SMTT(60), <1>7, <1>11, <1>12, <1>13, <1>14, SumRenumber
<1>16. f[i] = OfKind(g[i], k) /\ f[i] \in Int /\ Sum(f, T \ {i}) \in Int
  BY <1>2, <1>3, <1>7, <1>8, <1>9, <1>15
<1> QED
  BY <1>6, <1>7, <1>10, <1>15, <1>16

(* The oldest drop, and any drop, leaves the ground.                       *)
LEMMA OldestLeaves ==
  ASSUME NEW g \in Seq(Drops), g # <<>>, NEW k
  PROVE  /\ Head(g) \in Drops /\ Tail(g) \in Seq(Drops)
         /\ OnGround(Tail(g), k) = OnGround(g, k) - OfKind(Head(g), k)
<1>1. PICK h : h = Tail(g)
  OBVIOUS
<1>2. Len(g) \in Nat /\ Len(g) > 0 /\ \A i \in 1 .. Len(g) : g[i] \in Drops
  OBVIOUS
<1>3. h \in Seq(Drops) /\ Len(h) = Len(g) - 1
  BY <1>1
<1>4. \A j \in 1 .. Len(h) : h[j] = g[j + 1]
  BY <1>1, <1>2
<1>5. 1 \in 1 .. Len(g) /\ Head(g) = g[1]
  BY <1>2
<1>6. \A j \in 1 .. Len(h) : h[j] = IF j < 1 THEN g[j] ELSE g[j + 1]
  BY <1>3, <1>4
<1>7. OnGround(h, k) = OnGround(g, k) - OfKind(g[1], k)
  BY <1>3, <1>5, <1>6, OneDropLess
<1> QED
  BY <1>1, <1>2, <1>3, <1>5, <1>7

LEMMA OneLeaves ==
  ASSUME NEW g \in Seq(Drops), NEW i \in 1 .. Len(g), NEW k
  PROVE  LET h == SubSeq(g, 1, i - 1) \o SubSeq(g, i + 1, Len(g))
         IN  /\ g[i] \in Drops /\ h \in Seq(Drops)
             /\ OnGround(h, k) = OnGround(g, k) - OfKind(g[i], k)
<1>1. PICK a, b : a = SubSeq(g, 1, i - 1) /\ b = SubSeq(g, i + 1, Len(g))
  OBVIOUS
<1>2. Len(g) \in Nat /\ i \in Nat /\ i >= 1 /\ i <= Len(g) /\ \A j \in 1 .. Len(g) : g[j] \in Drops
  OBVIOUS
<1>3. a \in Seq(Drops) /\ Len(a) = i - 1 /\ \A j \in 1 .. i - 1 : a[j] = g[j]
  BY <1>1, <1>2, SubSeqProperties
<1>4. b \in Seq(Drops) /\ Len(b) = Len(g) - i /\ \A j \in 1 .. Len(g) - i : b[j] = g[i + j]
  <2>1. b \in Seq(Drops) /\ Len(b) = Len(g) - i
    BY <1>1, <1>2, SubSeqProperties
  <2>2. \A j \in 1 .. Len(g) - i : b[j] = g[i + j]
    BY <1>1, <1>2, SubSeqProperties
  <2> QED
    BY <2>1, <2>2
<1>5. PICK h : h = a \o b
  OBVIOUS
<1>6. h \in Seq(Drops) /\ Len(h) = Len(g) - 1
  BY <1>2, <1>3, <1>4, <1>5, ConcatProperties
<1>7. \A j \in 1 .. Len(h) : h[j] = IF j <= Len(a) THEN a[j] ELSE b[j - Len(a)]
  BY <1>3, <1>4, <1>5, ConcatProperties
<1>8. \A j \in 1 .. Len(h) : h[j] = IF j < i THEN g[j] ELSE g[j + 1]
  <2> TAKE j \in 1 .. Len(h)
  <2>1. CASE j < i
    BY <1>2, <1>3, <1>6, <1>7, <2>1
  <2>2. CASE j >= i
    <3>1. h[j] = b[j - (i - 1)]
      BY <1>2, <1>3, <1>6, <1>7, <2>2
    <3>2. j - (i - 1) \in 1 .. Len(g) - i
      BY <1>2, <1>6, <2>2
    <3>3. i + (j - (i - 1)) = j + 1
      BY <1>2, <1>6
    <3> QED
      BY <1>2, <1>4, <1>6, <2>2, <3>1, <3>2, <3>3
  <2> QED
    BY <1>2, <1>6, <2>1, <2>2
<1>9. OnGround(h, k) = OnGround(g, k) - OfKind(g[i], k)
  BY ZenonT(60), <1>6, <1>8, OneDropLess
<1> QED
  BY <1>1, <1>2, <1>5, <1>6, <1>9

-----------------------------------------------------------------------------
(* The totals.                                                              *)

Holdings == [Players -> Inventories]
Grounds  == [Maps -> Seq(Drops)]

Held(v, k) == Sum([p \in Players |-> Amount(v[p], k)], Players)
Lain(g, k) == Sum([m \in Maps |-> OnGround(g[m], k)], Maps)

LEMMA TotalIsSum ==
  ASSUME NEW v \in Holdings, NEW g \in Grounds, NEW k
  PROVE  Total(v, g, k) = Held(v, k) + Lain(g, k) /\ Held(v, k) \in Nat /\ Lain(g, k) \in Nat
<1>1. PICK a : a = [p \in Players |-> Amount(v[p], k)]
  OBVIOUS
<1>2. PICK b : b = [m \in Maps |-> OnGround(g[m], k)]
  OBVIOUS
<1>3. Held(v, k) = Sum(a, Players) /\ Lain(g, k) = Sum(b, Maps)
  BY <1>1, <1>2 DEF Held, Lain
<1>4. SumFunction(a) = Sum(a, Players) /\ SumFunction(b) = Sum(b, Maps)
  BY <1>1, <1>2, SumOfFunction
<1>5. Total(v, g, k) = Held(v, k) + Lain(g, k)
  BY <1>1, <1>2, <1>3, <1>4 DEF Total
<1>6. \A p \in Players : a[p] \in Nat
  <2> TAKE p \in Players
  <2>1. v[p] \in Inventories
    BY DEF Holdings
  <2> QED
    BY <1>1, <2>1, AmountIsSum
<1>7. \A m \in Maps : b[m] \in Nat
  <2> TAKE m \in Maps
  <2>1. g[m] \in Seq(Drops)
    BY DEF Grounds
  <2> QED
    BY <1>2, <2>1, OnGroundIsSum
<1> QED
  BY <1>3, <1>5, <1>6, <1>7, SumNat, TradeConstants

(* One player's inventory changes.                                         *)
LEMMA OneHoldingChanges ==
  ASSUME NEW v \in Holdings, NEW w \in Holdings, NEW p \in Players,
         \A x \in Players \ {p} : w[x] = v[x], NEW k
  PROVE  Held(w, k) = Held(v, k) - Amount(v[p], k) + Amount(w[p], k)
<1>1. PICK a : a = [x \in Players |-> Amount(v[x], k)]
  OBVIOUS
<1>2. PICK b : b = [x \in Players |-> Amount(w[x], k)]
  OBVIOUS
<1>3. Held(v, k) = Sum(a, Players) /\ Held(w, k) = Sum(b, Players)
  BY <1>1, <1>2 DEF Held
<1>4. \A x \in Players : a[x] \in Int /\ b[x] \in Int
  <2> TAKE x \in Players
  <2>1. v[x] \in Inventories /\ w[x] \in Inventories
    BY DEF Holdings
  <2>2. Amount(v[x], k) \in Nat /\ Amount(w[x], k) \in Nat
    BY <2>1, AmountIsSum
  <2>3. a[x] = Amount(v[x], k) /\ b[x] = Amount(w[x], k)
    BY <1>1, <1>2
  <2> QED
    BY <2>2, <2>3
<1>5. \A x \in Players \ {p} : b[x] = a[x]
  BY <1>1, <1>2
<1>6. Sum(b, Players) = Sum(a, Players) - a[p] + b[p]
  BY <1>4, <1>5, SumOneChange, TradeConstants
<1>7. a[p] = Amount(v[p], k) /\ b[p] = Amount(w[p], k)
  BY <1>1, <1>2
<1> QED
  BY <1>3, <1>6, <1>7

(* The drops of one map change.                                            *)
LEMMA OneGroundChanges ==
  ASSUME NEW g \in Grounds, NEW h \in Grounds, NEW m \in Maps,
         \A x \in Maps \ {m} : h[x] = g[x], NEW k
  PROVE  Lain(h, k) = Lain(g, k) - OnGround(g[m], k) + OnGround(h[m], k)
<1>1. PICK a : a = [x \in Maps |-> OnGround(g[x], k)]
  OBVIOUS
<1>2. PICK b : b = [x \in Maps |-> OnGround(h[x], k)]
  OBVIOUS
<1>3. Lain(g, k) = Sum(a, Maps) /\ Lain(h, k) = Sum(b, Maps)
  BY <1>1, <1>2 DEF Lain
<1>4. \A x \in Maps : a[x] \in Int /\ b[x] \in Int
  <2> TAKE x \in Maps
  <2>1. g[x] \in Seq(Drops) /\ h[x] \in Seq(Drops)
    BY DEF Grounds
  <2>2. OnGround(g[x], k) \in Nat /\ OnGround(h[x], k) \in Nat
    BY <2>1, OnGroundIsSum
  <2>3. a[x] = OnGround(g[x], k) /\ b[x] = OnGround(h[x], k)
    BY <1>1, <1>2
  <2> QED
    BY <2>2, <2>3
<1>5. \A x \in Maps \ {m} : b[x] = a[x]
  BY <1>1, <1>2
<1>6. Sum(b, Maps) = Sum(a, Maps) - a[m] + b[m]
  BY <1>4, <1>5, SumOneChange, TradeConstants
<1>7. a[m] = OnGround(g[m], k) /\ b[m] = OnGround(h[m], k)
  BY <1>1, <1>2
<1> QED
  BY <1>3, <1>6, <1>7

(* Two inventories change.                                                 *)
LEMMA TwoHoldingsChange ==
  ASSUME NEW v \in Holdings, NEW w \in Holdings, NEW p \in Players, NEW q \in Players, p # q,
         \A x \in Players : x \notin {p, q} => w[x] = v[x], NEW k
  PROVE  Held(w, k) = Held(v, k) - Amount(v[p], k) - Amount(v[q], k)
                      + Amount(w[p], k) + Amount(w[q], k)
<1>1. PICK u : u = [v EXCEPT ![p] = w[p]]
  OBVIOUS
<1>2. u \in Holdings /\ u[p] = w[p] /\ u[q] = v[q]
  BY <1>1 DEF Holdings
<1>3. \A x \in Players \ {p} : u[x] = v[x]
  BY <1>1 DEF Holdings
<1>4. \A x \in Players \ {q} : w[x] = u[x]
  BY <1>2, <1>3
<1>5. Held(u, k) = Held(v, k) - Amount(v[p], k) + Amount(u[p], k)
  BY <1>2, <1>3, OneHoldingChanges
<1>6. Held(w, k) = Held(u, k) - Amount(u[q], k) + Amount(w[q], k)
  BY <1>2, <1>4, OneHoldingChanges
<1>7. v[p] \in Inventories /\ v[q] \in Inventories /\ w[p] \in Inventories /\ w[q] \in Inventories
  BY DEF Holdings
<1>8. /\ Amount(v[p], k) \in Nat /\ Amount(v[q], k) \in Nat
      /\ Amount(w[p], k) \in Nat /\ Amount(w[q], k) \in Nat
  BY <1>7, AmountIsSum
<1>9. Held(v, k) \in Nat
  <2>1. PICK g \in Grounds : TRUE
    <3>1. StartGround \in Grounds
      BY TradeAssumption DEF Grounds, Drops
    <3> QED
      BY <3>1
  <2> QED
    BY <2>1, TotalIsSum
<1> QED
  BY <1>2, <1>5, <1>6, <1>8, <1>9

-----------------------------------------------------------------------------
(* The inductive invariant.  v, a, d, t and g stand for inv, at, dead, trade *)
(* and agreed.                                                               *)

Fitting == {<<"PENDING_OUT", "PENDING_IN">>, <<"PENDING_IN", "PENDING_OUT">>, <<"OPEN", "OPEN">>}

\* Who trades has a partner who trades with him, in the same map, both alive.
Bond(a, d, t, x) ==
  t[x].state # "NONE" =>
    /\ t[x].partner \in Players /\ t[x].partner # x
    /\ t[t[x].partner].partner = x
    /\ a[x] # Nowhere /\ a[t[x].partner] = a[x]
    /\ ~ d[x] /\ ~ d[t[x].partner]
    /\ <<t[x].state, t[t[x].partner].state>> \in Fitting

NothingUsed(o) == \A i \in TradeSlots : ~ o[i].used

\* Only an open window names offers and acceptances; its offers are covered, and who
\* accepted has seen the two offers as they are.
Terms(v, t, g, x) ==
  /\ t[x].state # "OPEN" => NothingUsed(t[x].offer) /\ ~ t[x].accepted
  /\ t[x].state = "OPEN" => Covered(v[x], t[x].offer)
  /\ t[x].accepted => g[x] = [y \in {x, t[x].partner} |-> t[y].offer]

Sound(v, a, d, t, g, x) == Bond(a, d, t, x) /\ Terms(v, t, g, x)

AllSound(v, a, d, t, g) == \A x \in Players : Sound(v, a, d, t, g, x)

IInv ==
  /\ TypeOK
  /\ agreed = [x \in Players |-> agreed[x]]
  /\ AllSound(inv, at, dead, trade, agreed)
  /\ ItemsConserved

\* Z holds with each trader his partner.
Closed(t, Z) == \A z \in Z : t[z].state = "NONE" \/ t[z].partner \in Z

SameOutside(Z, v, a, d, t, g, v2, a2, d2, t2, g2) ==
  \A x \in Players \ Z : /\ v2[x] = v[x] /\ a2[x] = a[x] /\ d2[x] = d[x] /\ t2[x] = t[x]
                         /\ t[x].accepted => g2[x] = g[x]

(* A change within a closed set leaves the others sound.                   *)
LEMMA ChangeWithin ==
  ASSUME NEW v, NEW a, NEW d, NEW t, NEW g, AllSound(v, a, d, t, g),
         NEW Z, Z \subseteq Players, Closed(t, Z),
         NEW v2, NEW a2, NEW d2, NEW t2, NEW g2,
         SameOutside(Z, v, a, d, t, g, v2, a2, d2, t2, g2),
         \A z \in Z : Sound(v2, a2, d2, t2, g2, z)
  PROVE  AllSound(v2, a2, d2, t2, g2)
<1>1. SUFFICES ASSUME NEW x \in Players \ Z
               PROVE  Sound(v2, a2, d2, t2, g2, x)
  BY DEF AllSound
<1>2. v2[x] = v[x] /\ a2[x] = a[x] /\ d2[x] = d[x] /\ t2[x] = t[x] /\ (t[x].accepted => g2[x] = g[x])
  BY DEF SameOutside
<1>3. Bond(a, d, t, x) /\ Terms(v, t, g, x)
  BY DEF AllSound, Sound
<1>4. CASE t[x].state = "NONE"
  <2>1. Bond(a2, d2, t2, x)
    BY <1>2, <1>4 DEF Bond
  <2>2. Terms(v2, t2, g2, x)
    BY <1>2, <1>3, <1>4 DEF Terms
  <2> QED
    BY <2>1, <2>2 DEF Sound
<1>5. CASE t[x].state # "NONE"
  <2>1. PICK y : y = t[x].partner
    OBVIOUS
  <2>2. /\ y \in Players /\ y # x /\ t[y].partner = x /\ a[x] # Nowhere /\ a[y] = a[x]
        /\ ~ d[x] /\ ~ d[y] /\ <<t[x].state, t[y].state>> \in Fitting
    BY <1>3, <1>5, <2>1 DEF Bond
  <2>3. t[y].state # "NONE"
    BY <2>2 DEF Fitting
  <2>4. y \notin Z
    BY <1>1, <2>2, <2>3 DEF Closed
  <2>5. a2[y] = a[y] /\ d2[y] = d[y] /\ t2[y] = t[y]
    BY <2>2, <2>4 DEF SameOutside
  <2>6. Bond(a2, d2, t2, x)
    BY <1>2, <2>1, <2>2, <2>5 DEF Bond
  <2>7. [z \in {x, t2[x].partner} |-> t2[z].offer] = [z \in {x, t[x].partner} |-> t[z].offer]
    BY <1>2, <2>1, <2>5
  <2>8. Terms(v2, t2, g2, x)
    BY <1>2, <1>3, <2>7 DEF Terms
  <2> QED
    BY <2>6, <2>8 DEF Sound
<1> QED
  BY <1>4, <1>5

\* No trade.
Idle(s) == s.state = "NONE" /\ ~ s.accepted /\ NothingUsed(s.offer)

LEMMA IdleIsSound ==
  ASSUME NEW v, NEW a, NEW d, NEW t, NEW g, NEW x, Idle(t[x])
  PROVE  Sound(v, a, d, t, g, x)
  BY DEF Idle, Sound, Bond, Terms

LEMMA NoTradeFacts ==
  /\ NoTrade \in TradeState /\ Idle(NoTrade)
  /\ NoTrade.offer \in OfferLists /\ NothingUsed(NoTrade.offer)
<1>1. NoOffer \in Offer /\ ~ NoOffer.used
  BY DEF NoOffer, Offer
<1>2. NoTrade.offer \in [TradeSlots -> Offer] /\ NothingUsed(NoTrade.offer)
  BY <1>1 DEF NoTrade, NothingUsed
<1>3. NoTrade \in TradeState
  BY <1>1 DEF NoTrade, TradeState
<1> QED
  BY <1>2, <1>3 DEF NoTrade, Idle, OfferLists

LEMMA NothingOffered ==
  ASSUME NEW v \in Inventories, NEW o \in OfferLists, NothingUsed(o)
  PROVE  Covered(v, o)
<1>1. ASSUME NEW s \in Bag
      PROVE  OfferedFrom(o, s) <= v[s].quantity
  <2>1. PICK f : f = [i \in TradeSlots |-> OfSlot(o[i], s)]
    OBVIOUS
  <2>2. \A i \in TradeSlots : f[i] = 0
    BY <2>1 DEF NothingUsed, OfSlot
  <2>3. Sum(f, TradeSlots) = 0
    BY <2>2, SumZero, TradeConstants
  <2>5. OfferedFrom(o, s) = 0
    BY <2>1, <2>3, OfferedIsSum
  <2>4. v[s].quantity \in Nat
    BY SlotFacts, ItemFacts DEF Inventories
  <2> QED
    BY <2>5, <2>4
<1> QED
  BY <1>1 DEF Covered, NothingUsed

LEMMA TradeFacts ==
  ASSUME NEW s \in TradeState
  PROVE  /\ s.partner \in Players \cup {Nobody} /\ s.accepted \in BOOLEAN /\ s.offer \in OfferLists
         /\ s.state \in {"NONE", "PENDING_OUT", "PENDING_IN", "OPEN"}
  BY DEF TradeState, OfferLists

LEMMA TypeFacts ==
  ASSUME TypeOK
  PROVE  /\ inv \in Holdings /\ ground \in Grounds /\ gone \in [Kinds -> Nat]
         /\ \A x \in Players : inv[x] \in Inventories /\ inv[x] \in Inhabited /\ Valid(inv[x])
         /\ \A x \in Players : trade[x] \in TradeState /\ trade[x].offer \in OfferLists
  BY TradeFacts DEF TypeOK, Holdings, Grounds, Drops, Inventories, Inhabited, Valid

LEMMA CancelledIs ==
  ASSUME TypeOK, AllSound(inv, at, dead, trade, agreed), NEW p \in Players
  PROVE  /\ Cancelled(p) \in [Players -> TradeState]
         /\ \E Z \in SUBSET Players :
              /\ p \in Z /\ Closed(trade, Z)
              /\ \A z \in Z : Idle(Cancelled(p)[z])
              /\ \A x \in Players \ Z : Cancelled(p)[x] = trade[x]
<1>1. Bond(at, dead, trade, p) /\ Terms(inv, trade, agreed, p)
  BY DEF AllSound, Sound
<1>2. trade \in [Players -> TradeState]
  BY DEF TypeOK
<1>3. CASE trade[p].state = "NONE"
  <2>1. Cancelled(p) = trade
    BY <1>3 DEF Cancelled, IsTrading
  <2>2. Idle(trade[p])
    BY <1>1, <1>3 DEF Terms, Idle
  <2>3. Closed(trade, {p})
    BY <1>3 DEF Closed
  <2>4. {p} \in SUBSET Players /\ \A z \in {p} : Idle(Cancelled(p)[z])
    BY <2>1, <2>2
  <2>5. \A x \in Players \ {p} : Cancelled(p)[x] = trade[x]
    BY <2>1
  <2> QED
    BY <1>2, <2>1, <2>3, <2>4, <2>5
<1>4. CASE trade[p].state # "NONE"
  <2>1. PICK q : q = trade[p].partner
    OBVIOUS
  <2>2. /\ q \in Players /\ q # p /\ trade[q].partner = p /\ at[p] # Nowhere /\ at[q] = at[p]
    BY <1>1, <1>4, <2>1 DEF Bond
  <2>3. PartnerHere(p)
    BY <2>1, <2>2, TradeConstants DEF PartnerHere, Here
  <2>4. Cancelled(p) = [x \in Players |-> IF x \in {p, q} THEN NoTrade ELSE trade[x]]
    BY <1>4, <2>1, <2>2, <2>3 DEF Cancelled, IsTrading
  <2>5. Cancelled(p) \in [Players -> TradeState]
    BY <1>2, <2>4, NoTradeFacts
  <2>6. \A z \in {p, q} : Idle(Cancelled(p)[z])
    BY <2>2, <2>4, NoTradeFacts
  <2>7. \A x \in Players \ {p, q} : Cancelled(p)[x] = trade[x]
    BY <2>4
  <2>8. Closed(trade, {p, q})
    BY <2>1, <2>2 DEF Closed
  <2> QED
    BY <2>2, <2>5, <2>6, <2>7, <2>8
<1> QED
  BY <1>3, <1>4

(* The end of a trade, whatever else happens to p.                         *)
LEMMA EndIsSound ==
  ASSUME TypeOK, AllSound(inv, at, dead, trade, agreed), NEW p \in Players,
         NEW a2, NEW d2, NEW g2,
         \A x \in Players \ {p} : a2[x] = at[x] /\ d2[x] = dead[x],
         \A x \in Players : Cancelled(p)[x].accepted => g2[x] = agreed[x]
  PROVE  AllSound(inv, a2, d2, Cancelled(p), g2)
<1>1. PICK u : u = Cancelled(p)
  OBVIOUS
<1>2. PICK Z \in SUBSET Players :
         /\ p \in Z /\ Closed(trade, Z)
         /\ \A z \in Z : Idle(u[z])
         /\ \A x \in Players \ Z : u[x] = trade[x]
  BY <1>1, CancelledIs
<1>3. SameOutside(Z, inv, at, dead, trade, agreed, inv, a2, d2, u, g2)
  BY <1>1, <1>2 DEF SameOutside
<1>4. \A z \in Z : Sound(inv, a2, d2, u, g2, z)
  BY <1>2, IdleIsSound
<1>5. AllSound(inv, a2, d2, u, g2)
  BY <1>2, <1>3, <1>4, ChangeWithin
<1> QED
  BY <1>1, <1>5

LEMMA DealsKeep ==
  ASSUME NEW t
  PROVE  /\ \A x \in Players : t[x].accepted => Deals(t)[x] = agreed[x]
         /\ Deals(t) = [x \in Players |-> Deals(t)[x]]
  BY DEF Deals

(* What a partner is.                                                      *)
LEMMA PartnerFacts ==
  ASSUME TypeOK, AllSound(inv, at, dead, trade, agreed), NEW p \in Players, IsTrading(p),
         NEW q, q = trade[p].partner
  PROVE  /\ q \in Players /\ q # p /\ trade[q].partner = p /\ HasPartner(p)
         /\ at[p] # Nowhere /\ at[q] = at[p] /\ ~ dead[p] /\ ~ dead[q]
         /\ <<trade[p].state, trade[q].state>> \in Fitting
         /\ Closed(trade, {p, q})
         /\ Terms(inv, trade, agreed, p) /\ Terms(inv, trade, agreed, q)
<1>1. Bond(at, dead, trade, p) /\ trade[p].state # "NONE"
  BY DEF AllSound, Sound, IsTrading
<1>2. /\ q \in Players /\ q # p /\ trade[q].partner = p
      /\ at[p] # Nowhere /\ at[q] = at[p] /\ ~ dead[p] /\ ~ dead[q]
      /\ <<trade[p].state, trade[q].state>> \in Fitting
  BY <1>1 DEF Bond
<1>3. HasPartner(p)
  BY <1>2, TradeConstants DEF HasPartner, PartnerHere, Here
<1>4. Closed(trade, {p, q})
  BY <1>2 DEF Closed
<1>5. Terms(inv, trade, agreed, p) /\ Terms(inv, trade, agreed, q)
  BY <1>2 DEF AllSound, Sound
<1> QED
  BY <1>2, <1>3, <1>4, <1>5

(* A step that leaves the items alone.                                     *)
LEMMA TradeOnly ==
  ASSUME IInv, UNCHANGED <<inv, ground, gone>>,
         at' \in [Players -> Maps \cup {Nowhere}], dead' \in [Players -> BOOLEAN],
         trade' \in [Players -> TradeState], agreed' = [x \in Players |-> agreed'[x]],
         AllSound(inv, at', dead', trade', agreed')
  PROVE  IInv'
<1>1. TypeOK'
  BY DEF IInv, TypeOK
<1>2. AllSound(inv, at, dead, trade, agreed)'
  BY DEF AllSound, Sound, Terms, Bond
<1>3. ItemsConserved'
  BY DEF IInv, ItemsConserved
<1> QED
  BY <1>1, <1>2, <1>3 DEF IInv

-----------------------------------------------------------------------------
(* The handlers of the trade.                                               *)

LEMMA RequestKeeps ==
  ASSUME IInv, NEW p \in Players, NEW q \in Players, Request(p, q)
  PROVE  IInv'
<1>1. /\ at[p] # Nowhere /\ ~ dead[p] /\ trade[p].state = "NONE"
      /\ q # p /\ at[q] = at[p] /\ ~ dead[q] /\ trade[q].state = "NONE"
      /\ UNCHANGED <<inv, at, dead, ground, agreed, gone>>
  BY DEF Request, MayAct, Here, IsTrading
<1>2. TypeOK /\ AllSound(inv, at, dead, trade, agreed) /\ agreed = [x \in Players |-> agreed[x]]
  BY DEF IInv
<1>3. PICK sp, sq : /\ sp = [NoTrade EXCEPT !.partner = q, !.state = "PENDING_OUT"]
                    /\ sq = [NoTrade EXCEPT !.partner = p, !.state = "PENDING_IN"]
  OBVIOUS
<1>4. /\ sp.partner = q /\ sp.state = "PENDING_OUT" /\ ~ sp.accepted /\ sp.offer = NoTrade.offer
      /\ sq.partner = p /\ sq.state = "PENDING_IN" /\ ~ sq.accepted /\ sq.offer = NoTrade.offer
  BY <1>3 DEF NoTrade
<1>5. sp \in TradeState /\ sq \in TradeState
  BY <1>3, NoTradeFacts DEF TradeState
<1>6. PICK u : u = [trade EXCEPT ![p] = sp, ![q] = sq]
  OBVIOUS
<1>7. trade' = u
  BY <1>3, <1>6 DEF Request
<1>8. trade \in [Players -> TradeState]
  BY <1>2 DEF TypeOK
<1>9. u \in [Players -> TradeState] /\ u[p] = sp /\ u[q] = sq /\ \A x \in Players \ {p, q} : u[x] = trade[x]
  BY <1>1, <1>5, <1>6, <1>8
<1>10. Closed(trade, {p, q})
  BY <1>1 DEF Closed
<1>11. SameOutside({p, q}, inv, at, dead, trade, agreed, inv, at, dead, u, agreed)
  BY <1>9 DEF SameOutside
<1>12. Sound(inv, at, dead, u, agreed, p)
  <2>1. Bond(at, dead, u, p)
    BY <1>1, <1>4, <1>9 DEF Bond, Fitting
  <2>2. Terms(inv, u, agreed, p)
    BY <1>4, <1>9, NoTradeFacts DEF Terms
  <2> QED
    BY <2>1, <2>2 DEF Sound
<1>13. Sound(inv, at, dead, u, agreed, q)
  <2>1. Bond(at, dead, u, q)
    BY <1>1, <1>4, <1>9 DEF Bond, Fitting
  <2>2. Terms(inv, u, agreed, q)
    BY <1>4, <1>9, NoTradeFacts DEF Terms
  <2> QED
    BY <2>1, <2>2 DEF Sound
<1>14. AllSound(inv, at, dead, u, agreed)
  BY <1>2, <1>10, <1>11, <1>12, <1>13, ChangeWithin
<1> QED
  BY <1>1, <1>2, <1>7, <1>9, <1>14, TradeOnly DEF TypeOK

(* A step that ends the trade of p.                                        *)
LEMMA EndKeeps ==
  ASSUME IInv, NEW p \in Players, UNCHANGED <<inv, ground, gone>>,
         at' \in [Players -> Maps \cup {Nowhere}], dead' \in [Players -> BOOLEAN],
         \A x \in Players \ {p} : at'[x] = at[x] /\ dead'[x] = dead[x],
         trade' = Cancelled(p), agreed' = agreed \/ agreed' = Deals(trade')
  PROVE  IInv'
<1>1. TypeOK /\ AllSound(inv, at, dead, trade, agreed) /\ agreed = [x \in Players |-> agreed[x]]
  BY DEF IInv
<1>2. agreed' = [x \in Players |-> agreed'[x]]
  BY <1>1, DealsKeep
<1>3. \A x \in Players : Cancelled(p)[x].accepted => agreed'[x] = agreed[x]
  BY DealsKeep
<1>4. AllSound(inv, at', dead', Cancelled(p), agreed')
  BY <1>1, <1>3, EndIsSound
<1>5. Cancelled(p) \in [Players -> TradeState]
  BY <1>1, CancelledIs
<1> QED
  BY <1>2, <1>4, <1>5, TradeOnly

(* One trade record changes a field.                                       *)
LEMMA RecordChanges ==
  ASSUME NEW s \in TradeState
  PROVE  /\ LET r == [s EXCEPT !.accepted = FALSE]
            IN  /\ r \in TradeState /\ ~ r.accepted
                /\ r.state = s.state /\ r.partner = s.partner /\ r.offer = s.offer
         /\ LET r == [s EXCEPT !.accepted = TRUE]
            IN  /\ r \in TradeState /\ r.accepted
                /\ r.state = s.state /\ r.partner = s.partner /\ r.offer = s.offer
         /\ LET r == [s EXCEPT !.state = "OPEN", !.accepted = FALSE]
            IN  /\ r \in TradeState /\ ~ r.accepted /\ r.state = "OPEN"
                /\ r.partner = s.partner /\ r.offer = s.offer
  BY DEF TradeState

LEMMA RespondKeeps ==
  ASSUME IInv, NEW p \in Players, NEW accept \in BOOLEAN, Respond(p, accept)
  PROVE  IInv'
<1>1. PICK q : q = trade[p].partner
  OBVIOUS
<1>2. trade[p].state = "PENDING_IN" /\ UNCHANGED <<inv, at, dead, ground, agreed, gone>>
  BY DEF Respond
<1>3. TypeOK /\ AllSound(inv, at, dead, trade, agreed) /\ agreed = [x \in Players |-> agreed[x]]
  BY DEF IInv
<1>4. /\ q \in Players /\ q # p /\ trade[q].partner = p /\ HasPartner(p)
      /\ at[p] # Nowhere /\ at[q] = at[p] /\ ~ dead[p] /\ ~ dead[q]
      /\ <<trade[p].state, trade[q].state>> \in Fitting
      /\ Closed(trade, {p, q})
      /\ Terms(inv, trade, agreed, p) /\ Terms(inv, trade, agreed, q)
  <2>1. IsTrading(p)
    BY <1>2 DEF IsTrading
  <2> QED
    BY <1>1, <1>3, <2>1, PartnerFacts
<1>5. trade[q].state = "PENDING_OUT"
  BY <1>2, <1>4 DEF Fitting
<1>6. CASE ~ accept
  <2>1. trade' = Cancelled(p)
    BY <1>1, <1>4, <1>5, <1>6 DEF Respond
  <2> QED
    BY <1>2, <1>3, <2>1, EndKeeps DEF TypeOK
<1>7. CASE accept
  <2>1. PICK u : u = [trade EXCEPT ![p].state = "OPEN", ![p].accepted = FALSE,
                                   ![q].state = "OPEN", ![q].accepted = FALSE]
    OBVIOUS
  <2>2. trade' = u
    BY <1>1, <1>4, <1>5, <1>7, <2>1 DEF Respond
  <2>3. trade \in [Players -> TradeState]
    BY <1>3 DEF TypeOK
  <2>4. /\ u = [x \in Players |-> IF x \in {p, q} THEN u[x] ELSE trade[x]]
        /\ \A z \in {p, q} : u[z] = [trade[z] EXCEPT !.state = "OPEN", !.accepted = FALSE]
    BY <1>4, <2>1, <2>3
  <2>5. \A z \in {p, q} : /\ u[z].state = "OPEN" /\ ~ u[z].accepted /\ u[z] \in TradeState
                          /\ u[z].partner = trade[z].partner /\ u[z].offer = trade[z].offer
    <3> TAKE z \in {p, q}
    <3>1. PICK s \in TradeState : s = trade[z]
      BY <1>4, <2>3
    <3>2. PICK r : r = [s EXCEPT !.state = "OPEN", !.accepted = FALSE]
      OBVIOUS
    <3>3. u[z] = r
      BY <2>4, <3>1, <3>2
    <3>4. r \in TradeState /\ ~ r.accepted /\ r.state = "OPEN" /\ r.partner = s.partner /\ r.offer = s.offer
      BY <3>2, RecordChanges
    <3> QED
      BY <3>1, <3>3, <3>4
  <2>9. u \in [Players -> TradeState] /\ \A x \in Players \ {p, q} : u[x] = trade[x]
    BY <2>3, <2>4, <2>5
  <2>6. SameOutside({p, q}, inv, at, dead, trade, agreed, inv, at, dead, u, agreed)
    BY <2>9 DEF SameOutside
  <2>7. ASSUME NEW z \in {p, q}
        PROVE  Sound(inv, at, dead, u, agreed, z)
    <3>1. Bond(at, dead, u, z)
      BY <1>1, <1>4, <2>5 DEF Bond, Fitting
    <3>2. inv[z] \in Inventories /\ trade[z].offer \in OfferLists
      BY <1>3, <1>4, TypeFacts
    <3>3. NothingUsed(trade[z].offer)
      BY <1>2, <1>4, <1>5 DEF Terms
    <3>4. Covered(inv[z], u[z].offer)
      BY <2>5, <3>2, <3>3, NothingOffered
    <3>5. Terms(inv, u, agreed, z)
      BY <2>5, <3>4 DEF Terms
    <3> QED
      BY <3>1, <3>5 DEF Sound
  <2>8. AllSound(inv, at, dead, u, agreed)
    BY <1>3, <1>4, <2>6, <2>7, ChangeWithin
  <2> QED
    BY <1>2, <1>3, <2>2, <2>9, <2>8, TradeOnly DEF TypeOK
<1> QED
  BY <1>6, <1>7

(* What changes an offer: the window stays open, both acceptances are gone. *)
LEMMA OfferKeeps ==
  ASSUME IInv, NEW p \in Players, trade[p].state = "OPEN", NEW q, q = trade[p].partner,
         NEW o \in OfferLists, Covered(inv[p], o),
         UNCHANGED <<inv, at, dead, ground, gone>>,
         NEW t, t = [trade EXCEPT ![p].offer = o], trade' = ResetBothAccepts(t, p, q),
         agreed' = Deals(trade')
  PROVE  IInv'
<1>1. TypeOK /\ AllSound(inv, at, dead, trade, agreed)
  BY DEF IInv
<1>2. /\ q \in Players /\ q # p /\ trade[q].partner = p
      /\ at[p] # Nowhere /\ at[q] = at[p] /\ ~ dead[p] /\ ~ dead[q]
      /\ <<trade[p].state, trade[q].state>> \in Fitting
      /\ Closed(trade, {p, q})
      /\ Terms(inv, trade, agreed, p) /\ Terms(inv, trade, agreed, q)
  <2>1. IsTrading(p)
    BY DEF IsTrading
  <2> QED
    BY <1>1, <2>1, PartnerFacts
<1>3. trade[q].state = "OPEN"
  BY <1>2 DEF Fitting
<1>4. trade \in [Players -> TradeState]
  BY <1>1 DEF TypeOK
<1>5. PICK u : u = ResetBothAccepts(t, p, q)
  OBVIOUS
<1>6. /\ t \in [Players -> TradeState]
      /\ t[p].partner = q /\ t[p].state = "OPEN" /\ t[p].offer = o
      /\ \A x \in Players \ {p} : t[x] = trade[x]
  BY <1>4 DEF TradeState, OfferLists
<1>7. /\ u \in [Players -> TradeState]
      /\ \A z \in {p, q} : /\ ~ u[z].accepted /\ u[z].state = "OPEN"
                           /\ u[z].partner = trade[z].partner /\ u[z].offer = t[z].offer
      /\ \A x \in Players \ {p, q} : u[x] = trade[x]
  <2>1. u = [t EXCEPT ![p].accepted = FALSE, ![q].accepted = FALSE]
    BY <1>5 DEF ResetBothAccepts
  <2>2. /\ u = [x \in Players |-> IF x \in {p, q} THEN u[x] ELSE t[x]]
        /\ \A z \in {p, q} : u[z] = [t[z] EXCEPT !.accepted = FALSE]
    BY <1>2, <1>6, <2>1
  <2>3. \A z \in {p, q} : /\ ~ u[z].accepted /\ u[z] \in TradeState /\ u[z].state = t[z].state
                          /\ u[z].partner = t[z].partner /\ u[z].offer = t[z].offer
    <3> TAKE z \in {p, q}
    <3>1. PICK s \in TradeState : s = t[z]
      BY <1>2, <1>6
    <3>2. PICK r : r = [s EXCEPT !.accepted = FALSE]
      OBVIOUS
    <3>3. u[z] = r
      BY <2>2, <3>1, <3>2
    <3>4. r \in TradeState /\ ~ r.accepted /\ r.state = s.state /\ r.partner = s.partner /\ r.offer = s.offer
      BY <3>2, RecordChanges
    <3> QED
      BY <3>1, <3>3, <3>4
  <2>4. u \in [Players -> TradeState]
    BY <1>6, <2>2, <2>3
  <2>5. \A x \in Players \ {p, q} : u[x] = trade[x]
    BY <1>6, <2>2
  <2> QED
    BY <1>2, <1>3, <1>6, <2>3, <2>4, <2>5
<1>8. PICK g2 : g2 = Deals(u)
  OBVIOUS
<1>9. \A x \in Players : u[x].accepted => g2[x] = agreed[x]
  BY <1>8, DealsKeep
<1>10. SameOutside({p, q}, inv, at, dead, trade, agreed, inv, at, dead, u, g2)
  BY <1>7, <1>9 DEF SameOutside
<1>11. ASSUME NEW z \in {p, q}
       PROVE  Sound(inv, at, dead, u, g2, z)
  <2>1. Bond(at, dead, u, z)
    BY <1>2, <1>7 DEF Bond, Fitting
  <2>2. Covered(inv[z], u[z].offer)
    <3>1. CASE z = p
      BY <1>6, <1>7, <3>1
    <3>2. CASE z = q
      BY <1>2, <1>3, <1>6, <1>7, <3>2 DEF Terms
    <3> QED
      BY <3>1, <3>2
  <2>3. Terms(inv, u, g2, z)
    BY <1>7, <2>2 DEF Terms
  <2> QED
    BY <2>1, <2>3 DEF Sound
<1>12. AllSound(inv, at, dead, u, g2)
  BY <1>1, <1>2, <1>10, <1>11, ChangeWithin
<1>13. agreed' = g2 /\ trade' = u
  BY <1>5, <1>8
<1>14. agreed' = [x \in Players |-> agreed'[x]]
  BY DealsKeep
<1> QED
  BY <1>1, <1>7, <1>12, <1>13, <1>14, TradeOnly DEF TypeOK

(* An offer that replaces the one of trade slot i fits.                    *)
LEMMA OneOfferCovered ==
  ASSUME NEW v \in Inventories, NEW o \in OfferLists, Covered(v, o),
         NEW i \in TradeSlots, NEW r \in Offer,
         r.used => /\ r.kind = v[r.slot].kind
                   /\ OfferedFrom(o, r.slot) - OfSlot(o[i], r.slot) + r.quantity <= v[r.slot].quantity
  PROVE  [o EXCEPT ![i] = r] \in OfferLists /\ Covered(v, [o EXCEPT ![i] = r])
<1>1. PICK u : u = [o EXCEPT ![i] = r]
  OBVIOUS
<1>2. u \in OfferLists /\ u[i] = r /\ \A j \in TradeSlots \ {i} : u[j] = o[j]
  BY <1>1 DEF OfferLists
<1>3. ASSUME NEW s \in Bag
      PROVE  OfferedFrom(u, s) <= v[s].quantity
  <2>1. OfferedFrom(u, s) = OfferedFrom(o, s) - OfSlot(o[i], s) + OfSlot(r, s)
    BY <1>2, OfferedChanges
  <2>2. OfferedFrom(o, s) \in Nat /\ OfferedFrom(o, s) <= v[s].quantity
    BY OfferedIsSum DEF Covered
  <2>3. OfSlot(o[i], s) \in Nat
    <3>1. o[i] \in Offer
      BY DEF OfferLists
    <3> QED
      BY <3>1, OfferFacts
  <2>4. v[s].quantity \in Nat
    BY SlotFacts, ItemFacts DEF Inventories
  <2>5. CASE r.used /\ r.slot = s
    BY <2>1, <2>5 DEF OfSlot
  <2>6. CASE ~ (r.used /\ r.slot = s)
    <3>1. OfSlot(r, s) = 0
      BY <2>6 DEF OfSlot
    <3> QED
      BY <2>1, <2>2, <2>3, <2>4, <3>1
  <2> QED
    BY <2>5, <2>6
<1>4. \A j \in TradeSlots : u[j].used => u[j].kind = v[u[j].slot].kind
  BY <1>2 DEF Covered
<1>5. Covered(v, u)
  BY <1>3, <1>4 DEF Covered
<1> QED
  BY <1>1, <1>2, <1>5

LEMMA AddItemKeeps ==
  ASSUME IInv, NEW p \in Players, NEW i \in TradeSlots, NEW s \in Bag, NEW n \in 1 .. MaxOffer,
         AddItem(p, i, s, n)
  PROVE  IInv'
<1>1. PICK q : q = trade[p].partner
  OBVIOUS
<1>2. trade[p].state = "OPEN" /\ UNCHANGED <<inv, at, dead, ground, gone>>
  BY DEF AddItem, InWindow
<1>3. TypeOK /\ AllSound(inv, at, dead, trade, agreed)
  BY DEF IInv
<1>4. HasPartner(p) /\ Terms(inv, trade, agreed, p)
  <2>1. IsTrading(p)
    BY <1>2 DEF IsTrading
  <2> QED
    BY <1>1, <1>3, <2>1, PartnerFacts
<1>5. PICK r : r = [used |-> TRUE, slot |-> s, kind |-> inv[p][s].kind, quantity |-> n]
  OBVIOUS
<1>6. PICK o : o = trade[p].offer
  OBVIOUS
<1>7. PICK t : t = [trade EXCEPT ![p].offer = [o EXCEPT ![i] = r]]
  OBVIOUS
<1>8. /\ OfferedElsewhere(p, s, i) + n <= inv[p][s].quantity
      /\ n <= inv[p][s].quantity
      /\ trade' = ResetBothAccepts([trade EXCEPT ![p].offer[i] = r], p, q)
      /\ agreed' = Deals(trade')
  BY <1>1, <1>4, <1>5 DEF AddItem
<1>9. [trade EXCEPT ![p].offer[i] = r] = t
  BY <1>3, <1>6, <1>7 DEF TypeOK
<1>10. o \in OfferLists /\ inv[p] \in Inventories /\ Covered(inv[p], o)
  BY <1>2, <1>3, <1>4, <1>6, TypeFacts DEF Terms
<1>11. inv[p][s].kind \in Kinds
  <2>1. inv[p][s] \in Item /\ inv[p][s].quantity # 0
    BY <1>8, <1>10, SlotFacts, TradeConstants DEF Inventories
  <2> QED
    BY <2>1, ItemFacts
<1>12. r \in Offer /\ r.used /\ r.slot = s /\ r.kind = inv[p][s].kind /\ r.quantity = n
  BY <1>5, <1>11 DEF Offer
<1>13. OfferedFrom(o, s) - OfSlot(o[i], s) + n <= inv[p][s].quantity
  <2>1. OfferedElsewhere(p, s, i) \in Nat /\ OfferedFrom(o, s) = OfSlot(o[i], s) + OfferedElsewhere(p, s, i)
    BY <1>6, <1>10, OfferedWithout
  <2>2. OfSlot(o[i], s) \in Nat
    <3>1. o[i] \in Offer
      BY <1>10 DEF OfferLists
    <3> QED
      BY <3>1, OfferFacts
  <2>3. inv[p][s].quantity \in Nat
    BY <1>10, SlotFacts, ItemFacts DEF Inventories
  <2> QED
    BY <1>8, <2>1, <2>2, <2>3
<1>14. [o EXCEPT ![i] = r] \in OfferLists /\ Covered(inv[p], [o EXCEPT ![i] = r])
  BY <1>10, <1>12, <1>13, OneOfferCovered
<1> QED
  BY <1>1, <1>2, <1>7, <1>8, <1>9, <1>14, OfferKeeps

LEMMA RemoveItemKeeps ==
  ASSUME IInv, NEW p \in Players, NEW i \in TradeSlots, RemoveItem(p, i)
  PROVE  IInv'
<1>1. PICK q : q = trade[p].partner
  OBVIOUS
<1>2. trade[p].state = "OPEN" /\ UNCHANGED <<inv, at, dead, ground, gone>>
  BY DEF RemoveItem, InWindow
<1>3. TypeOK /\ AllSound(inv, at, dead, trade, agreed)
  BY DEF IInv
<1>4. HasPartner(p) /\ Terms(inv, trade, agreed, p)
  <2>1. IsTrading(p)
    BY <1>2 DEF IsTrading
  <2> QED
    BY <1>1, <1>3, <2>1, PartnerFacts
<1>5. PICK o : o = trade[p].offer
  OBVIOUS
<1>6. PICK r : r = [o[i] EXCEPT !.used = FALSE]
  OBVIOUS
<1>7. PICK t : t = [trade EXCEPT ![p].offer = [o EXCEPT ![i] = r]]
  OBVIOUS
<1>8. /\ trade' = ResetBothAccepts([trade EXCEPT ![p].offer[i].used = FALSE], p, q)
      /\ agreed' = Deals(trade')
  BY <1>1, <1>4 DEF RemoveItem
<1>9. [trade EXCEPT ![p].offer[i].used = FALSE] = t
  BY <1>3, <1>5, <1>6, <1>7 DEF TypeOK
<1>10. o \in OfferLists /\ inv[p] \in Inventories /\ Covered(inv[p], o)
  BY <1>2, <1>3, <1>4, <1>5, TypeFacts DEF Terms
<1>11. r \in Offer /\ ~ r.used
  <2>1. o[i] \in Offer
    BY <1>10 DEF OfferLists
  <2> QED
    <3>1. CASE o[i] = NoOffer
      <4>1. o[i] \in [used : {FALSE}, slot : {0}, kind : {None}, quantity : {0}]
        BY <3>1 DEF NoOffer
      <4>2. r \in [used : {FALSE}, slot : {0}, kind : {None}, quantity : {0}]
        BY <1>6, <4>1
      <4>3. r = NoOffer
        BY <4>2 DEF NoOffer
      <4> QED
        BY <2>1, <3>1, <4>3 DEF NoOffer
    <3>2. CASE o[i] \in [used : BOOLEAN, slot : Bag, kind : Kinds, quantity : 1 .. MaxOffer]
      <4>1. r \in [used : BOOLEAN, slot : Bag, kind : Kinds, quantity : 1 .. MaxOffer] /\ ~ r.used
        BY <1>6, <3>2
      <4> QED
        BY <4>1 DEF Offer
    <3> QED
      BY <2>1, <3>1, <3>2 DEF Offer
<1>12. [o EXCEPT ![i] = r] \in OfferLists /\ Covered(inv[p], [o EXCEPT ![i] = r])
  BY <1>10, <1>11, OneOfferCovered
<1> QED
  BY <1>1, <1>2, <1>7, <1>8, <1>9, <1>12, OfferKeeps

-----------------------------------------------------------------------------
(* The exchange.                                                            *)

\* What CommitTrade does when both results fit.
Done(p, q) ==
  /\ Exchanged(p, q) # <<>> /\ Exchanged(q, p) # <<>>
  /\ inv' = [inv EXCEPT ![p] = Exchanged(p, q), ![q] = Exchanged(q, p)]
  /\ trade' = [trade EXCEPT ![p] = NoTrade, ![q] = NoTrade]

LEMMA DoneKeeps ==
  ASSUME IInv, NEW p \in Players, trade[p].state = "OPEN", NEW q, q = trade[p].partner,
         Done(p, q), agreed' = Deals(trade'), UNCHANGED <<at, dead, ground, gone>>
  PROVE  IInv' /\ \A x \in {p, q}, y \in {p, q} : x # y =>
                    \A k \in Kinds : Amount(inv'[x], k)
                      = Amount(inv[x], k) - OfferedKind(trade[x].offer, k) + OfferedKind(trade[y].offer, k)
<1>1. TypeOK /\ AllSound(inv, at, dead, trade, agreed) /\ ItemsConserved
  BY DEF IInv
<1>2. /\ q \in Players /\ q # p /\ <<trade[p].state, trade[q].state>> \in Fitting
      /\ Closed(trade, {p, q})
      /\ Terms(inv, trade, agreed, p) /\ Terms(inv, trade, agreed, q)
  <2>1. IsTrading(p)
    BY DEF IsTrading
  <2> QED
    BY <1>1, <2>1, PartnerFacts
<1>3. trade[q].state = "OPEN"
  BY <1>2 DEF Fitting
<1>4. /\ inv \in Holdings /\ ground \in Grounds /\ gone \in [Kinds -> Nat]
      /\ \A x \in Players : inv[x] \in Inventories /\ inv[x] \in Inhabited
      /\ trade \in [Players -> TradeState]
      /\ \A x \in Players : trade[x].offer \in OfferLists
  BY <1>1, TypeFacts DEF TypeOK
<1>5. Covered(inv[p], trade[p].offer) /\ Covered(inv[q], trade[q].offer)
  BY <1>2, <1>3 DEF Terms
<1>6. PICK vp, vq : vp = Exchanged(p, q) /\ vq = Exchanged(q, p)
  OBVIOUS
<1>7. vp \in Inhabited /\ \A k \in Kinds : Amount(vp, k)
        = Amount(inv[p], k) - OfferedKind(trade[p].offer, k) + OfferedKind(trade[q].offer, k)
  BY <1>2, <1>4, <1>5, <1>6, ExchangeGives DEF Done
<1>8. vq \in Inhabited /\ \A k \in Kinds : Amount(vq, k)
        = Amount(inv[q], k) - OfferedKind(trade[q].offer, k) + OfferedKind(trade[p].offer, k)
  BY <1>2, <1>4, <1>5, <1>6, ExchangeGives DEF Done
<1>9. PICK w : w = [inv EXCEPT ![p] = vp, ![q] = vq]
  OBVIOUS
<1>10. /\ w \in Holdings /\ \A x \in Players : w[x] \in Inhabited
       /\ w[p] = vp /\ w[q] = vq
       /\ \A x \in Players : x \notin {p, q} => w[x] = inv[x]
  BY <1>2, <1>4, <1>7, <1>8, <1>9 DEF Holdings, Inhabited
<1>11. PICK u : u = [trade EXCEPT ![p] = NoTrade, ![q] = NoTrade]
  OBVIOUS
<1>12. /\ u \in [Players -> TradeState] /\ Idle(u[p]) /\ Idle(u[q])
       /\ \A x \in Players \ {p, q} : u[x] = trade[x]
  BY <1>2, <1>4, <1>11, NoTradeFacts
<1>13. inv' = w /\ trade' = u
  BY <1>6, <1>9, <1>11 DEF Done
<1>14. AllSound(w, at, dead, u, agreed')
  <2>1. \A x \in Players : u[x].accepted => agreed'[x] = agreed[x]
    BY <1>13, DealsKeep
  <2>2. SameOutside({p, q}, inv, at, dead, trade, agreed, w, at, dead, u, agreed')
    BY <1>10, <1>12, <2>1 DEF SameOutside
  <2>3. \A z \in {p, q} : Sound(w, at, dead, u, agreed', z)
    BY <1>12, IdleIsSound
  <2> QED
    BY <1>1, <1>2, <2>2, <2>3, ChangeWithin
<1>15. AllSound(inv, at, dead, trade, agreed)'
  BY <1>13, <1>14 DEF AllSound, Sound, Terms, Bond
<1>16. TypeOK'
  BY <1>1, <1>10, <1>12, <1>13 DEF TypeOK, Holdings, Inventories, Inhabited
<1>17. ASSUME NEW k \in Kinds
       PROVE  Total(inv', ground', k) = Total(inv, ground, k)
  <2>1. Held(w, k) = Held(inv, k) - Amount(inv[p], k) - Amount(inv[q], k) + Amount(vp, k) + Amount(vq, k)
    BY <1>2, <1>4, <1>10, TwoHoldingsChange
  <2>2. PICK ap, aq, op, oq : /\ ap = Amount(inv[p], k) /\ aq = Amount(inv[q], k)
                              /\ op = OfferedKind(trade[p].offer, k) /\ oq = OfferedKind(trade[q].offer, k)
    OBVIOUS
  <2>3. ap \in Nat /\ aq \in Nat
    BY <1>2, <1>4, <2>2, AmountIsSum
  <2>4. op \in Nat /\ oq \in Nat
    BY <1>2, <1>4, <2>2, OfferedIsSum
  <2>5. Amount(vp, k) = ap - op + oq /\ Amount(vq, k) = aq - oq + op
    BY <1>7, <1>8, <2>2
  <2>6. Held(inv, k) \in Nat
    BY <1>4, TotalIsSum
  <2>7. Held(w, k) = Held(inv, k)
    BY <2>1, <2>2, <2>3, <2>4, <2>5, <2>6
  <2> QED
    BY <1>4, <1>10, <1>13, <2>7, TotalIsSum
<1>18. ItemsConserved'
  BY <1>1, <1>17 DEF ItemsConserved
<1>19. agreed' = [x \in Players |-> agreed'[x]]
  BY DealsKeep
<1>20. IInv'
  BY <1>15, <1>16, <1>18, <1>19 DEF IInv
<1>21. \A x \in {p, q}, y \in {p, q} : x # y =>
         \A k \in Kinds : Amount(inv'[x], k)
           = Amount(inv[x], k) - OfferedKind(trade[x].offer, k) + OfferedKind(trade[y].offer, k)
  BY <1>7, <1>8, <1>10, <1>13
<1> QED
  BY <1>20, <1>21

LEMMA AcceptCases ==
  ASSUME IInv, NEW p \in Players, Accept(p), NEW q, q = trade[p].partner
  PROVE  /\ q \in Players /\ q # p /\ trade[p].state = "OPEN" /\ UNCHANGED <<at, dead, ground, gone>>
         /\ \/ trade[q].accepted /\ Done(p, q) /\ agreed' = Deals(trade')
            \/ /\ trade[q].accepted /\ UNCHANGED inv /\ agreed' = Deals(trade')
               /\ trade' = ResetBothAccepts(trade, p, q)
            \/ /\ ~ trade[q].accepted /\ UNCHANGED inv
               /\ trade' = [trade EXCEPT ![p].accepted = TRUE]
               /\ agreed' = [agreed EXCEPT ![p] = Offers(p, q)]
<1>1. trade[p].state = "OPEN" /\ UNCHANGED <<at, dead, ground, gone>>
  BY DEF Accept, InWindow
<1>2. q \in Players /\ q # p /\ HasPartner(p)
  <2>1. IsTrading(p)
    BY <1>1 DEF IsTrading
  <2> QED
    BY <2>1, PartnerFacts DEF IInv
<1>3. CASE trade[q].accepted
  <2>1. Commit(p, q) /\ agreed' = Deals(trade')
    BY <1>2, <1>3 DEF Accept
  <2>2. \/ Done(p, q)
        \/ trade' = ResetBothAccepts(trade, p, q) /\ UNCHANGED inv
    BY <2>1 DEF Commit, Done
  <2> QED
    BY <1>1, <1>2, <1>3, <2>1, <2>2
<1>4. CASE ~ trade[q].accepted
  <2>1. /\ trade' = [trade EXCEPT ![p].accepted = TRUE]
        /\ agreed' = [agreed EXCEPT ![p] = Offers(p, q)]
        /\ UNCHANGED inv
    BY <1>2, <1>4 DEF Accept
  <2> QED
    BY <1>1, <1>2, <1>4, <2>1
<1> QED
  BY <1>3, <1>4

LEMMA AcceptKeeps ==
  ASSUME IInv, NEW p \in Players, Accept(p)
  PROVE  IInv'
<1>1. PICK q : q = trade[p].partner
  OBVIOUS
<1>2. TypeOK /\ AllSound(inv, at, dead, trade, agreed) /\ agreed = [x \in Players |-> agreed[x]]
  BY DEF IInv
<1>3. q \in Players /\ q # p /\ trade[p].state = "OPEN" /\ UNCHANGED <<at, dead, ground, gone>>
  BY <1>1, AcceptCases
<1>4. CASE Done(p, q) /\ agreed' = Deals(trade')
  BY <1>1, <1>3, <1>4, DoneKeeps
<1>5. CASE UNCHANGED inv /\ agreed' = Deals(trade') /\ trade' = ResetBothAccepts(trade, p, q)
  <2>1. PICK o : o = trade[p].offer
    OBVIOUS
  <2>2. PICK t : t = [trade EXCEPT ![p].offer = o]
    OBVIOUS
  <2>3. t = trade
    BY <1>2, <2>1, <2>2 DEF TypeOK, TradeState
  <2>4. o \in OfferLists /\ Covered(inv[p], o)
    BY <1>2, <1>3, <2>1, TypeFacts DEF AllSound, Sound, Terms
  <2> QED
    BY <1>1, <1>3, <1>5, <2>2, <2>3, <2>4, OfferKeeps
<1>6. CASE /\ ~ trade[q].accepted /\ UNCHANGED inv
           /\ trade' = [trade EXCEPT ![p].accepted = TRUE]
           /\ agreed' = [agreed EXCEPT ![p] = Offers(p, q)]
  <2>1. /\ trade[q].partner = p /\ trade[q].state = "OPEN"
        /\ at[p] # Nowhere /\ at[q] = at[p] /\ ~ dead[p] /\ ~ dead[q]
        /\ Closed(trade, {p, q})
        /\ Terms(inv, trade, agreed, p) /\ Terms(inv, trade, agreed, q)
    <3>1. IsTrading(p)
      BY <1>3 DEF IsTrading
    <3>2. /\ trade[q].partner = p
          /\ at[p] # Nowhere /\ at[q] = at[p] /\ ~ dead[p] /\ ~ dead[q]
          /\ <<trade[p].state, trade[q].state>> \in Fitting
          /\ Closed(trade, {p, q})
          /\ Terms(inv, trade, agreed, p) /\ Terms(inv, trade, agreed, q)
      BY <1>1, <1>2, <3>1, PartnerFacts
    <3>3. trade[q].state = "OPEN"
      BY <1>3, <3>2 DEF Fitting
    <3> QED
      BY <3>2, <3>3
  <2>2. trade \in [Players -> TradeState]
    BY <1>2 DEF TypeOK
  <2>3. PICK s \in TradeState : s = trade[p]
    BY <2>2
  <2>4. PICK r : r = [s EXCEPT !.accepted = TRUE]
    OBVIOUS
  <2>5. r \in TradeState /\ r.accepted /\ r.state = s.state /\ r.partner = s.partner /\ r.offer = s.offer
    BY <2>4, RecordChanges
  <2>6. PICK u : u = [trade EXCEPT ![p] = r]
    OBVIOUS
  <2>7. trade' = u
    BY <1>6, <2>2, <2>3, <2>4, <2>6
  <2>8. u \in [Players -> TradeState] /\ u[p] = r /\ \A x \in Players \ {p} : u[x] = trade[x]
    BY <2>2, <2>5, <2>6
  <2>9. PICK g : g = [agreed EXCEPT ![p] = Offers(p, q)]
    OBVIOUS
  <2>10. /\ g[p] = Offers(p, q) /\ g = [x \in Players |-> g[x]]
         /\ \A x \in Players \ {p} : g[x] = agreed[x]
    BY <1>2, <2>9
  <2>11. SameOutside({p, q}, inv, at, dead, trade, agreed, inv, at, dead, u, g)
    BY <2>8, <2>10 DEF SameOutside
  <2>12. Sound(inv, at, dead, u, g, p)
    <3>1. Bond(at, dead, u, p)
      BY <1>1, <1>3, <2>1, <2>3, <2>5, <2>8 DEF Bond, Fitting
    <3>2. [y \in {p, u[p].partner} |-> u[y].offer] = Offers(p, q)
      <4>1. u[p].partner = q /\ u[p].offer = trade[p].offer /\ u[q].offer = trade[q].offer
        BY <1>1, <1>3, <2>3, <2>5, <2>8
      <4> QED
        BY <4>1 DEF Offers
    <3>3. Terms(inv, u, g, p)
      BY <1>3, <2>1, <2>3, <2>5, <2>8, <2>10, <3>2 DEF Terms
    <3> QED
      BY <3>1, <3>3 DEF Sound
  <2>13. Sound(inv, at, dead, u, g, q)
    <3>1. Bond(at, dead, u, q)
      BY <1>1, <1>3, <2>1, <2>3, <2>5, <2>8 DEF Bond, Fitting
    <3>2. Terms(inv, u, g, q)
      BY <1>3, <1>6, <2>1, <2>8 DEF Terms
    <3> QED
      BY <3>1, <3>2 DEF Sound
  <2>14. AllSound(inv, at, dead, u, g)
    BY <1>2, <1>3, <2>1, <2>11, <2>12, <2>13, ChangeWithin
  <2> QED
    BY <1>2, <1>3, <1>6, <2>7, <2>8, <2>9, <2>10, <2>14, TradeOnly DEF TypeOK
<1> QED
  BY <1>1, <1>4, <1>5, <1>6, AcceptCases

-----------------------------------------------------------------------------
(* The item handlers.                                                       *)

LEMMA LostIs ==
  ASSUME gone \in [Kinds -> Nat], NEW d \in Drops, Lost(d)
  PROVE  gone' \in [Kinds -> Nat] /\ \A k \in Kinds : gone'[k] = gone[k] + OfKind(d, k)
<1>1. d.kind \in Kinds /\ d.quantity \in Nat
  BY DropFacts
<1>2. gone' = [gone EXCEPT ![d.kind] = gone[d.kind] + d.quantity]
  BY DEF Lost
<1> QED
  BY <1>1, <1>2 DEF OfKind

(* A step of a player who does not trade.                                  *)
LEMMA ItemStep ==
  ASSUME IInv, NEW p \in Players, ~ IsTrading(p), UNCHANGED <<at, dead, trade, agreed>>,
         NEW w \in Inhabited, inv' = [inv EXCEPT ![p] = w],
         ground' \in Grounds, gone' \in [Kinds -> Nat],
         \A k \in Kinds : Amount(w, k) + Lain(ground', k) + gone'[k]
                            = Amount(inv[p], k) + Lain(ground, k) + gone[k]
  PROVE  IInv'
<1>1. TypeOK /\ AllSound(inv, at, dead, trade, agreed) /\ ItemsConserved
      /\ agreed = [x \in Players |-> agreed[x]]
  BY DEF IInv
<1>2. /\ inv \in Holdings /\ ground \in Grounds /\ gone \in [Kinds -> Nat]
      /\ \A x \in Players : inv[x] \in Inventories /\ inv[x] \in Inhabited
  BY <1>1, TypeFacts
<1>3. PICK v : v = [inv EXCEPT ![p] = w]
  OBVIOUS
<1>4. /\ v \in Holdings /\ v[p] = w /\ \A x \in Players \ {p} : v[x] = inv[x]
      /\ \A x \in Players : v[x] \in Inhabited
  BY <1>2, <1>3 DEF Holdings, Inhabited
<1>5. TypeOK'
  BY <1>1, <1>3, <1>4 DEF TypeOK, Holdings, Inventories, Inhabited, Grounds, Drops
<1>6. AllSound(v, at, dead, trade, agreed)
  <2>1. trade[p].state = "NONE" /\ Terms(inv, trade, agreed, p)
    BY <1>1 DEF IsTrading, AllSound, Sound
  <2>2. Idle(trade[p])
    BY <2>1 DEF Terms, Idle
  <2>3. Closed(trade, {p})
    BY <2>1 DEF Closed
  <2>4. SameOutside({p}, inv, at, dead, trade, agreed, v, at, dead, trade, agreed)
    BY <1>4 DEF SameOutside
  <2>5. \A z \in {p} : Sound(v, at, dead, trade, agreed, z)
    BY <2>2, IdleIsSound
  <2> QED
    BY <1>1, <2>3, <2>4, <2>5, ChangeWithin
<1>7. AllSound(inv, at, dead, trade, agreed)'
  <2>1. inv' = v /\ at' = at /\ dead' = dead /\ trade' = trade /\ agreed' = agreed
    BY <1>3
  <2>2. AllSound(inv', at', dead', trade', agreed')
    BY <1>6, <2>1
  <2> QED
    BY <2>2 DEF AllSound, Sound, Terms, Bond
<1>8. ASSUME NEW k \in Kinds
      PROVE  Total(inv', ground', k) + gone'[k] = Total(inv, ground, k) + gone[k]
  <2>1. PICK g2, l2 : g2 = ground' /\ l2 = gone'
    OBVIOUS
  <2>2. Held(v, k) = Held(inv, k) - Amount(inv[p], k) + Amount(w, k)
    BY <1>2, <1>4, OneHoldingChanges
  <2>3. Amount(inv[p], k) \in Nat /\ Amount(w, k) \in Nat
    BY <1>2, AmountIsSum DEF Inhabited
  <2>4. Total(v, g2, k) = Held(v, k) + Lain(g2, k) /\ Lain(g2, k) \in Nat
    BY <1>4, <2>1, TotalIsSum
  <2>5. Total(inv, ground, k) = Held(inv, k) + Lain(ground, k) /\ Held(inv, k) \in Nat /\ Lain(ground, k) \in Nat
    BY <1>2, TotalIsSum
  <2>6. gone[k] \in Nat /\ l2[k] \in Nat
    BY <1>2, <2>1
  <2>7. Amount(w, k) + Lain(g2, k) + l2[k] = Amount(inv[p], k) + Lain(ground, k) + gone[k]
    BY <2>1
  <2>8. Total(v, g2, k) + l2[k] = Total(inv, ground, k) + gone[k]
    <3>1. PICK hv, hi, ai, aw, lg, li, l0, l1 :
            /\ hv = Held(v, k) /\ hi = Held(inv, k) /\ ai = Amount(inv[p], k) /\ aw = Amount(w, k)
            /\ lg = Lain(g2, k) /\ li = Lain(ground, k) /\ l0 = gone[k] /\ l1 = l2[k]
      OBVIOUS
    <3>2. hi \in Nat /\ ai \in Nat /\ aw \in Nat /\ lg \in Nat /\ li \in Nat /\ l0 \in Nat /\ l1 \in Nat
      BY <2>3, <2>4, <2>5, <2>6, <3>1
    <3>3. hv = hi - ai + aw /\ aw + lg + l1 = ai + li + l0
      BY <2>2, <2>7, <3>1
    <3>4. hv + lg + l1 = hi + li + l0
      BY <3>2, <3>3
    <3> QED
      BY <2>4, <2>5, <3>1, <3>4
  <2> QED
    BY <1>3, <2>1, <2>8
<1>9. ItemsConserved'
  BY <1>1, <1>8 DEF ItemsConserved
<1> QED
  BY <1>1, <1>5, <1>7, <1>9 DEF IInv

(* The drops of one map change.                                            *)
LEMMA GroundStep ==
  ASSUME ground \in Grounds, NEW m \in Maps, NEW h \in Seq(Drops), ground' = [ground EXCEPT ![m] = h]
  PROVE  /\ ground' \in Grounds
         /\ \A k : /\ Lain(ground', k) = Lain(ground, k) - OnGround(ground[m], k) + OnGround(h, k)
                   /\ Lain(ground, k) \in Nat /\ OnGround(ground[m], k) \in Nat /\ OnGround(h, k) \in Nat
<1>1. PICK g : g = [ground EXCEPT ![m] = h]
  OBVIOUS
<1>2. g \in Grounds /\ g[m] = h /\ \A x \in Maps \ {m} : g[x] = ground[x]
  BY <1>1 DEF Grounds
<1>3. ASSUME NEW k
      PROVE  /\ Lain(g, k) = Lain(ground, k) - OnGround(ground[m], k) + OnGround(h, k)
             /\ Lain(ground, k) \in Nat /\ OnGround(ground[m], k) \in Nat /\ OnGround(h, k) \in Nat
  <2>1. Lain(g, k) = Lain(ground, k) - OnGround(ground[m], k) + OnGround(h, k)
    BY <1>2, OneGroundChanges
  <2>2. ground[m] \in Seq(Drops)
    BY DEF Grounds
  <2>3. OnGround(ground[m], k) \in Nat /\ OnGround(h, k) \in Nat
    BY <2>2, OnGroundIsSum
  <2>4. Lain(ground, k) \in Nat
    <3>1. StartInv \in Holdings
      BY TradeAssumption DEF Holdings, Inventories
    <3> QED
      BY <3>1, TotalIsSum
  <2> QED
    BY <2>1, <2>3, <2>4
<1> QED
  BY <1>1, <1>2, <1>3

LEMMA RearrangeKeeps ==
  ASSUME IInv, NEW p \in Players, Rearrange(p)
  PROVE  IInv'
<1>1. ~ IsTrading(p) /\ UNCHANGED <<at, dead, trade, ground, agreed, gone>>
  BY DEF Rearrange, MayUseItems
<1>2. inv[p] \in Inhabited /\ Valid(inv[p]) /\ ground \in Grounds /\ gone \in [Kinds -> Nat]
  BY TypeFacts DEF IInv
<1>3. PICK w : inv' = [inv EXCEPT ![p] = w] /\ Valid(w) /\ \A k \in Kinds : Amount(w, k) = Amount(inv[p], k)
  <2>1. CASE \E s, t \in Bag : CanMove(inv[p], s, t) /\ inv' = [inv EXCEPT ![p] = Move(inv[p], s, t)]
    <3>1. PICK s, t \in Bag : CanMove(inv[p], s, t) /\ inv' = [inv EXCEPT ![p] = Move(inv[p], s, t)]
      BY <2>1
    <3>2. Valid(Move(inv[p], s, t)) /\ \A k \in Kinds : Amount(Move(inv[p], s, t), k) = Amount(inv[p], k)
      BY <1>2, <3>1, MoveRearranges
    <3> QED
      BY <3>1, <3>2
  <2>2. CASE \E s \in Bag : CanEquip(inv[p], s) /\ inv' = [inv EXCEPT ![p] = Equip(inv[p], s)]
    BY <1>2, <2>2, EquipRearranges
  <2>3. CASE \E e \in {Weapon, Armor} : CanUnequip(inv[p], e) /\ inv' = [inv EXCEPT ![p] = Unequip(inv[p], e)]
    BY <1>2, <2>3, UnequipRearranges
  <2> QED
    BY <2>1, <2>2, <2>3 DEF Rearrange
<1>4. w \in Inhabited
  BY <1>3, InhabitedIsValid
<1> QED
  BY <1>1, <1>2, <1>3, <1>4, ItemStep

LEMMA PickupKeeps ==
  ASSUME IInv, NEW p \in Players, NEW i \in 1 .. GroundCap, Pickup(p, i)
  PROVE  IInv'
<1>1. ~ IsTrading(p) /\ UNCHANGED <<at, dead, trade, agreed, gone>>
  BY DEF Pickup, MayUseItems
<1>2. inv[p] \in Inventories /\ Valid(inv[p]) /\ ground \in Grounds /\ gone \in [Kinds -> Nat]
  BY TypeFacts DEF IInv
<1>3. PICK m \in Maps : m = at[p]
  BY DEF Pickup, MayUseItems, MayAct, Here, IInv, TypeOK
<1>4. PICK g \in Seq(Drops) : g = ground[m]
  BY <1>2 DEF Grounds
<1>5. i \in 1 .. Len(g)
  BY <1>3, <1>4 DEF Pickup
<1>6. PICK d : d = g[i]
  OBVIOUS
<1>7. PICK h : h = SubSeq(g, 1, i - 1) \o SubSeq(g, i + 1, Len(g))
  OBVIOUS
<1>8. /\ CanAdd(inv[p], d.kind, d.quantity)
      /\ inv' = [inv EXCEPT ![p] = Add(inv[p], d.kind, d.quantity)]
      /\ ground' = [ground EXCEPT ![m] = h]
  BY <1>3, <1>4, <1>6, <1>7 DEF Pickup
<1>9. d \in Drops /\ h \in Seq(Drops) /\ \A k : OnGround(h, k) = OnGround(g, k) - OfKind(d, k)
  BY <1>5, <1>6, <1>7, OneLeaves
<1>10. d.kind \in Kinds /\ d.quantity \in Nat
  BY <1>9, DropFacts
<1>11. PICK w : w = Add(inv[p], d.kind, d.quantity)
  OBVIOUS
<1>12. w \in Inhabited
  BY <1>2, <1>8, <1>10, <1>11, AddValid, InhabitedIsValid
<1>13. ground' \in Grounds
       /\ \A k : /\ Lain(ground', k) = Lain(ground, k) - OnGround(g, k) + OnGround(h, k)
                 /\ Lain(ground, k) \in Nat /\ OnGround(g, k) \in Nat /\ OnGround(h, k) \in Nat
  BY <1>2, <1>4, <1>8, <1>9, GroundStep
<1>14. ASSUME NEW k \in Kinds
       PROVE  Amount(w, k) + Lain(ground', k) + gone'[k] = Amount(inv[p], k) + Lain(ground, k) + gone[k]
  <2>1. Amount(w, k) = Amount(inv[p], k) + OfKind(d, k)
    BY <1>2, <1>8, <1>10, <1>11, AddAmount DEF OfKind
  <2>2. Amount(inv[p], k) \in Nat /\ OfKind(d, k) \in Nat /\ gone[k] \in Nat
    BY <1>2, <1>9, AmountIsSum, DropFacts, OfKindType
  <2>3. gone'[k] = gone[k]
    BY <1>1
  <2>4. Lain(ground', k) = Lain(ground, k) - OfKind(d, k) /\ Lain(ground, k) \in Nat
    BY <1>9, <1>13, <2>2
  <2> QED
    BY <2>1, <2>2, <2>3, <2>4
<1> QED
  BY <1>1, <1>2, <1>8, <1>11, <1>12, <1>13, <1>14, ItemStep

LEMMA UseKeeps ==
  ASSUME IInv, NEW p \in Players, NEW s \in Bag, Use(p, s)
  PROVE  IInv'
<1>1. ~ IsTrading(p) /\ UNCHANGED <<at, dead, trade, ground, agreed>>
  BY DEF Use, MayUseItems
<1>2. inv[p] \in Inventories /\ Valid(inv[p]) /\ ground \in Grounds /\ gone \in [Kinds -> Nat]
  BY TypeFacts DEF IInv
<1>3. s \in Slots /\ inv[p][s] \in Item
  BY <1>2, SlotFacts DEF Inventories
<1>4. inv[p][s].kind \in Kinds
  BY InventoryAssumption DEF Use
<1>5. inv[p][s].quantity \in Nat /\ inv[p][s].quantity # 0
  BY <1>3, <1>4, ItemFacts, NoItemFacts
<1>6. CanRemove(inv[p], s, 1)
  BY <1>3, <1>5 DEF CanRemove
<1>7. PICK w : w = Remove(inv[p], s, 1)
  OBVIOUS
<1>8. inv' = [inv EXCEPT ![p] = w]
  BY <1>7 DEF Use
<1>9. Valid(w) /\ \A k \in Kinds : Amount(w, k) = Amount(inv[p], k) - (IF inv[p][s].kind = k THEN 1 ELSE 0)
  BY <1>2, <1>3, <1>6, <1>7, RemoveTakes
<1>10. PICK d : d = [kind |-> inv[p][s].kind, quantity |-> 1]
  OBVIOUS
<1>11. d \in Drops /\ d.kind = inv[p][s].kind /\ d.quantity = 1
  BY <1>4, <1>10, MadeItem, NoItemFacts DEF Drops
<1>12. gone' \in [Kinds -> Nat] /\ \A k \in Kinds : gone'[k] = gone[k] + OfKind(d, k)
  BY <1>2, <1>10, <1>11, LostIs DEF Use
<1>13. ASSUME NEW k \in Kinds
       PROVE  Amount(w, k) + Lain(ground', k) + gone'[k] = Amount(inv[p], k) + Lain(ground, k) + gone[k]
  <2>1. Amount(w, k) = Amount(inv[p], k) - OfKind(d, k)
    BY <1>9, <1>11 DEF OfKind
  <2>2. Amount(inv[p], k) \in Nat /\ OfKind(d, k) \in Nat /\ gone[k] \in Nat
    BY <1>2, <1>11, AmountIsSum, DropFacts, OfKindType
  <2>3. Lain(ground', k) = Lain(ground, k)
    BY <1>1
  <2>4. Lain(ground, k) \in Nat
    <3>1. StartInv \in Holdings
      BY TradeAssumption DEF Holdings, Inventories
    <3> QED
      BY <1>2, <3>1, TotalIsSum
  <2> QED
    BY <1>12, <2>1, <2>2, <2>3, <2>4
<1>14. w \in Inhabited
  BY <1>9, InhabitedIsValid
<1> QED
  BY <1>1, <1>2, <1>8, <1>12, <1>13, <1>14, ItemStep

LEMMA DiscardKeeps ==
  ASSUME IInv, NEW p \in Players, NEW s \in Bag, NEW n \in 1 .. MaxOffer, Discard(p, s, n)
  PROVE  IInv'
<1>1. ~ IsTrading(p) /\ UNCHANGED <<at, dead, trade, agreed>> /\ CanRemove(inv[p], s, n)
  BY DEF Discard, MayUseItems
<1>2. inv[p] \in Inventories /\ Valid(inv[p]) /\ ground \in Grounds /\ gone \in [Kinds -> Nat]
  BY TypeFacts DEF IInv
<1>3. s \in Slots /\ inv[p][s] \in Item /\ n \in Nat \ {0}
  BY <1>2, SlotFacts, TradeConstants DEF Inventories
<1>4. inv[p][s].kind \in Kinds
  BY <1>1, <1>3, ItemFacts DEF CanRemove
<1>5. PICK m \in Maps : m = at[p]
  BY DEF Discard, MayUseItems, MayAct, Here, IInv, TypeOK
<1>6. PICK g \in Seq(Drops) : g = ground[m]
  BY <1>2 DEF Grounds
<1>7. PICK w : w = Remove(inv[p], s, n)
  OBVIOUS
<1>8. inv' = [inv EXCEPT ![p] = w]
  BY <1>7 DEF Discard
<1>9. Valid(w) /\ \A k \in Kinds : Amount(w, k) = Amount(inv[p], k) - (IF inv[p][s].kind = k THEN n ELSE 0)
  BY <1>1, <1>2, <1>3, <1>7, RemoveTakes
<1>10. PICK d : d = [kind |-> inv[p][s].kind, quantity |-> n]
  OBVIOUS
<1>11. d \in Drops /\ d.kind = inv[p][s].kind /\ d.quantity = n
  BY <1>3, <1>4, <1>10, MadeItem, NoItemFacts DEF Drops
<1>12. \A k \in Kinds : /\ Amount(w, k) = Amount(inv[p], k) - OfKind(d, k)
                        /\ Amount(inv[p], k) \in Nat /\ OfKind(d, k) \in Nat /\ gone[k] \in Nat
  BY <1>2, <1>9, <1>11, AmountIsSum, DropFacts, OfKindType DEF OfKind
<1>13. w \in Inhabited
  BY <1>9, InhabitedIsValid
<1>14. CASE Len(g) >= GroundCap
  <2>1. PICK h, o : h = Append(Tail(g), d) /\ o = Head(g)
    OBVIOUS
  <2>2. ground' = [ground EXCEPT ![m] = h] /\ Lost(o)
    BY <1>5, <1>6, <1>10, <1>14, <2>1 DEF Discard
  <2>3. g # <<>>
    BY <1>14, TradeConstants
  <2>4. o \in Drops /\ Tail(g) \in Seq(Drops) /\ \A k : OnGround(Tail(g), k) = OnGround(g, k) - OfKind(o, k)
    BY <2>1, <2>3, OldestLeaves
  <2>5. h \in Seq(Drops) /\ \A k : OnGround(h, k) = OnGround(Tail(g), k) + OfKind(d, k)
    BY ZenonT(60), <1>11, <2>1, <2>4, OneDropMore
  <2>6. gone' \in [Kinds -> Nat] /\ \A k \in Kinds : gone'[k] = gone[k] + OfKind(o, k)
    BY <1>2, <2>2, <2>4, LostIs
  <2>7. ground' \in Grounds
        /\ \A k : /\ Lain(ground', k) = Lain(ground, k) - OnGround(g, k) + OnGround(h, k)
                  /\ Lain(ground, k) \in Nat /\ OnGround(g, k) \in Nat /\ OnGround(h, k) \in Nat
    BY <1>2, <1>6, <2>2, <2>5, GroundStep
  <2>8. ASSUME NEW k \in Kinds
        PROVE  Amount(w, k) + Lain(ground', k) + gone'[k] = Amount(inv[p], k) + Lain(ground, k) + gone[k]
    <3>1. OfKind(o, k) \in Nat
      BY <2>4, DropFacts, OfKindType
    <3>2. OnGround(h, k) = OnGround(g, k) - OfKind(o, k) + OfKind(d, k)
      BY <2>4, <2>5
    <3>3. Lain(ground', k) = Lain(ground, k) - OfKind(o, k) + OfKind(d, k) /\ Lain(ground, k) \in Nat
      BY <1>12, <2>7, <3>1, <3>2
    <3> QED
      BY SMTT(60), <1>12, <2>6, <3>1, <3>3
  <2> QED
    BY <1>1, <1>8, <1>13, <2>6, <2>7, <2>8, ItemStep
<1>15. CASE ~ (Len(g) >= GroundCap)
  <2>1. PICK h : h = Append(g, d)
    OBVIOUS
  <2>2. ground' = [ground EXCEPT ![m] = h] /\ gone' = gone
    BY <1>5, <1>6, <1>10, <1>15, <2>1 DEF Discard
  <2>3. h \in Seq(Drops) /\ \A k : OnGround(h, k) = OnGround(g, k) + OfKind(d, k)
    BY <1>11, <2>1, OneDropMore
  <2>4. ground' \in Grounds
        /\ \A k : /\ Lain(ground', k) = Lain(ground, k) - OnGround(g, k) + OnGround(h, k)
                  /\ Lain(ground, k) \in Nat /\ OnGround(g, k) \in Nat /\ OnGround(h, k) \in Nat
    BY <1>2, <1>6, <2>2, <2>3, GroundStep
  <2>5. ASSUME NEW k \in Kinds
        PROVE  Amount(w, k) + Lain(ground', k) + gone'[k] = Amount(inv[p], k) + Lain(ground, k) + gone[k]
    <3>1. Lain(ground', k) = Lain(ground, k) + OfKind(d, k) /\ Lain(ground, k) \in Nat
      BY <1>12, <2>3, <2>4
    <3> QED
      BY <1>12, <2>2, <3>1
  <2>6. gone' \in [Kinds -> Nat]
    BY <1>2, <2>2
  <2> QED
    BY <1>1, <1>8, <1>13, <2>4, <2>5, <2>6, ItemStep
<1> QED
  BY <1>14, <1>15

LEMMA ExpireKeeps ==
  ASSUME IInv, NEW m \in Maps, Expire(m)
  PROVE  IInv'
<1>1. UNCHANGED <<inv, at, dead, trade, agreed>>
  BY DEF Expire
<1>2. TypeOK /\ AllSound(inv, at, dead, trade, agreed) /\ ItemsConserved
      /\ agreed = [x \in Players |-> agreed[x]]
  BY DEF IInv
<1>3. inv \in Holdings /\ ground \in Grounds /\ gone \in [Kinds -> Nat]
  BY <1>2, TypeFacts
<1>4. PICK g \in Seq(Drops) : g = ground[m]
  BY <1>3 DEF Grounds
<1>5. PICK h, o : h = Tail(g) /\ o = Head(g)
  OBVIOUS
<1>6. g # <<>> /\ ground' = [ground EXCEPT ![m] = h] /\ Lost(o)
  BY <1>4, <1>5 DEF Expire
<1>7. o \in Drops /\ h \in Seq(Drops) /\ \A k : OnGround(h, k) = OnGround(g, k) - OfKind(o, k)
  BY <1>5, <1>6, OldestLeaves
<1>8. gone' \in [Kinds -> Nat] /\ \A k \in Kinds : gone'[k] = gone[k] + OfKind(o, k)
  BY <1>3, <1>6, <1>7, LostIs
<1>9. ground' \in Grounds
      /\ \A k : /\ Lain(ground', k) = Lain(ground, k) - OnGround(g, k) + OnGround(h, k)
                /\ Lain(ground, k) \in Nat /\ OnGround(g, k) \in Nat /\ OnGround(h, k) \in Nat
  BY <1>3, <1>4, <1>6, <1>7, GroundStep
<1>10. TypeOK'
  BY <1>1, <1>2, <1>8, <1>9 DEF TypeOK, Grounds, Drops
<1>11. AllSound(inv, at, dead, trade, agreed)'
  <2>1. inv' = inv /\ at' = at /\ dead' = dead /\ trade' = trade /\ agreed' = agreed
    BY <1>1
  <2>2. AllSound(inv', at', dead', trade', agreed')
    BY <1>2, <2>1
  <2> QED
    BY <2>2 DEF AllSound, Sound, Terms, Bond
<1>12. ASSUME NEW k \in Kinds
       PROVE  Total(inv', ground', k) + gone'[k] = Total(inv, ground, k) + gone[k]
  <2>1. OfKind(o, k) \in Nat /\ gone[k] \in Nat
    BY <1>3, <1>7, DropFacts, OfKindType
  <2>2. Lain(ground', k) = Lain(ground, k) - OfKind(o, k) /\ Lain(ground, k) \in Nat
    BY <1>7, <1>9, <2>1
  <2>3. PICK g2 : g2 = ground'
    OBVIOUS
  <2>4. Total(inv, g2, k) = Held(inv, k) + Lain(g2, k)
    BY <1>3, <1>9, <2>3, TotalIsSum
  <2>5. Total(inv, ground, k) = Held(inv, k) + Lain(ground, k) /\ Held(inv, k) \in Nat
    BY <1>3, TotalIsSum
  <2>6. Total(inv, g2, k) + gone'[k] = Total(inv, ground, k) + gone[k]
    BY <1>8, <2>1, <2>2, <2>3, <2>4, <2>5
  <2> QED
    BY <1>1, <2>3, <2>6
<1>13. ItemsConserved'
  BY <1>2, <1>12 DEF ItemsConserved
<1> QED
  BY <1>1, <1>2, <1>10, <1>11, <1>13 DEF IInv

-----------------------------------------------------------------------------
(* Coming, going, dying.                                                    *)

LEMMA OutsideKeeps ==
  ASSUME IInv, NEW p \in Players, NEW m,
         \/ Cancel(p) \/ Leave(p) \/ Die(p) \/ Respawn(p)
         \/ m \in Maps /\ (Portal(p, m) \/ Arrive(p, m))
  PROVE  IInv'
<1>1. at \in [Players -> Maps \cup {Nowhere}] /\ dead \in [Players -> BOOLEAN]
  BY DEF IInv, TypeOK
<1>2. Bond(at, dead, trade, p)
  BY DEF IInv, AllSound, Sound
<1>3. CASE Cancel(p)
  BY <1>1, <1>3, EndKeeps DEF Cancel, EndTrade
<1>4. CASE m \in Maps /\ Portal(p, m)
  BY <1>1, <1>4, EndKeeps DEF Portal, EndTrade
<1>5. CASE Leave(p)
  BY <1>1, <1>5, EndKeeps DEF Leave, EndTrade
<1>6. CASE Die(p)
  BY <1>1, <1>6, EndKeeps DEF Die, EndTrade
<1>7. CASE m \in Maps /\ Arrive(p, m)
  <2>1. Cancelled(p) = trade
    BY <1>2, <1>7 DEF Arrive, Here, Bond, Cancelled, IsTrading
  <2> QED
    BY <1>1, <1>7, <2>1, EndKeeps DEF Arrive
<1>8. CASE Respawn(p)
  <2>1. Cancelled(p) = trade
    BY <1>2, <1>8 DEF Respawn, Bond, Cancelled, IsTrading
  <2> QED
    BY <1>1, <1>8, <2>1, EndKeeps DEF Respawn
<1> QED
  BY <1>3, <1>4, <1>5, <1>6, <1>7, <1>8

-----------------------------------------------------------------------------
LEMMA Start == Init => IInv
<1> SUFFICES ASSUME Init PROVE IInv
  OBVIOUS
<1>1. /\ inv = StartInv /\ at \in [Players -> Maps] /\ dead = [p \in Players |-> FALSE]
      /\ trade = [p \in Players |-> NoTrade] /\ ground = StartGround
      /\ agreed = [p \in Players |-> NoDeal] /\ gone = [k \in Kinds |-> 0]
  BY DEF Init
<1>2. TypeOK
  BY <1>1, TradeAssumption, NoTradeFacts DEF TypeOK
<1>3. agreed = [x \in Players |-> agreed[x]]
  BY <1>1
<1>4. AllSound(inv, at, dead, trade, agreed)
  <2>1. \A x \in Players : Idle(trade[x])
    BY <1>1, NoTradeFacts
  <2> QED
    BY <2>1, IdleIsSound DEF AllSound
<1>5. ItemsConserved
  <2> SUFFICES ASSUME NEW k \in Kinds
               PROVE  Total(inv, ground, k) + gone[k] = Total(StartInv, StartGround, k)
    BY DEF ItemsConserved
  <2>1. inv \in Holdings /\ ground \in Grounds
    BY <1>2, TypeFacts
  <2>2. Total(inv, ground, k) \in Nat
    BY <2>1, TotalIsSum
  <2>3. gone[k] = 0
    BY <1>1
  <2> QED
    BY <1>1, <2>2, <2>3
<1> QED
  BY <1>2, <1>3, <1>4, <1>5 DEF IInv

LEMMA Step == IInv /\ [Next]_vars => IInv'
<1> SUFFICES ASSUME IInv, [Next]_vars PROVE IInv'
  OBVIOUS
<1>1. CASE UNCHANGED vars
  <2>1. /\ inv' = inv /\ at' = at /\ dead' = dead /\ trade' = trade
        /\ ground' = ground /\ agreed' = agreed /\ gone' = gone
    BY <1>1 DEF vars
  <2>2. TypeOK' /\ ItemsConserved'
    BY <2>1 DEF IInv, TypeOK, ItemsConserved
  <2>3. AllSound(inv', at', dead', trade', agreed')
    BY <2>1 DEF IInv
  <2>4. AllSound(inv, at, dead, trade, agreed)'
    BY <2>3 DEF AllSound, Sound, Terms, Bond
  <2> QED
    BY <2>1, <2>2, <2>4 DEF IInv
<1>2. ASSUME NEW p \in Players, NEW q \in Players, Request(p, q) PROVE IInv'
  BY <1>2, RequestKeeps
<1>3. ASSUME NEW p \in Players, NEW accept \in BOOLEAN, Respond(p, accept) PROVE IInv'
  BY <1>3, RespondKeeps
<1>4. ASSUME NEW p \in Players, NEW i \in TradeSlots, NEW s \in Bag, NEW n \in 1 .. MaxOffer,
             AddItem(p, i, s, n)
      PROVE  IInv'
  BY <1>4, AddItemKeeps
<1>5. ASSUME NEW p \in Players, NEW i \in TradeSlots, RemoveItem(p, i) PROVE IInv'
  BY <1>5, RemoveItemKeeps
<1>6. ASSUME NEW p \in Players, Accept(p) PROVE IInv'
  BY <1>6, AcceptKeeps
<1>7. ASSUME NEW p \in Players, NEW i \in 1 .. GroundCap, Pickup(p, i) PROVE IInv'
  BY <1>7, PickupKeeps
<1>8. ASSUME NEW p \in Players, Rearrange(p) PROVE IInv'
  BY <1>8, RearrangeKeeps
<1>9. ASSUME NEW p \in Players, NEW s \in Bag, Use(p, s) PROVE IInv'
  BY <1>9, UseKeeps
<1>10. ASSUME NEW p \in Players, NEW s \in Bag, NEW n \in 1 .. MaxOffer, Discard(p, s, n) PROVE IInv'
  BY <1>10, DiscardKeeps
<1>11. ASSUME NEW p \in Players, Cancel(p) \/ Leave(p) \/ Die(p) \/ Respawn(p) PROVE IInv'
  BY <1>11, OutsideKeeps
<1>12. ASSUME NEW p \in Players, NEW m \in Maps, Portal(p, m) \/ Arrive(p, m) PROVE IInv'
  BY <1>12, OutsideKeeps
<1>13. ASSUME NEW m \in Maps, Expire(m) PROVE IInv'
  BY <1>13, ExpireKeeps
<1> QED
  BY <1>1, <1>2, <1>3, <1>4, <1>5, <1>6, <1>7, <1>8, <1>9, <1>10, <1>11, <1>12, <1>13 DEF Next

LEMMA Invariance == Spec => []IInv
  BY Start, Step, PTL DEF Spec

LEMMA PairedFollows == IInv => Paired
<1> SUFFICES ASSUME IInv, NEW p \in Players, IsTrading(p), NEW q, q = trade[p].partner
             PROVE  HasPartner(p) /\ <<trade[p].state, trade[q].state>> \in Fitting
  BY DEF Paired, Fitting
<1> QED
  BY PartnerFacts DEF IInv

\* Every variable keeps its type, and no slot holds more than its kind allows.
THEOREM TradeTypeCorrect == Spec => []TypeOK
<1>1. IInv => TypeOK
  BY DEF IInv
<1> QED
  BY <1>1, Invariance, PTL

\* A trade is held by two living players of one map who name each other, whatever
\* portal, departure or death comes between: no handler leaves a ghost of a trade.
THEOREM TradesStayPaired == Spec => []Paired
  BY Invariance, PairedFollows, PTL

\* What an open window offers lies in the slots it names until the trade ends.
THEOREM OffersStayCovered == Spec => []OffersCovered
<1>1. IInv => OffersCovered
  BY DEF IInv, AllSound, Sound, Terms, OffersCovered
<1> QED
  BY <1>1, Invariance, PTL

\* No item is duplicated or lost by any mixture of trades, pickups, drops and moves.
THEOREM NoItemIsLost == Spec => []ItemsConserved
<1>1. IInv => ItemsConserved
  BY DEF IInv
<1> QED
  BY <1>1, Invariance, PTL

-----------------------------------------------------------------------------
\* At most one inventory changes.
OneChanges == \E a : \A x \in Players \ {a} : inv'[x] = inv[x]

LEMMA OnlyExchangesChangeTwo ==
  ASSUME IInv, Next
  PROVE  \/ OneChanges
         \/ \E a \in Players : Accept(a) /\ Done(a, trade[a].partner)
<1> DEFINE Goal == OneChanges \/ \E a \in Players : Accept(a) /\ Done(a, trade[a].partner)
<1>1. inv \in Holdings
  BY TypeFacts DEF IInv
<1>2. ASSUME inv' = inv PROVE Goal
  BY <1>2 DEF OneChanges
<1>3. ASSUME NEW a, NEW w, inv' = [inv EXCEPT ![a] = w] PROVE Goal
  BY <1>1, <1>3 DEF OneChanges, Holdings
<1>4. ASSUME NEW p \in Players, Accept(p) PROVE Goal
  <2>1. PICK q : q = trade[p].partner
    OBVIOUS
  <2>2. Done(p, q) \/ inv' = inv
    BY <1>4, <2>1, AcceptCases
  <2> QED
    BY <1>2, <1>4, <2>1, <2>2
<1>5. ASSUME NEW p \in Players, Rearrange(p) PROVE Goal
  <2>1. \E w : inv' = [inv EXCEPT ![p] = w]
    BY <1>5 DEF Rearrange
  <2> QED
    BY <1>3, <2>1
<1>6. ASSUME NEW p \in Players, NEW i \in 1 .. GroundCap, Pickup(p, i) PROVE Goal
  <2>1. \E w : inv' = [inv EXCEPT ![p] = w]
    BY <1>6 DEF Pickup
  <2> QED
    BY <1>3, <2>1
<1>7. ASSUME NEW p \in Players, NEW s \in Bag, Use(p, s) PROVE Goal
  BY <1>3, <1>7 DEF Use
<1>8. ASSUME NEW p \in Players, NEW s \in Bag, NEW n \in 1 .. MaxOffer, Discard(p, s, n) PROVE Goal
  <2>1. \E w : inv' = [inv EXCEPT ![p] = w]
    BY <1>8 DEF Discard
  <2> QED
    BY <1>3, <2>1
<1>9. ASSUME NEW p \in Players,
             \/ \E q \in Players : Request(p, q)
             \/ \E accept \in BOOLEAN : Respond(p, accept)
             \/ \E i \in TradeSlots, s \in Bag, n \in 1 .. MaxOffer : AddItem(p, i, s, n)
             \/ \E i \in TradeSlots : RemoveItem(p, i)
      PROVE  Goal
  <2>1. inv' = inv
    BY <1>9 DEF Request, Respond, AddItem, RemoveItem
  <2> QED
    BY <1>2, <2>1
<1>10. ASSUME NEW p \in Players,
              \/ Cancel(p) \/ Leave(p) \/ Die(p) \/ Respawn(p)
              \/ \E m \in Maps : Portal(p, m) \/ Arrive(p, m)
       PROVE  Goal
  <2>1. inv' = inv
    BY <1>10 DEF Cancel, Leave, Die, Respawn, Portal, Arrive
  <2> QED
    BY <1>2, <2>1
<1>11. ASSUME NEW m \in Maps, Expire(m) PROVE Goal
  <2>1. inv' = inv
    BY <1>11 DEF Expire
  <2> QED
    BY <1>2, <2>1
<1> HIDE DEF Goal
<1>12. Goal
  BY <1>4, <1>5, <1>6, <1>7, <1>8, <1>9, <1>10, <1>11 DEF Next
<1> QED
  BY <1>12 DEF Goal

\* When two inventories change at once, one side had accepted exactly these two offers,
\* and each side ends with what it had, less its own offer, plus the other's.
Agreed(p, q) ==
  /\ Offers(p, q) \in {agreed[p], agreed[q]}
  /\ \A k \in Kinds :
       Amount(inv'[p], k) = Amount(inv[p], k) - OfferedKind(trade[p].offer, k)
                                              + OfferedKind(trade[q].offer, k)

LEMMA ExchangesAreAgreed ==
  ASSUME IInv, Next, NEW p \in Players, NEW q \in Players, p # q,
         inv'[p] # inv[p], inv'[q] # inv[q]
  PROVE  Agreed(p, q)
<1>1. ~ OneChanges
  BY DEF OneChanges
<1>2. PICK a \in Players : Accept(a) /\ Done(a, trade[a].partner)
  BY <1>1, OnlyExchangesChangeTwo
<1>3. PICK b : b = trade[a].partner
  OBVIOUS
<1>4. TypeOK /\ AllSound(inv, at, dead, trade, agreed) /\ inv \in Holdings
  BY TypeFacts DEF IInv
<1>5. b \in Players /\ b # a /\ trade[a].state = "OPEN" /\ UNCHANGED <<at, dead, ground, gone>>
  BY <1>2, <1>3, AcceptCases
<1>6. inv' = [inv EXCEPT ![a] = Exchanged(a, b), ![b] = Exchanged(b, a)]
  BY <1>2, <1>3 DEF Done
<1>7. {p, q} = {a, b}
  <2>1. \A x \in Players \ {a, b} : inv'[x] = inv[x]
    BY <1>4, <1>5, <1>6 DEF Holdings
  <2>2. p \in {a, b} /\ q \in {a, b}
    BY <2>1
  <2> QED
    BY <2>2
<1>8. trade[b].partner = a /\ Terms(inv, trade, agreed, b)
  <2>1. IsTrading(a)
    BY <1>5 DEF IsTrading
  <2> QED
    BY <1>3, <1>4, <2>1, PartnerFacts
<1>9. trade[b].accepted /\ agreed' = Deals(trade')
  <2>1. ~ (inv' = inv)
    OBVIOUS
  <2> QED
    BY <1>2, <1>3, <2>1, AcceptCases
<1>10. agreed[b] = Offers(b, a)
  BY <1>8, <1>9 DEF Terms, Offers
<1>11. Offers(b, a) = Offers(p, q)
  BY <1>7 DEF Offers
<1>12. Offers(p, q) \in {agreed[p], agreed[q]}
  BY <1>7, <1>10, <1>11
<1>13. \A x \in {a, b}, y \in {a, b} : x # y =>
         \A k \in Kinds : Amount(inv'[x], k)
           = Amount(inv[x], k) - OfferedKind(trade[x].offer, k) + OfferedKind(trade[y].offer, k)
  BY <1>2, <1>3, <1>5, <1>9, DoneKeeps
<1>14. p \in {a, b} /\ q \in {a, b}
  BY <1>7
<1> QED
  BY <1>12, <1>13, <1>14 DEF Agreed

\* An exchange is always the one that was agreed: when two inventories change in one step,
\* one side had accepted exactly the offers that are exchanged, and nothing else moves.
THEOREM ExchangesMatchTheDeal == Spec => ExchangeAsAgreed
<1>1. IInv /\ [Next]_vars =>
        [\A p, q \in Players : p # q /\ inv'[p] # inv[p] /\ inv'[q] # inv[q] =>
           /\ Offers(p, q) \in {agreed[p], agreed[q]}
           /\ \A k \in Kinds :
                Amount(inv'[p], k) = Amount(inv[p], k) - OfferedKind(trade[p].offer, k)
                                                       + OfferedKind(trade[q].offer, k)]_vars
  BY ExchangesAreAgreed DEF Agreed
<1> QED
  BY <1>1, Invariance, PTL DEF Spec, ExchangeAsAgreed
=============================================================================
