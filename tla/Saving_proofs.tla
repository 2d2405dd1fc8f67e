---------------------------- MODULE Saving_proofs ----------------------------
(***************************************************************************)
(* No change of an inventory is forgotten, no item is in two inventories,  *)
(* and whoever left finds what he had: for any characters, channels, items *)
(* and bounds.  The facts about queues and mailboxes come first; they talk *)
(* of sequences only.  The invariant follows, then one lemma per action.   *)
(***************************************************************************)
EXTENDS Saving, FiniteSetTheorems, SequenceTheorems, WellFoundedInduction, TLAPS

-----------------------------------------------------------------------------
(* Sequences.                                                                *)

LEMMA LeastExists ==
  ASSUME NEW S, S \subseteq Nat, S # {}
  PROVE  \E x \in S : \A y \in S : x =< y
<1> DEFINE R == {p \in Nat \X Nat : p[1] < p[2]}
<1>1. R = OpToRel(<, Nat)
  BY DEF OpToRel
<1>2. IsWellFoundedOn(R, Nat)
  BY <1>1, NatLessThanWellFounded
<1> HIDE DEF R
<1>3. PICK x \in S : \A y \in S : ~ (<<y, x>> \in R)
  BY <1>2, WFMin
<1>4. ASSUME NEW y \in S PROVE x =< y
  <2>1. x \in Nat /\ y \in Nat
    OBVIOUS
  <2>2. <<y, x>> \in R <=> y < x
    BY <2>1 DEF R
  <2> QED
    BY <1>3, <2>1, <2>2
<1> QED
  BY <1>4

LEMMA MaxIsMember ==
  ASSUME NEW S, NEW n \in Nat, S \subseteq 1 .. n, S # {}
  PROVE  Max(S) \in S /\ \A y \in S : y =< Max(S)
<1>1. PICK D : D = {n - x : x \in S}
  OBVIOUS
<1>2. D \subseteq Nat /\ D # {}
  <2>1. \A x \in S : n - x \in Nat
    OBVIOUS
  <2> QED
    BY <1>1, <2>1
<1>3. PICK d \in D : \A y \in D : d =< y
  BY <1>2, LeastExists
<1>4. PICK x \in S : d = n - x
  BY <1>1
<1>5. ASSUME NEW y \in S PROVE x >= y
  <2>1. n - y \in D
    BY <1>1
  <2>2. n - x =< n - y /\ x \in Nat /\ y \in Nat
    BY <2>1, <1>3, <1>4
  <2> QED
    BY <2>2
<1>6. Max(S) \in S /\ \A y \in S : Max(S) >= y
  BY <1>5 DEF Max
<1>7. PICK m \in S : m = Max(S)
  BY <1>6
<1>8. \A y \in S : y =< m
  BY <1>6, <1>7
<1> QED
  BY <1>7, <1>8

LEMMA OrderOf ==
  ASSUME NEW S, IsFiniteSet(S)
  PROVE  /\ SetToSeq(S) \in Seq(S)
         /\ Range(SetToSeq(S)) = S
<1>1. Cardinality(S) \in Nat /\ ExistsBijection(1 .. Cardinality(S), S)
  BY FS_CardinalityType
<1>2. PICK n \in Nat : n = Cardinality(S)
  BY <1>1
<1>3. \E f \in [1 .. n -> S] : IsInjective(f)
  BY <1>1, <1>2 DEF ExistsBijection, Bijection, Injection
<1>4. PICK f : f = SetToSeq(S)
  OBVIOUS
<1>5. f \in [1 .. n -> S] /\ IsInjective(f)
  BY <1>2, <1>3, <1>4 DEF SetToSeq
<1>6. f \in Injection(1 .. n, S)
  BY <1>5 DEF Injection
<1>7. IsFiniteSet(1 .. n) /\ Cardinality(1 .. n) = n
  BY FS_Interval
<1>8. f \in Surjection(1 .. n, S)
  BY <1>2, <1>6, <1>7, FS_Injection
<1>9. Range(f) = S
  BY <1>5, <1>8 DEF Surjection, Range
<1>10. f \in Seq(S)
  BY <1>5
<1> QED
  BY <1>4, <1>9, <1>10

\* What concatenation and Tail do, element by element.
LEMMA Concat ==
  ASSUME NEW T, NEW q \in Seq(T), NEW s \in Seq(T)
  PROVE  /\ q \o s \in Seq(T) /\ Len(q \o s) = Len(q) + Len(s)
         /\ Len(q) \in Nat /\ Len(s) \in Nat /\ DOMAIN q = 1 .. Len(q) /\ DOMAIN s = 1 .. Len(s)
         /\ DOMAIN (q \o s) = 1 .. Len(q) + Len(s)
         /\ \A k \in DOMAIN q : k \in DOMAIN (q \o s) /\ (q \o s)[k] = q[k]
         /\ \A j \in DOMAIN s : Len(q) + j \in DOMAIN (q \o s) /\ (q \o s)[Len(q) + j] = s[j]
         /\ \A k \in DOMAIN (q \o s) : k \in DOMAIN q \/ k - Len(q) \in DOMAIN s
         /\ Range(q \o s) = Range(q) \cup Range(s)
<1>1. /\ q \o s \in Seq(T) /\ Len(q \o s) = Len(q) + Len(s)
      /\ \A i \in 1 .. Len(q) + Len(s) : (q \o s)[i] = IF i =< Len(q) THEN q[i] ELSE s[i - Len(q)]
  BY ConcatProperties
<1>2. PICK a \in Nat, b \in Nat : a = Len(q) /\ b = Len(s)
  BY LenProperties
<1>3. DOMAIN q = 1 .. a /\ DOMAIN s = 1 .. b /\ DOMAIN (q \o s) = 1 .. a + b
  BY <1>1, <1>2, LenProperties
<1>4. \A k \in 1 .. a : k \in 1 .. a + b /\ (q \o s)[k] = q[k]
  BY <1>1, <1>2
<1>5. ASSUME NEW j \in 1 .. b PROVE a + j \in 1 .. a + b /\ (q \o s)[a + j] = s[j]
  <2>1. a + j \in 1 .. a + b /\ ~ a + j =< a /\ (a + j) - a = j
    OBVIOUS
  <2> QED
    BY <2>1, <1>1, <1>2
<1>6. \A k \in 1 .. a + b : k \in 1 .. a \/ k - a \in 1 .. b
  OBVIOUS
<1>7. \A k \in 1 .. a + b : (q \o s)[k] \in Range(q) \cup Range(s)
  <2> TAKE k \in 1 .. a + b
  <2>1. CASE k \in 1 .. a
    BY <2>1, <1>3, <1>4 DEF Range
  <2>2. CASE k - a \in 1 .. b
    <3>1. a + (k - a) = k
      OBVIOUS
    <3> QED
      BY <2>2, <1>3, <1>5, <3>1 DEF Range
  <2> QED
    BY <2>1, <2>2, <1>6
<1>8. Range(q \o s) = Range(q) \cup Range(s)
  <2>1. Range(q \o s) \subseteq Range(q) \cup Range(s)
    BY <1>3, <1>7 DEF Range
  <2>2. Range(q) \subseteq Range(q \o s)
    BY <1>3, <1>4 DEF Range
  <2>3. Range(s) \subseteq Range(q \o s)
    BY <1>3, <1>5 DEF Range
  <2> QED
    BY <2>1, <2>2, <2>3
<1> QED
  BY <1>1, <1>2, <1>3, <1>4, <1>5, <1>6, <1>8

LEMMA TailOf ==
  ASSUME NEW T, NEW q \in Seq(T), q # <<>>
  PROVE  /\ Tail(q) \in Seq(T) /\ Len(q) \in Nat /\ DOMAIN q = 1 .. Len(q)
         /\ Len(Tail(q)) = Len(q) - 1 /\ DOMAIN Tail(q) = 1 .. Len(q) - 1
         /\ 1 \in DOMAIN q /\ Head(q) = q[1] /\ Head(q) \in T
         /\ \A k \in DOMAIN Tail(q) : k + 1 \in DOMAIN q /\ Tail(q)[k] = q[k + 1]
         /\ \A k \in DOMAIN q : k = 1 \/ (k - 1 \in DOMAIN Tail(q) /\ Tail(q)[k - 1] = q[k])
         /\ Range(q) = {Head(q)} \cup Range(Tail(q))
<1>1. /\ Head(q) \in T /\ Tail(q) \in Seq(T) /\ Len(Tail(q)) = Len(q) - 1
      /\ \A i \in 1 .. Len(Tail(q)) : Tail(q)[i] = q[i + 1]
  BY HeadTailProperties
<1>2. PICK a \in Nat : a = Len(q) /\ a # 0
  BY EmptySeq
<1>3. DOMAIN q = 1 .. a /\ DOMAIN Tail(q) = 1 .. a - 1
  BY <1>1, <1>2, LenProperties
<1>4. Head(q) = q[1]
  OBVIOUS
<1>5. \A k \in 1 .. a - 1 : k + 1 \in 1 .. a /\ Tail(q)[k] = q[k + 1]
  BY <1>1, <1>2
<1>6. ASSUME NEW k \in 1 .. a PROVE k = 1 \/ (k - 1 \in 1 .. a - 1 /\ Tail(q)[k - 1] = q[k])
  <2>1. k = 1 \/ (k - 1 \in 1 .. a - 1 /\ (k - 1) + 1 = k)
    OBVIOUS
  <2> QED
    BY <2>1, <1>5
<1>7. Range(q) = {Head(q)} \cup Range(Tail(q))
  <2>1. Range(q) \subseteq {Head(q)} \cup Range(Tail(q))
    BY <1>3, <1>4, <1>6 DEF Range
  <2>2. Range(Tail(q)) \subseteq Range(q)
    BY <1>3, <1>5 DEF Range
  <2>3. Head(q) \in Range(q)
    BY <1>2, <1>3, <1>4 DEF Range
  <2> QED
    BY <2>1, <2>2, <2>3
<1> QED
  BY <1>1, <1>2, <1>3, <1>4, <1>5, <1>6, <1>7

-----------------------------------------------------------------------------
(* The queue of the DB thread and what it will leave in the rows.            *)

WritesOf(q, p) == {k \in DOMAIN q : p \in DOMAIN q[k].rows}
Final(q, p, k) == k \in WritesOf(q, p) /\ \A m \in WritesOf(q, p) : m =< k
Stored(r, q, p) == IF WritesOf(q, p) = {} THEN r[p] ELSE q[Max(WritesOf(q, p))].rows[p]

\* The rows after the first command was applied.
Applied(r, cmd) == [p \in Players |-> IF p \in DOMAIN cmd.rows THEN cmd.rows[p] ELSE r[p]]

LEMMA QueueTerms ==
  ASSUME NEW p
  PROVE  Queued(p) = WritesOf(queue, p) /\ Durable(p) = Stored(row, queue, p)
<1>1. Queued(p) = WritesOf(queue, p)
  BY DEF Queued, WritesOf, Writes
<1> QED
  BY <1>1 DEF Durable, Stored

LEMMA QueueTermsPrime ==
  ASSUME NEW p
  PROVE  Queued(p)' = WritesOf(queue', p) /\ Durable(p)' = Stored(row', queue', p)
<1>1. Queued(p)' = WritesOf(queue', p)
  BY DEF Queued, WritesOf, Writes
<1> QED
  BY <1>1 DEF Durable, Stored

LEMMA FinalStored ==
  ASSUME NEW T, NEW q \in Seq(T), NEW p, NEW r, WritesOf(q, p) # {}
  PROVE  /\ \E k \in DOMAIN q : Final(q, p, k)
         /\ \A k : Final(q, p, k) => k \in DOMAIN q /\ Stored(r, q, p) = q[k].rows[p]
<1>1. PICK n \in Nat : n = Len(q) /\ DOMAIN q = 1 .. n
  BY LenProperties
<1>2. WritesOf(q, p) \subseteq 1 .. n
  BY <1>1 DEF WritesOf
<1>3. PICK m : m = Max(WritesOf(q, p))
  OBVIOUS
<1>4. m \in WritesOf(q, p) /\ \A y \in WritesOf(q, p) : y =< m
  BY <1>2, <1>3, MaxIsMember
<1>5. m \in DOMAIN q /\ Final(q, p, m) /\ Stored(r, q, p) = q[m].rows[p]
  BY <1>1, <1>2, <1>3, <1>4 DEF Final, Stored
<1>6. ASSUME NEW k, Final(q, p, k) PROVE k = m
  <2>1. k \in WritesOf(q, p) /\ m =< k /\ k =< m
    BY <1>4, <1>6 DEF Final
  <2>2. k \in 1 .. n /\ m \in 1 .. n
    BY <1>2, <1>4, <2>1
  <2> QED
    BY <2>1, <2>2
<1> QED
  BY <1>5, <1>6

\* Commands that do not write p change nothing for p.
LEMMA GrowSame ==
  ASSUME NEW T, NEW q \in Seq(T), NEW s \in Seq(T), NEW p, NEW r, WritesOf(s, p) = {}
  PROVE  /\ WritesOf(q \o s, p) = WritesOf(q, p)
         /\ Stored(r, q \o s, p) = Stored(r, q, p)
         /\ \A k : Final(q \o s, p, k) => Final(q, p, k)
<1>1. ASSUME NEW k \in WritesOf(q \o s, p) PROVE k \in WritesOf(q, p)
  <2>0. k \in DOMAIN (q \o s) /\ p \in DOMAIN (q \o s)[k].rows
    BY <1>1 DEF WritesOf
  <2>1. CASE k \in DOMAIN q
    BY <2>0, <2>1, Concat DEF WritesOf
  <2>2. CASE k - Len(q) \in DOMAIN s
    <3>1. Len(q) + (k - Len(q)) = k
      BY <2>0, Concat
    <3>2. (q \o s)[k] = s[k - Len(q)]
      BY <2>2, <3>1, Concat
    <3> QED
      BY <2>0, <2>2, <3>2 DEF WritesOf
  <2> QED
    BY <2>0, <2>1, <2>2, Concat
<1>2. \A k \in WritesOf(q, p) : k \in WritesOf(q \o s, p) /\ (q \o s)[k] = q[k]
  BY Concat DEF WritesOf
<1>3. WritesOf(q \o s, p) = WritesOf(q, p)
  BY <1>1, <1>2
<1>4. \A k : Final(q \o s, p, k) => Final(q, p, k)
  BY <1>3 DEF Final
<1>5. CASE WritesOf(q, p) = {}
  BY <1>3, <1>4, <1>5 DEF Stored
<1>6. CASE WritesOf(q, p) # {}
  <2>1. PICK n \in Nat : DOMAIN q = 1 .. n
    BY LenProperties
  <2>2. Max(WritesOf(q, p)) \in WritesOf(q, p)
    BY <1>6, <2>1, MaxIsMember DEF WritesOf
  <2> QED
    BY <1>2, <1>3, <1>4, <1>6, <2>2 DEF Stored
<1> QED
  BY <1>5, <1>6

\* When new commands write p, the last write of p is one of them.
EndsIn(h, s, p) == \A k : Final(h, p, k) => \E j \in WritesOf(s, p) : h[k] = s[j]

LEMMA GrowFinal ==
  ASSUME NEW T, NEW q \in Seq(T), NEW s \in Seq(T), NEW p, WritesOf(s, p) # {}
  PROVE  WritesOf(q \o s, p) # {} /\ EndsIn(q \o s, s, p)
<1>1. PICK w : w = q \o s
  OBVIOUS
<1>2. PICK j \in WritesOf(s, p) : TRUE
  OBVIOUS
<1>3. j \in DOMAIN s /\ p \in DOMAIN s[j].rows
  BY DEF WritesOf
<1>4. PICK a \in Nat, b \in Nat : /\ a = Len(q) /\ DOMAIN q = 1 .. a /\ DOMAIN s = 1 .. b
                                  /\ DOMAIN w = 1 .. a + b
  BY <1>1, Concat
<1>5. a + j \in WritesOf(w, p)
  BY SMTT(60), <1>1, <1>3, <1>4, Concat DEF WritesOf
<1>6. ASSUME NEW k, Final(w, p, k) PROVE \E i \in WritesOf(s, p) : w[k] = s[i]
  <2>1. k \in 1 .. a + b /\ p \in DOMAIN w[k].rows /\ a + j =< k
    BY <1>4, <1>5, <1>6 DEF Final, WritesOf
  <2>2. k - a \in 1 .. b /\ a + (k - a) = k
    BY <1>3, <1>4, <2>1
  <2>3. w[k] = s[k - a]
    BY <1>1, <1>4, <2>2, Concat
  <2> QED
    BY <1>4, <2>1, <2>2, <2>3 DEF WritesOf
<1> QED
  BY <1>1, <1>5, <1>6 DEF EndsIn

\* Commands that all write v for p leave v.
Leaves(r, q, p, v) == Stored(r, q, p) = v /\ WritesOf(q, p) # {}

LEMMA GrowNew ==
  ASSUME NEW T, NEW q \in Seq(T), NEW s \in Seq(T), NEW p, NEW r, NEW v,
         WritesOf(s, p) # {}, \A k \in WritesOf(s, p) : s[k].rows[p] = v
  PROVE  Leaves(r, q \o s, p, v)
<1>1. PICK h : h = q \o s
  OBVIOUS
<1>2. h \in Seq(T) /\ WritesOf(h, p) # {}
  BY <1>1, Concat, GrowFinal
<1>3. PICK k : Final(h, p, k)
  BY <1>2, FinalStored
<1>4. Stored(r, h, p) = h[k].rows[p]
  BY <1>2, <1>3, FinalStored
<1>5. EndsIn(h, s, p)
  BY <1>1, GrowFinal
<1>6. \E j \in WritesOf(s, p) : h[k] = s[j]
  BY <1>3, <1>5 DEF EndsIn
<1> QED
  BY <1>1, <1>2, <1>4, <1>6 DEF Leaves

\* The first command leaves the queue.
LEMMA TailWrites ==
  ASSUME NEW T, NEW q \in Seq(T), q # <<>>, NEW p
  PROVE  /\ \A k \in WritesOf(Tail(q), p) : k + 1 \in WritesOf(q, p) /\ Tail(q)[k] = q[k + 1]
         /\ \A k \in WritesOf(q, p) : k = 1 \/ (k - 1 \in WritesOf(Tail(q), p) /\ Tail(q)[k - 1] = q[k])
         /\ 1 \in WritesOf(q, p) <=> p \in DOMAIN Head(q).rows
  BY TailOf DEF WritesOf

LEMMA TailFinal ==
  ASSUME NEW T, NEW q \in Seq(T), q # <<>>, NEW p, NEW k, Final(Tail(q), p, k)
  PROVE  Final(q, p, k + 1) /\ Tail(q)[k] = q[k + 1]
<1>1. k \in WritesOf(Tail(q), p) /\ \A m \in WritesOf(Tail(q), p) : m =< k
  BY DEF Final
<1>2. PICK a \in Nat : DOMAIN q = 1 .. a /\ DOMAIN Tail(q) = 1 .. a - 1
  BY TailOf
<1>3. k \in 1 .. a - 1 /\ WritesOf(q, p) \subseteq 1 .. a
  BY <1>1, <1>2 DEF WritesOf
<1>4. ASSUME NEW m \in WritesOf(q, p) PROVE m =< k + 1
  <2>1. m \in 1 .. a
    BY <1>3
  <2>2. m = 1 \/ m - 1 =< k
    BY <1>1, TailWrites
  <2> QED
    BY <1>3, <2>1, <2>2
<1> QED
  BY <1>1, <1>4, TailWrites DEF Final

LEMMA TailStored ==
  ASSUME NEW T, NEW q \in Seq(T), q # <<>>, NEW p \in Players, NEW r
  PROVE  /\ Stored(Applied(r, Head(q)), Tail(q), p) = Stored(r, q, p)
         /\ WritesOf(Tail(q), p) # {} => Stored(r, Tail(q), p) = Stored(r, q, p)
         /\ p \notin DOMAIN Head(q).rows => Stored(r, Tail(q), p) = Stored(r, q, p)
         /\ WritesOf(Tail(q), p) = {} /\ p \in DOMAIN Head(q).rows => Final(q, p, 1)
         /\ WritesOf(Tail(q), p) # {} => WritesOf(q, p) # {}
         /\ WritesOf(q, p) = {} => p \notin DOMAIN Head(q).rows
<1>1. Tail(q) \in Seq(T)
  BY TailOf
<1>2. CASE WritesOf(Tail(q), p) # {}
  <2>1. PICK k : Final(Tail(q), p, k)
    BY <1>1, <1>2, FinalStored
  <2>2. Final(q, p, k + 1) /\ Tail(q)[k] = q[k + 1]
    BY <2>1, TailFinal
  <2>3. WritesOf(q, p) # {}
    BY <2>2 DEF Final
  <2>4. Stored(r, q, p) = q[k + 1].rows[p]
    BY <2>2, <2>3, FinalStored
  <2>5. \A x : Stored(x, Tail(q), p) = Tail(q)[k].rows[p]
    BY ZenonT(60), <1>1, <1>2, <2>1, FinalStored
  <2> QED
    BY <1>2, <2>2, <2>3, <2>4, <2>5
<1>3. CASE WritesOf(Tail(q), p) = {} /\ p \in DOMAIN Head(q).rows
  <2>1. 1 \in WritesOf(q, p) /\ \A k \in WritesOf(q, p) : k = 1
    BY <1>3, TailWrites
  <2>2. Final(q, p, 1)
    BY <2>1 DEF Final
  <2>3. Stored(r, q, p) = q[1].rows[p]
    BY <2>1, <2>2, FinalStored
  <2>4. Stored(Applied(r, Head(q)), Tail(q), p) = Head(q).rows[p]
    BY <1>3 DEF Stored, Applied
  <2> QED
    BY <1>3, <2>1, <2>2, <2>3, <2>4, TailOf
<1>4. CASE WritesOf(Tail(q), p) = {} /\ p \notin DOMAIN Head(q).rows
  <2>1. WritesOf(q, p) = {}
    BY <1>4, TailWrites
  <2> QED
    BY <1>4, <2>1 DEF Stored, Applied
<1> QED
  BY <1>2, <1>3, <1>4

-----------------------------------------------------------------------------
(* Who claims an item.  The rows r come first, then the commands of the      *)
(* queue q in their order, then the memory o of those who play.  If one      *)
(* character claims an item and another claims it later, a trade between     *)
(* the two claims took it from the first.                                    *)

At(r, q, o, p, k) ==
  IF k = 0 THEN r[p]
  ELSE IF k \in DOMAIN q THEN IF p \in DOMAIN q[k].rows THEN q[k].rows[p] ELSE {}
  ELSE o[p]

Parted(q, p, i, j, k) ==
  \E m \in DOMAIN q : /\ j < m /\ m =< k
                      /\ q[m].kind = "trade" /\ p \in DOMAIN q[m].rows /\ i \notin q[m].rows[p]

Traceable(r, q, o) ==
  \A p, x \in Players : \A j, k \in 0 .. Len(q) + 1 : \A i :
    p # x /\ j =< k /\ i \in At(r, q, o, p, j) /\ i \in At(r, q, o, x, k) => Parted(q, p, i, j, k)

LEMMA AtTail ==
  ASSUME NEW T, NEW q \in Seq(T), q # <<>>, NEW p, NEW r, NEW r2, NEW o,
         NEW k \in 0 .. Len(Tail(q)) + 1, k # 0
  PROVE  k + 1 \in 0 .. Len(q) + 1 /\ At(r2, Tail(q), o, p, k) = At(r, q, o, p, k + 1)
<1>1. PICK a \in Nat : a = Len(q) /\ DOMAIN q = 1 .. a /\ DOMAIN Tail(q) = 1 .. a - 1
                       /\ Len(Tail(q)) = a - 1
  BY TailOf
<1>2. k \in 1 .. a /\ k + 1 \in 0 .. a + 1 /\ k + 1 # 0
      /\ (k \in 1 .. a - 1 <=> k + 1 \in 1 .. a)
  BY <1>1
<1>3. k \in DOMAIN Tail(q) => Tail(q)[k] = q[k + 1]
  BY TailOf
<1> QED
  BY <1>1, <1>2, <1>3 DEF At

LEMMA PartedTail ==
  ASSUME NEW T, NEW q \in Seq(T), q # <<>>, NEW p, NEW i, NEW j \in Nat, NEW k \in Nat,
         Parted(q, p, i, j, k + 1), q[1].kind = "trade" /\ p \in DOMAIN q[1].rows => j >= 1
  PROVE  Parted(Tail(q), p, i, IF j = 0 THEN 0 ELSE j - 1, k)
<1>1. PICK m \in DOMAIN q : /\ j < m /\ m =< k + 1
                            /\ q[m].kind = "trade" /\ p \in DOMAIN q[m].rows /\ i \notin q[m].rows[p]
  BY DEF Parted
<1>2. PICK a \in Nat : DOMAIN q = 1 .. a
  BY TailOf
<1>3. m # 1
  BY <1>1
<1>4. m - 1 \in DOMAIN Tail(q) /\ Tail(q)[m - 1] = q[m]
  BY <1>3, TailOf
<1>5. (IF j = 0 THEN 0 ELSE j - 1) < m - 1 /\ m - 1 =< k
  BY <1>1, <1>2, <1>3
<1> QED
  BY <1>1, <1>4, <1>5 DEF Parted

LEMMA TraceApplied ==
  ASSUME NEW T, NEW q \in Seq(T), q # <<>>, NEW r, NEW o, Traceable(r, q, o)
  PROVE  Traceable(Applied(r, Head(q)), Tail(q), o)
<1> DEFINE s == Applied(r, Head(q))
<1>1. PICK a \in Nat : a = Len(q) /\ DOMAIN q = 1 .. a /\ a # 0
                       /\ Len(Tail(q)) = a - 1 /\ Head(q) = q[1]
  BY TailOf, EmptySeq
<1>2. SUFFICES ASSUME NEW p \in Players, NEW x \in Players, NEW j \in 0 .. Len(Tail(q)) + 1,
                      NEW k \in 0 .. Len(Tail(q)) + 1, NEW i, p # x, j =< k,
                      i \in At(s, Tail(q), o, p, j), i \in At(s, Tail(q), o, x, k)
               PROVE  Parted(Tail(q), p, i, j, k)
  BY DEF Traceable
<1>3. j \in 0 .. a /\ k \in 0 .. a /\ j \in Nat /\ k \in Nat
  BY <1>1
<1>4. \A y \in Players : At(s, Tail(q), o, y, 0) = At(r, q, o, y, IF y \in DOMAIN q[1].rows THEN 1 ELSE 0)
  BY <1>1 DEF At, Applied
<1>5. CASE j # 0
  <2>1. k # 0
    BY <1>2, <1>3, <1>5
  <2>2. Parted(q, p, i, j + 1, k + 1)
    <3>1. i \in At(r, q, o, p, j + 1) /\ j + 1 \in 0 .. Len(q) + 1
      BY <1>2, <1>5, AtTail
    <3>2. i \in At(r, q, o, x, k + 1) /\ k + 1 \in 0 .. Len(q) + 1
      BY <1>2, <2>1, AtTail
    <3>3. j + 1 =< k + 1
      BY <1>2, <1>3
    <3> QED
      BY <1>2, <3>1, <3>2, <3>3 DEF Traceable
  <2>3. j + 1 \in Nat /\ j + 1 >= 1 /\ (IF j + 1 = 0 THEN 0 ELSE (j + 1) - 1) = j
    BY <1>3
  <2>4. Parted(Tail(q), p, i, IF j + 1 = 0 THEN 0 ELSE (j + 1) - 1, k)
    BY <1>3, <2>2, <2>3, PartedTail
  <2> QED
    BY <2>3, <2>4
<1>6. CASE j = 0 /\ p \in DOMAIN q[1].rows
  <2>1. i \in At(r, q, o, p, 1) /\ 1 \in 0 .. Len(q) + 1
    BY <1>1, <1>2, <1>4, <1>6
  <2>2. CASE k = 0
    <3>1. PICK h \in {0, 1} : i \in At(r, q, o, x, h)
                              /\ (x \notin DOMAIN q[1].rows => h = 0) /\ (x \in DOMAIN q[1].rows => h = 1)
      BY <1>2, <1>4, <2>2
    <3>2. h \in 0 .. Len(q) + 1
      BY <1>1
    <3>3. CASE h = 1
      <4>1. Parted(q, p, i, 1, 1)
        BY <1>2, <2>1, <3>1, <3>3 DEF Traceable
      <4> QED
        BY <4>1, <1>1 DEF Parted
    <3>4. CASE h = 0
      <4>1. Parted(q, x, i, 0, 1)
        BY <1>2, <2>1, <3>1, <3>2, <3>4 DEF Traceable
      <4>2. PICK m \in DOMAIN q : 0 < m /\ m =< 1 /\ x \in DOMAIN q[m].rows
        BY <4>1 DEF Parted
      <4>3. m = 1
        BY <1>1, <4>2
      <4> QED
        BY <3>1, <3>4, <4>2, <4>3
    <3> QED
      BY <3>3, <3>4
  <2>3. CASE k # 0
    <3>1. i \in At(r, q, o, x, k + 1) /\ k + 1 \in 0 .. Len(q) + 1
      BY <1>2, <2>3, AtTail
    <3>2. Parted(q, p, i, 1, k + 1)
      BY <1>2, <1>3, <2>1, <3>1 DEF Traceable
    <3>3. PICK h \in Nat : h = 1
      OBVIOUS
    <3>4. Parted(Tail(q), p, i, IF h = 0 THEN 0 ELSE h - 1, k)
      BY <1>3, <3>2, <3>3, PartedTail
    <3>5. (IF h = 0 THEN 0 ELSE h - 1) = 0
      BY <3>3
    <3> QED
      BY <1>6, <3>4, <3>5
  <2> QED
    BY <2>2, <2>3
<1>7. CASE j = 0 /\ p \notin DOMAIN q[1].rows
  <2>1. i \in At(r, q, o, p, 0) /\ 0 \in 0 .. Len(q) + 1
    BY <1>1, <1>2, <1>4, <1>7
  <2>2. PICK h \in 0 .. Len(q) + 1 : i \in At(r, q, o, x, h) /\ h =< k + 1
    <3>1. CASE k = 0
      BY <1>1, <1>2, <1>4, <3>1
    <3>2. CASE k # 0
      <4>1. i \in At(r, q, o, x, k + 1) /\ k + 1 \in 0 .. Len(q) + 1
        BY <1>2, <3>2, AtTail
      <4>2. k + 1 =< k + 1
        BY <1>3
      <4> QED
        BY <4>1, <4>2
    <3> QED
      BY <3>1, <3>2
  <2>3. Parted(q, p, i, 0, h)
    BY <1>2, <2>1, <2>2 DEF Traceable
  <2>4. Parted(q, p, i, 0, k + 1)
    BY <1>1, <1>3, <2>2, <2>3 DEF Parted
  <2>5. Parted(Tail(q), p, i, IF 0 = 0 THEN 0 ELSE 0 - 1, k)
    BY <1>3, <1>7, <2>4, PartedTail
  <2> QED
    BY <1>7, <2>5
<1> QED
  BY <1>5, <1>6, <1>7

LEMMA TraceLost ==
  ASSUME NEW T, NEW q \in Seq(T), q # <<>>, NEW r, NEW o, Traceable(r, q, o),
         Head(q).kind # "trade"
  PROVE  Traceable(r, Tail(q), o)
<1>1. PICK a \in Nat : a = Len(q) /\ DOMAIN q = 1 .. a /\ a # 0
                       /\ Len(Tail(q)) = a - 1 /\ Head(q) = q[1]
  BY TailOf, EmptySeq
<1>2. SUFFICES ASSUME NEW p \in Players, NEW x \in Players, NEW j \in 0 .. Len(Tail(q)) + 1,
                      NEW k \in 0 .. Len(Tail(q)) + 1, NEW i, p # x, j =< k,
                      i \in At(r, Tail(q), o, p, j), i \in At(r, Tail(q), o, x, k)
               PROVE  Parted(Tail(q), p, i, j, k)
  BY DEF Traceable
<1>3. j \in 0 .. a /\ k \in 0 .. a /\ j \in Nat /\ k \in Nat
  BY <1>1
<1>4. \A y : At(r, Tail(q), o, y, 0) = At(r, q, o, y, 0)
  BY DEF At
<1>5. CASE j # 0
  <2>1. k # 0
    BY <1>2, <1>3, <1>5
  <2>2. Parted(q, p, i, j + 1, k + 1)
    <3>1. i \in At(r, q, o, p, j + 1) /\ j + 1 \in 0 .. Len(q) + 1
      BY <1>2, <1>5, AtTail
    <3>2. i \in At(r, q, o, x, k + 1) /\ k + 1 \in 0 .. Len(q) + 1
      BY <1>2, <2>1, AtTail
    <3>3. j + 1 =< k + 1
      BY <1>2, <1>3
    <3> QED
      BY <1>2, <3>1, <3>2, <3>3 DEF Traceable
  <2>3. j + 1 \in Nat /\ j + 1 >= 1 /\ (IF j + 1 = 0 THEN 0 ELSE (j + 1) - 1) = j
    BY <1>3
  <2>4. Parted(Tail(q), p, i, IF j + 1 = 0 THEN 0 ELSE (j + 1) - 1, k)
    BY <1>3, <2>2, <2>3, PartedTail
  <2> QED
    BY <2>3, <2>4
<1>6. CASE j = 0
  <2>1. i \in At(r, q, o, p, 0) /\ 0 \in 0 .. Len(q) + 1
    BY <1>1, <1>2, <1>4, <1>6
  <2>2. PICK h \in 0 .. Len(q) + 1 : i \in At(r, q, o, x, h) /\ h =< k + 1
    <3>1. CASE k = 0
      BY <1>1, <1>2, <1>4, <3>1
    <3>2. CASE k # 0
      BY <1>2, <1>3, <3>2, AtTail
    <3> QED
      BY <3>1, <3>2
  <2>3. Parted(q, p, i, 0, h)
    BY <1>2, <2>1, <2>2 DEF Traceable
  <2>4. Parted(q, p, i, 0, k + 1)
    BY <1>1, <1>3, <2>2, <2>3 DEF Parted
  <2>5. Parted(Tail(q), p, i, IF 0 = 0 THEN 0 ELSE 0 - 1, k)
    BY <1>1, <1>3, <2>4, PartedTail
  <2> QED
    BY <1>6, <2>5
<1> QED
  BY <1>5, <1>6

\* Saves of what is in memory, and commands that write nothing.
LEMMA TraceSaves ==
  ASSUME NEW T, NEW q \in Seq(T), NEW s \in Seq(T), NEW r, NEW o, Traceable(r, q, o),
         \A j \in DOMAIN s : \A p \in DOMAIN s[j].rows : s[j].rows[p] = o[p]
  PROVE  Traceable(r, q \o s, o)
<1>1. PICK a \in Nat, b \in Nat : /\ a = Len(q) /\ b = Len(s) /\ DOMAIN q = 1 .. a /\ DOMAIN s = 1 .. b
                                  /\ DOMAIN (q \o s) = 1 .. a + b /\ Len(q \o s) = a + b
  BY Concat
<1>2. \A k \in 1 .. a : (q \o s)[k] = q[k]
  BY <1>1, Concat
<1>3. SUFFICES ASSUME NEW p \in Players, NEW x \in Players, NEW j \in 0 .. Len(q \o s) + 1,
                      NEW k \in 0 .. Len(q \o s) + 1, NEW i, p # x, j =< k,
                      i \in At(r, q \o s, o, p, j), i \in At(r, q \o s, o, x, k)
               PROVE  Parted(q \o s, p, i, j, k)
  BY DEF Traceable
<1>4. ASSUME NEW y, NEW n \in 0 .. a + b + 1, i \in At(r, q \o s, o, y, n)
      PROVE  i \in At(r, q, o, y, IF n =< a THEN n ELSE a + 1)
  <2>1. CASE n = 0
    BY <1>4, <2>1 DEF At
  <2>2. CASE n \in 1 .. a
    <3>1. n \in DOMAIN q /\ n \in DOMAIN (q \o s) /\ n # 0 /\ n =< a
      BY <1>1, <2>2
    <3> QED
      BY <1>2, <1>4, <2>2, <3>1 DEF At
  <2>3. CASE n \in a + 1 .. a + b
    <3>1. n \in DOMAIN (q \o s) /\ n # 0 /\ ~ (n =< a) /\ a + 1 \notin DOMAIN q /\ a + 1 # 0
          /\ n - a \in DOMAIN s /\ a + (n - a) = n
      BY <1>1, <2>3
    <3>2. (q \o s)[n] = s[n - a]
      BY <1>1, <3>1, Concat
    <3>3. i \in o[y]
      BY <1>4, <3>1, <3>2 DEF At
    <3> QED
      BY <3>1, <3>3 DEF At
  <2>4. CASE n = a + b + 1
    <3>1. n \notin DOMAIN (q \o s) /\ n # 0 /\ ~ (n =< a) /\ a + 1 \notin DOMAIN q /\ a + 1 # 0
      BY <1>1, <2>4
    <3> QED
      BY <1>4, <3>1 DEF At
  <2>5. n = 0 \/ n \in 1 .. a \/ n \in a + 1 .. a + b \/ n = a + b + 1
    OBVIOUS
  <2> QED
    BY <2>1, <2>2, <2>3, <2>4, <2>5
<1>5. j \in 0 .. a + b + 1 /\ k \in 0 .. a + b + 1
  BY <1>1
<1>6. PICK J \in 0 .. a + 1, K \in 0 .. a + 1 :
        J = (IF j =< a THEN j ELSE a + 1) /\ K = (IF k =< a THEN k ELSE a + 1)
  BY <1>5
<1>7. J =< K
  BY <1>3, <1>5, <1>6
<1>8. Parted(q, p, i, J, K)
  <2>1. i \in At(r, q, o, p, J) /\ i \in At(r, q, o, x, K)
    BY <1>3, <1>4, <1>5, <1>6
  <2> QED
    BY <1>1, <1>3, <1>7, <2>1 DEF Traceable
<1>9. PICK m \in 1 .. a : /\ J < m /\ m =< K
                          /\ q[m].kind = "trade" /\ p \in DOMAIN q[m].rows /\ i \notin q[m].rows[p]
  BY <1>1, <1>8 DEF Parted
<1>10. j < m /\ m =< k /\ m \in 1 .. a + b
  BY <1>5, <1>6, <1>9
<1> QED
  BY <1>1, <1>2, <1>9, <1>10 DEF Parted

\* Memory may lose items, and gain items nobody else claims.
LEMMA TraceMemory ==
  ASSUME NEW T, NEW q \in Seq(T), NEW r, NEW o, NEW o2, Traceable(r, q, o),
         \A p, x \in Players : \A i \in o2[p] \ o[p] : \A k \in 0 .. Len(q) + 1 :
           p # x => i \notin At(r, q, o, x, k) /\ i \notin o2[x]
  PROVE  Traceable(r, q, o2)
<1>1. PICK a \in Nat : a = Len(q) /\ DOMAIN q = 1 .. a
  BY LenProperties
<1>2. SUFFICES ASSUME NEW p \in Players, NEW x \in Players, NEW j \in 0 .. Len(q) + 1,
                      NEW k \in 0 .. Len(q) + 1, NEW i, p # x, j =< k,
                      i \in At(r, q, o2, p, j), i \in At(r, q, o2, x, k)
               PROVE  Parted(q, p, i, j, k)
  BY DEF Traceable
<1>3. \A y, n : At(r, q, o2, y, n) = At(r, q, o, y, n)
                \/ (At(r, q, o2, y, n) = o2[y] /\ At(r, q, o, y, n) = o[y])
  <2> TAKE y, n
  <2>1. CASE n = 0
    BY <2>1 DEF At
  <2>2. CASE n # 0 /\ n \in DOMAIN q
    BY <2>2 DEF At
  <2>3. CASE n # 0 /\ n \notin DOMAIN q
    BY <2>3 DEF At
  <2> QED
    BY <2>1, <2>2, <2>3
<1>4. CASE i \in At(r, q, o, p, j) /\ i \in At(r, q, o, x, k)
  BY <1>2, <1>4 DEF Traceable
<1>5. CASE i \notin At(r, q, o, p, j)
  <2>1. i \in o2[p] \ o[p]
    BY <1>2, <1>3, <1>5
  <2>2. i \in At(r, q, o, x, k) \/ i \in o2[x]
    BY <1>2, <1>3
  <2> QED
    BY <1>2, <2>1, <2>2
<1>6. CASE i \notin At(r, q, o, x, k)
  <2>1. i \in o2[x] \ o[x]
    BY <1>2, <1>3, <1>6
  <2>2. i \in At(r, q, o, p, j) \/ i \in o2[p]
    BY <1>2, <1>3
  <2> QED
    BY <1>2, <2>1, <2>2
<1> QED
  BY <1>4, <1>5, <1>6

\* What is in the rows of p, when no command writes p, nobody else claims.
LEMMA RowsUnclaimed ==
  ASSUME NEW T, NEW q \in Seq(T), NEW r, NEW o, Traceable(r, q, o),
         NEW p \in Players, WritesOf(q, p) = {}, NEW x \in Players, p # x,
         NEW i \in r[p], NEW k \in 0 .. Len(q) + 1
  PROVE  i \notin At(r, q, o, x, k)
<1> SUFFICES ASSUME i \in At(r, q, o, x, k) PROVE FALSE
  OBVIOUS
<1>1. Len(q) \in Nat
  BY LenProperties
<1>2. 0 \in 0 .. Len(q) + 1 /\ 0 =< k
  BY <1>1
<1>3. i \in At(r, q, o, p, 0)
  BY DEF At
<1>4. Parted(q, p, i, 0, k)
  BY <1>2, <1>3 DEF Traceable
<1> QED
  BY <1>4 DEF Parted, WritesOf

\* One command that exchanges items between a and b.
LEMMA TraceTrade ==
  ASSUME NEW T, NEW q \in Seq(T), NEW cmd \in T, NEW r, NEW o, NEW o2, Traceable(r, q, o),
         NEW a \in Players, NEW b \in Players, a # b,
         cmd.kind = "trade", DOMAIN cmd.rows = {a, b}, cmd.rows[a] = o2[a], cmd.rows[b] = o2[b],
         o2[a] \cup o2[b] \subseteq o[a] \cup o[b], o2[a] \cap o2[b] = {},
         \A x \in Players \ {a, b} : o2[x] = o[x]
  PROVE  Traceable(r, q \o <<cmd>>, o2)
<1>1. PICK n \in Nat : n = Len(q) /\ DOMAIN q = 1 .. n
  BY LenProperties
<1>0. PICK h : h = q \o <<cmd>>
  OBVIOUS
<1>2. DOMAIN h = 1 .. n + 1 /\ Len(h) = n + 1 /\ h[n + 1] = cmd /\ \A k \in 1 .. n : h[k] = q[k]
  <2>1. PICK s : s = <<cmd>>
    OBVIOUS
  <2>2. s \in Seq(T) /\ Len(s) = 1 /\ s[1] = cmd /\ DOMAIN s = 1 .. 1 /\ 1 \in DOMAIN s
    BY <2>1
  <2> QED
    BY <1>0, <1>1, <2>1, <2>2, Concat
<1>3. SUFFICES ASSUME NEW p \in Players, NEW x \in Players, NEW j \in 0 .. n + 2,
                      NEW k \in 0 .. n + 2, NEW i, p # x, j =< k,
                      i \in At(r, h, o2, p, j), i \in At(r, h, o2, x, k)
               PROVE  Parted(h, p, i, j, k)
  <2>1. Len(h) + 1 = n + 2
    BY <1>2
  <2> QED
    BY <1>0, <1>1, <2>1 DEF Traceable
<1>4. \A y : \A m \in 0 .. n : At(r, h, o2, y, m) = At(r, q, o, y, m)
  <2> TAKE y
  <2> TAKE m \in 0 .. n
  <2>1. CASE m = 0
    BY <2>1 DEF At
  <2>2. CASE m \in 1 .. n
    <3>1. m \in DOMAIN q /\ m \in DOMAIN h /\ m # 0
      BY <1>1, <1>2, <2>2
    <3> QED
      BY <1>2, <2>2, <3>1 DEF At
  <2> QED
    BY <2>1, <2>2
\* Claims of one moment are disjoint.
<1>5. ASSUME NEW y \in Players, NEW z \in Players, y # z, NEW g, g \in o[y], g \in o[z] PROVE FALSE
  <2>1. n + 1 \in 0 .. Len(q) + 1 /\ n + 1 \notin DOMAIN q /\ n + 1 # 0 /\ n + 1 =< n + 1
    BY <1>1
  <2>2. Parted(q, y, g, n + 1, n + 1)
    BY <1>5, <2>1 DEF Traceable, At
  <2>3. PICK m \in 1 .. n : n + 1 < m
    BY <1>1, <2>2 DEF Parted
  <2> QED
    BY <2>3
<1>6. \A y, z \in Players : y # z => o2[y] \cap o2[z] = {}
  BY <1>5
<1>7. \A y : \A m \in {n + 1, n + 2} : At(r, h, o2, y, m) \subseteq (IF m = n + 2 \/ y \in {a, b} THEN o2[y] ELSE {})
  <2>1. n + 1 \in DOMAIN h /\ n + 2 \notin DOMAIN h /\ n + 1 # 0 /\ n + 2 # 0
    BY <1>2
  <2> QED
    BY <1>2, <2>1 DEF At
<1>8. j \in 0 .. n \/ j \in {n + 1, n + 2}
  OBVIOUS
<1>9. k \in 0 .. n \/ k \in {n + 1, n + 2}
  OBVIOUS
<1>10. CASE j \in {n + 1, n + 2}
  <2>1. k \in {n + 1, n + 2}
    BY <1>3, <1>10
  <2>2. i \in o2[p] /\ i \in o2[x]
    BY <1>3, <1>7, <1>10, <2>1
  <2> QED
    BY <1>3, <1>6, <2>2
<1>11. CASE j \in 0 .. n /\ k \in 0 .. n
  <2>1. Parted(q, p, i, j, k)
    <3>1. j \in 0 .. Len(q) + 1 /\ k \in 0 .. Len(q) + 1
      BY <1>1, <1>11
    <3> QED
      BY <1>3, <1>4, <1>11, <3>1 DEF Traceable
  <2> QED
    BY <1>1, <1>2, <2>1 DEF Parted
<1>12. CASE j \in 0 .. n /\ k \in {n + 1, n + 2}
  <2>1. i \in At(r, q, o, p, j) /\ i \in o2[x] /\ j \in 0 .. Len(q) + 1
        /\ n + 1 \in 0 .. Len(q) + 1 /\ j =< n + 1 /\ n + 1 \notin DOMAIN q /\ n + 1 # 0
    BY <1>1, <1>3, <1>4, <1>7, <1>12
  <2>2. ASSUME NEW y \in Players, y # p, i \in o[y] PROVE Parted(h, p, i, j, k)
    <3>1. i \in At(r, q, o, y, n + 1)
      BY <2>1, <2>2 DEF At
    <3>2. Parted(q, p, i, j, n + 1)
      BY <2>1, <2>2, <3>1 DEF Traceable
    <3>3. PICK m \in 1 .. n : /\ j < m /\ q[m].kind = "trade"
                              /\ p \in DOMAIN q[m].rows /\ i \notin q[m].rows[p]
      BY <1>1, <3>2 DEF Parted
    <3>4. m =< k /\ m \in 1 .. n + 1
      BY <1>12, <3>3
    <3> QED
      BY <1>2, <3>3, <3>4 DEF Parted
  <2>3. CASE i \in o[x]
    BY <1>3, <2>2, <2>3
  <2>4. CASE i \notin o[x]
    <3>1. x \in {a, b}
      BY <2>1, <2>4
    <3>2. i \in o[a] \cup o[b]
      BY <2>1, <3>1
    <3>3. PICK y \in {a, b} : y # x /\ i \in o[y]
      BY <2>4, <3>1, <3>2
    <3>4. CASE y # p
      BY <2>2, <3>3, <3>4
    <3>5. CASE y = p
      <4>1. p \in {a, b} /\ i \notin o2[p] /\ cmd.rows[p] = o2[p]
        BY <1>3, <1>6, <2>1, <3>3, <3>5
      <4>2. n + 1 \in DOMAIN h /\ j < n + 1 /\ n + 1 =< k
        BY <1>2, <1>12
      <4> QED
        BY <1>2, <4>1, <4>2 DEF Parted
    <3> QED
      BY <3>4, <3>5
  <2> QED
    BY <2>3, <2>4
<1> QED
  BY <1>3, <1>8, <1>9, <1>10, <1>11, <1>12

\* The last claim of p among the rows and the commands is what is stored.
LEMMA LastClaim ==
  ASSUME NEW T, NEW q \in Seq(T), NEW r, NEW o, NEW p
  PROVE  \E j \in 0 .. Len(q) : /\ Stored(r, q, p) = At(r, q, o, p, j)
                                /\ \A m \in WritesOf(q, p) : m =< j
<1>1. PICK n \in Nat : n = Len(q) /\ DOMAIN q = 1 .. n
  BY LenProperties
<1>2. CASE WritesOf(q, p) = {}
  <2>1. 0 \in 0 .. Len(q) /\ Stored(r, q, p) = At(r, q, o, p, 0)
    BY <1>1, <1>2 DEF Stored, At
  <2> QED
    BY <1>2, <2>1
<1>3. CASE WritesOf(q, p) # {}
  <2>1. PICK k \in DOMAIN q : Final(q, p, k)
    BY <1>3, FinalStored
  <2>2. Stored(r, q, p) = q[k].rows[p]
    BY <1>3, <2>1, FinalStored
  <2>3. p \in DOMAIN q[k].rows /\ \A m \in WritesOf(q, p) : m =< k
    BY <2>1 DEF Final, WritesOf
  <2>4. k \in 0 .. Len(q) /\ k # 0
    BY <1>1
  <2>5. At(r, q, o, p, k) = q[k].rows[p]
    BY <2>3, <2>4 DEF At
  <2> QED
    BY <2>2, <2>3, <2>4, <2>5
<1> QED
  BY <1>2, <1>3

\* What two characters own at the end of the chain is disjoint, and so is what they own at
\* its start.
LEMMA TraceReads ==
  ASSUME NEW T, NEW q \in Seq(T), NEW r, NEW o, Traceable(r, q, o),
         NEW p \in Players, NEW x \in Players, p # x
  PROVE  /\ r[p] \cap r[x] = {}
         /\ o[p] \cap o[x] = {}
         /\ Stored(r, q, p) \cap o[x] = {}
         /\ Stored(r, q, p) \cap Stored(r, q, x) = {}
<1>1. PICK n \in Nat : n = Len(q) /\ DOMAIN q = 1 .. n
  BY LenProperties
<1>2. /\ \A y : At(r, q, o, y, 0) = r[y]
      /\ \A y : At(r, q, o, y, n + 1) = o[y]
  <2>1. n + 1 \notin DOMAIN q /\ n + 1 # 0
    BY <1>1
  <2> QED
    BY <2>1 DEF At
<1>3. \A i : \A j, k \in 0 .. n + 1 : j =< k /\ i \in At(r, q, o, p, j) /\ i \in At(r, q, o, x, k)
                               => \E m \in WritesOf(q, p) : j < m /\ m =< k
  BY <1>1 DEF Traceable, Parted, WritesOf
<1>4. \A i : \A j, k \in 0 .. n + 1 : j =< k /\ i \in At(r, q, o, x, j) /\ i \in At(r, q, o, p, k)
                               => \E m \in WritesOf(q, x) : j < m /\ m =< k
  BY <1>1 DEF Traceable, Parted, WritesOf
<1>5. WritesOf(q, p) \subseteq 1 .. n /\ WritesOf(q, x) \subseteq 1 .. n
  BY <1>1 DEF WritesOf
<1>6. PICK j \in 0 .. n : Stored(r, q, p) = At(r, q, o, p, j) /\ \A m \in WritesOf(q, p) : m =< j
  BY <1>1, LastClaim
<1>7. PICK k \in 0 .. n : Stored(r, q, x) = At(r, q, o, x, k) /\ \A m \in WritesOf(q, x) : m =< k
  BY <1>1, LastClaim
<1>8. j \in 0 .. n + 1 /\ k \in 0 .. n + 1 /\ n + 1 \in 0 .. n + 1 /\ 0 \in 0 .. n + 1 /\ j =< n + 1
      /\ 0 =< 0 /\ n + 1 =< n + 1
  OBVIOUS
<1>9. r[p] \cap r[x] = {}
  <2> SUFFICES ASSUME NEW i \in r[p] \cap r[x] PROVE FALSE
    OBVIOUS
  <2>1. PICK m \in WritesOf(q, p) : 0 < m /\ m =< 0
    BY <1>2, <1>3, <1>8
  <2> QED
    BY <1>5, <2>1
<1>10. o[p] \cap o[x] = {}
  <2> SUFFICES ASSUME NEW i \in o[p] \cap o[x] PROVE FALSE
    OBVIOUS
  <2>1. PICK m \in WritesOf(q, p) : n + 1 < m /\ m =< n + 1
    BY <1>2, <1>3, <1>8
  <2> QED
    BY <1>5, <2>1
<1>11. Stored(r, q, p) \cap o[x] = {}
  <2> SUFFICES ASSUME NEW i \in At(r, q, o, p, j) \cap At(r, q, o, x, n + 1) PROVE FALSE
    BY <1>2, <1>6
  <2>1. PICK m \in WritesOf(q, p) : j < m
    BY <1>3, <1>8
  <2>2. m =< j /\ m \in 1 .. n
    BY <1>5, <1>6
  <2> QED
    BY <2>1, <2>2
<1>12. Stored(r, q, p) \cap Stored(r, q, x) = {}
  <2> SUFFICES ASSUME NEW i \in At(r, q, o, p, j) \cap At(r, q, o, x, k) PROVE FALSE
    BY <1>6, <1>7
  <2>1. CASE j =< k
    <3>1. PICK m \in WritesOf(q, p) : j < m
      BY <1>3, <1>8, <2>1
    <3>2. m =< j /\ m \in 1 .. n
      BY <1>5, <1>6
    <3> QED
      BY <3>1, <3>2
  <2>2. CASE k =< j
    <3>1. PICK m \in WritesOf(q, x) : k < m
      BY <1>4, <1>8, <2>2
    <3>2. m =< k /\ m \in 1 .. n
      BY <1>5, <1>7
    <3> QED
      BY <3>1, <3>2
  <2> QED
    BY <2>1, <2>2
<1> QED
  BY <1>9, <1>10, <1>11, <1>12

\* Nothing is queued and nobody plays.
LEMMA TraceFresh ==
  ASSUME NEW r, NEW o, \A p \in Players : o[p] = {},
         \A p, x \in Players : p # x => r[p] \cap r[x] = {}
  PROVE  Traceable(r, <<>>, o)
<1>1. PICK q : q = <<>>
  OBVIOUS
<1>2. Len(q) = 0 /\ DOMAIN q = {}
  BY <1>1
<1>3. SUFFICES ASSUME NEW p \in Players, NEW x \in Players, NEW j \in 0 .. 1, NEW k \in 0 .. 1,
                      NEW i, p # x, j =< k, i \in At(r, q, o, p, j), i \in At(r, q, o, x, k)
               PROVE  FALSE
  <2>1. Len(q) + 1 = 1
    BY <1>2
  <2> QED
    BY <1>1, <2>1 DEF Traceable
<1>4. \A y \in Players : \A m \in 0 .. 1 : At(r, q, o, y, m) \subseteq r[y]
  BY <1>2 DEF At
<1> QED
  BY <1>3, <1>4

-----------------------------------------------------------------------------
(* An item that is firmly stored for p: in the rows, or in a trade, and in   *)
(* all that is written for p afterwards.                                     *)

Claims(r, q, p, i, k) == IF k = 0 THEN i \in r[p]
                         ELSE q[k].kind = "trade" /\ k \in WritesOf(q, p) /\ i \in q[k].rows[p]

Firm(r, q, p, i) == \E k \in 0 .. Len(q) : /\ Claims(r, q, p, i, k)
                                           /\ \A m \in WritesOf(q, p) : m > k => i \in q[m].rows[p]

LEMMA FirmSaved ==
  ASSUME NEW r, NEW q, NEW p, NEW i, Firm(r, q, p, i)
  PROVE  i \in r[p] \/ \E n \in DOMAIN q : p \in DOMAIN q[n].rows /\ i \in q[n].rows[p]
BY DEF Firm, Claims, WritesOf

LEMMA FirmRows ==
  ASSUME NEW T, NEW q \in Seq(T), NEW r, NEW p, NEW i \in r[p], WritesOf(q, p) = {}
  PROVE  Firm(r, q, p, i)
<1>1. 0 \in 0 .. Len(q)
  BY LenProperties
<1> QED
  BY <1>1 DEF Firm, Claims

LEMMA FirmTail ==
  ASSUME NEW T, NEW q \in Seq(T), q # <<>>, NEW r, NEW p \in Players, NEW i, Firm(r, q, p, i)
  PROVE  /\ Firm(Applied(r, Head(q)), Tail(q), p, i)
         /\ Head(q).kind # "trade" => Firm(r, Tail(q), p, i)
<1>1. PICK a \in Nat : /\ a = Len(q) /\ DOMAIN q = 1 .. a /\ DOMAIN Tail(q) = 1 .. a - 1 /\ a # 0
                       /\ Len(Tail(q)) = a - 1 /\ Head(q) = q[1]
  BY TailOf, EmptySeq
<1>2. PICK k \in 0 .. a : /\ Claims(r, q, p, i, k)
                          /\ \A m \in WritesOf(q, p) : m > k => i \in q[m].rows[p]
  BY <1>1 DEF Firm
<1>3. WritesOf(q, p) \subseteq 1 .. a /\ WritesOf(Tail(q), p) \subseteq 1 .. a - 1
  BY <1>1 DEF WritesOf
<1>4. ASSUME NEW K \in 0 .. a - 1, K = k - 1 \/ (k = 0 /\ K = 0)
      PROVE  \A m \in WritesOf(Tail(q), p) : m > K => i \in Tail(q)[m].rows[p]
  <2>1. SUFFICES ASSUME NEW m \in WritesOf(Tail(q), p), m > K PROVE i \in Tail(q)[m].rows[p]
    OBVIOUS
  <2>2. m + 1 \in WritesOf(q, p) /\ Tail(q)[m] = q[m + 1]
    BY TailWrites
  <2>3. m + 1 > k
    BY <1>3, <1>4, <2>1
  <2>4. 1 \in 1 .. a
    BY <2>2
  <2> QED
    BY <1>2, <2>2, <2>3, <2>4
<1>5. CASE k >= 2
  <2>1. k - 1 \in 0 .. Len(Tail(q)) /\ k - 1 # 0 /\ k # 0 /\ k # 1 /\ k - 1 \in 0 .. a - 1
    BY <1>1, <1>5
  <2>2. k - 1 \in WritesOf(Tail(q), p) /\ Tail(q)[k - 1] = q[k]
    BY <1>2, <2>1, TailWrites DEF Claims
  <2>3. \A x : Claims(x, Tail(q), p, i, k - 1)
    BY <1>2, <2>1, <2>2 DEF Claims
  <2> QED
    BY <1>4, <2>1, <2>3 DEF Firm
<1>6. CASE k = 1
  <2>1. Head(q).kind = "trade" /\ p \in DOMAIN Head(q).rows /\ i \in Head(q).rows[p]
    BY <1>1, <1>2, <1>6 DEF Claims, WritesOf
  <2>2. Claims(Applied(r, Head(q)), Tail(q), p, i, 0)
    BY <2>1 DEF Claims, Applied
  <2>3. 0 \in 0 .. Len(Tail(q)) /\ 0 \in 0 .. a - 1 /\ 0 = k - 1
    BY <1>1, <1>6
  <2> QED
    BY <1>4, <2>1, <2>2, <2>3 DEF Firm
<1>7. CASE k = 0
  <2>1. 0 \in 0 .. Len(Tail(q)) /\ 0 \in 0 .. a - 1
    BY <1>1
  <2>2. i \in r[p]
    BY <1>2, <1>7 DEF Claims
  <2>3. p \in DOMAIN Head(q).rows => i \in Head(q).rows[p]
    <3>1. p \in DOMAIN Head(q).rows => 1 \in WritesOf(q, p)
      BY TailWrites
    <3> QED
      BY <1>1, <1>2, <1>7, <3>1
  <2>4. i \in Applied(r, Head(q))[p]
    BY <2>2, <2>3 DEF Applied
  <2>5. Claims(Applied(r, Head(q)), Tail(q), p, i, 0) /\ Claims(r, Tail(q), p, i, 0)
    BY <2>2, <2>4 DEF Claims
  <2> QED
    BY <1>4, <1>7, <2>1, <2>5 DEF Firm
<1> QED
  BY <1>2, <1>5, <1>6, <1>7

LEMMA FirmGrow ==
  ASSUME NEW T, NEW q \in Seq(T), NEW s \in Seq(T), NEW r, NEW p, NEW i,
         \A j \in WritesOf(s, p) : i \in s[j].rows[p],
         Firm(r, q, p, i) \/ \E j \in WritesOf(s, p) : s[j].kind = "trade"
  PROVE  Firm(r, q \o s, p, i)
<1>0. PICK h : h = q \o s
  OBVIOUS
<1>1. PICK a \in Nat, b \in Nat : /\ a = Len(q) /\ b = Len(s) /\ DOMAIN q = 1 .. a /\ DOMAIN s = 1 .. b
                                  /\ h = q \o s /\ DOMAIN h = 1 .. a + b /\ Len(h) = a + b
  BY <1>0, Concat
<1>2. WritesOf(q, p) \subseteq 1 .. a /\ WritesOf(s, p) \subseteq 1 .. b
  BY <1>1 DEF WritesOf
<1>3. \A m \in WritesOf(q, p) : m \in WritesOf(h, p) /\ h[m] = q[m]
  BY <1>1, Concat DEF WritesOf
<1>4. \A j \in WritesOf(s, p) : a + j \in WritesOf(h, p) /\ h[a + j] = s[j]
  BY <1>1, Concat DEF WritesOf
<1>5. ASSUME NEW m \in WritesOf(h, p)
      PROVE  (m \in WritesOf(q, p) /\ h[m] = q[m]) \/ (i \in h[m].rows[p] /\ m > a)
  <2>1. m \in 1 .. a + b /\ p \in DOMAIN h[m].rows
    BY <1>1 DEF WritesOf
  <2>2. CASE m \in 1 .. a
    BY <1>1, <2>1, <2>2, Concat DEF WritesOf
  <2>3. CASE m \notin 1 .. a
    <3>1. m - a \in 1 .. b /\ a + (m - a) = m /\ m > a
      BY <2>1, <2>3
    <3>2. h[m] = s[m - a]
      BY <1>1, <3>1, Concat
    <3>3. m - a \in WritesOf(s, p)
      BY <1>1, <2>1, <3>1, <3>2 DEF WritesOf
    <3> QED
      BY <3>1, <3>2, <3>3
  <2> QED
    BY <2>2, <2>3
<1>6. CASE \E j \in WritesOf(s, p) : s[j].kind = "trade"
  <2>1. PICK j \in WritesOf(s, p) : s[j].kind = "trade"
    BY <1>6
  <2>2. a + j \in 0 .. a + b /\ a + j # 0 /\ a + j > a
    BY <1>2
  <2>3. Claims(r, h, p, i, a + j)
    BY <1>4, <2>1, <2>2 DEF Claims
  <2>4. \A m \in WritesOf(h, p) : m > a + j => i \in h[m].rows[p]
    <3> TAKE m \in WritesOf(h, p)
    <3>1. m \in WritesOf(q, p) => ~ m > a + j
      BY <1>2
    <3> QED
      BY <1>5, <3>1
  <2> QED
    BY <1>1, <2>2, <2>3, <2>4 DEF Firm
<1>7. CASE Firm(r, q, p, i)
  <2>1. PICK k \in 0 .. a : /\ Claims(r, q, p, i, k)
                            /\ \A m \in WritesOf(q, p) : m > k => i \in q[m].rows[p]
    BY <1>1, <1>7 DEF Firm
  <2>2. k \in 0 .. a + b
    OBVIOUS
  <2>3. Claims(r, h, p, i, k)
    BY <1>3, <2>1 DEF Claims
  <2>4. \A m \in WritesOf(h, p) : m > k => i \in h[m].rows[p]
    BY <1>5, <2>1
  <2> QED
    BY <1>1, <2>2, <2>3, <2>4 DEF Firm
<1> QED
  BY <1>6, <1>7

-----------------------------------------------------------------------------
(* The mailboxes of the channels.                                            *)

Taken(ev, c)  == [ev EXCEPT ![c] = Tail(@)]
Put(ev, c, s) == [ev EXCEPT ![c] = @ \o s]
Posted(ev, c, e) == [ev EXCEPT ![c] = Append(@, e)]

LEMMA TakenMail ==
  ASSUME NEW T, NEW ev \in [Channels -> Seq(T)], NEW c \in Channels, ev[c] # <<>>
  PROVE  /\ Taken(ev, c) \in [Channels -> Seq(T)]
         /\ Head(ev[c]) \in T /\ Head(ev[c]) \in Range(ev[c])
         /\ \A d \in Channels : Range(Taken(ev, c)[d]) \subseteq Range(ev[d])
         /\ \A d \in Channels : \A e \in Range(ev[d]) :
              e \in Range(Taken(ev, c)[d]) \/ (d = c /\ e = Head(ev[c]))
<1>1. ev[c] \in Seq(T)
  OBVIOUS
<1>2. /\ Tail(ev[c]) \in Seq(T) /\ Head(ev[c]) \in T
      /\ Range(ev[c]) = {Head(ev[c])} \cup Range(Tail(ev[c]))
  BY <1>1, TailOf
<1>3. Taken(ev, c) \in [Channels -> Seq(T)] /\ Taken(ev, c)[c] = Tail(ev[c])
      /\ \A d \in Channels : d # c => Taken(ev, c)[d] = ev[d]
  BY <1>2 DEF Taken
<1> QED
  BY <1>2, <1>3

LEMMA PutMail ==
  ASSUME NEW T, NEW ev \in [Channels -> Seq(T)], NEW c \in Channels, NEW s \in Seq(T)
  PROVE  /\ Put(ev, c, s) \in [Channels -> Seq(T)]
         /\ Put(ev, c, s)[c] = ev[c] \o s
         /\ \A d \in Channels : d # c => Put(ev, c, s)[d] = ev[d]
         /\ \A d \in Channels : Range(ev[d]) \subseteq Range(Put(ev, c, s)[d])
         /\ \A d \in Channels : \A e \in Range(Put(ev, c, s)[d]) :
              e \in Range(ev[d]) \/ (d = c /\ e \in Range(s))
         /\ Range(s) \subseteq Range(Put(ev, c, s)[c])
<1>1. ev[c] \in Seq(T)
  OBVIOUS
<1>2. ev[c] \o s \in Seq(T) /\ Range(ev[c] \o s) = Range(ev[c]) \cup Range(s)
  BY <1>1, Concat
<1>3. Put(ev, c, s) \in [Channels -> Seq(T)] /\ Put(ev, c, s)[c] = ev[c] \o s
      /\ \A d \in Channels : d # c => Put(ev, c, s)[d] = ev[d]
  BY <1>2 DEF Put
<1> QED
  BY <1>2, <1>3

LEMMA One ==
  ASSUME NEW T, NEW e \in T
  PROVE  /\ <<e>> \in Seq(T) /\ DOMAIN <<e>> = {1} /\ <<e>>[1] = e /\ Range(<<e>>) = {e}
         /\ Len(<<e>>) = 1
<1>1. PICK s : s = <<e>>
  OBVIOUS
<1>2. s \in Seq(T) /\ Len(s) = 1 /\ DOMAIN s = 1 .. 1 /\ s[1] = e
  BY <1>1
<1>3. DOMAIN s = {1}
  BY <1>2
<1>4. Range(s) = {e}
  BY <1>2, <1>3 DEF Range
<1> QED
  BY <1>1, <1>2, <1>3, <1>4

LEMMA PostedIsPut ==
  ASSUME NEW T, NEW ev \in [Channels -> Seq(T)], NEW c \in Channels, NEW e \in T
  PROVE  Posted(ev, c, e) = Put(ev, c, <<e>>)
<1>1. Append(ev[c], e) = ev[c] \o <<e>>
  BY AppendIsConcat
<1> QED
  BY <1>1 DEF Put, Posted

\* A login asks for one load and gets one answer.
Asks(cmd, p, n) == cmd.kind = "load" /\ cmd.who = p /\ cmd.sid[p] = n
Brings(e, p, n) == e.kind = "loaded" /\ e.who = p /\ e.sid = n

OnceAsked(q) == \A i, j \in DOMAIN q : \A p, n : Asks(q[i], p, n) /\ Asks(q[j], p, n) => i = j

SameLoad(e, f) == \E p, n : Brings(e, p, n) /\ Brings(f, p, n)

OnceBrought(ev) == \A c, d \in Channels : \A i \in DOMAIN ev[c] : \A j \in DOMAIN ev[d] :
                     SameLoad(ev[c][i], ev[d][j]) => c = d /\ i = j

NotBoth(q, ev) ==
  \A cmd \in Range(q) : \A c \in Channels : \A e \in Range(ev[c]) : \A p, n :
    ~ (Asks(cmd, p, n) /\ Brings(e, p, n))

LEMMA AskedTail ==
  ASSUME NEW T, NEW q \in Seq(T), q # <<>>, OnceAsked(q)
  PROVE  /\ OnceAsked(Tail(q))
         /\ \A p, n : Asks(Head(q), p, n) => \A cmd \in Range(Tail(q)) : ~ Asks(cmd, p, n)
<1>1. PICK a \in Nat : /\ a = Len(q) /\ DOMAIN q = 1 .. a /\ DOMAIN Tail(q) = 1 .. a - 1 /\ a # 0
                       /\ Head(q) = q[1]
  BY TailOf, EmptySeq
<1>2. \A k \in 1 .. a - 1 : k + 1 \in 1 .. a /\ Tail(q)[k] = q[k + 1] /\ k + 1 # 1
  BY <1>1, TailOf
<1>3. OnceAsked(Tail(q))
  <2>1. SUFFICES ASSUME NEW i \in 1 .. a - 1, NEW j \in 1 .. a - 1, NEW p, NEW n,
                        Asks(Tail(q)[i], p, n), Asks(Tail(q)[j], p, n)
                 PROVE  i = j
    BY <1>1 DEF OnceAsked
  <2>2. i + 1 = j + 1
    BY <1>1, <1>2, <2>1 DEF OnceAsked
  <2> QED
    BY <2>2
<1>4. \A p, n : Asks(Head(q), p, n) => \A k \in 1 .. a - 1 : ~ Asks(Tail(q)[k], p, n)
  <2>1. 1 \in 1 .. a
    BY <1>1
  <2> QED
    BY <1>1, <1>2, <2>1 DEF OnceAsked
<1> QED
  BY <1>1, <1>3, <1>4 DEF Range

LEMMA AskedGrow ==
  ASSUME NEW T, NEW q \in Seq(T), NEW s \in Seq(T), OnceAsked(q), OnceAsked(s),
         \A x \in Range(q) : \A y \in Range(s) : \A p, n : ~ (Asks(x, p, n) /\ Asks(y, p, n))
  PROVE  OnceAsked(q \o s)
<1>1. PICK h : h = q \o s
  OBVIOUS
<1>2. PICK a \in Nat, b \in Nat : a = Len(q) /\ DOMAIN q = 1 .. a /\ DOMAIN s = 1 .. b /\ DOMAIN h = 1 .. a + b
  BY <1>1, Concat
<1>3. \A k \in 1 .. a + b : \/ k \in 1 .. a /\ h[k] = q[k]
                            \/ k - a \in 1 .. b /\ h[k] = s[k - a]
  <2> TAKE k \in 1 .. a + b
  <2>1. CASE k \in 1 .. a
    BY <1>1, <1>2, <2>1, Concat
  <2>2. CASE k \notin 1 .. a
    <3>1. k - a \in 1 .. b /\ a + (k - a) = k
      BY <2>2
    <3> QED
      BY <1>1, <1>2, <3>1, Concat
  <2> QED
    BY <2>1, <2>2
<1>4. SUFFICES ASSUME NEW i \in 1 .. a + b, NEW j \in 1 .. a + b, NEW p, NEW n,
                      Asks(h[i], p, n), Asks(h[j], p, n)
               PROVE  i = j
  BY <1>1, <1>2 DEF OnceAsked
<1>5. CASE i \in 1 .. a /\ h[i] = q[i] /\ j \in 1 .. a /\ h[j] = q[j]
  BY <1>2, <1>4, <1>5 DEF OnceAsked
<1>6. CASE i - a \in 1 .. b /\ h[i] = s[i - a] /\ j - a \in 1 .. b /\ h[j] = s[j - a]
  <2>1. i - a = j - a
    BY <1>2, <1>4, <1>6 DEF OnceAsked
  <2> QED
    BY <2>1
<1>7. CASE i \in 1 .. a /\ h[i] = q[i] /\ j - a \in 1 .. b /\ h[j] = s[j - a]
  BY <1>2, <1>4, <1>7 DEF Range
<1>8. CASE i - a \in 1 .. b /\ h[i] = s[i - a] /\ j \in 1 .. a /\ h[j] = q[j]
  BY <1>2, <1>4, <1>8 DEF Range
<1> QED
  BY <1>3, <1>5, <1>6, <1>7, <1>8

LEMMA BroughtTaken ==
  ASSUME NEW T, NEW ev \in [Channels -> Seq(T)], NEW c \in Channels, ev[c] # <<>>, OnceBrought(ev)
  PROVE  /\ OnceBrought(Taken(ev, c))
         /\ \A p, n : Brings(Head(ev[c]), p, n) =>
              \A d \in Channels : \A e \in Range(Taken(ev, c)[d]) : ~ Brings(e, p, n)
<1>1. PICK w : w = Taken(ev, c)
  OBVIOUS
<1>2. ev[c] \in Seq(T) /\ w[c] = Tail(ev[c]) /\ \A d \in Channels : d # c => w[d] = ev[d]
  BY <1>1 DEF Taken
<1>3. PICK a \in Nat : /\ DOMAIN ev[c] = 1 .. a /\ DOMAIN w[c] = 1 .. a - 1 /\ a # 0
                       /\ Head(ev[c]) = ev[c][1] /\ 1 \in 1 .. a
  <2>1. PICK a \in Nat : a = Len(ev[c])
    BY <1>2, LenProperties
  <2>2. a # 0
    BY <1>2, <2>1, EmptySeq
  <2>3. DOMAIN ev[c] = 1 .. a /\ DOMAIN Tail(ev[c]) = 1 .. a - 1 /\ Head(ev[c]) = ev[c][1]
    BY <1>2, <2>1, TailOf
  <2>4. 1 \in 1 .. a
    BY <2>2
  <2> QED
    BY <1>2, <2>2, <2>3, <2>4
<1>4. \A k \in 1 .. a - 1 : k + 1 \in 1 .. a /\ w[c][k] = ev[c][k + 1] /\ k + 1 # 1
  BY <1>2, <1>3, TailOf
\* Where an event lay before the first one was taken.
<1>5. ASSUME NEW d \in Channels, NEW i \in DOMAIN w[d]
      PROVE  \E k \in DOMAIN ev[d] : /\ ev[d][k] = w[d][i] /\ k = (IF d = c THEN i + 1 ELSE i)
                                     /\ (d = c => k # 1 /\ i \in Int)
  <2>1. CASE d = c
    BY <1>3, <1>4, <1>5, <2>1
  <2>2. CASE d # c
    BY <1>2, <1>5, <2>2
  <2> QED
    BY <2>1, <2>2
<1>6. OnceBrought(w)
  <2>1. SUFFICES ASSUME NEW d \in Channels, NEW f \in Channels, NEW i \in DOMAIN w[d], NEW j \in DOMAIN w[f],
                        SameLoad(w[d][i], w[f][j])
                 PROVE  d = f /\ i = j
    BY DEF OnceBrought
  <2>2. PICK k \in DOMAIN ev[d] : /\ ev[d][k] = w[d][i] /\ k = (IF d = c THEN i + 1 ELSE i)
                                  /\ (d = c => i \in Int)
    BY <1>5
  <2>3. PICK m \in DOMAIN ev[f] : /\ ev[f][m] = w[f][j] /\ m = (IF f = c THEN j + 1 ELSE j)
                                  /\ (f = c => j \in Int)
    BY <1>5
  <2>4. d = f /\ k = m
    BY <2>1, <2>2, <2>3 DEF OnceBrought
  <2>5. CASE d = c
    BY <2>2, <2>3, <2>4, <2>5
  <2>6. CASE d # c
    BY <2>2, <2>3, <2>4, <2>6
  <2> QED
    BY <2>4, <2>5, <2>6
<1>7. ASSUME NEW p, NEW n, Brings(Head(ev[c]), p, n), NEW d \in Channels, NEW i \in DOMAIN w[d]
      PROVE  ~ Brings(w[d][i], p, n)
  <2>1. PICK k \in DOMAIN ev[d] : ev[d][k] = w[d][i] /\ (d = c => k # 1)
    BY <1>5
  <2> QED
    BY <1>3, <1>7, <2>1 DEF OnceBrought, SameLoad
<1> QED
  BY <1>1, <1>6, <1>7 DEF Range

LEMMA BroughtPut ==
  ASSUME NEW T, NEW ev \in [Channels -> Seq(T)], NEW c \in Channels, NEW s \in Seq(T), OnceBrought(ev),
         \A i, j \in DOMAIN s : \A p, n : Brings(s[i], p, n) /\ Brings(s[j], p, n) => i = j,
         \A e \in Range(s) : \A d \in Channels : \A x \in Range(ev[d]) : \A p, n :
           ~ (Brings(e, p, n) /\ Brings(x, p, n))
  PROVE  OnceBrought(Put(ev, c, s))
<1>1. PICK w : w = Put(ev, c, s)
  OBVIOUS
<1>2. ev[c] \in Seq(T) /\ w[c] = ev[c] \o s /\ \A d \in Channels : d # c => w[d] = ev[d]
  <2>1. Put(ev, c, s)[c] = ev[c] \o s /\ \A d \in Channels : d # c => Put(ev, c, s)[d] = ev[d]
    BY DEF Put
  <2> QED
    BY <1>1, <2>1
<1>3. PICK a \in Nat, b \in Nat : a = Len(ev[c]) /\ DOMAIN ev[c] = 1 .. a /\ DOMAIN s = 1 .. b /\ DOMAIN w[c] = 1 .. a + b
  BY <1>2, Concat
<1>4. \A k \in 1 .. a + b : \/ k \in 1 .. a /\ w[c][k] = ev[c][k]
                            \/ k - a \in 1 .. b /\ w[c][k] = s[k - a]
  <2> TAKE k \in 1 .. a + b
  <2>1. CASE k \in 1 .. a
    BY <1>2, <1>3, <2>1, Concat
  <2>2. CASE k \notin 1 .. a
    <3>1. k - a \in 1 .. b /\ a + (k - a) = k
      BY <2>2
    <3> QED
      BY <1>2, <1>3, <3>1, Concat
  <2> QED
    BY <2>1, <2>2
<1>5. ASSUME NEW d \in Channels, NEW i \in DOMAIN w[d]
      PROVE  \/ i \in DOMAIN ev[d] /\ w[d][i] = ev[d][i]
             \/ d = c /\ i - a \in DOMAIN s /\ w[d][i] = s[i - a] /\ i \in Int
  <2>1. CASE d = c
    BY <1>3, <1>4, <1>5, <2>1
  <2>2. CASE d # c
    BY <1>2, <1>5, <2>2
  <2> QED
    BY <2>1, <2>2
<1>6. SUFFICES ASSUME NEW d \in Channels, NEW f \in Channels, NEW i \in DOMAIN w[d], NEW j \in DOMAIN w[f],
                      SameLoad(w[d][i], w[f][j])
               PROVE  d = f /\ i = j
  BY <1>1 DEF OnceBrought
<1>7. CASE i \in DOMAIN ev[d] /\ w[d][i] = ev[d][i]
  <2>1. CASE j \in DOMAIN ev[f] /\ w[f][j] = ev[f][j]
    BY <1>6, <1>7, <2>1 DEF OnceBrought
  <2>2. CASE f = c /\ j - a \in DOMAIN s /\ w[f][j] = s[j - a]
    BY <1>6, <1>7, <2>2 DEF Range, SameLoad
  <2> QED
    BY <1>5, <2>1, <2>2
<1>8. CASE d = c /\ i - a \in DOMAIN s /\ w[d][i] = s[i - a] /\ i \in Int
  <2>1. CASE j \in DOMAIN ev[f] /\ w[f][j] = ev[f][j]
    BY <1>6, <1>8, <2>1 DEF Range, SameLoad
  <2>2. CASE f = c /\ j - a \in DOMAIN s /\ w[f][j] = s[j - a] /\ j \in Int
    <3>1. i - a = j - a
      BY <1>6, <1>8, <2>2 DEF SameLoad
    <3> QED
      BY <1>8, <2>2, <3>1
  <2> QED
    BY <1>5, <2>1, <2>2
<1> QED
  BY <1>5, <1>7, <1>8

-----------------------------------------------------------------------------
(* The inductive invariant.                                                  *)

\* What players hold in memory.
Memory == [p \in Players |-> IF stage[p] = "playing" THEN inv[p] ELSE {}]

\* A load writes nothing; any other command names the sessions of those whom it writes.
WellFormed(cmd) ==
  IF cmd.kind = "load" THEN DOMAIN cmd.rows = {} /\ DOMAIN cmd.sid = {cmd.who} /\ cmd.reply \in Channels
                       ELSE DOMAIN cmd.sid = DOMAIN cmd.rows

\* No message is of a session that is still to come.
CommandOf(cmd, v) == WellFormed(cmd) /\ \A x \in DOMAIN cmd.sid : cmd.sid[x] =< v[x]
CommandsSound == \A cmd \in Range(queue) : CommandOf(cmd, sid)
EventsSound == \A c \in Channels : \A e \in Range(events[c]) : e.sid =< sid[e.who]

\* Enter jobs lie where the player is, and are gone when the jobs of the tick begin.
EnterOf(c, e) == /\ phase[c] \in {"events", "draining"}
                 /\ stage[e.who] # "out" /\ e.sid = sid[e.who] => c = home[e.who]
EntersSound == \A c \in Channels : \A e \in Range(events[c]) : e.kind = "enter" => EnterOf(c, e)

LoadsSound == OnceAsked(queue) /\ OnceBrought(events) /\ NotBoth(queue, events)

\* Session n of p, with home h, waits for its load: the load comes after all writes of p, and
\* its answer still is what the rows hold.
Behind(q, p, n, h) ==
  \A k \in DOMAIN q : Asks(q[k], p, n) => q[k].reply = h /\ \A m \in WritesOf(q, p) : m < k
Fresh(q, ev, r, p, n, h) ==
  \A c \in Channels : \A e \in Range(ev[c]) :
    Brings(e, p, n) => c = h /\ WritesOf(q, p) = {} /\ e.items = r[p]
Waits(p) == stage[p] = "loading" => /\ Behind(queue, p, sid[p], home[p])
                                    /\ Fresh(queue, events, row, p, sid[p], home[p])

\* Nothing will load a player again.
NoLoad(q, ev, p, n) == /\ \A cmd \in Range(q) : ~ Asks(cmd, p, n)
                       /\ \A c \in Channels : \A e \in Range(ev[c]) : ~ Brings(e, p, n)
Plays(p) == stage[p] = "playing" => NoLoad(queue, events, p, sid[p])

Calls(e, p, n)  == e.kind \in {"enter", "arrive"} /\ e.who = p /\ e.sid = n
Warns(e, p, n)  == e.kind = "saveFailed" /\ e.who = p /\ e.sid = n

\* The channel that may still act for p.
Active(p) == stage[p] = "playing" /\ phase[home[p]] # "stopped"

\* A player is in the maps of his channel, or an event will put him there.
OnMaps(p) == /\ grid[p] # Nowhere => grid[p] = home[p]
             /\ Active(p) => \/ grid[p] = home[p]
                             \/ \E e \in Range(events[home[p]]) : Calls(e, p, sid[p])

\* The last queued write of p is of this session and will tell this channel if it fails.
Followed(q, p, n, h) == \A k : Final(q, p, k) => q[k].reply = h /\ q[k].sid[p] = n
Kept(p) == Active(p) => \/ dirty[p]
                        \/ \E e \in Range(events[home[p]]) : Warns(e, p, sid[p])
                        \/ /\ inv[p] = Stored(row, queue, p)
                           /\ Followed(queue, p, sid[p], home[p])

\* What a character left with is, or will be, in his rows.
Rests(p) == (stage[p] = "playing" => phase[home[p]] = "stopped" /\ p \notin late)
            => (WritesOf(queue, p) # {} \/ p \notin failed => inv[p] = Stored(row, queue, p))

PlayerSound(p) == Waits(p) /\ Plays(p) /\ OnMaps(p) /\ Kept(p) /\ Rests(p)
PlayersSound == \A p \in Players : PlayerSound(p)

ItemsTraced == torn = {} => Traceable(row, queue, Memory)
GroundFirm  == torn = {} => \A p \in Players : \A i \in ground \cap Memory[p] : Firm(row, queue, p, i)

IInv == /\ TypeOK
        /\ CommandsSound /\ EventsSound /\ EntersSound /\ LoadsSound
        /\ PlayersSound
        /\ ItemsTraced /\ GroundFirm

-----------------------------------------------------------------------------
(* What growing and shrinking queues and mailboxes do to its parts.          *)

LEMMA BehindGrow ==
  ASSUME NEW T, NEW q \in Seq(T), NEW s \in Seq(T), NEW p, NEW n, NEW h, Behind(q, p, n, h),
         WritesOf(s, p) = {}, \A cmd \in Range(s) : ~ Asks(cmd, p, n)
  PROVE  Behind(q \o s, p, n, h)
<1>1. WritesOf(q \o s, p) = WritesOf(q, p)
  BY GrowSame
<1>2. SUFFICES ASSUME NEW k \in DOMAIN (q \o s), Asks((q \o s)[k], p, n)
               PROVE  (q \o s)[k].reply = h /\ \A m \in WritesOf(q, p) : m < k
  BY <1>1 DEF Behind
<1>3. CASE k \in DOMAIN q
  <2>1. (q \o s)[k] = q[k]
    BY <1>3, Concat
  <2> QED
    BY <1>2, <1>3, <2>1 DEF Behind
<1>4. CASE k \notin DOMAIN q
  <2>1. k - Len(q) \in DOMAIN s /\ Len(q) + (k - Len(q)) = k
    BY <1>4, Concat
  <2>2. (q \o s)[k] = s[k - Len(q)]
    BY <2>1, Concat
  <2> QED
    BY <1>2, <2>1, <2>2 DEF Range
<1> QED
  BY <1>3, <1>4

\* A new load comes last.
LEMMA BehindLoad ==
  ASSUME NEW T, NEW q \in Seq(T), NEW cmd \in T, NEW p, NEW n,
         \A x \in Range(q) : ~ Asks(x, p, n), DOMAIN cmd.rows = {}
  PROVE  Behind(q \o <<cmd>>, p, n, cmd.reply)
<1>1. PICK s : s = <<cmd>>
  OBVIOUS
<1>2. s \in Seq(T) /\ DOMAIN s = {1} /\ s[1] = cmd
  BY <1>1, One
<1>3. WritesOf(s, p) = {}
  BY <1>2 DEF WritesOf
<1>4. WritesOf(q \o s, p) = WritesOf(q, p)
  BY ZenonT(60), <1>2, <1>3, GrowSame
<1>5. PICK a \in Nat : a = Len(q) /\ DOMAIN q = 1 .. a
  BY LenProperties
<1>6. SUFFICES ASSUME NEW k \in DOMAIN (q \o s), Asks((q \o s)[k], p, n)
               PROVE  (q \o s)[k].reply = cmd.reply /\ \A m \in WritesOf(q, p) : m < k
  BY <1>1, <1>4 DEF Behind
<1>7. CASE k \in DOMAIN q
  BY <1>2, <1>6, <1>7, Concat DEF Range
<1>8. CASE k \notin DOMAIN q
  <2>0. DOMAIN (q \o s) = 1 .. a + Len(s) /\ Len(s) \in Nat /\ k - Len(q) \in DOMAIN s
    BY <1>2, <1>5, <1>8, Concat
  <2>1. k - a \in DOMAIN s /\ k \in Int
    BY <1>5, <2>0
  <2>2. k = a + 1
    BY <1>2, <2>1
  <2>3. (q \o s)[k] = cmd
    BY <1>2, <1>5, <2>2, Concat
  <2>4. \A m \in WritesOf(q, p) : m < k
    BY <1>5, <2>2 DEF WritesOf
  <2> QED
    BY <2>3, <2>4
<1> QED
  BY <1>7, <1>8

LEMMA BehindTail ==
  ASSUME NEW T, NEW q \in Seq(T), q # <<>>, NEW p, NEW n, NEW h, Behind(q, p, n, h)
  PROVE  /\ Behind(Tail(q), p, n, h)
         /\ Asks(Head(q), p, n) => Head(q).reply = h /\ WritesOf(q, p) = {}
<1>1. PICK a \in Nat : DOMAIN q = 1 .. a /\ DOMAIN Tail(q) = 1 .. a - 1
  BY TailOf
<1>2. WritesOf(q, p) \subseteq 1 .. a /\ WritesOf(Tail(q), p) \subseteq 1 .. a - 1
  BY <1>1 DEF WritesOf
<1>3. ASSUME NEW k \in 1 .. a - 1, Asks(Tail(q)[k], p, n)
      PROVE  Tail(q)[k].reply = h /\ \A m \in WritesOf(Tail(q), p) : m < k
  <2>1. k + 1 \in DOMAIN q /\ Tail(q)[k] = q[k + 1]
    BY <1>1, TailOf
  <2>2. q[k + 1].reply = h /\ \A m \in WritesOf(q, p) : m < k + 1
    BY <1>3, <2>1 DEF Behind
  <2>3. ASSUME NEW m \in WritesOf(Tail(q), p) PROVE m < k
    <3>1. m + 1 \in WritesOf(q, p)
      BY TailWrites
    <3>2. m + 1 < k + 1
      BY <2>2, <3>1
    <3> QED
      BY <1>2, <3>2
  <2> QED
    BY <2>1, <2>2, <2>3
<1>4. ASSUME Asks(Head(q), p, n) PROVE Head(q).reply = h /\ WritesOf(q, p) = {}
  <2>1. 1 \in DOMAIN q /\ Head(q) = q[1]
    BY TailOf
  <2>2. q[1].reply = h /\ \A m \in WritesOf(q, p) : m < 1
    BY <1>4, <2>1 DEF Behind
  <2>3. \A m \in WritesOf(q, p) : ~ m < 1
    BY <1>2
  <2> QED
    BY <2>1, <2>2, <2>3
<1> QED
  BY <1>1, <1>3, <1>4 DEF Behind

LEMMA WritesTail ==
  ASSUME NEW T, NEW q \in Seq(T), q # <<>>, NEW p, WritesOf(q, p) = {}
  PROVE  WritesOf(Tail(q), p) = {} /\ p \notin DOMAIN Head(q).rows
BY TailWrites

LEMMA FollowedTail ==
  ASSUME NEW T, NEW q \in Seq(T), q # <<>>, NEW p, NEW n, NEW h, Followed(q, p, n, h)
  PROVE  Followed(Tail(q), p, n, h)
<1> SUFFICES ASSUME NEW k, Final(Tail(q), p, k) PROVE Tail(q)[k].reply = h /\ Tail(q)[k].sid[p] = n
  BY DEF Followed
<1>1. Final(q, p, k + 1) /\ Tail(q)[k] = q[k + 1]
  BY TailFinal
<1> QED
  BY <1>1 DEF Followed

LEMMA FollowedSame ==
  ASSUME NEW T, NEW q \in Seq(T), NEW s \in Seq(T), NEW p, NEW n, NEW h, Followed(q, p, n, h),
         WritesOf(s, p) = {}
  PROVE  Followed(q \o s, p, n, h)
<1> SUFFICES ASSUME NEW k, Final(q \o s, p, k)
             PROVE  (q \o s)[k].reply = h /\ (q \o s)[k].sid[p] = n
  BY DEF Followed
<1>1. Final(q, p, k)
  BY GrowSame
<1>2. k \in DOMAIN q
  BY <1>1 DEF Final, WritesOf
<1> QED
  BY <1>1, <1>2, Concat DEF Followed

LEMMA FollowedNew ==
  ASSUME NEW T, NEW q \in Seq(T), NEW s \in Seq(T), NEW p, NEW n, NEW h, WritesOf(s, p) # {},
         \A j \in WritesOf(s, p) : s[j].reply = h /\ s[j].sid[p] = n
  PROVE  Followed(q \o s, p, n, h)
<1> SUFFICES ASSUME NEW k, Final(q \o s, p, k)
             PROVE  (q \o s)[k].reply = h /\ (q \o s)[k].sid[p] = n
  BY DEF Followed
<1>1. EndsIn(q \o s, s, p)
  BY GrowFinal
<1> QED
  BY <1>1 DEF EndsIn

-----------------------------------------------------------------------------
(* The messages of the model.                                                *)

LEMMA CommandFacts ==
  ASSUME NEW cmd \in Command
  PROVE  /\ cmd.kind \in {"save", "trade", "load"} /\ cmd.who \in Players
         /\ cmd.reply \in Channels \cup {Nowhere}
         /\ DOMAIN cmd.rows \subseteq Players /\ DOMAIN cmd.sid \subseteq Players
         /\ \A x \in DOMAIN cmd.rows : cmd.rows[x] \in SUBSET Items
         /\ \A x \in DOMAIN cmd.sid : cmd.sid[x] \in LoginNumbers
<1>1. /\ cmd.kind \in {"save", "trade", "load"} /\ cmd.who \in Players
      /\ cmd.reply \in Channels \cup {Nowhere}
      /\ cmd.sid \in UNION {[S -> LoginNumbers] : S \in SUBSET Players}
      /\ cmd.rows \in UNION {[S -> SUBSET Items] : S \in SUBSET Players}
  BY DEF Command
<1>2. PICK S \in SUBSET Players : cmd.sid \in [S -> LoginNumbers]
  BY <1>1
<1>3. PICK R \in SUBSET Players : cmd.rows \in [R -> SUBSET Items]
  BY <1>1
<1> QED
  BY <1>1, <1>2, <1>3

LEMMA MakeCommand ==
  ASSUME NEW k \in {"save", "trade", "load"}, NEW p \in Players, NEW c \in Channels \cup {Nowhere},
         NEW S \in SUBSET Players, NEW R \in SUBSET Players,
         NEW v \in [S -> LoginNumbers], NEW w \in [R -> SUBSET Items]
  PROVE  [kind |-> k, who |-> p, sid |-> v, rows |-> w, reply |-> c] \in Command
<1>1. v \in UNION {[X -> LoginNumbers] : X \in SUBSET Players}
  OBVIOUS
<1>2. w \in UNION {[X -> SUBSET Items] : X \in SUBSET Players}
  OBVIOUS
<1> QED
  BY <1>1, <1>2 DEF Command

LEMMA LoginNumbersInNat == LoginNumbers \subseteq Nat
  BY SavingAssumption DEF LoginNumbers

LEMMA EventFacts ==
  ASSUME NEW e \in Event
  PROVE  e.who \in Players /\ e.sid \in LoginNumbers /\ e.sid \in Nat /\ e.items \in SUBSET Items
BY LoginNumbersInNat DEF Event

\* A save of p with these items, as the session of p sends it.
IsSave(cmd, p, items, n, c) ==
  /\ cmd.kind = "save" /\ cmd.who = p /\ cmd.reply = c
  /\ DOMAIN cmd.sid = {p} /\ cmd.sid[p] = n
  /\ DOMAIN cmd.rows = {p} /\ cmd.rows[p] = items

LEMMA SaveFacts ==
  ASSUME NEW p \in Players, NEW items \in SUBSET Items, NEW c \in Channels \cup {Nowhere},
         sid \in [Players -> LoginNumbers]
  PROVE  Save(p, items, c) \in Command /\ IsSave(Save(p, items, c), p, items, sid[p], c)
<1>1. [x \in {p} |-> sid[x]] \in [{p} -> LoginNumbers] /\ [x \in {p} |-> items] \in [{p} -> SUBSET Items]
  OBVIOUS
<1>2. Save(p, items, c) \in Command
  BY <1>1, MakeCommand DEF Save
<1> QED
  BY <1>2 DEF Save, IsSave

LEMMA SavesFacts ==
  ASSUME NEW S \in SUBSET Players, NEW c \in Channels \cup {Nowhere},
         sid \in [Players -> LoginNumbers], inv \in [Players -> SUBSET Items]
  PROVE  /\ SeqOfSaves(S, c) \in Seq(Command)
         /\ \A k \in DOMAIN SeqOfSaves(S, c) : \E p \in S : IsSave(SeqOfSaves(S, c)[k], p, inv[p], sid[p], c)
         /\ \A p \in S : \E k \in DOMAIN SeqOfSaves(S, c) : IsSave(SeqOfSaves(S, c)[k], p, inv[p], sid[p], c)
<1>1. IsFiniteSet(S)
  BY SavingAssumption, FS_Subset
<1>2. PICK o : o = SetToSeq(S)
  OBVIOUS
<1>3. o \in Seq(S) /\ Range(o) = S
  BY <1>1, <1>2, OrderOf
<1>4. PICK a \in Nat : DOMAIN o = 1 .. a
  BY <1>3, LenProperties
<1>5. \A k \in 1 .. a : o[k] \in S
  BY <1>3, <1>4 DEF Range
<1>6. PICK h : h = [k \in DOMAIN o |-> Save(o[k], inv[o[k]], c)]
  OBVIOUS
<1>7. SeqOfSaves(S, c) = h
  BY <1>2, <1>6 DEF SeqOfSaves
<1>8. \A k \in 1 .. a : h[k] \in Command /\ IsSave(h[k], o[k], inv[o[k]], sid[o[k]], c)
  <2> TAKE k \in 1 .. a
  <2>1. o[k] \in Players /\ inv[o[k]] \in SUBSET Items
    BY <1>5
  <2>2. h[k] = Save(o[k], inv[o[k]], c)
    BY <1>4, <1>6
  <2> QED
    BY <2>1, <2>2, SaveFacts
<1>9. h \in [1 .. a -> Command]
  BY <1>4, <1>6, <1>8
<1>10. h \in Seq(Command) /\ DOMAIN h = 1 .. a
  BY <1>9
<1>11. \A p \in S : \E k \in 1 .. a : o[k] = p
  BY <1>3, <1>4 DEF Range
<1> QED
  BY <1>5, <1>7, <1>8, <1>10, <1>11

\* What such a sequence of saves writes.
LEMMA SavesWrite ==
  ASSUME NEW S, NEW s, NEW c, NEW v, NEW n,
         \A k \in DOMAIN s : \E p \in S : IsSave(s[k], p, v[p], n[p], c),
         \A p \in S : \E k \in DOMAIN s : IsSave(s[k], p, v[p], n[p], c)
  PROVE  /\ \A p : p \notin S => WritesOf(s, p) = {}
         /\ \A p \in S : WritesOf(s, p) # {}
         /\ \A p : \A k \in WritesOf(s, p) : IsSave(s[k], p, v[p], n[p], c)
         /\ \A k \in DOMAIN s : \A p \in DOMAIN s[k].rows : p \in S /\ IsSave(s[k], p, v[p], n[p], c)
<1>1. \A k \in DOMAIN s : \A p \in DOMAIN s[k].rows : p \in S /\ IsSave(s[k], p, v[p], n[p], c)
  BY DEF IsSave
<1>2. \A p \in S : \E k \in DOMAIN s : p \in DOMAIN s[k].rows
  BY DEF IsSave
<1> QED
  BY <1>1, <1>2 DEF WritesOf

LEMMA NoticesFacts ==
  ASSUME NEW cmd \in Command, DOMAIN cmd.sid = DOMAIN cmd.rows
  PROVE  /\ Notices(cmd) \in Seq(Event)
         /\ \A e \in Range(Notices(cmd)) :
              e.kind = "saveFailed" /\ e.who \in DOMAIN cmd.rows /\ e.sid = cmd.sid[e.who]
         /\ \A p \in DOMAIN cmd.rows : \E e \in Range(Notices(cmd)) : Warns(e, p, cmd.sid[p])
<1>1. PICK S \in SUBSET Players : S = DOMAIN cmd.rows /\ S = Writes(cmd)
  BY CommandFacts DEF Writes
<1>2. IsFiniteSet(S)
  BY SavingAssumption, FS_Subset
<1>3. PICK o : o = SetToSeq(S)
  OBVIOUS
<1>4. o \in Seq(S) /\ Range(o) = S
  BY <1>2, <1>3, OrderOf
<1>5. PICK a \in Nat : DOMAIN o = 1 .. a
  BY <1>4, LenProperties
<1>6. \A k \in 1 .. a : o[k] \in S
  BY <1>4, <1>5 DEF Range
<1>7. PICK h : h = [k \in DOMAIN o |-> [kind |-> "saveFailed", who |-> o[k], sid |-> cmd.sid[o[k]], items |-> {}]]
  OBVIOUS
<1>8. Notices(cmd) = h
  BY <1>1, <1>3, <1>7 DEF Notices
<1>9. \A k \in 1 .. a : /\ h[k] = [kind |-> "saveFailed", who |-> o[k], sid |-> cmd.sid[o[k]], items |-> {}]
                        /\ h[k] \in Event
  <2> TAKE k \in 1 .. a
  <2>1. o[k] \in Players /\ cmd.sid[o[k]] \in LoginNumbers
    BY <1>1, <1>6, CommandFacts
  <2>2. h[k] = [kind |-> "saveFailed", who |-> o[k], sid |-> cmd.sid[o[k]], items |-> {}]
    BY <1>5, <1>7
  <2> QED
    BY <2>1, <2>2 DEF Event
<1>10. h \in [1 .. a -> Event]
  BY <1>5, <1>7, <1>9
<1>11. h \in Seq(Event) /\ DOMAIN h = 1 .. a
  BY <1>10
<1>12. \A p \in S : \E k \in 1 .. a : o[k] = p
  BY <1>4, <1>5 DEF Range
<1>13. \A k \in 1 .. a : h[k].kind = "saveFailed" /\ h[k].who = o[k] /\ h[k].sid = cmd.sid[o[k]]
  <2> TAKE k \in 1 .. a
  <2>1. h[k] = [kind |-> "saveFailed", who |-> o[k], sid |-> cmd.sid[o[k]], items |-> {}]
    BY <1>9
  <2> QED
    BY <2>1
<1> QED
  BY SMTT(60), <1>1, <1>6, <1>8, <1>11, <1>12, <1>13 DEF Range, Warns

LEMMA EvFacts ==
  ASSUME NEW p \in Players, sid \in [Players -> LoginNumbers],
         NEW k \in {"loaded", "loadFailed", "enter", "arrive", "leave", "saveFailed"}
  PROVE  /\ Ev(k, p) \in Event
         /\ Ev(k, p).kind = k /\ Ev(k, p).who = p /\ Ev(k, p).sid = sid[p]
BY DEF Ev, Event

\* Loads and answers for one character and session.
LEMMA FreshPut ==
  ASSUME NEW T, NEW ev \in [Channels -> Seq(T)], NEW c \in Channels, NEW s \in Seq(T),
         NEW q, NEW r, NEW p, NEW n, NEW h, Fresh(q, ev, r, p, n, h),
         \A e \in Range(s) : Brings(e, p, n) => c = h /\ WritesOf(q, p) = {} /\ e.items = r[p]
  PROVE  Fresh(q, Put(ev, c, s), r, p, n, h)
<1>1. PICK w : w = Put(ev, c, s)
  OBVIOUS
<1>2. \A d \in Channels : \A e \in Range(w[d]) : e \in Range(ev[d]) \/ (d = c /\ e \in Range(s))
  BY <1>1, PutMail
<1> QED
  BY <1>1, <1>2 DEF Fresh

LEMMA FreshQueue ==
  ASSUME NEW q, NEW q2, NEW ev, NEW r, NEW r2, NEW p, NEW n, NEW h, Fresh(q, ev, r, p, n, h),
         WritesOf(q, p) = {} => WritesOf(q2, p) = {} /\ r2[p] = r[p]
  PROVE  Fresh(q2, ev, r2, p, n, h)
BY DEF Fresh

-----------------------------------------------------------------------------
(* Steps that take events and add others that neither load nor enter.        *)

Calm(ev, ev2, v) ==
  \A c \in Channels : \A e \in Range(ev2[c]) :
    e \in Range(ev[c]) \/ (e.kind \notin {"loaded", "enter"} /\ e.sid =< v[e.who])

\* Every event but e, if it lay at c, is still there.
Keeps(ev, ev2, c, e) ==
  \A d \in Channels : \A f \in Range(ev[d]) : f \in Range(ev2[d]) \/ (d = c /\ f = e)

LEMMA CalmTaken ==
  ASSUME NEW T, NEW ev \in [Channels -> Seq(T)], NEW c \in Channels, ev[c] # <<>>, OnceBrought(ev),
         NEW v
  PROVE  /\ Taken(ev, c) \in [Channels -> Seq(T)]
         /\ Calm(ev, Taken(ev, c), v) /\ OnceBrought(Taken(ev, c))
         /\ Keeps(ev, Taken(ev, c), c, Head(ev[c]))
<1>1. PICK w : w = Taken(ev, c)
  OBVIOUS
<1>2. /\ w \in [Channels -> Seq(T)]
      /\ \A d \in Channels : Range(w[d]) \subseteq Range(ev[d])
      /\ \A d \in Channels : \A e \in Range(ev[d]) : e \in Range(w[d]) \/ (d = c /\ e = Head(ev[c]))
  BY <1>1, TakenMail
<1>3. OnceBrought(w)
  BY <1>1, BroughtTaken
<1>4. Calm(ev, w, v)
  BY <1>2 DEF Calm
<1>5. Keeps(ev, w, c, Head(ev[c]))
  BY <1>2 DEF Keeps
<1> QED
  BY <1>1, <1>2, <1>3, <1>4, <1>5

LEMMA CalmPut ==
  ASSUME NEW T, NEW ev, NEW ev1 \in [Channels -> Seq(T)], NEW c \in Channels, NEW s \in Seq(T),
         NEW v, NEW d, NEW f, Calm(ev, ev1, v), OnceBrought(ev1), Keeps(ev, ev1, d, f),
         \A e \in Range(s) : e.kind \notin {"loaded", "enter"} /\ e.sid =< v[e.who]
  PROVE  /\ Put(ev1, c, s) \in [Channels -> Seq(T)]
         /\ Calm(ev, Put(ev1, c, s), v) /\ OnceBrought(Put(ev1, c, s))
         /\ Keeps(ev, Put(ev1, c, s), d, f)
<1>1. PICK w : w = Put(ev1, c, s)
  OBVIOUS
<1>2. /\ w \in [Channels -> Seq(T)]
      /\ \A x \in Channels : Range(ev1[x]) \subseteq Range(w[x])
      /\ \A x \in Channels : \A e \in Range(w[x]) : e \in Range(ev1[x]) \/ (x = c /\ e \in Range(s))
  BY <1>1, PutMail
<1>3. \A e \in Range(s) : \A p, n : ~ Brings(e, p, n)
  BY DEF Brings
<1>4. \A i \in DOMAIN s : s[i] \in Range(s)
  BY DEF Range
<1>5. OnceBrought(w)
  BY <1>1, <1>3, <1>4, BroughtPut
<1>6. Calm(ev, w, v)
  BY <1>2 DEF Calm
<1>7. Keeps(ev, w, d, f)
  BY <1>2 DEF Keeps
<1> QED
  BY <1>1, <1>2, <1>5, <1>6, <1>7

LEMMA CalmItself ==
  ASSUME NEW ev, NEW v, NEW c, NEW e
  PROVE  Calm(ev, ev, v) /\ Keeps(ev, ev, c, e)
BY DEF Calm, Keeps

LEMMA MailSound ==
  ASSUME IInv, Calm(events, events', sid), OnceBrought(events'),
         UNCHANGED <<queue, row, sid, stage, home, phase>>
  PROVE  /\ CommandsSound' /\ EventsSound' /\ EntersSound' /\ LoadsSound'
         /\ \A p \in Players : Waits(p)' /\ Plays(p)'
<1>1. CommandsSound'
  BY DEF IInv, CommandsSound
<1>2. EventsSound'
  BY DEF IInv, EventsSound, Calm
<1>3. EntersSound'
  BY DEF IInv, EntersSound, EnterOf, Calm
<1>4. NotBoth(queue, events')
  BY DEF IInv, LoadsSound, NotBoth, Calm, Brings
<1>5. LoadsSound'
  BY <1>4 DEF IInv, LoadsSound
<1>6. ASSUME NEW p \in Players PROVE Waits(p)' /\ Plays(p)'
  <2>1. Waits(p) /\ Plays(p)
    BY DEF IInv, PlayersSound, PlayerSound
  <2>2. Waits(p)'
    BY <2>1 DEF Waits, Fresh, Calm, Brings
  <2>3. Plays(p)'
    BY <2>1 DEF Plays, NoLoad, Calm, Brings
  <2> QED
    BY <2>2, <2>3
<1> QED
  BY <1>1, <1>2, <1>3, <1>5, <1>6

LEMMA MemorySame ==
  ASSUME UNCHANGED <<stage, inv>>
  PROVE  Memory' = Memory
BY DEF Memory

LEMMA StoreSound ==
  ASSUME IInv, UNCHANGED <<queue, row, torn, stage, inv, ground>>
  PROVE  ItemsTraced' /\ GroundFirm'
BY MemorySame DEF IInv, ItemsTraced, GroundFirm

LEMMA RestsSame ==
  ASSUME IInv, NEW p \in Players, UNCHANGED <<queue, row, failed, late, stage, home, inv, phase>>
  PROVE  Rests(p)'
BY DEF IInv, PlayersSound, PlayerSound, Rests

\* Only the mail changes, and it loses nothing that a player is waiting for.
LEMMA MailOnly ==
  ASSUME IInv, Calm(events, events', sid), OnceBrought(events'), NEW c, NEW f,
         Keeps(events, events', c, f),
         \A p \in Players : Active(p) /\ home[p] = c => ~ Calls(f, p, sid[p]) /\ ~ Warns(f, p, sid[p]),
         events' \in [Channels -> Seq(Event)], online' \in [Players -> BOOLEAN],
         UNCHANGED <<server, phase, dbVars, sid, stage, home, grid, inv, dirty, ground, late>>
  PROVE  IInv'
<1>1. TypeOK'
  BY DEF IInv, TypeOK, dbVars
<1>2. UNCHANGED <<queue, row, sid, stage, home, phase, torn, failed, late, inv, grid, dirty, ground>>
  BY DEF dbVars
<1>3. /\ CommandsSound' /\ EventsSound' /\ EntersSound' /\ LoadsSound'
      /\ \A p \in Players : Waits(p)' /\ Plays(p)'
  BY <1>2, MailSound
<1>4. ItemsTraced' /\ GroundFirm'
  BY <1>2, StoreSound
<1>5. ASSUME NEW p \in Players PROVE OnMaps(p)' /\ Kept(p)' /\ Rests(p)'
  <2>1. OnMaps(p) /\ Kept(p) /\ (Active(p)' <=> Active(p))
    BY <1>2 DEF IInv, PlayersSound, PlayerSound, Active
  <2>2. Active(p) => home[p] \in Channels
    BY SavingAssumption DEF IInv, TypeOK, Active
  <2>3. Rests(p)'
    BY <1>2, RestsSame
  <2>4. OnMaps(p)'
    BY <1>2, <2>1, <2>2 DEF OnMaps, Keeps
  <2>5. Kept(p)'
    BY <1>2, <2>1, <2>2 DEF Kept, Keeps
  <2> QED
    BY <2>3, <2>4, <2>5
<1> QED
  BY <1>1, <1>3, <1>4, <1>5 DEF IInv, PlayersSound, PlayerSound

LEMMA EventsTyped == IInv => /\ events \in [Channels -> Seq(Event)] /\ queue \in Seq(Command)
                             /\ sid \in [Players -> LoginNumbers]
                             /\ \A p \in Players : sid[p] \in Nat
                             /\ OnceBrought(events)
BY LoginNumbersInNat DEF IInv, TypeOK, LoadsSound

LEMMA HomeOfPresent ==
  ASSUME IInv, NEW p \in Players, stage[p] # "out"
  PROVE  home[p] \in Channels
BY DEF IInv, TypeOK

\* A leave notice is posted.
LEMMA LeavePosted ==
  ASSUME IInv, NEW ev \in [Channels -> Seq(Event)], NEW c, NEW f, NEW p \in Players,
         NEW d \in Channels, Calm(events, ev, sid), OnceBrought(ev), Keeps(events, ev, c, f)
  PROVE  LET w == Posted(ev, d, Ev("leave", p)) IN
         w \in [Channels -> Seq(Event)] /\ Calm(events, w, sid) /\ OnceBrought(w) /\ Keeps(events, w, c, f)
<1>1. PICK e \in Event : e = Ev("leave", p) /\ e.kind = "leave" /\ e.who = p /\ e.sid = sid[p]
  BY EventsTyped, EvFacts
<1>2. <<e>> \in Seq(Event) /\ \A x \in Range(<<e>>) : x.kind \notin {"loaded", "enter"} /\ x.sid =< sid[x.who]
  <2>1. <<e>> \in Seq(Event) /\ Range(<<e>>) = {e}
    BY One
  <2>2. sid[p] \in Nat
    BY EventsTyped
  <2> QED
    BY <1>1, <2>1, <2>2
<1>3. Posted(ev, d, e) = Put(ev, d, <<e>>)
  BY PostedIsPut
<1>4. PICK s \in Seq(Event) : /\ s = <<e>>
                             /\ \A x \in Range(s) : x.kind \notin {"loaded", "enter"} /\ x.sid =< sid[x.who]
  BY <1>2
<1>5. PICK w : w = Put(ev, d, s)
  OBVIOUS
<1>6. w \in [Channels -> Seq(Event)] /\ Calm(events, w, sid) /\ OnceBrought(w) /\ Keeps(events, w, c, f)
  BY <1>4, <1>5, CalmPut
<1> QED
  BY <1>1, <1>3, <1>4, <1>5, <1>6

LEMMA HangupKeeps ==
  ASSUME IInv, NEW p \in Players, Hangup(p)
  PROVE  IInv'
<1>1. CASE home[p] \in Channels
  <2>1. PICK c \in Channels : c = home[p]
    BY <1>1
  <2>2. events' = Posted(events, c, Ev("leave", p))
    BY <2>1 DEF Hangup, Disconnect, Post, Posted
  <2>3. /\ events' \in [Channels -> Seq(Event)] /\ Calm(events, events', sid) /\ OnceBrought(events')
        /\ Keeps(events, events', c, Ev("leave", p))
    BY <2>2, EventsTyped, CalmItself, LeavePosted
  <2>4. Ev("leave", p).kind = "leave"
    BY EvFacts, EventsTyped
  <2>5. online' \in [Players -> BOOLEAN]
    BY DEF Hangup, Disconnect, IInv, TypeOK
  <2> QED
    BY <2>3, <2>4, <2>5, MailOnly DEF Hangup, Calls, Warns
<1>2. CASE home[p] \notin Channels
  <2>1. events' = events /\ online' \in [Players -> BOOLEAN]
    BY <1>2 DEF Hangup, Disconnect, Post, IInv, TypeOK
  <2>2. PICK f : f = Ev("leave", p) /\ f.kind = "leave"
    BY EvFacts, EventsTyped
  <2>3. /\ events' \in [Channels -> Seq(Event)] /\ Calm(events, events', sid) /\ OnceBrought(events')
        /\ Keeps(events, events', Nowhere, f)
    BY <2>1, EventsTyped, CalmItself
  <2> QED
    BY <2>1, <2>2, <2>3, MailOnly DEF Hangup, Calls, Warns
<1> QED
  BY <1>1, <1>2

\* What a channel takes is the oldest of its events.
LEMMA TakeFacts ==
  ASSUME IInv, NEW c \in Channels, NEW k, Take(c, k)
  PROVE  /\ events[c] # <<>> /\ Head(events[c]) \in Event /\ Head(events[c]) \in Range(events[c])
         /\ Head(events[c]).kind = k
         /\ Who(c) \in Players /\ Who(c) = Head(events[c]).who
         /\ phase[c] \in {"events", "draining"}
         /\ Rest(c) = Taken(events, c)
         /\ Rest(c) \in [Channels -> Seq(Event)] /\ Calm(events, Rest(c), sid) /\ OnceBrought(Rest(c))
         /\ Keeps(events, Rest(c), c, Head(events[c]))
<1>1. events[c] # <<>> /\ Head(events[c]).kind = k /\ phase[c] \in {"events", "draining"}
  BY DEF Take
<1>2. Head(events[c]) \in Event /\ Head(events[c]) \in Range(events[c])
  BY <1>1, EventsTyped, TakenMail
<1>3. Rest(c) = Taken(events, c)
  BY DEF Rest, Taken
<1>4. /\ Taken(events, c) \in [Channels -> Seq(Event)] /\ Calm(events, Taken(events, c), sid)
      /\ OnceBrought(Taken(events, c)) /\ Keeps(events, Taken(events, c), c, Head(events[c]))
  BY <1>1, EventsTyped, CalmTaken
<1>5. Who(c) = Head(events[c]).who /\ Who(c) \in Players
  BY <1>2, EventFacts DEF Who
<1> QED
  BY <1>1, <1>2, <1>3, <1>4, <1>5

LEMMA LoadFailedKeeps ==
  ASSUME IInv, NEW c \in Channels, LoadFailed(c)
  PROVE  IInv'
<1>1. Take(c, "loadFailed")
  BY DEF LoadFailed
<1>2. PICK f : f = Head(events[c]) /\ f.kind = "loadFailed"
  BY <1>1, TakeFacts
<1>3. PICK p \in Players : p = Who(c)
  BY <1>1, TakeFacts
<1>4. /\ Rest(c) \in [Channels -> Seq(Event)] /\ Calm(events, Rest(c), sid) /\ OnceBrought(Rest(c))
      /\ Keeps(events, Rest(c), c, f)
  BY <1>1, <1>2, TakeFacts
<1>5. /\ events' \in [Channels -> Seq(Event)] /\ Calm(events, events', sid) /\ OnceBrought(events')
      /\ Keeps(events, events', c, f) /\ online' \in [Players -> BOOLEAN]
  <2>1. CASE Session(c) /\ online[Who(c)]
    <3>1. home[p] \in Channels
      BY <1>3, <2>1, HomeOfPresent DEF Session
    <3>2. events' = Posted(Rest(c), home[p], Ev("leave", p))
          /\ online' = [online EXCEPT ![p] = FALSE]
      BY <1>3, <2>1 DEF LoadFailed, Posted
    <3>3. online' \in [Players -> BOOLEAN]
      BY <3>2 DEF IInv, TypeOK
    <3> QED
      BY <1>4, <3>1, <3>2, <3>3, LeavePosted
  <2>2. CASE ~ (Session(c) /\ online[Who(c)])
    <3>1. events' = Rest(c) /\ online' = online
      BY <2>2 DEF LoadFailed
    <3> QED
      BY <1>4, <3>1 DEF IInv, TypeOK
  <2> QED
    BY <2>1, <2>2
<1> QED
  BY <1>2, <1>5, MailOnly DEF LoadFailed, Calls, Warns

LEMMA StaleEnterKeeps ==
  ASSUME IInv, NEW c \in Channels, StaleEnter(c)
  PROVE  IInv'
<1>1. PICK k \in {"enter", "arrive"} : Take(c, k)
  BY DEF StaleEnter
<1>2. PICK f : f = Head(events[c]) /\ f.kind = k /\ f.who = Who(c)
  BY <1>1, TakeFacts
<1>3. ~ (HasPlayer(c) /\ home[Who(c)] = c)
  BY <1>1 DEF StaleEnter, Take
<1>4. events' = Rest(c) /\ UNCHANGED <<server, phase, dbVars, playerVars, ground, late>>
  BY DEF StaleEnter
<1>5. UNCHANGED <<sid, online, stage, home, grid, inv, dirty>> /\ online' \in [Players -> BOOLEAN]
  BY <1>4 DEF playerVars, IInv, TypeOK
<1>6. /\ events' \in [Channels -> Seq(Event)] /\ Calm(events, events', sid) /\ OnceBrought(events')
      /\ Keeps(events, events', c, f)
  BY <1>1, <1>2, <1>4, TakeFacts
<1>7. ASSUME NEW p \in Players, Active(p), home[p] = c
      PROVE  ~ Calls(f, p, sid[p]) /\ ~ Warns(f, p, sid[p])
  <2>1. ~ Warns(f, p, sid[p])
    BY <1>2 DEF Warns
  <2>2. Calls(f, p, sid[p]) => HasPlayer(c) /\ home[Who(c)] = c
    BY <1>2, <1>7 DEF Calls, HasPlayer, Session, Active, Who
  <2> QED
    BY <1>3, <2>1, <2>2
<1> QED
  BY <1>4, <1>5, <1>6, <1>7, MailOnly

LEMMA RerouteKeeps ==
  ASSUME IInv, NEW c \in Channels, Reroute(c)
  PROVE  IInv'
<1>1. Take(c, "leave")
  BY DEF Reroute
<1>2. PICK f \in Event : f = Head(events[c]) /\ f.kind = "leave" /\ f.who = Who(c) /\ f \in Range(events[c])
  BY <1>1, TakeFacts
<1>3. /\ Rest(c) \in [Channels -> Seq(Event)] /\ Calm(events, Rest(c), sid) /\ OnceBrought(Rest(c))
      /\ Keeps(events, Rest(c), c, f)
  BY <1>1, <1>2, TakeFacts
<1>4. /\ events' \in [Channels -> Seq(Event)] /\ Calm(events, events', sid) /\ OnceBrought(events')
      /\ Keeps(events, events', c, f)
  <2>1. CASE Session(c)
    <3>1. PICK d \in Channels : d = home[Who(c)]
      BY <1>1, <2>1, HomeOfPresent, TakeFacts DEF Session
    <3>2. events' = Posted(Rest(c), d, f)
      BY <1>2, <2>1, <3>1 DEF Reroute, Posted
    <3>3. events' = Put(Rest(c), d, <<f>>)
      BY <1>3, <3>2, PostedIsPut
    <3>4. f.sid =< sid[f.who]
      BY <1>2 DEF IInv, EventsSound
    <3>5. <<f>> \in Seq(Event) /\ \A x \in Range(<<f>>) : x.kind \notin {"loaded", "enter"} /\ x.sid =< sid[x.who]
      <4>1. <<f>> \in Seq(Event) /\ Range(<<f>>) = {f}
        BY One
      <4> QED
        BY <1>2, <3>4, <4>1
    <3> QED
      BY <1>3, <3>3, <3>5, CalmPut
  <2>2. CASE ~ Session(c)
    BY <1>3, <2>2 DEF Reroute
  <2> QED
    BY <2>1, <2>2
<1>5. UNCHANGED <<server, phase, dbVars, playerVars, ground, late>>
  BY DEF Reroute
<1>6. UNCHANGED <<sid, online, stage, home, grid, inv, dirty>> /\ online' \in [Players -> BOOLEAN]
  BY <1>5 DEF playerVars, IInv, TypeOK
<1> QED
  BY <1>2, <1>4, <1>5, <1>6, MailOnly DEF Calls, Warns

\* Events are taken; grid and dirty may change.
LEMMA EnterKeeps ==
  ASSUME IInv, NEW c \in Channels, Enter(c)
  PROVE  IInv'
<1>1. PICK k \in {"enter", "arrive"} : Take(c, k) /\ HasPlayer(c) /\ (k = "arrive" => home[Who(c)] = c)
  BY DEF Enter
<1>2. PICK f \in Event : /\ f = Head(events[c]) /\ f.kind = k /\ f.who = Who(c) /\ f \in Range(events[c])
                         /\ events' = Rest(c)
  BY <1>1, TakeFacts DEF Enter
<1>3. PICK p \in Players : p = Who(c) /\ stage[p] = "playing" /\ sid[p] = f.sid
  BY <1>1, <1>2, TakeFacts DEF HasPlayer, Session
<1>4. home[p] = c
  BY <1>1, <1>2, <1>3 DEF IInv, EntersSound, EnterOf
<1>5. grid' = [grid EXCEPT ![p] = c]
      /\ UNCHANGED <<server, phase, dbVars, sid, online, stage, home, inv, dirty, ground, late>>
  BY <1>3 DEF Enter
<1>6. UNCHANGED <<queue, row, torn, failed, faults>>
  BY <1>5 DEF dbVars
<1>7. /\ events' \in [Channels -> Seq(Event)] /\ Calm(events, events', sid) /\ OnceBrought(events')
      /\ Keeps(events, events', c, f)
  BY <1>1, <1>2, TakeFacts
<1>8. TypeOK'
  BY <1>3, <1>5, <1>6, <1>7 DEF IInv, TypeOK
<1>9. /\ CommandsSound' /\ EventsSound' /\ EntersSound' /\ LoadsSound'
      /\ \A x \in Players : Waits(x)' /\ Plays(x)'
  BY <1>5, <1>6, <1>7, MailSound
<1>10. ItemsTraced' /\ GroundFirm'
  BY <1>5, <1>6, StoreSound
<1>11. ASSUME NEW x \in Players PROVE OnMaps(x)' /\ Kept(x)' /\ Rests(x)'
  <2>1. OnMaps(x) /\ Kept(x) /\ (Active(x)' <=> Active(x))
    BY <1>5 DEF IInv, PlayersSound, PlayerSound, Active
  <2>2. Active(x) => home[x] \in Channels
    BY HomeOfPresent DEF Active
  <2>3. Rests(x)'
    BY <1>5, <1>6, RestsSame
  <2>4. ~ Warns(f, x, sid[x]) /\ (x # p => ~ Calls(f, x, sid[x]))
    BY <1>2, <1>3 DEF Warns, Calls
  <2>5. Kept(x)'
    BY <1>5, <1>6, <1>7, <2>1, <2>2, <2>4 DEF Kept, Keeps
  <2>6. CASE x = p
    <3>1. grid'[p] = home'[p]
      BY <1>4, <1>5 DEF IInv, TypeOK
    <3> QED
      BY <2>3, <2>5, <2>6, <3>1 DEF OnMaps
  <2>7. CASE x # p
    <3>1. grid'[x] = grid[x]
      BY <1>5, <2>7 DEF IInv, TypeOK
    <3>2. OnMaps(x)'
      BY <1>5, <1>7, <2>1, <2>2, <2>4, <2>7, <3>1 DEF OnMaps, Keeps
    <3> QED
      BY <2>3, <2>5, <3>2
  <2> QED
    BY <2>6, <2>7
<1> QED
  BY <1>8, <1>9, <1>10, <1>11 DEF IInv, PlayersSound, PlayerSound

LEMMA SaveFailedKeeps ==
  ASSUME IInv, NEW c \in Channels, SaveFailed(c)
  PROVE  IInv'
<1>1. Take(c, "saveFailed")
  BY DEF SaveFailed
<1>2. PICK f \in Event : /\ f = Head(events[c]) /\ f.kind = "saveFailed" /\ f.who = Who(c)
                         /\ events' = Rest(c)
  BY <1>1, TakeFacts DEF SaveFailed
<1>3. PICK p \in Players : p = Who(c)
  BY <1>1, TakeFacts
<1>4. UNCHANGED <<server, phase, dbVars, sid, online, stage, home, grid, inv, ground, late>>
  BY DEF SaveFailed
<1>5. UNCHANGED <<queue, row, torn, failed, faults>>
  BY <1>4 DEF dbVars
<1>6. /\ dirty' \in [Players -> BOOLEAN]
      /\ \A x \in Players : dirty[x] => dirty'[x]
      /\ HasPlayer(c) /\ home[p] = c => dirty'[p]
  BY <1>3 DEF SaveFailed, IInv, TypeOK
<1>7. /\ events' \in [Channels -> Seq(Event)] /\ Calm(events, events', sid) /\ OnceBrought(events')
      /\ Keeps(events, events', c, f)
  BY <1>1, <1>2, TakeFacts
<1>8. TypeOK'
  BY <1>4, <1>5, <1>6, <1>7 DEF IInv, TypeOK
<1>9. /\ CommandsSound' /\ EventsSound' /\ EntersSound' /\ LoadsSound'
      /\ \A x \in Players : Waits(x)' /\ Plays(x)'
  BY <1>4, <1>5, <1>7, MailSound
<1>10. ItemsTraced' /\ GroundFirm'
  BY <1>4, <1>5, StoreSound
<1>11. ASSUME NEW x \in Players PROVE OnMaps(x)' /\ Kept(x)' /\ Rests(x)'
  <2>1. OnMaps(x) /\ Kept(x) /\ (Active(x)' <=> Active(x))
    BY <1>4 DEF IInv, PlayersSound, PlayerSound, Active
  <2>2. Active(x) => home[x] \in Channels
    BY HomeOfPresent DEF Active
  <2>3. Rests(x)'
    BY <1>4, <1>5, RestsSame
  <2>4. ~ Calls(f, x, sid[x])
    BY <1>2 DEF Calls
  <2>5. OnMaps(x)'
    BY <1>4, <1>7, <2>1, <2>2, <2>4 DEF OnMaps, Keeps
  <2>6. Active(x) /\ home[x] = c /\ Warns(f, x, sid[x]) => dirty'[x]
    BY <1>2, <1>3, <1>6 DEF Active, Warns, HasPlayer, Session
  <2>7. Kept(x)'
    BY <1>4, <1>5, <1>6, <1>7, <2>1, <2>2, <2>6 DEF Kept, Keeps
  <2> QED
    BY <2>3, <2>5, <2>7
<1> QED
  BY <1>8, <1>9, <1>10, <1>11 DEF IInv, PlayersSound, PlayerSound

-----------------------------------------------------------------------------
(* Steps of the tick and of the shutdown that leave messages and players     *)
(* alone.                                                                    *)

\* What is left to show when only phases change, and no channel stops.
LEMMA PhasesOnly ==
  ASSUME IInv, server' \in {"up", "closed", "stopping"},
         phase' \in [Channels -> {"events", "jobs", "draining", "stopped"}],
         \A c \in Channels : phase'[c] = "stopped" <=> phase[c] = "stopped",
         \A c \in Channels : events[c] = <<>> \/ phase'[c] = phase[c] \/ phase'[c] \in {"events", "draining"},
         UNCHANGED <<events, dbVars, playerVars, ground, late>>
  PROVE  IInv'
<1>1. UNCHANGED <<queue, row, torn, failed, faults, sid, online, stage, home, grid, inv, dirty>>
  BY DEF dbVars, playerVars
<1>2. TypeOK'
  BY <1>1 DEF IInv, TypeOK
<1>3. CommandsSound' /\ EventsSound' /\ LoadsSound'
  BY <1>1 DEF IInv, CommandsSound, EventsSound, LoadsSound
<1>4. EntersSound'
  <2>1. \A c \in Channels : events[c] = <<>> => Range(events[c]) = {}
    BY DEF Range
  <2>2. SUFFICES ASSUME NEW c \in Channels, NEW e \in Range(events[c]), e.kind = "enter"
                 PROVE  EnterOf(c, e)'
    BY DEF EntersSound
  <2>3. EnterOf(c, e)
    BY <2>2 DEF IInv, EntersSound
  <2>4. phase'[c] \in {"events", "draining"}
    BY <2>1, <2>2, <2>3 DEF EnterOf
  <2> QED
    BY <1>1, <2>3, <2>4 DEF EnterOf
<1>5. ItemsTraced' /\ GroundFirm'
  BY <1>1, StoreSound
<1>6. ASSUME NEW p \in Players PROVE PlayerSound(p)'
  <2>1. stage[p] = "playing" => home[p] \in Channels
    BY HomeOfPresent
  <2>2. (Active(p)' <=> Active(p)) /\ (stage[p] = "playing" => (phase'[home[p]] = "stopped" <=> phase[home[p]] = "stopped"))
    BY <1>1, <2>1 DEF Active
  <2>3. PlayerSound(p)
    BY DEF IInv, PlayersSound
  <2>4. Waits(p)' /\ Plays(p)'
    BY <1>1, <2>3 DEF PlayerSound, Waits, Plays
  <2>5. OnMaps(p)' /\ Kept(p)'
    BY <1>1, <2>2, <2>3 DEF PlayerSound, OnMaps, Kept
  <2>6. Rests(p)'
    BY <1>1, <2>2, <2>3 DEF PlayerSound, Rests
  <2> QED
    BY <2>4, <2>5, <2>6 DEF PlayerSound
<1> QED
  BY <1>2, <1>3, <1>4, <1>5, <1>6 DEF IInv, PlayersSound

LEMMA BeginJobsKeeps ==
  ASSUME IInv, NEW c \in Channels, BeginJobs(c)
  PROVE  IInv'
<1>1. /\ phase[c] = "events" /\ events[c] = <<>> /\ phase' = [phase EXCEPT ![c] = "jobs"]
      /\ UNCHANGED <<server, events, dbVars, playerVars, ground, late>>
  BY DEF BeginJobs
<1>2. /\ phase' \in [Channels -> {"events", "jobs", "draining", "stopped"}]
      /\ server' \in {"up", "closed", "stopping"}
      /\ phase'[c] = "jobs" /\ \A d \in Channels : d # c => phase'[d] = phase[d]
  BY <1>1 DEF IInv, TypeOK
<1> QED
  BY <1>1, <1>2, PhasesOnly

LEMMA ClosingKeeps ==
  ASSUME IInv, Close \/ StopChannels
  PROVE  IInv'
<1>1. /\ phase' = phase /\ server' \in {"up", "closed", "stopping"}
      /\ UNCHANGED <<events, dbVars, playerVars, ground, late>>
  BY DEF Close, StopChannels
<1>2. phase' \in [Channels -> {"events", "jobs", "draining", "stopped"}]
  BY <1>1 DEF IInv, TypeOK
<1> QED
  BY <1>1, <1>2, PhasesOnly

-----------------------------------------------------------------------------
(* Sessions.                                                                 *)

\* A load that nobody waits for any more.
LEMMA StaleLoadedKeeps ==
  ASSUME IInv, NEW c \in Channels, Loaded(c), ~ Session(c)
  PROVE  IInv'
<1>1. Take(c, "loaded")
  BY DEF Loaded
<1>2. PICK f : f = Head(events[c]) /\ f.kind = "loaded"
  BY <1>1, TakeFacts
<1>3. /\ events' = Rest(c) /\ UNCHANGED <<stage, inv, dirty>>
      /\ UNCHANGED <<server, phase, dbVars, sid, online, home, grid, ground, late>>
  BY DEF Loaded
<1>4. /\ events' \in [Channels -> Seq(Event)] /\ Calm(events, events', sid) /\ OnceBrought(events')
      /\ Keeps(events, events', c, f)
  BY <1>1, <1>2, <1>3, TakeFacts
<1>5. online' \in [Players -> BOOLEAN]
  BY <1>3 DEF IInv, TypeOK
<1> QED
  BY <1>2, <1>3, <1>4, <1>5, MailOnly DEF Calls, Warns

\* The load a session waits for: its rows are what the load brings.
LEMMA LoadedKeeps ==
  ASSUME IInv, NEW c \in Channels, Loaded(c), Session(c)
  PROVE  IInv'
<1>1. Take(c, "loaded")
  BY DEF Loaded
<1>2. PICK f \in Event : /\ f = Head(events[c]) /\ f.kind = "loaded" /\ f.who = Who(c)
                         /\ f \in Range(events[c]) /\ f.items \in SUBSET Items
  BY <1>1, TakeFacts, EventFacts
<1>3. PICK p \in Players : p = Who(c) /\ stage[p] # "out" /\ sid[p] = f.sid
  BY <1>1, <1>2, TakeFacts DEF Session
<1>4. Brings(f, p, sid[p])
  BY <1>2, <1>3 DEF Brings
<1>5. stage[p] = "loading"
  <2>1. Plays(p) /\ stage[p] \in {"out", "loading", "playing"}
    BY DEF IInv, PlayersSound, PlayerSound, TypeOK
  <2> QED
    BY <1>2, <1>3, <1>4, <2>1 DEF Plays, NoLoad
<1>6. c = home[p] /\ WritesOf(queue, p) = {} /\ f.items = row[p]
  <2>1. Waits(p)
    BY DEF IInv, PlayersSound, PlayerSound
  <2> QED
    BY <1>2, <1>4, <1>5, <2>1 DEF Waits, Fresh
<1>7. PICK e \in Event : e = Ev("enter", p) /\ e.kind = "enter" /\ e.who = p /\ e.sid = sid[p]
  BY EventsTyped, EvFacts
<1>8. PICK w \in [Channels -> Seq(Event)] :
         /\ w = Rest(c) /\ w = Taken(events, c) /\ Calm(events, w, sid) /\ OnceBrought(w)
         /\ Keeps(events, w, c, f)
  BY <1>1, <1>2, TakeFacts
<1>9. /\ stage' = [stage EXCEPT ![p] = "playing"] /\ inv' = [inv EXCEPT ![p] = f.items]
      /\ dirty' = [dirty EXCEPT ![p] = FALSE] /\ events' = Posted(w, c, e)
      /\ UNCHANGED <<server, phase, dbVars, sid, online, home, grid, ground, late>>
  BY <1>2, <1>3, <1>7, <1>8 DEF Loaded, Posted
<1>10. UNCHANGED <<queue, row, torn, failed, faults>>
  BY <1>9 DEF dbVars
<1>11. PICK s \in Seq(Event) : s = <<e>> /\ Range(s) = {e} /\ DOMAIN s = {1} /\ s[1] = e
  BY One
<1>12. events' = Put(w, c, s)
  BY <1>9, <1>11, PostedIsPut
<1>13. /\ events' \in [Channels -> Seq(Event)]
       /\ \A d \in Channels : Range(w[d]) \subseteq Range(events'[d])
       /\ \A d \in Channels : \A x \in Range(events'[d]) : x \in Range(w[d]) \/ (d = c /\ x = e)
       /\ e \in Range(events'[c])
  <2>1. PICK u : u = Put(w, c, s)
    OBVIOUS
  <2>2. /\ u \in [Channels -> Seq(Event)]
        /\ \A d \in Channels : Range(w[d]) \subseteq Range(u[d])
        /\ \A d \in Channels : \A x \in Range(u[d]) : x \in Range(w[d]) \/ (d = c /\ x \in Range(s))
        /\ Range(s) \subseteq Range(u[c])
    BY <2>1, PutMail
  <2> QED
    BY <1>11, <1>12, <2>1, <2>2
<1>14. /\ OnceBrought(events')
  <2>1. \A x \in Range(s) : \A p1, n : ~ Brings(x, p1, n)
    BY <1>7, <1>11 DEF Brings
  <2>2. \A i \in DOMAIN s : s[i] \in Range(s)
    BY DEF Range
  <2>3. OnceBrought(Put(w, c, s))
    BY <1>8, <2>1, <2>2, BroughtPut
  <2> QED
    BY <1>12, <2>3
<1>15. /\ stage'[p] = "playing" /\ inv'[p] = row[p] /\ ~ dirty'[p]
       /\ \A x \in Players : x # p => stage'[x] = stage[x] /\ inv'[x] = inv[x] /\ dirty'[x] = dirty[x]
  BY <1>6, <1>9 DEF IInv, TypeOK
<1>16. phase[c] \in {"events", "draining"} /\ events[c] # <<>>
  BY <1>1, TakeFacts
<1>17. grid[p] = Nowhere
  BY <1>5 DEF IInv, TypeOK
<1>18. TypeOK'
  BY <1>2, <1>3, <1>5, <1>9, <1>10, <1>13, <1>15 DEF IInv, TypeOK
<1>19. CommandsSound'
  BY <1>9, <1>10 DEF IInv, CommandsSound
<1>20. EventsSound'
  <2>1. sid[p] \in Nat /\ sid' = sid
    BY <1>9, EventsTyped
  <2>2. \A d \in Channels : \A x \in Range(w[d]) : x.sid =< sid[x.who]
    <3>1. \A d \in Channels : Range(w[d]) \subseteq Range(events[d])
      BY <1>8, <1>16, EventsTyped, TakenMail
    <3> QED
      BY <3>1 DEF IInv, EventsSound
  <2> QED
    BY <1>7, <1>13, <2>1, <2>2 DEF EventsSound
<1>21. \A d \in Channels : Range(w[d]) \subseteq Range(events[d])
  BY <1>8, <1>16, EventsTyped, TakenMail
<1>22. EntersSound'
  <2>1. SUFFICES ASSUME NEW d \in Channels, NEW x \in Range(events'[d]), x.kind = "enter"
                 PROVE  EnterOf(d, x)'
    BY DEF EntersSound
  <2>2. CASE d = c /\ x = e
    BY <1>6, <1>7, <1>9, <1>16, <2>2 DEF EnterOf
  <2>3. CASE x \in Range(events[d])
    <3>1. EnterOf(d, x) /\ x.who \in Players
      <4>1. x \in Event
        <5>1. events[d] \in Seq(Event)
          BY EventsTyped
        <5> QED
          BY <2>3, <5>1, RangeOfSeq
      <4> QED
        BY <2>1, <2>3, <4>1, EventFacts DEF IInv, EntersSound
    <3>2. stage'[x.who] # "out" => stage[x.who] # "out"
      BY <1>5, <1>15, <3>1
    <3> QED
      BY <1>9, <3>1, <3>2 DEF EnterOf
  <2> QED
    BY <1>13, <1>21, <2>1, <2>2, <2>3
<1>23. LoadsSound'
  <2>1. NotBoth(queue, events')
    BY <1>7, <1>13, <1>21 DEF IInv, LoadsSound, NotBoth, Brings
  <2> QED
    BY <1>10, <1>14, <2>1 DEF IInv, LoadsSound
<1>24. \A x : ~ Brings(e, x, sid[x])
  BY <1>7 DEF Brings
<1>25. PlayerSound(p)'
  <2>1. Waits(p)'
    BY <1>15 DEF Waits
  <2>2. Plays(p)'
    <3>1. \A cmd \in Range(queue) : ~ Asks(cmd, p, sid[p])
      BY <1>2, <1>4 DEF IInv, LoadsSound, NotBoth
    <3>2. \A d \in Channels : \A x \in Range(w[d]) : ~ Brings(x, p, sid[p])
      BY <1>2, <1>4, <1>8, <1>16, EventsTyped, BroughtTaken
    <3> QED
      BY <1>9, <1>10, <1>13, <1>24, <3>1, <3>2 DEF Plays, NoLoad
  <2>3. OnMaps(p)'
    <3>1. Calls(e, p, sid[p])
      BY <1>7 DEF Calls
    <3> QED
      BY <1>6, <1>9, <1>13, <1>17, <3>1 DEF OnMaps
  <2>4. Kept(p)'
    <3>1. Stored(row, queue, p) = row[p] /\ Followed(queue, p, sid[p], home[p])
      BY <1>6 DEF Stored, Followed, Final
    <3> QED
      BY <1>9, <1>10, <1>15, <3>1 DEF Kept
  <2>5. Rests(p)'
    BY <1>6, <1>9, <1>15, <1>16 DEF Rests
  <2> QED
    BY <2>1, <2>2, <2>3, <2>4, <2>5 DEF PlayerSound
<1>26. ASSUME NEW x \in Players, x # p PROVE PlayerSound(x)'
  <2>1. PlayerSound(x) /\ stage'[x] = stage[x] /\ inv'[x] = inv[x] /\ dirty'[x] = dirty[x]
    BY <1>15, <1>26 DEF IInv, PlayersSound
  <2>2. Active(x)' <=> Active(x)
    BY <1>9, <2>1 DEF Active
  <2>3. Active(x) => home[x] \in Channels
    BY HomeOfPresent DEF Active
  <2>4. Waits(x)'
    BY <1>9, <1>10, <1>13, <1>21, <1>24, <2>1 DEF PlayerSound, Waits, Fresh
  <2>5. Plays(x)'
    BY <1>9, <1>10, <1>13, <1>21, <1>24, <2>1 DEF PlayerSound, Plays, NoLoad
  <2>6. ~ Calls(f, x, sid[x]) /\ ~ Warns(f, x, sid[x])
    BY <1>2 DEF Calls, Warns
  <2>7. \A g \in Range(events[home[x]]) : Active(x) => g \in Range(events'[home[x]]) \/ g = f
    BY <1>8, <1>13, <2>3 DEF Keeps
  <2>8. OnMaps(x)'
    BY <1>9, <2>1, <2>2, <2>6, <2>7 DEF PlayerSound, OnMaps
  <2>9. Kept(x)'
    BY <1>9, <1>10, <2>1, <2>2, <2>6, <2>7 DEF PlayerSound, Kept
  <2>10. Rests(x)'
    BY <1>9, <1>10, <2>1 DEF PlayerSound, Rests
  <2> QED
    BY <2>4, <2>5, <2>8, <2>9, <2>10 DEF PlayerSound
<1>27. /\ Memory'[p] = row[p]
       /\ \A x \in Players : x # p => Memory'[x] = Memory[x]
       /\ Memory[p] = {}
  BY <1>5, <1>15 DEF Memory
<1>28. ItemsTraced'
  <2>1. SUFFICES ASSUME torn = {} PROVE Traceable(row, queue, Memory')
    BY <1>10 DEF ItemsTraced
  <2>2. Traceable(row, queue, Memory)
    BY <2>1 DEF IInv, ItemsTraced
  <2>3. PICK o2 : o2 = Memory'
    OBVIOUS
  <2>4. ASSUME NEW a \in Players, NEW b \in Players, NEW i \in o2[a] \ Memory[a], NEW k \in 0 .. Len(queue) + 1,
               a # b
        PROVE  i \notin At(row, queue, Memory, b, k) /\ i \notin o2[b]
    <3>1. a = p /\ i \in row[p]
      BY <1>27, <2>3, <2>4
    <3>2. \A m \in 0 .. Len(queue) + 1 : i \notin At(row, queue, Memory, b, m)
      BY <1>6, <2>2, <2>4, <3>1, EventsTyped, RowsUnclaimed
    <3>3. At(row, queue, Memory, b, Len(queue) + 1) = Memory[b] /\ Len(queue) + 1 \in 0 .. Len(queue) + 1
      <4>1. Len(queue) \in Nat /\ DOMAIN queue = 1 .. Len(queue)
        BY EventsTyped, LenProperties
      <4>2. Len(queue) + 1 \notin DOMAIN queue /\ Len(queue) + 1 # 0 /\ Len(queue) + 1 \in 0 .. Len(queue) + 1
        BY <4>1
      <4> QED
        BY <4>2 DEF At
    <3> QED
      BY <1>27, <2>3, <2>4, <3>1, <3>2, <3>3
  <2>5. Traceable(row, queue, o2)
    BY <2>2, <2>4, EventsTyped, TraceMemory
  <2> QED
    BY <2>3, <2>5
<1>29. GroundFirm'
  <2>1. SUFFICES ASSUME torn = {}, NEW x \in Players, NEW i \in ground \cap Memory'[x]
                 PROVE  Firm(row, queue, x, i)
    BY <1>9, <1>10 DEF GroundFirm
  <2>2. CASE x = p
    BY <1>6, <1>27, <2>1, <2>2, EventsTyped, FirmRows
  <2>3. CASE x # p
    BY <1>27, <2>1, <2>3 DEF IInv, GroundFirm
  <2> QED
    BY <2>2, <2>3
<1> QED
  BY <1>18, <1>19, <1>20, <1>22, <1>23, <1>25, <1>26, <1>28, <1>29 DEF IInv, PlayersSound

\* A step that concerns others: the queue grows, but not by commands for x, and the mail keeps
\* what x needs.
NoneFor(ev, ev2, x, n) ==
  \A d \in Channels : \A e \in Range(ev2[d]) : e \in Range(ev[d]) \/ ~ Brings(e, x, n)
KeptFor(ev, ev2, x, n, h) ==
  \A e \in Range(ev[h]) : e \in Range(ev2[h]) \/ (~ Calls(e, x, n) /\ ~ Warns(e, x, n))
Aside(s, x, n) == WritesOf(s, x) = {} /\ \A cmd \in Range(s) : ~ Asks(cmd, x, n)

LEMMA Bystander ==
  ASSUME IInv, NEW x \in Players, NEW s \in Seq(Command), queue' = queue \o s, Aside(s, x, sid[x]),
         row' = row, stage'[x] = stage[x], sid'[x] = sid[x], home'[x] = home[x], grid'[x] = grid[x],
         inv'[x] = inv[x], dirty'[x] = dirty[x], x \in failed' <=> x \in failed, x \in late' <=> x \in late,
         stage[x] = "playing" => (phase'[home[x]] = "stopped" <=> phase[home[x]] = "stopped"),
         NoneFor(events, events', x, sid[x]),
         Active(x) => KeptFor(events, events', x, sid[x], home[x])
  PROVE  PlayerSound(x)'
<1>1. PlayerSound(x) /\ (Active(x)' <=> Active(x)) /\ queue \in Seq(Command)
  BY EventsTyped DEF IInv, PlayersSound, Active
<1>2. /\ WritesOf(queue \o s, x) = WritesOf(queue, x)
      /\ Stored(row, queue \o s, x) = Stored(row, queue, x)
  BY <1>1, GrowSame DEF Aside
<1>3. WritesOf(queue', x) = WritesOf(queue, x) /\ Stored(row', queue', x) = Stored(row, queue, x)
  BY <1>2
<1>4. Waits(x)'
  <2>1. SUFFICES ASSUME stage[x] = "loading"
                 PROVE  Behind(queue', x, sid[x], home[x]) /\ Fresh(queue', events', row', x, sid[x], home[x])
    BY DEF Waits
  <2>2. Behind(queue, x, sid[x], home[x]) /\ Fresh(queue, events, row, x, sid[x], home[x])
    BY <1>1, <2>1 DEF PlayerSound, Waits
  <2>3. Behind(queue \o s, x, sid[x], home[x])
    BY <1>1, <2>2, BehindGrow DEF Aside
  <2>4. Fresh(queue', events', row', x, sid[x], home[x])
    BY <1>3, <2>2 DEF Fresh, NoneFor
  <2> QED
    BY <2>3, <2>4
<1>5. Plays(x)'
  <2>1. Range(queue') = Range(queue) \cup Range(s)
    BY <1>1, Concat
  <2> QED
    BY <1>1, <2>1 DEF PlayerSound, Plays, NoLoad, NoneFor, Aside
<1>6. OnMaps(x)'
  <2>1. OnMaps(x)
    BY <1>1 DEF PlayerSound
  <2>2. CASE Active(x) /\ grid[x] # home[x]
    <3>1. PICK e \in Range(events[home[x]]) : Calls(e, x, sid[x])
      BY <2>1, <2>2 DEF OnMaps
    <3>2. e \in Range(events'[home[x]])
      BY <2>2, <3>1 DEF KeptFor
    <3> QED
      BY <2>1, <3>1, <3>2 DEF OnMaps
  <2>3. CASE ~ Active(x) \/ grid[x] = home[x]
    BY <1>1, <2>1, <2>3 DEF OnMaps
  <2> QED
    BY <2>2, <2>3
<1>7. Kept(x)'
  <2>1. Kept(x)
    BY <1>1 DEF PlayerSound
  <2>2. CASE ~ Active(x) \/ dirty[x]
    BY <1>1, <2>2 DEF Kept
  <2>3. CASE Active(x) /\ \E e \in Range(events[home[x]]) : Warns(e, x, sid[x])
    BY <2>3 DEF Kept, KeptFor
  <2>4. CASE inv[x] = Stored(row, queue, x) /\ Followed(queue, x, sid[x], home[x])
    <3>1. Followed(queue \o s, x, sid[x], home[x])
      BY <1>1, <2>4, FollowedSame DEF Aside
    <3> QED
      BY <1>3, <2>4, <3>1 DEF Kept
  <2> QED
    BY <2>1, <2>2, <2>3, <2>4 DEF Kept
<1>8. Rests(x)'
  BY <1>1, <1>3 DEF PlayerSound, Rests
<1> QED
  BY <1>4, <1>5, <1>6, <1>7, <1>8 DEF PlayerSound

\* No command and no event is of a session to come.
LEMMA NothingOfNext ==
  ASSUME IInv, NEW p \in Players
  PROVE  /\ \A cmd \in Range(queue) : ~ Asks(cmd, p, sid[p] + 1)
         /\ \A c \in Channels : \A e \in Range(events[c]) : e.who = p => e.sid # sid[p] + 1
<1>1. sid[p] \in Nat /\ queue \in Seq(Command) /\ \A c \in Channels : events[c] \in Seq(Event)
  BY EventsTyped
<1>2. ASSUME NEW cmd \in Range(queue), Asks(cmd, p, sid[p] + 1) PROVE FALSE
  <2>1. CommandOf(cmd, sid)
    BY DEF IInv, CommandsSound
  <2>2. p \in DOMAIN cmd.sid /\ cmd.sid[p] = sid[p] + 1
    BY <1>2, <2>1 DEF Asks, CommandOf, WellFormed
  <2>3. sid[p] + 1 =< sid[p]
    BY <2>1, <2>2 DEF CommandOf
  <2> QED
    BY <1>1, <2>3
<1>3. ASSUME NEW c \in Channels, NEW e \in Range(events[c]), e.who = p PROVE e.sid # sid[p] + 1
  <2>1. e.sid =< sid[p]
    BY <1>3 DEF IInv, EventsSound
  <2> QED
    BY <1>1, <2>1
<1> QED
  BY <1>2, <1>3

LEMMA LoginKeeps ==
  ASSUME IInv, NEW p \in Players, NEW c \in Channels, Login(p, c)
  PROVE  IInv'
<1>1. PICK n \in Nat : n = sid[p] + 1 /\ n \in LoginNumbers /\ sid[p] \in Nat /\ sid[p] < n
  <2>1. sid[p] \in Nat /\ sid[p] < MaxLogins[p] /\ MaxLogins[p] \in Nat
    BY EventsTyped, SavingAssumption DEF Login
  <2>2. sid[p] + 1 \in 0 .. MaxLogins[p]
    BY <2>1
  <2>3. sid[p] + 1 \in LoginNumbers
    BY <2>2 DEF LoginNumbers
  <2> QED
    BY <2>1, <2>3
<1>2. /\ sid' = [sid EXCEPT ![p] = n] /\ online' = [online EXCEPT ![p] = TRUE]
      /\ stage' = [stage EXCEPT ![p] = "loading"] /\ home' = [home EXCEPT ![p] = c]
      /\ stage[p] = "out"
      /\ UNCHANGED <<server, phase, events, row, faults, torn, failed, grid, inv, dirty, ground, late>>
  BY <1>1 DEF Login
<1>3. /\ sid'[p] = n /\ stage'[p] = "loading" /\ home'[p] = c /\ grid[p] = Nowhere
      /\ sid' \in [Players -> LoginNumbers]
      /\ \A x \in Players : x # p => sid'[x] = sid[x] /\ stage'[x] = stage[x] /\ home'[x] = home[x]
  BY <1>1, <1>2 DEF IInv, TypeOK
<1>4. PICK cmd : cmd = [kind |-> "load", who |-> p, sid |-> [x \in {p} |-> sid'[p]],
                        rows |-> [x \in {} |-> {}], reply |-> c]
  OBVIOUS
<1>5. cmd \in Command
  <2>1. [x \in {p} |-> sid'[p]] \in [{p} -> LoginNumbers] /\ [x \in {} |-> {}] \in [{} -> SUBSET Items]
    BY <1>3
  <2> QED
    BY <1>4, <2>1, MakeCommand
<1>6. /\ cmd.kind = "load" /\ cmd.who = p /\ cmd.reply = c /\ DOMAIN cmd.rows = {}
      /\ DOMAIN cmd.sid = {p} /\ cmd.sid[p] = n
  BY <1>3, <1>4
<1>7. PICK s \in Seq(Command) : s = <<cmd>> /\ Range(s) = {cmd} /\ DOMAIN s = {1} /\ s[1] = cmd
  BY <1>5, One
<1>8. queue' = queue \o s
  BY <1>4, <1>7 DEF Login, Enqueue
<1>9. queue \in Seq(Command) /\ queue' \in Seq(Command) /\ Range(queue') = Range(queue) \cup {cmd}
  BY ZenonT(60), <1>7, <1>8, EventsTyped, Concat
<1>10. \A x : WritesOf(s, x) = {}
  BY <1>6, <1>7 DEF WritesOf
<1>11. TypeOK'
  BY <1>2, <1>3, <1>9, SavingAssumption DEF IInv, TypeOK
<1>12. \A x \in Players : sid[x] =< sid'[x] /\ sid[x] \in Nat /\ sid'[x] \in Nat
  BY <1>1, <1>3, EventsTyped
<1>13. CommandsSound'
  <2>1. SUFFICES ASSUME NEW d \in Range(queue') PROVE CommandOf(d, sid')
    BY DEF CommandsSound
  <2>2. CASE d = cmd
    BY <1>1, <1>3, <1>6, <2>2 DEF CommandOf, WellFormed
  <2>3. CASE d \in Range(queue)
    <3>1. CommandOf(d, sid) /\ d \in Command
      BY <1>9, <2>3, RangeOfSeq DEF IInv, CommandsSound
    <3>2. \A x \in DOMAIN d.sid : x \in Players /\ d.sid[x] \in Nat
      BY <3>1, CommandFacts, LoginNumbersInNat
    <3>3. \A x \in DOMAIN d.sid : d.sid[x] =< sid'[x]
      <4> TAKE x \in DOMAIN d.sid
      <4>1. d.sid[x] =< sid[x] /\ sid[x] =< sid'[x] /\ d.sid[x] \in Nat /\ sid[x] \in Nat /\ sid'[x] \in Nat
        BY <1>12, <3>1, <3>2 DEF CommandOf
      <4> QED
        BY <4>1
    <3> QED
      BY <3>1, <3>3 DEF CommandOf
  <2> QED
    BY <1>9, <2>1, <2>2, <2>3
<1>14. \A d \in Channels : \A e \in Range(events[d]) :
         e \in Event /\ e.who \in Players /\ e.sid \in Nat /\ e.sid =< sid[e.who]
  <2> TAKE d \in Channels
  <2>1. events[d] \in Seq(Event)
    BY EventsTyped
  <2> QED
    BY <2>1, RangeOfSeq, EventFacts DEF IInv, EventsSound
<1>15. EventsSound'
  <2>1. SUFFICES ASSUME NEW d \in Channels, NEW e \in Range(events[d]) PROVE e.sid =< sid'[e.who]
    BY <1>2 DEF EventsSound
  <2>2. e.sid \in Nat /\ e.sid =< sid[e.who] /\ sid[e.who] \in Nat /\ sid'[e.who] \in Nat
        /\ sid[e.who] =< sid'[e.who]
    BY <1>12, <1>14
  <2> QED
    BY <2>2
<1>16. /\ \A d \in Range(queue) : ~ Asks(d, p, n)
       /\ \A d \in Channels : \A e \in Range(events[d]) : e.who = p => e.sid # n
  BY <1>1, NothingOfNext
<1>17. EntersSound'
  <2>1. SUFFICES ASSUME NEW d \in Channels, NEW e \in Range(events[d]), e.kind = "enter"
                 PROVE  EnterOf(d, e)'
    BY <1>2 DEF EntersSound
  <2>2. EnterOf(d, e)
    BY <2>1 DEF IInv, EntersSound
  <2> QED
    BY <1>2, <1>3, <1>14, <1>16, <2>2 DEF EnterOf
<1>18. LoadsSound'
  <2>1. OnceAsked(s)
    BY <1>7 DEF OnceAsked
  <2>2. \A x \in Range(queue) : \A y \in Range(s) : \A a, m : ~ (Asks(x, a, m) /\ Asks(y, a, m))
    BY <1>6, <1>7, <1>16 DEF Asks
  <2>3. OnceAsked(queue')
    BY <1>8, <1>9, <2>1, <2>2, AskedGrow DEF IInv, LoadsSound
  <2>4. NotBoth(queue', events)
    BY <1>6, <1>9, <1>16 DEF IInv, LoadsSound, NotBoth, Asks, Brings
  <2> QED
    BY <1>2, <2>3, <2>4 DEF IInv, LoadsSound
<1>19. PlayerSound(p)'
  <2>1. Behind(queue', p, n, c)
    BY <1>5, <1>6, <1>7, <1>8, <1>9, <1>16, BehindLoad
  <2>2. Fresh(queue', events, row, p, n, c)
    BY <1>16 DEF Fresh, Brings
  <2>3. Waits(p)'
    BY <1>2, <1>3, <2>1, <2>2 DEF Waits
  <2>4. Plays(p)' /\ OnMaps(p)' /\ Kept(p)'
    BY <1>2, <1>3 DEF Plays, OnMaps, Kept, Active
  <2>5. Rests(p)'
    <3>1. WritesOf(queue', p) = WritesOf(queue, p) /\ Stored(row, queue', p) = Stored(row, queue, p)
      BY ZenonT(60), <1>7, <1>8, <1>9, <1>10, GrowSame
    <3>2. Rests(p)
      BY DEF IInv, PlayersSound, PlayerSound
    <3> QED
      BY <1>2, <3>1, <3>2 DEF Rests
  <2> QED
    BY <2>3, <2>4, <2>5 DEF PlayerSound
<1>20. ASSUME NEW x \in Players, x # p PROVE PlayerSound(x)'
  <2>1. Aside(s, x, sid[x])
    BY <1>6, <1>7, <1>10, <1>20 DEF Aside, Asks
  <2>2. NoneFor(events, events', x, sid[x]) /\ KeptFor(events, events', x, sid[x], home[x])
    BY <1>2 DEF NoneFor, KeptFor
  <2> QED
    BY <1>2, <1>3, <1>8, <1>20, <2>1, <2>2, Bystander
<1>21. Memory' = Memory
  BY <1>2, <1>3 DEF Memory
<1>22. ItemsTraced'
  <2>1. SUFFICES ASSUME torn = {} PROVE Traceable(row, queue', Memory)
    BY <1>2, <1>21 DEF ItemsTraced
  <2>2. \A j \in DOMAIN s : \A x \in DOMAIN s[j].rows : s[j].rows[x] = Memory[x]
    BY <1>6, <1>7
  <2> QED
    BY <1>7, <1>8, <1>9, <2>1, <2>2, TraceSaves DEF IInv, ItemsTraced
<1>23. GroundFirm'
  <2>1. SUFFICES ASSUME torn = {}, NEW x \in Players, NEW i \in ground \cap Memory[x]
                 PROVE  Firm(row, queue', x, i)
    BY <1>2, <1>21 DEF GroundFirm
  <2>2. Firm(row, queue, x, i)
    BY <2>1 DEF IInv, GroundFirm
  <2> QED
    BY <1>8, <1>9, <1>10, <2>2, FirmGrow
<1> QED
  BY <1>11, <1>13, <1>15, <1>17, <1>18, <1>19, <1>20, <1>22, <1>23 DEF IInv, PlayersSound

-----------------------------------------------------------------------------
(* Jobs.                                                                     *)

\* A job that changes what one player holds, and marks him.
LEMMA JobOfOne ==
  ASSUME IInv, NEW p \in Players, stage[p] = "playing", phase[home[p]] = "jobs",
         NEW items \in SUBSET Items, SetInventory(p, items),
         UNCHANGED <<phase, events, queue, row, failed, sid, stage, home, grid, late>>
  PROVE  /\ CommandsSound' /\ EventsSound' /\ EntersSound' /\ LoadsSound' /\ PlayersSound'
         /\ inv' \in [Players -> SUBSET Items] /\ dirty' \in [Players -> BOOLEAN]
         /\ Memory'[p] = items
         /\ \A x \in Players : x # p => Memory'[x] = Memory[x]
<1>1. inv' = [inv EXCEPT ![p] = items] /\ dirty' = [dirty EXCEPT ![p] = TRUE]
  BY DEF SetInventory
<1>2. /\ inv'[p] = items /\ dirty'[p]
      /\ \A x \in Players : x # p => inv'[x] = inv[x] /\ dirty'[x] = dirty[x]
      /\ inv' \in [Players -> SUBSET Items] /\ dirty' \in [Players -> BOOLEAN]
  BY <1>1 DEF IInv, TypeOK
<1>3. CommandsSound' /\ EventsSound' /\ EntersSound' /\ LoadsSound'
  BY DEF IInv, CommandsSound, EventsSound, EntersSound, EnterOf, LoadsSound
<1>4. ASSUME NEW x \in Players PROVE PlayerSound(x)'
  <2>1. PlayerSound(x) /\ (Active(x)' <=> Active(x))
    BY DEF IInv, PlayersSound, Active
  <2>2. Waits(x)' /\ Plays(x)' /\ OnMaps(x)'
    BY <2>1 DEF PlayerSound, Waits, Plays, OnMaps
  <2>3. Kept(x)' /\ Rests(x)'
    <3>1. CASE x = p
      BY <1>2, <3>1 DEF Kept, Rests
    <3>2. CASE x # p
      BY <1>2, <2>1, <3>2 DEF PlayerSound, Kept, Rests
    <3> QED
      BY <3>1, <3>2
  <2> QED
    BY <2>2, <2>3 DEF PlayerSound
<1>5. Memory'[p] = items /\ \A x \in Players : x # p => Memory'[x] = Memory[x]
  BY <1>2 DEF Memory
<1> QED
  BY <1>2, <1>3, <1>4, <1>5 DEF PlayersSound

LEMMA DiscardKeeps ==
  ASSUME IInv, NEW p \in Players, NEW c \in Channels, Discard(c, p)
  PROVE  IInv'
<1>1. PICK i \in inv[p] : SetInventory(p, inv[p] \ {i}) /\ ground' = ground \cup {i}
  BY DEF Discard
<1>2. /\ stage[p] = "playing" /\ phase[home[p]] = "jobs"
      /\ UNCHANGED <<server, phase, events, queue, row, faults, torn, failed, sid, online, stage, home, grid, late>>
  BY DEF Discard, InJobs, Owns, dbVars
<1>3. PICK items \in SUBSET Items : items = inv[p] \ {i}
  BY DEF IInv, TypeOK
<1>4. /\ CommandsSound' /\ EventsSound' /\ EntersSound' /\ LoadsSound' /\ PlayersSound'
      /\ inv' \in [Players -> SUBSET Items] /\ dirty' \in [Players -> BOOLEAN]
      /\ Memory'[p] = items
      /\ \A x \in Players : x # p => Memory'[x] = Memory[x]
  BY <1>1, <1>2, <1>3, JobOfOne
<1>5. Memory[p] = inv[p] /\ inv[p] \in SUBSET Items
  BY <1>2 DEF Memory, IInv, TypeOK
<1>6. TypeOK'
  BY <1>1, <1>2, <1>4, <1>5 DEF IInv, TypeOK
<1>7. \A x \in Players : Memory'[x] \subseteq Memory[x]
  BY <1>3, <1>4, <1>5
<1>8. ASSUME torn = {} PROVE Traceable(row, queue, Memory)
  BY <1>8 DEF IInv, ItemsTraced
<1>9. ItemsTraced'
  <2>1. SUFFICES ASSUME torn = {} PROVE Traceable(row, queue, Memory')
    BY <1>2 DEF ItemsTraced
  <2>2. PICK o2 : o2 = Memory'
    OBVIOUS
  <2>3. \A x \in Players : o2[x] \ Memory[x] = {}
    BY <1>7, <2>2
  <2>4. Traceable(row, queue, o2)
    BY <1>8, <2>1, <2>3, EventsTyped, TraceMemory
  <2> QED
    BY <2>2, <2>4
<1>10. GroundFirm'
  <2>1. SUFFICES ASSUME torn = {}, NEW x \in Players, NEW j \in ground' \cap Memory'[x]
                 PROVE  Firm(row, queue, x, j)
    BY <1>2 DEF GroundFirm
  <2>2. j # i
    <3>1. CASE x = p
      BY <1>3, <1>4, <2>1, <3>1
    <3>2. CASE x # p
      <4>1. Memory[p] \cap Memory[x] = {}
        BY <1>8, <2>1, <3>2, EventsTyped, TraceReads
      <4> QED
        BY <1>1, <1>5, <1>7, <2>1, <4>1
    <3> QED
      BY <3>1, <3>2
  <2>3. j \in ground \cap Memory[x]
    BY <1>1, <1>7, <2>1, <2>2
  <2> QED
    BY <2>1, <2>3 DEF IInv, GroundFirm
<1> QED
  BY <1>4, <1>6, <1>9, <1>10 DEF IInv

LEMMA PickupKeeps ==
  ASSUME IInv, NEW p \in Players, NEW c \in Channels, Pickup(c, p)
  PROVE  IInv'
<1>1. PICK i \in ground :
        /\ SetInventory(p, inv[p] \cup {i}) /\ ground' = ground \ {i}
        /\ torn' = IF \E x \in Players \ {p} : Saved(x, i) THEN torn \cup {"discard"} ELSE torn
  BY DEF Pickup
<1>2. /\ stage[p] = "playing" /\ phase[home[p]] = "jobs"
      /\ UNCHANGED <<server, phase, events, queue, row, faults, failed, sid, online, stage, home, grid, late>>
  BY DEF Pickup, InJobs, Owns
<1>3. PICK items \in SUBSET Items : items = inv[p] \cup {i}
  BY DEF IInv, TypeOK
<1>4. /\ CommandsSound' /\ EventsSound' /\ EntersSound' /\ LoadsSound' /\ PlayersSound'
      /\ inv' \in [Players -> SUBSET Items] /\ dirty' \in [Players -> BOOLEAN]
      /\ Memory'[p] = items
      /\ \A x \in Players : x # p => Memory'[x] = Memory[x]
  BY <1>1, <1>2, <1>3, JobOfOne
<1>5. Memory[p] = inv[p]
  BY <1>2 DEF Memory
<1>6. TypeOK'
  <2>1. torn' \subseteq {"trade", "discard"}
    BY <1>1 DEF IInv, TypeOK
  <2> QED
    BY <1>1, <1>2, <1>4, <2>1 DEF IInv, TypeOK
<1>7. \A x \in Players : \A j : j # i /\ j \in Memory'[x] => j \in Memory[x]
  BY <1>3, <1>4, <1>5
<1>8. ASSUME torn' = {}
      PROVE  /\ torn = {} /\ Traceable(row, queue, Memory)
             /\ \A x \in Players : x # p => ~ Saved(x, i)
  BY <1>1, <1>8 DEF IInv, ItemsTraced
<1>9. ItemsTraced'
  <2>1. SUFFICES ASSUME torn' = {} PROVE Traceable(row, queue, Memory')
    BY <1>2 DEF ItemsTraced
  <2>2. PICK o2 : o2 = Memory'
    OBVIOUS
  <2>3. ASSUME NEW x \in Players, x # p
        PROVE  i \notin row[x] /\ (\A n \in DOMAIN queue : x \in DOMAIN queue[n].rows => i \notin queue[n].rows[x])
    BY <1>8, <2>1, <2>3 DEF Saved, Writes
  <2>4. ASSUME NEW x \in Players, x # p PROVE i \notin Memory[x]
    <3> SUFFICES ASSUME i \in Memory[x] PROVE FALSE
      OBVIOUS
    <3>1. Firm(row, queue, x, i)
      BY <1>1, <1>8, <2>1 DEF IInv, GroundFirm
    <3> QED
      BY <2>3, <2>4, <3>1, FirmSaved
  <2>5. ASSUME NEW a \in Players, NEW b \in Players, NEW j \in o2[a] \ Memory[a],
               NEW k \in 0 .. Len(queue) + 1, a # b
        PROVE  j \notin At(row, queue, Memory, b, k) /\ j \notin o2[b]
    <3>1. j = i /\ a = p
      BY <1>4, <1>7, <2>2, <2>5
    <3>2. i \notin o2[b]
      BY <1>4, <2>2, <2>4, <2>5, <3>1
    <3>3. i \notin At(row, queue, Memory, b, k)
      BY <2>3, <2>4, <2>5, <3>1 DEF At
    <3> QED
      BY <3>1, <3>2, <3>3
  <2>6. Traceable(row, queue, o2)
    BY <1>8, <2>1, <2>5, EventsTyped, TraceMemory
  <2> QED
    BY <2>2, <2>6
<1>10. GroundFirm'
  <2>1. SUFFICES ASSUME torn' = {}, NEW x \in Players, NEW j \in ground' \cap Memory'[x]
                 PROVE  Firm(row, queue, x, j)
    BY <1>2 DEF GroundFirm
  <2>2. j \in ground \cap Memory[x]
    BY <1>1, <1>7, <2>1
  <2> QED
    BY <1>8, <2>1, <2>2 DEF IInv, GroundFirm
<1> QED
  BY <1>4, <1>6, <1>9, <1>10 DEF IInv

\* What channels write: no loads, and saves of the sessions there are.
SessionWrites(cmd) == /\ cmd.kind # "load" /\ DOMAIN cmd.sid = DOMAIN cmd.rows
                      /\ \A x \in DOMAIN cmd.sid : x \in Players /\ cmd.sid[x] = sid[x]

LEMMA NewWrites ==
  ASSUME IInv, NEW s \in Seq(Command), \A cmd \in Range(s) : SessionWrites(cmd),
         queue' = queue \o s, sid' = sid
  PROVE  /\ queue' \in Seq(Command) /\ CommandsSound'
         /\ Range(queue') = Range(queue) \cup Range(s)
         /\ OnceAsked(queue') /\ NotBoth(queue', events)
         /\ \A x, n : \A cmd \in Range(s) : ~ Asks(cmd, x, n)
<1>1. queue \in Seq(Command)
  BY EventsTyped
<1>2. queue' \in Seq(Command) /\ Range(queue') = Range(queue) \cup Range(s)
  BY <1>1, Concat
<1>3. \A x, n : \A cmd \in Range(s) : ~ Asks(cmd, x, n)
  BY DEF SessionWrites, Asks
<1>4. CommandsSound'
  <2>1. SUFFICES ASSUME NEW cmd \in Range(queue') PROVE CommandOf(cmd, sid)
    BY DEF CommandsSound
  <2>2. CASE cmd \in Range(s)
    <3>1. \A x \in DOMAIN cmd.sid : sid[x] \in Nat /\ cmd.sid[x] = sid[x]
      BY <2>2, EventsTyped DEF SessionWrites
    <3>2. \A x \in DOMAIN cmd.sid : cmd.sid[x] =< sid[x]
      BY <3>1
    <3>3. WellFormed(cmd)
      BY <2>2 DEF SessionWrites, WellFormed
    <3> QED
      BY <3>2, <3>3 DEF CommandOf
  <2>3. CASE cmd \in Range(queue)
    BY <2>3 DEF IInv, CommandsSound
  <2> QED
    BY <1>2, <2>1, <2>2, <2>3
<1>5. OnceAsked(queue')
  <2>1. \A i \in DOMAIN s : s[i] \in Range(s)
    BY DEF Range
  <2>2. OnceAsked(s)
    BY <1>3, <2>1 DEF OnceAsked
  <2>3. \A x \in Range(queue) : \A y \in Range(s) : \A a, m : ~ (Asks(x, a, m) /\ Asks(y, a, m))
    BY <1>3
  <2> QED
    BY <1>1, <2>2, <2>3, AskedGrow DEF IInv, LoadsSound
<1>6. NotBoth(queue', events)
  BY <1>2, <1>3 DEF IInv, LoadsSound, NotBoth
<1> QED
  BY <1>2, <1>3, <1>4, <1>5, <1>6

\* Both sides of a trade.
LEMMA TradeSide ==
  ASSUME IInv, NEW x \in Players, NEW s \in Seq(Command), queue' = queue \o s,
         \A cmd \in Range(s) : SessionWrites(cmd),
         stage[x] = "playing", phase[home[x]] = "jobs",
         WritesOf(s, x) # {},
         \A j \in WritesOf(s, x) : s[j].rows[x] = inv'[x] /\ s[j].reply = home[x] /\ s[j].sid[x] = sid[x],
         UNCHANGED <<phase, events, row, sid, stage, home, grid>>
  PROVE  PlayerSound(x)'
<1>1. PlayerSound(x) /\ (Active(x)' <=> Active(x)) /\ queue \in Seq(Command)
  BY EventsTyped DEF IInv, PlayersSound, Active
<1>2. /\ Range(queue') = Range(queue) \cup Range(s)
      /\ \A y, n : \A cmd \in Range(s) : ~ Asks(cmd, y, n)
  BY NewWrites
<1>3. Waits(x)' /\ Rests(x)'
  BY DEF Waits, Rests
<1>4. Plays(x)'
  BY <1>1, <1>2 DEF PlayerSound, Plays, NoLoad
<1>5. OnMaps(x)'
  BY <1>1 DEF PlayerSound, OnMaps
<1>6. Kept(x)'
  <2>1. PICK v : v = inv'[x]
    OBVIOUS
  <2>2. Stored(row, queue \o s, x) = v
    <3>1. \A j \in WritesOf(s, x) : s[j].rows[x] = v
      BY <2>1
    <3>2. queue \in Seq(Command) /\ WritesOf(s, x) # {}
      BY <1>1
    <3>3. Leaves(row, queue \o s, x, v)
      BY <3>1, <3>2, GrowNew
    <3> QED
      BY <3>3 DEF Leaves
  <2>3. PICK n, h : n = sid[x] /\ h = home[x]
    OBVIOUS
  <2>4. Followed(queue \o s, x, n, h)
    BY <1>1, <2>3, FollowedNew
  <2> QED
    BY <2>1, <2>2, <2>3, <2>4 DEF Kept
<1> QED
  BY <1>3, <1>4, <1>5, <1>6 DEF PlayerSound

LEMMA CommitTradeKeeps ==
  ASSUME IInv, NEW p \in Players, NEW q \in Players, NEW c \in Channels, CommitTrade(c, p, q)
  PROVE  IInv'
<1>1. /\ phase[c] = "jobs" /\ p # q
      /\ stage[p] = "playing" /\ home[p] = c /\ stage[q] = "playing" /\ home[q] = c
      /\ UNCHANGED <<server, phase, events, row, faults, torn, failed, sid, online, stage, home,
                     grid, dirty, ground, late>>
  BY DEF CommitTrade, InJobs, Owns
<1>2. PICK S \in SUBSET (inv[p] \cup inv[q]) :
         /\ inv' = [inv EXCEPT ![p] = (@ \ S) \cup (inv[q] \cap S),
                               ![q] = (@ \ S) \cup (inv[p] \cap S)]
         /\ Enqueue(TradeCommit(p, q, inv', c))
  BY DEF CommitTrade
<1>3. /\ inv' \in [Players -> SUBSET Items]
      /\ inv'[p] = (inv[p] \ S) \cup (inv[q] \cap S) /\ inv'[q] = (inv[q] \ S) \cup (inv[p] \cap S)
      /\ \A x \in Players \ {p, q} : inv'[x] = inv[x]
  <2>1. inv \in [Players -> SUBSET Items]
    BY DEF IInv, TypeOK
  <2> QED
    BY <1>1, <1>2, <2>1
<1>4. PICK cmd : cmd = [kind |-> "trade", who |-> p, sid |-> [x \in {p, q} |-> sid[x]],
                        rows |-> [x \in {p, q} |-> inv'[x]], reply |-> c]
  OBVIOUS
<1>5. cmd \in Command
  <2>1. {p, q} \in SUBSET Players
    OBVIOUS
  <2>2. [x \in {p, q} |-> sid[x]] \in [{p, q} -> LoginNumbers]
    BY EventsTyped
  <2>3. [x \in {p, q} |-> inv'[x]] \in [{p, q} -> SUBSET Items]
    BY <1>2, <1>3
  <2> QED
    BY <1>4, <2>1, <2>2, <2>3, MakeCommand
<1>6. /\ cmd.kind = "trade" /\ cmd.reply = c /\ DOMAIN cmd.sid = {p, q} /\ DOMAIN cmd.rows = {p, q}
      /\ cmd.sid[p] = sid[p] /\ cmd.sid[q] = sid[q]
      /\ cmd.rows[p] = inv'[p] /\ cmd.rows[q] = inv'[q]
  BY <1>2, <1>4
<1>7. PICK s \in Seq(Command) : s = <<cmd>> /\ Range(s) = {cmd} /\ DOMAIN s = {1} /\ s[1] = cmd
  BY <1>5, One
<1>8. queue' = queue \o s /\ queue \in Seq(Command) /\ queue' = queue \o <<cmd>>
  BY <1>2, <1>4, <1>7, EventsTyped DEF Enqueue, TradeCommit
<1>9. \A d \in Range(s) : SessionWrites(d)
  BY <1>6, <1>7 DEF SessionWrites
<1>10. /\ queue' \in Seq(Command) /\ CommandsSound'
       /\ OnceAsked(queue') /\ NotBoth(queue', events)
       /\ \A x, n : \A d \in Range(s) : ~ Asks(d, x, n)
  BY <1>1, <1>8, <1>9, NewWrites
<1>11. /\ WritesOf(s, p) = {1} /\ WritesOf(s, q) = {1}
       /\ \A x : x \notin {p, q} => WritesOf(s, x) = {}
  BY <1>6, <1>7 DEF WritesOf
<1>12. TypeOK'
  BY <1>1, <1>3, <1>10 DEF IInv, TypeOK
<1>13. EventsSound' /\ EntersSound' /\ LoadsSound'
  BY <1>1, <1>10 DEF IInv, EventsSound, EntersSound, EnterOf, LoadsSound
<1>14. PlayerSound(p)' /\ PlayerSound(q)'
  BY <1>1, <1>6, <1>7, <1>8, <1>9, <1>11, TradeSide
<1>15. ASSUME NEW x \in Players, x \notin {p, q} PROVE PlayerSound(x)'
  <2>1. Aside(s, x, sid[x])
    BY <1>10, <1>11, <1>15 DEF Aside
  <2>2. NoneFor(events, events', x, sid[x]) /\ KeptFor(events, events', x, sid[x], home[x])
    BY <1>1 DEF NoneFor, KeptFor
  <2> QED
    BY <1>1, <1>3, <1>8, <1>15, <2>1, <2>2, Bystander
<1>16. /\ Memory[p] = inv[p] /\ Memory[q] = inv[q] /\ Memory'[p] = inv'[p] /\ Memory'[q] = inv'[q]
       /\ \A x \in Players \ {p, q} : Memory'[x] = Memory[x]
  BY <1>1, <1>3 DEF Memory
<1>17. ItemsTraced'
  <2>1. SUFFICES ASSUME torn = {} PROVE Traceable(row, queue \o <<cmd>>, Memory')
    BY <1>1, <1>8 DEF ItemsTraced
  <2>2. Traceable(row, queue, Memory)
    BY <2>1 DEF IInv, ItemsTraced
  <2>3. inv[p] \cap inv[q] = {}
    BY <1>1, <1>8, <1>16, <2>2, TraceReads
  <2>4. PICK o2 : o2 = Memory'
    OBVIOUS
  <2>5. o2[p] \cup o2[q] \subseteq Memory[p] \cup Memory[q] /\ o2[p] \cap o2[q] = {}
    BY <1>3, <1>16, <2>3, <2>4
  <2>6. cmd.rows[p] = o2[p] /\ cmd.rows[q] = o2[q] /\ \A x \in Players \ {p, q} : o2[x] = Memory[x]
    BY <1>6, <1>16, <2>4
  <2>7. Traceable(row, queue \o <<cmd>>, o2)
    BY <1>1, <1>5, <1>6, <1>8, <2>2, <2>5, <2>6, TraceTrade
  <2> QED
    BY <2>4, <2>7
<1>18. GroundFirm'
  <2>1. SUFFICES ASSUME torn = {}, NEW x \in Players, NEW i \in ground \cap Memory'[x]
                 PROVE  Firm(row, queue \o s, x, i)
    BY <1>1, <1>8 DEF GroundFirm
  <2>2. CASE x \in {p, q}
    <3>1. \A j \in WritesOf(s, x) : i \in s[j].rows[x]
      BY <1>6, <1>7, <1>11, <1>16, <2>1, <2>2
    <3>2. \E j \in WritesOf(s, x) : s[j].kind = "trade"
      BY <1>6, <1>7, <1>11, <2>2
    <3> QED
      BY <1>8, <3>1, <3>2, FirmGrow
  <2>3. CASE x \notin {p, q}
    <3>1. Firm(row, queue, x, i)
      BY <1>16, <2>1, <2>3 DEF IInv, GroundFirm
    <3>2. WritesOf(s, x) = {}
      BY <1>11, <2>3
    <3> QED
      BY <1>8, <3>1, <3>2, FirmGrow
  <2> QED
    BY <2>2, <2>3
<1>19. PlayersSound'
  BY <1>14, <1>15 DEF PlayersSound
<1> QED
  BY <1>10, <1>12, <1>13, <1>17, <1>18, <1>19 DEF IInv

\* A step that concerns others and leaves the queue alone.
LEMMA Elsewhere ==
  ASSUME IInv, NEW x \in Players, queue' = queue,
         row' = row, stage'[x] = stage[x], sid'[x] = sid[x], home'[x] = home[x], grid'[x] = grid[x],
         inv'[x] = inv[x], dirty'[x] = dirty[x], x \in failed' <=> x \in failed, x \in late' <=> x \in late,
         stage[x] = "playing" => (phase'[home[x]] = "stopped" <=> phase[home[x]] = "stopped"),
         NoneFor(events, events', x, sid[x]),
         Active(x) => KeptFor(events, events', x, sid[x], home[x])
  PROVE  PlayerSound(x)'
<1>1. PICK s \in Seq(Command) : s = <<>>
  BY EmptySeq
<1>2. DOMAIN s = {} /\ Range(s) = {}
  BY <1>1 DEF Range
<1>3. queue' = queue \o s
  BY <1>1, EventsTyped, ConcatEmptySeq
<1>4. Aside(s, x, sid[x])
  BY <1>2 DEF Aside, WritesOf
<1> QED
  BY <1>3, <1>4, Bystander

LEMMA ChangeChannelKeeps ==
  ASSUME IInv, NEW p \in Players, NEW c \in Channels, NEW t \in Channels, ChangeChannel(c, p, t)
  PROVE  IInv'
<1>1. /\ phase[c] = "jobs" /\ stage[p] = "playing" /\ home[p] = c /\ t # c
      /\ dirty' = [dirty EXCEPT ![p] = TRUE] /\ grid' = [grid EXCEPT ![p] = Nowhere]
      /\ home' = [home EXCEPT ![p] = t] /\ events' = Posted(events, t, Ev("arrive", p))
      /\ late' = IF phase[t] = "stopped" THEN late \cup {p} ELSE late
      /\ UNCHANGED <<server, phase, queue, row, faults, torn, failed, sid, online, stage, inv, ground>>
  BY DEF ChangeChannel, InJobs, Owns, MarkMoved, Post, Posted, dbVars
<1>2. /\ dirty' \in [Players -> BOOLEAN] /\ grid' \in [Players -> Channels \cup {Nowhere}]
      /\ home' \in [Players -> Channels \cup {Nowhere}] /\ late' \subseteq Players
      /\ dirty'[p] /\ grid'[p] = Nowhere /\ home'[p] = t
      /\ \A x \in Players : x # p => dirty'[x] = dirty[x] /\ grid'[x] = grid[x] /\ home'[x] = home[x]
      /\ \A x \in Players : x # p => (x \in late' <=> x \in late)
      /\ phase[t] = "stopped" => p \in late'
  BY <1>1 DEF IInv, TypeOK
<1>3. PICK e \in Event : e = Ev("arrive", p) /\ e.kind = "arrive" /\ e.who = p /\ e.sid = sid[p]
  BY EventsTyped, EvFacts
<1>4. PICK s \in Seq(Event) : s = <<e>> /\ Range(s) = {e}
  BY One
<1>5. events' = Put(events, t, s) /\ events \in [Channels -> Seq(Event)]
  BY <1>1, <1>3, <1>4, EventsTyped, PostedIsPut
<1>6. /\ events' \in [Channels -> Seq(Event)]
      /\ \A d \in Channels : Range(events[d]) \subseteq Range(events'[d])
      /\ \A d \in Channels : \A x \in Range(events'[d]) : x \in Range(events[d]) \/ (d = t /\ x = e)
      /\ e \in Range(events'[t])
  <2>1. PICK u : u = Put(events, t, s)
    OBVIOUS
  <2>2. /\ u \in [Channels -> Seq(Event)]
        /\ \A d \in Channels : Range(events[d]) \subseteq Range(u[d])
        /\ \A d \in Channels : \A x \in Range(u[d]) : x \in Range(events[d]) \/ (d = t /\ x \in Range(s))
        /\ Range(s) \subseteq Range(u[t])
    BY <1>5, <2>1, PutMail
  <2> QED
    BY <1>4, <1>5, <2>1, <2>2
<1>7. OnceBrought(events')
  <2>1. \A x \in Range(s) : \A y, n : ~ Brings(x, y, n)
    BY <1>3, <1>4 DEF Brings
  <2>2. \A i \in DOMAIN s : s[i] \in Range(s)
    BY DEF Range
  <2>3. OnceBrought(Put(events, t, s))
    BY <1>5, <2>1, <2>2, EventsTyped, BroughtPut
  <2> QED
    BY <1>5, <2>3
<1>8. TypeOK'
  BY <1>1, <1>2, <1>6, SavingAssumption DEF IInv, TypeOK
<1>9. CommandsSound'
  BY <1>1 DEF IInv, CommandsSound
<1>10. EventsSound'
  <2>1. sid[p] \in Nat /\ e.sid =< sid[e.who]
    BY <1>3, EventsTyped
  <2>2. \A d \in Channels : \A x \in Range(events[d]) : x.sid =< sid[x.who]
    BY DEF IInv, EventsSound
  <2>3. \A d \in Channels : \A x \in Range(events'[d]) : x.sid =< sid[x.who]
    BY <1>6, <2>1, <2>2
  <2> QED
    BY <1>1, <2>3 DEF EventsSound
<1>11. EntersSound'
  <2>1. SUFFICES ASSUME NEW d \in Channels, NEW x \in Range(events'[d]), x.kind = "enter"
                 PROVE  EnterOf(d, x)'
    BY DEF EntersSound
  <2>2. x \in Range(events[d]) /\ events[d] \in Seq(Event)
    BY <1>3, <1>6, <2>1, EventsTyped
  <2>3. EnterOf(d, x) /\ x.who \in Players
    BY <2>1, <2>2, RangeOfSeq, EventFacts DEF IInv, EntersSound
  <2>4. x.who = p => x.sid # sid[p]
    BY <1>1, <2>3 DEF EnterOf
  <2> QED
    BY <1>1, <1>2, <2>3, <2>4 DEF EnterOf
<1>12. LoadsSound'
  <2>1. NotBoth(queue, events')
    BY <1>3, <1>6 DEF IInv, LoadsSound, NotBoth, Brings
  <2> QED
    BY <1>1, <1>7, <2>1 DEF IInv, LoadsSound
<1>13. PlayerSound(p)'
  <2>1. PlayerSound(p)
    BY DEF IInv, PlayersSound
  <2>2. Waits(p)' /\ Kept(p)'
    BY <1>1, <1>2 DEF Waits, Kept
  <2>3. Plays(p)'
    BY <1>1, <1>3, <1>6, <2>1 DEF PlayerSound, Plays, NoLoad, Brings
  <2>4. OnMaps(p)'
    <3>1. Calls(e, p, sid[p])
      BY <1>3 DEF Calls
    <3> QED
      BY <1>1, <1>2, <1>6, <3>1 DEF OnMaps
  <2>5. Rests(p)'
    BY <1>1, <1>2 DEF Rests
  <2> QED
    BY <2>2, <2>3, <2>4, <2>5 DEF PlayerSound
<1>14. ASSUME NEW x \in Players, x # p PROVE PlayerSound(x)'
  <2>1. NoneFor(events, events', x, sid[x])
    BY <1>3, <1>6 DEF NoneFor, Brings
  <2>2. Active(x) => KeptFor(events, events', x, sid[x], home[x])
    <3>1. Active(x) => home[x] \in Channels
      BY HomeOfPresent DEF Active
    <3> QED
      BY <1>6, <3>1 DEF KeptFor
  <2> QED
    BY <1>1, <1>2, <1>14, <2>1, <2>2, Elsewhere
<1>15. ItemsTraced' /\ GroundFirm'
  BY <1>1, StoreSound
<1>16. PlayersSound'
  BY <1>13, <1>14 DEF PlayersSound
<1> QED
  BY <1>8, <1>9, <1>10, <1>11, <1>12, <1>15, <1>16 DEF IInv

-----------------------------------------------------------------------------
(* Saves.                                                                    *)

\* Channels queue saves of what these players hold.
SavesOf(s, S, c) ==
  /\ \A k \in DOMAIN s : \E p \in S : IsSave(s[k], p, inv[p], sid[p], c)
  /\ \A p \in S : \E k \in DOMAIN s : IsSave(s[k], p, inv[p], sid[p], c)

LEMMA SavesOfFacts ==
  ASSUME NEW S \in SUBSET Players, NEW s, NEW c, SavesOf(s, S, c)
  PROVE  /\ \A cmd \in Range(s) : SessionWrites(cmd)
         /\ \A p : p \notin S => WritesOf(s, p) = {}
         /\ \A p \in S : WritesOf(s, p) # {}
         /\ \A p : \A k \in WritesOf(s, p) : IsSave(s[k], p, inv[p], sid[p], c)
         /\ \A k \in DOMAIN s : \A p \in DOMAIN s[k].rows : p \in S /\ IsSave(s[k], p, inv[p], sid[p], c)
<1>1. /\ \A k \in DOMAIN s : \E p \in S : IsSave(s[k], p, inv[p], sid[p], c)
      /\ \A p \in S : \E k \in DOMAIN s : IsSave(s[k], p, inv[p], sid[p], c)
  BY DEF SavesOf
<1>2. ASSUME NEW cmd \in Range(s) PROVE SessionWrites(cmd)
  <2>1. PICK k \in DOMAIN s : cmd = s[k]
    BY DEF Range
  <2>2. PICK p \in S : IsSave(cmd, p, inv[p], sid[p], c)
    BY <1>1, <2>1
  <2> QED
    BY <2>2 DEF IsSave, SessionWrites
<1>3. \A k \in DOMAIN s : \A p \in DOMAIN s[k].rows : p \in S /\ IsSave(s[k], p, inv[p], sid[p], c)
  <2> TAKE k \in DOMAIN s
  <2>1. PICK p \in S : IsSave(s[k], p, inv[p], sid[p], c)
    BY <1>1
  <2>2. DOMAIN s[k].rows = {p}
    BY <2>1 DEF IsSave
  <2> QED
    BY <2>1, <2>2
<1>4. ASSUME NEW p \in S PROVE WritesOf(s, p) # {}
  <2>1. PICK k \in DOMAIN s : IsSave(s[k], p, inv[p], sid[p], c)
    BY <1>1
  <2> QED
    BY <2>1 DEF IsSave, WritesOf
<1>5. \A p : \A k \in WritesOf(s, p) : p \in S /\ IsSave(s[k], p, inv[p], sid[p], c)
  BY <1>3 DEF WritesOf
<1> QED
  BY <1>2, <1>3, <1>4, <1>5

\* What they do to the queue and to the items.
LEMMA SavesQueued ==
  ASSUME IInv, NEW S \in SUBSET Players, NEW s \in Seq(Command), NEW c, SavesOf(s, S, c),
         \A p \in S : stage[p] = "playing",
         queue' = queue \o s, sid' = sid, row' = row, torn' = torn, ground' = ground,
         \A x \in Players : Memory'[x] \subseteq Memory[x]
  PROVE  /\ queue' \in Seq(Command) /\ CommandsSound' /\ OnceAsked(queue') /\ NotBoth(queue', events)
         /\ ItemsTraced' /\ GroundFirm'
         /\ \A x \in Players : x \notin S => Aside(s, x, sid[x])
         /\ \A x : \A cmd \in Range(queue') : cmd \in Range(queue) \/ ~ Asks(cmd, x, sid[x])
<1>1. queue \in Seq(Command)
  BY EventsTyped
<1>2. /\ \A cmd \in Range(s) : SessionWrites(cmd)
      /\ \A p : p \notin S => WritesOf(s, p) = {}
      /\ \A p : \A k \in WritesOf(s, p) : IsSave(s[k], p, inv[p], sid[p], c)
      /\ \A k \in DOMAIN s : \A p \in DOMAIN s[k].rows : p \in S /\ IsSave(s[k], p, inv[p], sid[p], c)
  BY SavesOfFacts
<1>3. /\ queue' \in Seq(Command) /\ CommandsSound' /\ OnceAsked(queue') /\ NotBoth(queue', events)
      /\ Range(queue') = Range(queue) \cup Range(s)
      /\ \A x, n : \A cmd \in Range(s) : ~ Asks(cmd, x, n)
  BY <1>2, NewWrites
<1>4. \A p \in S : Memory[p] = inv[p]
  BY DEF Memory
<1>5. \A k \in DOMAIN s : \A p \in DOMAIN s[k].rows : s[k].rows[p] = Memory[p]
  BY <1>2, <1>4 DEF IsSave
<1>6. ItemsTraced'
  <2>1. SUFFICES ASSUME torn = {} PROVE Traceable(row, queue \o s, Memory')
    BY DEF ItemsTraced
  <2>2. Traceable(row, queue, Memory)
    BY <2>1 DEF IInv, ItemsTraced
  <2>3. Traceable(row, queue \o s, Memory)
    BY <1>1, <1>5, <2>2, TraceSaves
  <2>4. PICK o2, q2 : o2 = Memory' /\ q2 = queue \o s /\ q2 \in Seq(Command)
    BY <1>3
  <2>5. \A x \in Players : o2[x] \ Memory[x] = {}
    BY <2>4
  <2>6. Traceable(row, q2, o2)
    BY <2>3, <2>4, <2>5, TraceMemory
  <2> QED
    BY <2>4, <2>6
<1>7. GroundFirm'
  <2>1. SUFFICES ASSUME torn = {}, NEW x \in Players, NEW i \in ground \cap Memory[x]
                 PROVE  Firm(row, queue \o s, x, i)
    BY DEF GroundFirm
  <2>2. Firm(row, queue, x, i)
    BY <2>1 DEF IInv, GroundFirm
  <2>3. \A j \in WritesOf(s, x) : i \in s[j].rows[x]
    BY <1>5, <2>1 DEF WritesOf
  <2> QED
    BY <1>1, <2>2, <2>3, FirmGrow
<1>8. \A x \in Players : x \notin S => Aside(s, x, sid[x])
  BY <1>2, <1>3 DEF Aside
<1> QED
  BY <1>3, <1>6, <1>7, <1>8

\* The value such a save leaves.
LEMMA SavedValue ==
  ASSUME IInv, NEW S \in SUBSET Players, NEW s \in Seq(Command), NEW c, SavesOf(s, S, c),
         NEW x \in S
  PROVE  /\ Stored(row, queue \o s, x) = inv[x] /\ WritesOf(queue \o s, x) # {}
         /\ Followed(queue \o s, x, sid[x], c)
<1>1. queue \in Seq(Command)
  BY EventsTyped
<1>2. WritesOf(s, x) # {} /\ \A k \in WritesOf(s, x) : IsSave(s[k], x, inv[x], sid[x], c)
  BY SavesOfFacts
<1>3. PICK v, n : v = inv[x] /\ n = sid[x]
  OBVIOUS
<1>4. \A k \in WritesOf(s, x) : s[k].rows[x] = v
  BY <1>2, <1>3 DEF IsSave
<1>5. \A k \in WritesOf(s, x) : s[k].reply = c /\ s[k].sid[x] = n
  BY <1>2, <1>3 DEF IsSave
<1>6. Leaves(row, queue \o s, x, v)
  BY <1>1, <1>2, <1>4, GrowNew
<1>7. Followed(queue \o s, x, n, c)
  BY <1>1, <1>2, <1>5, FollowedNew
<1> QED
  BY <1>3, <1>6, <1>7 DEF Leaves

LEMMA LeaveKeeps ==
  ASSUME IInv, NEW c \in Channels, Leave(c)
  PROVE  IInv'
<1>1. Take(c, "leave") /\ Session(c) /\ home[Who(c)] = c /\ events' = Rest(c)
  BY DEF Leave
<1>2. PICK f \in Event : f = Head(events[c]) /\ f.kind = "leave" /\ f.who = Who(c)
  BY <1>1, TakeFacts
<1>3. PICK p \in Players : p = Who(c) /\ stage[p] # "out" /\ home[p] = c
  BY <1>1, TakeFacts DEF Session
<1>4. /\ queue' = queue \o (IF stage[p] = "playing" THEN LastSave(p) ELSE <<>>)
      /\ stage' = [stage EXCEPT ![p] = "out"] /\ home' = [home EXCEPT ![p] = Nowhere]
      /\ grid' = [grid EXCEPT ![p] = Nowhere] /\ dirty' = [dirty EXCEPT ![p] = FALSE]
      /\ UNCHANGED <<server, phase, row, faults, torn, failed, sid, online, inv, ground, late>>
  BY <1>3 DEF Leave, Enqueue
<1>5. /\ stage'[p] = "out" /\ home'[p] = Nowhere /\ grid'[p] = Nowhere
      /\ dirty' \in [Players -> BOOLEAN]
      /\ stage' \in [Players -> {"out", "loading", "playing"}]
      /\ home' \in [Players -> Channels \cup {Nowhere}] /\ grid' \in [Players -> Channels \cup {Nowhere}]
      /\ \A x \in Players : x # p => /\ stage'[x] = stage[x] /\ home'[x] = home[x]
                                     /\ grid'[x] = grid[x] /\ dirty'[x] = dirty[x]
  BY <1>4 DEF IInv, TypeOK
<1>6. /\ events' \in [Channels -> Seq(Event)] /\ Calm(events, events', sid) /\ OnceBrought(events')
      /\ Keeps(events, events', c, f)
  BY <1>1, <1>2, TakeFacts
<1>7. PICK S \in SUBSET Players, s \in Seq(Command) :
         /\ S = (IF stage[p] = "playing" THEN {p} ELSE {}) /\ SavesOf(s, S, Nowhere)
         /\ queue' = queue \o s
  <2>1. CASE stage[p] = "playing"
    <3>1. inv[p] \in SUBSET Items /\ sid \in [Players -> LoginNumbers]
      BY EventsTyped DEF IInv, TypeOK
    <3>2. PICK cmd \in Command : cmd = Save(p, inv[p], Nowhere) /\ IsSave(cmd, p, inv[p], sid[p], Nowhere)
      BY <3>1, SaveFacts
    <3>3. PICK s \in Seq(Command) : s = <<cmd>> /\ DOMAIN s = {1} /\ s[1] = cmd
      BY One
    <3>4. SavesOf(s, {p}, Nowhere)
      BY <3>2, <3>3 DEF SavesOf
    <3>5. queue' = queue \o s
      BY <1>4, <2>1, <3>2, <3>3 DEF LastSave
    <3> QED
      BY <2>1, <3>4, <3>5
  <2>2. CASE stage[p] # "playing"
    <3>1. PICK s \in Seq(Command) : s = <<>>
      BY EmptySeq
    <3>2. DOMAIN s = {}
      BY <3>1
    <3>3. SavesOf(s, {}, Nowhere)
      BY <3>2 DEF SavesOf
    <3> QED
      BY <1>4, <2>2, <3>1, <3>3
  <2> QED
    BY <2>1, <2>2
<1>8. \A x \in Players : Memory'[x] \subseteq Memory[x]
  BY <1>4, <1>5 DEF Memory
<1>9. /\ queue' \in Seq(Command) /\ CommandsSound' /\ OnceAsked(queue') /\ NotBoth(queue', events)
      /\ ItemsTraced' /\ GroundFirm'
      /\ \A x \in Players : x \notin S => Aside(s, x, sid[x])
  <2>1. \A x \in S : stage[x] = "playing"
    BY <1>7
  <2> QED
    BY <1>4, <1>7, <1>8, <2>1, SavesQueued
<1>10. TypeOK'
  BY <1>4, <1>5, <1>6, <1>9 DEF IInv, TypeOK
<1>11. EventsSound'
  BY <1>4, <1>6 DEF IInv, EventsSound, Calm
<1>12. EntersSound'
  <2>1. SUFFICES ASSUME NEW d \in Channels, NEW x \in Range(events'[d]), x.kind = "enter"
                 PROVE  EnterOf(d, x)'
    BY DEF EntersSound
  <2>2. x \in Range(events[d]) /\ events[d] \in Seq(Event)
    BY <1>6, <2>1, EventsTyped DEF Calm
  <2>3. EnterOf(d, x) /\ x.who \in Players
    BY <2>1, <2>2, RangeOfSeq, EventFacts DEF IInv, EntersSound
  <2> QED
    BY <1>4, <1>5, <2>3 DEF EnterOf
<1>13. LoadsSound'
  <2>1. NotBoth(queue', events')
    BY <1>6, <1>9 DEF NotBoth, Calm, Brings
  <2> QED
    BY <1>6, <1>9, <2>1 DEF LoadsSound
<1>14. PlayerSound(p)'
  <2>1. Waits(p)' /\ Plays(p)' /\ OnMaps(p)' /\ Kept(p)'
    BY <1>5 DEF Waits, Plays, OnMaps, Kept, Active
  <2>2. Rests(p)'
    <3>1. CASE stage[p] = "playing"
      <4>1. p \in S
        BY <1>7, <3>1
      <4>2. Stored(row, queue \o s, p) = inv[p]
        BY <1>7, <4>1, SavedValue
      <4> QED
        BY <1>4, <1>7, <4>2 DEF Rests
    <3>2. CASE stage[p] # "playing"
      <4>1. Rests(p)
        BY DEF IInv, PlayersSound, PlayerSound
      <4>2. WritesOf(s, p) = {}
        BY <1>7, <3>2, SavesOfFacts
      <4>3. WritesOf(queue', p) = WritesOf(queue, p) /\ Stored(row, queue', p) = Stored(row, queue, p)
        BY <1>7, <4>2, EventsTyped, GrowSame
      <4> QED
        BY <1>4, <3>2, <4>1, <4>3 DEF Rests
    <3> QED
      BY <3>1, <3>2
  <2> QED
    BY <2>1, <2>2 DEF PlayerSound
<1>15. ASSUME NEW x \in Players, x # p PROVE PlayerSound(x)'
  <2>1. Aside(s, x, sid[x])
    BY <1>7, <1>9, <1>15
  <2>2. NoneFor(events, events', x, sid[x])
    BY <1>6 DEF NoneFor, Calm, Brings
  <2>3. Active(x) => KeptFor(events, events', x, sid[x], home[x])
    <3>1. Active(x) => home[x] \in Channels
      BY HomeOfPresent DEF Active
    <3>2. ~ Calls(f, x, sid[x]) /\ ~ Warns(f, x, sid[x])
      BY <1>2 DEF Calls, Warns
    <3> QED
      BY <1>6, <3>1, <3>2 DEF KeptFor, Keeps
  <2> QED
    BY <1>4, <1>5, <1>7, <1>15, <2>1, <2>2, <2>3, Bystander
<1>16. PlayersSound'
  BY <1>14, <1>15 DEF PlayersSound
<1> QED
  BY <1>9, <1>10, <1>11, <1>12, <1>13, <1>16 DEF IInv

LEMMA EndTickKeeps ==
  ASSUME IInv, NEW c \in Channels, EndTick(c)
  PROVE  IInv'
<1>1. /\ phase[c] = "jobs"
      /\ phase' = [phase EXCEPT ![c] = IF server = "stopping" THEN "draining" ELSE "events"]
      /\ UNCHANGED <<server, events, row, faults, torn, failed, sid, online, stage, home, grid, inv,
                     ground, late>>
  BY DEF EndTick, InJobs
<1>2. /\ phase' \in [Channels -> {"events", "jobs", "draining", "stopped"}]
      /\ phase'[c] \in {"events", "draining"} /\ server' \in {"up", "closed", "stopping"}
      /\ \A d \in Channels : d # c => phase'[d] = phase[d]
  BY <1>1 DEF IInv, TypeOK
<1>3. CASE UNCHANGED <<queue, dirty>>
  BY <1>1, <1>2, <1>3, PhasesOnly DEF dbVars, playerVars
<1>4. CASE Autosave(c)
  <2>1. PICK S \in SUBSET Players : S = {p \in Players : grid[p] = c /\ dirty[p]}
    OBVIOUS
  <2>2. /\ queue' = queue \o SeqOfSaves(S, c)
        /\ dirty' = [p \in Players |-> dirty[p] /\ p \notin S]
    BY <1>4, <2>1 DEF Autosave, Enqueue
  <2>3. PICK s \in Seq(Command) : s = SeqOfSaves(S, c) /\ SavesOf(s, S, c)
    <3>1. sid \in [Players -> LoginNumbers] /\ inv \in [Players -> SUBSET Items]
      BY DEF IInv, TypeOK
    <3> QED
      BY <3>1, SavesFacts DEF SavesOf
  <2>4. \A x \in S : stage[x] = "playing" /\ home[x] = c /\ grid[x] = c
    BY <2>1, SavingAssumption DEF IInv, TypeOK, PlayersSound, PlayerSound, OnMaps
  <2>5. \A x \in Players : Memory'[x] \subseteq Memory[x]
    BY <1>1, MemorySame
  <2>6. /\ queue' \in Seq(Command) /\ CommandsSound' /\ OnceAsked(queue') /\ NotBoth(queue', events)
        /\ ItemsTraced' /\ GroundFirm'
        /\ \A x \in Players : x \notin S => Aside(s, x, sid[x])
        /\ \A x : \A cmd \in Range(queue') : cmd \in Range(queue) \/ ~ Asks(cmd, x, sid[x])
    BY <1>1, <2>2, <2>3, <2>4, <2>5, SavesQueued
  <2>7. dirty' \in [Players -> BOOLEAN] /\ \A x \in Players : x \notin S => dirty'[x] = dirty[x]
    BY <2>2 DEF IInv, TypeOK
  <2>8. TypeOK'
    BY <1>1, <1>2, <2>6, <2>7 DEF IInv, TypeOK
  <2>9. EventsSound' /\ LoadsSound'
    BY <1>1, <2>6 DEF IInv, EventsSound, LoadsSound
  <2>10. EntersSound'
    BY <1>1, <1>2 DEF IInv, EntersSound, EnterOf
  <2>11. ASSUME NEW x \in S PROVE PlayerSound(x)'
    <3>1. PlayerSound(x) /\ stage[x] = "playing" /\ home[x] = c /\ grid[x] = c
      BY <2>4 DEF IInv, PlayersSound
    <3>2. Waits(x)' /\ OnMaps(x)' /\ Rests(x)'
      BY <1>1, <1>2, <3>1 DEF Waits, OnMaps, Rests
    <3>3. Plays(x)'
      BY <1>1, <2>6, <3>1 DEF PlayerSound, Plays, NoLoad
    <3>4. Stored(row, queue \o s, x) = inv[x] /\ Followed(queue \o s, x, sid[x], c)
      BY <2>3, SavedValue
    <3>5. Kept(x)'
      BY <1>1, <2>2, <2>3, <3>1, <3>4 DEF Kept
    <3> QED
      BY <3>2, <3>3, <3>5 DEF PlayerSound
  <2>12. ASSUME NEW x \in Players, x \notin S PROVE PlayerSound(x)'
    <3>1. Aside(s, x, sid[x]) /\ dirty'[x] = dirty[x]
      BY <2>6, <2>7, <2>12
    <3>2. NoneFor(events, events', x, sid[x]) /\ KeptFor(events, events', x, sid[x], home[x])
      BY <1>1 DEF NoneFor, KeptFor
    <3>3. stage[x] = "playing" => (phase'[home[x]] = "stopped" <=> phase[home[x]] = "stopped")
      BY <1>1, <1>2, HomeOfPresent
    <3> QED
      BY <1>1, <2>2, <2>3, <3>1, <3>2, <3>3, Bystander
  <2>13. PlayersSound'
    BY <2>11, <2>12 DEF PlayersSound
  <2> QED
    BY <2>6, <2>8, <2>9, <2>10, <2>13 DEF IInv
<1> QED
  BY <1>3, <1>4 DEF EndTick

\* Nobody whom the channel still serves is left out: who is not in its maps has an event there.
LEMMA ShutdownSaveKeeps ==
  ASSUME IInv, NEW c \in Channels, ShutdownSave(c)
  PROVE  IInv'
<1>1. /\ phase[c] = "draining" /\ events[c] = <<>>
      /\ phase' = [phase EXCEPT ![c] = "stopped"]
      /\ UNCHANGED <<server, events, row, faults, torn, failed, sid, online, stage, home, grid, inv, dirty,
                     ground, late>>
  BY DEF ShutdownSave, Drained, playerVars
<1>2. /\ phase' \in [Channels -> {"events", "jobs", "draining", "stopped"}]
      /\ phase'[c] = "stopped"
      /\ \A d \in Channels : d # c => phase'[d] = phase[d]
  BY <1>1 DEF IInv, TypeOK
<1>3. PICK S \in SUBSET Players : S = {p \in Players : grid[p] = c}
  OBVIOUS
<1>4. queue' = queue \o SeqOfSaves(S, Nowhere)
  BY <1>3 DEF ShutdownSave, Enqueue
<1>5. PICK s \in Seq(Command) : s = SeqOfSaves(S, Nowhere) /\ SavesOf(s, S, Nowhere)
  <2>1. sid \in [Players -> LoginNumbers] /\ inv \in [Players -> SUBSET Items]
    BY DEF IInv, TypeOK
  <2> QED
    BY <2>1, SavesFacts DEF SavesOf
<1>6. \A x \in S : stage[x] = "playing" /\ home[x] = c /\ grid[x] = c
  BY <1>3, SavingAssumption DEF IInv, TypeOK, PlayersSound, PlayerSound, OnMaps
<1>7. \A x \in Players : Memory'[x] \subseteq Memory[x]
  BY <1>1, MemorySame
<1>8. /\ queue' \in Seq(Command) /\ CommandsSound' /\ OnceAsked(queue') /\ NotBoth(queue', events)
      /\ ItemsTraced' /\ GroundFirm'
      /\ \A x \in Players : x \notin S => Aside(s, x, sid[x])
      /\ \A x : \A cmd \in Range(queue') : cmd \in Range(queue) \/ ~ Asks(cmd, x, sid[x])
  BY <1>1, <1>4, <1>5, <1>6, <1>7, SavesQueued
<1>9. TypeOK'
  BY <1>1, <1>2, <1>8 DEF IInv, TypeOK
<1>10. EventsSound' /\ LoadsSound'
  BY <1>1, <1>8 DEF IInv, EventsSound, LoadsSound
<1>11. Range(events[c]) = {}
  BY <1>1 DEF Range
<1>12. EntersSound'
  <2>1. SUFFICES ASSUME NEW d \in Channels, NEW e \in Range(events[d]), e.kind = "enter"
                 PROVE  EnterOf(d, e)'
    BY <1>1 DEF EntersSound
  <2>2. EnterOf(d, e) /\ d # c
    BY <1>11, <2>1 DEF IInv, EntersSound
  <2> QED
    BY <1>1, <1>2, <2>2 DEF EnterOf
<1>13. ASSUME NEW x \in S PROVE PlayerSound(x)'
  <2>1. PlayerSound(x) /\ stage[x] = "playing" /\ home[x] = c /\ grid[x] = c
    BY <1>6 DEF IInv, PlayersSound
  <2>2. Waits(x)' /\ OnMaps(x)' /\ Kept(x)'
    BY <1>1, <1>2, <2>1 DEF Waits, OnMaps, Kept, Active
  <2>3. Plays(x)'
    BY <1>1, <1>8, <2>1 DEF PlayerSound, Plays, NoLoad
  <2>4. Stored(row, queue \o s, x) = inv[x]
    BY <1>5, SavedValue
  <2>5. Rests(x)'
    BY <1>1, <1>4, <1>5, <2>4 DEF Rests
  <2> QED
    BY <2>2, <2>3, <2>5 DEF PlayerSound
<1>14. ASSUME NEW x \in Players, x \notin S PROVE PlayerSound(x)'
  <2>1. Aside(s, x, sid[x])
    BY <1>8, <1>14
  <2>2. NoneFor(events, events', x, sid[x]) /\ KeptFor(events, events', x, sid[x], home[x])
    BY <1>1 DEF NoneFor, KeptFor
  <2>3. stage[x] = "playing" => home[x] # c
    <3> SUFFICES ASSUME stage[x] = "playing", home[x] = c PROVE FALSE
      OBVIOUS
    <3>1. Active(x) /\ OnMaps(x)
      BY <1>1 DEF Active, IInv, PlayersSound, PlayerSound
    <3>2. grid[x] = c
      BY <1>11, <3>1 DEF OnMaps
    <3> QED
      BY <1>3, <1>14, <3>2
  <2>4. stage[x] = "playing" => (phase'[home[x]] = "stopped" <=> phase[home[x]] = "stopped")
    BY <1>2, <2>3, HomeOfPresent
  <2> QED
    BY <1>1, <1>4, <1>5, <2>1, <2>2, <2>4, Bystander
<1>15. PlayersSound'
  BY <1>13, <1>14 DEF PlayersSound
<1> QED
  BY <1>8, <1>9, <1>10, <1>12, <1>15 DEF IInv

-----------------------------------------------------------------------------
(* The DB thread.                                                            *)

LEMMA ExecuteFacts ==
  ASSUME IInv, Execute
  PROVE  /\ queue # <<>> /\ queue \in Seq(Command) /\ queue' = Tail(queue) /\ queue' \in Seq(Command)
         /\ Head(queue) \in Command /\ CommandOf(Head(queue), sid) /\ Head(queue) \in Range(queue)
         /\ Range(queue) = {Head(queue)} \cup Range(queue')
         /\ OnceAsked(queue') /\ CommandsSound'
         /\ \A p, n : Asks(Head(queue), p, n) => \A cmd \in Range(queue') : ~ Asks(cmd, p, n)
         /\ UNCHANGED <<server, phase, sid, online, stage, home, grid, inv, dirty, ground, late>>
<1>1. /\ queue # <<>> /\ queue' = Tail(queue)
      /\ UNCHANGED <<server, phase, sid, online, stage, home, grid, inv, dirty, ground, late>>
  BY DEF Execute, playerVars
<1>2. queue \in Seq(Command) /\ OnceAsked(queue)
  BY EventsTyped DEF IInv, LoadsSound
<1>3. /\ Tail(queue) \in Seq(Command) /\ Head(queue) \in Command
      /\ Range(queue) = {Head(queue)} \cup Range(Tail(queue))
  BY <1>1, <1>2, TailOf
<1>4. CommandOf(Head(queue), sid) /\ CommandsSound'
  BY <1>1, <1>3 DEF IInv, CommandsSound
<1>5. /\ OnceAsked(Tail(queue))
      /\ \A p, n : Asks(Head(queue), p, n) => \A cmd \in Range(Tail(queue)) : ~ Asks(cmd, p, n)
  BY <1>1, <1>2, AskedTail
<1> QED
  BY <1>1, <1>2, <1>3, <1>4, <1>5

\* A load is answered to the channel that asked, with what the rows hold at that time.
LEMMA LoadKeeps ==
  ASSUME IInv, Execute, Head(queue).kind = "load"
  PROVE  IInv'
<1>1. PICK told \in BOOLEAN : (told \/ faults < MaxFaults) /\ Load(Head(queue), told)
  BY DEF Execute
<1>2. PICK cmd \in Command : cmd = Head(queue) /\ cmd.kind = "load" /\ CommandOf(cmd, sid) /\ cmd \in Range(queue)
  BY ExecuteFacts
<1>3. /\ cmd.who \in Players /\ cmd.reply \in Channels /\ DOMAIN cmd.rows = {} /\ DOMAIN cmd.sid = {cmd.who}
      /\ cmd.sid[cmd.who] \in LoginNumbers /\ cmd.sid[cmd.who] =< sid[cmd.who]
  BY <1>2, CommandFacts DEF CommandOf, WellFormed
<1>4. PICK p \in Players, c \in Channels, n \in LoginNumbers :
         p = cmd.who /\ c = cmd.reply /\ n = cmd.sid[p] /\ n =< sid[p] /\ Asks(cmd, p, n)
  BY <1>2, <1>3 DEF Asks
<1>5. PICK e : e = [kind |-> IF told THEN "loaded" ELSE "loadFailed", who |-> p, sid |-> n,
                    items |-> IF told THEN row[p] ELSE {}]
  OBVIOUS
<1>6. e \in Event
  <2>1. row[p] \in SUBSET Items
    BY DEF IInv, TypeOK
  <2> QED
    BY <1>5, <2>1 DEF Event
<1>7. e.kind \in {"loaded", "loadFailed"} /\ e.who = p /\ e.sid = n /\ (e.kind = "loaded" => e.items = row[p])
  BY <1>5
<1>8. events' = Posted(events, c, e) /\ row' = row /\ torn' = torn /\ failed' = failed
      /\ faults' = (IF told THEN faults ELSE faults + 1)
  BY <1>1, <1>2, <1>4, <1>5 DEF Load, Posted
<1>9. PICK s \in Seq(Event) : s = <<e>> /\ DOMAIN s = {1} /\ s[1] = e /\ Range(s) = {e}
  BY <1>6, One
<1>10. events' = Put(events, c, s) /\ events \in [Channels -> Seq(Event)]
  BY SMTT(60), <1>6, <1>8, <1>9, EventsTyped, PostedIsPut
<1>11. /\ events' \in [Channels -> Seq(Event)]
       /\ \A d \in Channels : Range(events[d]) \subseteq Range(events'[d])
       /\ \A d \in Channels : \A x \in Range(events'[d]) : x \in Range(events[d]) \/ (d = c /\ x = e)
  <2>1. PICK u : u = Put(events, c, s)
    OBVIOUS
  <2>2. /\ u \in [Channels -> Seq(Event)]
        /\ \A d \in Channels : Range(events[d]) \subseteq Range(u[d])
        /\ \A d \in Channels : \A x \in Range(u[d]) : x \in Range(events[d]) \/ (d = c /\ x \in Range(s))
    BY <1>10, <2>1, PutMail
  <2> QED
    BY <1>9, <1>10, <2>1, <2>2
<1>12. /\ queue # <<>> /\ queue \in Seq(Command) /\ queue' = Tail(queue) /\ queue' \in Seq(Command)
       /\ Range(queue) = {cmd} \cup Range(queue')
       /\ OnceAsked(queue') /\ CommandsSound'
       /\ \A y, m : Asks(cmd, y, m) => \A d \in Range(queue') : ~ Asks(d, y, m)
       /\ UNCHANGED <<server, phase, sid, online, stage, home, grid, inv, dirty, ground, late>>
  BY <1>2, ExecuteFacts
<1>13. \A y, m : Brings(e, y, m) => y = p /\ m = n /\ e.items = row[p]
  BY <1>7 DEF Brings
<1>14. LoadsSound'
  <2>1. \A d \in Channels : \A x \in Range(events[d]) : ~ Brings(x, p, n)
    BY <1>2, <1>4 DEF IInv, LoadsSound, NotBoth
  <2>2. OnceBrought(Put(events, c, s))
    <3>1. \A x \in Range(s) : \A y, m : Brings(x, y, m) =>
             \A d \in Channels : \A z \in Range(events[d]) : ~ Brings(z, y, m)
      BY <1>9, <1>13, <2>1
    <3> QED
      BY <1>9, <1>10, <3>1, EventsTyped, BroughtPut
  <2>3. NotBoth(queue', events')
    <3>1. \A d \in Range(queue') : ~ Asks(d, p, n) /\ d \in Range(queue)
      BY <1>4, <1>12
    <3>2. NotBoth(queue, events)
      BY DEF IInv, LoadsSound
    <3> QED
      BY <1>11, <1>13, <3>1, <3>2 DEF NotBoth
  <2> QED
    BY <1>10, <1>12, <2>2, <2>3 DEF LoadsSound
<1>15. TypeOK'
  <2>1. faults' \in 0 .. MaxFaults
    <3>1. faults \in 0 .. MaxFaults /\ MaxFaults \in Nat
      BY SavingAssumption DEF IInv, TypeOK
    <3> QED
      BY <1>1, <1>8, <3>1
  <2> QED
    BY <1>8, <1>11, <1>12, <2>1 DEF IInv, TypeOK
<1>16. EventsSound'
  <2>1. e.sid =< sid[e.who]
    BY <1>4, <1>7
  <2>2. \A d \in Channels : \A x \in Range(events[d]) : x.sid =< sid[x.who]
    BY DEF IInv, EventsSound
  <2>3. \A d \in Channels : \A x \in Range(events'[d]) : x.sid =< sid[x.who]
    BY <1>11, <2>1, <2>2
  <2> QED
    BY <1>12, <2>3 DEF EventsSound
<1>17. EntersSound'
  <2>1. SUFFICES ASSUME NEW d \in Channels, NEW x \in Range(events'[d]), x.kind = "enter"
                 PROVE  EnterOf(d, x)'
    BY DEF EntersSound
  <2>2. x \in Range(events[d])
    BY <1>7, <1>11, <2>1
  <2>3. EnterOf(d, x)
    BY <2>1, <2>2 DEF IInv, EntersSound
  <2> QED
    BY <1>12, <2>3 DEF EnterOf
<1>18. \A x \in Players : /\ Stored(row, queue', x) = Stored(row, queue, x)
                          /\ WritesOf(queue', x) = {} <=> WritesOf(queue, x) = {}
  <2> TAKE x \in Players
  <2>1. x \notin DOMAIN Head(queue).rows
    BY <1>2, <1>3
  <2>2. Stored(row, Tail(queue), x) = Stored(row, queue, x)
    BY <1>12, <2>1, TailStored
  <2>3. WritesOf(Tail(queue), x) = {} <=> WritesOf(queue, x) = {}
    BY <1>12, <2>1, TailWrites
  <2> QED
    BY <1>12, <2>2, <2>3
<1>19. ASSUME NEW x \in Players PROVE PlayerSound(x)'
  <2>1. PlayerSound(x) /\ (Active(x)' <=> Active(x)) /\ (Active(x) => home[x] \in Channels)
    BY <1>12, HomeOfPresent DEF IInv, PlayersSound, Active
  <2>2. Waits(x)'
    <3>1. SUFFICES ASSUME stage[x] = "loading"
                   PROVE  Behind(queue', x, sid[x], home[x]) /\ Fresh(queue', events', row, x, sid[x], home[x])
      BY <1>8, <1>12 DEF Waits
    <3>2. Behind(queue, x, sid[x], home[x]) /\ Fresh(queue, events, row, x, sid[x], home[x])
      BY <2>1, <3>1 DEF PlayerSound, Waits
    <3>3. PICK m, h : m = sid[x] /\ h = home[x]
      OBVIOUS
    <3>4. /\ Behind(Tail(queue), x, m, h)
          /\ Asks(Head(queue), x, m) => Head(queue).reply = h /\ WritesOf(queue, x) = {}
      BY <1>12, <3>2, <3>3, BehindTail
    <3>5. Brings(e, x, m) => c = h /\ WritesOf(queue, x) = {} /\ e.items = row[x]
      BY <1>2, <1>4, <1>13, <3>4
    <3>6. Fresh(queue', events', row, x, m, h)
      BY <1>11, <1>18, <3>2, <3>3, <3>5 DEF Fresh
    <3> QED
      BY <1>12, <3>3, <3>4, <3>6
  <2>3. Plays(x)'
    <3>1. SUFFICES ASSUME stage[x] = "playing" PROVE NoLoad(queue', events', x, sid[x])
      BY <1>12 DEF Plays
    <3>2. NoLoad(queue, events, x, sid[x])
      BY <2>1, <3>1 DEF PlayerSound, Plays
    <3>3. ~ Brings(e, x, sid[x])
      BY <1>2, <1>4, <1>13, <3>2 DEF NoLoad
    <3> QED
      BY <1>11, <1>12, <3>2, <3>3 DEF NoLoad
  <2>4. OnMaps(x)'
    BY <1>11, <1>12, <2>1 DEF PlayerSound, OnMaps
  <2>5. Kept(x)'
    <3>1. Followed(queue, x, sid[x], home[x]) => Followed(queue', x, sid[x], home[x])
      BY <1>12, FollowedTail
    <3>2. CASE ~ Active(x) \/ dirty[x]
      BY <1>12, <2>1, <3>2 DEF Kept
    <3>3. CASE Active(x) /\ \E f \in Range(events[home[x]]) : Warns(f, x, sid[x])
      BY <1>11, <1>12, <2>1, <3>3 DEF Kept
    <3>4. CASE inv[x] = Stored(row, queue, x) /\ Followed(queue, x, sid[x], home[x])
      BY <1>8, <1>12, <1>18, <3>1, <3>4 DEF Kept
    <3> QED
      BY <2>1, <3>2, <3>3, <3>4 DEF PlayerSound, Kept
  <2>6. Rests(x)'
    BY <1>8, <1>12, <1>18, <2>1 DEF PlayerSound, Rests
  <2> QED
    BY <2>2, <2>3, <2>4, <2>5, <2>6 DEF PlayerSound
<1>20. Memory' = Memory
  BY <1>12, MemorySame
<1>21. ItemsTraced'
  BY <1>2, <1>8, <1>12, <1>20, TraceLost DEF IInv, ItemsTraced
<1>22. GroundFirm'
  <2>1. SUFFICES ASSUME torn = {}, NEW x \in Players, NEW i \in ground \cap Memory[x]
                 PROVE  Firm(row, Tail(queue), x, i)
    BY <1>8, <1>12, <1>20 DEF GroundFirm
  <2>2. Firm(row, queue, x, i)
    BY <2>1 DEF IInv, GroundFirm
  <2> QED
    BY <1>2, <1>12, <2>2, FirmTail
<1>23. PlayersSound'
  BY <1>19 DEF PlayersSound
<1> QED
  BY <1>12, <1>14, <1>15, <1>16, <1>17, <1>21, <1>22, <1>23 DEF IInv

\* A write is applied or not, and a failure is told to the channel that asked, for every session
\* that it wrote.
LEMMA WriteKeeps ==
  ASSUME IInv, Execute, Head(queue).kind # "load"
  PROVE  IInv'
<1>1. PICK cmd \in Command : cmd = Head(queue) /\ cmd.kind # "load" /\ CommandOf(cmd, sid) /\ cmd \in Range(queue)
  BY ExecuteFacts
<1>2. PICK applied \in BOOLEAN, told \in BOOLEAN : (told \/ faults < MaxFaults) /\ Write(cmd, applied, told)
  BY <1>1 DEF Execute
<1>3. /\ DOMAIN cmd.sid = DOMAIN cmd.rows /\ DOMAIN cmd.rows \subseteq Players
      /\ cmd.reply \in Channels \cup {Nowhere}
      /\ \A x \in DOMAIN cmd.rows : cmd.rows[x] \in SUBSET Items /\ cmd.sid[x] =< sid[x]
  BY <1>1, CommandFacts DEF CommandOf, WellFormed
<1>4. /\ told => applied
      /\ row' = IF applied THEN Applied(row, cmd) ELSE row
      /\ failed' = IF applied THEN failed \ DOMAIN cmd.rows ELSE failed \cup DOMAIN cmd.rows
      /\ torn' = IF cmd.kind = "trade" /\ ~ applied THEN torn \cup {"trade"} ELSE torn
      /\ events' = IF told \/ cmd.reply = Nowhere THEN events ELSE Put(events, cmd.reply, Notices(cmd))
      /\ faults' = IF told THEN faults ELSE faults + 1
  BY <1>2 DEF Write, Writes, Applied, Put
<1>5. /\ queue # <<>> /\ queue \in Seq(Command) /\ queue' = Tail(queue) /\ queue' \in Seq(Command)
      /\ Range(queue) = {cmd} \cup Range(queue')
      /\ OnceAsked(queue') /\ CommandsSound'
      /\ UNCHANGED <<server, phase, sid, online, stage, home, grid, inv, dirty, ground, late>>
  BY <1>1, ExecuteFacts
<1>6. /\ Notices(cmd) \in Seq(Event)
      /\ \A e \in Range(Notices(cmd)) :
           e.kind = "saveFailed" /\ e.who \in DOMAIN cmd.rows /\ e.sid = cmd.sid[e.who]
      /\ \A p \in DOMAIN cmd.rows : \E e \in Range(Notices(cmd)) : Warns(e, p, cmd.sid[p])
  BY <1>3, NoticesFacts
<1>7. PICK f : f.kind = "leave"
  <2>1. [kind |-> "leave"].kind = "leave"
    OBVIOUS
  <2> QED
    BY <2>1
<1>8. /\ events' \in [Channels -> Seq(Event)] /\ Calm(events, events', sid) /\ OnceBrought(events')
      /\ Keeps(events, events', Nowhere, f)
      /\ \A d \in Channels : ~ told /\ cmd.reply = d => Range(Notices(cmd)) \subseteq Range(events'[d])
  <2>1. CASE told \/ cmd.reply = Nowhere
    BY <1>4, <2>1, EventsTyped, CalmItself, SavingAssumption
  <2>2. CASE ~ told /\ cmd.reply # Nowhere
    <3>1. PICK c \in Channels, s \in Seq(Event) : c = cmd.reply /\ s = Notices(cmd)
      BY <1>3, <1>6, <2>2
    <3>2. PICK u : u = Put(events, c, s)
      OBVIOUS
    <3>3. events' = u
      BY <1>4, <2>2, <3>1, <3>2
    <3>4. \A e \in Range(s) : e.kind \notin {"loaded", "enter"} /\ e.sid =< sid[e.who]
      BY <1>3, <1>6, <3>1
    <3>5. /\ u \in [Channels -> Seq(Event)] /\ Calm(events, u, sid) /\ OnceBrought(u)
          /\ Keeps(events, u, Nowhere, f)
      BY <3>2, <3>4, EventsTyped, CalmItself, CalmPut
    <3>6. Range(s) \subseteq Range(u[c])
      BY <3>2, EventsTyped, PutMail
    <3> QED
      BY <3>1, <3>3, <3>5, <3>6
  <2> QED
    BY <2>1, <2>2
<1>9. TypeOK'
  <2>1. faults' \in 0 .. MaxFaults
    <3>1. faults \in 0 .. MaxFaults /\ MaxFaults \in Nat
      BY SavingAssumption DEF IInv, TypeOK
    <3> QED
      BY <1>2, <1>4, <3>1
  <2>2. row' \in [Players -> SUBSET Items] /\ failed' \subseteq Players /\ torn' \subseteq {"trade", "discard"}
    BY <1>3, <1>4 DEF Applied, IInv, TypeOK
  <2> QED
    BY <1>5, <1>8, <2>1, <2>2 DEF IInv, TypeOK
<1>10. EventsSound'
  BY <1>5, <1>8 DEF IInv, EventsSound, Calm
<1>11. EntersSound'
  BY <1>5, <1>8 DEF IInv, EntersSound, EnterOf, Calm
<1>12. LoadsSound'
  <2>1. NotBoth(queue, events')
    BY <1>8 DEF IInv, LoadsSound, NotBoth, Calm, Brings
  <2>2. NotBoth(queue', events')
    BY <1>5, <2>1 DEF NotBoth
  <2> QED
    BY <1>5, <1>8, <2>2 DEF LoadsSound
<1>13. ASSUME NEW x \in Players
       PROVE  /\ applied => Stored(row', queue', x) = Stored(row, queue, x)
              /\ ~ applied /\ (WritesOf(queue', x) # {} \/ x \notin DOMAIN cmd.rows) =>
                   Stored(row', queue', x) = Stored(row, queue, x)
              /\ WritesOf(queue', x) = {} /\ x \in DOMAIN cmd.rows => Final(queue, x, 1)
              /\ WritesOf(queue, x) = {} <=> WritesOf(queue', x) = {} /\ x \notin DOMAIN cmd.rows
  <2>1. PICK r : r = row
    OBVIOUS
  <2>2. /\ Stored(Applied(r, Head(queue)), Tail(queue), x) = Stored(r, queue, x)
        /\ WritesOf(Tail(queue), x) # {} => Stored(r, Tail(queue), x) = Stored(r, queue, x)
        /\ x \notin DOMAIN Head(queue).rows => Stored(r, Tail(queue), x) = Stored(r, queue, x)
        /\ WritesOf(Tail(queue), x) = {} /\ x \in DOMAIN Head(queue).rows => Final(queue, x, 1)
    BY <1>5, TailStored
  <2>3. WritesOf(queue, x) = {} <=> WritesOf(Tail(queue), x) = {} /\ x \notin DOMAIN Head(queue).rows
    BY <1>5, TailWrites
  <2> QED
    BY <1>1, <1>4, <1>5, <2>1, <2>2, <2>3
<1>14. ASSUME NEW x \in Players PROVE PlayerSound(x)'
  <2>1. PlayerSound(x) /\ (Active(x)' <=> Active(x)) /\ (Active(x) => home[x] \in Channels)
    BY <1>5, HomeOfPresent DEF IInv, PlayersSound, Active
  <2>2. Waits(x)'
    <3>1. SUFFICES ASSUME stage[x] = "loading"
                   PROVE  Behind(queue', x, sid[x], home[x]) /\ Fresh(queue', events', row', x, sid[x], home[x])
      BY <1>5 DEF Waits
    <3>2. Behind(queue, x, sid[x], home[x]) /\ Fresh(queue, events, row, x, sid[x], home[x])
      BY <2>1, <3>1 DEF PlayerSound, Waits
    <3>3. PICK m, h : m = sid[x] /\ h = home[x]
      OBVIOUS
    <3>4. Behind(Tail(queue), x, m, h)
      BY <1>5, <3>2, <3>3, BehindTail
    <3>5. WritesOf(queue, x) = {} => row'[x] = row[x]
      BY <1>4, <1>13 DEF Applied
    <3>6. Fresh(queue', events', row', x, m, h)
      BY <1>8, <1>13, <3>2, <3>3, <3>5 DEF Fresh, Calm, Brings
    <3> QED
      BY <1>5, <3>3, <3>4, <3>6
  <2>3. Plays(x)'
    BY <1>5, <1>8, <2>1 DEF PlayerSound, Plays, NoLoad, Calm, Brings
  <2>4. Active(x) => Range(events[home[x]]) \subseteq Range(events'[home[x]])
    BY <1>8, <2>1, SavingAssumption DEF Keeps
  <2>5. OnMaps(x)'
    BY <1>5, <2>1, <2>4 DEF PlayerSound, OnMaps
  <2>6. Kept(x)'
    <3>1. Followed(queue, x, sid[x], home[x]) => Followed(queue', x, sid[x], home[x])
      BY <1>5, FollowedTail
    <3>2. CASE ~ Active(x) \/ dirty[x]
      BY <1>5, <2>1, <3>2 DEF Kept
    <3>3. CASE Active(x) /\ \E e \in Range(events[home[x]]) : Warns(e, x, sid[x])
      BY <1>5, <2>1, <2>4, <3>3 DEF Kept
    <3>4. CASE Active(x) /\ inv[x] = Stored(row, queue, x) /\ Followed(queue, x, sid[x], home[x])
      <4>1. CASE applied \/ WritesOf(queue', x) # {} \/ x \notin DOMAIN cmd.rows
        <5>1. Stored(row', queue', x) = Stored(row, queue, x)
          BY <1>13, <4>1
        <5> QED
          BY <1>5, <3>1, <3>4, <5>1 DEF Kept
      <4>2. CASE ~ applied /\ WritesOf(queue', x) = {} /\ x \in DOMAIN cmd.rows
        <5>1. Final(queue, x, 1) /\ queue[1] = cmd
          BY <1>1, <1>5, <1>13, <4>2, TailOf
        <5>2. cmd.reply = home[x] /\ cmd.sid[x] = sid[x]
          BY <3>4, <5>1 DEF Followed
        <5>3. PICK e \in Range(Notices(cmd)) : Warns(e, x, sid[x])
          BY <1>6, <4>2, <5>2
        <5>4. e \in Range(events'[home[x]])
          BY <1>4, <1>8, <2>1, <3>4, <4>2, <5>2
        <5> QED
          BY <1>5, <5>3, <5>4 DEF Kept
      <4> QED
        BY <4>1, <4>2
    <3> QED
      BY <2>1, <3>2, <3>3, <3>4 DEF PlayerSound, Kept
  <2>7. Rests(x)'
    <3>1. SUFFICES ASSUME stage[x] = "playing" => phase[home[x]] = "stopped" /\ x \notin late,
                          WritesOf(queue', x) # {} \/ x \notin failed'
                   PROVE  inv[x] = Stored(row', queue', x)
      BY <1>5 DEF Rests
    <3>2. WritesOf(queue, x) # {} \/ x \notin failed => inv[x] = Stored(row, queue, x)
      BY <2>1, <3>1 DEF PlayerSound, Rests
    <3>3. WritesOf(queue, x) # {} \/ x \notin failed
      BY <1>4, <1>13, <3>1
    <3>4. applied \/ WritesOf(queue', x) # {} \/ x \notin DOMAIN cmd.rows
      BY <1>4, <3>1
    <3> QED
      BY <1>13, <3>2, <3>3, <3>4
  <2> QED
    BY <2>2, <2>3, <2>5, <2>6, <2>7 DEF PlayerSound
<1>15. Memory' = Memory
  BY <1>5, MemorySame
<1>16. torn' = {} => torn = {} /\ (applied \/ cmd.kind # "trade")
  BY <1>4
<1>17. ItemsTraced'
  <2>1. SUFFICES ASSUME torn' = {} PROVE Traceable(row', Tail(queue), Memory)
    BY <1>5, <1>15 DEF ItemsTraced
  <2>2. Traceable(row, queue, Memory)
    BY <1>16, <2>1 DEF IInv, ItemsTraced
  <2>3. CASE applied
    BY <1>1, <1>4, <1>5, <2>2, <2>3, TraceApplied
  <2>4. CASE ~ applied
    BY <1>1, <1>4, <1>5, <1>16, <2>1, <2>2, <2>4, TraceLost
  <2> QED
    BY <2>3, <2>4
<1>18. GroundFirm'
  <2>1. SUFFICES ASSUME torn' = {}, NEW x \in Players, NEW i \in ground \cap Memory[x]
                 PROVE  Firm(row', Tail(queue), x, i)
    BY <1>5, <1>15 DEF GroundFirm
  <2>2. Firm(row, queue, x, i)
    BY <1>16, <2>1 DEF IInv, GroundFirm
  <2>3. /\ Firm(Applied(row, Head(queue)), Tail(queue), x, i)
        /\ Head(queue).kind # "trade" => Firm(row, Tail(queue), x, i)
    BY <1>5, <2>2, FirmTail
  <2> QED
    BY <1>1, <1>4, <1>16, <2>1, <2>3
<1>19. PlayersSound'
  BY <1>14 DEF PlayersSound
<1> QED
  BY <1>5, <1>9, <1>10, <1>11, <1>12, <1>17, <1>18, <1>19 DEF IInv

-----------------------------------------------------------------------------
(* The beginning, and the beginning again.                                   *)

\* What holds when the server starts over these rows.
Started ==
  /\ server = "up" /\ phase = EachChannel("events") /\ events = EachChannel(<<>>) /\ queue = <<>>
  /\ sid = EachPlayer(0) /\ online = EachPlayer(FALSE) /\ stage = EachPlayer("out")
  /\ home = EachPlayer(Nowhere) /\ grid = EachPlayer(Nowhere)
  /\ row \in [Players -> SUBSET Items] /\ inv = row /\ dirty = EachPlayer(FALSE)
  /\ failed = {} /\ late = {} /\ ground \subseteq Items
  /\ faults \in 0 .. MaxFaults /\ torn \subseteq {"trade", "discard"}
  /\ torn = {} => \A p, x \in Players : p # x => row[p] \cap row[x] = {}

LEMMA StartSound == Started => IInv
<1> SUFFICES ASSUME Started PROVE IInv
  OBVIOUS
<1>1. \A c \in Channels : events[c] = <<>> /\ Range(events[c]) = {} /\ DOMAIN events[c] = {} /\ phase[c] = "events"
  BY DEF Started, EachChannel, Range
<1>2. Range(queue) = {} /\ DOMAIN queue = {}
  BY DEF Started, Range
<1>3. \A p \in Players : /\ sid[p] = 0 /\ stage[p] = "out" /\ home[p] = Nowhere /\ grid[p] = Nowhere
                         /\ inv[p] = row[p] /\ ~ dirty[p]
  BY DEF Started, EachPlayer
<1>4. \A p \in Players : 0 \in LoginNumbers
  <2> TAKE p \in Players
  <2>1. MaxLogins[p] \in Nat
    BY SavingAssumption
  <2>2. 0 \in 0 .. MaxLogins[p]
    BY <2>1
  <2> QED
    BY <2>2 DEF LoginNumbers
<1>5. TypeOK
  <2>1. <<>> \in Seq(Event) /\ <<>> \in Seq(Command)
    BY EmptySeq
  <2>2. events \in [Channels -> Seq(Event)] /\ phase \in [Channels -> {"events", "jobs", "draining", "stopped"}]
    BY <2>1 DEF Started, EachChannel
  <2>3. /\ sid \in [Players -> LoginNumbers] /\ online \in [Players -> BOOLEAN]
        /\ stage \in [Players -> {"out", "loading", "playing"}]
        /\ home \in [Players -> Channels \cup {Nowhere}] /\ grid \in [Players -> Channels \cup {Nowhere}]
        /\ dirty \in [Players -> BOOLEAN]
    BY <1>4 DEF Started, EachPlayer
  <2> QED
    BY <1>3, <2>1, <2>2, <2>3 DEF Started, TypeOK
<1>6. CommandsSound /\ EventsSound /\ EntersSound
  BY <1>1, <1>2 DEF CommandsSound, EventsSound, EntersSound
<1>7. LoadsSound
  BY <1>1, <1>2 DEF LoadsSound, OnceAsked, OnceBrought, NotBoth
<1>8. \A p : WritesOf(queue, p) = {} /\ Stored(row, queue, p) = row[p]
  BY <1>2 DEF WritesOf, Stored
<1>9. PlayersSound
  BY <1>3, <1>8 DEF PlayersSound, PlayerSound, Waits, Plays, OnMaps, Kept, Rests, Active
<1>10. \A p \in Players : Memory[p] = {}
  BY <1>3 DEF Memory
<1>11. ItemsTraced
  <2>1. SUFFICES ASSUME torn = {} PROVE Traceable(row, <<>>, Memory)
    BY DEF ItemsTraced, Started
  <2> QED
    BY <1>10, <2>1, TraceFresh DEF Started
<1>12. GroundFirm
  BY <1>10 DEF GroundFirm
<1> QED
  BY <1>5, <1>6, <1>7, <1>9, <1>11, <1>12 DEF IInv

LEMMA InitSound == Init => IInv
<1> SUFFICES ASSUME Init PROVE Started
  BY StartSound
<1>1. faults \in 0 .. MaxFaults
  BY SavingAssumption DEF Init
<1> QED
  BY <1>1, SavingAssumption DEF Init, Started

LEMMA StartSoundPrime == Started' => IInv'
  BY StartSound, PTL

LEMMA RestartKeeps ==
  ASSUME IInv, Restart
  PROVE  IInv'
<1>1. torn = {} => \A p, x \in Players : p # x => row[p] \cap row[x] = {}
  <2>1. SUFFICES ASSUME torn = {}, NEW p \in Players, NEW x \in Players, p # x
                 PROVE  row[p] \cap row[x] = {}
    OBVIOUS
  <2>2. Traceable(row, queue, Memory)
    BY <2>1 DEF IInv, ItemsTraced
  <2> QED
    BY <2>1, <2>2, EventsTyped, TraceReads
<1>2. Started'
  BY <1>1 DEF Restart, Started, IInv, TypeOK, EachPlayer, EachChannel
<1> QED
  BY <1>2, StartSoundPrime

-----------------------------------------------------------------------------
(* The theorems.                                                             *)

LEMMA StepSound ==
  ASSUME IInv, [Next]_vars
  PROVE  IInv'
<1>1. CASE UNCHANGED vars
  <2>1. /\ UNCHANGED <<server, phase, events, dbVars, playerVars, ground, late>>
        /\ phase' \in [Channels -> {"events", "jobs", "draining", "stopped"}]
        /\ server' \in {"up", "closed", "stopping"}
    BY <1>1 DEF vars, IInv, TypeOK
  <2> QED
    BY <2>1, PhasesOnly
<1>2. ASSUME NEW p \in Players, NEW c \in Channels,
             \/ Login(p, c) \/ Pickup(c, p) \/ Discard(c, p)
             \/ \E q \in Players : CommitTrade(c, p, q)
             \/ \E t \in Channels : ChangeChannel(c, p, t)
      PROVE  IInv'
  <2>1. CASE Login(p, c)
    BY <2>1, LoginKeeps
  <2>2. CASE Pickup(c, p)
    BY <2>2, PickupKeeps
  <2>3. CASE Discard(c, p)
    BY <2>3, DiscardKeeps
  <2>4. CASE \E q \in Players : CommitTrade(c, p, q)
    BY <2>4, CommitTradeKeeps
  <2>5. CASE \E t \in Channels : ChangeChannel(c, p, t)
    BY <2>5, ChangeChannelKeeps
  <2> QED
    BY <1>2, <2>1, <2>2, <2>3, <2>4, <2>5
<1>3. ASSUME NEW p \in Players, Hangup(p) PROVE IInv'
  BY <1>3, HangupKeeps
<1>4. ASSUME NEW c \in Channels,
             \/ Loaded(c) \/ LoadFailed(c) \/ Enter(c) \/ StaleEnter(c) \/ Leave(c) \/ Reroute(c)
             \/ SaveFailed(c) \/ BeginJobs(c) \/ EndTick(c) \/ ShutdownSave(c)
      PROVE  IInv'
  <2>1. CASE Loaded(c)
    BY <2>1, LoadedKeeps, StaleLoadedKeeps
  <2>2. CASE LoadFailed(c)
    BY <2>2, LoadFailedKeeps
  <2>3. CASE Enter(c)
    BY <2>3, EnterKeeps
  <2>4. CASE StaleEnter(c)
    BY <2>4, StaleEnterKeeps
  <2>5. CASE Leave(c)
    BY <2>5, LeaveKeeps
  <2>6. CASE Reroute(c)
    BY <2>6, RerouteKeeps
  <2>7. CASE SaveFailed(c)
    BY <2>7, SaveFailedKeeps
  <2>8. CASE BeginJobs(c)
    BY <2>8, BeginJobsKeeps
  <2>9. CASE EndTick(c)
    BY <2>9, EndTickKeeps
  <2>10. CASE ShutdownSave(c)
    BY <2>10, ShutdownSaveKeeps
  <2> QED
    BY <1>4, <2>1, <2>2, <2>3, <2>4, <2>5, <2>6, <2>7, <2>8, <2>9, <2>10
<1>5. CASE Execute
  BY <1>5, LoadKeeps, WriteKeeps
<1>6. CASE Close \/ StopChannels
  BY <1>6, ClosingKeeps
<1>7. CASE Restart
  BY <1>7, RestartKeeps
<1> QED
  BY <1>1, <1>2, <1>3, <1>4, <1>5, <1>6, <1>7 DEF Next

LEMMA InvariantHolds == Spec => []IInv
<1>1. IInv /\ [Next]_vars => IInv'
  BY StepSound
<1> QED
  BY <1>1, InitSound, PTL DEF Spec

\* Every variable of the DB path and of the sessions keeps its type, and the maps of a channel
\* hold only characters who were loaded (Channel.cpp, DBThread.cpp, DBCommands.cpp).
THEOREM SavingTypeCorrect == Spec => []TypeOK
<1>1. IInv => TypeOK
  BY DEF IInv
<1> QED
  BY <1>1, InvariantHolds, PTL

\* While a character plays, no change of his inventory is forgotten: it is in the rows or on the
\* way there, or the dirty bit is set, or a failure notice that will set it lies at the channel
\* he is in by then, whatever autosaves, trades, channel changes and failures came between
\* (Channel::UpdateFrame, CommitTrade, MigrateChannel, InventorySaveFailedJob).
THEOREM ChangesAreNotForgotten == Spec => []NothingForgotten
<1>1. IInv => NothingForgotten
  <2> SUFFICES ASSUME IInv, NEW p \in Players, stage[p] = "playing", phase[home[p]] # "stopped"
               PROVE  inv[p] = Durable(p) \/ dirty[p] \/ NoticeFor(p)
    BY DEF IInv, NothingForgotten
  <2>1. Kept(p) /\ Active(p)
    BY DEF IInv, PlayersSound, PlayerSound, Active
  <2>2. CASE dirty[p]
    BY <2>2
  <2>3. CASE \E e \in Range(events[home[p]]) : Warns(e, p, sid[p])
    BY <2>3 DEF NoticeFor, Warns, Range
  <2>4. CASE inv[p] = Stored(row, queue, p)
    BY <2>4, QueueTerms
  <2> QED
    BY <2>1, <2>2, <2>3, <2>4 DEF Kept
<1> QED
  BY <1>1, InvariantHolds, PTL

\* No item belongs to two characters, neither in memory nor in the rows a crash would leave,
\* unless the commit of a trade failed or an item was picked up before its discarding was saved
\* (CommitTrade with its one transaction, OnItemDiscard, OnItemPickup).
THEOREM ItemsStayUnique == Spec => []NoItemTwice
<1>1. IInv => NoItemTwice
  <2> SUFFICES ASSUME IInv, torn = {}, NEW p \in Players, NEW x \in Players, p # x
               PROVE  Owned(p) \cap Owned(x) = {} /\ row[p] \cap row[x] = {}
    BY DEF NoItemTwice
  <2>1. Traceable(row, queue, Memory) /\ queue \in Seq(Command)
    BY EventsTyped DEF IInv, ItemsTraced
  <2>2. /\ row[p] \cap row[x] = {}
        /\ Memory[p] \cap Memory[x] = {}
        /\ Stored(row, queue, p) \cap Memory[x] = {}
        /\ Stored(row, queue, p) \cap Stored(row, queue, x) = {}
    BY <2>1, TraceReads
  <2>3. Stored(row, queue, x) \cap Memory[p] = {}
    BY <2>1, TraceReads
  <2>4. \A y \in {p, x} : Owned(y) = IF stage[y] = "playing" THEN Memory[y] ELSE Stored(row, queue, y)
    BY QueueTerms DEF Owned, Memory
  <2>5. CASE stage[p] = "playing"
    BY <2>2, <2>3, <2>4, <2>5
  <2>6. CASE stage[p] # "playing"
    BY <2>2, <2>3, <2>4, <2>6
  <2> QED
    BY <2>2, <2>5, <2>6
<1> QED
  BY <1>1, InvariantHolds, PTL

\* A character who left, or whom the shutdown found in the game, keeps what he had, and a login
\* finds it, unless the database failed his last save or he was on his way to a channel that had
\* stopped (OnClientLeave, SavePlayerFull, ShutdownSaveConnectedPlayers, the FIFO of the DB thread).
THEOREM LeavingIsSaved == Spec => []SavedAtTheEnd
<1>1. IInv => SavedAtTheEnd
  <2> SUFFICES ASSUME IInv, NEW p \in Players, p \notin failed \cup late
               PROVE  /\ Ended(p) => inv[p] = Durable(p)
                      /\ \A c \in Channels : \A i \in DOMAIN events[c] :
                           LET e == events[c][i] IN
                           e.kind = "loaded" /\ e.who = p /\ e.sid = sid[p] /\ stage[p] = "loading"
                             => e.items = inv[p]
    BY DEF SavedAtTheEnd
  <2>1. Rests(p) /\ Waits(p)
    BY DEF IInv, PlayersSound, PlayerSound
  <2>2. (stage[p] = "playing" => phase[home[p]] = "stopped") => inv[p] = Stored(row, queue, p)
    BY <2>1 DEF Rests
  <2>3. Ended(p) => inv[p] = Durable(p)
    <3>1. Ended(p) => (stage[p] = "playing" => phase[home[p]] = "stopped")
      BY HomeOfPresent DEF Ended
    <3> QED
      BY <2>2, <3>1, QueueTerms
  <2>4. ASSUME NEW c \in Channels, NEW i \in DOMAIN events[c], NEW e, e = events[c][i],
               e.kind = "loaded", e.who = p, e.sid = sid[p], stage[p] = "loading"
        PROVE  e.items = inv[p]
    <3>1. e \in Range(events[c]) /\ Brings(e, p, sid[p])
      BY <2>4 DEF Range, Brings
    <3>2. WritesOf(queue, p) = {} /\ e.items = row[p]
      BY <2>1, <2>4, <3>1 DEF Waits, Fresh
    <3>3. inv[p] = Stored(row, queue, p)
      BY <2>2, <2>4
    <3> QED
      BY <3>2, <3>3 DEF Stored
  <2> QED
    BY <2>3, <2>4
<1> QED
  BY <1>1, InvariantHolds, PTL
=============================================================================
