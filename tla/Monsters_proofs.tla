---------------------------- MODULE Monsters_proofs ----------------------------
(***************************************************************************)
(* Proofs about Monsters, for any number of groups, monsters, players and  *)
(* requests: the books of the spawn groups, and the paths monsters follow. *)
(***************************************************************************)
EXTENDS Monsters, FiniteSetTheorems, SequenceTheorems, WellFoundedInduction,
        NaturalsInduction, TLAPS

Seats(g) == alive[g] = Cardinality(OfGroup(g)) /\ alive[g] + later[g] + due[g] = Count[g]

Books == \A g \in Groups : Seats(g)

(* A wire id is given once, so that it names one life.                     *)
OneLife ==
  /\ \A s \in Used : monster[s].id = monster[s].life
  /\ \A s, t \in Used : s # t => monster[s].id # monster[t].id

(* The path of a living monster is of this life and this pursuit, and what *)
(* it waits for will be.                                                   *)
OwnPath(m)  == m.path # NoPath => m.path.life = m.life /\ m.path.seq > m.cleared
Hunting(m) ==
  /\ m.path # NoPath \/ m.pending => m.state = "chase"
  /\ m.state \in {"chase", "attack"} <=> m.target # Nobody
  /\ m.returning => m.state = "patrol"
Waiting(m) == m.cleared <= m.seq /\ (m.pending => m.seq > m.cleared)

Sound(m)   == OwnPath(m) /\ Hunting(m) /\ Waiting(m)

Pursuits == \A s \in Living : Sound(monster[s])

MonstersOK ==
  /\ monster \in [Slots -> Monster \cup {Nobody}]
  /\ \A s \in Used : monster[s].id < nextId /\ monster[s].seq <= asked
  /\ {nextId, kills, asked} \subseteq Nat
  /\ {alive, later, due} \subseteq [Groups -> Nat]
  /\ Books /\ OneLife /\ Pursuits

PathsOK ==
  /\ requests \in Seq(PathRequest) /\ Len(requests) <= QueueCap
  /\ mail \in Seq(PathAnswer) /\ Len(mail) <= MailCap
  /\ \A i \in 1 .. Len(requests) : requests[i].id = requests[i].life
  /\ \A i \in 1 .. Len(mail) : mail[i].id = mail[i].life

TickOK ==
  /\ phase \in {"jobs", "update", "sweep", "respawn"}
  /\ todo \subseteq Used
  /\ phase # "update" => todo = {}

MInv == MonstersOK /\ PathsOK /\ TickOK

-----------------------------------------------------------------------------
(* Lemmas about the pool of monsters.                                      *)
LEMMA MinIsMember ==
  ASSUME NEW S, S \subseteq Nat, S # {} PROVE Min(S) \in S
<1> DEFINE R == {p \in Nat \X Nat : p[1] < p[2]}
<1>1. R = OpToRel(<, Nat)
  BY DEF OpToRel
<1>2. IsWellFoundedOn(R, Nat)
  BY <1>1, NatLessThanWellFounded
<1> HIDE DEF R
<1>3. PICK x \in S : \A y \in S : ~ (<<y, x>> \in R)
  BY <1>2, WFMin
<1>4. ASSUME NEW y \in S PROVE x =< y
  <2>1. x \in Nat /\ y \in Nat
    OBVIOUS
  <2>2. <<y, x>> \in R <=> y < x
    BY <2>1 DEF R
  <2> QED
    BY <1>3, <2>1, <2>2
<1> QED
  BY <1>4 DEF Min

LEMMA UsedTypes ==
  ASSUME MonstersOK
  PROVE  /\ \A s \in Used : s \in Slots /\ monster[s] \in Monster
         /\ \A s \in Slots : monster[s] \in Monster <=> s \in Used
  BY MonstersAssumption DEF MonstersOK, Used

LEMMA GroupFinite ==
  ASSUME NEW g PROVE IsFiniteSet(OfGroup(g)) /\ Cardinality(OfGroup(g)) \in Nat
<1>1. OfGroup(g) \in SUBSET Slots
  BY DEF OfGroup, Used
<1> QED
  BY <1>1, FS_Subset, FS_CardinalityType, MonstersAssumption

LEMMA TypeParts == MInv => TypeOK
  BY DEF MInv, MonstersOK, PathsOK, TickOK, TypeOK

-----------------------------------------------------------------------------
(* Steps that change what monsters do, not which there are.                *)
Rewritten(s) ==
  \/ monster'[s] = monster[s]
  \/ /\ s \in Used /\ monster'[s] \in Monster
     /\ monster'[s].id = monster[s].id /\ monster'[s].life = monster[s].life
     /\ monster'[s].group = monster[s].group /\ monster'[s].seq <= asked'
     /\ monster'[s].state # "dead" => Sound(monster'[s])

Rewriting ==
  /\ monster' \in [Slots -> Monster \cup {Nobody}]
  /\ asked' \in Nat /\ asked <= asked' /\ kills' \in Nat
  /\ UNCHANGED groupVars
  /\ \A s \in Slots : Rewritten(s)

LEMMA RewrittenUsed ==
  ASSUME MonstersOK, Rewriting
  PROVE  /\ Used' = Used /\ \A g : OfGroup(g)' = OfGroup(g)
         /\ \A s \in Used : monster'[s].id = monster[s].id
                         /\ monster'[s].life = monster[s].life
<1>1. \A s \in Slots : monster'[s] = Nobody <=> monster[s] = Nobody
  BY MonstersAssumption DEF Rewriting, Rewritten, Used
<1>2. Used' = Used
  BY <1>1 DEF Used
<1>3. \A s \in Used : /\ monster'[s].group = monster[s].group
                      /\ monster'[s].id = monster[s].id
                      /\ monster'[s].life = monster[s].life
  BY DEF Rewriting, Rewritten, Used
<1> QED
  BY <1>2, <1>3 DEF OfGroup

LEMMA RewritingOK ==
  ASSUME MonstersOK, Rewriting PROVE MonstersOK'
<1>1. /\ Used' = Used /\ \A g : OfGroup(g)' = OfGroup(g)
      /\ \A s \in Used : monster'[s].id = monster[s].id
                      /\ monster'[s].life = monster[s].life
  BY RewrittenUsed
<1>2. UNCHANGED <<nextId, alive, later, due>>
  BY DEF Rewriting, groupVars
<1>3. \A s \in Used : monster'[s].id < nextId' /\ monster'[s].seq <= asked'
  <2> SUFFICES ASSUME NEW s \in Used
               PROVE  monster'[s].id < nextId' /\ monster'[s].seq <= asked'
    OBVIOUS
  <2>1. s \in Slots /\ monster[s] \in Monster /\ monster[s].seq <= asked
    BY UsedTypes DEF MonstersOK
  <2>2. monster[s].seq \in Nat /\ asked \in Nat /\ asked' \in Nat
    BY <2>1 DEF Monster, MonstersOK, Rewriting
  <2> QED
    BY <1>1, <1>2, <2>1, <2>2 DEF Rewriting, Rewritten, MonstersOK
<1>4. Books'
  BY <1>1, <1>2 DEF MonstersOK, Books, Seats
<1>5. OneLife'
  BY <1>1 DEF MonstersOK, OneLife
<1>6. Pursuits'
  <2> SUFFICES ASSUME NEW s \in Living' PROVE Sound(monster'[s])
    BY DEF Pursuits, Sound, OwnPath, Hunting, Waiting
  <2>1. s \in Used /\ s \in Slots /\ monster'[s].state # "dead"
    BY <1>1 DEF Living, Used
  <2> QED
    BY <2>1 DEF Rewriting, Rewritten, MonstersOK, Pursuits, Living
<1> QED
  BY <1>1, <1>2, <1>3, <1>4, <1>5, <1>6 DEF MonstersOK, Rewriting

LEMMA UntouchedOK ==
  ASSUME MonstersOK, UNCHANGED <<monster, groupVars, kills, asked>>
  PROVE  MonstersOK' /\ Used' = Used
<1>1. Rewriting
  BY DEF Rewriting, Rewritten, MonstersOK
<1> QED
  BY <1>1, RewritingOK, RewrittenUsed

-----------------------------------------------------------------------------
(* The books.                                                              *)
LEMMA NewMonsterType ==
  ASSUME MonstersOK, NEW g \in Groups
  PROVE  /\ NewMonster(g) \in Monster /\ NewMonster(g) # Nobody
         /\ NewMonster(g).id = nextId /\ NewMonster(g).life = nextId
         /\ NewMonster(g).group = g /\ NewMonster(g).seq = 0
         /\ Sound(NewMonster(g))
<1>1. NewMonster(g) \in Monster
  BY DEF NewMonster, NewId, Monster, MonstersOK
<1>2. NewMonster(g) # Nobody
  BY <1>1, MonstersAssumption
<1>3. Sound(NewMonster(g))
  BY DEF NewMonster, Sound, OwnPath, Hunting, Waiting
<1> QED
  BY <1>1, <1>2, <1>3 DEF NewMonster, NewId

LEMMA SpawnOK ==
  ASSUME MInv, NEW g \in Groups, NEW s \in Slots, TrySpawn(g, s) PROVE MInv'
<1>1. /\ MonstersOK /\ PathsOK /\ TickOK /\ phase = "respawn" /\ due[g] > 0
      /\ s \in Slots \ Used /\ monster' = [monster EXCEPT ![s] = NewMonster(g)]
      /\ nextId' = nextId + 1
      /\ alive' = [alive EXCEPT ![g] = @ + 1] /\ due' = [due EXCEPT ![g] = @ - 1]
      /\ UNCHANGED <<phase, todo, later, requests, mail, kills, asked>>
  BY DEF MInv, TrySpawn, pathVars
<1>2. monster' \in [Slots -> Monster \cup {Nobody}]
  BY <1>1, NewMonsterType DEF MonstersOK
<1>3. monster'[s] = NewMonster(g) /\ \A t \in Slots : t # s => monster'[t] = monster[t]
  BY <1>1 DEF MonstersOK
<1>4. Used' = Used \cup {s}
  BY <1>1, <1>3, NewMonsterType DEF Used
<1>5. \A t \in Used : t # s /\ monster'[t] = monster[t]
  BY <1>1, <1>3 DEF Used
<1>6. \A t \in Used' : monster'[t].id < nextId' /\ monster'[t].seq <= asked'
  <2> SUFFICES ASSUME NEW t \in Used'
               PROVE  monster'[t].id < nextId' /\ monster'[t].seq <= asked'
    OBVIOUS
  <2>1. CASE t = s
    BY <1>1, <1>3, <2>1, NewMonsterType DEF MonstersOK
  <2>2. CASE t \in Used
    BY <1>1, <1>5, <2>2, UsedTypes DEF MonstersOK, Monster
  <2> QED
    BY <1>4, <2>1, <2>2
<1>7. /\ {nextId', kills', asked'} \subseteq Nat
      /\ {alive', later', due'} \subseteq [Groups -> Nat]
  <2>1. alive[g] + 1 \in Nat /\ due[g] - 1 \in Nat
    BY <1>1 DEF MonstersOK
  <2> QED
    BY <1>1, <2>1 DEF MonstersOK
<1>8. Books'
  <2> SUFFICES ASSUME NEW x \in Groups PROVE Seats(x)'
    BY DEF Books
  <2>1. CASE x = g
    <3>1. OfGroup(g)' = OfGroup(g) \cup {s} /\ s \notin OfGroup(g)
      BY <1>1, <1>3, <1>4, <1>5, NewMonsterType DEF OfGroup
    <3>2. Cardinality(OfGroup(g)') = Cardinality(OfGroup(g)) + 1
      BY <3>1, GroupFinite, FS_AddElement
    <3>3. {alive[g], later[g], due[g]} \subseteq Nat /\ Seats(g) /\ Count[g] \in Nat
      <4>1. MonstersOK
        BY DEF MInv
      <4> QED
        BY <4>1, MonstersAssumption DEF MonstersOK, Books
    <3>4. alive'[g] = alive[g] + 1 /\ due'[g] = due[g] - 1 /\ later'[g] = later[g]
      BY <1>1 DEF MonstersOK
    <3> QED
      BY <2>1, <3>2, <3>3, <3>4 DEF Seats
  <2>2. CASE x # g
    <3>1. OfGroup(x)' = OfGroup(x)
      BY <1>1, <1>3, <1>4, <1>5, <2>2, NewMonsterType DEF OfGroup
    <3>2. alive'[x] = alive[x] /\ due'[x] = due[x] /\ later'[x] = later[x]
      BY <1>1, <2>2 DEF MonstersOK
    <3> QED
      BY <1>1, <3>1, <3>2 DEF Seats, MonstersOK, Books
  <2> QED
    BY <2>1, <2>2
<1>9. OneLife'
  <2>1. \A t \in Used : monster[t].id # nextId
    BY <1>1, UsedTypes DEF MonstersOK, Monster
  <2> QED
    BY <1>1, <1>3, <1>4, <1>5, <2>1, NewMonsterType DEF MonstersOK, OneLife
<1>10. Pursuits'
  <2> SUFFICES ASSUME NEW t \in Living' PROVE Sound(monster'[t])
    BY DEF Pursuits, Sound, OwnPath, Hunting, Waiting
  <2>1. CASE t = s
    BY <1>1, <1>3, <2>1, NewMonsterType
  <2>2. CASE t \in Used
    BY <1>1, <1>5, <2>2 DEF Living, MonstersOK, Pursuits
  <2> QED
    BY <1>4, <2>1, <2>2 DEF Living
<1> QED
  BY <1>1, <1>2, <1>4, <1>6, <1>7, <1>8, <1>9, <1>10
     DEF MInv, MonstersOK, PathsOK, TickOK

LEMMA SweepOK ==
  ASSUME MInv, NEW E \in SUBSET Corpses, NEW ripe \in SUBSET Groups,
         SweepDead(E, ripe)
  PROVE  MInv'
<1> DEFINE gone(g) == Cardinality(E \cap OfGroup(g))
<1>1. /\ MonstersOK /\ PathsOK /\ TickOK /\ phase = "sweep" /\ phase' = "respawn"
      /\ monster' = [s \in Slots |-> IF s \in E THEN Nobody ELSE monster[s]]
      /\ alive' = [g \in Groups |-> alive[g] - gone(g)]
      /\ later' = [g \in Groups |-> (IF g \in ripe THEN 0 ELSE later[g]) + gone(g)]
      /\ due' = [g \in Groups |-> due[g] + IF g \in ripe THEN later[g] ELSE 0]
      /\ UNCHANGED <<todo, nextId, requests, mail, kills, asked>>
  BY DEF MInv, SweepDead, pathVars
<1>2. E \subseteq Used /\ Used \subseteq Slots
  BY DEF Corpses, Used
<1>3. Used' = Used \ E /\ \A s \in Used \ E : monster'[s] = monster[s]
  BY <1>1, <1>2 DEF Used
<1>4. monster' \in [Slots -> Monster \cup {Nobody}]
  BY <1>1 DEF MonstersOK
<1>5. ASSUME NEW g \in Groups
      PROVE  /\ gone(g) \in Nat /\ gone(g) <= Cardinality(OfGroup(g))
             /\ Cardinality(OfGroup(g)') = Cardinality(OfGroup(g)) - gone(g)
             /\ Cardinality(OfGroup(g)) \in Nat
  <2>1. OfGroup(g)' = OfGroup(g) \ E
    BY <1>3 DEF OfGroup
  <2>2. OfGroup(g) \cap E = E \cap OfGroup(g)
    OBVIOUS
  <2>3. IsFiniteSet(E \cap OfGroup(g)) /\ gone(g) <= Cardinality(OfGroup(g))
    BY GroupFinite, FS_Intersection
  <2>4. Cardinality(OfGroup(g) \ E) = Cardinality(OfGroup(g)) - Cardinality(OfGroup(g) \cap E)
    BY GroupFinite, FS_Difference
  <2>5. gone(g) \in Nat
    BY <2>3, FS_CardinalityType
  <2> QED
    BY <2>1, <2>2, <2>3, <2>4, <2>5, GroupFinite
<1> HIDE DEF gone
<1>6. ASSUME NEW g \in Groups
      PROVE  /\ Seats(g)' /\ {alive'[g], later'[g], due'[g]} \subseteq Nat
  <2>1. {alive[g], later[g], due[g]} \subseteq Nat /\ Seats(g) /\ Count[g] \in Nat
    BY <1>1, MonstersAssumption DEF MonstersOK, Books
  <2>2. /\ alive'[g] = alive[g] - gone(g)
        /\ later'[g] = (IF g \in ripe THEN 0 ELSE later[g]) + gone(g)
        /\ due'[g] = due[g] + IF g \in ripe THEN later[g] ELSE 0
    BY <1>1
  <2> QED
    BY <1>5, <2>1, <2>2 DEF Seats
<1>7. {alive', later', due'} \subseteq [Groups -> Nat]
  BY <1>1, <1>6
<1>8. Books'
  BY <1>6 DEF Books
<1>9. OneLife' /\ \A t \in Used' : monster'[t].id < nextId' /\ monster'[t].seq <= asked'
  BY <1>1, <1>3 DEF MonstersOK, OneLife
<1>10. Pursuits'
  <2> SUFFICES ASSUME NEW t \in Living' PROVE Sound(monster'[t])
    BY DEF Pursuits, Sound, OwnPath, Hunting, Waiting
  <2> QED
    BY <1>1, <1>3 DEF Living, MonstersOK, Pursuits
<1>11. TickOK'
  BY <1>1 DEF TickOK
<1> QED
  BY <1>1, <1>4, <1>7, <1>8, <1>9, <1>10, <1>11
     DEF MInv, MonstersOK, PathsOK

-----------------------------------------------------------------------------
(* Jobs and the pathfinder.                                                *)
LEMMA PhaseOK ==
  ASSUME MInv, EndTick \/ BeginUpdate \/ EndUpdate PROVE MInv'
<1>1. UNCHANGED <<monster, nextId, alive, later, requests, mail, kills, asked>>
      /\ due' = due
  <2>1. CASE EndTick
    <3>1. due = [g \in Groups |-> due[g]]
      BY DEF MInv, MonstersOK
    <3> QED
      BY <2>1, <3>1 DEF EndTick, Unspawned, pathVars
  <2>2. CASE BeginUpdate \/ EndUpdate
    BY <2>2 DEF BeginUpdate, EndUpdate, groupVars, pathVars
  <2> QED
    BY <2>1, <2>2
<1>2. MonstersOK' /\ Used' = Used
  BY <1>1, UntouchedOK DEF MInv, groupVars
<1>3. PathsOK'
  BY <1>1 DEF MInv, PathsOK
<1>4. TickOK'
  BY <1>2 DEF MInv, TickOK, EndTick, BeginUpdate, EndUpdate
<1> QED
  BY <1>2, <1>3, <1>4 DEF MInv

LEMMA KillOK ==
  ASSUME MInv, NEW s \in Slots, MarkDead(s) PROVE MInv'
<1>1. /\ MonstersOK /\ s \in Used /\ monster[s] \in Monster
      /\ monster' = [monster EXCEPT ![s].state = "dead"] /\ kills' = kills + 1
      /\ UNCHANGED <<phase, todo, groupVars, requests, mail, asked>>
  BY UsedTypes DEF MInv, MarkDead, Living, pathVars
<1>2. /\ monster'[s] = [monster[s] EXCEPT !.state = "dead"]
      /\ \A t \in Slots : t # s => monster'[t] = monster[t]
  BY <1>1 DEF MonstersOK
<1>3. monster'[s] \in Monster
  BY <1>1, <1>2 DEF Monster
<1>4. Rewriting
  <2>1. Rewritten(s)
    BY <1>1, <1>2, <1>3 DEF Rewritten, MonstersOK, Monster
  <2>2. monster' \in [Slots -> Monster \cup {Nobody}]
    BY <1>1, <1>2, <1>3 DEF MonstersOK
  <2> QED
    BY <1>1, <1>2, <2>1, <2>2 DEF Rewriting, Rewritten, MonstersOK
<1>5. MonstersOK' /\ Used' = Used
  BY <1>1, <1>4, RewritingOK, RewrittenUsed
<1> QED
  BY <1>1, <1>5 DEF MInv, PathsOK, TickOK

(* An answer is used by the monster that asked for it, in the pursuit it   *)
(* was asked for.                                                          *)
LEMMA AnswerSound ==
  ASSUME NEW m \in Monster, NEW a \in PathAnswer, Sound(m), m.state # "dead",
         m.id = m.life, a.id = a.life, m.id = a.id
  PROVE  /\ OnPathResult(m, a) \in Monster
         /\ OnPathResult(m, a).id = m.id /\ OnPathResult(m, a).life = m.life
         /\ OnPathResult(m, a).group = m.group /\ OnPathResult(m, a).seq = m.seq
         /\ Sound(OnPathResult(m, a))
<1>1. CASE ~ Current(m, a)
  BY <1>1 DEF OnPathResult
<1>2. CASE Current(m, a)
  <2> DEFINE p == IF Useful(m, a) /\ a.found THEN [life |-> a.life, seq |-> a.seq] ELSE NoPath
  <2>1. OnPathResult(m, a) = [m EXCEPT !.pending = FALSE, !.path = p]
    BY <1>2 DEF OnPathResult
  <2>2. p \in Steps \cup {NoPath}
    BY DEF PathAnswer, Steps
  <2>3. p # NoPath => p.life = m.life /\ p.seq > m.cleared /\ m.state = "chase"
    BY <1>2 DEF Useful, Current, Sound, Waiting
  <2> HIDE DEF p
  <2> QED
    BY <2>1, <2>2, <2>3 DEF Monster, Sound, OwnPath, Hunting, Waiting
<1> QED
  BY <1>1, <1>2

LEMMA AnsweredOK == ASSUME MInv, Answered PROVE MInv'
<1>1. PICK a : a = Head(mail)
  OBVIOUS
<1>2. /\ MonstersOK /\ PathsOK /\ mail # <<>> /\ mail' = Tail(mail)
      /\ monster' = [s \in Slots |-> IF s \in Addressee(a)
                                       THEN OnPathResult(monster[s], a) ELSE monster[s]]
      /\ UNCHANGED <<phase, todo, groupVars, requests, kills, asked>>
  BY <1>1 DEF MInv, Answered
<1>3. /\ a \in PathAnswer /\ a = mail[1] /\ Len(mail) \in Nat \ {0}
      /\ Tail(mail) \in Seq(PathAnswer) /\ Len(Tail(mail)) = Len(mail) - 1
      /\ \A i \in 1 .. Len(Tail(mail)) : Tail(mail)[i] = mail[i + 1]
  <2>1. mail \in Seq(PathAnswer)
    BY <1>2 DEF PathsOK
  <2> QED
    BY <1>1, <1>2, <2>1, HeadTailProperties, EmptySeq, LenProperties
<1>4. a.id = a.life
  BY <1>2, <1>3 DEF PathsOK
<1>5. ASSUME NEW s \in Addressee(a)
      PROVE  /\ s \in Used /\ OnPathResult(monster[s], a) \in Monster
             /\ OnPathResult(monster[s], a).id = monster[s].id
             /\ OnPathResult(monster[s], a).life = monster[s].life
             /\ OnPathResult(monster[s], a).group = monster[s].group
             /\ OnPathResult(monster[s], a).seq = monster[s].seq
             /\ Sound(OnPathResult(monster[s], a))
  <2>1. /\ s \in Living /\ s \in Used /\ monster[s].state # "dead"
        /\ monster[s].id = a.id
    BY DEF Addressee, Living
  <2>2. monster[s] \in Monster /\ Sound(monster[s]) /\ monster[s].id = monster[s].life
    BY <1>2, <2>1, UsedTypes DEF MonstersOK, Pursuits, OneLife
  <2> QED
    BY <1>3, <1>4, <2>1, <2>2, AnswerSound
<1>6. Rewriting
  <2>1. \A s \in Slots : Rewritten(s)
    BY <1>2, <1>5 DEF Rewritten, MonstersOK
  <2>2. monster' \in [Slots -> Monster \cup {Nobody}]
    BY <1>2, <1>5 DEF MonstersOK
  <2> QED
    BY <1>2, <2>1, <2>2 DEF Rewriting, MonstersOK
<1>7. MonstersOK' /\ Used' = Used
  BY <1>2, <1>6, RewritingOK, RewrittenUsed
<1>8. PathsOK'
  <2>1. \A i \in 1 .. Len(Tail(mail)) : i + 1 \in 1 .. Len(mail)
    BY <1>3
  <2>2. QueueCap \in Nat /\ MailCap \in Nat
    BY MonstersAssumption
  <2> QED
    BY <1>2, <1>3, <2>1, <2>2 DEF PathsOK
<1> QED
  BY <1>2, <1>7, <1>8 DEF MInv, TickOK

LEMMA AppendKeeps ==
  ASSUME NEW T, NEW q \in Seq(T), NEW x \in T, x.id = x.life,
         \A i \in 1 .. Len(q) : q[i].id = q[i].life
  PROVE  /\ Append(q, x) \in Seq(T) /\ Len(Append(q, x)) = Len(q) + 1
         /\ \A i \in 1 .. Len(Append(q, x)) : Append(q, x)[i].id = Append(q, x)[i].life
<1>1. /\ Append(q, x) \in Seq(T) /\ Len(Append(q, x)) = Len(q) + 1
      /\ \A i \in 1 .. Len(q) : Append(q, x)[i] = q[i]
      /\ Append(q, x)[Len(q) + 1] = x /\ Len(q) \in Nat
  BY AppendProperties, LenProperties
<1>2. \A i \in 1 .. Len(q) + 1 : i \in 1 .. Len(q) \/ i = Len(q) + 1
  BY <1>1
<1> QED
  BY <1>1, <1>2

LEMMA FindPathOK == ASSUME MInv, FindPath PROVE MInv'
<1>1. PICK r : r = Head(requests)
  OBVIOUS
<1>2. PICK found \in BOOLEAN :
        mail' = IF Len(mail) < MailCap
                  THEN Append(mail, [id |-> r.id, life |-> r.life, seq |-> r.seq,
                                     target |-> r.target, found |-> found])
                  ELSE mail
  BY <1>1 DEF FindPath
<1>3. /\ MonstersOK /\ PathsOK /\ requests # <<>> /\ requests' = Tail(requests)
      /\ UNCHANGED <<phase, todo, monster, groupVars, kills, asked>>
  BY DEF MInv, FindPath
<1>4. /\ r \in PathRequest /\ r = requests[1] /\ Len(requests) \in Nat \ {0}
      /\ Tail(requests) \in Seq(PathRequest) /\ Len(Tail(requests)) = Len(requests) - 1
      /\ \A i \in 1 .. Len(Tail(requests)) : Tail(requests)[i] = requests[i + 1]
  <2>1. requests \in Seq(PathRequest)
    BY <1>3 DEF PathsOK
  <2> QED
    BY <1>1, <1>3, <2>1, HeadTailProperties, EmptySeq, LenProperties
<1>5. r.id = r.life /\ QueueCap \in Nat /\ MailCap \in Nat
  BY <1>3, <1>4, MonstersAssumption DEF PathsOK
<1>6. PICK x : x = [id |-> r.id, life |-> r.life, seq |-> r.seq, target |-> r.target,
                    found |-> found]
  OBVIOUS
<1>7. x \in PathAnswer /\ x.id = x.life
  BY <1>4, <1>5, <1>6 DEF PathRequest, PathAnswer
<1>8. /\ requests' \in Seq(PathRequest) /\ Len(requests') <= QueueCap
      /\ \A i \in 1 .. Len(requests') : requests'[i].id = requests'[i].life
  <2>1. \A i \in 1 .. Len(Tail(requests)) : i + 1 \in 1 .. Len(requests)
    BY <1>4
  <2> QED
    BY <1>3, <1>4, <1>5, <2>1 DEF PathsOK
<1>9. /\ mail' \in Seq(PathAnswer) /\ Len(mail') <= MailCap
      /\ \A i \in 1 .. Len(mail') : mail'[i].id = mail'[i].life
  <2>1. mail \in Seq(PathAnswer) /\ Len(mail) \in Nat /\ Len(mail) <= MailCap
        /\ \A i \in 1 .. Len(mail) : mail[i].id = mail[i].life
    BY <1>3, LenProperties DEF PathsOK
  <2>2. CASE Len(mail) < MailCap
    <3>1. mail' = Append(mail, x)
      BY <1>2, <1>6, <2>2
    <3> QED
      BY <1>5, <1>7, <2>1, <2>2, <3>1, AppendKeeps
  <2> QED
    BY <1>2, <2>1, <2>2
<1>10. MonstersOK' /\ Used' = Used
  BY <1>3, UntouchedOK
<1> QED
  BY <1>3, <1>8, <1>9, <1>10 DEF MInv, PathsOK, TickOK

-----------------------------------------------------------------------------
(* Monster::Update.  What a behaviour stores fits the slot, and is sound.  *)
Fits(s, m) ==
  /\ m \in Monster /\ m.id = monster[s].id /\ m.life = monster[s].life
  /\ m.group = monster[s].group /\ m.seq = monster[s].seq

RequestsOK ==
  /\ requests \in Seq(PathRequest) /\ Len(requests) <= QueueCap
  /\ \A i \in 1 .. Len(requests) : requests[i].id = requests[i].life

Updated == Rewriting /\ RequestsOK'

LEMMA StoreOK ==
  ASSUME MInv, NEW s \in Used, NEW n \in Monster, Store(s, n), Sound(n),
         n.id = monster[s].id, n.life = monster[s].life, n.group = monster[s].group,
         n.seq <= asked', asked' \in Nat, asked <= asked', UNCHANGED <<groupVars, kills>>
  PROVE  Rewriting
<1>1. s \in Slots /\ MonstersOK
  BY UsedTypes DEF MInv
<1>2. /\ monster'[s] = n /\ \A t \in Slots : t # s => monster'[t] = monster[t]
      /\ monster' \in [Slots -> Monster \cup {Nobody}]
  BY <1>1 DEF Store, MonstersOK
<1>3. \A t \in Slots : Rewritten(t)
  BY <1>2 DEF Rewritten
<1> QED
  BY <1>1, <1>2, <1>3 DEF Rewriting, MonstersOK

LEMMA BecomeOK ==
  ASSUME MInv, NEW s \in Used, NEW n, Fits(s, n), Sound(n), Become(s, n),
         UNCHANGED <<groupVars, kills>>
  PROVE  Updated
<1>1. /\ n \in Monster /\ n.seq <= asked' /\ asked' \in Nat /\ asked <= asked'
      /\ requests' = requests
  BY DEF MInv, MonstersOK, Fits, Become
<1>2. Rewriting
  BY <1>1, StoreOK DEF Fits, Become
<1>3. RequestsOK'
  BY <1>1 DEF MInv, PathsOK, RequestsOK
<1> QED
  BY <1>2, <1>3 DEF Updated

LEMMA RequestOK ==
  ASSUME MInv, NEW s \in Used, NEW m, Fits(s, m), Sound(m), m.state = "chase",
         RequestPath(s, m), UNCHANGED <<groupVars, kills>>
  PROVE  Updated
<1>1. /\ m \in Monster /\ m.id = m.life /\ m.seq <= asked /\ asked \in Nat
      /\ m.seq \in Nat /\ m.cleared \in Nat
  BY DEF MInv, MonstersOK, OneLife, Fits, Monster
<1>2. CASE Len(requests) < QueueCap
  <2> DEFINE n == [m EXCEPT !.seq = @ + 1, !.pending = TRUE]
  <2>1. /\ asked' = asked + 1 /\ requests' = Append(requests, Request(s, m))
        /\ Store(s, n)
    BY <1>2 DEF RequestPath
  <2>2. n \in Monster /\ n.seq = m.seq + 1 /\ n.id = m.id /\ n.life = m.life
        /\ n.group = m.group
    <3>1. m.seq + 1 \in Nat
      BY <1>1
    <3>2. n = [m EXCEPT !.seq = m.seq + 1, !.pending = TRUE]
      BY <1>1 DEF Monster
    <3> QED
      BY <1>1, <3>1, <3>2 DEF Monster
  <2>3. Sound(n)
    BY <1>1 DEF Monster, Sound, OwnPath, Hunting, Waiting
  <2>4. Rewriting
    <3> HIDE DEF n
    <3>1. n.seq <= asked' /\ asked' \in Nat /\ asked <= asked'
      BY <1>1, <2>1, <2>2
    <3> QED
      BY <2>1, <2>2, <2>3, <3>1, StoreOK DEF Fits
  <2>5. Request(s, m) \in PathRequest /\ Request(s, m).id = Request(s, m).life
    BY <1>1 DEF Request, PathRequest, Monster
  <2>6. /\ requests \in Seq(PathRequest) /\ Len(requests) \in Nat /\ QueueCap \in Nat
        /\ \A i \in 1 .. Len(requests) : requests[i].id = requests[i].life
    BY LenProperties, MonstersAssumption DEF MInv, PathsOK
  <2>7. RequestsOK'
    BY <1>2, <2>1, <2>5, <2>6, AppendKeeps DEF RequestsOK
  <2> QED
    BY <2>4, <2>7 DEF Updated
<1>3. CASE ~ (Len(requests) < QueueCap)
  <2>1. Become(s, m)
    BY <1>3 DEF RequestPath, Become
  <2> QED
    BY <2>1, BecomeOK
<1> QED
  BY <1>2, <1>3

(* Forgetting a path, and going home, are always sound.                    *)
LEMMA ClearedFits ==
  ASSUME NEW s, NEW m, Fits(s, m), m.cleared <= m.seq
  PROVE  /\ Fits(s, ClearPath(m)) /\ ClearPath(m).path = NoPath
         /\ ~ ClearPath(m).pending /\ ClearPath(m).cleared <= ClearPath(m).seq
         /\ ClearPath(m).state = m.state /\ ClearPath(m).target = m.target
         /\ ClearPath(m).returning = m.returning
<1>1. m \in Monster /\ m.seq \in Nat
  BY DEF Fits, Monster
<1>2. ClearPath(m) \in Monster
  BY <1>1 DEF ClearPath, Monster
<1>3. /\ ClearPath(m).path = NoPath /\ ClearPath(m).pending = FALSE
      /\ ClearPath(m).cleared = m.seq
      /\ \A f \in {"id", "life", "group", "state", "target", "returning", "seq"} :
           ClearPath(m)[f] = m[f]
  BY <1>1 DEF ClearPath, Monster
<1> QED
  BY <1>1, <1>2, <1>3 DEF Fits

LEMMA HomeFits ==
  ASSUME NEW s, NEW m, Fits(s, m), m.cleared <= m.seq
  PROVE  /\ Fits(s, GoHome(m)) /\ Sound(GoHome(m))
         /\ Fits(s, Settle(GoHome(m))) /\ Sound(Settle(GoHome(m)))
<1>1. PICK c : /\ c = ClearPath(m) /\ Fits(s, c) /\ c.path = NoPath /\ ~ c.pending
               /\ c.cleared <= c.seq
  BY ClearedFits
<1>2. PICK h : h = GoHome(m)
  OBVIOUS
<1>3. /\ Fits(s, h) /\ h.path = NoPath /\ ~ h.pending /\ h.cleared <= h.seq
      /\ h.state = "patrol" /\ h.target = Nobody
  BY <1>1, <1>2 DEF GoHome, Fits, Monster
<1>4. Sound(h)
  BY <1>3 DEF Sound, OwnPath, Hunting, Waiting
<1>5. Fits(s, Settle(h)) /\ Sound(Settle(h))
  BY <1>3 DEF Settle, Fits, Monster, Sound, OwnPath, Hunting, Waiting
<1> QED
  BY <1>2, <1>3, <1>4, <1>5

LEMMA PursueOK ==
  ASSUME MInv, NEW s \in Used, NEW m, Fits(s, m), Sound(m), m.state = "chase",
         Pursue(s, m), UNCHANGED <<groupVars, kills>>
  PROVE  Updated
<1>1. PICK n : n = [m EXCEPT !.path = NoPath]
  OBVIOUS
<1>2. Fits(s, n) /\ Sound(n) /\ n.state = "chase"
  BY <1>1 DEF Fits, Monster, Sound, OwnPath, Hunting, Waiting
<1>3. Fits(s, GoHome(m)) /\ Sound(GoHome(m))
  BY HomeFits DEF Sound, Waiting
<1> QED
  BY <1>1, <1>2, <1>3, BecomeOK, RequestOK DEF Pursue

(* After the timers and the scan for a target only the target is new.      *)
Scanned(m) ==
  /\ OwnPath(m) /\ Waiting(m)
  /\ m.path # NoPath \/ m.pending => m.state = "chase"
  /\ m.returning => m.state = "patrol" /\ m.target = Nobody

LEMMA RefreshedFits ==
  ASSUME MInv, NEW s \in Living, NEW expired \in BOOLEAN,
         NEW m \in Refreshed(monster[s], expired)
  PROVE  Fits(s, m) /\ Scanned(m)
<1>1. PICK o : o = monster[s]
  OBVIOUS
<1>2. o \in Monster /\ Sound(o) /\ o.state # "dead"
  BY <1>1, UsedTypes DEF MInv, MonstersOK, Pursuits, Living
<1>3. PICK t \in Targets \cup {Nobody} :
        /\ m = [o EXCEPT !.pending = PendingAfter(o, expired), !.target = t]
        /\ o.returning => t = o.target
  BY <1>1, <1>2 DEF Refreshed, Monster
<1>4. PendingAfter(o, expired) \in BOOLEAN /\ (PendingAfter(o, expired) => o.pending)
  BY <1>2 DEF PendingAfter, Monster
<1>5. m \in Monster
  BY <1>2, <1>3, <1>4 DEF Monster
<1>6. o.returning => o.target = Nobody
  BY <1>2 DEF Sound, Hunting
<1> QED
  BY <1>1, <1>2, <1>3, <1>4, <1>5, <1>6
     DEF Fits, Monster, Scanned, Sound, OwnPath, Hunting, Waiting

LEMMA BehaviourOK ==
  ASSUME MInv, NEW s \in Used, NEW m, Fits(s, m), Scanned(m),
         Idle(s, m) \/ Patrol(s, m) \/ Chase(s, m) \/ Attack(s, m),
         UNCHANGED <<groupVars, kills>>
  PROVE  Updated
<1>1. m \in Monster /\ m.cleared <= m.seq
  BY DEF Fits, Scanned, Waiting
<1>2. PICK c : c = ClearPath(m)
  OBVIOUS
<1>3. /\ Fits(s, c) /\ c.path = NoPath /\ ~ c.pending /\ c.cleared <= c.seq
      /\ c.state = m.state /\ c.target = m.target /\ c.returning = m.returning
  BY <1>1, <1>2, ClearedFits
<1>4. /\ Fits(s, GoHome(m)) /\ Sound(GoHome(m))
      /\ Fits(s, Settle(GoHome(m))) /\ Sound(Settle(GoHome(m)))
  BY <1>1, HomeFits
<1>5. ASSUME m.state \in {"idle", "patrol", "attack"}, m.target # Nobody
      PROVE  /\ Fits(s, [m EXCEPT !.state = "chase"])
             /\ Sound([m EXCEPT !.state = "chase"])
             /\ [m EXCEPT !.state = "chase"].state = "chase"
  BY <1>5 DEF Fits, Monster, Scanned, Sound, OwnPath, Hunting, Waiting
<1>6. ASSUME m.state \in {"idle", "patrol"}, m.target = Nobody
      PROVE  Sound(m) /\ Fits(s, Settle(m)) /\ Sound(Settle(m))
  BY <1>6 DEF Settle, Fits, Monster, Scanned, Sound, OwnPath, Hunting, Waiting
<1>7. ASSUME m.state \in {"idle", "attack"}, m.target = Nobody
      PROVE  /\ Fits(s, [m EXCEPT !.state = "patrol"])
             /\ Sound([m EXCEPT !.state = "patrol"])
  BY <1>7 DEF Fits, Monster, Scanned, Sound, OwnPath, Hunting, Waiting
<1>8. CASE Idle(s, m)
  BY <1>5, <1>6, <1>7, <1>8, BecomeOK DEF Idle
<1>9. CASE Patrol(s, m)
  BY <1>5, <1>6, <1>9, BecomeOK DEF Patrol
<1>10. CASE Chase(s, m)
  <2>1. CASE m.target = Nobody
    <3>1. /\ Fits(s, [c EXCEPT !.state = "patrol"])
          /\ Sound([c EXCEPT !.state = "patrol"])
      BY <1>3, <2>1 DEF Fits, Monster, Sound, OwnPath, Hunting, Waiting
    <3>2. Become(s, [c EXCEPT !.state = "patrol"])
      BY <1>2, <1>10, <2>1 DEF Chase
    <3> QED
      BY <3>1, <3>2, BecomeOK
  <2>2. CASE m.target # Nobody
    <3>1. /\ Fits(s, [c EXCEPT !.state = "attack"])
          /\ Sound([c EXCEPT !.state = "attack"])
      BY <1>3, <1>10, <2>2
         DEF Chase, Fits, Monster, Scanned, Sound, OwnPath, Hunting, Waiting
    <3>2. Sound(m) /\ m.state = "chase"
      BY <1>10, <2>2 DEF Chase, Scanned, Sound, Hunting
    <3> QED
      BY <1>2, <1>4, <1>10, <2>2, <3>1, <3>2, BecomeOK, PursueOK DEF Chase
  <2> QED
    BY <2>1, <2>2
<1>11. CASE Attack(s, m)
  <2>1. CASE m.target = Nobody
    BY <1>7, <1>11, <2>1, BecomeOK DEF Attack
  <2>2. CASE m.target # Nobody
    <3>1. Sound(m) /\ m.state = "attack"
      BY <1>11, <2>2 DEF Attack, Scanned, Sound, Hunting
    <3> QED
      BY <1>5, <1>11, <2>2, <3>1, BecomeOK, PursueOK DEF Attack
  <2> QED
    BY <2>1, <2>2
<1> QED
  BY <1>8, <1>9, <1>10, <1>11

LEMMA UpdateOK ==
  ASSUME MInv, NEW s \in Slots, NEW expired \in BOOLEAN, Update(s, expired)
  PROVE  MInv'
<1>1. /\ phase = "update" /\ todo' = todo \ {s} /\ s \in Used
      /\ UNCHANGED <<phase, groupVars, mail, kills>>
  <2>1. todo \subseteq Used /\ Used \subseteq Slots /\ todo # {} /\ s = Min(todo)
    BY DEF MInv, TickOK, Update, Used
  <2>2. todo \subseteq Nat
    BY <2>1, MonstersAssumption
  <2> QED
    BY <2>1, <2>2, MinIsMember DEF Update
<1>2. Updated
  <2>1. CASE s \in Corpses
    <3>1. UNCHANGED <<monster, requests, asked>>
      BY <2>1 DEF Update
    <3>2. Rewriting
      BY <1>1, <3>1 DEF Rewriting, Rewritten, MInv, MonstersOK
    <3> QED
      BY <3>1, <3>2 DEF Updated, RequestsOK, MInv, PathsOK
  <2>2. CASE s \notin Corpses
    <3>1. s \in Living
      BY <1>1, <2>2 DEF Corpses
    <3>2. PICK m \in Refreshed(monster[s], expired) :
            Idle(s, m) \/ Patrol(s, m) \/ Chase(s, m) \/ Attack(s, m)
      BY <2>2 DEF Update
    <3>3. Fits(s, m) /\ Scanned(m)
      BY <3>1, RefreshedFits
    <3> QED
      BY <1>1, <3>2, <3>3, BehaviourOK
  <2> QED
    BY <2>1, <2>2
<1>3. MonstersOK' /\ Used' = Used
  BY <1>2, RewritingOK, RewrittenUsed DEF MInv, Updated
<1>4. PathsOK'
  BY <1>1, <1>2 DEF MInv, PathsOK, Updated, RequestsOK
<1> QED
  BY <1>1, <1>3, <1>4 DEF MInv, TickOK

-----------------------------------------------------------------------------
LEMMA MInvInit == Init => MInv
<1> SUFFICES ASSUME Init PROVE MInv
  OBVIOUS
<1>1. Used = {}
  BY DEF Init, Used
<1>2. \A g : OfGroup(g) = {}
  BY <1>1 DEF OfGroup
<1>3. Books
  <2> SUFFICES ASSUME NEW g \in Groups PROVE Seats(g)
    BY DEF Books
  <2>1. alive[g] = 0 /\ later[g] = 0 /\ due[g] = Count[g]
    BY DEF Init
  <2>2. Count[g] \in Nat
    BY MonstersAssumption
  <2>3. Cardinality(OfGroup(g)) = 0
    BY <1>2, FS_EmptySet
  <2> QED
    BY <2>1, <2>2, <2>3 DEF Seats
<1>4. MonstersOK
  BY <1>1, <1>3, MonstersAssumption
     DEF Init, MonstersOK, OneLife, Pursuits, Living
<1>5. PathsOK
  BY MonstersAssumption, EmptySeq DEF Init, PathsOK
<1> QED
  BY <1>4, <1>5 DEF Init, MInv, TickOK

LEMMA MInvNext == MInv /\ [Next]_vars => MInv'
<1> SUFFICES ASSUME MInv, [Next]_vars PROVE MInv'
  OBVIOUS
<1>1. CASE UNCHANGED vars
  <2>1. MonstersOK' /\ Used' = Used
    BY <1>1, UntouchedOK DEF vars, MInv
  <2> QED
    BY <1>1, <2>1 DEF vars, pathVars, MInv, PathsOK, TickOK
<1> QED
  BY <1>1, SpawnOK, SweepOK, PhaseOK, KillOK, AnsweredOK, FindPathOK, UpdateOK
     DEF Next

LEMMA MInvAlways == Spec => []MInv
  BY MInvInit, MInvNext, PTL DEF Spec

(***************************************************************************)
(* Every variable keeps its type: the pathfinder's queue and the critical  *)
(* mailbox within their limits, no request made twice under one number,    *)
(* and no Update of a monster that is not in the pool.                     *)
(***************************************************************************)
THEOREM MonstersTypeCorrect == Spec => []TypeOK
  BY MInvAlways, TypeParts, PTL

(***************************************************************************)
(* The books of every spawn group agree with the map, whatever spawns      *)
(* fail, whatever corpses one sweep takes and in whatever order            *)
(* reservations come due; wire ids are never shared by two monsters.       *)
(***************************************************************************)
THEOREM GroupsStayComplete == Spec => []PopulationExact
<1>1. MInv => PopulationExact
  BY TypeParts DEF MInv, MonstersOK, Books, Seats, OneLife, PopulationExact
<1> QED
  BY <1>1, MInvAlways, PTL

(***************************************************************************)
(* A living monster follows only a path it asked for itself in its present *)
(* pursuit, although answers come late, after their request expired, or    *)
(* when another monster has the slot: the wire id and the number of the    *)
(* request are enough to tell.                                             *)
(***************************************************************************)
THEOREM PathsStayFresh == Spec => []FreshPaths
<1>1. MInv => FreshPaths
  BY DEF MInv, MonstersOK, Pursuits, Sound, OwnPath, Hunting, FreshPaths
<1> QED
  BY <1>1, MInvAlways, PTL
=============================================================================
