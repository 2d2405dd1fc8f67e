------------------------------- MODULE Monsters -------------------------------
(***************************************************************************)
(* The monsters of one map of a channel: their spawn groups with corpses   *)
(* and reservations, their behaviour, and the paths they ask the           *)
(* pathfinder thread for (MapManager.cpp, Monster.cpp, PathfinderThread.cpp).*)
(*                                                                         *)
(* The channel thread repeats its tick: jobs (skills, answers of the       *)
(* pathfinder), one Update of every monster, the sweep of the corpses, and *)
(* the reservations that are due.  The pathfinder thread takes requests    *)
(* from a bounded queue and posts answers to the critical mailbox of the   *)
(* channel, which drops at its limit.  What depends on positions, walls,   *)
(* hit points and clocks is a free choice of each step.                    *)
(***************************************************************************)
EXTENDS Integers, Sequences, FiniteSets, FiniteSetsExt

CONSTANTS
  Slots,        \* m_monsterPool, in the order of m_objects
  Groups,       \* spawn groups
  Count,        \* def.count of a group
  Cap,          \* m_mapCap
  Targets,      \* wire ids of players a monster may see
  Nobody,       \* no target, and the content of a free slot
  NoPath,       \* no waypoints
  QueueCap,     \* MAX_PATH_REQUESTS
  MailCap,      \* room in the critical mailbox
  MaxKills,     \* BOUND: monsters killed
  MaxRequests   \* BOUND: requests for paths

\* What a Monster and the messages about paths are made of.
Steps   == [life : Nat, seq : Nat]   \* waypoints, as the request they answer
Monster ==
  [id : Nat, life : Nat, group : Groups,
   state : {"idle", "patrol", "chase", "attack", "dead"},
   target : Targets \cup {Nobody}, returning : BOOLEAN, seq : Nat, cleared : Nat,
   pending : BOOLEAN, path : Steps \cup {NoPath}]
PathRequest == [id : Nat, life : Nat, seq : Nat, target : Targets \cup {Nobody}]
PathAnswer  == [id : Nat, life : Nat, seq : Nat, target : Targets \cup {Nobody},
                found : BOOLEAN]

ASSUME MonstersAssumption ==
  /\ Slots \subseteq Nat /\ IsFiniteSet(Slots)
  /\ Groups # {} /\ Count \in [Groups -> Nat \ {0}]
  /\ Nobody \notin Targets \cup Slots \cup Monster
  /\ NoPath \notin Steps
  /\ {QueueCap, MailCap, MaxKills, MaxRequests} \subseteq Nat

\* SpawnTable.cpp checks the caps.
ASSUME SpawnsFit ==
  LET all == FoldSet(LAMBDA g, n : n + Count[g], 0, Groups)
  IN  all <= Cap /\ all <= Cardinality(Slots)

VARIABLES
  phase,     \* "jobs", "update", "sweep", "respawn"
  todo,      \* slots Map::Update has not updated in this tick
  monster,   \* the Monster in a slot of the pool, or Nobody
  nextId,    \* m_nextObjectId
  alive,     \* aliveCount of a group, corpses included
  later,     \* reservations of a group that are not due
  due,       \* and those that are; together pendingCount
  requests,  \* m_queue of the pathfinder thread
  mail,      \* its answers in the critical mailbox
  kills,     \* monsters killed
  asked      \* requests made

groupVars == <<nextId, alive, later, due>>
pathVars  == <<requests, mail>>
vars == <<phase, todo, monster, groupVars, pathVars, kills, asked>>

Used       == {s \in Slots : monster[s] # Nobody}
Living     == {s \in Used : monster[s].state # "dead"}
Corpses    == Used \ Living
OfGroup(g) == {s \in Used : monster[s].group = g}

-----------------------------------------------------------------------------
(* Spawn groups.                                                             *)

BadNewId == Cardinality(Used) + 1

\* Wire ids are never used again: the only guard of late answers against a reused slot.
NewId == nextId

\* The life and the seq at the last ClearPath are history.
NewMonster(g) ==
  [id |-> NewId, life |-> nextId, group |-> g, state |-> "idle", target |-> Nobody,
   returning |-> FALSE, seq |-> 0, cleared |-> 0, pending |-> FALSE, path |-> NoPath]

\* InitSpawns tries every member of a group; those that fail are due at once.
Init ==
  /\ phase = "respawn" /\ todo = {}
  /\ monster = [s \in Slots |-> Nobody] /\ nextId = 1
  /\ alive = [g \in Groups |-> 0] /\ later = [g \in Groups |-> 0] /\ due = Count
  /\ requests = <<>> /\ mail = <<>>
  /\ kills = 0 /\ asked = 0

\* TrySpawnFromGroup finds a spot, the cap of the map and the pool allow it.
TrySpawn(g, s) ==
  /\ phase = "respawn" /\ due[g] > 0
  /\ Cardinality(Used) < Cap /\ s \notin Used
  /\ monster' = [monster EXCEPT ![s] = NewMonster(g)]
  /\ nextId' = nextId + 1
  /\ alive'  = [alive EXCEPT ![g] = @ + 1]
  /\ due'    = [due EXCEPT ![g] = @ - 1]
  /\ UNCHANGED <<phase, todo, later, pathVars, kills, asked>>

BadUnspawned(g, n) == 0

\* Of n reservations whose spawn failed, those that stay for the next tick.
Unspawned(g, n) == n

EndTick ==
  /\ phase = "respawn" /\ phase' = "jobs"
  /\ due' = [g \in Groups |-> Unspawned(g, due[g])]
  /\ UNCHANGED <<todo, monster, nextId, alive, later, pathVars, kills, asked>>

\* SweepDead for the corpses E that were kept long enough: one reservation for each.  Some
\* earlier reservations come due.
SweepDead(E, ripe) ==
  LET gone(g) == Cardinality(E \cap OfGroup(g)) IN
  /\ phase = "sweep" /\ phase' = "respawn"
  /\ monster' = [s \in Slots |-> IF s \in E THEN Nobody ELSE monster[s]]
  /\ alive' = [g \in Groups |-> alive[g] - gone(g)]
  /\ later' = [g \in Groups |-> (IF g \in ripe THEN 0 ELSE later[g]) + gone(g)]
  /\ due'   = [g \in Groups |-> due[g] + IF g \in ripe THEN later[g] ELSE 0]
  /\ UNCHANGED <<todo, nextId, pathVars, kills, asked>>

-----------------------------------------------------------------------------
(* Jobs.                                                                     *)

\* ApplySkillHit with a fatal hit; a corpse is not hit again.
MarkDead(s) ==
  /\ phase = "jobs" /\ kills < MaxKills /\ s \in Living
  /\ kills' = kills + 1
  /\ monster' = [monster EXCEPT ![s].state = "dead"]
  /\ UNCHANGED <<phase, todo, groupVars, pathVars, asked>>

\* FindMonsterForPath: by wire id, corpses excluded.
Addressee(a) == {s \in Living : monster[s].id = a.id}

Current(m, a) == m.pending /\ a.seq = m.seq
Useful(m, a)  == a.target = m.target /\ m.target # Nobody /\ m.state = "chase"

OnPathResult(m, a) ==
  IF ~ Current(m, a) THEN m
  ELSE [m EXCEPT !.pending = FALSE,
                 !.path = IF Useful(m, a) /\ a.found
                            THEN [life |-> a.life, seq |-> a.seq] ELSE NoPath]

\* PathResultJob.
Answered ==
  /\ phase = "jobs" /\ mail # <<>>
  /\ mail' = Tail(mail)
  /\ monster' = [s \in Slots |-> IF s \in Addressee(Head(mail))
                                   THEN OnPathResult(monster[s], Head(mail)) ELSE monster[s]]
  /\ UNCHANGED <<phase, todo, groupVars, requests, kills, asked>>

\* A tick executes so many jobs at most; the others stay for the next one.
BeginUpdate ==
  /\ phase = "jobs" /\ phase' = "update"
  /\ todo' = Used
  /\ UNCHANGED <<monster, groupVars, pathVars, kills, asked>>

-----------------------------------------------------------------------------
(* Monster::Update.                                                          *)

ClearPath(m) == [m EXCEPT !.cleared = m.seq, !.path = NoPath, !.pending = FALSE]

GoHome(m) == [ClearPath(m) EXCEPT !.target = Nobody, !.returning = TRUE, !.state = "patrol"]
Settle(m) == [m EXCEPT !.returning = FALSE, !.state = "idle"]   \* arrived, or the way is barred

BadPendingAfter(m, expired) == m.pending

\* A request has a time to live: MONSTER_PATH_PENDING_TTL_SEC.
PendingAfter(m, expired) == m.pending /\ ~ expired

\* The timers, and the scan for a target: every tick while engaged, else now and then; never on
\* the way home.
Refreshed(m, expired) ==
  {[m EXCEPT !.pending = PendingAfter(m, expired), !.target = t] :
     t \in IF m.returning THEN {m.target} ELSE Targets \cup {Nobody}}

Request(s, m) == [id |-> m.id, life |-> m.life, seq |-> m.seq + 1, target |-> m.target]

Store(s, m) == monster' = [monster EXCEPT ![s] = m]

\* A full queue refuses, and the monster tries again in a later tick.  The pause after a search
\* without a result is left out: it only delays a request, which Pursue may always do.
RequestPath(s, m) ==
  /\ ~ m.pending
  /\ IF Len(requests) < QueueCap
       THEN /\ asked < MaxRequests /\ asked' = asked + 1
            /\ requests' = Append(requests, Request(s, m))
            /\ Store(s, [m EXCEPT !.seq = @ + 1, !.pending = TRUE])
       ELSE Store(s, m) /\ UNCHANGED <<requests, asked>>

Become(s, m) == Store(s, m) /\ UNCHANGED <<requests, asked>>

\* Pursuit along the waypoints or straight on: the path may have become needless or be used up;
\* a target that left its end, and a wall, call for a new one; walls for too long make it give up.
Pursue(s, m) ==
  \/ Become(s, m)
  \/ Become(s, [m EXCEPT !.path = NoPath])
  \/ RequestPath(s, m)
  \/ RequestPath(s, [m EXCEPT !.path = NoPath])
  \/ Become(s, GoHome(m))

Idle(s, m) ==
  /\ m.state = "idle"
  /\ IF m.target # Nobody THEN Become(s, [m EXCEPT !.state = "chase"])
     ELSE Become(s, m) \/ Become(s, [m EXCEPT !.state = "patrol"]) \/ Become(s, Settle(m))

Patrol(s, m) ==
  /\ m.state = "patrol"
  /\ IF m.target # Nobody THEN Become(s, [m EXCEPT !.state = "chase"])
     ELSE Become(s, m) \/ Become(s, Settle(m))

Chase(s, m) ==
  /\ m.state = "chase"
  /\ IF m.target = Nobody THEN Become(s, [ClearPath(m) EXCEPT !.state = "patrol"])
     ELSE \/ Become(s, [ClearPath(m) EXCEPT !.state = "attack"])
          \/ Become(s, GoHome(m)) \/ Become(s, Settle(GoHome(m)))   \* beyond the leash
          \/ Pursue(s, m)

Attack(s, m) ==
  /\ m.state = "attack"
  /\ IF m.target = Nobody THEN Become(s, [m EXCEPT !.state = "patrol"])
     ELSE \/ Become(s, m)
          \/ Pursue(s, [m EXCEPT !.state = "chase"])

Update(s, expired) ==
  /\ phase = "update" /\ todo # {} /\ s = Min(todo)
  /\ todo' = todo \ {s}
  /\ IF s \in Corpses THEN UNCHANGED <<monster, requests, asked>>
     ELSE \E m \in Refreshed(monster[s], expired) :
            Idle(s, m) \/ Patrol(s, m) \/ Chase(s, m) \/ Attack(s, m)
  /\ UNCHANGED <<phase, groupVars, mail, kills>>

EndUpdate ==
  /\ phase = "update" /\ todo = {}
  /\ phase' = "sweep"
  /\ UNCHANGED <<todo, monster, groupVars, pathVars, kills, asked>>

-----------------------------------------------------------------------------
\* The pathfinder thread answers a request; a full mailbox drops the answer.
FindPath ==
  /\ requests # <<>>
  /\ requests' = Tail(requests)
  /\ \E found \in BOOLEAN :
       mail' = IF Len(mail) < MailCap
                 THEN Append(mail, [id |-> Head(requests).id, life |-> Head(requests).life,
                                    seq |-> Head(requests).seq, target |-> Head(requests).target,
                                    found |-> found])
                 ELSE mail
  /\ UNCHANGED <<phase, todo, monster, groupVars, kills, asked>>

SweepAll == SweepDead(Corpses, {g \in Groups : later[g] > 0})

Next ==
  \/ \E g \in Groups, s \in Slots : TrySpawn(g, s)
  \/ \E E \in SUBSET Corpses, ripe \in SUBSET Groups : SweepDead(E, ripe)
  \/ \E s \in Slots : MarkDead(s) \/ \E expired \in BOOLEAN : Update(s, expired)
  \/ EndTick \/ Answered \/ BeginUpdate \/ EndUpdate \/ FindPath

\* The tick of the channel goes on.  Clocks advance: corpses expire, reservations come due and
\* the time to live of a request runs out.  The spot of a spawn is drawn at
\* random until one is walkable.
Fairness ==
  /\ WF_vars(EndTick) /\ WF_vars(BeginUpdate) /\ WF_vars(EndUpdate)
  /\ \A s \in Slots : SF_vars(Update(s, TRUE))
  /\ SF_vars(SweepAll)
  /\ \A g \in Groups : SF_vars(\E s \in Slots : TrySpawn(g, s))

Spec == Init /\ [][Next]_vars /\ Fairness

-----------------------------------------------------------------------------
TypeOK ==
  /\ phase \in {"jobs", "update", "sweep", "respawn"} /\ todo \subseteq Used
  /\ monster \in [Slots -> Monster \cup {Nobody}]
  /\ \A s \in Used : monster[s].id < nextId /\ monster[s].seq <= asked
  /\ {nextId, kills, asked} \subseteq Nat
  /\ {alive, later, due} \subseteq [Groups -> Nat]
  /\ requests \in Seq(PathRequest) /\ Len(requests) <= QueueCap
  /\ mail \in Seq(PathAnswer) /\ Len(mail) <= MailCap

\* The books of every spawn group agree with the map: monsters, corpses included, and
\* reservations make up the group, whatever spawns fail and in whatever order they die, are
\* swept and reserved; wire ids are unique.
PopulationExact ==
  /\ TypeOK
  /\ \A g \in Groups :
       /\ alive[g] = Cardinality(OfGroup(g))
       /\ alive[g] + later[g] + due[g] = Count[g]
  /\ \A s, t \in Used : s # t => monster[s].id # monster[t].id

\* A living monster follows only a path it asked for itself, in the present pursuit: late
\* answers to earlier pursuits, of requests that had expired, or for the former owner of the
\* slot are not used.  It waits for or follows a path only while it chases somebody, and it
\* never has a target on its way home.
FreshPaths ==
  \A s \in Living :
    LET m == monster[s] IN
    /\ m.path # NoPath => m.path.life = m.life /\ m.path.seq > m.cleared
    /\ m.path # NoPath \/ m.pending => m.state = "chase"
    /\ m.state \in {"chase", "attack"} <=> m.target # Nobody
    /\ m.returning => m.state = "patrol"

\* When the killing ends every group is complete again, and no monster waits for ever for an
\* answer that was dropped.
SelfHealing ==
  /\ <>[](\A g \in Groups : Cardinality(OfGroup(g) \cap Living) = Count[g])
  /\ \A s \in Slots : []<>(s \in Living => ~ monster[s].pending)
=============================================================================
