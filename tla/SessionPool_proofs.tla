-------------------------- MODULE SessionPool_proofs --------------------------
(***************************************************************************)
(* Proofs about SessionPool for any number of slots, threads, batches and  *)
(* incarnations.                                                           *)
(*                                                                         *)
(* Part 1 proves the type invariant, whatever the timing of the sweep.     *)
(*                                                                         *)
(* Part 2 proves reference counting, use after release and lost slots, for *)
(* as long as no lease inside OnAcceptComplete has come to harm            *)
(* (`overtaken`).  Its inductive invariant says, besides the properties    *)
(* themselves, who can be alone on a slot: the thread that tears it down   *)
(* and the accept thread until its first receive, but for a lease about to *)
(* be aborted; and on what slots such a lease can be.                      *)
(***************************************************************************)
EXTENDS SessionPool, FiniteSetTheorems, SequenceTheorems, TLAPS

(***************************************************************************)
(* Which thread may be where.                                              *)
(***************************************************************************)
Teardown == {"idle", "cas", "close", "dec", "notify", "release"}

RoleOK(t) ==
  \/ pc[t] \in Teardown
  \/ t = Acceptor /\ pc[t] \in {"setup", "firstRecv", "acceptRelease"}
  \/ t \in Workers /\ pc[t] \in {"recv", "nextRecv", "send"}
  \/ t \in Callers /\ pc[t] \in {"sendTo", "enqueue", "abort"}
  \/ t \in Reapers /\ pc[t] \in {"scanned", "recheck", "abort"}

(***************************************************************************)
(* What a thread owes there.  A thread that tears a session down owes      *)
(* nothing any more, unless the count it read had underflowed.             *)
(***************************************************************************)
OweOK(t) ==
  /\ pc[t] \in {"idle", "setup", "firstRecv", "acceptRelease", "scanned"}
       => owe[t] = 0
  /\ pc[t] \in {"recv", "nextRecv", "send", "sendTo", "enqueue", "recheck",
                "abort"} => owe[t] = 1
  /\ pc[t] \in {"cas", "close", "dec"} => owe[t] \in {1, 2}
  /\ pc[t] \in {"notify", "release"} => owe[t] \in {0, 1}

ThreadsOK ==
  \A t \in Threads :
    /\ RoleOK(t) /\ OweOK(t)
    /\ slot[t] # NoSlot => sessionId[slot[t]] >= 1

SlotsOK ==
  \A s \in Slots :
    /\ generation[s] >= 1
    /\ sessionId[s] <= MaxGen
    /\ inFlight[s] <= queued[s]
    /\ lastRecv[s] # "unset" => sessionId[s] >= 1

IoOK ==
  /\ IsFiniteSet(posted) /\ IsFiniteSet(completed)
  /\ \A io \in Outstanding : sessionId[io.slot] >= 1
  /\ \A h \in known : sessionId[h[1]] >= 1

(***************************************************************************)
(* The two halves of TypeOK: the session pool, and the threads.            *)
(***************************************************************************)
PoolTypes ==
  /\ generation \in [Slots -> Nat] /\ sessionId \in [Slots -> Nat]
  /\ sockOpen \in [Slots -> BOOLEAN] /\ disconnecting \in [Slots -> BOOLEAN]
  /\ pendingIo \in [Slots -> Int]
  /\ sendInProgress \in [Slots -> BOOLEAN]
  /\ queued \in [Slots -> 0 .. QueueCap] /\ inFlight \in [Slots -> 0 .. QueueCap]
  /\ lastRecv \in [Slots -> {"unset", "fresh", "expired"}]
  /\ freeList \in Seq(Slots)
  /\ posted \subseteq IoType /\ completed \subseteq IoType
  /\ known \subseteq Handles /\ notices \in [Handles -> Nat]
  /\ overtaken \in BOOLEAN

ThreadTypes ==
  /\ pc \in [Threads -> PcLabels]
  /\ slot \in [Threads -> Slots \cup {NoSlot}]
  /\ held \in [Threads -> Nat]
  /\ owe \in [Threads -> 0 .. 2]
  /\ \A t \in Threads : (slot[t] = NoSlot) <=> (pc[t] = "idle")

TypeInv == TypeOK /\ ThreadsOK /\ SlotsOK /\ IoOK

-----------------------------------------------------------------------------
LEMMA PushFree ==
  ASSUME NEW q \in Seq(Slots), NEW s \in Slots
  PROVE  /\ <<s>> \o q \in Seq(Slots)
         /\ Len(<<s>> \o q) = Len(q) + 1
         /\ (<<s>> \o q)[1] = s
         /\ \A i \in 1 .. Len(q) : (<<s>> \o q)[i + 1] = q[i]
<1>1. <<s>> \in Seq(Slots) /\ Len(<<s>>) = 1 /\ <<s>>[1] = s
  OBVIOUS
<1>2. Len(q) \in Nat
  BY LenProperties
<1>3. /\ <<s>> \o q \in Seq(Slots)
      /\ Len(<<s>> \o q) = 1 + Len(q)
      /\ \A i \in 1 .. 1 + Len(q) : (<<s>> \o q)[i] =
           IF i <= 1 THEN <<s>>[i] ELSE q[i - 1]
  BY <1>1, ConcatProperties
<1> QED
  BY <1>1, <1>2, <1>3

LEMMA TypesOK == TypeOK <=> PoolTypes /\ ThreadTypes
  BY DEF TypeOK, PoolTypes, ThreadTypes

LEMMA TypesOKNext ==
  PoolTypes' /\ ThreadTypes' /\ ThreadsOK' /\ SlotsOK' /\ IoOK' => TypeInv'
  BY DEF TypeOK, PoolTypes, ThreadTypes, TypeInv

(* What the thread bookkeeping does: one thread moves, the types stay.     *)
OnlyMoves(t) ==
  \A u \in Threads \ {t} :
    /\ pc'[u] = pc[u] /\ slot'[u] = slot[u]
    /\ held'[u] = held[u] /\ owe'[u] = owe[u]

LEMMA BeginEffect ==
  ASSUME ThreadTypes, NEW t \in Threads, NEW label \in PcLabels \ {"idle"},
         NEW s \in Slots, NEW refs \in 0 .. 2, generation[s] \in Nat,
         Begin(t, label, s, refs)
  PROVE  /\ ThreadTypes' /\ OnlyMoves(t)
         /\ pc'[t] = label /\ slot'[t] = s
         /\ held'[t] = generation[s] /\ owe'[t] = refs
<1> USE SessionPoolAssumption DEF ThreadTypes, Begin
<1>1. pc' \in [Threads -> PcLabels]
  OBVIOUS
<1>2. slot' \in [Threads -> Slots \cup {NoSlot}]
  OBVIOUS
<1>3. held' \in [Threads -> Nat]
  OBVIOUS
<1>4. owe' \in [Threads -> 0 .. 2]
  OBVIOUS
<1>5. \A u \in Threads : (slot'[u] = NoSlot) <=> (pc'[u] = "idle")
  OBVIOUS
<1>6. OnlyMoves(t)
  BY DEF OnlyMoves
<1> QED
  BY <1>1, <1>2, <1>3, <1>4, <1>5, <1>6

LEMMA FinishEffect ==
  ASSUME ThreadTypes, NEW t \in Threads, Finish(t)
  PROVE  /\ ThreadTypes' /\ OnlyMoves(t)
         /\ pc'[t] = "idle" /\ slot'[t] = NoSlot /\ owe'[t] = 0
<1> USE DEF ThreadTypes, Finish
<1>1. pc' \in [Threads -> PcLabels]
  BY DEF PcLabels
<1>2. slot' \in [Threads -> Slots \cup {NoSlot}]
  OBVIOUS
<1>3. held' \in [Threads -> Nat]
  OBVIOUS
<1>4. owe' \in [Threads -> 0 .. 2]
  OBVIOUS
<1>5. \A u \in Threads : (slot'[u] = NoSlot) <=> (pc'[u] = "idle")
  OBVIOUS
<1>6. OnlyMoves(t)
  BY DEF OnlyMoves
<1> QED
  BY <1>1, <1>2, <1>3, <1>4, <1>5, <1>6

LEMMA GotoEffect ==
  ASSUME ThreadTypes, NEW t \in Threads, NEW label \in PcLabels \ {"idle"},
         pc[t] # "idle", Goto(t, label), UNCHANGED <<slot, held>>,
         NEW refs \in 0 .. 2,
         owe' = [owe EXCEPT ![t] = refs]
  PROVE  /\ ThreadTypes' /\ OnlyMoves(t)
         /\ pc'[t] = label /\ slot'[t] = slot[t]
         /\ held'[t] = held[t] /\ owe'[t] = refs
<1> USE DEF ThreadTypes, Goto
<1>1. pc' \in [Threads -> PcLabels]
  OBVIOUS
<1>2. \A u \in Threads : (slot'[u] = NoSlot) <=> (pc'[u] = "idle")
  OBVIOUS
<1>3. owe' \in [Threads -> 0 .. 2]
  OBVIOUS
<1>4. OnlyMoves(t)
  BY DEF OnlyMoves
<1> QED
  BY <1>1, <1>2, <1>3, <1>4

(* Most moves change pc alone.                                             *)
LEMMA JumpEffect ==
  ASSUME ThreadTypes, NEW t \in Threads, NEW label \in PcLabels \ {"idle"},
         pc[t] # "idle", Goto(t, label), UNCHANGED <<slot, held, owe>>
  PROVE  /\ ThreadTypes' /\ OnlyMoves(t)
         /\ pc'[t] = label /\ slot'[t] = slot[t]
         /\ held'[t] = held[t] /\ owe'[t] = owe[t]
<1>1. owe[t] \in 0 .. 2 /\ owe' = [owe EXCEPT ![t] = owe[t]]
  BY DEF ThreadTypes
<1> QED
  BY <1>1, GotoEffect

LEMMA ThreadsStep ==
  ASSUME ThreadTypes, ThreadsOK, NEW t \in Threads, OnlyMoves(t),
         RoleOK(t)', OweOK(t)',
         slot'[t] # NoSlot => sessionId'[slot'[t]] >= 1,
         PoolTypes, PoolTypes',
         \A s \in Slots : sessionId[s] >= 1 => sessionId'[s] >= 1
  PROVE  ThreadsOK'
<1> SUFFICES ASSUME NEW u \in Threads, u # t
             PROVE  /\ RoleOK(u)' /\ OweOK(u)'
                    /\ slot'[u] # NoSlot => sessionId'[slot'[u]] >= 1
  BY DEF ThreadsOK
<1>1. pc'[u] = pc[u] /\ slot'[u] = slot[u] /\ owe'[u] = owe[u]
  BY DEF OnlyMoves
<1>2. /\ RoleOK(u) /\ OweOK(u)
      /\ slot[u] # NoSlot => sessionId[slot[u]] >= 1
  BY DEF ThreadsOK
<1>3. RoleOK(u)'
  BY <1>1, <1>2 DEF RoleOK, Teardown
<1>4. OweOK(u)'
  BY <1>1, <1>2 DEF OweOK
<1>5. slot'[u] # NoSlot => sessionId'[slot'[u]] >= 1
  BY <1>1, <1>2 DEF ThreadTypes
<1> QED
  BY <1>3, <1>4, <1>5

(* A thread that is not idle works on a slot.                              *)
LEMMA HasSlot ==
  ASSUME TypeInv, NEW t \in Threads, pc[t] # "idle"
  PROVE  slot[t] \in Slots /\ sessionId[slot[t]] \in 1 .. MaxGen
<1>1. slot[t] \in Slots /\ slot[t] # NoSlot
  BY SessionPoolAssumption, TypesOK DEF TypeInv, ThreadTypes
<1>2. sessionId[slot[t]] \in Nat
  BY <1>1, TypesOK DEF TypeInv, PoolTypes
<1>3. sessionId[slot[t]] >= 1
  BY <1>1 DEF TypeInv, ThreadsOK
<1>4. sessionId[slot[t]] <= MaxGen
  BY <1>1 DEF TypeInv, SlotsOK
<1> QED
  BY <1>1, <1>2, <1>3, <1>4, SessionPoolAssumption

LEMMA IoFields ==
  ASSUME NEW s \in Slots, sessionId[s] \in Nat, NEW op \in {"recv", "send"}
  PROVE  /\ Io(s, op) \in IoType
         /\ Io(s, op).slot = s /\ Io(s, op).gen = sessionId[s]
         /\ Io(s, op).op = op
  BY DEF Io, IoType

LEMMA InitType == Init => TypeInv
<1> SUFFICES ASSUME Init PROVE TypeInv
  OBVIOUS
<1> USE SessionPoolAssumption
<1>1. freeList \in Seq(Slots)
  <2>1. \A i \in 1 .. MaxSession : i - 1 \in Slots
    BY DEF Slots
  <2> QED
    BY <2>1, IsASeq DEF Init
<1>2. TypeOK
  <2>1. "idle" \in PcLabels /\ posted = {} /\ completed = {} /\ known = {}
    BY DEF Init, PcLabels
  <2>2. overtaken \in BOOLEAN /\ notices \in [Handles -> Nat]
    BY DEF Init
  <2>3. /\ pc \in [Threads -> PcLabels]
        /\ \A t \in Threads : slot[t] = NoSlot /\ pc[t] = "idle"
    BY <2>1 DEF Init
  <2>4. /\ slot \in [Threads -> Slots \cup {NoSlot}]
        /\ held \in [Threads -> Nat] /\ owe \in [Threads -> 0 .. 2]
    BY DEF Init
  <2> QED
    BY <1>1, <2>1, <2>2, <2>3, <2>4 DEF Init, TypeOK, Slots
<1>3. ThreadsOK
  BY DEF Init, ThreadsOK, RoleOK, OweOK, Teardown
<1>4. SlotsOK
  BY DEF Init, SlotsOK
<1>5. IoOK
  BY FS_EmptySet DEF Init, IoOK, Outstanding
<1> QED
  BY <1>2, <1>3, <1>4, <1>5 DEF TypeInv

-----------------------------------------------------------------------------
(* The accept thread.                                                      *)
LEMMA AllocateType == ASSUME TypeInv, Allocate PROVE TypeInv'
<1> DEFINE s == Head(freeList)
<1>1. /\ PoolTypes /\ ThreadTypes /\ ThreadsOK /\ SlotsOK /\ IoOK
      /\ Acceptor \in Threads
  BY TypesOK DEF TypeInv, Threads
<1>2. s \in Slots /\ Tail(freeList) \in Seq(Slots)
  BY <1>1, HeadTailProperties DEF Allocate, PoolTypes
<1>3. generation[s] \in 1 .. MaxGen /\ generation[s] \in Nat
  BY <1>1, <1>2, SessionPoolAssumption DEF Allocate, PoolTypes, SlotsOK
<1>4. Begin(Acceptor, "setup", s, 0) /\ "setup" \in PcLabels \ {"idle"}
  BY DEF Allocate, PcLabels
<1>5. /\ ThreadTypes' /\ OnlyMoves(Acceptor)
      /\ pc'[Acceptor] = "setup" /\ slot'[Acceptor] = s /\ owe'[Acceptor] = 0
  BY <1>1, <1>2, <1>3, <1>4, BeginEffect
<1>6. sessionId' = [sessionId EXCEPT ![s] = generation[s]]
  BY DEF Allocate
<1>7. PoolTypes'
  <2>1. sessionId' \in [Slots -> Nat]
    BY <1>1, <1>3, <1>6 DEF PoolTypes
  <2> QED
    BY <1>1, <1>2, <2>1 DEF Allocate, PoolTypes, ioVars, gameVars
<1>8. \A x \in Slots : sessionId[x] >= 1 => sessionId'[x] >= 1
  BY <1>1, <1>3, <1>6 DEF PoolTypes
<1>9. sessionId'[s] >= 1 /\ sessionId'[s] <= MaxGen
  BY SMTT(60), <1>1, <1>2, <1>3, <1>6, SessionPoolAssumption DEF PoolTypes
<1>10. ThreadsOK'
  BY <1>1, <1>5, <1>7, <1>8, <1>9, ThreadsStep DEF RoleOK, OweOK
<1>11. SlotsOK'
  BY <1>1, <1>6, <1>8, <1>9 DEF Allocate, SlotsOK, PoolTypes
<1>12. IoOK'
  BY <1>1, <1>8 DEF Allocate, IoOK, Outstanding, PoolTypes, IoType, Handles, ioVars, gameVars
<1> QED
  BY <1>5, <1>7, <1>10, <1>11, <1>12, TypesOKNext

LEMMA SetupType == ASSUME TypeInv, SetupSession PROVE TypeInv'
<1>1. /\ PoolTypes /\ ThreadTypes /\ ThreadsOK /\ SlotsOK /\ IoOK
      /\ Acceptor \in Threads
  BY TypesOK DEF TypeInv, Threads
<1>2. slot[Acceptor] \in Slots /\ sessionId[slot[Acceptor]] >= 1
  BY <1>1, HasSlot, SessionPoolAssumption DEF SetupSession
<1>3. /\ ThreadTypes' /\ OnlyMoves(Acceptor) /\ pc'[Acceptor] = "firstRecv"
      /\ slot'[Acceptor] = slot[Acceptor] /\ owe'[Acceptor] = owe[Acceptor]
  BY <1>1, JumpEffect DEF SetupSession, PcLabels
<1>4. owe[Acceptor] = 0
  BY <1>1 DEF SetupSession, ThreadsOK, OweOK
<1>5. PoolTypes'
  BY <1>1, <1>2 DEF SetupSession, PoolTypes, ioVars, gameVars
<1>6. ThreadsOK'
  BY <1>1, <1>2, <1>3, <1>4, <1>5, ThreadsStep
     DEF SetupSession, RoleOK, OweOK
<1>7. SlotsOK'
  BY <1>1, <1>2 DEF SetupSession, SlotsOK, PoolTypes
<1>8. IoOK'
  BY <1>1 DEF SetupSession, IoOK, Outstanding, ioVars, gameVars
<1> QED
  BY <1>3, <1>5, <1>6, <1>7, <1>8, TypesOKNext

(* Posting an operation keeps the facts about operations.                  *)
LEMMA PostType ==
  ASSUME PoolTypes, IoOK, NEW s \in Slots, sessionId[s] >= 1,
         NEW op \in {"recv", "send"},
         posted' = posted \cup {Io(s, op)}, UNCHANGED <<completed, sessionId, known>>
  PROVE  posted' \subseteq IoType /\ IoOK'
<1>1. sessionId[s] \in Nat
  BY DEF PoolTypes
<1>2. Io(s, op) \in IoType /\ Io(s, op).slot = s
  BY <1>1, IoFields
<1>3. IsFiniteSet(posted')
  BY FS_AddElement DEF IoOK
<1>4. \A io \in Outstanding' : sessionId'[io.slot] >= 1
  BY <1>2 DEF IoOK, Outstanding
<1> QED
  BY <1>2, <1>3, <1>4 DEF IoOK, PoolTypes

LEMMA FirstRecvType == ASSUME TypeInv, FirstRecv PROVE TypeInv'
<1> DEFINE s == slot[Acceptor]
<1>1. /\ PoolTypes /\ ThreadTypes /\ ThreadsOK /\ SlotsOK /\ IoOK
      /\ Acceptor \in Threads
  BY TypesOK DEF TypeInv, Threads
<1>2. s \in Slots /\ sessionId[s] >= 1
  BY <1>1, HasSlot, SessionPoolAssumption DEF FirstRecv
<1>3. pendingIo' \in [Slots -> Int]
  BY <1>1, <1>2 DEF FirstRecv, PoolTypes
<1>4. SlotsOK'
  BY <1>1 DEF FirstRecv, SlotsOK
<1>5. CASE RecvPosted(s) /\ Finish(Acceptor)
  <2>1. posted' \subseteq IoType /\ IoOK'
    BY <1>1, <1>2, <1>5, PostType DEF FirstRecv, RecvPosted, gameVars
  <2>2. PoolTypes'
    BY <1>1, <1>3, <2>1 DEF FirstRecv, PoolTypes, gameVars
  <2>3. /\ ThreadTypes' /\ OnlyMoves(Acceptor) /\ pc'[Acceptor] = "idle"
        /\ slot'[Acceptor] = NoSlot /\ owe'[Acceptor] = 0
    BY <1>1, <1>5, FinishEffect
  <2>4. ThreadsOK'
    BY <1>1, <2>2, <2>3, ThreadsStep DEF FirstRecv, RoleOK, OweOK, Teardown
  <2> QED
    BY <1>4, <2>1, <2>2, <2>3, <2>4, TypesOKNext
<1>6. CASE /\ Goto(Acceptor, "cas") /\ owe' = [owe EXCEPT ![Acceptor] = 1]
           /\ UNCHANGED <<posted, slot, held>>
  <2>1. PoolTypes'
    BY <1>1, <1>3, <1>6 DEF FirstRecv, PoolTypes, gameVars
  <2>. pc[Acceptor] # "idle" /\ "cas" \in PcLabels \ {"idle"} /\ 1 \in 0 .. 2
    BY DEF FirstRecv, PcLabels
  <2>2. /\ ThreadTypes' /\ OnlyMoves(Acceptor) /\ pc'[Acceptor] = "cas"
        /\ slot'[Acceptor] = s /\ owe'[Acceptor] = 1
    BY <1>1, <1>6, GotoEffect
  <2>3. ThreadsOK'
    BY <1>1, <1>2, <2>1, <2>2, ThreadsStep
       DEF FirstRecv, RoleOK, OweOK, Teardown
  <2>4. IoOK'
    BY <1>1, <1>6 DEF FirstRecv, IoOK, Outstanding, gameVars
  <2> QED
    BY <1>4, <2>1, <2>2, <2>3, <2>4, TypesOKNext
<1> QED
  BY <1>5, <1>6 DEF FirstRecv

(* Release keeps the types, whether the handle is stale or not.            *)
LEMMA ReleaseType ==
  ASSUME PoolTypes, SlotsOK, NEW s \in Slots, NEW gen, Release(s, gen)
  PROVE  /\ generation' \in [Slots -> Nat] /\ sessionId' = sessionId
         /\ sockOpen' \in [Slots -> BOOLEAN]
         /\ disconnecting' \in [Slots -> BOOLEAN]
         /\ pendingIo' \in [Slots -> Int]
         /\ sendInProgress' \in [Slots -> BOOLEAN]
         /\ queued' \in [Slots -> 0 .. QueueCap]
         /\ inFlight' \in [Slots -> 0 .. QueueCap]
         /\ lastRecv' \in [Slots -> {"unset", "fresh", "expired"}]
         /\ freeList' \in Seq(Slots)
         /\ SlotsOK'
<1>1. CASE generation[s] = gen
  <2>0. 0 \in 0 .. QueueCap /\ freeList \in Seq(Slots)
    BY SessionPoolAssumption DEF PoolTypes
  <2>4. freeList' = <<s>> \o freeList
    BY <1>1 DEF Release
  <2>6. freeList' \in Seq(Slots)
    BY <2>0, <2>4, PushFree
  <2> USE <1>1, <2>0 DEF Release, PoolTypes
  <2>1. generation' \in [Slots -> Nat] /\ pendingIo' \in [Slots -> Int]
    BY SMTT(60)
  <2>2. /\ sockOpen' \in [Slots -> BOOLEAN]
        /\ disconnecting' \in [Slots -> BOOLEAN]
        /\ sendInProgress' \in [Slots -> BOOLEAN]
    OBVIOUS
  <2>3. queued' \in [Slots -> 0 .. QueueCap]
    BY ZenonT(60)
  <2>7. inFlight' \in [Slots -> 0 .. QueueCap]
    BY ZenonT(60)
  <2>8. lastRecv' \in [Slots -> {"unset", "fresh", "expired"}]
    OBVIOUS
  <2>5. SlotsOK'
    <3> SUFFICES ASSUME NEW x \in Slots
                 PROVE  /\ generation'[x] >= 1 /\ sessionId'[x] <= MaxGen
                        /\ inFlight'[x] <= queued'[x]
                        /\ lastRecv'[x] # "unset" => sessionId'[x] >= 1
      BY DEF SlotsOK
    <3>1. CASE x = s
      BY <3>1 DEF SlotsOK
    <3>2. CASE x # s
      BY <3>2 DEF SlotsOK
    <3> QED
      BY <3>1, <3>2
  <2> QED
    BY <2>1, <2>2, <2>3, <2>5, <2>6, <2>7, <2>8
<1>2. CASE generation[s] # gen
  BY <1>2 DEF Release, PoolTypes, SlotsOK, sessionVars
<1> QED
  BY <1>1, <1>2

LEMMA AcceptReleaseType == ASSUME TypeInv, AcceptRelease PROVE TypeInv'
<1>1. /\ PoolTypes /\ ThreadTypes /\ ThreadsOK /\ SlotsOK /\ IoOK
      /\ Acceptor \in Threads
  BY TypesOK DEF TypeInv, Threads
<1>2. slot[Acceptor] \in Slots
  BY <1>1, HasSlot DEF AcceptRelease
<1>3. PoolTypes' /\ SlotsOK' /\ sessionId' = sessionId
  BY <1>1, <1>2, ReleaseType DEF AcceptRelease, PoolTypes, ioVars, gameVars
<1>4. /\ ThreadTypes' /\ OnlyMoves(Acceptor) /\ pc'[Acceptor] = "idle"
      /\ slot'[Acceptor] = NoSlot /\ owe'[Acceptor] = 0
  BY <1>1, FinishEffect DEF AcceptRelease
<1>5. ThreadsOK'
  BY <1>1, <1>3, <1>4, ThreadsStep DEF RoleOK, OweOK, Teardown
<1>6. IoOK'
  BY <1>1, <1>3 DEF AcceptRelease, IoOK, Outstanding, ioVars, gameVars
<1> QED
  BY <1>3, <1>4, <1>5, <1>6, TypesOKNext

-----------------------------------------------------------------------------
(* The completion workers.                                                 *)

(* What every step below starts from.                                      *)
LEMMA TypeParts ==
  TypeInv => PoolTypes /\ ThreadTypes /\ ThreadsOK /\ SlotsOK /\ IoOK
  BY TypesOK DEF TypeInv

(* A step that changes only pc, from a label to one with the same dues.    *)
LEMMA JumpType ==
  ASSUME TypeInv, NEW t \in Threads, NEW label \in PcLabels \ {"idle"},
         pc[t] # "idle", Goto(t, label), RoleOK(t)', OweOK(t)',
         UNCHANGED <<slot, held, owe>>, PoolTypes', SlotsOK', IoOK',
         sessionId' = sessionId
  PROVE  TypeInv'
<1>1. /\ ThreadTypes' /\ OnlyMoves(t) /\ pc'[t] = label
      /\ slot'[t] = slot[t] /\ owe'[t] = owe[t]
  BY TypeParts, JumpEffect
<1>2. sessionId'[slot'[t]] >= 1
  BY <1>1, HasSlot, SessionPoolAssumption
<1>3. ThreadsOK'
  BY <1>1, <1>2, TypeParts, ThreadsStep
<1> QED
  BY <1>1, <1>3, TypesOKNext

LEMMA DequeueType ==
  ASSUME TypeInv, NEW w \in Workers, Dequeue(w) PROVE TypeInv'
<1>1. PICK io \in completed :
        /\ completed' = completed \ {io}
        /\ IF generation[io.slot] = io.gen
           THEN Begin(w, io.op, io.slot, 1)
           ELSE UNCHANGED threadVars
  BY DEF Dequeue
<1>2. /\ PoolTypes /\ ThreadTypes /\ ThreadsOK /\ SlotsOK /\ IoOK
      /\ w \in Threads
  BY TypeParts DEF Threads
<1>3. io.slot \in Slots /\ io.op \in {"recv", "send"}
  BY <1>2 DEF PoolTypes, IoType
<1>4. sessionId[io.slot] >= 1
  BY <1>2 DEF IoOK, Outstanding
<1>5. PoolTypes' /\ SlotsOK'
  BY <1>1, <1>2 DEF Dequeue, PoolTypes, SlotsOK, sessionVars, gameVars
<1>6. IoOK'
  BY <1>1, <1>2, FS_RemoveElement
     DEF Dequeue, IoOK, Outstanding, sessionVars, gameVars
<1>7. CASE generation[io.slot] = io.gen
  <2>1. /\ io.op \in PcLabels \ {"idle"} /\ 1 \in 0 .. 2
        /\ generation[io.slot] \in Nat
    BY <1>2, <1>3 DEF PcLabels, PoolTypes
  <2>2. /\ ThreadTypes' /\ OnlyMoves(w) /\ pc'[w] = io.op
        /\ slot'[w] = io.slot /\ owe'[w] = 1
    BY <1>1, <1>2, <1>3, <1>7, <2>1, BeginEffect
  <2>3. ThreadsOK'
    BY <1>2, <1>3, <1>4, <1>5, <2>2, ThreadsStep
       DEF Dequeue, sessionVars, RoleOK, OweOK
  <2> QED
    BY <1>5, <1>6, <2>2, <2>3, TypesOKNext
<1>8. CASE generation[io.slot] # io.gen
  BY <1>1, <1>2, <1>5, <1>6, <1>8, TypesOKNext
     DEF Dequeue, ThreadTypes, ThreadsOK, RoleOK, OweOK, threadVars, sessionVars
<1> QED
  BY <1>7, <1>8

LEMMA RecvClosedType ==
  ASSUME TypeInv, NEW w \in Workers, RecvClosed(w) PROVE TypeInv'
<1>1. /\ PoolTypes /\ ThreadTypes /\ ThreadsOK /\ SlotsOK /\ IoOK
      /\ w \in Threads
  BY TypeParts DEF Threads
<1>2. PoolTypes' /\ SlotsOK' /\ IoOK' /\ sessionId' = sessionId
  BY <1>1 DEF RecvClosed, PoolTypes, SlotsOK, IoOK, Outstanding, sessionVars,
              ioVars, gameVars
<1>3. pc[w] = "recv" /\ pc' = [pc EXCEPT ![w] = "cas"] /\ owe' = owe
  BY DEF RecvClosed, Goto
<1>4. pc'[w] = "cas" /\ owe'[w] = 1
  BY <1>1, <1>3 DEF ThreadTypes, ThreadsOK, OweOK
<1>5. RoleOK(w)' /\ OweOK(w)'
  BY <1>4 DEF RoleOK, OweOK, Teardown
<1> QED
  BY <1>1, <1>2, <1>3, <1>5, JumpType DEF RecvClosed, PcLabels

LEMMA RecvDataType ==
  ASSUME TypeInv, NEW w \in Workers, RecvData(w) PROVE TypeInv'
<1> DEFINE s == slot[w]
<1>1. /\ PoolTypes /\ ThreadTypes /\ ThreadsOK /\ SlotsOK /\ IoOK
      /\ w \in Threads
  BY TypeParts DEF Threads
<1>2. s \in Slots /\ sessionId[s] \in 1 .. MaxGen
  BY <1>1, HasSlot DEF RecvData
<1>3. known' \subseteq Handles
  BY <1>1, <1>2 DEF RecvData, PoolTypes, Handles
<1>4. lastRecv' \in [Slots -> {"unset", "fresh", "expired"}]
  BY <1>1 DEF RecvData, PoolTypes
<1>5. PoolTypes' /\ sessionId' = sessionId
  BY <1>1, <1>3, <1>4 DEF RecvData, PoolTypes, ioVars
<1>10. IoOK'
  BY <1>1, <1>2, SessionPoolAssumption DEF RecvData, IoOK, Outstanding, ioVars
<1>6. SlotsOK'
  BY <1>1, <1>2, SessionPoolAssumption DEF RecvData, SlotsOK, PoolTypes
<1>7. PICK label \in {"nextRecv", "cas"} : Goto(w, label)
  BY DEF RecvData
<1>8. pc'[w] = label /\ owe'[w] = 1
  BY <1>1, <1>7 DEF RecvData, Goto, ThreadTypes, ThreadsOK, OweOK
<1>9. RoleOK(w)' /\ OweOK(w)' /\ label \in PcLabels \ {"idle"}
  BY <1>8 DEF RoleOK, OweOK, Teardown, PcLabels
<1> QED
  BY <1>1, <1>5, <1>6, <1>7, <1>9, <1>10, JumpType DEF RecvData

(* A post, and what the thread that made it owes afterwards.               *)
LEMMA PostSendType ==
  ASSUME TypeInv, NEW t \in Threads, pc[t] \in {"send", "enqueue"},
         NEW batches \in 0 .. QueueCap, batches > 0,
         queued' \in [Slots -> 0 .. QueueCap], queued'[slot[t]] = batches,
         \A x \in Slots \ {slot[t]} : queued'[x] = queued[x],
         PostSend(t, slot[t], batches),
         UNCHANGED <<generation, sessionId, sockOpen, disconnecting, lastRecv,
                     freeList, completed, gameVars, slot, held>>
  PROVE  TypeInv'
<1> DEFINE s == slot[t]
<1>1. PoolTypes /\ ThreadTypes /\ ThreadsOK /\ SlotsOK /\ IoOK
  BY TypeParts
<1>2. s \in Slots /\ sessionId[s] >= 1 /\ owe[t] = 1
  BY <1>1, HasSlot, SessionPoolAssumption DEF ThreadsOK, OweOK
<1>9. pendingIo' \in [Slots -> Int]
  BY SMTT(60), <1>1, <1>2 DEF PostSend, PoolTypes
<1>10. sendInProgress' \in [Slots -> BOOLEAN]
  BY <1>1, <1>2 DEF PostSend, PoolTypes
<1>3. pendingIo' \in [Slots -> Int] /\ sendInProgress' \in [Slots -> BOOLEAN]
  BY <1>9, <1>10
<1>4. PICK n \in 0 .. batches : inFlight' = [inFlight EXCEPT ![s] = n]
  BY DEF PostSend
<1>5. inFlight' \in [Slots -> 0 .. QueueCap]
  BY <1>1, <1>2, <1>4, SessionPoolAssumption DEF PoolTypes
<1>6. SlotsOK'
  BY SMTT(60), <1>1, <1>2, <1>4 DEF SlotsOK, PoolTypes
<1>7. CASE posted' = posted \cup {Io(s, "send")} /\ Goto(t, "dec") /\ owe' = owe
  <2>1. posted' \subseteq IoType /\ IoOK'
    BY <1>1, <1>2, <1>7, PostType DEF gameVars
  <2>2. PoolTypes'
    BY <1>1, <1>3, <1>5, <2>1 DEF PoolTypes, gameVars
  <2>3. pc'[t] = "dec" /\ owe'[t] = 1
    BY <1>1, <1>2, <1>7 DEF Goto, ThreadTypes
  <2>4. RoleOK(t)' /\ OweOK(t)' /\ "dec" \in PcLabels \ {"idle"}
    BY <2>3 DEF RoleOK, OweOK, Teardown, PcLabels
  <2> QED
    BY <1>6, <1>7, <2>1, <2>2, <2>4, JumpType
<1>8. CASE /\ posted' = posted /\ Goto(t, "cas")
           /\ owe' = [owe EXCEPT ![t] = @ + 1]
  <2>1. PoolTypes' /\ IoOK'
    BY <1>1, <1>3, <1>5, <1>8 DEF PoolTypes, gameVars, IoOK, Outstanding
  <2>2. /\ owe' = [owe EXCEPT ![t] = 2] /\ 2 \in 0 .. 2
        /\ "cas" \in PcLabels \ {"idle"}
    BY <1>2, <1>8 DEF PcLabels
  <2>3. /\ ThreadTypes' /\ OnlyMoves(t) /\ pc'[t] = "cas"
        /\ slot'[t] = s /\ owe'[t] = 2
    BY ZenonT(60), <1>1, <1>8, <2>2, GotoEffect
  <2>4. ThreadsOK'
    BY <1>1, <1>2, <2>1, <2>3, ThreadsStep DEF RoleOK, OweOK, Teardown
  <2> QED
    BY <1>6, <2>1, <2>3, <2>4, TypesOKNext
<1> QED
  BY <1>7, <1>8 DEF PostSend

LEMMA NextRecvType ==
  ASSUME TypeInv, NEW w \in Workers, NextRecv(w) PROVE TypeInv'
<1> DEFINE s == slot[w]
<1>1. /\ PoolTypes /\ ThreadTypes /\ ThreadsOK /\ SlotsOK /\ IoOK
      /\ w \in Threads
  BY TypeParts DEF Threads
<1>2. s \in Slots /\ sessionId[s] >= 1 /\ owe[w] = 1
  BY <1>1, HasSlot, SessionPoolAssumption DEF NextRecv, ThreadsOK, OweOK
<1>3. pendingIo' \in [Slots -> Int] /\ SlotsOK'
  BY <1>1, <1>2 DEF NextRecv, PoolTypes, SlotsOK
<1>4. CASE RecvPosted(s) /\ Goto(w, "dec") /\ UNCHANGED owe
  <2>1. posted' \subseteq IoType /\ IoOK'
    BY <1>1, <1>2, <1>4, PostType DEF NextRecv, RecvPosted, gameVars
  <2>2. PoolTypes'
    BY <1>1, <1>3, <2>1 DEF NextRecv, PoolTypes, gameVars
  <2>3. pc'[w] = "dec" /\ owe'[w] = 1
    BY <1>1, <1>2, <1>4 DEF Goto, ThreadTypes
  <2>4. RoleOK(w)' /\ OweOK(w)' /\ "dec" \in PcLabels \ {"idle"}
    BY <2>3 DEF RoleOK, OweOK, Teardown, PcLabels
  <2> QED
    BY <1>1, <1>3, <1>4, <2>1, <2>2, <2>4, JumpType DEF NextRecv
<1>5. CASE /\ Goto(w, "cas") /\ owe' = [owe EXCEPT ![w] = @ + 1]
           /\ UNCHANGED posted
  <2>1. PoolTypes' /\ IoOK'
    BY <1>1, <1>3, <1>5 DEF NextRecv, PoolTypes, gameVars, IoOK, Outstanding
  <2>2. /\ owe' = [owe EXCEPT ![w] = 2] /\ 2 \in 0 .. 2
        /\ "cas" \in PcLabels \ {"idle"}
    BY <1>2, <1>5 DEF PcLabels
  <2>3. /\ ThreadTypes' /\ OnlyMoves(w) /\ pc'[w] = "cas"
        /\ slot'[w] = s /\ owe'[w] = 2
    BY <1>1, <1>5, <2>2, GotoEffect DEF NextRecv
  <2>4. ThreadsOK'
    BY <1>1, <1>2, <2>1, <2>3, ThreadsStep
       DEF NextRecv, RoleOK, OweOK, Teardown
  <2> QED
    BY <1>3, <2>1, <2>3, <2>4, TypesOKNext
<1> QED
  BY <1>4, <1>5 DEF NextRecv

LEMMA SendFailedType ==
  ASSUME TypeInv, NEW w \in Workers, SendFailed(w) PROVE TypeInv'
<1>1. /\ PoolTypes /\ ThreadTypes /\ ThreadsOK /\ SlotsOK /\ IoOK
      /\ w \in Threads /\ 0 \in 0 .. QueueCap
  BY TypeParts, SessionPoolAssumption DEF Threads
<1>2. /\ sendInProgress' \in [Slots -> BOOLEAN]
      /\ inFlight' \in [Slots -> 0 .. QueueCap]
  BY <1>1 DEF SendFailed, PoolTypes
<1>3. PoolTypes' /\ IoOK' /\ sessionId' = sessionId
  BY <1>1, <1>2 DEF SendFailed, PoolTypes, IoOK, Outstanding, ioVars, gameVars
<1>4. SlotsOK'
  BY <1>1 DEF SendFailed, SlotsOK, PoolTypes
<1>5. pc'[w] = "cas" /\ owe'[w] = 1
  BY <1>1 DEF SendFailed, Goto, ThreadTypes, ThreadsOK, OweOK
<1>6. RoleOK(w)' /\ OweOK(w)' /\ "cas" \in PcLabels \ {"idle"}
  BY <1>5 DEF RoleOK, OweOK, Teardown, PcLabels
<1> QED
  BY <1>1, <1>3, <1>4, <1>6, JumpType DEF SendFailed

LEMMA SendDoneType ==
  ASSUME TypeInv, NEW w \in Workers, SendDone(w) PROVE TypeInv'
<1> DEFINE s == slot[w]
           left == queued[s] - inFlight[s]
<1>1. /\ PoolTypes /\ ThreadTypes /\ ThreadsOK /\ SlotsOK /\ IoOK
      /\ w \in Threads /\ 0 \in 0 .. QueueCap
  BY TypeParts, SessionPoolAssumption DEF Threads
<1>2. s \in Slots /\ queued' = [queued EXCEPT ![s] = left]
  BY <1>1, HasSlot DEF SendDone
<1>3. left \in 0 .. QueueCap
  BY <1>1, <1>2, SessionPoolAssumption DEF PoolTypes, SlotsOK
<1>4. /\ queued' \in [Slots -> 0 .. QueueCap] /\ queued'[s] = left
      /\ \A x \in Slots \ {s} : queued'[x] = queued[x]
  BY <1>1, <1>2, <1>3 DEF PoolTypes
<1>5. CASE left > 0 /\ PostSend(w, s, left)
  BY <1>1, <1>3, <1>4, <1>5, PostSendType DEF SendDone
<1>6. CASE left <= 0 /\ ~ (left > 0 /\ PostSend(w, s, left))
  <2>1. /\ sendInProgress' = [sendInProgress EXCEPT ![s] = FALSE]
        /\ inFlight' = [inFlight EXCEPT ![s] = 0]
        /\ Goto(w, "dec") /\ UNCHANGED <<pendingIo, posted, owe>>
    BY <1>6 DEF SendDone
  <2>2. /\ sendInProgress' \in [Slots -> BOOLEAN]
        /\ inFlight' \in [Slots -> 0 .. QueueCap]
    BY <1>1, <2>1 DEF PoolTypes
  <2>3. PoolTypes' /\ IoOK' /\ sessionId' = sessionId
    BY <1>1, <1>4, <2>1, <2>2
       DEF SendDone, PoolTypes, IoOK, Outstanding, gameVars
  <2>4. SlotsOK'
    BY <1>1, <1>2, <1>3, <1>4, <2>1 DEF SendDone, SlotsOK, PoolTypes
  <2>5. pc'[w] = "dec" /\ owe'[w] = 1
    BY <1>1, <2>1 DEF SendDone, Goto, ThreadTypes, ThreadsOK, OweOK
  <2>6. RoleOK(w)' /\ OweOK(w)' /\ "dec" \in PcLabels \ {"idle"}
    BY <2>5 DEF RoleOK, OweOK, Teardown, PcLabels
  <2> QED
    BY <1>1, <2>1, <2>3, <2>4, <2>6, JumpType DEF SendDone
<1> QED
  BY <1>5, <1>6 DEF SendDone

-----------------------------------------------------------------------------
(* The threads that reach a session by handle.                             *)
LEMMA LeaseStepType ==
  ASSUME TypeInv, NEW t \in Leasers, NEW s \in Slots, NEW gen,
         sessionId[s] >= 1, NEW label \in {"sendTo", "cas", "recheck"},
         FindAndLease(t, s, gen, label),
         \/ t \in Callers /\ label \in {"sendTo", "cas"}
         \/ t \in Reapers /\ label = "recheck",
         UNCHANGED <<generation, sessionId, sockOpen, disconnecting,
                     sendInProgress, queued, inFlight, lastRecv, freeList,
                     ioVars, gameVars>>
  PROVE  TypeInv'
<1> DEFINE lab == IF pendingIo[s] = 0 THEN "abort" ELSE label
<1>1. /\ PoolTypes /\ ThreadTypes /\ ThreadsOK /\ SlotsOK /\ IoOK
      /\ t \in Threads /\ generation[s] \in Nat
  BY TypeParts DEF Threads, PoolTypes
<1>2. pendingIo' \in [Slots -> Int]
  BY <1>1 DEF FindAndLease, PoolTypes
<1>3. PoolTypes' /\ SlotsOK' /\ IoOK'
  BY <1>1, <1>2 DEF PoolTypes, SlotsOK, IoOK, Outstanding, ioVars, gameVars
<1>4. lab \in PcLabels \ {"idle"} /\ Begin(t, lab, s, 1) /\ 1 \in 0 .. 2
  BY DEF FindAndLease, PcLabels
<1>5. /\ ThreadTypes' /\ OnlyMoves(t) /\ pc'[t] = lab
      /\ slot'[t] = s /\ owe'[t] = 1
  BY <1>1, <1>4, BeginEffect
<1>6. lab = "abort" \/ lab = label
  OBVIOUS
<1>7. RoleOK(t)' /\ OweOK(t)'
  BY <1>5, <1>6 DEF RoleOK, OweOK, Teardown, Leasers
<1>8. ThreadsOK'
  BY <1>1, <1>3, <1>5, <1>7, ThreadsStep
<1> QED
  BY <1>3, <1>5, <1>8, TypesOKNext

LEMMA LeaseType ==
  ASSUME TypeInv, NEW c \in Callers, Lease(c) PROVE TypeInv'
<1>1. PICK h \in known, label \in {"sendTo", "cas"} :
        FindAndLease(c, h[1], h[2], label)
  BY DEF Lease
<1>2. h[1] \in Slots /\ sessionId[h[1]] >= 1
  BY TypeParts DEF PoolTypes, Handles, IoOK
<1> QED
  BY <1>1, <1>2, LeaseStepType DEF Lease, Leasers

LEMMA SendCheckType ==
  ASSUME TypeInv, NEW c \in Callers, SendCheck(c) PROVE TypeInv'
<1>1. /\ PoolTypes /\ ThreadTypes /\ ThreadsOK /\ SlotsOK /\ IoOK
      /\ c \in Threads
  BY TypeParts DEF Threads, Leasers
<1>2. PoolTypes' /\ SlotsOK' /\ IoOK' /\ sessionId' = sessionId
  BY <1>1 DEF SendCheck, PoolTypes, SlotsOK, IoOK, Outstanding, sessionVars,
              ioVars, gameVars
<1>3. PICK label \in {"dec", "enqueue"} : Goto(c, label)
  BY DEF SendCheck
<1>4. pc'[c] = label /\ owe'[c] = 1
  BY <1>1, <1>3 DEF SendCheck, Goto, ThreadTypes, ThreadsOK, OweOK
<1>5. RoleOK(c)' /\ OweOK(c)' /\ label \in PcLabels \ {"idle"}
  BY <1>4 DEF RoleOK, OweOK, Teardown, PcLabels
<1> QED
  BY <1>1, <1>2, <1>3, <1>5, JumpType DEF SendCheck

LEMMA SendEnqueueType ==
  ASSUME TypeInv, NEW c \in Callers, SendEnqueue(c) PROVE TypeInv'
<1> DEFINE s == slot[c]
<1>1. /\ PoolTypes /\ ThreadTypes /\ ThreadsOK /\ SlotsOK /\ IoOK
      /\ c \in Threads /\ pc[c] = "enqueue"
  BY TypeParts DEF Threads, Leasers, SendEnqueue
<1>2. s \in Slots /\ owe[c] = 1
  BY <1>1, HasSlot DEF ThreadsOK, OweOK
<1>3. CASE /\ DropBatch(c)
           /\ UNCHANGED <<pendingIo, sendInProgress, queued, inFlight, posted>>
  <2>1. PoolTypes' /\ SlotsOK' /\ IoOK' /\ sessionId' = sessionId
    BY <1>1, <1>3 DEF SendEnqueue, PoolTypes, SlotsOK, IoOK, Outstanding,
                      gameVars
  <2>2. PICK label \in {"dec", "cas"} : Goto(c, label)
    BY <1>3 DEF DropBatch
  <2>3. pc'[c] = label /\ owe'[c] = 1 /\ owe' = owe
    BY <1>1, <1>2, <1>3, <2>2 DEF DropBatch, Goto, ThreadTypes
  <2>4. RoleOK(c)' /\ OweOK(c)' /\ label \in PcLabels \ {"idle"}
    BY <2>3 DEF RoleOK, OweOK, Teardown, PcLabels
  <2> QED
    BY <1>1, <2>1, <2>2, <2>3, <2>4, JumpType DEF SendEnqueue
<1>4. CASE Fits(s) /\ queued' = [queued EXCEPT ![s] = @ + 1]
  <2>1. queued[s] + 1 \in 0 .. QueueCap /\ queued[s] + 1 > 0
    BY <1>1, <1>2, <1>4, SessionPoolAssumption DEF Fits, PoolTypes
  <2>2. /\ queued' \in [Slots -> 0 .. QueueCap]
        /\ queued'[s] = queued[s] + 1
        /\ \A x \in Slots \ {s} : queued'[x] = queued[x]
    BY <1>1, <1>2, <1>4, <2>1 DEF PoolTypes
  <2>3. CASE PostSend(c, s, queued[s] + 1)
    BY <1>1, <2>1, <2>2, <2>3, PostSendType DEF SendEnqueue
  <2>4. CASE /\ Goto(c, "dec")
             /\ UNCHANGED <<pendingIo, sendInProgress, inFlight, posted, owe>>
    <3>1. PoolTypes' /\ IoOK' /\ sessionId' = sessionId
      BY <1>1, <2>2, <2>4 DEF SendEnqueue, PoolTypes, IoOK, Outstanding,
                              gameVars
    <3>2. SlotsOK'
      <4> SUFFICES ASSUME NEW x \in Slots PROVE inFlight'[x] <= queued'[x]
        BY <1>1, <2>4 DEF SendEnqueue, SlotsOK
      <4>1. inFlight[x] \in Nat /\ queued[x] \in Nat /\ inFlight[x] <= queued[x]
        BY <1>1, SessionPoolAssumption DEF PoolTypes, SlotsOK
      <4> QED
        BY <2>2, <2>4, <4>1
    <3>3. pc'[c] = "dec" /\ owe'[c] = 1
      BY <1>1, <1>2, <2>4 DEF Goto, ThreadTypes
    <3>4. RoleOK(c)' /\ OweOK(c)' /\ "dec" \in PcLabels \ {"idle"}
      BY <3>3 DEF RoleOK, OweOK, Teardown, PcLabels
    <3> QED
      BY <1>1, <2>4, <3>1, <3>2, <3>4, JumpType DEF SendEnqueue
  <2> QED
    BY <1>4, <2>3, <2>4, <2>1, <1>1, <1>2 DEF SendEnqueue, Fits, PoolTypes
<1> QED
  BY <1>3, <1>4 DEF SendEnqueue

-----------------------------------------------------------------------------
(* The sweep.                                                              *)
LEMMA ReapScanType ==
  ASSUME TypeInv, NEW r \in Reapers, ReapScan(r) PROVE TypeInv'
<1>1. PICK s \in Slots : lastRecv[s] = "expired" /\ Begin(r, "scanned", s, 0)
  BY DEF ReapScan
<1>2. /\ PoolTypes /\ ThreadTypes /\ ThreadsOK /\ SlotsOK /\ IoOK
      /\ r \in Threads /\ generation[s] \in Nat /\ sessionId[s] >= 1
  BY <1>1, TypeParts DEF Threads, Leasers, PoolTypes, SlotsOK
<1>3. PoolTypes' /\ SlotsOK' /\ IoOK' /\ sessionId' = sessionId
  BY <1>2 DEF ReapScan, PoolTypes, SlotsOK, IoOK, Outstanding, sessionVars,
              ioVars, gameVars
<1>4. "scanned" \in PcLabels \ {"idle"} /\ 0 \in 0 .. 2
  BY DEF PcLabels
<1>5. /\ ThreadTypes' /\ OnlyMoves(r) /\ pc'[r] = "scanned"
      /\ slot'[r] = s /\ owe'[r] = 0
  BY <1>1, <1>2, <1>4, BeginEffect
<1>6. ThreadsOK'
  BY <1>2, <1>3, <1>5, ThreadsStep DEF RoleOK, OweOK
<1> QED
  BY <1>3, <1>5, <1>6, TypesOKNext

LEMMA ReapLeaseType ==
  ASSUME TypeInv, NEW r \in Reapers, ReapLease(r) PROVE TypeInv'
<1> DEFINE s == slot[r]
<1>1. /\ PoolTypes /\ ThreadTypes /\ ThreadsOK /\ SlotsOK /\ IoOK
      /\ r \in Threads /\ r \in Leasers
  BY TypeParts DEF Threads, Leasers
<1>2. s \in Slots /\ sessionId[s] >= 1
  BY <1>1, HasSlot, SessionPoolAssumption DEF ReapLease
<1>3. CASE FindAndLease(r, s, sessionId[s], "recheck")
  BY <1>1, <1>2, <1>3, LeaseStepType DEF ReapLease
<1>4. CASE Finish(r) /\ UNCHANGED pendingIo
  <2>1. PoolTypes' /\ SlotsOK' /\ IoOK' /\ sessionId' = sessionId
    BY <1>1, <1>4 DEF ReapLease, PoolTypes, SlotsOK, IoOK, Outstanding,
                      ioVars, gameVars
  <2>2. /\ ThreadTypes' /\ OnlyMoves(r) /\ pc'[r] = "idle"
        /\ slot'[r] = NoSlot /\ owe'[r] = 0
    BY <1>1, <1>4, FinishEffect
  <2>3. ThreadsOK'
    BY <1>1, <2>1, <2>2, ThreadsStep DEF RoleOK, OweOK, Teardown
  <2> QED
    BY <2>1, <2>2, <2>3, TypesOKNext
<1> QED
  BY <1>3, <1>4 DEF ReapLease

LEMMA ReapRecheckType ==
  ASSUME TypeInv, NEW r \in Reapers, ReapRecheck(r) PROVE TypeInv'
<1>1. /\ PoolTypes /\ ThreadTypes /\ ThreadsOK /\ SlotsOK /\ IoOK
      /\ r \in Threads
  BY TypeParts DEF Threads, Leasers
<1>2. PoolTypes' /\ SlotsOK' /\ IoOK' /\ sessionId' = sessionId
  BY <1>1 DEF ReapRecheck, PoolTypes, SlotsOK, IoOK, Outstanding, sessionVars,
              ioVars, gameVars
<1>3. PICK label \in {"dec", "cas"} : Goto(r, label)
  BY DEF ReapRecheck
<1>4. pc'[r] = label /\ owe'[r] = 1
  BY <1>1, <1>3 DEF ReapRecheck, Goto, ThreadTypes, ThreadsOK, OweOK
<1>5. RoleOK(r)' /\ OweOK(r)' /\ label \in PcLabels \ {"idle"}
  BY <1>4 DEF RoleOK, OweOK, Teardown, PcLabels
<1> QED
  BY <1>1, <1>2, <1>3, <1>5, JumpType DEF ReapRecheck

LEMMA AbortLeaseType ==
  ASSUME TypeInv, NEW l \in Leasers, AbortLease(l) PROVE TypeInv'
<1>1. /\ PoolTypes /\ ThreadTypes /\ ThreadsOK /\ SlotsOK /\ IoOK
      /\ l \in Threads
  BY TypeParts DEF Threads
<1>2. slot[l] \in Slots
  BY <1>1, HasSlot DEF AbortLease
<1>3. pendingIo' \in [Slots -> Int]
  BY <1>1, <1>2 DEF AbortLease, PoolTypes
<1>4. PoolTypes' /\ SlotsOK' /\ IoOK' /\ sessionId' = sessionId
  BY <1>1, <1>3 DEF AbortLease, PoolTypes, SlotsOK, IoOK, Outstanding, ioVars,
                    gameVars
<1>5. /\ ThreadTypes' /\ OnlyMoves(l) /\ pc'[l] = "idle"
      /\ slot'[l] = NoSlot /\ owe'[l] = 0
  BY <1>1, FinishEffect DEF AbortLease
<1>6. ThreadsOK'
  BY <1>1, <1>4, <1>5, ThreadsStep DEF RoleOK, OweOK, Teardown
<1> QED
  BY <1>4, <1>5, <1>6, TypesOKNext

-----------------------------------------------------------------------------
(* Disconnect and DecPendingIo, by any thread.                             *)
LEMMA DisconnectCasType ==
  ASSUME TypeInv, NEW t \in Threads, DisconnectCas(t) PROVE TypeInv'
<1>1. PoolTypes /\ ThreadTypes /\ ThreadsOK /\ SlotsOK /\ IoOK
  BY TypeParts
<1>2. disconnecting' \in [Slots -> BOOLEAN]
  BY <1>1 DEF DisconnectCas, PoolTypes
<1>3. PoolTypes' /\ SlotsOK' /\ IoOK' /\ sessionId' = sessionId
  BY <1>1, <1>2 DEF DisconnectCas, PoolTypes, SlotsOK, IoOK, Outstanding,
                    ioVars, gameVars
<1>4. PICK label \in {"dec", "close"} : Goto(t, label)
  BY DEF DisconnectCas
<1>5. pc'[t] = label /\ owe'[t] = owe[t] /\ owe[t] \in {1, 2}
  BY <1>1, <1>4 DEF DisconnectCas, Goto, ThreadTypes, ThreadsOK, OweOK
<1>6. RoleOK(t)' /\ OweOK(t)' /\ label \in PcLabels \ {"idle"}
  BY <1>5 DEF RoleOK, OweOK, Teardown, PcLabels
<1> QED
  BY <1>1, <1>3, <1>4, <1>6, JumpType DEF DisconnectCas

LEMMA CloseSocketType ==
  ASSUME TypeInv, NEW t \in Threads, CloseSocket(t) PROVE TypeInv'
<1>1. PoolTypes /\ ThreadTypes /\ ThreadsOK /\ SlotsOK /\ IoOK
  BY TypeParts
<1>2. sockOpen' \in [Slots -> BOOLEAN]
  BY <1>1 DEF CloseSocket, PoolTypes
<1>3. PoolTypes' /\ SlotsOK' /\ IoOK' /\ sessionId' = sessionId
  BY <1>1, <1>2 DEF CloseSocket, PoolTypes, SlotsOK, IoOK, Outstanding,
                    ioVars, gameVars
<1>4. pc[t] = "close" /\ Goto(t, "dec") /\ owe' = owe
  BY DEF CloseSocket
<1>5. pc'[t] = "dec" /\ owe'[t] \in {1, 2}
  BY <1>1, <1>4 DEF Goto, ThreadTypes, ThreadsOK, OweOK
<1>6. RoleOK(t)' /\ OweOK(t)' /\ "dec" \in PcLabels \ {"idle"}
  BY <1>5 DEF RoleOK, OweOK, Teardown, PcLabels
<1> QED
  BY <1>1, <1>3, <1>4, <1>6, JumpType DEF CloseSocket

(* Where Return takes a thread that owes nothing.                          *)
LEMMA ReturnEffect ==
  ASSUME ThreadTypes, NEW t \in Threads, pc[t] # "idle",
         Return(t), owe' = [owe EXCEPT ![t] = 0]
  PROVE  /\ ThreadTypes' /\ OnlyMoves(t) /\ owe'[t] = 0
         /\ t = Acceptor => /\ pc'[t] = "acceptRelease"
                            /\ slot'[t] = slot[t] /\ held'[t] = held[t]
         /\ t # Acceptor => pc'[t] = "idle" /\ slot'[t] = NoSlot
<1>1. CASE t = Acceptor
  <2>1. /\ Goto(t, "acceptRelease") /\ UNCHANGED <<slot, held>>
        /\ "acceptRelease" \in PcLabels \ {"idle"} /\ 0 \in 0 .. 2
    BY <1>1 DEF Return, PcLabels
  <2> QED
    BY ZenonT(60), <1>1, <2>1, GotoEffect
<1>2. CASE t # Acceptor
  BY <1>2, FinishEffect DEF Return, Goto, Finish
<1> QED
  BY <1>1, <1>2

LEMMA DecPendingIoType ==
  ASSUME TypeInv, NEW t \in Threads, DecPendingIo(t) PROVE TypeInv'
<1>1. /\ PoolTypes /\ ThreadTypes /\ ThreadsOK /\ SlotsOK /\ IoOK
      /\ pc[t] = "dec"
  BY TypeParts DEF DecPendingIo
<1>2. slot[t] \in Slots /\ sessionId[slot[t]] >= 1
  BY <1>1, HasSlot, SessionPoolAssumption
<1>3. pendingIo' \in [Slots -> Int]
  BY <1>1, <1>2 DEF DecPendingIo, PoolTypes
<1>4. PoolTypes' /\ SlotsOK' /\ IoOK' /\ sessionId' = sessionId
  BY <1>1, <1>3 DEF DecPendingIo, PoolTypes, SlotsOK, IoOK, Outstanding,
                    ioVars, gameVars
<1> DEFINE left == owe[t] - 1
<1>5. owe' = [owe EXCEPT ![t] = left] /\ left \in {0, 1}
  <2>1. owe[t] \in {1, 2}
    BY <1>1 DEF ThreadsOK, OweOK
  <2> QED
    BY <2>1 DEF DecPendingIo
<1>6. CASE Goto(t, "notify") /\ UNCHANGED <<slot, held>>
  <2>1. "notify" \in PcLabels \ {"idle"} /\ left \in 0 .. 2
    BY <1>5 DEF PcLabels
  <2>2. /\ ThreadTypes' /\ OnlyMoves(t) /\ pc'[t] = "notify"
        /\ slot'[t] = slot[t] /\ owe'[t] = left
    BY <1>1, <1>5, <1>6, <2>1, GotoEffect
  <2>3. ThreadsOK'
    BY <1>1, <1>2, <1>4, <1>5, <2>2, ThreadsStep DEF RoleOK, OweOK, Teardown
  <2> QED
    BY <1>4, <2>2, <2>3, TypesOKNext
<1>7. CASE owe[t] > 1 /\ UNCHANGED <<pc, slot, held>>
  <2>1. left = 1 /\ left \in 0 .. 2
    BY <1>1, <1>5, <1>7 DEF ThreadTypes
  <2>2. /\ ThreadTypes' /\ OnlyMoves(t) /\ pc'[t] = "dec"
        /\ slot'[t] = slot[t] /\ owe'[t] = 1
    BY <1>1, <1>5, <1>7, <2>1 DEF ThreadTypes, OnlyMoves
  <2>3. ThreadsOK'
    BY <1>1, <1>2, <1>4, <2>2, ThreadsStep DEF RoleOK, OweOK, Teardown
  <2> QED
    BY <1>4, <2>2, <2>3, TypesOKNext
<1>8. CASE owe[t] <= 1 /\ Return(t)
  <2>1. left = 0
    BY <1>1, <1>5, <1>8 DEF ThreadTypes
  <2>2. /\ ThreadTypes' /\ OnlyMoves(t) /\ owe'[t] = 0
        /\ t = Acceptor => pc'[t] = "acceptRelease" /\ slot'[t] = slot[t]
        /\ t # Acceptor => pc'[t] = "idle" /\ slot'[t] = NoSlot
    BY <1>1, <1>5, <1>8, <2>1, ReturnEffect
  <2>3. ThreadsOK'
    BY <1>1, <1>2, <1>4, <2>2, ThreadsStep DEF RoleOK, OweOK, Teardown
  <2> QED
    BY <1>4, <2>2, <2>3, TypesOKNext
<1> QED
  BY <1>6, <1>7, <1>8 DEF DecPendingIo

LEMMA NotifyDisconnectType ==
  ASSUME TypeInv, NEW t \in Threads, NotifyDisconnect(t) PROVE TypeInv'
<1>1. PoolTypes /\ ThreadTypes /\ ThreadsOK /\ SlotsOK /\ IoOK
  BY TypeParts
<1>2. notices' \in [Handles -> Nat]
  <2>1. notices \in [Handles -> Nat]
    BY <1>1 DEF PoolTypes
  <2>2. <<slot[t], sessionId[slot[t]]>> \in Handles
    BY HasSlot DEF NotifyDisconnect, Handles
  <2>3. PICK h \in Handles : notices' = [notices EXCEPT ![h] = @ + 1]
    BY <2>2 DEF NotifyDisconnect
  <2> QED
    BY <2>1, <2>3
<1>3. PoolTypes' /\ SlotsOK' /\ IoOK' /\ sessionId' = sessionId
  BY <1>1, <1>2 DEF NotifyDisconnect, PoolTypes, SlotsOK, IoOK, Outstanding,
                    sessionVars, ioVars
<1>4. pc[t] = "notify" /\ Goto(t, "release") /\ owe' = owe
  BY DEF NotifyDisconnect
<1>5. pc'[t] = "release" /\ owe'[t] \in {0, 1}
  BY <1>1, <1>4 DEF Goto, ThreadTypes, ThreadsOK, OweOK
<1>6. RoleOK(t)' /\ OweOK(t)' /\ "release" \in PcLabels \ {"idle"}
  BY <1>5 DEF RoleOK, OweOK, Teardown, PcLabels
<1> QED
  BY <1>1, <1>3, <1>4, <1>6, JumpType DEF NotifyDisconnect

LEMMA SelfReleaseType ==
  ASSUME TypeInv, NEW t \in Threads, SelfRelease(t) PROVE TypeInv'
<1>1. /\ PoolTypes /\ ThreadTypes /\ ThreadsOK /\ SlotsOK /\ IoOK
      /\ pc[t] = "release" /\ owe' = owe
  BY TypeParts DEF SelfRelease
<1>2. slot[t] \in Slots /\ sessionId[slot[t]] >= 1
  BY <1>1, HasSlot, SessionPoolAssumption
<1>3. PoolTypes' /\ SlotsOK' /\ sessionId' = sessionId
  BY <1>1, <1>2, ReleaseType DEF SelfRelease, PoolTypes, ioVars, gameVars
<1>4. IoOK'
  BY <1>1, <1>3 DEF SelfRelease, IoOK, Outstanding, ioVars, gameVars
<1>5. owe[t] \in {0, 1}
  BY <1>1 DEF ThreadsOK, OweOK
<1>6. CASE owe[t] = 1
  <2>1. Goto(t, "dec") /\ UNCHANGED <<slot, held>>
    BY <1>6 DEF SelfRelease
  <2>2. /\ ThreadTypes' /\ OnlyMoves(t) /\ pc'[t] = "dec"
        /\ slot'[t] = slot[t] /\ owe'[t] = 1
    BY <1>1, <1>6, <2>1, JumpEffect DEF PcLabels
  <2>3. ThreadsOK'
    BY <1>1, <1>2, <1>3, <2>2, ThreadsStep DEF RoleOK, OweOK, Teardown
  <2> QED
    BY <1>3, <1>4, <2>2, <2>3, TypesOKNext
<1>7. CASE owe[t] = 0
  <2>1. Return(t) /\ owe' = [owe EXCEPT ![t] = 0]
    BY <1>1, <1>7 DEF SelfRelease, ThreadTypes
  <2>2. /\ ThreadTypes' /\ OnlyMoves(t) /\ owe'[t] = 0
        /\ t = Acceptor => pc'[t] = "acceptRelease" /\ slot'[t] = slot[t]
        /\ t # Acceptor => pc'[t] = "idle" /\ slot'[t] = NoSlot
    BY <1>1, <2>1, ReturnEffect
  <2>3. ThreadsOK'
    BY <1>1, <1>2, <1>3, <2>2, ThreadsStep DEF RoleOK, OweOK, Teardown
  <2> QED
    BY <1>3, <1>4, <2>2, <2>3, TypesOKNext
<1> QED
  BY <1>5, <1>6, <1>7

-----------------------------------------------------------------------------
(* The kernel and the clock.                                               *)
LEMMA CompleteType ==
  ASSUME TypeInv, NEW io \in posted, Complete(io) PROVE TypeInv'
<1>1. PoolTypes /\ ThreadTypes /\ ThreadsOK /\ SlotsOK /\ IoOK
  BY TypeParts
<1>2. PoolTypes'
  BY <1>1 DEF Complete, PoolTypes, sessionVars, gameVars
<1>3. SlotsOK'
  BY <1>1 DEF Complete, SlotsOK, sessionVars
<1>4. ThreadTypes' /\ ThreadsOK'
  BY <1>1 DEF Complete, ThreadTypes, ThreadsOK, RoleOK, OweOK, sessionVars,
              threadVars
<1>5. IoOK'
  BY <1>1, FS_AddElement, FS_RemoveElement
     DEF Complete, IoOK, Outstanding, sessionVars, gameVars
<1> QED
  BY <1>2, <1>3, <1>4, <1>5, TypesOKNext

LEMMA ExpireType ==
  ASSUME TypeInv, NEW s \in Slots, Expire(s) PROVE TypeInv'
<1>1. PoolTypes /\ ThreadTypes /\ ThreadsOK /\ SlotsOK /\ IoOK
  BY TypeParts
<1>2. lastRecv' \in [Slots -> {"unset", "fresh", "expired"}]
  BY <1>1 DEF Expire, PoolTypes
<1>3. PoolTypes'
  BY <1>1, <1>2 DEF Expire, PoolTypes, ioVars, gameVars
<1>4. SlotsOK'
  BY <1>1 DEF Expire, SlotsOK, PoolTypes
<1>5. ThreadTypes' /\ ThreadsOK'
  BY <1>1 DEF Expire, ThreadTypes, ThreadsOK, RoleOK, OweOK, threadVars
<1>6. IoOK'
  BY <1>1 DEF Expire, IoOK, Outstanding, ioVars, gameVars
<1> QED
  BY <1>3, <1>4, <1>5, <1>6, TypesOKNext

-----------------------------------------------------------------------------
LEMMA TypeStep == TypeInv /\ [Next]_vars => TypeInv'
<1> SUFFICES ASSUME TypeInv, [Next]_vars PROVE TypeInv'
  OBVIOUS
<1>1. CASE AcceptStep
  BY <1>1, AllocateType, SetupType, FirstRecvType, AcceptReleaseType
     DEF AcceptStep
<1>2. ASSUME NEW w \in Workers, WorkerStep(w) PROVE TypeInv'
  BY <1>2, DequeueType, RecvClosedType, RecvDataType, NextRecvType,
     SendFailedType, SendDoneType DEF WorkerStep
<1>3. ASSUME NEW c \in Callers, CallerStep(c) PROVE TypeInv'
  BY <1>3, LeaseType, SendCheckType, SendEnqueueType DEF CallerStep
<1>4. ASSUME NEW r \in Reapers, ReaperStep(r) PROVE TypeInv'
  BY <1>4, ReapScanType, ReapLeaseType, ReapRecheckType DEF ReaperStep
<1>5. ASSUME NEW t \in Threads, TeardownStep(t) PROVE TypeInv'
  BY <1>5, DisconnectCasType, CloseSocketType, DecPendingIoType,
     NotifyDisconnectType, SelfReleaseType DEF TeardownStep
<1>6. CASE UNCHANGED vars
  BY <1>6, TypeParts, TypesOKNext
     DEF vars, sessionVars, ioVars, gameVars, threadVars, PoolTypes,
         ThreadTypes, ThreadsOK, RoleOK, OweOK, SlotsOK, IoOK, Outstanding
<1> QED
  BY <1>1, <1>2, <1>3, <1>4, <1>5, <1>6, AbortLeaseType, CompleteType,
     ExpireType DEF Next

(***************************************************************************)
(* The state of the pool and of every thread stays within its type: in     *)
(* particular the send ring never holds more than its capacity nor is      *)
(* asked to give back more than it holds (Session::OnSendComplete), and a  *)
(* thread never owes more than two counts.                                 *)
(***************************************************************************)
THEOREM TypeCorrect == Spec => []TypeOK
<1>1. TypeInv => TypeOK
  BY DEF TypeInv
<1> QED
  BY <1>1, InitType, TypeStep, PTL DEF Spec
-----------------------------------------------------------------------------
(* Part 2: the references.  The invariant holds until `overtaken`.         *)

NoIo(s) == \A io \in Outstanding : io.slot # s

(* The other threads on t's slot are only where `labels` says.             *)
Alone(t, labels) ==
  \A u \in Threads \ {t} : slot[u] = slot[t] => pc[u] \in labels

(* The free list has no duplicates, and is the set of slots whose last     *)
(* handle is of an earlier generation.                                     *)
FreeUnique ==
  \A i, j \in 1 .. Len(freeList) : freeList[i] = freeList[j] => i = j

SlotGen ==
  \A s \in Slots : /\ InUse(s) <=> sessionId[s] = generation[s]
                   /\ sessionId[s] <= generation[s]

(* The game knows no handle that was not issued.                           *)
KnownIssued == \A h \in known : h[2] <= sessionId[h[1]]

(* A thread that uses a session, or is aborting a lease of it, has the     *)
(* present incarnation.                                                    *)
UserOK ==
  \A t \in Threads :
    Using(t) \/ pc[t] = "abort" => /\ held[t] = generation[slot[t]]
                                  /\ InUse(slot[t])

IoCurrent ==
  /\ posted \cap completed = {}
  /\ \A io \in Outstanding : io.gen = generation[io.slot] /\ InUse(io.slot)

(* One receive and one send at a time.                                     *)
RecvAlone ==
  \A w \in Threads : pc[w] \in {"recv", "nextRecv"} =>
    /\ \A io \in Outstanding : ~ (io.slot = slot[w] /\ io.op = "recv")
    /\ \A u \in Threads \ {w} :
         slot[u] = slot[w] => pc[u] \notin {"recv", "nextRecv"}

SendAlone ==
  /\ \A w \in Threads : pc[w] = "send" =>
       /\ \A io \in Outstanding : ~ (io.slot = slot[w] /\ io.op = "send")
       /\ \A u \in Threads \ {w} : slot[u] = slot[w] => pc[u] # "send"
       /\ sendInProgress[slot[w]]
  /\ \A io \in Outstanding : io.op = "send" => sendInProgress[io.slot]

ClosingAlone ==
  \A t \in Threads : pc[t] \in {"notify", "release"} =>
    owe[t] = 0 /\ NoIo(slot[t]) /\ Alone(t, {"scanned", "abort", "acceptRelease"})

AcceptAlone ==
  pc[Acceptor] \in {"setup", "firstRecv"} =>
    NoIo(slot[Acceptor]) /\ Alone(Acceptor, {"scanned", "abort"})

(* One lease at a time is being aborted, on a slot that is being returned, *)
(* or entered, or that has a reference besides it.                         *)
AbortOK ==
  \A u \in Threads : pc[u] = "abort" =>
    /\ \A v \in Threads : pc[v] = "abort" => u = v
    /\ \/ pendingIo[slot[u]] >= 2
       \/ Entering(slot[u])
       \/ \E t \in Threads : Closing(t, slot[u])

SafeInv ==
  /\ FreeUnique /\ SlotGen /\ KnownIssued /\ UserOK /\ IoCurrent
  /\ RecvAlone /\ SendAlone /\ Counted
  /\ ClosingAlone /\ AcceptAlone /\ Kept /\ AbortOK

IInv == TypeInv /\ SafeInv

-----------------------------------------------------------------------------
(* Counting.                                                               *)
LEMMA AddOne ==
  ASSUME NEW A, IsFiniteSet(A), NEW x, x \notin A, NEW B, B = A \cup {x}
  PROVE  IsFiniteSet(B) /\ Cardinality(B) = Cardinality(A) + 1
  BY FS_AddElement

LEMMA DropOne ==
  ASSUME NEW A, IsFiniteSet(A), NEW x \in A, NEW B, B = A \ {x}
  PROVE  IsFiniteSet(B) /\ Cardinality(B) = Cardinality(A) - 1
  BY FS_RemoveElement

LEMMA SwapOne ==
  ASSUME NEW A, IsFiniteSet(A), NEW x \in A, NEW y, y \notin A,
         NEW B, B = (A \ {x}) \cup {y}
  PROVE  Cardinality(B) = Cardinality(A)
<1> DEFINE C == A \ {x}
<1>1. IsFiniteSet(C) /\ Cardinality(C) = Cardinality(A) - 1
  BY DropOne
<1>2. Cardinality(B) = Cardinality(C) + 1
  BY <1>1, AddOne
<1>3. Cardinality(A) \in Nat
  BY FS_CardinalityType
<1> QED
  BY <1>1, <1>2, <1>3

LEMMA RefFinite ==
  ASSUME TypeInv, NEW s \in Slots
  PROVE  IsFiniteSet(References(s)) /\ Cardinality(References(s)) \in Nat
<1>1. IsFiniteSet(Outstanding)
  BY FS_Union DEF TypeInv, IoOK, Outstanding
<1>2. IsFiniteSet({io \in Outstanding : io.slot = s})
  BY <1>1, FS_Subset
<1>3. IsFiniteSet({0}) /\ IsFiniteSet({1, 2})
  <2>1. IsFiniteSet({0}) /\ IsFiniteSet({1})
    BY FS_Singleton
  <2>2. IsFiniteSet({1} \cup {2}) /\ {1, 2} = {1} \cup {2}
    BY <2>1, FS_AddElement
  <2> QED
    BY <2>1, <2>2
<1>4. IsFiniteSet({io \in Outstanding : io.slot = s} \X {0})
  BY <1>2, <1>3, FS_Product
<1>5. IsFiniteSet(Threads \X {1, 2})
  BY <1>3, FS_Product, SessionPoolAssumption
<1>6. IsFiniteSet({r \in Threads \X {1, 2} : slot[r[1]] = s /\ r[2] <= owe[r[1]]})
  BY <1>5, FS_Subset
<1>7. IsFiniteSet(References(s))
  BY <1>4, <1>6, FS_Union DEF References
<1> QED
  BY <1>7, FS_CardinalityType

(* What is and what is not a reference.                                    *)
LEMMA RefIo ==
  ASSUME NEW io, NEW s
  PROVE  <<io, 0>> \in References(s) <=> io \in Outstanding /\ io.slot = s
  BY DEF References

LEMMA RefThread ==
  ASSUME NEW t, NEW n \in {1, 2}, NEW s
  PROVE  <<t, n>> \in References(s) <=>
           t \in Threads /\ slot[t] = s /\ n <= owe[t]
  BY DEF References

LEMMA NoReferences ==
  ASSUME TypeInv, Counted, NEW s \in Slots,
         NoIo(s), \A u \in Threads : slot[u] = s => owe[u] = 0
  PROVE  pendingIo[s] = 0
<1>1. References(s) = {}
  BY DEF References, NoIo
<1> QED
  BY <1>1, FS_EmptySet DEF Counted

LEMMA SomeReference ==
  ASSUME TypeInv, Counted, NEW s \in Slots, NEW r \in References(s)
  PROVE  pendingIo[s] >= 1
<1>1. IsFiniteSet(References(s)) /\ Cardinality(References(s)) \in Nat
  BY RefFinite
<1>2. Cardinality(References(s)) # 0
  BY <1>1, FS_EmptySet
<1> QED
  BY <1>1, <1>2 DEF Counted

-----------------------------------------------------------------------------
(* Steps that leave the free list, the handles and the counts alone, and   *)
(* move one thread from one place of using its slot to another.            *)
LEMMA UserParts ==
  ASSUME IInv
  PROVE  /\ PoolTypes /\ ThreadTypes /\ ThreadsOK /\ SlotsOK /\ IoOK
         /\ FreeUnique /\ SlotGen /\ KnownIssued /\ UserOK /\ IoCurrent
         /\ RecvAlone /\ SendAlone /\ Counted
         /\ ClosingAlone /\ AcceptAlone /\ Kept /\ AbortOK
  BY TypeParts DEF IInv, SafeInv

LEMMA InUseSame ==
  ASSUME freeList' = freeList
  PROVE  \A s : InUse(s)' <=> InUse(s)
  BY DEF InUse

LEMMA RefSame ==
  ASSUME NEW t \in Threads, OnlyMoves(t), slot'[t] = slot[t], owe'[t] = owe[t],
         Outstanding' = Outstanding, NEW s \in Slots
  PROVE  References(s)' = References(s)
<1>1. \A u \in Threads : slot'[u] = slot[u] /\ owe'[u] = owe[u]
  BY DEF OnlyMoves
<1> QED
  BY <1>1 DEF References

LEMMA QuietStep ==
  ASSUME IInv, NEW t \in Threads, OnlyMoves(t),
         slot'[t] = slot[t], held'[t] = held[t], owe'[t] = owe[t],
         UNCHANGED <<generation, sessionId, freeList, pendingIo, posted,
                     completed>>,
         Using(t), Using(t)', pc'[t] # "abort",
         pc'[t] \in {"recv", "nextRecv"} => pc[t] \in {"recv", "nextRecv"},
         pc'[t] # "send",
         pc'[t] \in {"notify", "release"} <=> pc[t] \in {"notify", "release"},
         pc'[t] \in {"setup", "firstRecv"} <=> pc[t] \in {"setup", "firstRecv"},
         known' \subseteq known \cup {<<slot[t], sessionId[slot[t]]>>},
         \/ sendInProgress' = sendInProgress
         \/ /\ pc[t] = "send"
            /\ sendInProgress' = [sendInProgress EXCEPT ![slot[t]] = FALSE]
  PROVE  SafeInv'
<1>1. /\ PoolTypes /\ ThreadTypes /\ ThreadsOK /\ IoOK
      /\ FreeUnique /\ SlotGen /\ KnownIssued /\ UserOK /\ IoCurrent
      /\ RecvAlone /\ SendAlone /\ Counted
      /\ ClosingAlone /\ AcceptAlone /\ Kept /\ AbortOK
  BY UserParts
<1>2. \A s : InUse(s)' <=> InUse(s)
  BY InUseSame
<1>3. Outstanding' = Outstanding
  BY DEF Outstanding
<1>4. \A u \in Threads : /\ slot'[u] = slot[u] /\ held'[u] = held[u]
                         /\ owe'[u] = owe[u] /\ (u # t => pc'[u] = pc[u])
  BY DEF OnlyMoves
<1>5. pc[t] # "idle" /\ slot[t] \in Slots
  BY HasSlot DEF Using, IInv
<1>6. FreeUnique' /\ SlotGen'
  BY <1>1, <1>2 DEF FreeUnique, SlotGen
<1>7. KnownIssued'
  BY <1>1, <1>5 DEF KnownIssued, PoolTypes
<1>8. UserOK'
  BY <1>1, <1>2, <1>4 DEF UserOK, Using
<1>9. IoCurrent'
  BY <1>1, <1>2, <1>3 DEF IoCurrent
<1>10. RecvAlone'
  BY <1>1, <1>3, <1>4 DEF RecvAlone
<1>11. SendAlone'
  <2>1. \A w \in Threads : pc'[w] = "send" => w # t /\ pc[w] = "send"
    BY <1>4
  <2>2. \A io \in Outstanding : io.slot \in Slots
    BY <1>1 DEF PoolTypes, IoType, Outstanding
  <2>3. \A w \in Threads : pc[w] = "send" => slot[w] \in Slots
    BY HasSlot DEF IInv
  <2>4. \A s \in Slots : s # slot[t] \/ pc[t] # "send"
          => (sendInProgress[s] => sendInProgress'[s])
    BY <1>1 DEF PoolTypes
  <2>5. \A w \in Threads : pc'[w] = "send" => slot[w] # slot[t] \/ pc[t] # "send"
    BY <1>1, <2>1 DEF SendAlone
  <2>6. \A io \in Outstanding : io.op = "send"
          => io.slot # slot[t] \/ pc[t] # "send"
    BY <1>1 DEF SendAlone
  <2> QED
    BY <1>1, <1>3, <1>4, <2>1, <2>2, <2>3, <2>4, <2>5, <2>6 DEF SendAlone
<1>12. Counted'
  BY <1>1, <1>3, RefSame DEF Counted
<1>13. ClosingAlone'
  BY <1>1, <1>3, <1>4 DEF ClosingAlone, NoIo, Alone, Using
<1>14. AcceptAlone'
  <2>1. Acceptor \in Threads
    BY DEF Threads
  <2> QED
    BY <1>1, <1>3, <1>4, <2>1 DEF AcceptAlone, NoIo, Alone, Using
<1>15. \A x : /\ Entering(x)' <=> Entering(x)
             /\ \A u \in Threads : Closing(u, x) => Closing(u, x)'
  BY <1>4 DEF Entering, Accepting, Closing, Threads
<1>16. Kept'
  BY <1>1, <1>2, <1>15 DEF Kept
<1>17. AbortOK'
  BY <1>1, <1>4, <1>15 DEF AbortOK
<1> QED
  BY <1>6, <1>7, <1>8, <1>9, <1>10, <1>11, <1>12, <1>13, <1>14, <1>16, <1>17
     DEF SafeInv

(* How the references of a slot change when one thread moves.              *)
LEMMA RefElsewhere ==
  ASSUME NEW t \in Threads, OnlyMoves(t), NEW x,
         {io \in Outstanding' : io.slot = x} = {io \in Outstanding : io.slot = x},
         \A n \in {1, 2} : slot'[t] = x /\ n <= owe'[t]
                             <=> slot[t] = x /\ n <= owe[t]
  PROVE  References(x)' = References(x)
<1>1. \A u \in Threads, n \in {1, 2} :
        slot'[u] = x /\ n <= owe'[u] <=> slot[u] = x /\ n <= owe[u]
  BY DEF OnlyMoves
<1>2. {r \in Threads \X {1, 2} : slot'[r[1]] = x /\ r[2] <= owe'[r[1]]}
        = {r \in Threads \X {1, 2} : slot[r[1]] = x /\ r[2] <= owe[r[1]]}
  BY <1>1
<1> QED
  BY <1>2 DEF References

LEMMA RefTaken ==
  ASSUME NEW t \in Threads, OnlyMoves(t), NEW s, NEW n \in {1, 2},
         Outstanding' = Outstanding, owe[t] \in 0 .. 2,
         slot'[t] = s, owe'[t] = n,
         IF n = 1 THEN slot[t] # s \/ owe[t] = 0 ELSE slot[t] = s /\ owe[t] = 1
  PROVE  /\ References(s)' = References(s) \cup {<<t, n>>}
         /\ <<t, n>> \notin References(s)
<1> DEFINE Q  == {r \in Threads \X {1, 2} : slot[r[1]] = s /\ r[2] <= owe[r[1]]}
           Q2 == {r \in Threads \X {1, 2} : slot'[r[1]] = s /\ r[2] <= owe'[r[1]]}
<1>1. <<t, n>> \notin References(s)
  <2>1. ~ (slot[t] = s /\ n <= owe[t])
    OBVIOUS
  <2> QED
    BY <2>1, RefThread
<1>2. \A u \in Threads, m \in {1, 2} :
        slot'[u] = s /\ m <= owe'[u]
          <=> (slot[u] = s /\ m <= owe[u]) \/ (u = t /\ m = n)
  BY DEF OnlyMoves
<1>3. Q2 = Q \cup {<<t, n>>}
  BY <1>2
<1> QED
  BY <1>1, <1>3 DEF References

LEMMA RefReturned ==
  ASSUME NEW t \in Threads, OnlyMoves(t), NEW s, NEW n \in {1, 2},
         Outstanding' = Outstanding,
         slot[t] = s, owe[t] = n, owe'[t] = n - 1,
         n = 2 => slot'[t] = s
  PROVE  /\ References(s)' = References(s) \ {<<t, n>>}
         /\ <<t, n>> \in References(s)
<1> DEFINE Q  == {r \in Threads \X {1, 2} : slot[r[1]] = s /\ r[2] <= owe[r[1]]}
           Q2 == {r \in Threads \X {1, 2} : slot'[r[1]] = s /\ r[2] <= owe'[r[1]]}
<1>1. <<t, n>> \in References(s)
  <2>1. slot[t] = s /\ n <= owe[t]
    OBVIOUS
  <2> QED
    BY <2>1, RefThread
<1>2. \A u \in Threads, m \in {1, 2} :
        slot'[u] = s /\ m <= owe'[u]
          <=> (slot[u] = s /\ m <= owe[u]) /\ ~ (u = t /\ m = n)
  BY DEF OnlyMoves
<1>3. Q2 = Q \ {<<t, n>>}
  BY <1>2
<1> QED
  BY <1>1, <1>3 DEF References

LEMMA RefPosted ==
  ASSUME NEW t \in Threads, OnlyMoves(t), NEW s, NEW io,
         io.slot = s, io \notin Outstanding, Outstanding' = Outstanding \cup {io},
         \A n \in {1, 2} : slot'[t] = s /\ n <= owe'[t]
                             <=> slot[t] = s /\ n <= owe[t]
  PROVE  /\ References(s)' = References(s) \cup {<<io, 0>>}
         /\ <<io, 0>> \notin References(s)
<1>1. \A u \in Threads, n \in {1, 2} :
        slot'[u] = s /\ n <= owe'[u] <=> slot[u] = s /\ n <= owe[u]
  BY DEF OnlyMoves
<1>2. {r \in Threads \X {1, 2} : slot'[r[1]] = s /\ r[2] <= owe'[r[1]]}
        = {r \in Threads \X {1, 2} : slot[r[1]] = s /\ r[2] <= owe[r[1]]}
  BY <1>1
<1>3. {o \in Outstanding' : o.slot = s} \X {0}
        = ({o \in Outstanding : o.slot = s} \X {0}) \cup {<<io, 0>>}
  OBVIOUS
<1>4. <<io, 0>> \notin References(s)
  BY RefIo
<1> QED
  BY <1>2, <1>3, <1>4 DEF References

-----------------------------------------------------------------------------
(* What the free list, the handles and the users of slots are concerned    *)
(* with, in a step that neither takes a slot nor gives one back.           *)
LEMMA SlotsKept ==
  ASSUME IInv, NEW t \in Threads, OnlyMoves(t),
         UNCHANGED <<generation, sessionId, freeList, known>>,
         Using(t)' \/ pc'[t] = "abort"
           => held'[t] = generation[slot'[t]] /\ InUse(slot'[t])
  PROVE  FreeUnique' /\ SlotGen' /\ KnownIssued' /\ UserOK'
<1>1. \A s : InUse(s)' <=> InUse(s)
  BY InUseSame
<1>2. \A u \in Threads \ {t} : /\ slot'[u] = slot[u] /\ held'[u] = held[u]
                               /\ pc'[u] = pc[u]
  BY DEF OnlyMoves
<1>3. FreeUnique' /\ SlotGen' /\ KnownIssued'
  BY <1>1, UserParts DEF FreeUnique, SlotGen, KnownIssued
<1>4. UserOK'
  BY <1>1, <1>2, UserParts DEF UserOK, Using
<1> QED
  BY <1>3, <1>4

(* Nobody tears down, or first accepts, a slot that another thread uses.   *)
LEMMA UserExcludes ==
  ASSUME IInv, NEW t \in Threads, Using(t), pc[t] \notin {"notify", "release"}
  PROVE  /\ slot[t] \in Slots
         /\ \A u \in Threads : ~ Closing(u, slot[t])
         /\ pc[t] \notin {"setup", "firstRecv"} => ~ Entering(slot[t])
<1>1. slot[t] \in Slots /\ pc[t] # "idle"
  BY HasSlot DEF Using, IInv
<1>2. \A u \in Threads : ~ Closing(u, slot[t])
  BY UserParts DEF ClosingAlone, Alone, Closing, Using
<1>3. pc[t] \notin {"setup", "firstRecv"} => ~ Entering(slot[t])
  BY UserParts DEF AcceptAlone, Alone, Using, Entering, Accepting
<1> QED
  BY <1>1, <1>2, <1>3

(* A lease that is being aborted is a reference.                           *)
LEMMA AbortCounts ==
  ASSUME IInv, NEW u \in Threads, pc[u] = "abort"
  PROVE  slot[u] \in Slots /\ pendingIo[slot[u]] >= 1 /\ u \in Leasers
<1>1. /\ ThreadsOK /\ Counted /\ TypeInv /\ slot[u] \in Slots
  BY UserParts, HasSlot DEF IInv
<1>2. u \in Leasers /\ owe[u] = 1
  BY <1>1 DEF ThreadsOK, RoleOK, OweOK, Teardown, Leasers
<1>3. <<u, 1>> \in References(slot[u])
  <2>1. 1 \in {1, 2} /\ 1 <= owe[u]
    BY <1>2
  <2> QED
    BY <2>1, RefThread
<1> QED
  BY <1>1, <1>2, <1>3, SomeReference

-----------------------------------------------------------------------------
(* A post (WSARecv or WSASend), successful or not, by a thread that holds  *)
(* the slot: the count grows by one, and by one reference.                 *)
LEMMA PostStep ==
  ASSUME IInv, NEW t \in Threads, t # Acceptor, OnlyMoves(t),
         pc[t] \in {"nextRecv", "send", "enqueue"}, owe[t] = 1,
         slot'[t] = slot[t], held'[t] = held[t],
         UNCHANGED <<generation, sessionId, freeList, completed, known>>,
         pendingIo' = [pendingIo EXCEPT ![slot[t]] = @ + 1],
         NEW op \in {"recv", "send"},
         op = "recv" <=> pc[t] = "nextRecv",
         pc[t] = "enqueue" => ~ sendInProgress[slot[t]],
         \/ /\ posted' = posted \cup {Io(slot[t], op)}
            /\ pc'[t] = "dec" /\ owe'[t] = 1
            /\ op = "send" =>
                 sendInProgress' = [sendInProgress EXCEPT ![slot[t]] = TRUE]
         \/ posted' = posted /\ pc'[t] = "cas" /\ owe'[t] = 2,
         \A x \in Slots \ {slot[t]} : sendInProgress'[x] = sendInProgress[x],
         op = "recv" => sendInProgress' = sendInProgress
  PROVE  SafeInv'
<1> DEFINE s == slot[t]
           io == Io(s, op)
<1>1. /\ PoolTypes /\ ThreadTypes /\ ThreadsOK /\ IoOK
      /\ FreeUnique /\ SlotGen /\ KnownIssued /\ UserOK /\ IoCurrent
      /\ RecvAlone /\ SendAlone /\ Counted
      /\ ClosingAlone /\ AcceptAlone /\ Kept /\ AbortOK
  BY UserParts
<1>2. \A x : InUse(x)' <=> InUse(x)
  BY InUseSame
<1>3. Using(t) /\ pc[t] \notin {"notify", "release"} /\ Using(t)'
  BY DEF Using
<1>4. /\ s \in Slots /\ InUse(s) /\ held[t] = generation[s]
      /\ \A u \in Threads : ~ Closing(u, s)
      /\ ~ Entering(s)
  BY <1>1, <1>3, UserExcludes DEF UserOK
<1>5. \A u \in Threads : /\ slot'[u] = slot[u] /\ held'[u] = held[u]
                         /\ (u # t => pc'[u] = pc[u] /\ owe'[u] = owe[u])
  BY DEF OnlyMoves
<1>6. io.slot = s /\ io.gen = generation[s] /\ io.op = op
  <2>1. sessionId[s] \in Nat /\ sessionId[s] = generation[s]
    BY <1>1, <1>4 DEF PoolTypes, SlotGen
  <2> QED
    BY <1>4, <2>1, IoFields
<1>7. FreeUnique' /\ SlotGen' /\ KnownIssued' /\ UserOK'
  BY <1>3, <1>4, <1>5, SlotsKept DEF Using
<1>8. \A o \in Outstanding : ~ (o.slot = s /\ o.op = op)
  <2>1. CASE pc[t] = "nextRecv"
    BY <1>1, <2>1 DEF RecvAlone
  <2>2. CASE pc[t] = "send"
    BY <1>1, <2>2 DEF SendAlone
  <2>3. CASE pc[t] = "enqueue"
    BY <1>1, <2>3 DEF SendAlone
  <2> QED
    BY <2>1, <2>2, <2>3
<1>9. io \notin Outstanding
  BY <1>6, <1>8
<1>10. \/ Outstanding' = Outstanding \cup {io} /\ pc'[t] = "dec" /\ owe'[t] = 1
       \/ Outstanding' = Outstanding /\ pc'[t] = "cas" /\ owe'[t] = 2
  BY DEF Outstanding
<1>11. IoCurrent'
  BY <1>1, <1>2, <1>4, <1>6, <1>9 DEF IoCurrent, Outstanding
<1>12. RecvAlone'
  <2>1. \A w \in Threads : pc'[w] \in {"recv", "nextRecv"}
          => w # t /\ pc[w] \in {"recv", "nextRecv"}
    BY <1>5, <1>10
  <2>2. \A w \in Threads : w # t /\ pc[w] \in {"recv", "nextRecv"} /\ op = "recv"
          => slot[w] # s
    BY <1>1 DEF RecvAlone
  <2> QED
    BY <1>1, <1>5, <1>6, <1>10, <2>1, <2>2 DEF RecvAlone
<1>13. SendAlone'
  <2>1. \A w \in Threads : pc'[w] = "send" => w # t /\ pc[w] = "send"
    BY <1>5, <1>10
  <2>2. \A w \in Threads : w # t /\ pc[w] = "send" /\ op = "send" => slot[w] # s
    BY <1>1 DEF SendAlone
  <2>3. \A w \in Threads : pc[w] = "send" => slot[w] \in Slots
    BY HasSlot DEF IInv
  <2>4. \A o \in Outstanding : o.slot \in Slots
    BY <1>1 DEF PoolTypes, IoType, Outstanding
  <2>5. sendInProgress \in [Slots -> BOOLEAN]
    BY <1>1 DEF PoolTypes
  <2>6. \A w \in Threads : pc'[w] = "send" =>
          /\ \A o \in Outstanding' : ~ (o.slot = slot'[w] /\ o.op = "send")
          /\ \A u \in Threads \ {w} : slot'[u] = slot'[w] => pc'[u] # "send"
    BY <1>1, <1>5, <1>6, <1>10, <2>1, <2>2 DEF SendAlone
  <2>7. \A w \in Threads : pc'[w] = "send" => sendInProgress'[slot'[w]]
    BY <1>1, <1>5, <2>1, <2>2, <2>3 DEF SendAlone
  <2>8. \A o \in Outstanding' : o.op = "send" => sendInProgress'[o.slot]
    BY <1>1, <1>4, <1>6, <1>8, <1>10, <2>4, <2>5 DEF SendAlone, Outstanding
  <2> QED
    BY <2>6, <2>7, <2>8 DEF SendAlone
<1>14. Counted'
  <2> SUFFICES ASSUME NEW x \in Slots
               PROVE  pendingIo'[x] = Cardinality(References(x)')
    BY DEF Counted
  <2>1. /\ IsFiniteSet(References(x)) /\ pendingIo[x] = Cardinality(References(x))
        /\ pendingIo[x] \in Int
    BY <1>1, RefFinite DEF Counted, IInv, PoolTypes
  <2>2. CASE x # s
    <3>1. {o \in Outstanding' : o.slot = x} = {o \in Outstanding : o.slot = x}
      BY <1>6, <1>10, <2>2
    <3>2. References(x)' = References(x)
      BY <1>5, <2>2, <3>1, RefElsewhere
    <3> QED
      BY <1>1, <2>1, <2>2, <3>2 DEF PoolTypes
  <2>3. CASE x = s /\ Outstanding' = Outstanding \cup {io} /\ owe'[t] = 1
    <3>1. /\ References(x)' = References(x) \cup {<<io, 0>>}
          /\ <<io, 0>> \notin References(x)
      BY <1>5, <1>6, <1>9, <2>3, RefPosted
    <3>2. Cardinality(References(x)') = Cardinality(References(x)) + 1
      BY <2>1, <3>1, AddOne
    <3> QED
      BY <1>1, <1>4, <2>1, <2>3, <3>2 DEF PoolTypes
  <2>4. CASE x = s /\ Outstanding' = Outstanding /\ owe'[t] = 2
    <3>1. /\ References(x)' = References(x) \cup {<<t, 2>>}
          /\ <<t, 2>> \notin References(x)
      <4>1. 2 \in {1, 2} /\ owe[t] \in 0 .. 2 /\ 2 # 1
        OBVIOUS
      <4> QED
        BY <1>5, <2>4, <4>1, RefTaken
    <3>2. Cardinality(References(x)') = Cardinality(References(x)) + 1
      BY <2>1, <3>1, AddOne
    <3> QED
      BY <1>1, <1>4, <2>1, <2>4, <3>2 DEF PoolTypes
  <2> QED
    BY <1>10, <2>2, <2>3, <2>4
<1>15. ClosingAlone'
  BY <1>1, <1>4, <1>5, <1>6, <1>10 DEF ClosingAlone, Closing, NoIo, Alone
<1>16. AcceptAlone'
  <2>1. Acceptor \in Threads /\ Acceptor # t
    BY DEF Threads
  <2> QED
    BY <1>1, <1>4, <1>5, <1>6, <1>10, <2>1
       DEF AcceptAlone, NoIo, Alone, Entering, Accepting
<1>17. /\ \A x : Entering(x) => Entering(x)'
       /\ \A x : \A u \in Threads : Closing(u, x) => Closing(u, x)'
  <2>1. \A x : Entering(x) => Entering(x)'
    BY <1>5 DEF Entering, Accepting, Threads
  <2>2. \A x : \A u \in Threads : Closing(u, x) => Closing(u, x)'
    BY <1>5 DEF Closing
  <2> QED
    BY <2>1, <2>2
<1>18. Kept'
  <2> SUFFICES ASSUME NEW x \in Slots, InUse(x), ~ (pendingIo'[x] > 0)
               PROVE  Entering(x)' \/ \E u \in Threads : Closing(u, x)'
    BY <1>2 DEF Kept
  <2>1. ~ (pendingIo[x] > 0)
    BY <1>1, <1>4 DEF PoolTypes
  <2> QED
    BY <1>1, <1>17, <2>1 DEF Kept
<1>19. AbortOK'
  <2> SUFFICES ASSUME NEW u \in Threads, pc'[u] = "abort"
               PROVE  /\ \A v \in Threads : pc'[v] = "abort" => u = v
                      /\ \/ pendingIo'[slot'[u]] >= 2
                         \/ Entering(slot[u])'
                         \/ \E v \in Threads : Closing(v, slot[u])'
    BY DEF AbortOK
  <2>1. /\ pc[u] = "abort" /\ slot'[u] = slot[u]
        /\ \A v \in Threads : pc'[v] = "abort" => pc[v] = "abort"
    BY <1>5, <1>10
  <2>2. slot[u] \in Slots /\ pendingIo[slot[u]] \in Int
    BY <1>1, <2>1, AbortCounts DEF PoolTypes
  <2>3. pendingIo[slot[u]] >= 2 => pendingIo'[slot[u]] >= 2
    BY SMTT(60), <1>1, <1>4, <2>2 DEF PoolTypes
  <2>4. /\ Entering(slot[u]) => Entering(slot[u])'
        /\ \A v \in Threads : Closing(v, slot[u]) => Closing(v, slot[u])'
    BY <1>17, <2>1 DEF Entering, Accepting, Closing
  <2> QED
    BY <1>1, <2>1, <2>3, <2>4 DEF AbortOK
<1> QED
  BY <1>7, <1>11, <1>12, <1>13, <1>14, <1>15, <1>16, <1>18, <1>19 DEF SafeInv

-----------------------------------------------------------------------------
(* The accept thread.                                                      *)
LEMMA AllocateSafe == ASSUME IInv, Allocate PROVE SafeInv'
<1>0. PICK s : s = Head(freeList)
  OBVIOUS
<1>1. /\ PoolTypes /\ ThreadTypes /\ ThreadsOK /\ SlotsOK
      /\ FreeUnique /\ SlotGen /\ KnownIssued /\ UserOK /\ IoCurrent
      /\ RecvAlone /\ SendAlone /\ Counted
      /\ ClosingAlone /\ AcceptAlone /\ Kept /\ AbortOK
      /\ Acceptor \in Threads
  BY UserParts DEF Threads
<1>2. /\ freeList \in Seq(Slots) /\ freeList # <<>>
      /\ freeList' = Tail(freeList)
      /\ sessionId' = [sessionId EXCEPT ![s] = generation[s]]
  BY <1>0, <1>1 DEF Allocate, PoolTypes
<1>3. /\ s \in Slots /\ s = freeList[1] /\ Len(freeList) \in Nat
      /\ Len(freeList) >= 1 /\ Len(freeList') = Len(freeList) - 1
      /\ \A i \in 1 .. Len(freeList') : freeList'[i] = freeList[i + 1]
  BY <1>0, <1>2, HeadTailProperties, LenProperties, EmptySeq
<1>4. ~ InUse(s)
  BY <1>3 DEF InUse
<1>5. \A x \in Slots : InUse(x)' <=> InUse(x) \/ x = s
  <2>1. InUse(s)'
    <3> SUFFICES ASSUME NEW i \in 1 .. Len(freeList'), freeList'[i] = s
                 PROVE FALSE
      BY DEF InUse
    <3>1. i + 1 \in 1 .. Len(freeList) /\ 1 \in 1 .. Len(freeList)
      BY <1>3
    <3>2. freeList[i + 1] = freeList[1]
      BY <1>3
    <3> QED
      BY <1>1, <3>1, <3>2 DEF FreeUnique
  <2>2. ASSUME NEW x \in Slots, InUse(x) PROVE InUse(x)'
    BY <1>3, <2>2 DEF InUse
  <2>3. ASSUME NEW x \in Slots, x # s, InUse(x)' PROVE InUse(x)
    <3> SUFFICES ASSUME NEW i \in 1 .. Len(freeList), freeList[i] = x
                 PROVE FALSE
      BY DEF InUse
    <3>1. i - 1 \in 1 .. Len(freeList')
      BY <1>3, <2>3
    <3>2. freeList'[i - 1] = freeList[(i - 1) + 1]
      BY <1>3, <3>1
    <3> QED
      BY <2>3, <3>1, <3>2 DEF InUse
  <2> QED
    BY <2>1, <2>2, <2>3
<1>6. FreeUnique'
  <2> SUFFICES ASSUME NEW i \in 1 .. Len(freeList'), NEW j \in 1 .. Len(freeList'),
                      freeList'[i] = freeList'[j]
               PROVE i = j
    BY DEF FreeUnique
  <2>1. i + 1 \in 1 .. Len(freeList) /\ j + 1 \in 1 .. Len(freeList)
    BY <1>3
  <2>2. freeList[i + 1] = freeList[j + 1]
    BY <1>3
  <2> QED
    BY <1>1, <2>1, <2>2 DEF FreeUnique
<1>7. /\ generation[s] \in Nat /\ sessionId[s] < generation[s]
      /\ sessionId[s] \in Nat
  BY <1>1, <1>3, <1>4 DEF SlotGen, PoolTypes
<1>8. SlotGen'
  <2> SUFFICES ASSUME NEW x \in Slots
               PROVE  /\ InUse(x)' <=> sessionId'[x] = generation'[x]
                      /\ sessionId'[x] <= generation'[x]
    BY DEF SlotGen
  <2>1. generation' = generation /\ generation[x] \in Nat /\ sessionId[x] \in Nat
    BY <1>1 DEF Allocate, PoolTypes
  <2>2. CASE x = s
    <3>1. sessionId'[x] = generation[x]
      BY <1>1, <1>2, <2>2 DEF PoolTypes
    <3> QED
      BY <1>5, <2>1, <2>2, <3>1
  <2>3. CASE x # s
    <3>1. sessionId'[x] = sessionId[x]
      BY <1>1, <1>2, <2>3 DEF PoolTypes
    <3> QED
      BY <1>1, <1>5, <2>1, <2>3, <3>1 DEF SlotGen
  <2> QED
    BY <2>2, <2>3
<1>9. /\ known' = known /\ generation' = generation /\ pendingIo' = pendingIo
      /\ posted' = posted /\ completed' = completed
      /\ sendInProgress' = sendInProgress /\ Outstanding' = Outstanding
  BY DEF Allocate, ioVars, gameVars, Outstanding
<1>10. \A h \in known : h[1] \in Slots /\ h[2] \in Nat /\ h[2] <= sessionId[h[1]]
  BY <1>1, SessionPoolAssumption DEF KnownIssued, PoolTypes, Handles
<1>11. KnownIssued'
  <2>1. \A x \in Slots : sessionId[x] \in Nat /\ sessionId'[x] \in Nat
                           /\ sessionId[x] <= sessionId'[x]
    BY SMTT(60), <1>1, <1>2, <1>3, <1>7 DEF PoolTypes
  <2> QED
    BY <1>9, <1>10, <2>1 DEF KnownIssued
<1>12. pc[Acceptor] = "idle" /\ slot[Acceptor] = NoSlot /\ owe[Acceptor] = 0
  BY <1>1 DEF Allocate, ThreadTypes, ThreadsOK, OweOK
<1>13. /\ OnlyMoves(Acceptor) /\ pc'[Acceptor] = "setup"
       /\ slot'[Acceptor] = s /\ held'[Acceptor] = generation[s]
       /\ owe'[Acceptor] = 0
  <2>1. Begin(Acceptor, "setup", s, 0) /\ "setup" \in PcLabels \ {"idle"}
    BY <1>0 DEF Allocate, PcLabels
  <2> QED
    BY <1>1, <1>3, <1>7, <2>1, BeginEffect
<1>14. \A u \in Threads \ {Acceptor} :
         /\ pc'[u] = pc[u] /\ slot'[u] = slot[u] /\ held'[u] = held[u]
         /\ owe'[u] = owe[u]
  BY <1>13 DEF OnlyMoves
<1>15. \A u \in Threads \ {Acceptor} :
         slot[u] = s => pc[u] = "scanned" /\ owe[u] = 0
  <2>1. \A u \in Threads : slot[u] = s => pc[u] \in {"scanned", "acceptRelease"}
    BY <1>1, <1>3, <1>4, SessionPoolAssumption DEF UserOK, Using, ThreadTypes
  <2>2. \A u \in Threads \ {Acceptor} : pc[u] # "acceptRelease"
    BY <1>1 DEF ThreadsOK, RoleOK, Teardown
  <2> QED
    BY <1>1, <2>1, <2>2 DEF ThreadsOK, OweOK
<1>16. NoIo(s)
  BY <1>1, <1>4 DEF IoCurrent, NoIo
<1>17. UserOK'
  <2>1. \A u \in Threads \ {Acceptor} : Using(u)' <=> Using(u)
    BY <1>14 DEF Using
  <2>2. \A u \in Threads \ {Acceptor} : pc[u] # "idle" => slot[u] \in Slots
    BY HasSlot DEF IInv
  <2> QED
    BY <1>1, <1>3, <1>5, <1>9, <1>13, <1>14, <2>1, <2>2 DEF UserOK, Using
<1>18. IoCurrent'
  <2>1. \A io \in Outstanding : io.slot \in Slots
    BY <1>1 DEF PoolTypes, IoType, Outstanding
  <2> QED
    BY <1>1, <1>5, <1>9, <2>1 DEF IoCurrent
<1>19. RecvAlone' /\ SendAlone'
  <2>1. \A u \in Threads : pc'[u] \in {"recv", "nextRecv", "send"} =>
          u # Acceptor /\ slot'[u] = slot[u] /\ pc'[u] = pc[u]
    BY <1>13, <1>14
  <2>2. RecvAlone'
    BY <1>1, <1>9, <1>14, <2>1 DEF RecvAlone
  <2>3. SendAlone'
    BY <1>1, <1>9, <1>14, <2>1 DEF SendAlone
  <2> QED
    BY <2>2, <2>3
<1>20. Counted'
  <2>1. ASSUME NEW x \in Slots PROVE References(x)' = References(x)
    BY <1>1, <1>9, <1>12, <1>13, RefElsewhere
  <2> QED
    BY <1>1, <1>9, <2>1 DEF Counted
<1>21. ClosingAlone'
  <2>1. \A u \in Threads : pc'[u] \in {"notify", "release"} =>
          /\ u # Acceptor /\ pc[u] \in {"notify", "release"} /\ slot[u] # s
    BY <1>13, <1>14, <1>15
  <2> QED
    BY <1>1, <1>9, <1>13, <1>14, <2>1 DEF ClosingAlone, NoIo, Alone
<1>22. AcceptAlone'
  BY <1>9, <1>13, <1>14, <1>15, <1>16 DEF AcceptAlone, NoIo, Alone
<1>23. Kept'
  <2> SUFFICES ASSUME NEW x \in Slots, x # s, InUse(x), ~ (pendingIo[x] > 0)
               PROVE  \E u \in Threads : Closing(u, x)'
    BY <1>5, <1>9, <1>13 DEF Kept, Entering, Accepting
  <2>1. PICK u \in Threads : Closing(u, x)
    BY <1>1, <1>12 DEF Kept, Entering
  <2> QED
    BY <1>12, <1>14, <2>1 DEF Closing
<1>24. AbortOK'
  <2>1. \A u \in Threads : pc'[u] = "abort" => u # Acceptor /\ pc[u] = "abort"
    BY <1>13, <1>14
  <2>2. \A u \in Threads : \A x : Closing(u, x) => Closing(u, x)'
    BY <1>12, <1>14 DEF Closing
  <2>3. \A x : ~ Entering(x)
    BY <1>12 DEF Entering
  <2> QED
    BY <1>1, <1>9, <1>14, <2>1, <2>2, <2>3 DEF AbortOK
<1> QED
  BY <1>6, <1>8, <1>11, <1>17, <1>18, <1>19, <1>20, <1>21, <1>22, <1>23, <1>24
     DEF SafeInv

LEMMA SetupSafe == ASSUME IInv, SetupSession PROVE SafeInv'
<1>1. ThreadTypes /\ PoolTypes /\ Acceptor \in Threads
  BY UserParts DEF Threads
<1>2. /\ OnlyMoves(Acceptor) /\ pc'[Acceptor] = "firstRecv"
      /\ slot'[Acceptor] = slot[Acceptor] /\ held'[Acceptor] = held[Acceptor]
      /\ owe'[Acceptor] = owe[Acceptor]
  BY <1>1, JumpEffect DEF SetupSession, PcLabels
<1>3. pc[Acceptor] = "setup" /\ known' = known /\ sendInProgress' = sendInProgress
  BY DEF SetupSession, gameVars
<1>4. UNCHANGED <<generation, sessionId, freeList, pendingIo, posted, completed>>
  BY DEF SetupSession, ioVars
<1>5. Using(Acceptor) /\ Using(Acceptor)'
  BY <1>2, <1>3 DEF Using
<1>9. /\ pc'[Acceptor] \notin {"abort", "send", "recv", "nextRecv", "notify", "release"}
      /\ pc[Acceptor] \notin {"notify", "release"}
      /\ pc'[Acceptor] \in {"setup", "firstRecv"}
  BY <1>2, <1>3
<1> QED
  BY <1>1, <1>2, <1>3, <1>4, <1>5, <1>9, QuietStep DEF Using

LEMMA FirstRecvSafe == ASSUME IInv, FirstRecv PROVE SafeInv'
<1> DEFINE s == slot[Acceptor]
           io == Io(s, "recv")
<1>1. /\ PoolTypes /\ ThreadTypes /\ ThreadsOK
      /\ FreeUnique /\ SlotGen /\ KnownIssued /\ UserOK /\ IoCurrent
      /\ RecvAlone /\ SendAlone /\ Counted
      /\ ClosingAlone /\ AcceptAlone /\ Kept /\ AbortOK
      /\ Acceptor \in Threads /\ pc[Acceptor] = "firstRecv"
  BY UserParts DEF Threads, FirstRecv
<1>2. s \in Slots /\ owe[Acceptor] = 0 /\ s # NoSlot
  BY <1>1, HasSlot, SessionPoolAssumption DEF IInv, ThreadsOK, OweOK
<1>3. /\ NoIo(s) /\ Alone(Acceptor, {"scanned", "abort"})
      /\ held[Acceptor] = generation[s] /\ InUse(s)
  BY <1>1 DEF AcceptAlone, UserOK, Using
<1>4. io.slot = s /\ io.gen = generation[s] /\ io.op = "recv"
  <2>1. sessionId[s] \in Nat /\ sessionId[s] = generation[s]
    BY <1>1, <1>2, <1>3 DEF PoolTypes, SlotGen
  <2> QED
    BY <1>2, <2>1, IoFields
<1>5. io \notin Outstanding
  BY <1>3, <1>4 DEF NoIo
<1>6. /\ pendingIo' = [pendingIo EXCEPT ![s] = @ + 1] /\ known' = known
      /\ completed' = completed /\ sendInProgress' = sendInProgress
      /\ generation' = generation /\ sessionId' = sessionId
      /\ freeList' = freeList
  BY DEF FirstRecv, gameVars
<1>7. \/ /\ Outstanding' = Outstanding \cup {io} /\ posted' = posted \cup {io}
         /\ pc'[Acceptor] = "idle" /\ slot'[Acceptor] = NoSlot
         /\ owe'[Acceptor] = 0 /\ OnlyMoves(Acceptor)
      \/ /\ Outstanding' = Outstanding /\ posted' = posted
         /\ pc'[Acceptor] = "cas" /\ slot'[Acceptor] = s
         /\ held'[Acceptor] = held[Acceptor]
         /\ owe'[Acceptor] = 1 /\ OnlyMoves(Acceptor)
  <2>1. CASE RecvPosted(s) /\ Finish(Acceptor)
    BY <1>1, <1>6, <2>1, FinishEffect DEF RecvPosted, Outstanding
  <2>2. CASE /\ Goto(Acceptor, "cas") /\ owe' = [owe EXCEPT ![Acceptor] = 1]
             /\ UNCHANGED <<posted, slot, held>>
    <3>1. "cas" \in PcLabels \ {"idle"} /\ 1 \in 0 .. 2
      BY DEF PcLabels
    <3> QED
      BY <1>1, <1>6, <2>2, <3>1, GotoEffect DEF Outstanding
  <2> QED
    BY <2>1, <2>2 DEF FirstRecv
<1>8. \A u \in Threads \ {Acceptor} :
        /\ pc'[u] = pc[u] /\ slot'[u] = slot[u] /\ held'[u] = held[u]
        /\ owe'[u] = owe[u] /\ (slot[u] = s => pc[u] \in {"scanned", "abort"})
  BY <1>3, <1>7 DEF OnlyMoves, Alone
<1>9. FreeUnique' /\ SlotGen' /\ KnownIssued' /\ UserOK'
  BY <1>1, <1>3, <1>6, <1>7, SlotsKept DEF Using
<1>10. IoCurrent'
  <2>1. \A x : InUse(x)' <=> InUse(x)
    BY <1>6, InUseSame
  <2> QED
    BY <1>1, <1>3, <1>4, <1>5, <1>6, <1>7, <2>1 DEF IoCurrent, Outstanding
<1>11. RecvAlone'
  <2>1. \A u \in Threads : pc'[u] \in {"recv", "nextRecv"} =>
          u # Acceptor /\ slot'[u] # s /\ pc[u] \in {"recv", "nextRecv"}
    BY <1>7, <1>8
  <2> QED
    BY <1>1, <1>4, <1>7, <1>8, <2>1 DEF RecvAlone
<1>12. SendAlone'
  <2>1. \A u \in Threads : pc'[u] = "send" => u # Acceptor /\ pc[u] = "send"
    BY <1>7, <1>8
  <2> QED
    BY <1>1, <1>4, <1>6, <1>7, <1>8, <2>1 DEF SendAlone
<1>13. ASSUME NEW x \in Slots
       PROVE  /\ pendingIo'[x] = Cardinality(References(x)')
              /\ x # s => pendingIo'[x] = pendingIo[x]
              /\ pendingIo'[s] > 0
  <2>1. /\ IsFiniteSet(References(x)) /\ pendingIo[x] = Cardinality(References(x))
        /\ Cardinality(References(s)) \in Nat /\ pendingIo[x] \in Int
        /\ pendingIo[s] = Cardinality(References(s))
    BY <1>1, <1>2, RefFinite DEF Counted, IInv, PoolTypes
  <2>2. pendingIo'[s] > 0 /\ (x # s => pendingIo'[x] = pendingIo[x])
    BY <1>1, <1>2, <1>6, <2>1 DEF PoolTypes
  <2>3. CASE x # s
    <3>1. {o \in Outstanding' : o.slot = x} = {o \in Outstanding : o.slot = x}
      BY <1>4, <1>7, <2>3
    <3>2. \A n \in {1, 2} : slot'[Acceptor] = x /\ n <= owe'[Acceptor]
                              <=> slot[Acceptor] = x /\ n <= owe[Acceptor]
      BY <1>2, <1>7, <2>3, SessionPoolAssumption
    <3>3. References(x)' = References(x)
      BY <1>1, <1>7, <3>1, <3>2, RefElsewhere
    <3> QED
      BY <2>1, <2>2, <2>3, <3>3
  <2>4. CASE x = s /\ Outstanding' = Outstanding \cup {io}
    <3>1. \A n \in {1, 2} : slot'[Acceptor] = s /\ n <= owe'[Acceptor]
                              <=> slot[Acceptor] = s /\ n <= owe[Acceptor]
      BY <1>2, <1>5, <1>7, <2>4
    <3>2. /\ References(x)' = References(x) \cup {<<io, 0>>}
          /\ <<io, 0>> \notin References(x)
      BY <1>1, <1>4, <1>5, <1>7, <2>4, <3>1, RefPosted
    <3>3. Cardinality(References(x)') = Cardinality(References(x)) + 1
      BY <2>1, <3>2, AddOne
    <3> QED
      BY <1>1, <1>2, <1>6, <2>1, <2>2, <2>4, <3>3 DEF PoolTypes
  <2>5. CASE x = s /\ Outstanding' = Outstanding
    <3>1. owe'[Acceptor] = 1 /\ slot'[Acceptor] = s /\ OnlyMoves(Acceptor)
      BY <1>5, <1>7, <2>5
    <3>2. /\ References(x)' = References(x) \cup {<<Acceptor, 1>>}
          /\ <<Acceptor, 1>> \notin References(x)
      <4>1. 1 \in {1, 2} /\ owe[Acceptor] \in 0 .. 2
        BY <1>2
      <4> QED
        BY <1>1, <1>2, <2>5, <3>1, <4>1, RefTaken
    <3>3. Cardinality(References(x)') = Cardinality(References(x)) + 1
      BY <2>1, <3>2, AddOne
    <3> QED
      BY <1>1, <1>2, <1>6, <2>1, <2>2, <2>5, <3>3 DEF PoolTypes
  <2> QED
    BY <1>7, <2>3, <2>4, <2>5
<1>14. Counted'
  BY <1>13 DEF Counted
<1>15. ClosingAlone'
  <2>1. \A u \in Threads : pc'[u] \in {"notify", "release"} =>
          /\ u # Acceptor /\ pc[u] \in {"notify", "release"} /\ slot[u] # s
    BY <1>7, <1>8
  <2>2. \A u \in Threads : pc[u] \in {"notify", "release"} => slot[u] # NoSlot
    BY <1>1 DEF ThreadTypes
  <2> QED
    BY <1>1, <1>4, <1>7, <1>8, <2>1, <2>2 DEF ClosingAlone, NoIo, Alone
<1>16. AcceptAlone'
  BY <1>7 DEF AcceptAlone
<1>17. Kept'
  <2> SUFFICES ASSUME NEW x \in Slots, InUse(x), ~ (pendingIo'[x] > 0)
               PROVE  Entering(x)' \/ \E u \in Threads : Closing(u, x)'
    BY <1>6, InUseSame DEF Kept
  <2>1. x # s /\ pendingIo'[x] = pendingIo[x]
    BY <1>13
  <2>2. PICK u \in Threads : Closing(u, x)
    BY <1>1, <2>1 DEF Kept, Entering, Accepting
  <2> QED
    BY <1>1, <1>8, <2>2 DEF Closing
<1>18. AbortOK'
  <2>1. \A u \in Threads : pc'[u] = "abort" => u # Acceptor /\ pc[u] = "abort"
    BY <1>7, <1>8
  <2>2. \A u \in Threads : \A x : Closing(u, x) => Closing(u, x)'
    BY <1>1, <1>8 DEF Closing
  <2>3. ASSUME NEW u \in Threads, pc[u] = "abort", slot[u] = s
        PROVE  pendingIo'[s] >= 2
    BY <1>1, <1>2, <1>6, <2>3, AbortCounts DEF PoolTypes
  <2>4. ASSUME NEW u \in Threads, pc[u] = "abort", slot[u] # s
        PROVE  /\ pendingIo'[slot[u]] = pendingIo[slot[u]]
               /\ ~ Entering(slot[u])
    <3>1. slot[u] \in Slots
      BY <2>4, AbortCounts
    <3> QED
      BY <1>13, <2>4, <3>1 DEF Entering, Accepting
  <2> QED
    BY <1>1, <1>8, <2>1, <2>2, <2>3, <2>4 DEF AbortOK
<1> QED
  BY <1>9, <1>10, <1>11, <1>12, <1>14, <1>15, <1>16, <1>17, <1>18 DEF SafeInv

-----------------------------------------------------------------------------
(* The completion workers.                                                 *)
LEMMA DequeueSafe == ASSUME IInv, NEW w \in Workers, Dequeue(w) PROVE SafeInv'
<1>1. /\ PoolTypes /\ ThreadTypes /\ ThreadsOK
      /\ FreeUnique /\ SlotGen /\ KnownIssued /\ UserOK /\ IoCurrent
      /\ RecvAlone /\ SendAlone /\ Counted
      /\ ClosingAlone /\ AcceptAlone /\ Kept /\ AbortOK
      /\ w \in Threads /\ w # Acceptor /\ pc[w] = "idle"
  BY UserParts, SessionPoolAssumption DEF Threads, Dequeue
<1>2. PICK io \in completed :
        /\ completed' = completed \ {io}
        /\ IF generation[io.slot] = io.gen
           THEN Begin(w, io.op, io.slot, 1)
           ELSE UNCHANGED threadVars
  BY DEF Dequeue
<1>3. PICK s : s = io.slot
  OBVIOUS
<1>4. /\ io \in Outstanding /\ s \in Slots /\ io.op \in {"recv", "send"}
      /\ io.gen = generation[s] /\ InUse(s) /\ io \notin posted
      /\ generation[s] \in Nat
  BY <1>1, <1>3 DEF IoCurrent, PoolTypes, IoType, Outstanding
<1>5. /\ OnlyMoves(w) /\ pc'[w] = io.op /\ slot'[w] = s
      /\ held'[w] = generation[s] /\ owe'[w] = 1
  <2>1. io.op \in PcLabels \ {"idle"} /\ 1 \in 0 .. 2
    BY <1>4 DEF PcLabels
  <2> QED
    BY <1>1, <1>2, <1>3, <1>4, <2>1, BeginEffect
<1>6. /\ UNCHANGED <<generation, sessionId, freeList, known>>
      /\ pendingIo' = pendingIo /\ sendInProgress' = sendInProgress
      /\ posted' = posted
  BY DEF Dequeue, sessionVars, gameVars
<1>7. Outstanding' = Outstanding \ {io}
  BY <1>2, <1>4, <1>6 DEF Outstanding
<1>8. /\ \A u \in Threads \ {w} :
           /\ pc'[u] = pc[u] /\ slot'[u] = slot[u] /\ held'[u] = held[u]
           /\ owe'[u] = owe[u]
      /\ slot[w] = NoSlot /\ owe[w] = 0 /\ s # NoSlot
  BY <1>1, <1>4, <1>5, SessionPoolAssumption
     DEF OnlyMoves, ThreadTypes, ThreadsOK, OweOK
<1>9. FreeUnique' /\ SlotGen' /\ KnownIssued' /\ UserOK'
  BY <1>1, <1>4, <1>5, <1>6, SlotsKept DEF Using
<1>10. IoCurrent'
  <2>1. \A x : InUse(x)' <=> InUse(x)
    BY <1>6, InUseSame
  <2> QED
    BY <1>1, <1>2, <1>6, <1>7, <2>1 DEF IoCurrent
<1>11. RecvAlone'
  <2>1. io.op = "recv" =>
          /\ \A o \in Outstanding' : ~ (o.slot = s /\ o.op = "recv")
          /\ \A u \in Threads : slot[u] = s => pc[u] \notin {"recv", "nextRecv"}
    <3>1. ASSUME NEW o \in Outstanding, o.slot = s, o.op = "recv", io.op = "recv"
          PROVE  o = io
      <4>1. o.gen = io.gen /\ o \in IoType /\ io \in IoType
        BY <1>1, <1>4, <3>1 DEF IoCurrent, PoolTypes, Outstanding
      <4> QED
        BY <1>3, <3>1, <4>1 DEF IoType
    <3> QED
      BY <1>1, <1>3, <1>4, <1>7, <3>1 DEF RecvAlone
  <2> QED
    BY <1>1, <1>4, <1>5, <1>7, <1>8, <2>1 DEF RecvAlone
<1>12. SendAlone'
  <2>1. io.op = "send" =>
          /\ \A o \in Outstanding' : ~ (o.slot = s /\ o.op = "send")
          /\ \A u \in Threads : slot[u] = s => pc[u] # "send"
          /\ sendInProgress[s]
    <3>1. ASSUME NEW o \in Outstanding, o.slot = s, o.op = "send", io.op = "send"
          PROVE  o = io
      <4>1. o.gen = io.gen /\ o \in IoType /\ io \in IoType
        BY <1>1, <1>4, <3>1 DEF IoCurrent, PoolTypes, Outstanding
      <4> QED
        BY <1>3, <3>1, <4>1 DEF IoType
    <3> QED
      BY <1>1, <1>3, <1>4, <1>7, <3>1 DEF SendAlone
  <2> QED
    BY <1>1, <1>4, <1>5, <1>6, <1>7, <1>8, <2>1 DEF SendAlone
<1>13. Counted'
  <2> SUFFICES ASSUME NEW x \in Slots
               PROVE  pendingIo'[x] = Cardinality(References(x)')
    BY DEF Counted
  <2>1. IsFiniteSet(References(x)) /\ pendingIo[x] = Cardinality(References(x))
    BY <1>1, RefFinite DEF Counted, IInv
  <2>2. CASE x # s
    <3>1. {o \in Outstanding' : o.slot = x} = {o \in Outstanding : o.slot = x}
      BY <1>3, <1>7, <2>2
    <3>2. \A n \in {1, 2} : slot'[w] = x /\ n <= owe'[w]
                              <=> slot[w] = x /\ n <= owe[w]
      BY <1>5, <1>8, <2>2, SessionPoolAssumption
    <3>3. References(x)' = References(x)
      BY <1>1, <1>5, <3>1, <3>2, RefElsewhere
    <3> QED
      BY <1>6, <2>1, <3>3
  <2>3. CASE x = s
    <3>1. \A u \in Threads, n \in {1, 2} :
            slot'[u] = s /\ n <= owe'[u]
              <=> (slot[u] = s /\ n <= owe[u]) \/ (u = w /\ n = 1)
      BY <1>5, <1>8
    <3>2. {r \in Threads \X {1, 2} : slot'[r[1]] = s /\ r[2] <= owe'[r[1]]}
            = {r \in Threads \X {1, 2} : slot[r[1]] = s /\ r[2] <= owe[r[1]]}
                \cup {<<w, 1>>}
      BY <1>1, <3>1
    <3>3. {o \in Outstanding' : o.slot = s} \X {0}
            = ({o \in Outstanding : o.slot = s} \X {0}) \ {<<io, 0>>}
      BY <1>7
    <3>4. References(x)' = (References(x) \ {<<io, 0>>}) \cup {<<w, 1>>}
      BY <2>3, <3>2, <3>3 DEF References
    <3>5. <<io, 0>> \in References(x) /\ <<w, 1>> \notin References(x)
      <4>1. 1 \in {1, 2} /\ ~ (slot[w] = x)
        BY <1>8, <2>3
      <4> QED
        BY <1>3, <1>4, <2>3, <4>1, RefIo, RefThread
    <3>6. Cardinality(References(x)') = Cardinality(References(x))
      BY <2>1, <3>4, <3>5, SwapOne
    <3> QED
      BY <1>6, <2>1, <3>6
  <2> QED
    BY <2>2, <2>3
<1>14. ClosingAlone'
  <2>1. \A u \in Threads : pc'[u] \in {"notify", "release"} =>
          /\ u # w /\ pc[u] \in {"notify", "release"} /\ slot[u] # s
    <3>1. \A u \in Threads : pc[u] \in {"notify", "release"} => slot[u] # s
      BY <1>1, <1>3, <1>4 DEF ClosingAlone, NoIo
    <3> QED
      BY <1>4, <1>5, <1>8, <3>1
  <2> QED
    BY <1>1, <1>5, <1>7, <1>8, <2>1 DEF ClosingAlone, NoIo, Alone
<1>15. AcceptAlone'
  <2>1. Acceptor \in Threads
    BY DEF Threads
  <2>2. pc[Acceptor] \in {"setup", "firstRecv"} => slot[Acceptor] # s
    BY <1>1, <1>3, <1>4 DEF AcceptAlone, NoIo
  <2> QED
    BY <1>1, <1>5, <1>6, <1>7, <1>8, <2>1, <2>2 DEF AcceptAlone, NoIo, Alone
<1>16. Kept'
  <2> SUFFICES ASSUME NEW x \in Slots, InUse(x), ~ (pendingIo[x] > 0)
               PROVE  Entering(x)' \/ \E u \in Threads : Closing(u, x)'
    BY <1>6, InUseSame DEF Kept
  <2>1. \A u \in Threads : Closing(u, x) => Closing(u, x)'
    BY <1>1, <1>8 DEF Closing
  <2>2. Entering(x) => Entering(x)'
    BY <1>1, <1>8 DEF Entering, Accepting, Threads
  <2> QED
    BY <1>1, <2>1, <2>2 DEF Kept
<1>17. AbortOK'
  <2>1. \A u \in Threads : pc'[u] = "abort" => u # w /\ pc[u] = "abort"
    BY <1>4, <1>5, <1>8
  <2>2. \A x : /\ Entering(x) => Entering(x)'
               /\ \A u \in Threads : Closing(u, x) => Closing(u, x)'
    BY <1>1, <1>8 DEF Closing, Entering, Accepting, Threads
  <2> QED
    BY <1>1, <1>6, <1>8, <2>1, <2>2 DEF AbortOK
<1> QED
  BY <1>9, <1>10, <1>11, <1>12, <1>13, <1>14, <1>15, <1>16, <1>17 DEF SafeInv

LEMMA RecvClosedSafe ==
  ASSUME IInv, NEW w \in Workers, RecvClosed(w) PROVE SafeInv'
<1>1. ThreadTypes /\ w \in Threads /\ w # Acceptor /\ pc[w] = "recv"
  BY UserParts, SessionPoolAssumption DEF Threads, RecvClosed
<1>2. /\ OnlyMoves(w) /\ pc'[w] = "cas" /\ slot'[w] = slot[w]
      /\ held'[w] = held[w] /\ owe'[w] = owe[w]
  BY <1>1, JumpEffect DEF RecvClosed, PcLabels
<1>3. /\ known' = known /\ sendInProgress' = sendInProgress
      /\ UNCHANGED <<generation, sessionId, freeList, pendingIo, posted, completed>>
  BY DEF RecvClosed, sessionVars, ioVars, gameVars
<1> QED
  BY <1>1, <1>2, <1>3, QuietStep DEF Using

LEMMA RecvDataSafe ==
  ASSUME IInv, NEW w \in Workers, RecvData(w) PROVE SafeInv'
<1>1. ThreadTypes /\ w \in Threads /\ w # Acceptor /\ pc[w] = "recv"
  BY UserParts, SessionPoolAssumption DEF Threads, RecvData
<1>2. PICK label \in {"nextRecv", "cas"} : Goto(w, label)
  BY DEF RecvData
<1>3. /\ OnlyMoves(w) /\ pc'[w] = label /\ slot'[w] = slot[w]
      /\ held'[w] = held[w] /\ owe'[w] = owe[w]
  <2>1. label \in PcLabels \ {"idle"}
    BY DEF PcLabels
  <2> QED
    BY <1>1, <1>2, <2>1, JumpEffect DEF RecvData
<1>4. /\ known' \subseteq known \cup {<<slot[w], sessionId[slot[w]]>>}
      /\ sendInProgress' = sendInProgress
      /\ UNCHANGED <<generation, sessionId, freeList, pendingIo, posted, completed>>
  BY DEF RecvData, ioVars
<1> QED
  BY <1>1, <1>3, <1>4, QuietStep DEF Using

LEMMA NextRecvSafe ==
  ASSUME IInv, NEW w \in Workers, NextRecv(w) PROVE SafeInv'
<1>1. /\ ThreadTypes /\ w \in Threads /\ w # Acceptor /\ pc[w] = "nextRecv"
      /\ owe[w] = 1
  BY UserParts, SessionPoolAssumption DEF Threads, NextRecv, ThreadsOK, OweOK
<1>2. /\ pendingIo' = [pendingIo EXCEPT ![slot[w]] = @ + 1]
      /\ sendInProgress' = sendInProgress
      /\ UNCHANGED <<generation, sessionId, freeList, completed, known>>
  BY DEF NextRecv, gameVars
<1>3. CASE RecvPosted(slot[w]) /\ Goto(w, "dec") /\ UNCHANGED owe
  <2>1. /\ OnlyMoves(w) /\ pc'[w] = "dec" /\ slot'[w] = slot[w]
        /\ held'[w] = held[w] /\ owe'[w] = 1
    BY <1>1, <1>3, JumpEffect DEF NextRecv, PcLabels
  <2>2. posted' = posted \cup {Io(slot[w], "recv")}
    BY <1>3 DEF RecvPosted
  <2> QED
    BY <1>1, <1>2, <2>1, <2>2, PostStep
<1>4. CASE /\ Goto(w, "cas") /\ owe' = [owe EXCEPT ![w] = @ + 1]
           /\ UNCHANGED posted
  <2>1. owe' = [owe EXCEPT ![w] = 2] /\ "cas" \in PcLabels \ {"idle"}
        /\ 2 \in 0 .. 2
    BY <1>1, <1>4 DEF PcLabels
  <2>2. /\ OnlyMoves(w) /\ pc'[w] = "cas" /\ slot'[w] = slot[w]
        /\ held'[w] = held[w] /\ owe'[w] = 2
    BY ZenonT(60), <1>1, <1>4, <2>1, GotoEffect DEF NextRecv
  <2>3. posted' = posted
    BY <1>4
  <2> QED
    BY <1>1, <1>2, <2>2, <2>3, PostStep
<1> QED
  BY <1>3, <1>4 DEF NextRecv

LEMMA PostSendSafe ==
  ASSUME IInv, NEW t \in Threads, t # Acceptor, NEW batches,
         pc[t] \in {"send", "enqueue"},
         pc[t] = "enqueue" => ~ sendInProgress[slot[t]],
         PostSend(t, slot[t], batches),
         UNCHANGED <<generation, sessionId, freeList, completed, known, slot,
                     held>>
  PROVE  SafeInv'
<1>1. PoolTypes /\ ThreadTypes /\ owe[t] = 1 /\ slot[t] \in Slots
  BY UserParts, HasSlot DEF ThreadsOK, OweOK, IInv
<1>2. pendingIo' = [pendingIo EXCEPT ![slot[t]] = @ + 1]
  BY DEF PostSend
<1>3. CASE /\ posted' = posted \cup {Io(slot[t], "send")}
           /\ sendInProgress' = [sendInProgress EXCEPT ![slot[t]] = TRUE]
           /\ Goto(t, "dec") /\ owe' = owe
  <2>1. /\ OnlyMoves(t) /\ pc'[t] = "dec" /\ slot'[t] = slot[t]
        /\ held'[t] = held[t] /\ owe'[t] = 1
    BY <1>1, <1>3, JumpEffect DEF PcLabels
  <2>2. \A x \in Slots \ {slot[t]} : sendInProgress'[x] = sendInProgress[x]
    BY <1>1, <1>3 DEF PoolTypes
  <2> QED
    BY <1>1, <1>2, <1>3, <2>1, <2>2, PostStep
<1>4. CASE /\ posted' = posted /\ Goto(t, "cas")
           /\ sendInProgress' = [sendInProgress EXCEPT ![slot[t]] = FALSE]
           /\ owe' = [owe EXCEPT ![t] = @ + 1]
  <2>1. owe' = [owe EXCEPT ![t] = 2] /\ "cas" \in PcLabels \ {"idle"}
        /\ 2 \in 0 .. 2
    BY <1>1, <1>4 DEF PcLabels
  <2>2. /\ OnlyMoves(t) /\ pc'[t] = "cas" /\ slot'[t] = slot[t]
        /\ held'[t] = held[t] /\ owe'[t] = 2
    <3>1. pc[t] # "idle" /\ UNCHANGED <<slot, held>>
      OBVIOUS
    <3>2. ThreadTypes /\ Goto(t, "cas")
      BY <1>1, <1>4
    <3> QED
      BY ONLY <2>1, <3>1, <3>2, t \in Threads, GotoEffect
  <2>3. \A x \in Slots \ {slot[t]} : sendInProgress'[x] = sendInProgress[x]
    BY <1>1, <1>4 DEF PoolTypes
  <2>4. "send" \in {"recv", "send"} /\ ("send" = "recv" <=> pc[t] = "nextRecv")
    OBVIOUS
  <2> QED
    BY <1>1, <1>2, <1>4, <2>2, <2>3, <2>4, PostStep
<1> QED
  BY <1>3, <1>4 DEF PostSend

LEMMA SendFailedSafe ==
  ASSUME IInv, NEW w \in Workers, SendFailed(w) PROVE SafeInv'
<1>1. ThreadTypes /\ w \in Threads /\ w # Acceptor /\ pc[w] = "send"
  BY UserParts, SessionPoolAssumption DEF Threads, SendFailed
<1>2. /\ OnlyMoves(w) /\ pc'[w] = "cas" /\ slot'[w] = slot[w]
      /\ held'[w] = held[w] /\ owe'[w] = owe[w]
  BY <1>1, JumpEffect DEF SendFailed, PcLabels
<1>3. /\ known' = known
      /\ sendInProgress' = [sendInProgress EXCEPT ![slot[w]] = FALSE]
      /\ UNCHANGED <<generation, sessionId, freeList, pendingIo, posted, completed>>
  BY DEF SendFailed, ioVars, gameVars
<1> QED
  BY <1>1, <1>2, <1>3, QuietStep DEF Using

LEMMA SendDoneSafe ==
  ASSUME IInv, NEW w \in Workers, SendDone(w) PROVE SafeInv'
<1> DEFINE left == queued[slot[w]] - inFlight[slot[w]]
<1>1. ThreadTypes /\ w \in Threads /\ w # Acceptor /\ pc[w] = "send"
  BY UserParts, SessionPoolAssumption DEF Threads, SendDone
<1>2. UNCHANGED <<generation, sessionId, freeList, completed, known, slot, held>>
  BY DEF SendDone, gameVars
<1>3. CASE PostSend(w, slot[w], left)
  BY <1>1, <1>2, <1>3, PostSendSafe
<1>4. CASE /\ sendInProgress' = [sendInProgress EXCEPT ![slot[w]] = FALSE]
           /\ Goto(w, "dec") /\ UNCHANGED <<pendingIo, posted, owe>>
  <2>1. /\ OnlyMoves(w) /\ pc'[w] = "dec" /\ slot'[w] = slot[w]
        /\ held'[w] = held[w] /\ owe'[w] = owe[w]
    BY <1>1, <1>2, <1>4, JumpEffect DEF PcLabels
  <2> QED
    BY <1>1, <1>2, <1>4, <2>1, QuietStep DEF Using
<1> QED
  BY <1>3, <1>4 DEF SendDone

-----------------------------------------------------------------------------
(* The threads that reach a session by handle.                             *)
LEMMA LeaseSafe ==
  ASSUME IInv, NEW t \in Leasers, pc[t] \in {"idle", "scanned"},
         NEW s \in Slots, generation[s] = sessionId[s],
         NEW label \in {"sendTo", "cas", "recheck"},
         FindAndLease(t, s, sessionId[s], label),
         UNCHANGED <<generation, sessionId, sendInProgress, freeList, posted,
                     completed, known>>
  PROVE  SafeInv'
<1>1. /\ PoolTypes /\ ThreadTypes /\ ThreadsOK
      /\ FreeUnique /\ SlotGen /\ KnownIssued /\ UserOK /\ IoCurrent
      /\ RecvAlone /\ SendAlone /\ Counted
      /\ ClosingAlone /\ AcceptAlone /\ Kept /\ AbortOK
      /\ t \in Threads /\ t # Acceptor
  BY UserParts, SessionPoolAssumption DEF Threads
<1>2. /\ \A u \in Threads : pc[u] # "abort"
      /\ pendingIo' = [pendingIo EXCEPT ![s] = @ + 1]
  BY DEF FindAndLease, PoolLockFree
<1>3. PICK lab : lab = IF pendingIo[s] = 0 THEN "abort" ELSE label
  OBVIOUS
<1>4. /\ OnlyMoves(t) /\ pc'[t] = lab /\ slot'[t] = s
      /\ held'[t] = generation[s] /\ owe'[t] = 1
  <2>1. /\ Begin(t, lab, s, 1) /\ lab \in PcLabels \ {"idle"}
        /\ 1 \in 0 .. 2 /\ generation[s] \in Nat
    BY <1>1, <1>3 DEF FindAndLease, PcLabels, PoolTypes
  <2> QED
    BY <1>1, <2>1, BeginEffect
<1>5. /\ InUse(s) /\ s # NoSlot /\ owe[t] = 0
      /\ pc[t] \notin {"notify", "release"}
  <2>1. InUse(s) /\ s # NoSlot
    BY <1>1, SessionPoolAssumption DEF SlotGen
  <2>2. owe[t] = 0
    BY <1>1 DEF ThreadsOK, OweOK
  <2> QED
    BY <2>1, <2>2
<1>6. \A u \in Threads \ {t} :
        /\ pc'[u] = pc[u] /\ slot'[u] = slot[u] /\ held'[u] = held[u]
        /\ owe'[u] = owe[u]
  BY <1>4 DEF OnlyMoves
<1>7. Outstanding' = Outstanding /\ \A x : InUse(x)' <=> InUse(x)
  BY InUseSame DEF Outstanding
<1>8. lab = "abort" \/ (~ Entering(s) /\ \A u \in Threads : ~ Closing(u, s))
  <2>1. ASSUME NEW u \in Threads, slot[u] = s, pc[u] # "abort", owe[u] = 0,
               NoIo(s), Alone(u, {"scanned", "abort", "acceptRelease"})
        PROVE  pendingIo[s] = 0
    <3>1. \A v \in Threads \ {u} :
            slot[v] = s => pc[v] \in {"scanned", "acceptRelease"}
      BY <1>2, <2>1 DEF Alone
    <3>2. \A v \in Threads : slot[v] = s => owe[v] = 0
      BY <1>1, <2>1, <3>1 DEF ThreadsOK, OweOK
    <3> QED
      BY <1>1, <2>1, <3>2, NoReferences DEF IInv
  <2>2. ASSUME NEW u \in Threads, Closing(u, s) PROVE pendingIo[s] = 0
    BY <1>1, <2>1, <2>2 DEF ClosingAlone, Closing
  <2>3. ASSUME Entering(s) PROVE pendingIo[s] = 0
    <3>1. Acceptor \in Threads /\ owe[Acceptor] = 0
      BY <1>1, <2>3 DEF Entering, ThreadsOK, OweOK, Threads
    <3> QED
      BY <1>1, <2>1, <2>3, <3>1 DEF Entering, Accepting, AcceptAlone, Alone
  <2> QED
    BY <1>3, <2>2, <2>3
<1>9. FreeUnique' /\ SlotGen' /\ KnownIssued' /\ UserOK'
  BY <1>1, <1>3, <1>4, <1>5, SlotsKept DEF Using
<1>10. IoCurrent'
  BY <1>1, <1>7 DEF IoCurrent
<1>11. RecvAlone' /\ SendAlone'
  <2>1. pc'[t] \notin {"recv", "nextRecv", "send"}
    BY <1>3, <1>4
  <2>2. RecvAlone'
    BY <1>1, <1>6, <1>7, <2>1 DEF RecvAlone
  <2>3. SendAlone'
    BY <1>1, <1>6, <1>7, <2>1 DEF SendAlone
  <2> QED
    BY <2>2, <2>3
<1>12. ASSUME NEW x \in Slots
       PROVE  /\ pendingIo'[x] = Cardinality(References(x)')
              /\ x # s => pendingIo'[x] = pendingIo[x]
              /\ pendingIo'[s] > 0
  <2>1. /\ IsFiniteSet(References(x)) /\ pendingIo[x] = Cardinality(References(x))
        /\ Cardinality(References(s)) \in Nat /\ pendingIo[x] \in Int
        /\ pendingIo[s] = Cardinality(References(s))
    BY <1>1, RefFinite DEF Counted, IInv, PoolTypes
  <2>2. pendingIo'[s] > 0 /\ (x # s => pendingIo'[x] = pendingIo[x])
    BY <1>1, <1>2, <2>1 DEF PoolTypes
  <2>3. CASE x # s
    <3>1. \A n \in {1, 2} : slot'[t] = x /\ n <= owe'[t]
                              <=> slot[t] = x /\ n <= owe[t]
      BY <1>4, <1>5, <2>3
    <3>2. References(x)' = References(x)
      BY <1>1, <1>4, <1>7, <3>1, RefElsewhere
    <3> QED
      BY <2>1, <2>2, <2>3, <3>2
  <2>4. CASE x = s
    <3>1. 1 \in {1, 2} /\ owe[t] \in 0 .. 2
      BY <1>5
    <3>2. /\ References(x)' = References(x) \cup {<<t, 1>>}
          /\ <<t, 1>> \notin References(x)
      BY <1>1, <1>4, <1>5, <1>7, <2>4, <3>1, RefTaken
    <3>3. Cardinality(References(x)') = Cardinality(References(x)) + 1
      BY <2>1, <3>2, AddOne
    <3> QED
      BY <1>1, <1>2, <2>1, <2>2, <2>4, <3>3 DEF PoolTypes
  <2> QED
    BY <2>3, <2>4
<1>13. Counted'
  BY <1>12 DEF Counted
<1>14. ClosingAlone'
  <2>1. pc'[t] \notin {"notify", "release"}
    BY <1>3, <1>4
  <2>2. \A u \in Threads : pc[u] \in {"notify", "release"} /\ slot[u] = s
          => lab = "abort"
    BY <1>8 DEF Closing
  <2> QED
    BY <1>1, <1>4, <1>6, <1>7, <2>1, <2>2 DEF ClosingAlone, NoIo, Alone
<1>15. AcceptAlone'
  <2>1. Acceptor \in Threads
    BY DEF Threads
  <2>2. pc[Acceptor] \in {"setup", "firstRecv"} /\ slot[Acceptor] = s
          => lab = "abort"
    BY <1>8 DEF Entering, Accepting
  <2> QED
    BY <1>1, <1>4, <1>6, <1>7, <2>1, <2>2 DEF AcceptAlone, NoIo, Alone
<1>16. \A x : /\ Entering(x) => Entering(x)'
             /\ \A u \in Threads : Closing(u, x) => Closing(u, x)'
  BY <1>1, <1>5, <1>6 DEF Closing, Entering, Accepting, Threads
<1>17. Kept'
  <2> SUFFICES ASSUME NEW x \in Slots, InUse(x), ~ (pendingIo'[x] > 0)
               PROVE  Entering(x)' \/ \E u \in Threads : Closing(u, x)'
    BY <1>7 DEF Kept
  <2>1. x # s /\ pendingIo'[x] = pendingIo[x]
    BY <1>12
  <2> QED
    BY <1>1, <1>16, <2>1 DEF Kept
<1>18. AbortOK'
  <2>1. \A u \in Threads : pc'[u] = "abort" => u = t
    BY <1>2, <1>6
  <2>2. ASSUME lab = "abort"
        PROVE  Entering(s) \/ \E u \in Threads : Closing(u, s)
    <3>1. pendingIo[s] = 0
      BY <1>3, <2>2
    <3> QED
      BY <1>1, <1>5, <3>1 DEF Kept
  <2> QED
    BY <1>4, <1>16, <2>1, <2>2 DEF AbortOK
<1> QED
  BY <1>9, <1>10, <1>11, <1>13, <1>14, <1>15, <1>17, <1>18 DEF SafeInv

LEMMA CallerLeaseSafe ==
  ASSUME IInv, NEW c \in Callers, Lease(c) PROVE SafeInv'
<1>1. PICK h \in known, label \in {"sendTo", "cas"} :
        FindAndLease(c, h[1], h[2], label)
  BY DEF Lease
<1>2. PoolTypes /\ SlotGen /\ KnownIssued /\ h \in Handles
  BY UserParts DEF PoolTypes
<1>3. PICK s \in Slots : s = h[1] /\ h = <<s, h[2]>> /\ h[2] \in Nat
  BY <1>2, SessionPoolAssumption DEF Handles
<1>4. generation[s] = h[2]
  BY <1>1, <1>3 DEF FindAndLease
<1>5. generation[s] = sessionId[s] /\ InUse(s)
  BY <1>2, <1>3, <1>4 DEF SlotGen, KnownIssued, PoolTypes
<1>7. /\ UNCHANGED <<generation, sessionId, sendInProgress, freeList, posted,
                     completed, known>>
      /\ pc[c] = "idle" /\ c \in Leasers
      /\ label \in {"sendTo", "cas", "recheck"}
      /\ FindAndLease(c, s, sessionId[s], label)
  BY <1>1, <1>3, <1>4, <1>5 DEF Lease, ioVars, gameVars, Leasers
<1> QED
  BY <1>5, <1>7, LeaseSafe

LEMMA SendCheckSafe ==
  ASSUME IInv, NEW c \in Callers, SendCheck(c) PROVE SafeInv'
<1>1. ThreadTypes /\ c \in Threads /\ c # Acceptor /\ pc[c] = "sendTo"
  BY UserParts, SessionPoolAssumption DEF Threads, Leasers, SendCheck
<1>2. PICK label \in {"dec", "enqueue"} : Goto(c, label)
  BY DEF SendCheck
<1>3. /\ OnlyMoves(c) /\ pc'[c] = label /\ slot'[c] = slot[c]
      /\ held'[c] = held[c] /\ owe'[c] = owe[c]
  <2>1. label \in PcLabels \ {"idle"}
    BY DEF PcLabels
  <2> QED
    BY <1>1, <1>2, <2>1, JumpEffect DEF SendCheck
<1>4. /\ known' = known /\ sendInProgress' = sendInProgress
      /\ UNCHANGED <<generation, sessionId, freeList, pendingIo, posted, completed>>
  BY DEF SendCheck, sessionVars, ioVars, gameVars
<1> QED
  BY <1>1, <1>3, <1>4, QuietStep DEF Using

LEMMA SendEnqueueSafe ==
  ASSUME IInv, NEW c \in Callers, SendEnqueue(c) PROVE SafeInv'
<1>1. ThreadTypes /\ c \in Threads /\ c # Acceptor /\ pc[c] = "enqueue"
  BY UserParts, SessionPoolAssumption DEF Threads, Leasers, SendEnqueue
<1>2. /\ UNCHANGED <<generation, sessionId, freeList, completed, known, slot, held>>
  BY DEF SendEnqueue, gameVars
<1>3. CASE MayPost(slot[c]) /\ PostSend(c, slot[c], queued[slot[c]] + 1)
  BY <1>1, <1>2, <1>3, PostSendSafe DEF MayPost
<1>4. ASSUME NEW label \in {"dec", "cas"}, Goto(c, label), owe' = owe,
             UNCHANGED <<pendingIo, sendInProgress, posted>>
      PROVE  SafeInv'
  <2>1. /\ OnlyMoves(c) /\ pc'[c] = label /\ slot'[c] = slot[c]
        /\ held'[c] = held[c] /\ owe'[c] = owe[c]
    <3>1. label \in PcLabels \ {"idle"}
      BY DEF PcLabels
    <3> QED
      BY <1>1, <1>2, <1>4, <3>1, JumpEffect
  <2> QED
    BY <1>1, <1>2, <1>4, <2>1, QuietStep DEF Using
<1> QED
  BY <1>3, <1>4 DEF SendEnqueue, DropBatch

-----------------------------------------------------------------------------
(* The sweep.                                                              *)

(* A thread with no count moves between idle and a slot it only looked at. *)
LEMMA LookStep ==
  ASSUME IInv, NEW t \in Threads, OnlyMoves(t), t # Acceptor,
         owe[t] = 0, owe'[t] = 0, ThreadTypes',
         pc[t] \in {"idle", "scanned"},
         pc'[t] \in {"idle", "scanned"},
         UNCHANGED <<generation, sessionId, freeList, pendingIo, posted,
                     completed, known, sendInProgress>>
  PROVE  SafeInv'
<1>1. /\ PoolTypes /\ ThreadTypes /\ ThreadsOK
      /\ FreeUnique /\ SlotGen /\ KnownIssued /\ UserOK /\ IoCurrent
      /\ RecvAlone /\ SendAlone /\ Counted
      /\ ClosingAlone /\ AcceptAlone /\ Kept /\ AbortOK
  BY UserParts
<1>2. \A u \in Threads \ {t} :
        /\ pc'[u] = pc[u] /\ slot'[u] = slot[u] /\ held'[u] = held[u]
        /\ owe'[u] = owe[u]
  BY DEF OnlyMoves
<1>3. Outstanding' = Outstanding /\ \A x : InUse(x)' <=> InUse(x)
  BY InUseSame DEF Outstanding
<1>4. FreeUnique' /\ SlotGen' /\ KnownIssued' /\ UserOK'
  BY SlotsKept DEF Using
<1>5. IoCurrent'
  BY <1>1, <1>3 DEF IoCurrent
<1>6. RecvAlone'
  BY <1>1, <1>2, <1>3 DEF RecvAlone
<1>7. SendAlone'
  BY <1>1, <1>2, <1>3 DEF SendAlone
<1>8. Counted'
  <2>1. ASSUME NEW x \in Slots PROVE References(x)' = References(x)
    BY <1>3, RefElsewhere
  <2> QED
    BY <1>1, <2>1 DEF Counted
<1>3a. \A u \in Threads : pc'[u] # "idle" => slot'[u] # NoSlot
  BY DEF ThreadTypes
<1>3b. pc'[t] = "idle" => slot'[t] = NoSlot
  BY DEF ThreadTypes
<1>9. ClosingAlone'
  <2>1. \A u \in Threads : pc'[u] \in {"notify", "release"} =>
          /\ u # t /\ pc[u] \in {"notify", "release"} /\ slot'[u] # NoSlot
    BY <1>2, <1>3a
  <2> QED
    BY <1>1, <1>2, <1>3, <1>3b, <2>1 DEF ClosingAlone, NoIo, Alone
<1>10. AcceptAlone'
  <2>1. Acceptor \in Threads
    BY DEF Threads
  <2>2. pc'[Acceptor] # "idle" => slot'[Acceptor] # NoSlot
    BY <1>3a, <2>1
  <2> QED
    BY <1>1, <1>2, <1>3, <1>3b, <2>1, <2>2 DEF AcceptAlone, NoIo, Alone
<1>11. \A x : /\ Entering(x) => Entering(x)'
             /\ \A u \in Threads : Closing(u, x) => Closing(u, x)'
  BY <1>2 DEF Closing, Entering, Accepting, Threads
<1>12. Kept'
  BY <1>1, <1>3, <1>11 DEF Kept
<1>13. AbortOK'
  BY <1>1, <1>2, <1>11 DEF AbortOK
<1> QED
  BY <1>4, <1>5, <1>6, <1>7, <1>8, <1>9, <1>10, <1>12, <1>13 DEF SafeInv

LEMMA ReapScanSafe ==
  ASSUME IInv, NEW r \in Reapers, ReapScan(r) PROVE SafeInv'
<1>1. PICK s \in Slots : Begin(r, "scanned", s, 0)
  BY DEF ReapScan
<1>2. /\ ThreadTypes /\ r \in Threads /\ r # Acceptor /\ generation[s] \in Nat
      /\ pc[r] = "idle" /\ owe[r] = 0
  BY UserParts, SessionPoolAssumption
     DEF Threads, Leasers, PoolTypes, ReapScan, ThreadsOK, OweOK
<1>3. ThreadTypes' /\ OnlyMoves(r) /\ pc'[r] = "scanned" /\ owe'[r] = 0
  <2>1. "scanned" \in PcLabels \ {"idle"} /\ 0 \in 0 .. 2
    BY DEF PcLabels
  <2> QED
    BY <1>1, <1>2, <2>1, BeginEffect
<1>4. UNCHANGED <<generation, sessionId, freeList, pendingIo, posted,
                  completed, known, sendInProgress>>
  BY DEF ReapScan, sessionVars, ioVars, gameVars
<1> QED
  BY <1>2, <1>3, <1>4, LookStep

LEMMA ReapLeaseSafe ==
  ASSUME IInv, NEW r \in Reapers, ReapLease(r) PROVE SafeInv'
<1>1. /\ ThreadTypes /\ r \in Threads /\ r # Acceptor /\ r \in Leasers
      /\ pc[r] = "scanned" /\ owe[r] = 0 /\ slot[r] \in Slots
  BY UserParts, SessionPoolAssumption, HasSlot
     DEF Threads, Leasers, ReapLease, ThreadsOK, OweOK, IInv
<1>2. UNCHANGED <<generation, sessionId, freeList, posted,
                  completed, known, sendInProgress>>
  BY DEF ReapLease, ioVars, gameVars
<1>3. CASE FindAndLease(r, slot[r], sessionId[slot[r]], "recheck")
  <2>1. generation[slot[r]] = sessionId[slot[r]]
    BY <1>3 DEF FindAndLease
  <2> QED
    BY <1>1, <1>2, <1>3, <2>1, LeaseSafe
<1>4. CASE Finish(r) /\ UNCHANGED pendingIo
  <2>1. ThreadTypes' /\ OnlyMoves(r) /\ pc'[r] = "idle" /\ owe'[r] = 0
    BY <1>1, <1>4, FinishEffect
  <2> QED
    BY <1>1, <1>2, <1>4, <2>1, LookStep
<1> QED
  BY <1>3, <1>4 DEF ReapLease

LEMMA ReapRecheckSafe ==
  ASSUME IInv, NEW r \in Reapers, ReapRecheck(r) PROVE SafeInv'
<1>1. ThreadTypes /\ r \in Threads /\ r # Acceptor /\ pc[r] = "recheck"
  BY UserParts, SessionPoolAssumption DEF Threads, Leasers, ReapRecheck
<1>2. PICK label \in {"dec", "cas"} : Goto(r, label)
  BY DEF ReapRecheck
<1>3. /\ OnlyMoves(r) /\ pc'[r] = label /\ slot'[r] = slot[r]
      /\ held'[r] = held[r] /\ owe'[r] = owe[r]
  <2>1. label \in PcLabels \ {"idle"}
    BY DEF PcLabels
  <2> QED
    BY <1>1, <1>2, <2>1, JumpEffect DEF ReapRecheck
<1>4. /\ known' = known /\ sendInProgress' = sendInProgress
      /\ UNCHANGED <<generation, sessionId, freeList, pendingIo, posted, completed>>
  BY DEF ReapRecheck, sessionVars, ioVars, gameVars
<1> QED
  BY <1>1, <1>3, <1>4, QuietStep DEF Using

-----------------------------------------------------------------------------
(* Giving a count back: an aborted lease, and DecPendingIo.                *)
LEMMA GiveBack ==
  ASSUME IInv, NEW t \in Threads, OnlyMoves(t), ThreadTypes',
         pc[t] \in {"abort", "dec"}, owe'[t] = owe[t] - 1,
         pendingIo' = [pendingIo EXCEPT ![slot[t]] = @ - 1],
         UNCHANGED <<generation, sessionId, sendInProgress, freeList, posted,
                     completed, known>>,
         pc'[t] \in {"idle", "dec", "notify", "acceptRelease"},
         pc'[t] \in {"idle", "acceptRelease"} => owe[t] = 1,
         pc'[t] = "dec" => owe[t] = 2,
         pc'[t] = "acceptRelease" => pc[t] = "dec",
         pc'[t] = "notify" => pc[t] = "dec" /\ pendingIo[slot[t]] = 1,
         pc'[t] # "idle" => slot'[t] = slot[t] /\ held'[t] = held[t],
         pc[t] = "dec" /\ pc'[t] # "notify"
           => pendingIo[slot[t]] # 1 /\ ~ LeavesToAborted(t)
  PROVE  SafeInv'
<1>0. PICK s : s = slot[t]
  OBVIOUS
<1>1. /\ PoolTypes /\ ThreadTypes /\ ThreadsOK
      /\ FreeUnique /\ SlotGen /\ KnownIssued /\ UserOK /\ IoCurrent
      /\ RecvAlone /\ SendAlone /\ Counted
      /\ ClosingAlone /\ AcceptAlone /\ Kept /\ AbortOK
  BY UserParts
<1>2. s \in Slots /\ s # NoSlot /\ owe[t] \in {1, 2} /\ (pc[t] = "abort" => owe[t] = 1)
  BY <1>0, <1>1, HasSlot, SessionPoolAssumption DEF IInv, ThreadsOK, OweOK
<1>3. \A u \in Threads \ {t} :
        /\ pc'[u] = pc[u] /\ slot'[u] = slot[u] /\ held'[u] = held[u]
        /\ owe'[u] = owe[u]
  BY DEF OnlyMoves
<1>4. Outstanding' = Outstanding /\ \A x : InUse(x)' <=> InUse(x)
  BY InUseSame DEF Outstanding
<1>5. slot'[t] = IF pc'[t] = "idle" THEN NoSlot ELSE s
  BY <1>0 DEF ThreadTypes
<1>6. pc'[t] # "idle" => pc[t] = "dec"
  BY <1>2
<1>7. pc[t] = "dec" =>
        /\ held[t] = generation[s] /\ InUse(s)
        /\ \A u \in Threads : ~ Closing(u, s)
        /\ ~ Entering(s)
  BY <1>0, <1>1, UserExcludes DEF UserOK, Using
<1>8. \A u \in Threads : pc[u] # "idle" => slot[u] # NoSlot
  BY <1>1 DEF ThreadTypes
<1>9. FreeUnique' /\ SlotGen' /\ KnownIssued' /\ UserOK'
  BY <1>0, <1>6, <1>7, SlotsKept DEF Using
<1>10. IoCurrent'
  BY <1>1, <1>4 DEF IoCurrent
<1>11. RecvAlone' /\ SendAlone'
  <2>1. RecvAlone'
    BY <1>1, <1>3, <1>4 DEF RecvAlone
  <2>2. SendAlone'
    BY <1>1, <1>3, <1>4 DEF SendAlone
  <2> QED
    BY <2>1, <2>2
<1>12. ASSUME NEW x \in Slots PROVE pendingIo'[x] = Cardinality(References(x)')
  <2>1. IsFiniteSet(References(x)) /\ pendingIo[x] = Cardinality(References(x))
        /\ Cardinality(References(x)) \in Nat
    BY <1>1, RefFinite DEF Counted, IInv
  <2>2. CASE x # s
    <3>1. \A n \in {1, 2} : slot'[t] = x /\ n <= owe'[t]
                              <=> slot[t] = x /\ n <= owe[t]
      BY <1>0, <1>5, <2>2, SessionPoolAssumption
    <3>2. References(x)' = References(x)
      BY <1>4, <3>1, RefElsewhere
    <3> QED
      BY <1>0, <1>1, <2>1, <2>2, <3>2 DEF PoolTypes
  <2>3. CASE x = s
    <3>1. /\ References(x)' = References(x) \ {<<t, owe[t]>>}
          /\ <<t, owe[t]>> \in References(x)
      <4>1. slot[t] = x /\ (owe[t] = 2 => slot'[t] = x)
        BY <1>0, <1>2, <1>5, <2>3
      <4> QED
        BY <1>2, <1>4, <4>1, RefReturned
    <3>2. Cardinality(References(x)') = Cardinality(References(x)) - 1
      BY <2>1, <3>1, DropOne
    <3> QED
      BY <1>0, <1>1, <1>2, <2>1, <2>3, <3>2 DEF PoolTypes
  <2> QED
    BY <2>2, <2>3
<1>13. Counted'
  BY <1>12 DEF Counted
<1>14. pc'[t] = "notify" =>
         /\ owe'[t] = 0 /\ NoIo(s)
         /\ \A u \in Threads \ {t} : slot[u] = s => owe[u] = 0
  <2> SUFFICES ASSUME pc'[t] = "notify"
               PROVE  /\ owe'[t] = 0 /\ NoIo(s)
                      /\ \A u \in Threads \ {t} : slot[u] = s => owe[u] = 0
    OBVIOUS
  <2>1. /\ IsFiniteSet(References(s)) /\ Cardinality(References(s)) = 1
        /\ <<t, 1>> \in References(s)
    <3>1. 1 \in {1, 2} /\ slot[t] = s /\ 1 <= owe[t]
      BY <1>0, <1>2
    <3>2. <<t, 1>> \in References(s)
      BY <3>1, RefThread
    <3> QED
      BY <1>0, <1>1, <1>2, <3>2, RefFinite DEF Counted, IInv
  <2>2. \A r \in References(s) : r = <<t, 1>>
    <3> SUFFICES ASSUME NEW r \in References(s), r # <<t, 1>> PROVE FALSE
      OBVIOUS
    <3>1. PICK B : B = References(s) \ {<<t, 1>>}
      OBVIOUS
    <3>2. IsFiniteSet(B) /\ Cardinality(B) = Cardinality(References(s)) - 1
      BY <2>1, <3>1, FS_RemoveElement
    <3>3. Cardinality(B) = 0
      BY <2>1, <3>2
    <3>4. B = {}
      BY <3>2, <3>3, FS_EmptySet
    <3> QED
      BY <3>1, <3>4
  <2>3. owe[t] = 1
    <3> SUFFICES ASSUME owe[t] = 2 PROVE FALSE
      BY <1>2
    <3>1. 2 \in {1, 2} /\ 2 <= owe[t]
      OBVIOUS
    <3>2. <<t, 2>> \in References(s)
      BY <1>0, <3>1, RefThread
    <3> QED
      BY <2>2, <3>2
  <2>4. NoIo(s)
    <3> SUFFICES ASSUME NEW io \in Outstanding, io.slot = s PROVE FALSE
      BY DEF NoIo
    <3>1. <<io, 0>> \in References(s)
      BY RefIo
    <3> QED
      BY <2>2, <3>1
  <2>5. ASSUME NEW u \in Threads \ {t}, slot[u] = s PROVE owe[u] = 0
    <3> SUFFICES ASSUME owe[u] # 0 PROVE FALSE
      OBVIOUS
    <3>1. owe[u] \in 0 .. 2
      BY <1>1 DEF ThreadTypes
    <3>2. 1 \in {1, 2} /\ 1 <= owe[u]
      BY <3>1
    <3>3. <<u, 1>> \in References(s)
      BY <2>5, <3>2, RefThread
    <3> QED
      BY <2>2, <3>3
  <2> QED
    BY <2>3, <2>4, <2>5
<1>15. pc'[t] = "notify" =>
         \A u \in Threads \ {t} :
           slot[u] = s => pc[u] \in {"scanned", "acceptRelease"}
  <2> SUFFICES ASSUME pc'[t] = "notify", NEW u \in Threads \ {t}, slot[u] = s
               PROVE  pc[u] \in {"scanned", "acceptRelease"}
    OBVIOUS
  <2>1. owe[u] = 0 /\ pc[u] # "idle" /\ pc[u] \in PcLabels
    BY <1>1, <1>2, <1>14 DEF ThreadTypes
  <2>2. pc[u] \in {"setup", "firstRecv", "acceptRelease", "scanned", "notify",
                   "release"}
    <3>1. OweOK(u)
      BY <1>1 DEF ThreadsOK
    <3> QED
      BY <2>1, <3>1 DEF OweOK, PcLabels
  <2>3. pc[u] \notin {"notify", "release"}
    BY <1>7 DEF Closing
  <2>4. pc[u] \notin {"setup", "firstRecv"}
    <3> SUFFICES ASSUME pc[u] \in {"setup", "firstRecv"} PROVE FALSE
      OBVIOUS
    <3>1. RoleOK(u)
      BY <1>1 DEF ThreadsOK
    <3>2. u = Acceptor
      BY <3>1 DEF RoleOK, Teardown
    <3> QED
      BY <1>7, <3>2 DEF Entering, Accepting
  <2> QED
    BY <2>2, <2>3, <2>4
<1>16. ClosingAlone'
  <2> SUFFICES ASSUME NEW u \in Threads, pc'[u] \in {"notify", "release"}
               PROVE  owe'[u] = 0 /\ NoIo(slot[u])' /\ Alone(u, {"scanned", "abort", "acceptRelease"})'
    BY DEF ClosingAlone
  <2>1. CASE u = t
    BY <1>3, <1>4, <1>5, <1>14, <1>15, <2>1 DEF NoIo, Alone
  <2>2. CASE u # t
    <3>1. /\ pc[u] \in {"notify", "release"} /\ slot'[u] = slot[u]
          /\ owe[u] = 0 /\ NoIo(slot[u]) /\ Alone(u, {"scanned", "abort", "acceptRelease"})
      BY <1>1, <1>3, <2>2 DEF ClosingAlone
    <3>2. slot'[t] # slot[u]
      BY <1>5, <1>6, <1>7, <1>8, <3>1 DEF Closing
    <3> QED
      BY <1>3, <1>4, <2>2, <3>1, <3>2 DEF NoIo, Alone
  <2> QED
    BY <2>1, <2>2
<1>17. AcceptAlone'
  <2>1. Acceptor \in Threads /\ pc[t] \notin {"setup", "firstRecv"}
    BY DEF Threads
  <2>2. pc'[Acceptor] \in {"setup", "firstRecv"} =>
          /\ Acceptor # t /\ pc[Acceptor] \in {"setup", "firstRecv"}
          /\ slot'[Acceptor] = slot[Acceptor] /\ slot[Acceptor] # NoSlot
          /\ slot'[t] # slot[Acceptor]
    <3> SUFFICES ASSUME pc'[Acceptor] \in {"setup", "firstRecv"}
                 PROVE  /\ Acceptor # t /\ pc[Acceptor] \in {"setup", "firstRecv"}
                        /\ slot'[Acceptor] = slot[Acceptor]
                        /\ slot[Acceptor] # NoSlot /\ slot'[t] # slot[Acceptor]
      OBVIOUS
    <3>1. /\ Acceptor # t /\ pc[Acceptor] \in {"setup", "firstRecv"}
          /\ slot'[Acceptor] = slot[Acceptor] /\ slot[Acceptor] # NoSlot
      BY <1>3, <1>8, <2>1
    <3> QED
      BY <1>5, <1>6, <1>7, <3>1 DEF Entering, Accepting
  <2> QED
    BY <1>1, <1>3, <1>4, <2>1, <2>2 DEF AcceptAlone, NoIo, Alone
<1>18. \A x : /\ Entering(x) => Entering(x)'
             /\ \A u \in Threads : Closing(u, x) => Closing(u, x)'
  BY <1>3 DEF Closing, Entering, Accepting, Threads
<1>19. Kept'
  <2> SUFFICES ASSUME NEW x \in Slots, InUse(x), ~ (pendingIo'[x] > 0)
               PROVE  Entering(x)' \/ \E u \in Threads : Closing(u, x)'
    BY <1>4 DEF Kept
  <2>1. CASE x # s
    <3>1. pendingIo'[x] = pendingIo[x]
      BY <1>0, <1>1, <2>1 DEF PoolTypes
    <3> QED
      BY <1>1, <1>18, <3>1 DEF Kept
  <2>2. CASE x = s /\ pc[t] = "abort"
    <3>1. ~ (pendingIo[s] >= 2)
      BY <1>0, <1>1, <1>2, <2>2 DEF PoolTypes
    <3> QED
      BY <1>0, <1>1, <1>18, <2>2, <3>1 DEF AbortOK
  <2>3. CASE x = s /\ pc'[t] = "notify"
    BY <1>5, <2>3 DEF Closing
  <2>4. CASE x = s /\ pc[t] = "dec" /\ pc'[t] # "notify"
    <3>1. 1 \in {1, 2} /\ 1 <= owe[t]
      BY <1>2
    <3>2. <<t, 1>> \in References(s)
      BY <1>0, <3>1, RefThread
    <3>3. pendingIo[s] >= 1 /\ pendingIo[s] # 1 /\ pendingIo[s] \in Int
      BY <1>0, <1>1, <1>2, <2>4, <3>2, SomeReference DEF IInv, PoolTypes
    <3>4. pendingIo'[s] = pendingIo[s] - 1
      BY <1>0, <1>1, <1>2 DEF PoolTypes
    <3> QED
      BY <2>4, <3>3, <3>4
  <2> QED
    BY <2>1, <2>2, <2>3, <2>4
<1>20. AbortOK'
  <2> SUFFICES ASSUME NEW u \in Threads, pc'[u] = "abort"
               PROVE  /\ \A v \in Threads : pc'[v] = "abort" => u = v
                      /\ \/ pendingIo'[slot'[u]] >= 2
                         \/ Entering(slot[u])'
                         \/ \E v \in Threads : Closing(v, slot[u])'
    BY DEF AbortOK
  <2>1. /\ u # t /\ pc[u] = "abort" /\ slot'[u] = slot[u]
        /\ \A v \in Threads : pc'[v] = "abort" => pc[v] = "abort"
    BY <1>3
  <2>2. pc[t] = "dec"
    BY <1>1, <2>1 DEF AbortOK
  <2>3. /\ slot[u] \in Slots /\ u \in Leasers /\ pendingIo[slot[u]] \in Int
    BY <1>1, <2>1, AbortCounts DEF PoolTypes
  <2>4. CASE slot[u] # s
    <3>1. pendingIo'[slot[u]] = pendingIo[slot[u]]
      BY <1>0, <1>1, <2>3, <2>4 DEF PoolTypes
    <3>2. /\ Entering(slot[u]) => Entering(slot[u])'
          /\ \A v \in Threads : Closing(v, slot[u]) => Closing(v, slot[u])'
      BY <1>18, <2>1 DEF Entering, Accepting, Closing
    <3> QED
      BY <1>1, <2>1, <3>1, <3>2 DEF AbortOK
  <2>5. CASE slot[u] = s /\ pc'[t] = "notify"
    <3>1. Closing(t, slot[u])'
      BY <1>5, <2>1, <2>5 DEF Closing
    <3> QED
      BY <1>1, <2>1, <3>1 DEF AbortOK
  <2>6. CASE slot[u] = s /\ pc'[t] # "notify"
    <3>1. pendingIo[s] >= 2
      BY <1>1, <1>7, <2>1, <2>2, <2>6 DEF AbortOK
    <3>2. pendingIo[s] # 2
      BY <1>0, <2>1, <2>2, <2>3, <2>6 DEF LeavesToAborted
    <3>3. pendingIo'[s] >= 2
      BY <1>0, <1>1, <1>2, <2>3, <2>6, <3>1, <3>2 DEF PoolTypes
    <3> QED
      BY <1>1, <2>1, <2>6, <3>3 DEF AbortOK
  <2> QED
    BY <2>4, <2>5, <2>6
<1> QED
  BY <1>9, <1>10, <1>11, <1>13, <1>16, <1>17, <1>19, <1>20 DEF SafeInv

LEMMA AbortLeaseSafe ==
  ASSUME IInv, NEW l \in Leasers, AbortLease(l) PROVE SafeInv'
<1>1. /\ ThreadTypes /\ l \in Threads /\ l # Acceptor /\ pc[l] = "abort"
      /\ owe[l] = 1
  BY UserParts, SessionPoolAssumption DEF Threads, AbortLease, ThreadsOK, OweOK
<1>2. ThreadTypes' /\ OnlyMoves(l) /\ pc'[l] = "idle" /\ owe'[l] = 0
  BY <1>1, FinishEffect DEF AbortLease
<1>3. /\ pendingIo' = [pendingIo EXCEPT ![slot[l]] = @ - 1]
      /\ UNCHANGED <<generation, sessionId, sendInProgress, freeList, posted,
                     completed, known>>
  BY DEF AbortLease, ioVars, gameVars
<1>4. owe'[l] = owe[l] - 1
  BY <1>1, <1>2
<1> QED
  BY <1>1, <1>2, <1>3, <1>4, GiveBack

-----------------------------------------------------------------------------
(* Disconnect and the teardown.                                            *)
LEMMA DisconnectCasSafe ==
  ASSUME IInv, NEW t \in Threads, DisconnectCas(t) PROVE SafeInv'
<1>1. ThreadTypes /\ pc[t] = "cas"
  BY UserParts DEF DisconnectCas
<1>2. PICK label \in {"dec", "close"} : Goto(t, label)
  BY DEF DisconnectCas
<1>3. /\ OnlyMoves(t) /\ pc'[t] = label /\ slot'[t] = slot[t]
      /\ held'[t] = held[t] /\ owe'[t] = owe[t]
  <2>1. label \in PcLabels \ {"idle"}
    BY DEF PcLabels
  <2> QED
    BY <1>1, <1>2, <2>1, JumpEffect DEF DisconnectCas
<1>4. /\ known' = known /\ sendInProgress' = sendInProgress
      /\ UNCHANGED <<generation, sessionId, freeList, pendingIo, posted, completed>>
  BY DEF DisconnectCas, ioVars, gameVars
<1> QED
  BY <1>1, <1>3, <1>4, QuietStep DEF Using

LEMMA CloseSocketSafe ==
  ASSUME IInv, NEW t \in Threads, CloseSocket(t) PROVE SafeInv'
<1>1. ThreadTypes /\ pc[t] = "close"
  BY UserParts DEF CloseSocket
<1>2. /\ OnlyMoves(t) /\ pc'[t] = "dec" /\ slot'[t] = slot[t]
      /\ held'[t] = held[t] /\ owe'[t] = owe[t]
  BY <1>1, JumpEffect DEF CloseSocket, PcLabels
<1>3. /\ known' = known /\ sendInProgress' = sendInProgress
      /\ UNCHANGED <<generation, sessionId, freeList, pendingIo, posted, completed>>
  BY DEF CloseSocket, ioVars, gameVars
<1> QED
  BY <1>1, <1>2, <1>3, QuietStep DEF Using

LEMMA DecPendingIoSafe ==
  ASSUME IInv, NEW t \in Threads, DecPendingIo(t), ~ overtaken' PROVE SafeInv'
<1>1. /\ ThreadTypes /\ ThreadsOK /\ pc[t] = "dec" /\ owe[t] \in {1, 2}
  BY UserParts DEF DecPendingIo, ThreadsOK, OweOK
<1>2. /\ pendingIo' = [pendingIo EXCEPT ![slot[t]] = @ - 1]
      /\ UNCHANGED <<generation, sessionId, sendInProgress, freeList, posted,
                     completed, known>>
  BY DEF DecPendingIo, ioVars, gameVars
<1>3. PICK left \in {0, 1} : /\ left = owe[t] - 1
                             /\ owe' = [owe EXCEPT ![t] = left]
  <2>1. owe[t] - 1 \in {0, 1}
    BY <1>1
  <2>2. owe' = [owe EXCEPT ![t] = owe[t] - 1]
    BY DEF DecPendingIo
  <2> QED
    BY <2>1, <2>2
<1>4. ~ LeavesToAborted(t)
  BY DEF DecPendingIo
<1>5. CASE LastReference(t) /\ Goto(t, "notify") /\ UNCHANGED <<slot, held>>
  <2>1. "notify" \in PcLabels \ {"idle"} /\ left \in 0 .. 2 /\ pc[t] # "idle"
    BY <1>1 DEF PcLabels
  <2>2. /\ ThreadTypes' /\ OnlyMoves(t) /\ pc'[t] = "notify"
        /\ slot'[t] = slot[t] /\ held'[t] = held[t] /\ owe'[t] = left
    BY <1>1, <1>3, <1>5, <2>1, GotoEffect
  <2>3. pendingIo[slot[t]] = 1
    BY <1>5 DEF LastReference
  <2> QED
    BY <1>1, <1>2, <1>3, <2>2, <2>3, GiveBack
<1>6. CASE /\ ~ LastReference(t) /\ owe[t] > 1 /\ UNCHANGED <<pc, slot, held>>
  <2>1. left \in 0 .. 2 /\ owe[t] = 2
    BY <1>1, <1>6
  <2>2. /\ ThreadTypes' /\ OnlyMoves(t) /\ pc'[t] = "dec"
        /\ slot'[t] = slot[t] /\ held'[t] = held[t] /\ owe'[t] = left
    BY <1>1, <1>3, <1>6, <2>1 DEF ThreadTypes, OnlyMoves
  <2>3. pendingIo[slot[t]] # 1
    BY <1>6 DEF LastReference
  <2> QED
    BY <1>1, <1>2, <1>3, <1>4, <2>1, <2>2, <2>3, GiveBack
<1>7. CASE ~ LastReference(t) /\ owe[t] <= 1 /\ Return(t)
  <2>1. left = 0 /\ owe[t] = 1
    BY <1>1, <1>3, <1>7
  <2>2. /\ ThreadTypes' /\ OnlyMoves(t) /\ owe'[t] = 0
        /\ t = Acceptor => /\ pc'[t] = "acceptRelease"
                           /\ slot'[t] = slot[t] /\ held'[t] = held[t]
        /\ t # Acceptor => pc'[t] = "idle" /\ slot'[t] = NoSlot
    BY <1>1, <1>3, <1>7, <2>1, ReturnEffect
  <2>3. pendingIo[slot[t]] # 1
    BY <1>7 DEF LastReference
  <2> QED
    BY <1>1, <1>2, <1>3, <1>4, <2>1, <2>2, <2>3, GiveBack
<1> QED
  BY <1>5, <1>6, <1>7 DEF DecPendingIo

LEMMA NotifyDisconnectSafe ==
  ASSUME IInv, NEW t \in Threads, NotifyDisconnect(t) PROVE SafeInv'
<1>1. ThreadTypes /\ pc[t] = "notify"
  BY UserParts DEF NotifyDisconnect
<1>2. /\ OnlyMoves(t) /\ pc'[t] = "release" /\ slot'[t] = slot[t]
      /\ held'[t] = held[t] /\ owe'[t] = owe[t]
  BY <1>1, JumpEffect DEF NotifyDisconnect, PcLabels
<1>3. /\ known' = known /\ sendInProgress' = sendInProgress
      /\ UNCHANGED <<generation, sessionId, freeList, pendingIo, posted, completed>>
  BY DEF NotifyDisconnect, sessionVars, ioVars
<1> QED
  BY <1>1, <1>2, <1>3, QuietStep DEF Using

-----------------------------------------------------------------------------
(* Giving the slot back.                                                   *)
LEMMA SelfReleaseSafe ==
  ASSUME IInv, NEW t \in Threads, SelfRelease(t) PROVE SafeInv'
<1>0. PICK s : s = slot[t]
  OBVIOUS
<1>1. /\ PoolTypes /\ ThreadTypes /\ ThreadsOK
      /\ FreeUnique /\ SlotGen /\ KnownIssued /\ UserOK /\ IoCurrent
      /\ RecvAlone /\ SendAlone /\ Counted
      /\ ClosingAlone /\ AcceptAlone /\ Kept /\ AbortOK
      /\ pc[t] = "release" /\ owe' = owe
  BY UserParts DEF SelfRelease
<1>2. s \in Slots /\ s # NoSlot
  BY <1>0, <1>1, HasSlot, SessionPoolAssumption DEF IInv
<1>3. /\ owe[t] = 0 /\ NoIo(s) /\ held[t] = generation[s] /\ InUse(s)
      /\ sessionId[s] = generation[s] /\ generation[s] \in Nat
  BY <1>0, <1>1, <1>2 DEF ClosingAlone, UserOK, Using, SlotGen, PoolTypes
<1>4. \A u \in Threads : pc[u] # "abort"
  BY DEF SelfRelease, PoolLockFree
<1>5. \A u \in Threads \ {t} :
        slot[u] = s => pc[u] \in {"scanned", "acceptRelease"} /\ owe[u] = 0
  <2>1. \A u \in Threads \ {t} :
          slot[u] = s => pc[u] \in {"scanned", "acceptRelease"}
    BY <1>0, <1>1, <1>4 DEF ClosingAlone, Alone
  <2> QED
    BY <1>1, <2>1 DEF ThreadsOK, OweOK
<1>6. /\ generation' = [generation EXCEPT ![s] = @ + 1]
      /\ pendingIo' = [pendingIo EXCEPT ![s] = 0]
      /\ sendInProgress' = [sendInProgress EXCEPT ![s] = FALSE]
      /\ freeList' = <<s>> \o freeList
      /\ UNCHANGED <<sessionId, posted, completed, known>>
      /\ Outstanding' = Outstanding
  BY <1>0, <1>3 DEF SelfRelease, Release, ioVars, gameVars, Outstanding
<1>7. /\ OnlyMoves(t) /\ owe'[t] = 0 /\ ThreadTypes'
      /\ t = Acceptor => /\ pc'[t] = "acceptRelease"
                         /\ slot'[t] = s /\ held'[t] = held[t]
      /\ t # Acceptor => pc'[t] = "idle" /\ slot'[t] = NoSlot
  <2>1. Return(t) /\ owe' = [owe EXCEPT ![t] = 0]
    BY <1>1, <1>3 DEF SelfRelease, ThreadTypes
  <2> QED
    BY <1>0, <1>1, <2>1, ReturnEffect
<1>8. \A u \in Threads \ {t} :
        /\ pc'[u] = pc[u] /\ slot'[u] = slot[u] /\ held'[u] = held[u]
        /\ owe'[u] = owe[u]
  BY <1>7 DEF OnlyMoves
<1>9. /\ freeList \in Seq(Slots) /\ Len(freeList) \in Nat
      /\ Len(freeList') = Len(freeList) + 1 /\ freeList'[1] = s
      /\ \A i \in 1 .. Len(freeList) : freeList'[i + 1] = freeList[i]
  BY <1>1, <1>2, <1>6, PushFree, LenProperties DEF PoolTypes
<1>10. \A x : InUse(x)' <=> InUse(x) /\ x # s
  <2>1. ASSUME NEW x, InUse(x), x # s PROVE InUse(x)'
    <3> SUFFICES ASSUME NEW i \in 1 .. Len(freeList'), freeList'[i] = x
                 PROVE  FALSE
      BY DEF InUse
    <3>1. i # 1
      BY <1>9, <2>1
    <3>2. i - 1 \in 1 .. Len(freeList) /\ (i - 1) + 1 = i
      BY <1>9, <3>1
    <3>3. freeList'[i] = freeList[i - 1]
      BY <1>9, <3>2
    <3> QED
      BY <2>1, <3>2, <3>3 DEF InUse
  <2>2. ~ InUse(s)'
    <3>1. 1 \in 1 .. Len(freeList')
      BY <1>9
    <3> QED
      BY <1>9, <3>1 DEF InUse
  <2>3. ASSUME NEW x, InUse(x)' PROVE InUse(x)
    <3> SUFFICES ASSUME NEW i \in 1 .. Len(freeList), freeList[i] = x
                 PROVE  FALSE
      BY DEF InUse
    <3>1. i + 1 \in 1 .. Len(freeList') /\ freeList'[i + 1] = x
      BY <1>9
    <3> QED
      BY <2>3, <3>1 DEF InUse
  <2> QED
    BY <2>1, <2>2, <2>3
<1>11. FreeUnique'
  <2> SUFFICES ASSUME NEW i \in 1 .. Len(freeList'), NEW j \in 1 .. Len(freeList'),
                      freeList'[i] = freeList'[j], i # j
               PROVE  FALSE
    BY DEF FreeUnique
  <2>1. ASSUME NEW k \in 1 .. Len(freeList'), k # 1
        PROVE  /\ k - 1 \in 1 .. Len(freeList)
               /\ freeList'[k] = freeList[k - 1] /\ freeList'[k] # s
    <3>1. k - 1 \in 1 .. Len(freeList) /\ (k - 1) + 1 = k
      BY <1>9, <2>1
    <3>2. freeList'[k] = freeList[k - 1]
      BY <1>9, <3>1
    <3> QED
      BY <1>3, <3>1, <3>2 DEF InUse
  <2>2. i # 1 /\ j # 1
    BY <1>9, <2>1
  <2>3. freeList[i - 1] = freeList[j - 1] /\ i - 1 # j - 1
    BY <1>9, <2>1, <2>2
  <2> QED
    BY <1>1, <2>1, <2>2, <2>3 DEF FreeUnique
<1>12. \A x \in Slots : generation'[x] = IF x = s THEN generation[x] + 1
                                         ELSE generation[x]
  BY <1>1, <1>6 DEF PoolTypes
<1>13. SlotGen' /\ KnownIssued'
  <2>1. \A x \in Slots : generation[x] \in Nat /\ sessionId[x] \in Nat
    BY <1>1 DEF PoolTypes
  <2>2. SlotGen'
    BY <1>1, <1>3, <1>6, <1>10, <1>12, <2>1 DEF SlotGen
  <2>3. KnownIssued'
    BY <1>1, <1>6 DEF KnownIssued
  <2> QED
    BY <2>2, <2>3
<1>14. UserOK'
  <2> SUFFICES ASSUME NEW u \in Threads, Using(u)' \/ pc'[u] = "abort"
               PROVE  held'[u] = generation'[slot'[u]] /\ InUse(slot[u])'
    BY DEF UserOK
  <2>1. u # t /\ Using(u) /\ slot'[u] = slot[u] /\ held'[u] = held[u]
    BY <1>4, <1>7, <1>8 DEF Using
  <2>2. slot[u] \in Slots /\ slot[u] # s
    BY <1>5, <2>1, HasSlot DEF Using, IInv
  <2>3. InUse(slot[u])' /\ generation'[slot[u]] = generation[slot[u]]
    BY <1>1, <1>10, <1>12, <2>1, <2>2 DEF UserOK
  <2> QED
    BY <1>1, <2>1, <2>3 DEF UserOK, InUse
<1>15. \A io \in Outstanding : io.slot \in Slots /\ io.slot # s
  BY <1>1, <1>3 DEF NoIo, PoolTypes, IoType, Outstanding
<1>16. IoCurrent'
  BY <1>1, <1>6, <1>10, <1>12, <1>15 DEF IoCurrent
<1>17. RecvAlone'
  BY ZenonT(60), <1>1, <1>6, <1>7, <1>8 DEF RecvAlone
<1>18. SendAlone'
  <2>1. \A w \in Threads : pc'[w] = "send" =>
          w # t /\ pc[w] = "send" /\ slot[w] # s /\ slot[w] \in Slots
    BY <1>5, <1>7, <1>8, HasSlot DEF IInv
  <2>2. \A x \in Slots : x # s => sendInProgress'[x] = sendInProgress[x]
    BY <1>1, <1>6 DEF PoolTypes
  <2> QED
    BY SMTT(60), <1>1, <1>6, <1>7, <1>8, <1>15, <2>1, <2>2 DEF SendAlone
<1>19. ASSUME NEW x \in Slots
       PROVE  /\ pendingIo'[x] = Cardinality(References(x)')
              /\ x # s => pendingIo'[x] = pendingIo[x]
  <2>1. CASE x = s
    <3>1. \A u \in Threads : slot'[u] = s => owe'[u] = 0
      BY <1>5, <1>7, <1>8
    <3>2. \A u \in Threads, n \in {1, 2} : ~ (slot'[u] = s /\ n <= owe'[u])
      BY <3>1
    <3>3. References(x)' = {}
      BY <1>6, <1>15, <2>1, <3>2 DEF References
    <3> QED
      BY <1>1, <1>2, <1>6, <2>1, <3>3, FS_EmptySet DEF PoolTypes
  <2>2. CASE x # s
    <3>1. \A n \in {1, 2} : slot'[t] = x /\ n <= owe'[t]
                              <=> slot[t] = x /\ n <= owe[t]
      BY <1>0, <1>3, <1>7
    <3>2. References(x)' = References(x)
      BY <1>6, <1>7, <3>1, RefElsewhere
    <3> QED
      BY <1>1, <1>6, <2>2, <3>2 DEF PoolTypes, Counted
  <2> QED
    BY <2>1, <2>2
<1>20. Counted'
  BY <1>19 DEF Counted
<1>21. \A u \in Threads : pc[u] # "idle" => slot[u] # NoSlot
  BY <1>1 DEF ThreadTypes
<1>22. ClosingAlone'
  <2>1. \A u \in Threads : pc'[u] \in {"notify", "release"} =>
          /\ u # t /\ pc[u] \in {"notify", "release"} /\ slot[u] # s
          /\ slot'[t] # slot[u]
    BY <1>5, <1>7, <1>8, <1>21
  <2> SUFFICES ASSUME NEW u \in Threads, pc'[u] \in {"notify", "release"}
               PROVE  owe'[u] = 0 /\ NoIo(slot[u])' /\ Alone(u, {"scanned", "abort", "acceptRelease"})'
    BY DEF ClosingAlone
  <2>2. /\ u # t /\ slot'[u] = slot[u] /\ slot'[t] # slot[u]
        /\ owe'[u] = owe[u] /\ pc[u] \in {"notify", "release"}
    BY <1>8, <2>1
  <2>3. owe[u] = 0 /\ NoIo(slot[u]) /\ Alone(u, {"scanned", "abort", "acceptRelease"})
    BY <1>1, <2>2 DEF ClosingAlone
  <2> QED
    BY <1>6, <1>8, <2>2, <2>3 DEF NoIo, Alone
<1>23. AcceptAlone'
  <2> SUFFICES ASSUME pc'[Acceptor] \in {"setup", "firstRecv"}
               PROVE  AcceptAlone'
    BY DEF AcceptAlone
  <2>1. /\ Acceptor \in Threads /\ Acceptor # t
        /\ pc[Acceptor] = pc'[Acceptor] /\ slot'[Acceptor] = slot[Acceptor]
    BY <1>7, <1>8 DEF Threads
  <2>2. /\ NoIo(slot[Acceptor]) /\ Alone(Acceptor, {"scanned", "abort"})
    BY <1>1, <2>1 DEF AcceptAlone
  <2>3. slot'[t] # slot[Acceptor]
    BY <1>0, <1>1, <1>7, <1>21, <2>1, <2>2 DEF Alone
  <2>4. Alone(Acceptor, {"scanned", "abort"})'
    BY <1>8, <2>1, <2>2, <2>3 DEF Alone
  <2>5. NoIo(slot[Acceptor])'
    BY <1>6, <2>1, <2>2 DEF NoIo
  <2> QED
    BY <2>4, <2>5 DEF AcceptAlone
<1>24. Kept'
  <2> SUFFICES ASSUME NEW x \in Slots, InUse(x), x # s, ~ (pendingIo[x] > 0)
               PROVE  Entering(x)' \/ \E u \in Threads : Closing(u, x)'
    BY <1>10, <1>19 DEF Kept
  <2>1. Entering(x) => Entering(x)'
    BY <1>1, <1>8 DEF Entering, Accepting, Threads
  <2>2. \A u \in Threads : Closing(u, x) => Closing(u, x)'
    BY <1>0, <1>8 DEF Closing
  <2> QED
    BY <1>1, <2>1, <2>2 DEF Kept
<1>25. AbortOK'
  BY <1>4, <1>7, <1>8 DEF AbortOK
<1> QED
  BY <1>11, <1>13, <1>14, <1>16, <1>17, <1>18, <1>20, <1>22, <1>23, <1>24,
     <1>25 DEF SafeInv

(* By the time OnAcceptComplete releases, DecPendingIo has done it.        *)
LEMMA AcceptReleaseSafe ==
  ASSUME IInv, AcceptRelease, ~ overtaken' PROVE SafeInv'
<1>1. /\ PoolTypes /\ ThreadTypes /\ ThreadsOK
      /\ FreeUnique /\ SlotGen /\ KnownIssued /\ UserOK /\ IoCurrent
      /\ RecvAlone /\ SendAlone /\ Counted
      /\ ClosingAlone /\ AcceptAlone /\ Kept /\ AbortOK
      /\ Acceptor \in Threads /\ pc[Acceptor] = "acceptRelease"
  BY UserParts DEF Threads, AcceptRelease
<1>2. /\ held[Acceptor] # generation[slot[Acceptor]]
      /\ owe[Acceptor] = 0
  BY <1>1 DEF AcceptRelease, ThreadsOK, OweOK
<1>3. UNCHANGED <<generation, sessionId, sendInProgress, freeList, pendingIo,
                  posted, completed, known>>
  BY <1>2 DEF AcceptRelease, Release, sessionVars, ioVars, gameVars
<1>4. /\ ThreadTypes' /\ OnlyMoves(Acceptor) /\ pc'[Acceptor] = "idle"
      /\ slot'[Acceptor] = NoSlot /\ owe'[Acceptor] = 0
  BY <1>1, FinishEffect DEF AcceptRelease
<1>5. \A u \in Threads \ {Acceptor} :
        /\ pc'[u] = pc[u] /\ slot'[u] = slot[u] /\ held'[u] = held[u]
        /\ owe'[u] = owe[u]
  BY <1>4 DEF OnlyMoves
<1>6. Outstanding' = Outstanding /\ \A x : InUse(x)' <=> InUse(x)
  BY <1>3, InUseSame DEF Outstanding
<1>7. FreeUnique' /\ SlotGen' /\ KnownIssued' /\ UserOK'
  BY <1>1, <1>3, <1>4, SlotsKept DEF Using
<1>8. IoCurrent' /\ RecvAlone' /\ SendAlone'
  <2>1. IoCurrent'
    BY <1>1, <1>3, <1>6 DEF IoCurrent
  <2>2. RecvAlone'
    BY <1>1, <1>4, <1>5, <1>6 DEF RecvAlone
  <2>3. SendAlone'
    BY <1>1, <1>3, <1>4, <1>5, <1>6 DEF SendAlone
  <2> QED
    BY <2>1, <2>2, <2>3
<1>9. Counted'
  <2>1. ASSUME NEW x \in Slots PROVE References(x)' = References(x)
    BY <1>1, <1>2, <1>4, <1>6, RefElsewhere
  <2> QED
    BY <1>1, <1>3, <2>1 DEF Counted
<1>10. \A u \in Threads : pc[u] # "idle" => slot[u] # NoSlot
  BY <1>1 DEF ThreadTypes
<1>11. ClosingAlone'
  <2>1. \A u \in Threads : pc'[u] \in {"notify", "release"} =>
          /\ u # Acceptor /\ pc[u] \in {"notify", "release"} /\ slot[u] # NoSlot
    BY <1>4, <1>5, <1>10
  <2> QED
    BY <1>1, <1>4, <1>5, <1>6, <2>1 DEF ClosingAlone, NoIo, Alone
<1>12. AcceptAlone'
  BY <1>4 DEF AcceptAlone
<1>13. \A u \in Threads : \A x : Closing(u, x) => Closing(u, x)'
  BY <1>1, <1>5 DEF Closing
<1>14. Kept'
  <2> SUFFICES ASSUME NEW x \in Slots, InUse(x), ~ (pendingIo[x] > 0)
               PROVE  \E u \in Threads : Closing(u, x)'
    BY <1>3, <1>6 DEF Kept
  <2>1. ~ Entering(x)
    BY <1>1 DEF Entering
  <2> QED
    BY <1>1, <1>13, <2>1 DEF Kept
<1>15. AbortOK'
  <2>1. \A x : ~ Entering(x)
    BY <1>1 DEF Entering
  <2> QED
    BY <1>1, <1>3, <1>4, <1>5, <1>13, <2>1 DEF AbortOK
<1> QED
  BY <1>7, <1>8, <1>9, <1>11, <1>12, <1>14, <1>15 DEF SafeInv

-----------------------------------------------------------------------------
(* The kernel and the clock.                                               *)
LEMMA ThreadsStill ==
  ASSUME IInv, Outstanding' = Outstanding, posted' \cap completed' = {},
         UNCHANGED <<generation, sessionId, sendInProgress, freeList, pendingIo,
                     known, pc, slot, held, owe>>
  PROVE  SafeInv'
<1>1. /\ FreeUnique /\ SlotGen /\ KnownIssued /\ UserOK /\ IoCurrent
      /\ RecvAlone /\ SendAlone /\ Counted
      /\ ClosingAlone /\ AcceptAlone /\ Kept /\ AbortOK
  BY UserParts
<1>2. \A x : InUse(x)' <=> InUse(x)
  BY InUseSame
<1>3. FreeUnique' /\ SlotGen' /\ KnownIssued'
  BY <1>1, <1>2 DEF FreeUnique, SlotGen, KnownIssued
<1>4. UserOK'
  BY <1>1, <1>2 DEF UserOK, Using
<1>5. IoCurrent'
  BY <1>1, <1>2 DEF IoCurrent
<1>6. RecvAlone' /\ SendAlone'
  BY <1>1 DEF RecvAlone, SendAlone
<1>7. Counted'
  BY <1>1 DEF Counted, References
<1>8. ClosingAlone' /\ AcceptAlone'
  BY <1>1 DEF ClosingAlone, AcceptAlone, NoIo, Alone
<1>9. Kept' /\ AbortOK'
  BY <1>1, <1>2 DEF Kept, AbortOK, Entering, Accepting, Closing
<1> QED
  BY <1>3, <1>4, <1>5, <1>6, <1>7, <1>8, <1>9 DEF SafeInv

LEMMA CompleteSafe ==
  ASSUME IInv, NEW io \in posted, Complete(io) PROVE SafeInv'
<1>1. posted \cap completed = {}
  BY UserParts DEF IoCurrent
<1>2. Outstanding' = Outstanding /\ posted' \cap completed' = {}
  BY <1>1 DEF Complete, Outstanding
<1>3. UNCHANGED <<generation, sessionId, sendInProgress, freeList, pendingIo,
                  known, pc, slot, held, owe>>
  BY DEF Complete, sessionVars, gameVars, threadVars
<1> QED
  BY <1>2, <1>3, ThreadsStill

LEMMA ExpireSafe ==
  ASSUME IInv, NEW s \in Slots, Expire(s) PROVE SafeInv'
<1>1. Outstanding' = Outstanding /\ posted' \cap completed' = {}
  BY UserParts DEF Expire, IoCurrent, ioVars, Outstanding
<1>2. UNCHANGED <<generation, sessionId, sendInProgress, freeList, pendingIo,
                  known, pc, slot, held, owe>>
  BY DEF Expire, gameVars, threadVars
<1> QED
  BY <1>1, <1>2, ThreadsStill

-----------------------------------------------------------------------------
LEMMA InitSafe == Init => SafeInv
<1> SUFFICES ASSUME Init PROVE SafeInv
  OBVIOUS
<1> USE SessionPoolAssumption DEF Init
<1>1. /\ Len(freeList) = MaxSession
      /\ \A i \in 1 .. MaxSession : freeList[i] = i - 1
  OBVIOUS
<1>2. \A s \in Slots : ~ InUse(s)
  <2> SUFFICES ASSUME NEW s \in Slots PROVE ~ InUse(s)
    OBVIOUS
  <2>1. s + 1 \in 1 .. MaxSession /\ (s + 1) - 1 = s
    BY DEF Slots
  <2> QED
    BY <1>1, <2>1 DEF InUse
<1>3. Outstanding = {}
  BY DEF Outstanding
<1>4. FreeUnique
  BY <1>1 DEF FreeUnique
<1>5. SlotGen
  BY <1>2 DEF SlotGen
<1>6. Counted
  <2>1. ASSUME NEW s \in Slots PROVE References(s) = {}
    BY <1>3 DEF References
  <2> QED
    BY <2>1, FS_EmptySet DEF Counted
<1>7. Kept
  BY <1>2 DEF Kept
<1>8. KnownIssued /\ UserOK /\ IoCurrent /\ AbortOK
  BY <1>3 DEF KnownIssued, UserOK, IoCurrent, AbortOK, Using
<1>9. RecvAlone /\ SendAlone /\ ClosingAlone
  BY <1>3 DEF RecvAlone, SendAlone, ClosingAlone
<1>10. AcceptAlone
  BY DEF AcceptAlone, Threads
<1> QED
  BY <1>4, <1>5, <1>6, <1>7, <1>8, <1>9, <1>10 DEF SafeInv

LEMMA SafeStep == IInv /\ ~ overtaken' /\ [Next]_vars => IInv'
<1> SUFFICES ASSUME IInv, ~ overtaken', [Next]_vars PROVE SafeInv'
  BY TypeStep DEF IInv
<1>1. CASE AcceptStep
  BY <1>1, AllocateSafe, SetupSafe, FirstRecvSafe, AcceptReleaseSafe
     DEF AcceptStep
<1>2. ASSUME NEW w \in Workers, WorkerStep(w) PROVE SafeInv'
  BY <1>2, DequeueSafe, RecvClosedSafe, RecvDataSafe, NextRecvSafe,
     SendFailedSafe, SendDoneSafe DEF WorkerStep
<1>3. ASSUME NEW c \in Callers, CallerStep(c) PROVE SafeInv'
  BY <1>3, CallerLeaseSafe, SendCheckSafe, SendEnqueueSafe DEF CallerStep
<1>4. ASSUME NEW r \in Reapers, ReaperStep(r) PROVE SafeInv'
  BY <1>4, ReapScanSafe, ReapLeaseSafe, ReapRecheckSafe DEF ReaperStep
<1>5. ASSUME NEW t \in Threads, TeardownStep(t) PROVE SafeInv'
  BY <1>5, DisconnectCasSafe, CloseSocketSafe, DecPendingIoSafe,
     NotifyDisconnectSafe, SelfReleaseSafe DEF TeardownStep
<1>6. CASE UNCHANGED vars
  <2>1. Outstanding' = Outstanding /\ posted' \cap completed' = {}
    BY <1>6, UserParts DEF IoCurrent, vars, ioVars, Outstanding
  <2> QED
    BY <1>6, <2>1, ThreadsStill
       DEF vars, sessionVars, ioVars, gameVars, threadVars
<1> QED
  BY <1>1, <1>2, <1>3, <1>4, <1>5, <1>6, AbortLeaseSafe, CompleteSafe,
     ExpireSafe DEF Next

LEMMA StaysOvertaken == overtaken /\ [Next]_vars => overtaken'
  BY DEF Next, AcceptStep, WorkerStep, CallerStep, ReaperStep, TeardownStep,
         Allocate, SetupSession, FirstRecv, AcceptRelease, Dequeue, RecvClosed,
         RecvData, NextRecv, SendFailed, SendDone, Lease, SendCheck,
         SendEnqueue, ReapScan, ReapLease, ReapRecheck, AbortLease,
         DisconnectCas, CloseSocket, DecPendingIo, NotifyDisconnect,
         SelfRelease, Complete, Expire, gameVars, vars

LEMMA Inductive == Spec => [](overtaken \/ IInv)
<1> DEFINE Inv == overtaken \/ IInv
<1>1. Init => Inv
  BY InitType, InitSafe DEF IInv
<1>2. Inv /\ [Next]_vars => Inv'
  BY SafeStep, StaysOvertaken
<1> QED
  BY <1>1, <1>2, PTL DEF Spec

(***************************************************************************)
(* m_pendingIoCount is, at all times, the number of operations the kernel  *)
(* or the port still holds plus the leases and failed posts threads have   *)
(* yet to return: no path of Session or SessionPool counts one twice or    *)
(* forgets one.  A lease inside OnAcceptComplete does not change that      *)
(* until it comes to harm: a DecPendingIo leaves the count to a lease that *)
(* is being aborted, or the explicit Release of OnAcceptComplete finds the *)
(* session leased.  `overtaken` says that this happened; the theorems      *)
(* below, too, speak of the time before it.                                *)
(***************************************************************************)
THEOREM CountCorrect == Spec => []CountIsExact
<1>1. overtaken \/ IInv => CountIsExact
  BY DEF IInv, SafeInv, CountIsExact
<1> QED
  BY <1>1, Inductive, PTL

(***************************************************************************)
(* The count never goes below zero, so that the crossing of zero that      *)
(* returns the slot happens once per connection (comment at                *)
(* SessionPool.cpp:165), until a lease inside OnAcceptComplete came to     *)
(* harm (`overtaken`).                                                     *)
(***************************************************************************)
THEOREM NeverUnderflows == Spec => []NoUnderflow
<1>1. overtaken \/ IInv => NoUnderflow
  <2> SUFFICES ASSUME IInv, NEW s \in Slots PROVE pendingIo[s] >= 0
    BY DEF NoUnderflow
  <2>1. Cardinality(References(s)) \in Nat /\ Counted
    BY RefFinite, UserParts DEF IInv
  <2> QED
    BY <2>1 DEF Counted
<1> QED
  BY <1>1, Inductive, PTL

(***************************************************************************)
(* A thread that went through FindAndLease, FindLockFree or Allocate works *)
(* on the incarnation it looked up until it returns it: Release never      *)
(* resets a session under a thread, a completion or a pending operation,   *)
(* until a lease inside OnAcceptComplete came to harm (`overtaken`).       *)
(***************************************************************************)
THEOREM SlotOutlivesUsers == Spec => []NoUseAfterRelease
<1>1. overtaken \/ IInv => NoUseAfterRelease
  BY DEF IInv, SafeInv, UserOK, IoCurrent, NoUseAfterRelease
<1> QED
  BY <1>1, Inductive, PTL

(***************************************************************************)
(* A slot that is not on the free list is always somebody's to return; an  *)
(* aborted lease never swallows the crossing of zero (comments at          *)
(* SessionPool.cpp:166 and Session.cpp:305), until one inside              *)
(* OnAcceptComplete does (`overtaken`).                                    *)
(***************************************************************************)
THEOREM SlotsNeverLost == Spec => []NoSlotLeak
<1>1. overtaken \/ IInv => NoSlotLeak
  BY DEF IInv, SafeInv, NoSlotLeak
<1> QED
  BY <1>1, Inductive, PTL
=============================================================================
