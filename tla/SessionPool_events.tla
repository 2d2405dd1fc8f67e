-------------------------- MODULE SessionPool_events --------------------------
(***************************************************************************)
(* Proofs about SessionPool, part 3: what follows once reference counting  *)
(* is known to be right.  Slots on the free list are as Reset leaves them, *)
(* each of the two contexts of a session has one owner, queued bytes are   *)
(* on their way, and the pool implements the contract of NetEvents: as in  *)
(* part 2, until a lease inside OnAcceptComplete came to harm.             *)
(***************************************************************************)
EXTENDS SessionPool_proofs

(* A slot on the free list is as Reset left it.                            *)
FreshFree ==
  \A s \in Slots : ~ InUse(s) =>
    /\ ~ sockOpen[s] /\ ~ disconnecting[s] /\ ~ sendInProgress[s]
    /\ queued[s] = 0 /\ inFlight[s] = 0 /\ lastRecv[s] = "unset"

(* A send in progress is outstanding or being completed, and has bytes.    *)
SendOwnedAt(s) ==
  /\ sendInProgress[s] <=> inFlight[s] > 0
  /\ sendInProgress[s] =>
       \/ \E io \in Outstanding : io.slot = s /\ io.op = "send"
       \/ \E t \in Threads : slot[t] = s /\ pc[t] = "send"

SendOwned == \A s \in Slots : SendOwnedAt(s)

NotStalled(s) ==
  queued[s] > 0 /\ ~ sendInProgress[s] =>
    disconnecting[s] \/ \E t \in Threads : slot[t] = s /\ pc[t] = "cas"

(* The notice of a handle was given between "notify" and "release" of the  *)
(* thread that tears its session down.                                     *)
Noticed(h) ==
  \/ h[2] < generation[h[1]]
  \/ h[2] = generation[h[1]]
     /\ \E t \in Threads : slot[t] = h[1] /\ pc[t] = "release"

NoticeOnce == \A h \in Handles : notices[h] = IF Noticed(h) THEN 1 ELSE 0

EInv == IInv /\ FreshFree /\ SendOwned /\ SendsGoOn /\ NoticeOnce

-----------------------------------------------------------------------------
(* What a thread that uses a session may rely on.                          *)
LEMMA UsesSlot ==
  ASSUME IInv, NEW t \in Threads, Using(t)
  PROVE  /\ slot[t] \in Slots /\ InUse(slot[t])
         /\ sessionId[slot[t]] = generation[slot[t]]
         /\ held[t] = generation[slot[t]]
         /\ generation[slot[t]] \in 1 .. MaxGen
<1>1. slot[t] \in Slots /\ sessionId[slot[t]] \in 1 .. MaxGen
  BY HasSlot DEF Using, IInv
<1>2. held[t] = generation[slot[t]] /\ InUse(slot[t])
  BY UserParts DEF UserOK
<1> QED
  BY <1>1, <1>2, UserParts DEF SlotGen

LEMMA ThreadSets ==
  /\ Acceptor \in Threads /\ Workers \subseteq Threads
  /\ Callers \subseteq Threads /\ Reapers \subseteq Threads
  /\ Leasers \subseteq Threads
  BY DEF Threads, Leasers

(* A handle whose slot is in use is the present incarnation, and no thread *)
(* but the one that tears it down is past "notify".                        *)
LEMMA SoleCloser ==
  ASSUME IInv, NEW t \in Threads, Using(t), NEW u \in Threads, u # t,
         slot[u] = slot[t]
  PROVE  pc[u] \notin {"notify", "release"}
<1>1. ClosingAlone
  BY UserParts
<1> QED
  BY <1>1 DEF ClosingAlone, Alone, Using

-----------------------------------------------------------------------------
(* A slot on the free list is not touched.                                 *)
LEMMA FreshElsewhere ==
  ASSUME PoolTypes, FreshFree, freeList' = freeList, NEW s \in Slots, InUse(s),
         \A x \in Slots \ {s} :
           /\ sockOpen'[x] = sockOpen[x] /\ disconnecting'[x] = disconnecting[x]
           /\ sendInProgress'[x] = sendInProgress[x] /\ queued'[x] = queued[x]
           /\ inFlight'[x] = inFlight[x] /\ lastRecv'[x] = lastRecv[x]
  PROVE  FreshFree'
  BY InUseSame DEF FreshFree

LEMMA FreshFreeStep ==
  ASSUME IInv, FreshFree, ~ overtaken', [Next]_vars PROVE FreshFree'
<1>1. /\ PoolTypes /\ ThreadTypes /\ FreeUnique /\ SlotGen /\ IInv
  BY UserParts
<1> USE ThreadSets
<1>2. CASE Allocate
  <2>1. \A s \in Slots : ~ InUse(s)' => ~ InUse(s)
    <3>1. freeList # <<>> /\ freeList' = Tail(freeList) /\ freeList \in Seq(Slots)
      BY <1>1, <1>2 DEF Allocate, PoolTypes
    <3>2. /\ Len(freeList') = Len(freeList) - 1
          /\ \A i \in 1 .. Len(freeList') : freeList'[i] = freeList[i + 1]
          /\ Len(freeList) \in Nat
      BY <3>1, HeadTailProperties, LenProperties
    <3> QED
      BY <3>2 DEF InUse
  <2> QED
    BY <1>2, <2>1 DEF Allocate, FreshFree
<1>3. CASE SetupSession
  BY <1>1, <1>3, UsesSlot, FreshElsewhere DEF SetupSession, Using, PoolTypes
<1>4. CASE FirstRecv
  BY <1>4 DEF FirstRecv, FreshFree, InUse
<1>5. CASE AcceptRelease
  <2>1. generation[slot[Acceptor]] # held[Acceptor]
    BY <1>5 DEF AcceptRelease
  <2>2. UNCHANGED <<sessionVars, freeList>>
    BY <1>5, <2>1 DEF AcceptRelease, Release
  <2> QED
    BY <2>2 DEF sessionVars, FreshFree, InUse
<1>6. ASSUME NEW w \in Workers, WorkerStep(w) PROVE FreshFree'
  <2>1. CASE Dequeue(w) \/ RecvClosed(w) \/ NextRecv(w)
    BY <2>1 DEF Dequeue, RecvClosed, NextRecv, sessionVars, FreshFree, InUse
  <2>2. CASE RecvData(w)
    BY <1>1, <2>2, UsesSlot, FreshElsewhere DEF RecvData, Using, PoolTypes
  <2>3. CASE SendFailed(w)
    BY <1>1, <2>3, UsesSlot, FreshElsewhere DEF SendFailed, Using, PoolTypes
  <2>4. CASE SendDone(w)
    BY <1>1, <2>4, UsesSlot, FreshElsewhere
       DEF SendDone, PostSend, Using, PoolTypes
  <2> QED
    BY <1>6, <2>1, <2>2, <2>3, <2>4 DEF WorkerStep
<1>7. ASSUME NEW c \in Callers, CallerStep(c) PROVE FreshFree'
  <2>1. CASE Lease(c) \/ SendCheck(c)
    BY <2>1 DEF Lease, SendCheck, sessionVars, FreshFree, InUse
  <2>2. CASE SendEnqueue(c)
    BY ZenonT(60), <1>1, <2>2, UsesSlot, FreshElsewhere
       DEF SendEnqueue, PostSend, Using, PoolTypes
  <2> QED
    BY <1>7, <2>1, <2>2 DEF CallerStep
<1>8. ASSUME NEW r \in Reapers, ReaperStep(r) PROVE FreshFree'
  BY <1>8 DEF ReaperStep, ReapScan, ReapLease, ReapRecheck, sessionVars,
              FreshFree, InUse
<1>9. ASSUME NEW l \in Leasers, AbortLease(l) PROVE FreshFree'
  BY <1>9 DEF AbortLease, FreshFree, InUse
<1>10. ASSUME NEW t \in Threads, TeardownStep(t) PROVE FreshFree'
  <2>1. CASE DisconnectCas(t)
    BY <1>1, <2>1, UsesSlot, FreshElsewhere DEF DisconnectCas, Using, PoolTypes
  <2>2. CASE CloseSocket(t)
    BY <1>1, <2>2, UsesSlot, FreshElsewhere DEF CloseSocket, Using, PoolTypes
  <2>3. CASE DecPendingIo(t) \/ NotifyDisconnect(t)
    BY <2>3 DEF DecPendingIo, NotifyDisconnect, sessionVars, FreshFree, InUse
  <2>4. CASE SelfRelease(t)
    <3> DEFINE s == slot[t]
    <3>1. s \in Slots /\ generation[s] = sessionId[s]
      BY <1>1, <2>4, UsesSlot DEF SelfRelease, Using
    <3>2. Release(s, sessionId[s]) /\ freeList \in Seq(Slots)
      BY <1>1, <2>4 DEF SelfRelease, PoolTypes
    <3>3. /\ freeList' = <<s>> \o freeList
          /\ sockOpen' = [sockOpen EXCEPT ![s] = FALSE]
          /\ disconnecting' = [disconnecting EXCEPT ![s] = FALSE]
          /\ sendInProgress' = [sendInProgress EXCEPT ![s] = FALSE]
          /\ queued' = [queued EXCEPT ![s] = 0]
          /\ inFlight' = [inFlight EXCEPT ![s] = 0]
          /\ lastRecv' = [lastRecv EXCEPT ![s] = "unset"]
      BY <3>1, <3>2 DEF Release
    <3>4. \A x \in Slots \ {s} : ~ InUse(x)' => ~ InUse(x)
      <4>1. /\ Len(freeList') = Len(freeList) + 1 /\ freeList'[1] = s
            /\ \A i \in 1 .. Len(freeList) : freeList'[i + 1] = freeList[i]
            /\ Len(freeList) \in Nat
        BY <3>1, <3>2, <3>3, PushFree, LenProperties
      <4>2. \A j \in 1 .. Len(freeList') : j # 1 =>
              j - 1 \in 1 .. Len(freeList) /\ freeList'[j] = freeList[j - 1]
        <5>1. TAKE j \in 1 .. Len(freeList')
        <5>2. HAVE j # 1
        <5>3. j - 1 \in 1 .. Len(freeList) /\ (j - 1) + 1 = j
          BY <4>1, <5>2
        <5> QED
          BY <4>1, <5>3
      <4> QED
        BY <4>1, <4>2 DEF InUse
    <3> QED
      BY <1>1, <3>1, <3>3, <3>4 DEF FreshFree, PoolTypes
  <2> QED
    BY <1>10, <2>1, <2>2, <2>3, <2>4 DEF TeardownStep
<1>11. ASSUME NEW io \in posted, Complete(io) PROVE FreshFree'
  BY <1>11 DEF Complete, sessionVars, FreshFree, InUse
<1>12. ASSUME NEW s \in Slots, Expire(s) PROVE FreshFree'
  <2>1. InUse(s)
    BY <1>12 DEF Expire, FreshFree
  <2> QED
    BY <1>1, <1>12, <2>1, FreshElsewhere DEF Expire, PoolTypes
<1>13. CASE UNCHANGED vars
  BY <1>13 DEF vars, sessionVars, FreshFree, InUse
<1> QED
  BY <1>2, <1>3, <1>4, <1>5, <1>6, <1>7, <1>8, <1>9, <1>10, <1>11, <1>12, <1>13
     DEF Next, AcceptStep

-----------------------------------------------------------------------------
(* Steps that move one thread and leave sending and notices alone.         *)
Quiet(t) ==
  /\ OnlyMoves(t)
  /\ pc[t] \notin {"send", "cas", "release"} /\ pc'[t] # "release"
  /\ Outstanding \subseteq Outstanding'
  /\ UNCHANGED <<generation, disconnecting, sendInProgress, queued, inFlight,
                 notices>>

LEMMA QuietEvents ==
  ASSUME SendOwned, SendsGoOn, NoticeOnce, NEW t \in Threads, Quiet(t)
  PROVE  SendOwned' /\ SendsGoOn' /\ NoticeOnce'
<1>1. \A u \in Threads :
        /\ pc[u] \in {"send", "cas", "release"}
             => slot'[u] = slot[u] /\ pc'[u] = pc[u]
        /\ pc'[u] = "release" => pc[u] = "release"
  BY DEF Quiet, OnlyMoves
<1>2. SendOwned'
  BY <1>1 DEF SendOwned, SendOwnedAt, Quiet
<1>3. SendsGoOn'
  BY <1>1 DEF SendsGoOn, Quiet
<1>4. \A h : Noticed(h)' <=> Noticed(h)
  BY <1>1 DEF Noticed, Quiet
<1> QED
  BY <1>2, <1>3, <1>4 DEF NoticeOnce, Quiet

LEMMA QuietAccept ==
  ASSUME IInv, ~ overtaken',
         Allocate \/ SetupSession \/ FirstRecv \/ AcceptRelease
  PROVE  Quiet(Acceptor)
<1> USE ThreadSets DEF Quiet, OnlyMoves, Outstanding, ioVars, gameVars
<1>1. ThreadTypes
  BY UserParts
<1>2. CASE Allocate
  BY <1>1, <1>2 DEF Allocate, Begin, ThreadTypes
<1>3. CASE SetupSession
  BY <1>1, <1>3 DEF SetupSession, Goto, ThreadTypes
<1>4. CASE FirstRecv
  BY <1>1, <1>4 DEF FirstRecv, RecvPosted, Finish, Goto, ThreadTypes
<1>5. CASE AcceptRelease
  <2>1. generation[slot[Acceptor]] # held[Acceptor]
    BY <1>5 DEF AcceptRelease
  <2> QED
    BY <1>1, <1>5, <2>1
       DEF AcceptRelease, Release, Finish, sessionVars, ThreadTypes
<1> QED
  BY <1>2, <1>3, <1>4, <1>5

LEMMA QuietWork ==
  ASSUME IInv, NEW w \in Workers, RecvClosed(w) \/ RecvData(w) \/ NextRecv(w)
  PROVE  Quiet(w)
<1> USE ThreadSets
    DEF Quiet, OnlyMoves, Outstanding, ioVars, gameVars, sessionVars, Goto
<1>1. ThreadTypes
  BY UserParts
<1>2. CASE RecvClosed(w)
  BY <1>1, <1>2 DEF RecvClosed, ThreadTypes
<1>3. CASE RecvData(w)
  BY <1>1, <1>3 DEF RecvData, ThreadTypes
<1>4. CASE NextRecv(w)
  BY <1>1, <1>4 DEF NextRecv, RecvPosted, ThreadTypes
<1> QED
  BY <1>2, <1>3, <1>4

LEMMA QuietLease ==
  ASSUME IInv, NEW l \in Leasers,
         \/ l \in Callers /\ (Lease(l) \/ SendCheck(l))
         \/ l \in Reapers /\ ReaperStep(l)
         \/ AbortLease(l)
  PROVE  Quiet(l)
<1> USE ThreadSets
    DEF Quiet, OnlyMoves, Outstanding, ioVars, gameVars, sessionVars
<1>1. ThreadTypes
  BY UserParts
<1>2. CASE Lease(l)
  BY <1>1, <1>2 DEF Lease, FindAndLease, Begin, ThreadTypes
<1>3. CASE SendCheck(l)
  BY <1>1, <1>3 DEF SendCheck, Goto, ThreadTypes
<1>4. CASE ReapScan(l)
  BY <1>1, <1>4 DEF ReapScan, Begin, ThreadTypes
<1>5. CASE ReapLease(l)
  BY <1>1, <1>5 DEF ReapLease, FindAndLease, Begin, Finish, ThreadTypes
<1>6. CASE ReapRecheck(l)
  BY <1>1, <1>6 DEF ReapRecheck, Goto, ThreadTypes
<1>7. CASE AbortLease(l)
  BY <1>1, <1>7 DEF AbortLease, Finish, ThreadTypes
<1> QED
  BY <1>2, <1>3, <1>4, <1>5, <1>6, <1>7 DEF ReaperStep

LEMMA QuietTeardown ==
  ASSUME IInv, NEW t \in Threads, CloseSocket(t) \/ DecPendingIo(t)
  PROVE  Quiet(t)
<1> USE DEF Quiet, OnlyMoves, Outstanding, ioVars, gameVars, Goto
<1>1. ThreadTypes
  BY UserParts
<1>2. CASE CloseSocket(t)
  BY <1>1, <1>2 DEF CloseSocket, ThreadTypes
<1>3. CASE DecPendingIo(t)
  BY <1>1, <1>3 DEF DecPendingIo, Return, ThreadTypes
<1> QED
  BY <1>2, <1>3

-----------------------------------------------------------------------------
(* Sending.                                                                *)
SendSame(s) ==
  \A x \in Slots \ {s} :
    /\ sendInProgress'[x] = sendInProgress[x] /\ queued'[x] = queued[x]
    /\ inFlight'[x] = inFlight[x] /\ disconnecting'[x] = disconnecting[x]

LEMMA SendElsewhere ==
  ASSUME SendOwned, SendsGoOn, NEW t \in Threads, OnlyMoves(t), NEW s,
         slot[t] \in {s, NoSlot},
         \A io \in Outstanding : io.slot # s => io \in Outstanding',
         SendSame(s), SendOwnedAt(s)', NotStalled(s)'
  PROVE  SendOwned' /\ SendsGoOn'
<1> USE DEF SendSame
<1> SUFFICES ASSUME NEW x \in Slots, x # s
             PROVE  SendOwnedAt(x)' /\ NotStalled(x)'
  BY DEF SendOwned, SendsGoOn, NotStalled
<1>1. \A u \in Threads : slot[u] = x => slot'[u] = x /\ pc'[u] = pc[u]
  BY SessionPoolAssumption DEF OnlyMoves
<1>2. SendOwnedAt(x)'
  BY <1>1 DEF SendOwned, SendOwnedAt
<1>3. NotStalled(x)'
  BY <1>1 DEF SendsGoOn, NotStalled
<1> QED
  BY <1>2, <1>3

LEMMA DequeueEvents ==
  ASSUME EInv, NEW w \in Workers, Dequeue(w)
  PROVE  SendOwned' /\ SendsGoOn' /\ NoticeOnce'
<1>1. PICK io \in completed :
        /\ completed' = completed \ {io}
        /\ IF generation[io.slot] = io.gen
           THEN Begin(w, io.op, io.slot, 1)
           ELSE UNCHANGED threadVars
  BY DEF Dequeue
<1>2. /\ ThreadTypes /\ PoolTypes /\ w \in Threads /\ slot[w] = NoSlot
      /\ generation[io.slot] = io.gen /\ io.slot \in Slots
      /\ io.op \in {"recv", "send"}
  BY ThreadSets, UserParts, <1>1
     DEF EInv, IoCurrent, Outstanding, PoolTypes, IoType, ThreadTypes, Dequeue
<1>3. /\ OnlyMoves(w) /\ slot'[w] = io.slot /\ pc'[w] = io.op
      /\ pc[w] = "idle"
  BY <1>1, <1>2 DEF OnlyMoves, Begin, ThreadTypes, Dequeue
<1>4. /\ Outstanding' = Outstanding \ {io} \/ Outstanding' = Outstanding
      /\ UNCHANGED <<generation, sendInProgress, inFlight, queued,
                     disconnecting, notices>>
  BY <1>1 DEF Dequeue, Outstanding, sessionVars, gameVars
<1>5. SendOwnedAt(io.slot)'
  <2>1. ASSUME NEW j \in Outstanding, j.slot = io.slot, j.op = "send"
        PROVE  j \in Outstanding' \/ pc'[w] = "send"
    BY <1>3, <1>4, <2>1
  <2>2. \A u \in Threads : pc[u] = "send" => slot'[u] = slot[u] /\ pc'[u] = "send"
    BY <1>3 DEF OnlyMoves
  <2> QED
    BY <1>2, <1>3, <1>4, <2>1, <2>2 DEF EInv, SendOwned, SendOwnedAt
<1>6. NotStalled(io.slot)'
  BY <1>2, <1>3, <1>4 DEF EInv, SendsGoOn, NotStalled, OnlyMoves
<1>7. SendOwned' /\ SendsGoOn'
  BY <1>2, <1>3, <1>4, <1>5, <1>6, SendElsewhere DEF EInv, SendSame
<1>8. \A h : Noticed(h)' <=> Noticed(h)
  BY <1>2, <1>3, <1>4 DEF Noticed, OnlyMoves
<1> QED
  BY <1>4, <1>7, <1>8 DEF EInv, NoticeOnce

(* A post of the send context, and what follows a failed one.              *)
LEMMA PostEvents ==
  ASSUME EInv, NEW t \in Threads, pc[t] \in {"send", "enqueue"},
         NEW batches \in Nat \ {0}, PostSend(t, slot[t], batches),
         UNCHANGED <<generation, disconnecting, completed, notices, slot, held>>,
         \A x \in Slots \ {slot[t]} : queued'[x] = queued[x]
  PROVE  SendOwned' /\ SendsGoOn'
<1> DEFINE s == slot[t]
<1>1. ThreadTypes /\ PoolTypes /\ s \in Slots /\ sessionId[s] \in Nat
  BY UserParts, UsesSlot DEF EInv, Using, PoolTypes
<1>2. OnlyMoves(t) /\ slot'[t] = s
  BY <1>1 DEF PostSend, Goto, OnlyMoves, ThreadTypes
<1>3. Io(s, "send").slot = s /\ Io(s, "send").op = "send"
  BY <1>1, IoFields
<1>4. CASE posted' = posted \cup {Io(s, "send")} /\ Goto(t, "dec")
           /\ \E n \in 1 .. batches : inFlight' = [inFlight EXCEPT ![s] = n]
           /\ sendInProgress' = [sendInProgress EXCEPT ![s] = TRUE]
  <2>1. Io(s, "send") \in Outstanding' /\ Outstanding \subseteq Outstanding'
    BY <1>4 DEF Outstanding
  <2>2. SendOwnedAt(s)'
    BY <1>1, <1>3, <1>4, <2>1 DEF SendOwnedAt, PoolTypes
  <2>3. NotStalled(s)'
    BY <1>1, <1>4 DEF NotStalled, PoolTypes
  <2> QED
    <3>1. SendSame(s)
      BY <1>1, <1>4 DEF SendSame, PoolTypes
    <3> QED
      BY <1>2, <2>1, <2>2, <2>3, <3>1, SendElsewhere DEF EInv
<1>5. CASE posted' = posted /\ Goto(t, "cas")
           /\ inFlight' = [inFlight EXCEPT ![s] = 0]
           /\ sendInProgress' = [sendInProgress EXCEPT ![s] = FALSE]
  <2>1. Outstanding' = Outstanding /\ pc'[t] = "cas"
    BY <1>1, <1>5 DEF Outstanding, Goto, ThreadTypes
  <2>2. SendOwnedAt(s)'
    BY <1>1, <1>5 DEF SendOwnedAt, PoolTypes
  <2>3. NotStalled(s)'
    BY <1>2, <2>1 DEF NotStalled
  <2> QED
    <3>1. SendSame(s)
      BY <1>1, <1>5 DEF SendSame, PoolTypes
    <3> QED
      BY <1>2, <2>1, <2>2, <2>3, <3>1, SendElsewhere DEF EInv
<1> QED
  BY <1>4, <1>5 DEF PostSend

LEMMA SendFailedEvents ==
  ASSUME EInv, NEW w \in Workers, SendFailed(w)
  PROVE  SendOwned' /\ SendsGoOn'
<1> DEFINE s == slot[w]
<1>1. ThreadTypes /\ PoolTypes /\ s \in Slots /\ w \in Threads
  BY ThreadSets, UserParts, UsesSlot DEF EInv, Using, SendFailed
<1>2. OnlyMoves(w) /\ slot'[w] = s /\ pc'[w] = "cas" /\ Outstanding' = Outstanding
  BY <1>1 DEF SendFailed, Goto, OnlyMoves, ThreadTypes, Outstanding, ioVars
<1>3. SendOwnedAt(s)'
  BY <1>1 DEF SendFailed, SendOwnedAt, PoolTypes
<1>4. NotStalled(s)'
  BY <1>1, <1>2 DEF NotStalled
<1>5. SendSame(s)
  BY <1>1 DEF SendFailed, SendSame, PoolTypes
<1> QED
  BY <1>1, <1>2, <1>3, <1>4, <1>5, SendElsewhere DEF EInv

LEMMA SendDoneEvents ==
  ASSUME EInv, NEW w \in Workers, SendDone(w)
  PROVE  SendOwned' /\ SendsGoOn'
<1> DEFINE s == slot[w]
           left == queued[s] - inFlight[s]
<1>1. ThreadTypes /\ PoolTypes /\ s \in Slots /\ w \in Threads /\ left \in Nat
  <2>1. ThreadTypes /\ PoolTypes /\ SlotsOK /\ s \in Slots /\ w \in Threads
    BY ThreadSets, UserParts, UsesSlot DEF EInv, Using, SendDone
  <2> QED
    BY SMTT(60), <2>1, SessionPoolAssumption DEF SlotsOK, PoolTypes
<1>2. CASE left > 0 /\ PostSend(w, s, left)
  <2>1. /\ pc[w] = "send" /\ left \in Nat \ {0}
        /\ UNCHANGED <<generation, disconnecting, completed, notices, slot, held>>
        /\ \A x \in Slots \ {s} : queued'[x] = queued[x]
    BY <1>1, <1>2 DEF SendDone, gameVars, PoolTypes
  <2> QED
    BY <1>1, <1>2, <2>1, PostEvents
<1>3. CASE left <= 0 /\ Goto(w, "dec") /\ UNCHANGED posted
           /\ sendInProgress' = [sendInProgress EXCEPT ![s] = FALSE]
           /\ inFlight' = [inFlight EXCEPT ![s] = 0]
  <2>1. OnlyMoves(w) /\ slot'[w] = s /\ Outstanding' = Outstanding
    BY <1>1, <1>3 DEF SendDone, Goto, OnlyMoves, ThreadTypes, Outstanding
  <2>2. queued' = [queued EXCEPT ![s] = left] /\ queued'[s] = 0
    BY <1>1, <1>3 DEF SendDone, PoolTypes
  <2>3. SendOwnedAt(s)' /\ NotStalled(s)'
    <3>1. ~ sendInProgress'[s] /\ ~ (inFlight'[s] > 0) /\ ~ (queued'[s] > 0)
      BY <1>1, <1>3, <2>2 DEF PoolTypes
    <3> QED
      BY <2>1, <3>1 DEF SendOwnedAt, NotStalled
  <2> QED
    <3>1. SendSame(s)
      BY <1>1, <1>3, <2>2 DEF SendDone, SendSame, PoolTypes
    <3> QED
      BY <1>1, <2>1, <2>3, <3>1, SendElsewhere DEF EInv
<1> QED
  BY <1>2, <1>3 DEF SendDone

LEMMA SendEnqueueEvents ==
  ASSUME EInv, NEW c \in Callers, SendEnqueue(c)
  PROVE  SendOwned' /\ SendsGoOn'
<1> DEFINE s == slot[c]
<1>1. ThreadTypes /\ PoolTypes /\ s \in Slots /\ c \in Threads
      /\ queued[s] \in Nat
  <2>1. ThreadTypes /\ PoolTypes /\ s \in Slots /\ c \in Threads
    BY ThreadSets, UserParts, UsesSlot DEF EInv, Using, SendEnqueue
  <2> QED
    BY <2>1, SessionPoolAssumption DEF PoolTypes
<1>2. CASE UNCHANGED <<sendInProgress, queued, inFlight, posted>>
  <2>1. OnlyMoves(c) /\ Outstanding' = Outstanding
    BY <1>1, <1>2
       DEF SendEnqueue, DropBatch, PostSend, Goto, OnlyMoves, ThreadTypes, Outstanding
  <2>2. \A u \in Threads : pc[u] \in {"send", "cas"}
          => slot'[u] = slot[u] /\ pc'[u] = pc[u]
    BY <2>1 DEF SendEnqueue, OnlyMoves
  <2> QED
    BY <1>2, <2>1, <2>2
       DEF SendEnqueue, EInv, SendOwned, SendOwnedAt, SendsGoOn
<1>3. CASE queued' = [queued EXCEPT ![s] = @ + 1] /\ PostSend(c, s, queued[s] + 1)
  <2>1. /\ pc[c] = "enqueue" /\ queued[s] + 1 \in Nat \ {0}
        /\ UNCHANGED <<generation, disconnecting, completed, notices, slot, held>>
        /\ \A x \in Slots \ {s} : queued'[x] = queued[x]
    BY <1>1, <1>3 DEF SendEnqueue, gameVars, PoolTypes
  <2> QED
    BY <1>1, <1>3, <2>1, PostEvents
<1>4. CASE /\ queued' = [queued EXCEPT ![s] = @ + 1] /\ ~ MayPost(s)
           /\ Goto(c, "dec")
           /\ UNCHANGED <<sendInProgress, inFlight, posted, owe>>
  <2>1. OnlyMoves(c) /\ slot'[c] = s /\ Outstanding' = Outstanding
    BY <1>1, <1>4 DEF SendEnqueue, Goto, OnlyMoves, ThreadTypes, Outstanding
  <2>2. SendOwnedAt(s)' /\ NotStalled(s)'
    BY <1>1, <1>4, <2>1
       DEF SendEnqueue, EInv, SendOwned, SendOwnedAt, NotStalled, MayPost, OnlyMoves
  <2> QED
    <3>1. SendSame(s)
      BY <1>1, <1>4 DEF SendEnqueue, SendSame, PoolTypes
    <3> QED
      BY <1>1, <2>1, <2>2, <3>1, SendElsewhere DEF EInv
<1> QED
  BY <1>2, <1>3, <1>4 DEF SendEnqueue

LEMMA DisconnectEvents ==
  ASSUME EInv, NEW t \in Threads, DisconnectCas(t)
  PROVE  SendOwned' /\ SendsGoOn'
<1> DEFINE s == slot[t]
<1>1. ThreadTypes /\ PoolTypes /\ s \in Slots
  BY UserParts, UsesSlot DEF EInv, Using, DisconnectCas
<1>2. /\ OnlyMoves(t) /\ slot'[t] = s /\ Outstanding' = Outstanding
      /\ disconnecting'[s]
  BY <1>1
     DEF DisconnectCas, Goto, OnlyMoves, ThreadTypes, PoolTypes, Outstanding, ioVars
<1>3. SendOwnedAt(s)' /\ NotStalled(s)'
  BY <1>1, <1>2
     DEF DisconnectCas, EInv, SendOwned, SendOwnedAt, NotStalled, OnlyMoves
<1>4. SendSame(s)
  BY <1>1 DEF DisconnectCas, SendSame, PoolTypes
<1> QED
  BY <1>1, <1>2, <1>3, <1>4, SendElsewhere DEF EInv

(* The thread that resets a session is the only one that has it.           *)
LEMMA ReleaseFields ==
  ASSUME EInv, NEW t \in Threads, SelfRelease(t)
  PROVE  /\ slot[t] \in Slots /\ pc[t] = "release"
         /\ sessionId[slot[t]] = generation[slot[t]]
         /\ generation[slot[t]] \in 1 .. MaxGen
         /\ freeList' = <<slot[t]>> \o freeList
         /\ generation' = [generation EXCEPT ![slot[t]] = @ + 1]
         /\ sendInProgress' = [sendInProgress EXCEPT ![slot[t]] = FALSE]
         /\ queued' = [queued EXCEPT ![slot[t]] = 0]
         /\ inFlight' = [inFlight EXCEPT ![slot[t]] = 0]
         /\ disconnecting' = [disconnecting EXCEPT ![slot[t]] = FALSE]
         /\ OnlyMoves(t) /\ pc'[t] \in {"dec", "acceptRelease", "idle"}
         /\ slot'[t] \in {slot[t], NoSlot}
         /\ Outstanding' = Outstanding /\ UNCHANGED <<known, notices>>
<1>1. ThreadTypes /\ pc[t] = "release"
  BY UserParts DEF EInv, SelfRelease
<1>2. /\ slot[t] \in Slots /\ sessionId[slot[t]] = generation[slot[t]]
      /\ generation[slot[t]] \in 1 .. MaxGen
  BY <1>1, UsesSlot DEF EInv, Using
<1>3. Release(slot[t], sessionId[slot[t]])
  BY DEF SelfRelease
<1>4. OnlyMoves(t) /\ pc'[t] \in {"dec", "acceptRelease", "idle"}
      /\ slot'[t] \in {slot[t], NoSlot}
  BY <1>1 DEF SelfRelease, Return, Goto, OnlyMoves, ThreadTypes
<1> QED
  BY <1>1, <1>2, <1>3, <1>4
     DEF SelfRelease, Release, Outstanding, ioVars, gameVars

LEMMA ReleaseEvents ==
  ASSUME EInv, NEW t \in Threads, SelfRelease(t)
  PROVE  SendOwned' /\ SendsGoOn'
<1>0. PICK s \in Slots : s = slot[t]
  BY ReleaseFields
<1>1. PoolTypes
      /\ sendInProgress' = [sendInProgress EXCEPT ![s] = FALSE]
      /\ queued' = [queued EXCEPT ![s] = 0] /\ inFlight' = [inFlight EXCEPT ![s] = 0]
      /\ disconnecting' = [disconnecting EXCEPT ![s] = FALSE]
  BY <1>0, UserParts, ReleaseFields DEF EInv
<1>2. SendOwnedAt(s)' /\ NotStalled(s)'
  <2>1. ~ sendInProgress'[s] /\ ~ (inFlight'[s] > 0) /\ ~ (queued'[s] > 0)
    BY <1>1 DEF PoolTypes
  <2> QED
    BY <2>1 DEF SendOwnedAt, NotStalled
<1>3. SendSame(s)
  BY <1>1 DEF SendSame, PoolTypes
<1>4. OnlyMoves(t) /\ Outstanding' = Outstanding
  BY ReleaseFields
<1> QED
  BY <1>0, <1>2, <1>3, <1>4, SendElsewhere DEF EInv

-----------------------------------------------------------------------------
(* Notices.                                                                *)
LEMMA NoticeQuiet ==
  ASSUME NoticeOnce, NEW t \in Threads, OnlyMoves(t),
         pc[t] # "release", pc'[t] # "release", UNCHANGED <<generation, notices>>
  PROVE  NoticeOnce'
<1>1. \A u \in Threads :
        /\ pc[u] = "release" => slot'[u] = slot[u] /\ pc'[u] = "release"
        /\ pc'[u] = "release" => slot'[u] = slot[u] /\ pc[u] = "release"
  BY DEF OnlyMoves
<1>2. \A h : Noticed(h)' <=> Noticed(h)
  BY <1>1 DEF Noticed
<1> QED
  BY <1>2 DEF NoticeOnce

LEMMA NotifyEvents ==
  ASSUME EInv, NEW t \in Threads, NotifyDisconnect(t)
  PROVE  /\ SendOwned' /\ SendsGoOn' /\ NoticeOnce'
         /\ notices[<<slot[t], generation[slot[t]]>>] = 0
         /\ notices' = [notices EXCEPT ![<<slot[t], generation[slot[t]]>>] = 1]
<1>0. ThreadTypes /\ PoolTypes /\ IInv /\ pc[t] = "notify"
  BY UserParts DEF EInv, NotifyDisconnect
<1>1. PICK s \in Slots : s = slot[t] /\ sessionId[s] = generation[s]
                      /\ generation[s] \in 1 .. MaxGen
  BY <1>0, UsesSlot DEF EInv, Using
<1>2. OnlyMoves(t) /\ slot'[t] = s /\ pc'[t] = "release" /\ Outstanding' = Outstanding
      /\ UNCHANGED <<generation, disconnecting, sendInProgress, queued, inFlight>>
  BY <1>0, <1>1
     DEF NotifyDisconnect, Goto, OnlyMoves, ThreadTypes, Outstanding, ioVars, sessionVars
<1>3. \A u \in Threads : slot[u] = s => pc[u] # "release"
  BY <1>0, <1>1, SoleCloser DEF Using
<1>4. \A u \in Threads : u # t => slot'[u] = slot[u] /\ pc'[u] = pc[u]
  BY <1>2 DEF OnlyMoves
<1>5. PICK h \in Handles : h = <<s, generation[s]>> /\ h[1] = s /\ h[2] = generation[s]
  <2>1. <<s, generation[s]>> \in Handles
    BY <1>1 DEF Handles
  <2> QED
    BY <2>1
<1>6. \A g \in Handles : g # h => g[1] # s \/ g[2] # generation[s]
  BY <1>1, <1>5 DEF Handles
<1>7. ~ Noticed(h) /\ Noticed(h)'
  BY <1>0, <1>1, <1>2, <1>3, <1>5 DEF Noticed, PoolTypes
<1>8. \A g \in Handles : g # h => (Noticed(g)' <=> Noticed(g))
  BY <1>0, <1>1, <1>2, <1>4, <1>6 DEF Noticed
<1>9. notices[h] = 0 /\ notices' = [notices EXCEPT ![h] = 1]
  <2>1. notices[h] = 0
    BY <1>7 DEF EInv, NoticeOnce
  <2>2. notices' = [notices EXCEPT ![h] = notices[h] + 1]
    BY <1>1, <1>5 DEF NotifyDisconnect
  <2> QED
    BY <2>1, <2>2
<1>10. NoticeOnce'
  BY <1>0, <1>7, <1>8, <1>9 DEF EInv, NoticeOnce, PoolTypes
<1>11. SendOwned' /\ SendsGoOn'
  <2>1. \A u \in Threads : pc[u] \in {"send", "cas"}
          => slot'[u] = slot[u] /\ pc'[u] = pc[u]
    BY <1>0, <1>4
  <2> QED
    BY <1>2, <2>1 DEF EInv, SendOwned, SendOwnedAt, SendsGoOn
<1> QED
  BY <1>1, <1>5, <1>9, <1>10, <1>11

LEMMA ReleaseNotice ==
  ASSUME EInv, NEW t \in Threads, SelfRelease(t)
  PROVE  NoticeOnce' /\ notices[<<slot[t], generation[slot[t]]>>] = 1
<1>0. PoolTypes /\ IInv /\ pc[t] = "release" /\ notices' = notices
  BY UserParts, ReleaseFields DEF EInv
<1>1. PICK s \in Slots : s = slot[t] /\ generation[s] \in 1 .. MaxGen
                      /\ generation' = [generation EXCEPT ![s] = @ + 1]
  BY ReleaseFields
<1>2. OnlyMoves(t) /\ pc'[t] # "release"
  BY ReleaseFields
<1>3. \A u \in Threads : u # t /\ slot[u] = s => pc[u] # "release"
  BY <1>0, <1>1, SoleCloser DEF Using
<1>4. \A u \in Threads : u # t => slot'[u] = slot[u] /\ pc'[u] = pc[u]
  BY <1>2 DEF OnlyMoves
<1>5. \A h \in Handles : h[1] \in Slots /\ h[2] \in Nat
  BY SessionPoolAssumption DEF Handles
<1>6. \A h \in Handles : h[1] = s => (Noticed(h) <=> h[2] <= generation[s])
  BY SMTT(60), <1>0, <1>1, <1>3, <1>5 DEF Noticed, PoolTypes
<1>7. \A h \in Handles : h[1] = s => (Noticed(h)' <=> h[2] <= generation[s])
  <2>1. generation'[s] = generation[s] + 1
    BY <1>0, <1>1 DEF PoolTypes
  <2>2. \A u \in Threads : ~ (slot'[u] = s /\ pc'[u] = "release")
    BY <1>2, <1>3, <1>4
  <2> QED
    BY SMTT(60), <1>0, <1>1, <1>5, <2>1, <2>2 DEF Noticed, PoolTypes
<1>8. \A h \in Handles : h[1] # s => (Noticed(h)' <=> Noticed(h))
  BY ZenonT(60), <1>0, <1>1, <1>2, <1>4, <1>5 DEF Noticed, PoolTypes
<1>9. NoticeOnce'
  BY <1>0, <1>6, <1>7, <1>8 DEF EInv, NoticeOnce
<1>10. <<s, generation[s]>> \in Handles /\ Noticed(<<s, generation[s]>>)
  BY <1>0, <1>1 DEF Handles, Noticed
<1> QED
  BY <1>1, <1>9, <1>10 DEF EInv, NoticeOnce

LEMMA EventsStep ==
  ASSUME EInv, ~ overtaken', [Next]_vars
  PROVE  SendOwned' /\ SendsGoOn' /\ NoticeOnce'
<1> USE ThreadSets
<1>0. ThreadTypes /\ IInv
  BY UserParts DEF EInv
<1>1. CASE AcceptStep
  BY <1>0, <1>1, QuietAccept, QuietEvents DEF AcceptStep, EInv
<1>2. ASSUME NEW w \in Workers, WorkerStep(w)
      PROVE  SendOwned' /\ SendsGoOn' /\ NoticeOnce'
  <2>1. CASE Dequeue(w)
    BY <2>1, DequeueEvents
  <2>2. CASE RecvClosed(w) \/ RecvData(w) \/ NextRecv(w)
    BY <1>0, <2>2, QuietWork, QuietEvents DEF EInv
  <2>3. CASE SendFailed(w) \/ SendDone(w)
    <3>1. OnlyMoves(w) /\ pc[w] # "release" /\ pc'[w] # "release"
          /\ UNCHANGED <<generation, notices>>
      BY <1>0, <2>3
         DEF SendFailed, SendDone, PostSend, Goto, OnlyMoves, ThreadTypes, gameVars
    <3> QED
      BY <2>3, <3>1, SendFailedEvents, SendDoneEvents, NoticeQuiet DEF EInv
  <2> QED
    BY <1>2, <2>1, <2>2, <2>3 DEF WorkerStep
<1>3. ASSUME NEW c \in Callers, CallerStep(c)
      PROVE  SendOwned' /\ SendsGoOn' /\ NoticeOnce'
  <2>1. CASE Lease(c) \/ SendCheck(c)
    <3>1. Quiet(c)
      BY <1>0, <2>1, QuietLease DEF Leasers
    <3> QED
      BY <3>1, QuietEvents DEF EInv
  <2>2. CASE SendEnqueue(c)
    <3>1. OnlyMoves(c) /\ pc[c] # "release" /\ pc'[c] # "release"
          /\ UNCHANGED <<generation, notices>>
      BY <1>0, <2>2
         DEF SendEnqueue, DropBatch, PostSend, Goto, OnlyMoves, ThreadTypes, gameVars
    <3> QED
      BY <2>2, <3>1, SendEnqueueEvents, NoticeQuiet DEF EInv
  <2> QED
    BY <1>3, <2>1, <2>2 DEF CallerStep
<1>4. ASSUME NEW r \in Reapers, ReaperStep(r)
      PROVE  SendOwned' /\ SendsGoOn' /\ NoticeOnce'
  <2>1. Quiet(r)
    BY <1>0, <1>4, QuietLease DEF Leasers
  <2> QED
    BY <2>1, QuietEvents DEF EInv
<1>5. ASSUME NEW l \in Leasers, AbortLease(l)
      PROVE  SendOwned' /\ SendsGoOn' /\ NoticeOnce'
  <2>1. Quiet(l)
    BY <1>0, <1>5, QuietLease
  <2> QED
    BY <2>1, QuietEvents DEF EInv
<1>6. ASSUME NEW t \in Threads, TeardownStep(t)
      PROVE  SendOwned' /\ SendsGoOn' /\ NoticeOnce'
  <2>1. CASE DisconnectCas(t)
    <3>1. OnlyMoves(t) /\ pc[t] # "release" /\ pc'[t] # "release"
          /\ UNCHANGED <<generation, notices>>
      BY <1>0, <2>1 DEF DisconnectCas, Goto, OnlyMoves, ThreadTypes, gameVars
    <3> QED
      BY <2>1, <3>1, DisconnectEvents, NoticeQuiet DEF EInv
  <2>2. CASE CloseSocket(t) \/ DecPendingIo(t)
    BY <1>0, <2>2, QuietTeardown, QuietEvents DEF EInv
  <2>3. CASE NotifyDisconnect(t)
    BY <2>3, NotifyEvents
  <2>4. CASE SelfRelease(t)
    BY <2>4, ReleaseEvents, ReleaseNotice
  <2> QED
    BY <1>6, <2>1, <2>2, <2>3, <2>4 DEF TeardownStep
<1>7. ASSUME \/ \E io \in posted : Complete(io)
             \/ \E s \in Slots : Expire(s)
             \/ UNCHANGED vars
      PROVE  SendOwned' /\ SendsGoOn' /\ NoticeOnce'
  <2>1. /\ Outstanding' = Outstanding
        /\ UNCHANGED <<generation, disconnecting, sendInProgress, queued, inFlight,
                       notices, pc, slot>>
    BY <1>7 DEF Complete, Expire, vars, sessionVars, ioVars, gameVars, threadVars,
                Outstanding
  <2>2. \A h : Noticed(h)' <=> Noticed(h)
    BY <2>1 DEF Noticed
  <2> QED
    BY <2>1, <2>2
       DEF EInv, SendOwned, SendOwnedAt, SendsGoOn, NoticeOnce
<1> QED
  BY <1>1, <1>2, <1>3, <1>4, <1>5, <1>6, <1>7 DEF Next

LEMMA EventsInit == Init => EInv
<1> SUFFICES ASSUME Init PROVE EInv
  OBVIOUS
<1>1. IInv
  BY InitType, InitSafe DEF IInv
<1>2. FreshFree /\ SendOwned /\ SendsGoOn
  BY DEF Init, FreshFree, SendOwned, SendOwnedAt, SendsGoOn
<1>3. NoticeOnce
  <2>1. \A h \in Handles : h[1] \in Slots /\ h[2] \in Nat \ {0}
    BY SessionPoolAssumption DEF Handles
  <2> QED
    BY <2>1 DEF Init, NoticeOnce, Noticed
<1> QED
  BY <1>1, <1>2, <1>3 DEF EInv

LEMMA EInvStep == EInv /\ ~ overtaken' /\ [Next]_vars => EInv'
  BY SafeStep, FreshFreeStep, EventsStep DEF EInv

LEMMA EventsInductive == Spec => [](overtaken \/ EInv)
<1> DEFINE Inv == overtaken \/ EInv
<1>1. Init => Inv
  BY EventsInit
<1>2. Inv /\ [Next]_vars => Inv'
  BY EInvStep, StaysOvertaken
<1> QED
  BY <1>1, <1>2, PTL DEF Spec

-----------------------------------------------------------------------------
(* The free list.                                                          *)
LEMMA NothingPending ==
  ASSUME IInv, NEW s \in Slots, ~ InUse(s) PROVE pendingIo[s] = 0
<1>1. TypeInv /\ Counted /\ UserOK /\ IoCurrent /\ ThreadsOK /\ ThreadTypes
  BY UserParts DEF IInv
<1>2. NoIo(s)
  BY <1>1 DEF NoIo, IoCurrent
<1>3. ASSUME NEW u \in Threads, slot[u] = s PROVE owe[u] = 0
  <2>1. pc[u] \in {"idle", "scanned", "acceptRelease"}
    BY <1>1, <1>3 DEF UserOK, Using
  <2> QED
    BY <1>1, <2>1 DEF ThreadsOK, OweOK
<1> QED
  BY <1>1, <1>2, <1>3, NoReferences

(***************************************************************************)
(* No slot is on the free list twice, and the slots there are as           *)
(* Session::Reset left them: no send path, sweep or late disconnect writes *)
(* to a session between its Release and the next Allocate.  So it stays    *)
(* until a lease inside OnAcceptComplete came to harm (`overtaken`).       *)
(***************************************************************************)
THEOREM FreeListIsSound == Spec => []FreeListSound
<1>1. overtaken \/ EInv => FreeListSound
  BY NothingPending, UserParts
     DEF EInv, FreeListSound, FreshFree, FreeUnique
<1> QED
  BY <1>1, EventsInductive, PTL

-----------------------------------------------------------------------------
(* Counting owners.                                                        *)
LEMMA AtMostOne ==
  ASSUME NEW A, \A x, y \in A : x = y
  PROVE  Cardinality(A) = IF A = {} THEN 0 ELSE 1
<1>1. CASE A = {}
  BY <1>1, FS_EmptySet
<1>2. ASSUME NEW x \in A PROVE Cardinality(A) = 1
  <2>1. A = {x}
    OBVIOUS
  <2> QED
    BY <2>1, FS_Singleton
<1> QED
  BY <1>1, <1>2

(* The operations and the workers that own one context of one session.     *)
OwningIo(s, op)      == {io \in Outstanding : io.slot = s /\ io.op = op}
OwningWork(s, steps) == {w \in Workers : slot[w] = s /\ pc[w] \in steps}

LEMMA OneIo ==
  ASSUME IInv, NEW s \in Slots, NEW op \in {"recv", "send"}
  PROVE  Cardinality(OwningIo(s, op)) = IF OwningIo(s, op) = {} THEN 0 ELSE 1
<1>1. ASSUME NEW x \in OwningIo(s, op) PROVE x = [slot |-> s, gen |-> generation[s], op |-> op]
  <2>1. x \in IoType /\ x.gen = generation[s] /\ x.slot = s /\ x.op = op
    BY UserParts DEF OwningIo, IoCurrent, Outstanding, PoolTypes
  <2> QED
    BY <2>1 DEF IoType
<1> QED
  BY <1>1, AtMostOne

LEMMA OneReceiver ==
  ASSUME IInv, NEW s \in Slots
  PROVE  Cardinality(OwningIo(s, "recv"))
           + Cardinality(OwningWork(s, {"recv", "nextRecv"})) <= 1
<1> DEFINE I == OwningIo(s, "recv")
           W == OwningWork(s, {"recv", "nextRecv"})
<1>1. Cardinality(I) = IF I = {} THEN 0 ELSE 1
  BY OneIo
<1>2. \A v, w \in W : v = w
  BY UserParts, ThreadSets DEF RecvAlone, OwningWork
<1>3. Cardinality(W) = IF W = {} THEN 0 ELSE 1
  BY <1>2, AtMostOne
<1>4. W # {} => I = {}
  BY UserParts, ThreadSets DEF RecvAlone, OwningWork, OwningIo
<1> QED
  BY <1>1, <1>3, <1>4

LEMMA OneSender ==
  ASSUME EInv, NEW s \in Slots
  PROVE  Cardinality(OwningIo(s, "send")) + Cardinality(OwningWork(s, {"send"}))
           = IF sendInProgress[s] THEN 1 ELSE 0
<1> DEFINE I == OwningIo(s, "send")
           W == OwningWork(s, {"send"})
<1>1. Cardinality(I) = IF I = {} THEN 0 ELSE 1
  BY OneIo DEF EInv
<1>2. \A v, w \in W : v = w
  BY UserParts, ThreadSets DEF EInv, SendAlone, OwningWork
<1>3. Cardinality(W) = IF W = {} THEN 0 ELSE 1
  BY <1>2, AtMostOne
<1>4. W # {} => I = {}
  BY UserParts, ThreadSets DEF EInv, SendAlone, OwningWork, OwningIo
<1>5. W # {} \/ I # {} => sendInProgress[s]
  BY UserParts, ThreadSets DEF EInv, SendAlone, OwningWork, OwningIo
<1>6. sendInProgress[s] => W # {} \/ I # {}
  <2>1. \A t \in Threads : pc[t] = "send" => t \in Workers
    BY UserParts DEF EInv, ThreadsOK, RoleOK, Teardown
  <2> QED
    BY <2>1 DEF EInv, SendOwned, SendOwnedAt, OwningIo, OwningWork
<1> QED
  BY <1>1, <1>3, <1>4, <1>5, <1>6

(***************************************************************************)
(* m_recvContext and m_sendContext have one owner each: the kernel, a      *)
(* queued completion or one worker.  m_sendInProgress is the truth about   *)
(* the one WSASend there may be, whose bytes are still in the ring.  So it *)
(* stays until a lease inside OnAcceptComplete came to harm (`overtaken`). *)
(***************************************************************************)
THEOREM ContextsHaveOneOwner == Spec => []OneOwnerPerContext
<1>1. overtaken \/ EInv => OneOwnerPerContext
  <2> SUFFICES ASSUME EInv PROVE OneOwnerPerContext
    BY DEF OneOwnerPerContext
  <2>1. \A s \in Slots : inFlight[s] <= queued[s]
    BY UserParts DEF EInv, SlotsOK
  <2>2. \A s \in Slots : sendInProgress[s] <=> inFlight[s] > 0
    BY DEF EInv, SendOwned, SendOwnedAt
  <2>3. IInv
    BY DEF EInv
  <2> QED
    BY <2>1, <2>2, <2>3, OneReceiver, OneSender
       DEF OneOwnerPerContext, OwningIo, OwningWork
<1> QED
  BY <1>1, EventsInductive, PTL

(***************************************************************************)
(* Bytes accepted by Session::Send are on their way to WSASend, or the     *)
(* session is on its way to Disconnect: nothing waits for a Send that may  *)
(* never come.  So it stays until a lease inside OnAcceptComplete came to  *)
(* harm (`overtaken`).                                                     *)
(***************************************************************************)
THEOREM SendsNeverStall == Spec => []NoStalledSend
<1>1. overtaken \/ EInv => NoStalledSend
  BY DEF EInv, NoStalledSend
<1> QED
  BY <1>1, EventsInductive, PTL

-----------------------------------------------------------------------------
(* The contract of NetEvents, step by step.                                *)
Silent == UNCHANGED <<generation, sessionId, freeList, known, notices>>

LEMMA SilentStutters == Silent => UNCHANGED Contract!vars
  BY DEF Silent, Contract!vars, Alive, InUse

(* While a thread other than the one that tears it down uses a session,    *)
(* Find resolves its handle and its notice has not been given.             *)
LEMMA UnderWay ==
  ASSUME EInv, NEW t \in Threads, Using(t), pc[t] # "release",
         NEW s \in Slots, s = slot[t]
  PROVE  /\ sessionId[s] = generation[s] /\ <<s, generation[s]>> \in Handles
         /\ <<s, generation[s]>> \in Alive
         /\ notices[<<s, generation[s]>>] = 0
<1>1. /\ InUse(s) /\ sessionId[s] = generation[s] /\ generation[s] \in 1 .. MaxGen
  BY UsesSlot DEF EInv
<1>2. <<s, generation[s]>> \in Handles /\ <<s, generation[s]>> \in Alive
  BY <1>1 DEF Handles, Alive
<1>3. \A u \in Threads : slot[u] = s => pc[u] # "release"
  BY SoleCloser DEF EInv
<1>4. ~ Noticed(<<s, generation[s]>>)
  BY <1>1, <1>3 DEF Noticed
<1> QED
  BY <1>1, <1>2, <1>4 DEF EInv, NoticeOnce

LEMMA OpenStep ==
  ASSUME EInv, IInv', Allocate PROVE Contract!Next
<1>1. /\ PoolTypes /\ SlotGen /\ KnownIssued /\ UserOK /\ SlotsOK /\ NoticeOnce
      /\ freeList \in Seq(Slots) /\ freeList # <<>>
  BY UserParts DEF EInv, Allocate, PoolTypes
<1>2. PICK s \in Slots :
        /\ s = Head(freeList) /\ s = freeList[1] /\ generation[s] \in 1 .. MaxGen
        /\ sessionId' = [sessionId EXCEPT ![s] = generation[s]]
        /\ UNCHANGED <<generation, known, notices>>
  <2>1. Head(freeList) \in Slots /\ Head(freeList) = freeList[1]
    BY <1>1, HeadTailProperties
  <2>2. /\ generation[Head(freeList)] <= MaxGen
        /\ sessionId' = [sessionId EXCEPT ![Head(freeList)] = generation[Head(freeList)]]
        /\ UNCHANGED <<generation, known, notices>>
    BY DEF Allocate, gameVars
  <2>3. generation[Head(freeList)] \in 1 .. MaxGen
    BY SMTT(60), <1>1, <2>1, <2>2, SessionPoolAssumption DEF SlotsOK, PoolTypes
  <2> QED
    BY <2>1, <2>2, <2>3
<1>3. ~ InUse(s)
  <2>1. 1 \in 1 .. Len(freeList)
    BY <1>1, EmptySeq, LenProperties
  <2> QED
    BY <1>2, <2>1 DEF InUse
<1>4. SlotGen'
  BY UserParts DEF IInv, TypeInv, SafeInv
<1>5. \A x \in Slots : InUse(x)' <=> InUse(x) \/ x = s
  BY <1>1, <1>2, <1>4 DEF SlotGen, PoolTypes
<1>6. PICK h \in Handles : h = <<s, generation[s]>> /\ h[1] = s /\ h[2] = generation[s]
  <2>1. <<s, generation[s]>> \in Handles
    BY <1>2 DEF Handles
  <2> QED
    BY <2>1
<1>7. Alive' = Alive \cup {h}
  BY <1>2, <1>5, <1>6 DEF Alive
<1>8. \A x \in Alive : x[1] # h[1]
  BY <1>3, <1>6 DEF Alive
<1>9. h \notin known
  BY <1>1, <1>3, <1>6 DEF KnownIssued, SlotGen, PoolTypes
<1>10. notices[h] = 0
  <2>1. \A t \in Threads : ~ (slot[t] = s /\ pc[t] = "release")
    BY <1>1, <1>3 DEF UserOK, Using
  <2>2. generation[s] \in Nat
    BY <1>1 DEF PoolTypes
  <2>3. ~ (h[2] < generation[h[1]])
    BY <1>6, <2>2
  <2>4. ~ \E t \in Threads : slot[t] = h[1] /\ pc[t] = "release" /\ h[2] = generation[h[1]]
    BY <1>6, <2>1
  <2>5. ~ Noticed(h)
    BY <2>3, <2>4 DEF Noticed
  <2> QED
    BY <1>1, <2>5 DEF NoticeOnce
<1> QED
  BY <1>2, <1>7, <1>8, <1>9, <1>10 DEF Contract!Next, Contract!Open

LEMMA DeliverStep ==
  ASSUME EInv, NEW w \in Workers, RecvData(w)
  PROVE  [Contract!Next]_(Contract!vars)
<1>1. PICK s \in Slots :
        /\ s = slot[w] /\ sessionId[s] = generation[s]
        /\ <<s, generation[s]>> \in Handles /\ <<s, generation[s]>> \in Alive
        /\ notices[<<s, generation[s]>>] = 0
  BY ThreadSets, UsesSlot, UnderWay DEF EInv, RecvData, Using
<1>2. Alive' = Alive /\ UNCHANGED notices
  BY DEF RecvData, Alive, InUse
<1>3. CASE known' = known \cup {<<s, sessionId[s]>>}
  BY <1>1, <1>2, <1>3 DEF Contract!Next, Contract!Deliver
<1>4. CASE UNCHANGED known
  BY <1>2, <1>4 DEF Contract!vars
<1> QED
  BY <1>1, <1>3, <1>4 DEF RecvData

LEMMA AnnounceStep ==
  ASSUME EInv, NEW t \in Threads, NotifyDisconnect(t) PROVE Contract!Next
<1>1. PICK s \in Slots :
        /\ s = slot[t]
        /\ <<s, generation[s]>> \in Handles /\ <<s, generation[s]>> \in Alive
        /\ notices[<<s, generation[s]>>] = 0
        /\ notices' = [notices EXCEPT ![<<s, generation[s]>>] = 1]
  BY UsesSlot, UnderWay, NotifyEvents DEF EInv, NotifyDisconnect, Using
<1>2. Alive' = Alive /\ UNCHANGED known
  BY DEF NotifyDisconnect, Alive, InUse, sessionVars
<1> QED
  BY <1>1, <1>2 DEF Contract!Next, Contract!Announce

LEMMA RetireStep ==
  ASSUME EInv, IInv', NEW t \in Threads, SelfRelease(t) PROVE Contract!Next
<1>1. PICK s \in Slots :
        /\ s = slot[t] /\ sessionId[s] = generation[s]
        /\ generation[s] \in 1 .. MaxGen
        /\ generation' = [generation EXCEPT ![s] = @ + 1]
        /\ notices[<<s, generation[s]>>] = 1
        /\ UNCHANGED <<known, notices>>
  BY ReleaseFields, ReleaseNotice
<1>2. sessionId' = sessionId
  BY <1>1 DEF SelfRelease, Release, sessionVars
<1>3. PoolTypes /\ SlotGen /\ SlotGen'
  BY UserParts DEF EInv, IInv, SafeInv
<1>4. \A x \in Slots : InUse(x)' <=> InUse(x) /\ x # s
  BY <1>1, <1>2, <1>3 DEF SlotGen, PoolTypes
<1>5. \A x \in Slots : x # s => generation'[x] = generation[x]
  BY <1>1, <1>3 DEF PoolTypes
<1>6. PICK h \in Handles : h = <<s, generation[s]>> /\ h[1] = s /\ h[2] = generation[s]
  <2>1. <<s, generation[s]>> \in Handles
    BY <1>1 DEF Handles
  <2> QED
    BY <2>1
<1>7. h \in Alive
  BY <1>1, <1>3, <1>6 DEF Alive, SlotGen
<1>8. Alive' = Alive \ {h}
  <2>1. \A y : y \in Alive' <=> \E x \in Slots : InUse(x)' /\ y = <<x, generation'[x]>>
    BY DEF Alive
  <2>2. \A y : y \in Alive <=> \E x \in Slots : InUse(x) /\ y = <<x, generation[x]>>
    BY DEF Alive
  <2>3. \A x \in Slots : <<x, generation[x]>> # h <=> x # s
    BY <1>6
  <2> QED
    BY <1>4, <1>5, <2>1, <2>2, <2>3
<1> QED
  BY <1>1, <1>6, <1>7, <1>8 DEF Contract!Next, Contract!Retire

LEMMA ContractStep ==
  ASSUME EInv, IInv', ~ overtaken', [Next]_vars PROVE [Contract!Next]_(Contract!vars)
<1> USE ThreadSets DEF Silent, sessionVars, gameVars, threadVars
<1>1. CASE AcceptStep
  <2>1. CASE AcceptRelease
    <3>1. generation[slot[Acceptor]] # held[Acceptor]
      BY <2>1 DEF AcceptRelease
    <3> QED
      BY <2>1, <3>1, SilentStutters DEF AcceptRelease, Release
  <2>2. CASE SetupSession \/ FirstRecv
    BY <2>2, SilentStutters DEF SetupSession, FirstRecv
  <2> QED
    BY <1>1, <2>1, <2>2, OpenStep DEF AcceptStep
<1>2. ASSUME NEW w \in Workers, WorkerStep(w), ~ RecvData(w) PROVE Silent
  BY <1>2 DEF WorkerStep, Dequeue, RecvClosed, NextRecv, SendFailed, SendDone
<1>3. ASSUME NEW c \in Callers, CallerStep(c) PROVE Silent
  BY <1>3 DEF CallerStep, Lease, SendCheck, SendEnqueue
<1>4. ASSUME NEW r \in Reapers, ReaperStep(r) PROVE Silent
  BY <1>4 DEF ReaperStep, ReapScan, ReapLease, ReapRecheck
<1>5. ASSUME NEW l \in Leasers, AbortLease(l) PROVE Silent
  BY <1>5 DEF AbortLease
<1>6. ASSUME NEW t \in Threads, TeardownStep(t),
             ~ NotifyDisconnect(t), ~ SelfRelease(t) PROVE Silent
  BY <1>6 DEF TeardownStep, DisconnectCas, CloseSocket, DecPendingIo
<1>7. ASSUME \/ \E io \in posted : Complete(io)
             \/ \E s \in Slots : Expire(s)
             \/ UNCHANGED vars
      PROVE  Silent
  BY <1>7 DEF Complete, Expire, vars
<1> QED
  BY <1>1, <1>2, <1>3, <1>4, <1>5, <1>6, <1>7, SilentStutters, DeliverStep,
     AnnounceStep, RetireStep DEF Next

LEMMA ContractInit == Init => Contract!Init
<1> SUFFICES ASSUME Init PROVE Contract!Init
  OBVIOUS
<1>1. Len(freeList) = MaxSession /\ \A i \in 1 .. MaxSession : freeList[i] = i - 1
  BY SessionPoolAssumption DEF Init
<1>2. \A s \in Slots : ~ InUse(s)
  <2> SUFFICES ASSUME NEW s \in Slots PROVE ~ InUse(s)
    OBVIOUS
  <2>1. s + 1 \in 1 .. MaxSession /\ (s + 1) - 1 = s
    BY SessionPoolAssumption DEF Slots
  <2> QED
    BY <1>1, <2>1 DEF InUse
<1> QED
  BY <1>2 DEF Init, Alive, Contract!Init

(***************************************************************************)
(* The pool implements the contract INetEventHandler is written against:   *)
(* whatever accepts, completions, leases, sweeps and teardowns interleave, *)
(* a handle opens once on a slot no live handle has, packets are delivered *)
(* only before its disconnect notice, the notice is given exactly once,    *)
(* and Find stops resolving the handle only after it.  Every step keeps    *)
(* the contract until one at which a lease inside OnAcceptComplete comes   *)
(* to harm: from there on (`overtaken`) nothing is claimed.                *)
(***************************************************************************)
THEOREM PoolImplementsContract == Spec => ImplementsNetEvents
<1> DEFINE Inv == overtaken \/ EInv
<1>1. Inv /\ [Next]_vars => [Contract!Next \/ overtaken']_(Contract!vars)
  <2> SUFFICES ASSUME Inv, [Next]_vars, ~ overtaken'
               PROVE  [Contract!Next]_(Contract!vars)
    OBVIOUS
  <2>1. EInv /\ IInv'
    BY EInvStep, StaysOvertaken DEF EInv
  <2> QED
    BY <2>1, ContractStep
<1>2. Spec => []Inv
  BY EventsInductive
<1> QED
  BY <1>1, <1>2, ContractInit, PTL DEF Spec, ImplementsNetEvents
=============================================================================
