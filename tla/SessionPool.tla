----------------------------- MODULE SessionPool -----------------------------
(***************************************************************************)
(* The connection life cycle of the IOCP library: SessionPool.cpp,         *)
(* Session.cpp and the completion paths of IOCPServer.cpp.                 *)
(*                                                                         *)
(* A pool of MaxSession slots is recycled by accepted connections.  A      *)
(* handle is the pair <<slot, generation>>; Release advances the           *)
(* generation so that handles of the previous incarnation stop matching.   *)
(* A slot is kept alive by a count, m_pendingIoCount, of the overlapped    *)
(* operations the kernel owns plus the leases of threads that use the      *)
(* session; whoever brings it to zero tells the game (EnqueueDisconnect)   *)
(* and returns the slot.  Threads that act on one slot:                    *)
(*   Acceptor  the accept thread (IOCPServer::AcceptThreadProc)            *)
(*   Workers   completion workers (IOCPServer::WorkerThreadProc)           *)
(*   Callers   game, link and DB threads (SendTo, DisconnectTo)            *)
(*   Reapers   the no-receive sweep (ReapIdleSessions)                     *)
(* The calls a worker makes on the pool from inside EnqueuePacket are      *)
(* those of a caller that runs while the worker is at "recv".              *)
(*                                                                         *)
(* Definitions named Bad... are not part of the model: each is a form that *)
(* the definition after it would take with a plausible bug, kept to show   *)
(* that the property named in PROJECT.json notices it.                     *)
(***************************************************************************)
EXTENDS Integers, Sequences, FiniteSets

CONSTANTS
  MaxSession,        \* slots in the pool
  Acceptor,          \* the accept thread
  Workers,           \* completion threads
  Callers,           \* threads that send to or disconnect a session by handle
  Reapers,           \* threads that sweep silent sockets
  NoSlot,            \* the slot of a thread that holds none
  QueueCap,          \* batches that fit in the send ring
  MaxGen             \* BOUND: incarnations of one slot that are explored

Slots    == 0 .. MaxSession - 1
Leasers  == Callers \cup Reapers
Threads  == {Acceptor} \cup Workers \cup Leasers
Handles  == Slots \X (1 .. MaxGen)

ASSUME SessionPoolAssumption ==
  /\ MaxSession \in Nat \ {0}
  /\ QueueCap \in Nat \ {0}
  /\ MaxGen \in Nat \ {0}
  /\ NoSlot \notin Slots
  /\ Acceptor \notin Workers /\ Acceptor \notin Leasers
  /\ Workers \cap Leasers = {} /\ Callers \cap Reapers = {}
  /\ IsFiniteSet(Threads)

VARIABLES
  generation,      \* [Slots -> Nat]      m_generation
  sessionId,       \* [Slots -> Nat]      generation part of m_sessionId, 0 if never set
  sockOpen,        \* [Slots -> BOOLEAN]  m_sock # INVALID_SOCKET
  disconnecting,   \* [Slots -> BOOLEAN]  m_disconnecting
  pendingIo,       \* [Slots -> Int]      m_pendingIoCount
  sendInProgress,  \* [Slots -> BOOLEAN]  m_sendInProgress
  queued,          \* [Slots -> Nat]      batches in m_sendQueue
  inFlight,        \* [Slots -> Nat]      leading batches given to WSASend
  lastRecv,        \* [Slots -> {"unset", "fresh", "expired"}]  m_lastRecvTick
  freeList,        \* Seq(Slots)          m_freeHead and m_freeList
  posted,          \* overlapped operations the kernel owns
  completed,       \* completions waiting in m_ioCP
  known,           \* handles the game learnt from EnqueuePacket
  notices,         \* [Handles -> Nat]    calls of EnqueueDisconnect
  overtaken,       \* history: a lease inside OnAcceptComplete came to harm
  pc, slot,        \* where each thread is, and the slot it works on
  held,            \* generation of the incarnation it works on
  owe              \* counts in pendingIo it has still to return

sessionVars == <<generation, sessionId, sockOpen, disconnecting, pendingIo,
                 sendInProgress, queued, inFlight, lastRecv>>
ioVars      == <<posted, completed>>
gameVars    == <<known, notices, overtaken>>
threadVars  == <<pc, slot, held, owe>>
vars        == <<sessionVars, freeList, ioVars, gameVars, threadVars>>

(* An overlapped operation carries the completion key of the socket it was *)
(* posted on, which is the handle the socket was associated with.          *)
Io(s, op) == [slot |-> s, gen |-> sessionId[s], op |-> op]
IoType    == [slot : Slots, gen : Nat, op : {"recv", "send"}]

-----------------------------------------------------------------------------
(* Thread bookkeeping.                                                     *)

Goto(t, label) == pc' = [pc EXCEPT ![t] = label]

Begin(t, label, s, refs) ==
  /\ pc'   = [pc EXCEPT ![t] = label]
  /\ slot' = [slot EXCEPT ![t] = s]
  /\ held' = [held EXCEPT ![t] = generation[s]]
  /\ owe'  = [owe EXCEPT ![t] = refs]

Finish(t) ==
  /\ pc'   = [pc EXCEPT ![t] = "idle"]
  /\ slot' = [slot EXCEPT ![t] = NoSlot]
  /\ held' = [held EXCEPT ![t] = 0]
  /\ owe'  = [owe EXCEPT ![t] = 0]

(* FindAndLease holds the pool lock across the increment and, when that    *)
(* returned 1, across AbortIoLease; every other locked section is one step *)
PoolLockFree == \A t \in Threads : pc[t] # "abort"

InUse(s) == \A i \in 1 .. Len(freeList) : freeList[i] # s

(* The accept thread is inside OnAcceptComplete with this slot, and, when  *)
(* it is entering, has not counted the first receive yet.                  *)
Accepting(s) == slot[Acceptor] = s
Entering(s)  == Accepting(s) /\ pc[Acceptor] \in {"setup", "firstRecv"}

(* A sweep that fell behind may lease a slot inside OnAcceptComplete of    *)
(* its next incarnation.  Mostly that is harmless.  Two steps are not, and *)
(* `overtaken` remembers that one was taken: a DecPendingIo that leaves    *)
(* the count to a lease which will be aborted, so that neither of the two  *)
(* returns the slot; and the explicit Release of OnAcceptComplete on a     *)
(* session that is still leased.                                           *)
LeavesToAborted(t) ==
  /\ pendingIo[slot[t]] = 2
  /\ \E l \in Leasers : slot[l] = slot[t] /\ pc[l] = "abort"

-----------------------------------------------------------------------------
Init ==
  /\ generation     = [s \in Slots |-> 1]
  /\ sessionId      = [s \in Slots |-> 0]
  /\ sockOpen       = [s \in Slots |-> FALSE]
  /\ disconnecting  = [s \in Slots |-> FALSE]
  /\ pendingIo      = [s \in Slots |-> 0]
  /\ sendInProgress = [s \in Slots |-> FALSE]
  /\ queued         = [s \in Slots |-> 0]
  /\ inFlight       = [s \in Slots |-> 0]
  /\ lastRecv       = [s \in Slots |-> "unset"]
  /\ freeList       = [i \in 1 .. MaxSession |-> i - 1]
  /\ posted = {} /\ completed = {}
  /\ known = {} /\ notices = [h \in Handles |-> 0] /\ overtaken = FALSE
  /\ pc   = [t \in Threads |-> "idle"]
  /\ slot = [t \in Threads |-> NoSlot]
  /\ held = [t \in Threads |-> 0]
  /\ owe  = [t \in Threads |-> 0]

-----------------------------------------------------------------------------
(* IOCPServer::OnAcceptComplete                                            *)

Allocate ==
  /\ pc[Acceptor] = "idle" /\ PoolLockFree /\ freeList # <<>>
  /\ LET s == Head(freeList) IN
       /\ generation[s] <= MaxGen
       /\ sessionId' = [sessionId EXCEPT ![s] = generation[s]]
       /\ Begin(Acceptor, "setup", s, 0)
  /\ freeList' = Tail(freeList)
  /\ UNCHANGED <<generation, sockOpen, disconnecting, pendingIo,
                 sendInProgress, queued, inFlight, lastRecv, ioVars, gameVars>>

(* SetSocket, ConfigureAcceptedSocket and the ticks of BeginSession; the   *)
(* EnqueueConnect of both servers does nothing.                            *)
SetupSession ==
  /\ pc[Acceptor] = "setup"
  /\ sockOpen' = [sockOpen EXCEPT ![slot[Acceptor]] = TRUE]
  /\ lastRecv' = [lastRecv EXCEPT ![slot[Acceptor]] = "fresh"]
  /\ Goto(Acceptor, "firstRecv")
  /\ UNCHANGED <<generation, sessionId, disconnecting, pendingIo,
                 sendInProgress, queued, inFlight, freeList, ioVars, gameVars,
                 slot, held, owe>>

(* RegisterRecv: count, then WSARecv.  It may fail at any time and fails   *)
(* on a closed socket; the count then belongs to the calling thread.       *)
RecvPosted(s) ==
  /\ sockOpen[s]
  /\ posted' = posted \cup {Io(s, "recv")}

FirstRecv ==
  LET s == slot[Acceptor] IN
  /\ pc[Acceptor] = "firstRecv"
  /\ pendingIo' = [pendingIo EXCEPT ![s] = @ + 1]
  /\ \/ RecvPosted(s) /\ Finish(Acceptor)
     \/ /\ Goto(Acceptor, "cas")
        /\ owe' = [owe EXCEPT ![Acceptor] = 1]
        /\ UNCHANGED <<posted, slot, held>>
  /\ UNCHANGED <<generation, sessionId, sockOpen, disconnecting,
                 sendInProgress, queued, inFlight, lastRecv, freeList,
                 completed, gameVars>>

-----------------------------------------------------------------------------
(* SessionPool::Release and Session::Reset: everything but m_sessionId is  *)
(* returned to its initial value, the generation moves on, and the slot    *)
(* goes to the head of the free list.  A stale handle is ignored.          *)
BadRelease(s, gen) ==   \* no generation test: returned twice
  /\ generation'     = [generation EXCEPT ![s] = @ + 1]
  /\ freeList'       = <<s>> \o freeList
  /\ UNCHANGED <<sessionId, sockOpen, disconnecting, pendingIo,
                 sendInProgress, queued, inFlight, lastRecv>>

Release(s, gen) ==
  IF generation[s] = gen
  THEN /\ generation'     = [generation EXCEPT ![s] = @ + 1]
       /\ sockOpen'       = [sockOpen EXCEPT ![s] = FALSE]
       /\ disconnecting'  = [disconnecting EXCEPT ![s] = FALSE]
       /\ pendingIo'      = [pendingIo EXCEPT ![s] = 0]
       /\ sendInProgress' = [sendInProgress EXCEPT ![s] = FALSE]
       /\ queued'         = [queued EXCEPT ![s] = 0]
       /\ inFlight'       = [inFlight EXCEPT ![s] = 0]
       /\ lastRecv'       = [lastRecv EXCEPT ![s] = "unset"]
       /\ freeList'       = <<s>> \o freeList
       /\ UNCHANGED sessionId
  ELSE UNCHANGED <<sessionVars, freeList>>

(* OnAcceptComplete after a failed BeginSession: Release once more, which  *)
(* finds a newer generation unless somebody else still has a count.        *)
AcceptRelease ==
  /\ pc[Acceptor] = "acceptRelease" /\ PoolLockFree
  /\ Release(slot[Acceptor], held[Acceptor])
  /\ Finish(Acceptor)
  /\ overtaken' = (overtaken \/ generation[slot[Acceptor]] = held[Acceptor])
  /\ UNCHANGED <<ioVars, known, notices>>

-----------------------------------------------------------------------------
(* IOCPServer::WorkerThreadProc: a completion whose key does not match the *)
(* slot's generation is dropped (FindLockFree), any other is handled.      *)
Dequeue(w) ==
  /\ pc[w] = "idle"
  /\ \E io \in completed :
       /\ completed' = completed \ {io}
       /\ IF generation[io.slot] = io.gen
          THEN Begin(w, io.op, io.slot, 1)
          ELSE UNCHANGED threadVars
  /\ UNCHANGED <<sessionVars, freeList, posted, gameVars>>

(* OnRecvComplete with 0 bytes: the peer closed, or the receive failed.    *)
RecvClosed(w) ==
  /\ pc[w] = "recv"
  /\ Goto(w, "cas")
  /\ UNCHANGED <<sessionVars, freeList, ioVars, gameVars, slot, held, owe>>

(* OnRecvComplete with data: the tick, the packets completed by it, and    *)
(* either the next RegisterRecv or a framing violation.                    *)
RecvData(w) ==
  LET s == slot[w] IN
  /\ pc[w] = "recv"
  /\ lastRecv' = [lastRecv EXCEPT ![s] = "fresh"]
  /\ \/ UNCHANGED known
     \/ known' = known \cup {<<s, sessionId[s]>>}
  /\ \/ Goto(w, "nextRecv")
     \/ Goto(w, "cas")
  /\ UNCHANGED <<generation, sessionId, sockOpen, disconnecting, pendingIo,
                 sendInProgress, queued, inFlight, freeList, ioVars, notices,
                 overtaken, slot, held, owe>>

NextRecv(w) ==
  LET s == slot[w] IN
  /\ pc[w] = "nextRecv"
  /\ pendingIo' = [pendingIo EXCEPT ![s] = @ + 1]
  /\ \/ RecvPosted(s) /\ Goto(w, "dec") /\ UNCHANGED owe
     \/ /\ Goto(w, "cas")
        /\ owe' = [owe EXCEPT ![w] = @ + 1]
        /\ UNCHANGED posted
  /\ UNCHANGED <<generation, sessionId, sockOpen, disconnecting,
                 sendInProgress, queued, inFlight, lastRecv, freeList,
                 completed, gameVars, slot, held>>

BadPostSend(t, s, batches) ==   \* the failed post keeps its count
  /\ pendingIo' = [pendingIo EXCEPT ![s] = @ + 1]
  /\ inFlight' = [inFlight EXCEPT ![s] = 0]
  /\ sendInProgress' = [sendInProgress EXCEPT ![s] = FALSE]
  /\ Goto(t, "cas")
  /\ UNCHANGED <<posted, owe>>

(* DoWSASendLocked with `batches` queued: count, then WSASend of a leading *)
(* part (the queue may wrap).  On failure the thread owes the count and    *)
(* clears m_sendInProgress.                                                *)
PostSend(t, s, batches) ==
  /\ pendingIo' = [pendingIo EXCEPT ![s] = @ + 1]
  /\ \/ /\ sockOpen[s]
        /\ posted' = posted \cup {Io(s, "send")}
        /\ \E n \in 1 .. batches : inFlight' = [inFlight EXCEPT ![s] = n]
        /\ sendInProgress' = [sendInProgress EXCEPT ![s] = TRUE]
        /\ Goto(t, "dec")
        /\ UNCHANGED owe
     \/ /\ inFlight' = [inFlight EXCEPT ![s] = 0]
        /\ sendInProgress' = [sendInProgress EXCEPT ![s] = FALSE]
        /\ Goto(t, "cas")
        /\ owe' = [owe EXCEPT ![t] = @ + 1]
        /\ UNCHANGED posted

(* OnSendComplete, under m_sendLock: the completion failed.                *)
SendFailed(w) ==
  LET s == slot[w] IN
  /\ pc[w] = "send"
  /\ sendInProgress' = [sendInProgress EXCEPT ![s] = FALSE]
  /\ inFlight' = [inFlight EXCEPT ![s] = 0]
  /\ Goto(w, "cas")
  /\ UNCHANGED <<generation, sessionId, sockOpen, disconnecting, pendingIo,
                 queued, lastRecv, freeList, ioVars, gameVars, slot, held, owe>>

BadSendDone(w) ==   \* what is left waits for the next Send
  LET s == slot[w] IN
  /\ pc[w] = "send"
  /\ queued' = [queued EXCEPT ![s] = @ - inFlight[s]]
  /\ sendInProgress' = [sendInProgress EXCEPT ![s] = FALSE]
  /\ inFlight' = [inFlight EXCEPT ![s] = 0]
  /\ Goto(w, "dec")
  /\ UNCHANGED <<generation, sessionId, sockOpen, disconnecting, pendingIo,
                 lastRecv, freeList, ioVars, gameVars, slot, held, owe>>

(* OnSendComplete: what was sent leaves the queue; the rest is posted.     *)
SendDone(w) ==
  LET s == slot[w]
      left == queued[s] - inFlight[s] IN
  /\ pc[w] = "send"
  /\ queued' = [queued EXCEPT ![s] = left]
  /\ \/ left > 0 /\ PostSend(w, s, left)
     \/ /\ left <= 0
        /\ sendInProgress' = [sendInProgress EXCEPT ![s] = FALSE]
        /\ inFlight' = [inFlight EXCEPT ![s] = 0]
        /\ Goto(w, "dec")
        /\ UNCHANGED <<pendingIo, posted, owe>>
  /\ UNCHANGED <<generation, sessionId, sockOpen, disconnecting, lastRecv,
                 freeList, completed, gameVars, slot, held>>

-----------------------------------------------------------------------------
BadFindAndLease(t, s, gen, label) ==   \* leases a session in teardown
  /\ PoolLockFree
  /\ generation[s] = gen
  /\ pendingIo' = [pendingIo EXCEPT ![s] = @ + 1]
  /\ Begin(t, label, s, 1)

(* SessionPool::FindAndLease of handle <<s, gen>>, for a thread that goes  *)
(* on to `label`.  A count of 1 after the increment means no operation was *)
(* outstanding: the lease is aborted without giving the slot back.         *)
FindAndLease(t, s, gen, label) ==
  /\ PoolLockFree
  /\ generation[s] = gen
  /\ pendingIo' = [pendingIo EXCEPT ![s] = @ + 1]
  /\ Begin(t, IF pendingIo[s] = 0 THEN "abort" ELSE label, s, 1)

BadAbortLease(t) ==   \* returns the lease with DecPendingIo
  /\ pc[t] = "abort"
  /\ pendingIo' = [pendingIo EXCEPT ![slot[t]] = @ - 1]
  /\ owe' = [owe EXCEPT ![t] = 0]
  /\ Goto(t, "notify")
  /\ UNCHANGED <<generation, sessionId, sockOpen, disconnecting,
                 sendInProgress, queued, inFlight, lastRecv, freeList, ioVars,
                 gameVars, slot, held>>

AbortLease(t) ==
  /\ pc[t] = "abort"
  /\ pendingIo' = [pendingIo EXCEPT ![slot[t]] = @ - 1]
  /\ Finish(t)
  /\ UNCHANGED <<generation, sessionId, sockOpen, disconnecting,
                 sendInProgress, queued, inFlight, lastRecv, freeList, ioVars,
                 gameVars>>

(* SendTo and DisconnectTo, on any handle the game ever learnt.            *)
Lease(c) ==
  /\ pc[c] = "idle"
  /\ \E h \in known, label \in {"sendTo", "cas"} :
       FindAndLease(c, h[1], h[2], label)
  /\ UNCHANGED <<generation, sessionId, sockOpen, disconnecting,
                 sendInProgress, queued, inFlight, lastRecv, freeList, ioVars,
                 gameVars>>

(* Session::Send: the unlocked test of m_disconnecting.                    *)
SendCheck(c) ==
  /\ pc[c] = "sendTo"
  /\ Goto(c, IF disconnecting[slot[c]] THEN "dec" ELSE "enqueue")
  /\ UNCHANGED <<sessionVars, freeList, ioVars, gameVars, slot, held, owe>>

(* Session::Send under m_sendLock.  RingBuffer::Enqueue takes a batch      *)
(* whole or not at all.  A dropped batch disconnects with EVICT_ON_DROP,   *)
(* and nothing was counted for it; otherwise the first batch is posted.    *)
BadFits(s) == queued[s] <= QueueCap   \* off by one

Fits(s) == queued[s] < QueueCap

BadDropBatch(c) ==   \* DecPendingIo for a batch that was never posted
  \/ Goto(c, "dec") /\ UNCHANGED owe
  \/ Goto(c, "cas") /\ owe' = [owe EXCEPT ![c] = @ + 1]

DropBatch(c) ==
  /\ \/ Goto(c, "dec")
     \/ Goto(c, "cas")
  /\ UNCHANGED owe

BadMayPost(s) == TRUE   \* every Send posts

MayPost(s) == ~ sendInProgress[s]

SendEnqueue(c) ==
  LET s == slot[c] IN
  /\ pc[c] = "enqueue"
  /\ \/ /\ ~ Fits(s)
        /\ DropBatch(c)
        /\ UNCHANGED <<pendingIo, sendInProgress, queued, inFlight, posted>>
     \/ /\ Fits(s)
        /\ queued' = [queued EXCEPT ![s] = @ + 1]
        /\ \/ MayPost(s) /\ PostSend(c, s, queued[s] + 1)
           \/ /\ ~ MayPost(s)
              /\ Goto(c, "dec")
              /\ UNCHANGED <<pendingIo, sendInProgress, inFlight, posted, owe>>
  /\ UNCHANGED <<generation, sessionId, sockOpen, disconnecting, lastRecv,
                 freeList, completed, gameVars, slot, held>>

-----------------------------------------------------------------------------
(* SessionPool::ReapIdleSessions.  The idle test reads no handle: when it  *)
(* is acted upon, m_sessionId may already name the next incarnation.       *)
ReapScan(r) ==
  /\ pc[r] = "idle"
  /\ \E s \in Slots : lastRecv[s] = "expired" /\ Begin(r, "scanned", s, 0)
  /\ UNCHANGED <<sessionVars, freeList, ioVars, gameVars>>

ReapLease(r) ==
  LET s == slot[r] IN
  /\ pc[r] = "scanned" /\ PoolLockFree
  /\ \/ FindAndLease(r, s, sessionId[s], "recheck")
     \/ generation[s] # sessionId[s] /\ Finish(r) /\ UNCHANGED pendingIo
  /\ UNCHANGED <<generation, sessionId, sockOpen, disconnecting,
                 sendInProgress, queued, inFlight, lastRecv, freeList, ioVars,
                 gameVars>>

(* The second idle test, made under the lease.                             *)
ReapRecheck(r) ==
  /\ pc[r] = "recheck"
  /\ Goto(r, IF lastRecv[slot[r]] = "expired" THEN "cas" ELSE "dec")
  /\ UNCHANGED <<sessionVars, freeList, ioVars, gameVars, slot, held, owe>>

-----------------------------------------------------------------------------
(* Session::Disconnect: one thread wins the compare-and-swap ...           *)
DisconnectCas(t) ==
  LET s == slot[t] IN
  /\ pc[t] = "cas"
  /\ disconnecting' = [disconnecting EXCEPT ![s] = TRUE]
  /\ Goto(t, IF disconnecting[s] THEN "dec" ELSE "close")
  /\ UNCHANGED <<generation, sessionId, sockOpen, pendingIo, sendInProgress,
                 queued, inFlight, lastRecv, freeList, ioVars, gameVars,
                 slot, held, owe>>

BadCloseSocket(t) ==   \* leaves the socket open
  /\ pc[t] = "close"
  /\ Goto(t, "dec")
  /\ UNCHANGED <<sessionVars, freeList, ioVars, gameVars, slot, held, owe>>

(* ... takes m_sock, cancels what is outstanding and closes it.            *)
CloseSocket(t) ==
  /\ pc[t] = "close"
  /\ sockOpen' = [sockOpen EXCEPT ![slot[t]] = FALSE]
  /\ Goto(t, "dec")
  /\ UNCHANGED <<generation, sessionId, disconnecting, pendingIo,
                 sendInProgress, queued, inFlight, lastRecv, freeList, ioVars,
                 gameVars, slot, held, owe>>

(* Where a thread goes when it owes nothing: the accept thread still has   *)
(* the explicit Release of OnAcceptComplete before it.                     *)
Return(t) ==
  IF t = Acceptor
  THEN Goto(t, "acceptRelease") /\ UNCHANGED <<slot, held>>
  ELSE /\ Goto(t, "idle")
       /\ slot' = [slot EXCEPT ![t] = NoSlot]
       /\ held' = [held EXCEPT ![t] = 0]

(* The thread whose decrement reaches zero tears the session down.         *)
BadLastReference(t) == pendingIo[slot[t]] = 1 /\ t \in Workers   \* raw lease return

LastReference(t) == pendingIo[slot[t]] = 1

(* Session::DecPendingIo, also run by ~SessionLeaseGuard.                  *)
DecPendingIo(t) ==
  LET s == slot[t] IN
  /\ pc[t] = "dec"
  /\ pendingIo' = [pendingIo EXCEPT ![s] = @ - 1]
  /\ owe' = [owe EXCEPT ![t] = @ - 1]
  /\ \/ LastReference(t) /\ Goto(t, "notify") /\ UNCHANGED <<slot, held>>
     \/ ~ LastReference(t) /\ owe[t] > 1 /\ UNCHANGED <<pc, slot, held>>
     \/ ~ LastReference(t) /\ owe[t] <= 1 /\ Return(t)
  /\ overtaken' = (overtaken \/ LeavesToAborted(t))
  /\ UNCHANGED <<generation, sessionId, sockOpen, disconnecting,
                 sendInProgress, queued, inFlight, lastRecv, freeList, ioVars,
                 known, notices>>

NotifyDisconnect(t) ==
  /\ pc[t] = "notify"
  /\ notices' = [notices EXCEPT ![<<slot[t], sessionId[slot[t]]>>] = @ + 1]
  /\ Goto(t, "release")
  /\ UNCHANGED <<sessionVars, freeList, ioVars, known, overtaken, slot, held,
                 owe>>

SelfRelease(t) ==
  LET s == slot[t] IN
  /\ pc[t] = "release" /\ PoolLockFree
  /\ Release(s, sessionId[s])
  /\ IF owe[t] > 0
     THEN Goto(t, "dec") /\ UNCHANGED <<slot, held>>
     ELSE Return(t)
  /\ UNCHANGED <<ioVars, gameVars, owe>>

-----------------------------------------------------------------------------
(* The kernel and the clock (external).                                    *)

Complete(io) ==
  /\ posted' = posted \ {io}
  /\ completed' = completed \cup {io}
  /\ UNCHANGED <<sessionVars, freeList, gameVars, threadVars>>

(* The deadline (35 s) is far beyond the length of OnAcceptComplete.       *)
Expire(s) ==
  /\ lastRecv[s] = "fresh" /\ ~ Accepting(s)
  /\ lastRecv' = [lastRecv EXCEPT ![s] = "expired"]
  /\ UNCHANGED <<generation, sessionId, sockOpen, disconnecting, pendingIo,
                 sendInProgress, queued, inFlight, freeList, ioVars, gameVars,
                 threadVars>>

-----------------------------------------------------------------------------
AcceptStep  == Allocate \/ SetupSession \/ FirstRecv \/ AcceptRelease

WorkerStep(w) ==
  \/ Dequeue(w) \/ RecvClosed(w) \/ RecvData(w) \/ NextRecv(w)
  \/ SendFailed(w) \/ SendDone(w)

CallerStep(c) == Lease(c) \/ SendCheck(c) \/ SendEnqueue(c)

ReaperStep(r) == ReapScan(r) \/ ReapLease(r) \/ ReapRecheck(r)

TeardownStep(t) ==
  \/ DisconnectCas(t) \/ CloseSocket(t) \/ DecPendingIo(t)
  \/ NotifyDisconnect(t) \/ SelfRelease(t)

Next ==
  \/ AcceptStep
  \/ \E w \in Workers : WorkerStep(w)
  \/ \E c \in Callers : CallerStep(c)
  \/ \E r \in Reapers : ReaperStep(r)
  \/ \E l \in Leasers : AbortLease(l)
  \/ \E t \in Threads : TeardownStep(t)
  \/ \E io \in posted : Complete(io)
  \/ \E s \in Slots : Expire(s)

Spec == Init /\ [][Next]_vars

-----------------------------------------------------------------------------
(* What the accounting of references is about.                             *)

Outstanding == posted \cup completed

(* Everything m_pendingIoCount stands for: operations the kernel or the    *)
(* port still holds, and the counts threads have yet to return.            *)
References(s) ==
  ({io \in Outstanding : io.slot = s} \X {0})
    \cup {r \in Threads \X {1, 2} : slot[r[1]] = s /\ r[2] <= owe[r[1]]}

(* A thread that dereferences the session without looking it up again.     *)
Using(t) == pc[t] \notin {"idle", "scanned", "abort", "acceptRelease"}

Closing(t, s) == slot[t] = s /\ pc[t] \in {"notify", "release"}

PcLabels ==
  {"idle", "setup", "firstRecv", "acceptRelease", "recv", "nextRecv", "send",
   "sendTo", "enqueue", "scanned", "recheck", "abort", "cas", "close", "dec",
   "notify", "release"}

TypeOK ==
  /\ generation \in [Slots -> Nat] /\ sessionId \in [Slots -> Nat]
  /\ sockOpen \in [Slots -> BOOLEAN] /\ disconnecting \in [Slots -> BOOLEAN]
  /\ pendingIo \in [Slots -> Int]
  /\ sendInProgress \in [Slots -> BOOLEAN]
  /\ queued \in [Slots -> 0 .. QueueCap] /\ inFlight \in [Slots -> 0 .. QueueCap]
  /\ lastRecv \in [Slots -> {"unset", "fresh", "expired"}]
  /\ freeList \in Seq(Slots)
  /\ posted \subseteq IoType /\ completed \subseteq IoType
  /\ known \subseteq Handles /\ notices \in [Handles -> Nat]
  /\ overtaken \in BOOLEAN
  /\ pc \in [Threads -> PcLabels]
  /\ slot \in [Threads -> Slots \cup {NoSlot}]
  /\ held \in [Threads -> Nat]
  /\ owe \in [Threads -> 0 .. 2]
  /\ \A t \in Threads : (slot[t] = NoSlot) <=> (pc[t] = "idle")

(* m_pendingIoCount is the number of references: no lease, completion or   *)
(* failed post is returned twice or never (comments at Session.cpp:240-245 *)
(* and SessionPool.cpp:165).                                               *)
Counted == \A s \in Slots : pendingIo[s] = Cardinality(References(s))

(* The count is exact, also with leases inside OnAcceptComplete, until one *)
(* of those came to harm.                                                  *)
CountIsExact == overtaken \/ Counted

(* While anybody uses a session its slot is not recycled: every thread     *)
(* between lookup and return, and every outstanding operation, belongs to  *)
(* the slot's present generation, and that slot is not on the free list;   *)
(* until a lease inside OnAcceptComplete came to harm (`overtaken`).       *)
NoUseAfterRelease ==
  \/ overtaken
  \/ /\ \A t \in Threads : Using(t) => /\ held[t] = generation[slot[t]]
                                       /\ InUse(slot[t])
     /\ \A io \in Outstanding : /\ io.gen = generation[io.slot]
                                 /\ InUse(io.slot)

(* A slot off the free list is held by a reference, by the accept thread,  *)
(* or by the thread that is returning it: it can never be lost (an aborted *)
(* lease relies on "the worker is already tearing it down").               *)
Kept ==
  \A s \in Slots : InUse(s) =>
     pendingIo[s] > 0 \/ Entering(s) \/ \E t \in Threads : Closing(t, s)

(* No slot is lost until a lease inside OnAcceptComplete came to harm.     *)
NoSlotLeak == overtaken \/ Kept

(* No slot is on the free list twice, and the slots there are as Reset     *)
(* left them, so that two connections never share one (until `overtaken`). *)
FreeListSound ==
  \/ overtaken
  \/ /\ \A i, j \in 1 .. Len(freeList) : freeList[i] = freeList[j] => i = j
     /\ \A s \in Slots : ~ InUse(s) =>
          /\ pendingIo[s] = 0 /\ ~ sockOpen[s] /\ ~ disconnecting[s]
          /\ queued[s] = 0 /\ ~ sendInProgress[s] /\ lastRecv[s] = "unset"

(* Each context has one owner.  m_recvContext and m_recvBuffer: the kernel, *)
(* a queued completion, or the worker handling it.  m_sendContext likewise; *)
(* m_sendInProgress says exactly that one WSASend is outstanding or being   *)
(* completed, and the bytes it was given are still in the ring.  (Until     *)
(* `overtaken`.)                                                            *)
OneOwnerPerContext ==
  overtaken \/ \A s \in Slots :
    LET owners(op, steps) ==
          Cardinality({io \in Outstanding : io.slot = s /\ io.op = op})
            + Cardinality({w \in Workers : slot[w] = s /\ pc[w] \in steps}) IN
    /\ owners("recv", {"recv", "nextRecv"}) <= 1
    /\ owners("send", {"send"}) = IF sendInProgress[s] THEN 1 ELSE 0
    /\ inFlight[s] <= queued[s]
    /\ sendInProgress[s] <=> inFlight[s] > 0

(* Queued bytes never wait for a Send that may not come: a send is in      *)
(* progress, or the session is being disconnected.                         *)
SendsGoOn ==
  \A s \in Slots :
    queued[s] > 0 /\ ~ sendInProgress[s] =>
      disconnecting[s] \/ \E t \in Threads : slot[t] = s /\ pc[t] = "cas"

(* No send stalls until a lease inside OnAcceptComplete came to harm.      *)
NoStalledSend == overtaken \/ SendsGoOn

(* SessionPool.cpp:165: the count cannot underflow (until `overtaken`).    *)
NoUnderflow == overtaken \/ \A s \in Slots : pendingIo[s] >= 0

-----------------------------------------------------------------------------
(* The contract of INetEventHandler, in NetEvents.tla.                     *)

Alive == {<<s, generation[s]>> : s \in {x \in Slots : InUse(x)}}

Contract == INSTANCE NetEvents WITH
  alive <- Alive, heard <- known

(* Towards the game the pool is an implementation of that contract: every  *)
(* step is one of the contract until one at which a lease inside           *)
(* OnAcceptComplete comes to harm.                                         *)
ImplementsNetEvents ==
  Contract!Init /\ [][Contract!Next \/ overtaken']_(Contract!vars)

-----------------------------------------------------------------------------
(* Liveness.  Threads that started keep running, the port hands completions *)
(* to the workers, and closesocket completes what was outstanding; nothing *)
(* obliges the game to call, a peer to speak or the kernel to finish an    *)
(* operation on an open socket.  The pool's spin lock is held for a few    *)
(* instructions at a time, so that the thread that returns a slot gets it: *)
(* strong fairness, since a lease that aborts holds it now and again.      *)
Progress(t) ==
  \/ TeardownStep(t)
  \/ t = Acceptor /\ (SetupSession \/ FirstRecv \/ AcceptRelease)
  \/ t \in Workers /\ WorkerStep(t)
  \/ t \in Callers /\ (SendCheck(t) \/ SendEnqueue(t) \/ AbortLease(t))
  \/ t \in Reapers /\ (ReaperStep(t) \/ AbortLease(t))

CancelOutstanding == \E io \in posted : ~ sockOpen[io.slot] /\ Complete(io)

Fairness ==
  /\ \A t \in Threads : WF_vars(Progress(t))
  /\ \A t \in Threads : SF_vars(SelfRelease(t))
  /\ WF_vars(CancelOutstanding)

FairSpec == Spec /\ Fairness

(* Leases of one session that overlap without end keep it: FindAndLease    *)
(* does not test m_disconnecting.  The game and the sweep pause now and    *)
(* then; that much is supposed of them.                                    *)
LeasesPause(s) == []<>(\A l \in Leasers : slot[l] # s)

(* A session that entered Disconnect is given back to the pool (unless a   *)
(* lease inside OnAcceptComplete comes to harm; below likewise).           *)
TeardownCompletes ==
  \A s \in Slots : LeasesPause(s) => (disconnecting[s] ~> ~ InUse(s) \/ overtaken)

(* A connection whose peer stays silent past the deadline does not keep    *)
(* its slot: data arrives after all or the sweep takes it.                 *)
SilentSocketReaped ==
  \A s \in Slots :
    LeasesPause(s) => (lastRecv[s] = "expired" ~> lastRecv[s] # "expired" \/ overtaken)
=============================================================================
