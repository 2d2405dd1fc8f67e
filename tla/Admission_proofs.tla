--------------------------- MODULE Admission_proofs ---------------------------
(***************************************************************************)
(* Proofs about Admission.                                                 *)
(*                                                                         *)
(* Part 1, for every value of the constants: the type invariant, that a    *)
(* result belongs to the connection the link thread verifies, and that a   *)
(* session whose connection is down has its leave job under way.           *)
(*                                                                         *)
(* Part 2, for any number of connections, each with one token, and at most *)
(* one failure of the link, noticed in time and with the frames of the     *)
(* dead link read before those of the next one: who holds the account,     *)
(* that m_accountToSid names the session, and that the login server knows  *)
(* of it (HolderInv).  With two connections the frames may come late.      *)
(*                                                                         *)
(* Part 3.  For up to three such connections, whatever the link does: the  *)
(* save gate (KickInv).  For two, and the failures of Part 2: the one      *)
(* session (GateInv), and from it that no stored play is lost (ChainInv).  *)
(***************************************************************************)
EXTENDS Admission, FiniteSetTheorems, SequenceTheorems, TLAPS

USE DEF netVars, loopVars, linkVars, pendVars, mapVars, chanVars, dbVars,
        loginVars

-----------------------------------------------------------------------------
(* What is in a queue.                                                     *)
In(q, e) == \E i \in DOMAIN q : q[i] = e

LEMMA InEmpty == \A e : ~ In(<<>>, e)
BY DEF In

LEMMA InAppend ==
  ASSUME NEW S, NEW q \in Seq(S), NEW x \in S
  PROVE  /\ Append(q, x) \in Seq(S)
         /\ \A e : In(Append(q, x), e) <=> In(q, e) \/ e = x
<1>1. /\ Append(q, x) \in Seq(S) /\ Len(Append(q, x)) = Len(q) + 1
      /\ \A i \in 1 .. Len(q) : Append(q, x)[i] = q[i]
      /\ Append(q, x)[Len(q) + 1] = x
  BY AppendProperties
<1>2. DOMAIN q = 1 .. Len(q) /\ DOMAIN Append(q, x) = 1 .. (Len(q) + 1)
      /\ Len(q) \in Nat
  BY <1>1, LenProperties
<1> QED
  BY <1>1, <1>2 DEF In

LEMMA InConcat ==
  ASSUME NEW S, NEW q \in Seq(S), NEW r \in Seq(S)
  PROVE  /\ q \o r \in Seq(S)
         /\ \A e : In(q \o r, e) <=> In(q, e) \/ In(r, e)
<1>1. /\ q \o r \in Seq(S) /\ Len(q \o r) = Len(q) + Len(r)
      /\ \A i \in 1 .. (Len(q) + Len(r)) :
           (q \o r)[i] = IF i <= Len(q) THEN q[i] ELSE r[i - Len(q)]
  BY ConcatProperties
<1>2. /\ DOMAIN q = 1 .. Len(q) /\ DOMAIN r = 1 .. Len(r)
      /\ DOMAIN (q \o r) = 1 .. (Len(q) + Len(r))
      /\ Len(q) \in Nat /\ Len(r) \in Nat
  BY <1>1, LenProperties
<1>3. ASSUME NEW e, In(q \o r, e)
      PROVE  In(q, e) \/ In(r, e)
  <2>1. PICK i \in 1 .. (Len(q) + Len(r)) : (q \o r)[i] = e
    BY <1>2, <1>3 DEF In
  <2>2. CASE i <= Len(q)
    BY <1>1, <1>2, <2>1, <2>2 DEF In
  <2>3. CASE i > Len(q)
    <3>1. i - Len(q) \in DOMAIN r /\ r[i - Len(q)] = e
      BY <1>1, <1>2, <2>1, <2>3
    <3> QED
      BY <3>1 DEF In
  <2> QED
    BY <1>2, <2>2, <2>3
<1>4. ASSUME NEW e, In(q, e)
      PROVE  In(q \o r, e)
  BY <1>1, <1>2, <1>4 DEF In
<1>5. ASSUME NEW e, In(r, e)
      PROVE  In(q \o r, e)
  <2>1. PICK i \in 1 .. Len(r) : r[i] = e
    BY <1>2, <1>5 DEF In
  <2>2. i + Len(q) \in DOMAIN (q \o r) /\ (q \o r)[i + Len(q)] = e
    BY <1>1, <1>2, <2>1
  <2> QED
    BY <2>2 DEF In
<1> QED
  BY <1>1, <1>3, <1>4, <1>5

LEMMA InTail ==
  ASSUME NEW S, NEW q \in Seq(S), q # <<>>
  PROVE  /\ Head(q) \in S /\ Tail(q) \in Seq(S) /\ In(q, Head(q))
         /\ \A e : In(Tail(q), e) => In(q, e)
         /\ \A e : In(q, e) => e = Head(q) \/ In(Tail(q), e)
<1>1. /\ Head(q) \in S /\ Tail(q) \in Seq(S) /\ Head(q) = q[1]
      /\ Len(Tail(q)) = Len(q) - 1
      /\ \A i \in 1 .. (Len(q) - 1) : Tail(q)[i] = q[i + 1]
  BY HeadTailProperties
<1>2. /\ DOMAIN q = 1 .. Len(q) /\ Len(q) \in Nat /\ Len(q) # 0
      /\ DOMAIN Tail(q) = 1 .. (Len(q) - 1)
  BY <1>1, LenProperties, EmptySeq
<1>3. ASSUME NEW e, In(Tail(q), e)
      PROVE  In(q, e)
  <2>1. PICK i \in 1 .. (Len(q) - 1) : Tail(q)[i] = e
    BY <1>2, <1>3 DEF In
  <2>2. i + 1 \in DOMAIN q /\ q[i + 1] = e
    BY <1>1, <1>2, <2>1
  <2> QED
    BY <2>2 DEF In
<1>4. ASSUME NEW e, In(q, e), e # Head(q)
      PROVE  In(Tail(q), e)
  <2>1. PICK i \in 1 .. Len(q) : q[i] = e
    BY <1>2, <1>4 DEF In
  <2>2. i - 1 \in 1 .. (Len(q) - 1) /\ Tail(q)[i - 1] = q[(i - 1) + 1]
    BY <1>1, <1>2, <1>4, <2>1
  <2>3. i - 1 \in DOMAIN Tail(q) /\ Tail(q)[i - 1] = e
    BY <1>2, <2>1, <2>2
  <2> QED
    BY <2>3 DEF In
<1> QED
  BY <1>1, <1>2, <1>3, <1>4 DEF In

(* The frames of a dying link that arrive are its first ones.              *)
LEMMA InPrefix ==
  ASSUME NEW S, NEW q \in Seq(S), NEW n \in 0 .. Len(q)
  PROVE  /\ SubSeq(q, 1, n) \in Seq(S) /\ Len(SubSeq(q, 1, n)) = n
         /\ \A i \in 1 .. n : SubSeq(q, 1, n)[i] = q[i]
         /\ \A e : In(SubSeq(q, 1, n), e) => In(q, e)
<1>1. DOMAIN q = 1 .. Len(q) /\ Len(q) \in Nat
  BY LenProperties
<1>2. /\ SubSeq(q, 1, n) \in Seq(S) /\ Len(SubSeq(q, 1, n)) = n
      /\ \A i \in 1 .. n : SubSeq(q, 1, n)[i] = q[i]
  BY <1>1, SubSeqProperties
<1>3. DOMAIN SubSeq(q, 1, n) = 1 .. n
  BY <1>2, LenProperties
<1> QED
  BY <1>1, <1>2, <1>3 DEF In

(* A walk through a set of connections names each and no other.            *)
LEMMA WalkNotices ==
  ASSUME NEW P \in SUBSET Sids, NEW q \in Walks(P)
  PROVE  /\ LeaveNotices(q) \in Seq(Request)
         /\ \A e : In(LeaveNotices(q), e) <=> \E s \in P : e = Msg("leave", s)
<1>1. Cardinality(P) \in Nat
  BY AdmissionAssumption, FS_Subset, FS_CardinalityType
<1>2. /\ q \in [1 .. Cardinality(P) -> P]
      /\ {q[i] : i \in DOMAIN q} = P
  BY DEF Walks
<1>3. /\ DOMAIN LeaveNotices(q) = 1 .. Cardinality(P)
      /\ \A i \in 1 .. Cardinality(P) : LeaveNotices(q)[i] = Msg("leave", q[i])
      /\ LeaveNotices(q) = [i \in 1 .. Cardinality(P) |-> Msg("leave", q[i])]
  BY <1>2 DEF LeaveNotices
<1>4. \A s \in Sids : Msg("leave", s) \in Request
  BY DEF Msg, Request
<1>5. LeaveNotices(q) \in [1 .. Cardinality(P) -> Request]
  BY <1>2, <1>3, <1>4
<1>6. LeaveNotices(q) \in Seq(Request)
  BY <1>1, <1>5, SeqDef
<1>7. \A e : In(LeaveNotices(q), e) <=> \E s \in P : e = Msg("leave", s)
  BY <1>2, <1>3 DEF In
<1> QED
  BY <1>6, <1>7

-----------------------------------------------------------------------------
(* Types.                                                                  *)
LEMMA MessageTypes ==
  /\ \A k \in Handshake \cup {"leave", "pendingGone"} : \A s \in Sids :
       Msg(k, s) \in Request
  /\ \A k \in {"verify", "leave", "sync"} : \A s \in Sids : Msg(k, s) \in ToLogin
  /\ \A k \in {"kick", "ok", "notFound"} : \A s \in Sids : Msg(k, s) \in ToGame
  /\ \A k, j : \A s, t : Msg(k, s) = Msg(j, t) <=> k = j /\ s = t
  /\ \A k, s : Msg(k, s).kind = k /\ Msg(k, s).sid = s
  /\ \A m \in Request : /\ m.sid \in Sids /\ m = Msg(m.kind, m.sid)
                        /\ m.kind \in {"verify", "leave"} => m \in ToLogin
  /\ \A m \in ToLogin : m.sid \in Sids /\ m = Msg(m.kind, m.sid)
  /\ \A m \in ToGame : m.sid \in Sids /\ m = Msg(m.kind, m.sid)
<1>1. \A k \in Handshake \cup {"leave", "pendingGone"} : \A s \in Sids :
        Msg(k, s) \in Request
  BY DEF Msg, Request
<1>2. \A k \in {"verify", "leave", "sync"} : \A s \in Sids : Msg(k, s) \in ToLogin
  BY DEF Msg, ToLogin
<1>3. \A k \in {"kick", "ok", "notFound"} : \A s \in Sids : Msg(k, s) \in ToGame
  BY DEF Msg, ToGame
<1>4. /\ \A k, j : \A s, t : Msg(k, s) = Msg(j, t) <=> k = j /\ s = t
      /\ \A k, s : Msg(k, s).kind = k /\ Msg(k, s).sid = s
  BY DEF Msg
<1>5. \A m \in Request : /\ m.sid \in Sids /\ m = Msg(m.kind, m.sid)
                         /\ m.kind \in {"verify", "leave"} => m \in ToLogin
  BY DEF Msg, Request, ToLogin
<1>6. /\ \A m \in ToLogin : m.sid \in Sids /\ m = Msg(m.kind, m.sid)
      /\ \A m \in ToGame : m.sid \in Sids /\ m = Msg(m.kind, m.sid)
  BY DEF Msg, ToGame, ToLogin
<1> QED
  BY <1>1, <1>2, <1>3, <1>4, <1>5, <1>6

LEMMA EventTypes ==
  /\ \A k \in {"leave", "loaded", "failed", "enter"} : \A s \in Sids :
     \A p \in SUBSET Sids : Event(k, s, p) \in ChanEvent
  /\ \A k \in {"load", "save"} : \A s \in Sids : \A p \in SUBSET Sids :
       Event(k, s, p) \in DbCommand
  /\ \A k, s, p : /\ Event(k, s, p).kind = k /\ Event(k, s, p).sid = s
                  /\ Event(k, s, p).play = p
  /\ \A e \in ChanEvent : e.sid \in Sids /\ e.play \in SUBSET Sids
  /\ \A e \in DbCommand : e.sid \in Sids /\ e.play \in SUBSET Sids
BY DEF Event, ChanEvent, DbCommand

(* What has been queued comes out with its type.                           *)
LEMMA QueueTypes ==
  ASSUME TypeOK
  PROVE  /\ requests # <<>> => Head(requests) \in Request /\ Tail(requests) \in Seq(Request)
         /\ toLogin # <<>> => Head(toLogin) \in ToLogin /\ Tail(toLogin) \in Seq(ToLogin)
         /\ oldLink # <<>> => Head(oldLink) \in ToLogin /\ Tail(oldLink) \in Seq(ToLogin)
         /\ toGame # <<>> => Head(toGame) \in ToGame /\ Tail(toGame) \in Seq(ToGame)
         /\ channelEvents # <<>> => /\ Head(channelEvents) \in ChanEvent
                                    /\ Tail(channelEvents) \in Seq(ChanEvent)
         /\ dbQueue # <<>> => Head(dbQueue) \in DbCommand /\ Tail(dbQueue) \in Seq(DbCommand)
         /\ oldLink \o toLogin \in Seq(ToLogin)
         /\ <<>> \in Seq(ToLogin) /\ <<>> \in Seq(ToGame)
<1>1. /\ requests \in Seq(Request) /\ toLogin \in Seq(ToLogin)
      /\ oldLink \in Seq(ToLogin) /\ toGame \in Seq(ToGame)
      /\ channelEvents \in Seq(ChanEvent) /\ dbQueue \in Seq(DbCommand)
  BY DEF TypeOK
<1> QED
  BY <1>1, InTail, InConcat, EmptySeq

LEMMA CloseTypes ==
  TypeOK /\ Close => /\ connected' \in BOOLEAN /\ linkAlive' \in BOOLEAN
                     /\ oldLink' \in Seq(ToLogin) /\ toLogin' \in Seq(ToLogin)
                     /\ toGame' \in Seq(ToGame)
BY QueueTypes DEF Close

Nets == [Sids -> {"new", "open", "closing", "notified", "gone"}]

LEMMA NetTypes ==
  ASSUME TypeOK, NEW P
  PROVE  /\ Disconnect(P) => net' \in Nets
         /\ \A s \in Sids : RejectOrphan(s) => net' \in Nets
<1>1. net \in Nets
  BY DEF TypeOK, Nets
<1>2. \A Q : Disconnect(Q) => net' \in Nets
  BY <1>1 DEF Disconnect, Nets
<1> QED
  BY <1>1, <1>2 DEF RejectOrphan

Flags == /\ pending \subseteq Sids /\ replacing \subseteq pending
         /\ chosen \subseteq pending /\ awaiting \subseteq pending

LEMMA EraseTypes ==
  ASSUME TypeOK, NEW P, Erase(P)
  PROVE  Flags'
BY DEF TypeOK, Erase, Flags

(* A decided pending: what comes of it has its type.                       *)
LEMMA DecisionTypes ==
  ASSUME TypeOK, NEW s \in Sids, NEW rest \in Seq(Request), NEW joinable,
         AdmitOrRefuse(s, rest, joinable)
  PROVE  /\ net' \in Nets /\ requests' \in Seq(Request) /\ dbQueue' \in Seq(DbCommand)
         /\ sessions' \subseteq Sids /\ sessions \subseteq sessions' /\ kicked' = kicked
         /\ accountToSid' \in Sids \cup {NoSid} /\ pendingSave' \in BOOLEAN
<1>1. /\ Append(rest, Msg("leave", s)) \in Seq(Request)
      /\ Append(dbQueue, Event("load", s, {})) \in Seq(DbCommand)
  BY MessageTypes, EventTypes, InAppend DEF TypeOK
<1>2. CASE Admit(s, rest)
  BY <1>1, <1>2 DEF Admit, TypeOK, Nets
<1>3. CASE RefuseDead(s, rest)
  BY <1>1, <1>3 DEF RefuseDead, TypeOK, Nets
<1>4. CASE RefuseFull(s, rest)
  BY <1>1, <1>4, NetTypes DEF RefuseFull, TypeOK
<1> QED
  BY <1>2, <1>3, <1>4 DEF AdmitOrRefuse

LEMMA InitTypeOK == Init => TypeOK
<1> SUFFICES ASSUME Init
             PROVE  TypeOK
  OBVIOUS
<1>1. timing \in Timing /\ timing.breaks \in Nat
  BY AdmissionAssumption DEF Init, Timing
<1>2. \A S : <<>> \in Seq(S)
  BY EmptySeq
<1>3. breaks \in 0 .. timing.breaks
  BY <1>1 DEF Init
<1>4. /\ requests \in Seq(Request) /\ toLogin \in Seq(ToLogin) /\ oldLink \in Seq(ToLogin)
      /\ toGame \in Seq(ToGame) /\ channelEvents \in Seq(ChanEvent)
      /\ dbQueue \in Seq(DbCommand)
  BY <1>2 DEF Init
<1>5. script \in [Sids -> Seq(Handshake)] /\ tokens \in [Sids -> 0 .. MaxTokens]
  BY <1>2, AdmissionAssumption DEF Init
<1> QED
  BY <1>3, <1>4, <1>5 DEF Init, TypeOK

LEMMA ClientTypes ==
  ASSUME TypeOK, NEW s \in Sids,
         \/ Connect(s) \/ HandlePreAuthPacket(s) \/ Hangup(s)
         \/ EnqueueDisconnect(s) \/ Release(s) \/ Autosave(s)
  PROVE  TypeOK'
<1>1. CASE Connect(s)
  <2>1. net' \in Nets /\ tokens' \in [Sids -> 0 .. MaxTokens]
    BY SMTT(60), <1>1, AdmissionAssumption DEF Connect, TypeOK, Nets
  <2>2. script' \in [Sids -> Seq(Handshake)]
    BY <1>1, AdmissionAssumption DEF Connect, TypeOK
  <2> QED
    BY SMTT(60), <1>1, <2>1, <2>2 DEF Connect, TypeOK, Nets
<1>2. CASE HandlePreAuthPacket(s)
  <2>1. script[s] \in Seq(Handshake) /\ script[s] # <<>>
    BY <1>2 DEF HandlePreAuthPacket, TypeOK
  <2>2. Head(script[s]) \in Handshake /\ Tail(script[s]) \in Seq(Handshake)
    BY <2>1, HeadTailProperties
  <2>3. requests' \in Seq(Request)
    BY <1>2, <2>2, InAppend, MessageTypes DEF HandlePreAuthPacket, TypeOK
  <2>4. script' \in [Sids -> Seq(Handshake)]
    BY <1>2, <2>2 DEF HandlePreAuthPacket, TypeOK
  <2> QED
    BY SMTT(60), <1>2, <2>3, <2>4 DEF HandlePreAuthPacket, TypeOK
<1>3. CASE Hangup(s)
  BY <1>3, NetTypes DEF Hangup, TypeOK, Nets
<1>4. CASE EnqueueDisconnect(s)
  <2>1. net' \in Nets
    BY <1>4 DEF EnqueueDisconnect, TypeOK, Nets
  <2>2. requests' \in Seq(Request) /\ channelEvents' \in Seq(ChanEvent)
    <3>1. Append(requests, Msg("pendingGone", s)) \in Seq(Request)
      BY InAppend, MessageTypes DEF TypeOK
    <3>2. Append(channelEvents, Event("leave", s, {})) \in Seq(ChanEvent)
      BY InAppend, EventTypes DEF TypeOK
    <3> QED
      BY <1>4, <3>1, <3>2 DEF EnqueueDisconnect, TypeOK
  <2> QED
    BY SMTT(60), <1>4, <2>1, <2>2 DEF EnqueueDisconnect, TypeOK, Nets
<1>5. CASE Release(s)
  BY SMTT(60), <1>5 DEF Release, TypeOK
<1>6. CASE Autosave(s)
  <2>1. dbQueue' \in Seq(DbCommand)
    BY <1>6, InAppend, EventTypes DEF Autosave, TypeOK
  <2> QED
    BY SMTT(60), <1>6, <2>1 DEF Autosave, TypeOK
<1> QED
  BY <1>1, <1>2, <1>3, <1>4, <1>5, <1>6

LEMMA TurnTypes ==
  ASSUME TypeOK,
         \/ Reconnect \/ \E S \in SUBSET pending : ReapPendingSelect(S)
         \/ \E s \in scan : RetryDeferredSelect(s)
         \/ MaybeSendOnlineSnapshot
  PROVE  TypeOK'
<1>1. CASE Reconnect
  BY <1>1 DEF Reconnect, TypeOK
<1>2. ASSUME NEW S \in SUBSET pending, ReapPendingSelect(S)
      PROVE  TypeOK'
  <2>1. S \in SUBSET Sids
    BY DEF TypeOK
  <2>2. requests' \in Seq(Request)
    <3>1. PICK q \in Walks(S) : requests' = requests \o LeaveNotices(q)
      BY <1>2 DEF ReapPendingSelect
    <3>2. LeaveNotices(q) \in Seq(Request)
      BY <2>1, WalkNotices
    <3> QED
      BY <3>1, <3>2, InConcat DEF TypeOK
  <2>3. net' \in Nets /\ Flags'
    BY <1>2, NetTypes, EraseTypes DEF ReapPendingSelect
  <2> QED
    BY <1>2, <2>2, <2>3 DEF ReapPendingSelect, TypeOK, Nets, Flags
<1>3. ASSUME NEW s \in scan, RetryDeferredSelect(s)
      PROVE  TypeOK'
  <2>1. s \in Sids
    BY DEF TypeOK
  <2>2. CASE UNCHANGED <<net, requests, pendVars, mapVars, dbQueue>>
    BY <1>3, <2>2 DEF RetryDeferredSelect, TypeOK
  <2>3. CASE /\ Erase({s})
             /\ \E joinable \in BOOLEAN : AdmitOrRefuse(s, requests, joinable)
    <3>1. requests \in Seq(Request)
      BY DEF TypeOK
    <3>2. /\ net' \in Nets /\ requests' \in Seq(Request) /\ dbQueue' \in Seq(DbCommand)
          /\ sessions' \subseteq Sids /\ sessions \subseteq sessions' /\ kicked' = kicked
          /\ accountToSid' \in Sids \cup {NoSid} /\ pendingSave' \in BOOLEAN
      BY <2>1, <2>3, <3>1, DecisionTypes
    <3>3. Flags'
      BY <2>3, EraseTypes
    <3> QED
      BY <1>3, <3>2, <3>3 DEF RetryDeferredSelect, TypeOK, Nets, Flags
  <2> QED
    BY <1>3, <2>2, <2>3 DEF RetryDeferredSelect
<1>4. CASE MaybeSendOnlineSnapshot
  <2>1. toLogin' \in Seq(ToLogin)
    <3>1. \A s \in SnapshotSid : Append(toLogin, Msg("sync", s)) \in Seq(ToLogin)
      <4>1. SnapshotSid \subseteq Sids
        BY DEF SnapshotSid, TypeOK
      <4> QED
        BY <4>1, InAppend, MessageTypes DEF TypeOK
    <3>2. \/ UNCHANGED toLogin
          \/ \E s \in SnapshotSid : toLogin' = Append(toLogin, Msg("sync", s))
      BY <1>4 DEF MaybeSendOnlineSnapshot, SendOnlineSnapshot
    <3> QED
      BY <3>1, <3>2 DEF TypeOK
  <2>2. syncDue' \in BOOLEAN
    BY <1>4 DEF MaybeSendOnlineSnapshot, SendOnlineSnapshot, TypeOK
  <2> QED
    BY <1>4, <2>1, <2>2 DEF MaybeSendOnlineSnapshot, TypeOK
<1> QED
  BY <1>1, <1>2, <1>3, <1>4

LEMMA PopTypes ==
  ASSUME TypeOK, Pop
  PROVE  TypeOK'
<1>1. CASE PopNothing
  BY <1>1 DEF PopNothing, TypeOK
<1> DEFINE m == Head(requests)
<1>2. ASSUME NEW k, Popped(k)
      PROVE  /\ m \in Request /\ m.sid \in Sids /\ m.kind = k
             /\ Tail(requests) \in Seq(Request)
  BY <1>2, QueueTypes, MessageTypes DEF Popped
<1> HIDE DEF m
<1>3. CASE SendVerify
  <2>1. /\ m \in Request /\ m.sid \in Sids /\ m.kind = "verify"
        /\ Tail(requests) \in Seq(Request)
    BY <1>2, <1>3 DEF SendVerify
  <2>2. Append(toLogin, m) \in Seq(ToLogin)
    BY <2>1, MessageTypes, InAppend DEF TypeOK
  <2> QED
    BY <1>3, <2>1, <2>2 DEF SendVerify, TypeOK, m
<1>4. CASE SendVerifyFails
  <2>1. m.sid \in Sids /\ Tail(requests) \in Seq(Request)
    BY <1>2, <1>4 DEF SendVerifyFails
  <2>2. net' \in Nets
    BY <1>4, <2>1, NetTypes DEF SendVerifyFails, m
  <2> QED
    BY <1>4, <2>1, <2>2, CloseTypes DEF SendVerifyFails, TypeOK, Nets
<1>5. CASE SendSessionGone
  <2>1. /\ m \in Request /\ m.sid \in Sids /\ m.kind = "leave"
        /\ Tail(requests) \in Seq(Request)
    BY <1>2, <1>5 DEF SendSessionGone
  <2>2. Append(toLogin, m) \in Seq(ToLogin)
    BY <2>1, MessageTypes, InAppend DEF TypeOK
  <2>3. /\ connected' \in BOOLEAN /\ linkAlive' \in BOOLEAN
        /\ oldLink' \in Seq(ToLogin) /\ toLogin' \in Seq(ToLogin)
        /\ toGame' \in Seq(ToGame)
    BY <1>5, <2>2, CloseTypes DEF SendSessionGone, TypeOK, m
  <2> QED
    BY <1>5, <2>1, <2>3 DEF SendSessionGone, TypeOK
<1>6. CASE OtherRequestFails
  BY <1>6, CloseTypes DEF OtherRequestFails, TypeOK
<1>7. CASE ProcessChannelSelect
  <2>1. m.sid \in Sids /\ Tail(requests) \in Seq(Request)
    BY <1>2, <1>7 DEF ProcessChannelSelect
  <2> QED
    BY <1>7, <2>1 DEF ProcessChannelSelect, KeepChannel, TypeOK
<1>8. CASE ProcessPendingGone
  <2>1. m.sid \in Sids /\ Tail(requests) \in Seq(Request)
    BY <1>2, <1>8 DEF ProcessPendingGone
  <2>2. Append(Tail(requests), Msg("leave", m.sid)) \in Seq(Request)
    <3>1. Msg("leave", m.sid) \in Request
      BY <2>1, MessageTypes
    <3> QED
      BY <2>1, <3>1, InAppend
  <2>3. requests' \in Seq(Request)
    BY <1>8, <2>1, <2>2 DEF ProcessPendingGone, EndPending, m
  <2>4. Flags'
    BY <1>8, EraseTypes DEF ProcessPendingGone, EndPending
  <2> QED
    BY <1>8, <2>3, <2>4 DEF ProcessPendingGone, TypeOK, Flags
<1>9. CASE ProcessCharacterSelect
  <2>1. m.sid \in Sids /\ Tail(requests) \in Seq(Request)
    BY <1>2, <1>9 DEF ProcessCharacterSelect
  <2>2. CASE SelectIgnored(m.sid)
    BY <1>9, <2>1, <2>2 DEF ProcessCharacterSelect, SelectIgnored, TypeOK
  <2>3. CASE SelectDeferred(m.sid)
    BY <1>9, <2>1, <2>3 DEF ProcessCharacterSelect, SelectDeferred, TypeOK
  <2>4. CASE SelectDecided(m.sid)
    <3>1. Flags'
      BY <2>4, EraseTypes DEF SelectDecided
    <3>2. /\ net' \in Nets /\ requests' \in Seq(Request) /\ dbQueue' \in Seq(DbCommand)
          /\ sessions' \subseteq Sids /\ sessions \subseteq sessions' /\ kicked' = kicked
          /\ accountToSid' \in Sids \cup {NoSid} /\ pendingSave' \in BOOLEAN
      <4>1. CASE \E joinable \in BOOLEAN : AdmitOrRefuse(m.sid, Tail(requests), joinable)
        BY <2>1, <4>1, DecisionTypes
      <4>2. CASE RefuseFull(m.sid, Tail(requests))
        <5>1. Append(Tail(requests), Msg("leave", m.sid)) \in Seq(Request)
          <6>1. Msg("leave", m.sid) \in Request
            BY <2>1, MessageTypes
          <6> QED
            BY <2>1, <6>1, InAppend
        <5> QED
          BY <4>2, <5>1, NetTypes DEF RefuseFull, TypeOK
      <4> QED
        BY <2>4, <4>1, <4>2 DEF SelectDecided
    <3> QED
      BY <1>9, <3>1, <3>2 DEF ProcessCharacterSelect, TypeOK, Nets, Flags
  <2> QED
    BY <1>9, <2>2, <2>3, <2>4 DEF ProcessCharacterSelect, m
<1> QED
  BY <1>1, <1>3, <1>4, <1>5, <1>6, <1>7, <1>8, <1>9 DEF Pop

LEMMA RecvTypes ==
  ASSUME TypeOK, RecvFrame \/ BreakLink
  PROVE  TypeOK'
<1>1. CASE RecvKick
  <2>1. Tail(toGame) \in Seq(ToGame)
    BY <1>1, QueueTypes DEF RecvKick, Received
  <2>2. pending \in SUBSET Sids
    BY DEF TypeOK
  <2>3. requests' \in Seq(Request)
    <3>1. PICK q \in Walks(pending) : requests' = requests \o LeaveNotices(q)
      BY <1>1 DEF RecvKick, KickByAccount
    <3>2. LeaveNotices(q) \in Seq(Request)
      BY <2>2, WalkNotices
    <3> QED
      BY <3>1, <3>2, InConcat DEF TypeOK
  <2>4. net' \in Nets /\ Flags'
    BY <1>1, NetTypes, EraseTypes DEF RecvKick, KickByAccount
  <2>5. kicked' \subseteq sessions /\ pendingSave' \in BOOLEAN
    BY <1>1 DEF RecvKick, KickByAccount, MarkKicked, TypeOK
  <2> QED
    BY <1>1, <2>1, <2>3, <2>4, <2>5
    DEF RecvKick, KickByAccount, TypeOK, Nets, Flags
<1>2. CASE VerifyOk
  <2>1. Tail(toGame) \in Seq(ToGame) /\ Head(toGame).sid \in Sids
    BY <1>2, QueueTypes, MessageTypes DEF VerifyOk, Received
  <2>2. Flags'
    BY <1>2, <2>1 DEF VerifyOk, Flags, TypeOK
  <2> QED
    BY <1>2, <2>1, <2>2 DEF VerifyOk, TypeOK, Flags
<1>3. CASE VerifyNotFound
  <2>1. Tail(toGame) \in Seq(ToGame) /\ Head(toGame).sid \in Sids
    BY <1>3, QueueTypes, MessageTypes DEF VerifyNotFound, Received
  <2>2. net' \in Nets
    BY <1>3, <2>1, NetTypes DEF VerifyNotFound
  <2> QED
    BY <1>3, <2>1, <2>2 DEF VerifyNotFound, TypeOK, Nets
<1>4. timing.breaks \in Nat /\ breaks \in Nat
  BY AdmissionAssumption DEF TypeOK, Timing
<1>5. CASE RecvFails
  <2>1. net' \in Nets
    <3>1. cur \in Sids => net' \in Nets
      BY <1>5, NetTypes DEF RecvFails
    <3>2. cur = NoSid => net' \in Nets
      BY <1>5, NetTypes DEF RecvFails, RejectOrphan, TypeOK, Nets
    <3> QED
      BY <3>1, <3>2 DEF TypeOK
  <2>2. breaks' \in 0 .. timing.breaks
    BY <1>4, <1>5 DEF RecvFails, TypeOK
  <2> QED
    BY <1>5, <2>1, <2>2, CloseTypes DEF RecvFails, TypeOK, Nets
<1>6. CASE BreakLink
  <2>1. \A n \in 0 .. Len(toLogin) : oldLink \o SubSeq(toLogin, 1, n) \in Seq(ToLogin)
    BY InPrefix, InConcat DEF TypeOK
  <2>2. \A n \in 0 .. Len(toGame) : SubSeq(toGame, 1, n) \in Seq(ToGame)
    BY InPrefix DEF TypeOK
  <2>3. toLogin' \in Seq(ToLogin)
    BY <1>6, EmptySeq DEF BreakLink
  <2>4. breaks' \in 0 .. timing.breaks
    BY <1>4, <1>6 DEF BreakLink, TypeOK
  <2> QED
    BY ZenonT(60), <1>6, <2>1, <2>2, <2>3, <2>4 DEF BreakLink, TypeOK
<1> QED
  BY <1>1, <1>2, <1>3, <1>5, <1>6 DEF RecvFrame

LEMMA LoginTypes ==
  ASSUME TypeOK, LoginServerReceives \/ SweepOnline
  PROVE  TypeOK'
<1>1. ASSUME NEW m \in ToLogin, NEW answered, HandleFrame(m, answered)
      PROVE  /\ tokens' \in [Sids -> 0 .. MaxTokens] /\ online' \in Sids \cup {NoSid}
             /\ toGame' \in Seq(ToGame)
  <2>1. /\ m.sid \in Sids /\ Msg("ok", m.sid) \in ToGame /\ Msg("notFound", m.sid) \in ToGame
        /\ Msg("kick", m.sid) \in ToGame
    BY MessageTypes
  <2>2. /\ KickIfOnline(m.sid) \in Seq(ToGame) /\ <<Msg("ok", m.sid)>> \in Seq(ToGame)
        /\ Append(toGame, Msg("notFound", m.sid)) \in Seq(ToGame)
    BY <2>1, InAppend DEF KickIfOnline, TypeOK
  <2>3. toGame \o KickIfOnline(m.sid) \o <<Msg("ok", m.sid)>> \in Seq(ToGame)
    BY <2>2, InConcat DEF TypeOK
  <2>4. [tokens EXCEPT ![m.sid] = @ - 1] \in [Sids -> 0 .. MaxTokens] \/ ~ (tokens[m.sid] > 0)
    <3>1. tokens[m.sid] \in 0 .. MaxTokens /\ MaxTokens \in Nat
      BY <2>1, AdmissionAssumption DEF TypeOK
    <3>2. tokens[m.sid] > 0 => tokens[m.sid] - 1 \in 0 .. MaxTokens
      BY <3>1
    <3> QED
      BY <3>2 DEF TypeOK
  <2> QED
    BY <1>1, <2>1, <2>2, <2>3, <2>4 DEF HandleFrame, HandleTokenVerify, RemoveOnline, TypeOK
<1>2. CASE LoginServerReceives
  <2>1. \/ toLogin # <<>> /\ HandleFrame(Head(toLogin), TRUE)
        \/ oldLink # <<>> /\ HandleFrame(Head(oldLink), FALSE)
    BY <1>2 DEF LoginServerReceives
  <2>2. /\ tokens' \in [Sids -> 0 .. MaxTokens] /\ online' \in Sids \cup {NoSid}
        /\ toGame' \in Seq(ToGame)
    BY <1>1, <2>1, QueueTypes
  <2>3. toLogin' \in Seq(ToLogin) /\ oldLink' \in Seq(ToLogin)
    BY <1>2, QueueTypes DEF LoginServerReceives, TypeOK
  <2>4. UNCHANGED <<netVars, requests, loopVars, connected, linkAlive, timing, breaks,
                    pendVars, mapVars, chanVars, dbVars>>
    BY <1>2 DEF LoginServerReceives
  <2> QED
    BY <2>2, <2>3, <2>4 DEF TypeOK
<1>3. CASE SweepOnline
  BY <1>3 DEF SweepOnline, TypeOK
<1> QED
  BY <1>2, <1>3

LEMMA ChannelTypes ==
  ASSUME TypeOK, NEW s \in Sids,
         \/ OnClientLeave(s) \/ CharacterLoaded(s) \/ CharacterNotLoaded(s)
         \/ OnChannelEnter(s)
  PROVE  TypeOK'
<1>1. /\ Head(channelEvents) \in ChanEvent /\ Tail(channelEvents) \in Seq(ChanEvent)
      /\ Head(channelEvents).play \in SUBSET Sids
  BY QueueTypes, EventTypes
  DEF OnClientLeave, CharacterLoaded, CharacterNotLoaded, OnChannelEnter, NextEvent
<1>2. CASE OnClientLeave(s)
  <2>1. dbQueue' \in Seq(DbCommand)
    <3>1. Append(dbQueue, Event("save", s, progress[s])) \in Seq(DbCommand)
      BY InAppend, EventTypes DEF TypeOK
    <3> QED
      BY <1>2, <3>1 DEF OnClientLeave, SavePlayer, TypeOK
  <2>2. requests' \in Seq(Request)
    <3>1. Append(requests, Msg("leave", s)) \in Seq(Request)
      BY InAppend, MessageTypes DEF TypeOK
    <3> QED
      BY <1>2, <3>1 DEF OnClientLeave, TypeOK
  <2>3. progress' \in [Sids -> SUBSET Sids]
    BY <1>2 DEF OnClientLeave, TypeOK
  <2>4. accountToSid' \in Sids \cup {NoSid} /\ pendingSave' \in BOOLEAN
    BY <1>2 DEF OnClientLeave, OpenGate, ForgetIndex, TypeOK
  <2> QED
    BY <1>1, <1>2, <2>1, <2>2, <2>3, <2>4 DEF OnClientLeave, TypeOK
<1>3. CASE CharacterLoaded(s)
  <2>1. Append(Tail(channelEvents), Event("enter", s, {})) \in Seq(ChanEvent)
    BY <1>1, InAppend, EventTypes
  <2>2. progress' \in [Sids -> SUBSET Sids]
    <3>1. progress \in [Sids -> SUBSET Sids]
      BY DEF TypeOK
    <3>2. Head(channelEvents).play \cup {s} \in SUBSET Sids
      BY <1>1
    <3>3. \/ progress' = progress
          \/ progress' = [progress EXCEPT ![s] = Head(channelEvents).play \cup {s}]
      BY <1>3 DEF CharacterLoaded
    <3> QED
      BY <3>1, <3>2, <3>3
  <2>3. channelEvents' \in Seq(ChanEvent)
    BY <1>1, <1>3, <2>1 DEF CharacterLoaded
  <2>4. players' \subseteq sessions /\ inWorld \subseteq players'
    BY <1>3 DEF CharacterLoaded, TypeOK
  <2>5. UNCHANGED <<netVars, requests, loopVars, linkVars, pendVars, mapVars,
                    inWorld, dbVars, loginVars>>
    BY <1>3 DEF CharacterLoaded
  <2> QED
    BY SMTT(60), <2>2, <2>3, <2>4, <2>5 DEF TypeOK
<1>4. CASE CharacterNotLoaded(s)
  <2>1. net' \in Nets
    BY <1>4, NetTypes DEF CharacterNotLoaded, TypeOK, Nets
  <2> QED
    BY SMTT(60), <1>1, <1>4, <2>1 DEF CharacterNotLoaded, TypeOK, Nets
<1>5. CASE OnChannelEnter(s)
  BY SMTT(60), <1>1, <1>5 DEF OnChannelEnter, TypeOK
<1> QED
  BY <1>2, <1>3, <1>4, <1>5

LEMMA DbTypes ==
  ASSUME TypeOK, DbThread
  PROVE  TypeOK'
<1>1. /\ Head(dbQueue) \in DbCommand /\ Tail(dbQueue) \in Seq(DbCommand)
      /\ Head(dbQueue).sid \in Sids /\ Head(dbQueue).play \in SUBSET Sids
  BY QueueTypes, EventTypes DEF DbThread, LoadCharacter, SaveFull
<1>2. CASE LoadCharacter
  <2>1. \A k \in {"loaded", "failed"} :
          Append(channelEvents, Event(k, Head(dbQueue).sid, IF k = "loaded" THEN stored ELSE {}))
            \in Seq(ChanEvent)
    BY SMTT(60), <1>1, InAppend, EventTypes DEF TypeOK
  <2>2. dbQueue' \in Seq(DbCommand) /\ channelEvents' \in Seq(ChanEvent)
    BY <1>1, <1>2, <2>1 DEF LoadCharacter
  <2>3. UNCHANGED <<netVars, requests, loopVars, linkVars, pendVars, mapVars,
                    players, inWorld, progress, stored, loginVars>>
    BY <1>2 DEF LoadCharacter
  <2> QED
    BY SMTT(60), <2>2, <2>3 DEF TypeOK
<1>3. CASE SaveFull
  <2>1. dbQueue' \in Seq(DbCommand) /\ stored' \subseteq Sids
    BY <1>1, <1>3 DEF SaveFull, TypeOK
  <2>2. UNCHANGED <<netVars, requests, loopVars, linkVars, pendVars, mapVars,
                    chanVars, loginVars>>
    BY <1>3 DEF SaveFull
  <2> QED
    BY SMTT(60), <2>1, <2>2 DEF TypeOK
<1> QED
  BY <1>2, <1>3 DEF DbThread

LEMMA NextTypeOK == TypeOK /\ [Next]_vars => TypeOK'
<1> SUFFICES ASSUME TypeOK, [Next]_vars
             PROVE  TypeOK'
  OBVIOUS
<1>1. CASE UNCHANGED vars
  BY SMTT(60), <1>1 DEF vars, TypeOK
<1> QED
  BY <1>1, ClientTypes, TurnTypes, PopTypes, RecvTypes, LoginTypes, ChannelTypes, DbTypes
  DEF Next, Clients, Autosaves, Servers, Teardown, LinkThread, ChannelThread

(* Every variable of Admission keeps its type, and the flags of a pending  *)
(* selection or a session never outlive it, for any number of connections, *)
(* tokens, handshake scripts and timings.                                  *)
THEOREM AdmissionTypeCorrect == Spec => []TypeOK
<1>1. Init => TypeOK
  BY InitTypeOK
<1> QED
  BY <1>1, NextTypeOK, PTL DEF Spec

-----------------------------------------------------------------------------
(* Messages and events by their kind and connection.                       *)
Has(q, k, s) == \E i \in DOMAIN q : q[i].kind = k /\ q[i].sid = s

LEMMA HasIn ==
  \A q, k, s : Has(q, k, s) <=> \E e : In(q, e) /\ e.kind = k /\ e.sid = s
BY DEF Has, In

LEMMA HasEmpty == \A k, s : ~ Has(<<>>, k, s)
BY DEF Has

LEMMA HasAppend ==
  ASSUME NEW S, NEW q \in Seq(S), NEW x \in S
  PROVE  \A k, s : Has(Append(q, x), k, s) <=> Has(q, k, s) \/ (x.kind = k /\ x.sid = s)
BY InAppend, HasIn

LEMMA HasConcat ==
  ASSUME NEW S, NEW q \in Seq(S), NEW r \in Seq(S)
  PROVE  \A k, s : Has(q \o r, k, s) <=> Has(q, k, s) \/ Has(r, k, s)
BY InConcat, HasIn

LEMMA HasTail ==
  ASSUME NEW S, NEW q \in Seq(S), q # <<>>
  PROVE  /\ Has(q, Head(q).kind, Head(q).sid)
         /\ \A k, s : Has(Tail(q), k, s) => Has(q, k, s)
         /\ \A k, s : Has(q, k, s) =>
              (Head(q).kind = k /\ Head(q).sid = s) \/ Has(Tail(q), k, s)
BY InTail, HasIn

LEMMA HasPrefix ==
  ASSUME NEW S, NEW q \in Seq(S), NEW n \in 0 .. Len(q)
  PROVE  \A k, s : Has(SubSeq(q, 1, n), k, s) => Has(q, k, s)
BY InPrefix, HasIn

LEMMA HasNotices ==
  ASSUME NEW P \in SUBSET Sids, NEW q \in Walks(P)
  PROVE  \A k, s : Has(LeaveNotices(q), k, s) <=> k = "leave" /\ s \in P
BY WalkNotices, HasIn, MessageTypes

-----------------------------------------------------------------------------
(* What becomes of a connection: most steps at most close its socket.      *)
Settles == \A s \in Sids : net'[s] = net[s] \/ (net[s] = "open" /\ net'[s] = "closing")

(* No notice is seen apart from the end of its handle unless another       *)
(* thread may run between the two.                                         *)
Notices == \A s \in Sids : net[s] = "notified" => timing.splitTeardown

OrphanInv == TypeOK /\ Notices /\ NoOrphan

LEMMA Settling ==
  ASSUME TypeOK
  PROVE  /\ \A P : Disconnect(P) => Settles
         /\ \A s : RejectOrphan(s) => Settles
         /\ UNCHANGED net => Settles
<1>1. \A P : Disconnect(P) => Settles
  BY DEF Disconnect, Settles
<1>2. UNCHANGED net => Settles
  BY DEF Settles
<1> QED
  BY <1>1, <1>2 DEF RejectOrphan

(* What a request of the link thread about a pending selection does.       *)
LEMMA Decisions ==
  ASSUME TypeOK, (\E s \in scan : RetryDeferredSelect(s)) \/ ProcessCharacterSelect
  PROVE  /\ Settles
         /\ \/ UNCHANGED sessions
            \/ \E s \in Sids : /\ net[s] \in {"open", "closing", "notified"}
                               /\ UNCHANGED net /\ sessions' = sessions \cup {s}
         /\ UNCHANGED <<channelEvents, timing>>
<1>1. ASSUME NEW s \in Sids, NEW rest, NEW joinable, AdmitOrRefuse(s, rest, joinable)
      PROVE  /\ Settles
             /\ \/ UNCHANGED sessions
                \/ \E x \in Sids : /\ net[x] \in {"open", "closing", "notified"}
                                   /\ UNCHANGED net /\ sessions' = sessions \cup {x}
  BY <1>1, Settling DEF AdmitOrRefuse, Admit, RefuseDead, RefuseFull, IsAlive
<1>2. ASSUME NEW s \in scan, RetryDeferredSelect(s)
      PROVE  /\ Settles
             /\ \/ UNCHANGED sessions
                \/ \E x \in Sids : /\ net[x] \in {"open", "closing", "notified"}
                                   /\ UNCHANGED net /\ sessions' = sessions \cup {x}
             /\ UNCHANGED <<channelEvents, timing>>
  <2>1. s \in Sids
    BY DEF TypeOK
  <2> QED
    BY <1>1, <1>2, <2>1, Settling DEF RetryDeferredSelect
<1>3. CASE ProcessCharacterSelect
  <2>1. Head(requests).sid \in Sids
    BY <1>3, QueueTypes, MessageTypes DEF ProcessCharacterSelect, Popped
  <2> QED
    BY <1>1, <1>3, <2>1, Settling
    DEF ProcessCharacterSelect, SelectIgnored, SelectDeferred, SelectDecided, RefuseFull
<1> QED
  BY <1>2, <1>3

LEMMA InitOrphan == Init => Notices /\ NoOrphan
BY DEF Init, Notices, NoOrphan, OrphanFree

LEMMA LeaveHas ==
  \A s : /\ LeaveUnderWay(s) <=> Has(channelEvents, "leave", s)
         /\ LeaveUnderWay(s)' <=> Has(channelEvents', "leave", s)
BY DEF LeaveUnderWay, Has

(* Steps that only settle connections keep the invariant.                  *)
LEMMA SettledOrphan ==
  ASSUME OrphanInv, Settles, UNCHANGED timing, sessions' \subseteq sessions,
         \A s \in sessions' : LeaveUnderWay(s) => LeaveUnderWay(s)'
  PROVE  Notices' /\ NoOrphan'
<1>1. Notices'
  BY DEF OrphanInv, Notices, Settles
<1>2. ASSUME ~ timing.splitTeardown, NEW s \in sessions'
      PROVE  net'[s] \in {"open", "closing"} \/ LeaveUnderWay(s)'
  <2>1. s \in sessions /\ s \in Sids
    BY DEF OrphanInv, TypeOK
  <2>2. net[s] \in {"open", "closing"} \/ LeaveUnderWay(s)
    BY <1>2, <2>1 DEF OrphanInv, NoOrphan, OrphanFree
  <2> QED
    BY <2>1, <2>2 DEF Settles
<1> QED
  BY <1>1, <1>2 DEF NoOrphan, OrphanFree

LEMMA QuietOrphan ==
  ASSUME OrphanInv, Settles, UNCHANGED <<timing, sessions, channelEvents>>
  PROVE  Notices' /\ NoOrphan'
<1>1. \A s \in sessions' : LeaveUnderWay(s) => LeaveUnderWay(s)'
  BY DEF LeaveUnderWay
<1> QED
  BY <1>1, SettledOrphan

LEMMA AppendedOrphan ==
  ASSUME OrphanInv, Settles, UNCHANGED <<timing, sessions>>,
         NEW e \in ChanEvent, channelEvents' = Append(channelEvents, e)
  PROVE  Notices' /\ NoOrphan'
<1>1. channelEvents \in Seq(ChanEvent)
  BY DEF OrphanInv, TypeOK
<1>2. \A s : Has(channelEvents, "leave", s) => Has(channelEvents', "leave", s)
  BY <1>1, HasAppend
<1>3. \A s : LeaveUnderWay(s) => LeaveUnderWay(s)'
  BY <1>2, LeaveHas
<1> QED
  BY <1>3, SettledOrphan

LEMMA TeardownOrphan ==
  ASSUME OrphanInv, NEW s \in Sids, Connect(s) \/ EnqueueDisconnect(s) \/ Release(s)
  PROVE  Notices' /\ NoOrphan'
<1>1. CASE Connect(s)
  BY <1>1 DEF Connect, OrphanInv, TypeOK, Notices, NoOrphan, OrphanFree, LeaveUnderWay
<1>2. CASE EnqueueDisconnect(s)
  <2>1. Notices'
    BY <1>2 DEF EnqueueDisconnect, OrphanInv, TypeOK, Notices
  <2>2. ASSUME NEW x \in sessions, LeaveUnderWay(x)
        PROVE  LeaveUnderWay(x)'
    <3>1. CASE UNCHANGED channelEvents
      BY <2>2, <3>1 DEF LeaveUnderWay
    <3>2. CASE channelEvents' = Append(channelEvents, Event("leave", s, {}))
      <4>1. Event("leave", s, {}) \in ChanEvent /\ channelEvents \in Seq(ChanEvent)
        BY EventTypes DEF OrphanInv, TypeOK
      <4>2. Has(channelEvents', "leave", x)
        BY <2>2, <3>2, <4>1, HasAppend, LeaveHas
      <4> QED
        BY <4>2, LeaveHas
    <3> QED
      BY <1>2, <3>1, <3>2 DEF EnqueueDisconnect
  <2>3. s \in sessions => LeaveUnderWay(s)'
    <3>1. Event("leave", s, {}) \in ChanEvent
      BY EventTypes
    <3>2. Has(Append(channelEvents, Event("leave", s, {})), "leave", s)
      BY <3>1, HasAppend, EventTypes DEF OrphanInv, TypeOK
    <3> QED
      BY <1>2, <3>2 DEF EnqueueDisconnect, LeaveUnderWay, Has
  <2>4. \A x \in Sids \ {s} : net'[x] = net[x]
    BY <1>2 DEF EnqueueDisconnect, OrphanInv, TypeOK
  <2> QED
    BY <1>2, <2>1, <2>2, <2>3, <2>4
    DEF EnqueueDisconnect, OrphanInv, TypeOK, NoOrphan, OrphanFree
<1>3. CASE Release(s)
  BY <1>3 DEF Release, OrphanInv, TypeOK, Notices, NoOrphan, OrphanFree, LeaveUnderWay
<1> QED
  BY <1>1, <1>2, <1>3

LEMMA ChannelOrphan ==
  ASSUME OrphanInv, NEW s \in Sids,
         \/ OnClientLeave(s) \/ CharacterLoaded(s) \/ CharacterNotLoaded(s)
         \/ OnChannelEnter(s)
  PROVE  Notices' /\ NoOrphan'
<1>0. TypeOK
  BY DEF OrphanInv
<1>1. /\ Head(channelEvents) \in ChanEvent /\ Tail(channelEvents) \in Seq(ChanEvent)
      /\ channelEvents # <<>> /\ channelEvents \in Seq(ChanEvent)
  BY <1>0, QueueTypes
  DEF OnClientLeave, CharacterLoaded, CharacterNotLoaded, OnChannelEnter, NextEvent, TypeOK
<1>2. Settles /\ UNCHANGED timing
  BY <1>0, Settling DEF OnClientLeave, CharacterLoaded, CharacterNotLoaded, OnChannelEnter
<1>3. sessions' \subseteq sessions
  BY DEF OnClientLeave, CharacterLoaded, CharacterNotLoaded, OnChannelEnter
<1>4. ASSUME NEW x \in sessions', Has(channelEvents, "leave", x)
      PROVE  Has(channelEvents', "leave", x)
  <2>1. Has(Tail(channelEvents), "leave", x)
    BY <1>1, <1>4, HasTail
    DEF OnClientLeave, CharacterLoaded, CharacterNotLoaded, OnChannelEnter, NextEvent
  <2>2. Has(Append(Tail(channelEvents), Event("enter", s, {})), "leave", x)
    <3>1. Event("enter", s, {}) \in ChanEvent
      BY EventTypes
    <3> QED
      BY <1>1, <2>1, <3>1, HasAppend
  <2> QED
    BY <2>1, <2>2 DEF OnClientLeave, CharacterLoaded, CharacterNotLoaded, OnChannelEnter
<1> QED
  BY <1>2, <1>3, <1>4, LeaveHas, SettledOrphan

LEMMA NextOrphan == OrphanInv /\ [Next]_vars => OrphanInv'
<1> SUFFICES ASSUME OrphanInv, [Next]_vars
             PROVE  Notices' /\ NoOrphan'
  BY NextTypeOK DEF OrphanInv
<1>0. TypeOK
  BY DEF OrphanInv
<1>1. CASE UNCHANGED vars
  BY <1>0, <1>1, Settling, QuietOrphan DEF vars
<1>2. ASSUME NEW s \in Sids, HandlePreAuthPacket(s) \/ Hangup(s) \/ Autosave(s)
      PROVE  Notices' /\ NoOrphan'
  BY <1>0, <1>2, Settling, QuietOrphan DEF HandlePreAuthPacket, Hangup, Autosave
<1>3. CASE BreakLink \/ LoginServerReceives \/ SweepOnline
  BY <1>0, <1>3, Settling, QuietOrphan DEF BreakLink, LoginServerReceives, SweepOnline
<1>4. CASE Reconnect \/ (\E S \in SUBSET pending : ReapPendingSelect(S)) \/ MaybeSendOnlineSnapshot
  BY <1>0, <1>4, Settling, QuietOrphan
  DEF Reconnect, ReapPendingSelect, MaybeSendOnlineSnapshot
<1>5. CASE RecvFrame
  BY <1>0, <1>5, Settling, QuietOrphan
  DEF RecvFrame, RecvKick, KickByAccount, VerifyOk, VerifyNotFound, RecvFails
<1>6. CASE \/ PopNothing \/ SendVerify \/ SendVerifyFails \/ SendSessionGone
           \/ OtherRequestFails \/ ProcessChannelSelect \/ ProcessPendingGone
  BY <1>0, <1>6, Settling, QuietOrphan
  DEF PopNothing, SendVerify, SendVerifyFails, SendSessionGone, OtherRequestFails,
      ProcessChannelSelect, ProcessPendingGone
<1>7. CASE (\E s \in scan : RetryDeferredSelect(s)) \/ ProcessCharacterSelect
  <2>1. CASE UNCHANGED sessions
    BY <1>0, <1>7, <2>1, Decisions, QuietOrphan
  <2>2. ASSUME NEW s \in Sids, net[s] \in {"open", "closing", "notified"},
               UNCHANGED net, sessions' = sessions \cup {s},
               UNCHANGED <<channelEvents, timing>>
        PROVE  Notices' /\ NoOrphan'
    BY <2>2 DEF OrphanInv, Notices, NoOrphan, OrphanFree, LeaveUnderWay
  <2> QED
    BY <1>0, <1>7, <2>1, <2>2, Decisions
<1>8. CASE DbThread
  <2>1. CASE LoadCharacter
    <3>1. Settles /\ UNCHANGED <<timing, sessions>>
      BY <1>0, <2>1, Settling DEF LoadCharacter
    <3>2. Head(dbQueue).sid \in Sids /\ stored \in SUBSET Sids
      BY <1>0, <2>1, QueueTypes, EventTypes DEF LoadCharacter, TypeOK
    <3>3. \E e \in ChanEvent : channelEvents' = Append(channelEvents, e)
      BY <2>1, <3>2, EventTypes DEF LoadCharacter
    <3> QED
      BY <3>1, <3>3, AppendedOrphan
  <2>2. CASE SaveFull
    BY <1>0, <2>2, Settling, QuietOrphan DEF SaveFull
  <2> QED
    BY <1>8, <2>1, <2>2 DEF DbThread
<1> QED
  BY <1>1, <1>2, <1>3, <1>4, <1>5, <1>6, <1>7, <1>8, TeardownOrphan, ChannelOrphan
  DEF Next, Clients, Autosaves, Servers, Teardown, LinkThread, ChannelThread, Pop

(* Unless a thread runs between the disconnect notice of one connection    *)
(* and the end of its handle (EnqueueDisconnect and Release), a session    *)
(* whose connection is down has its leave job in the mailbox: admission    *)
(* never revives a connection that has already given its notice.           *)
THEOREM SessionsKeepAnOwner == Spec => []NoOrphan
<1>1. Init => OrphanInv
  BY InitTypeOK, InitOrphan DEF OrphanInv
<1>2. OrphanInv => NoOrphan
  BY DEF OrphanInv
<1> QED
  BY <1>1, <1>2, NextOrphan, PTL DEF Spec

-----------------------------------------------------------------------------
(* The exchange of a verification and its result.                          *)
OnlyLast(q, K) == \A i \in DOMAIN q : q[i].kind \in K => i = Len(q)

LEMMA OnlyLastAppend ==
  ASSUME NEW S, NEW q \in Seq(S), NEW x \in S, NEW K,
         \A k \in K : \A s : ~ Has(q, k, s)
  PROVE  OnlyLast(Append(q, x), K)
<1>1. /\ Len(Append(q, x)) = Len(q) + 1 /\ Append(q, x) \in Seq(S)
      /\ \A i \in 1 .. Len(q) : Append(q, x)[i] = q[i]
  BY AppendProperties
<1>2. /\ DOMAIN q = 1 .. Len(q) /\ DOMAIN Append(q, x) = 1 .. (Len(q) + 1)
      /\ Len(q) \in Nat
  BY <1>1, LenProperties
<1>3. \A i \in 1 .. Len(q) : q[i].kind \notin K
  BY <1>2 DEF Has
<1> QED
  BY <1>1, <1>2, <1>3 DEF OnlyLast

LEMMA OnlyLastTail ==
  ASSUME NEW S, NEW q \in Seq(S), q # <<>>, NEW K, OnlyLast(q, K)
  PROVE  /\ OnlyLast(Tail(q), K)
         /\ Head(q).kind \in K => Tail(q) = <<>>
<1>1. /\ Tail(q) \in Seq(S) /\ Head(q) = q[1] /\ Len(Tail(q)) = Len(q) - 1
      /\ \A i \in 1 .. (Len(q) - 1) : Tail(q)[i] = q[i + 1]
  BY HeadTailProperties
<1>2. /\ DOMAIN q = 1 .. Len(q) /\ Len(q) \in Nat /\ Len(q) # 0
      /\ DOMAIN Tail(q) = 1 .. (Len(q) - 1)
  BY <1>1, LenProperties, EmptySeq
<1>3. OnlyLast(Tail(q), K)
  <2>1. ASSUME NEW i \in 1 .. (Len(q) - 1), Tail(q)[i].kind \in K
        PROVE  i = Len(q) - 1
    <3>1. i + 1 \in 1 .. Len(q) /\ q[i + 1].kind \in K
      BY <1>1, <1>2, <2>1
    <3>2. i + 1 = Len(q)
      BY <1>2, <3>1 DEF OnlyLast
    <3>3. i \in Nat /\ Len(q) \in Nat
      BY <1>2
    <3> QED
      BY <3>2, <3>3
  <2> QED
    BY <1>1, <1>2, <2>1 DEF OnlyLast
<1>4. ASSUME Head(q).kind \in K
      PROVE  Tail(q) = <<>>
  <2>1. 1 = Len(q)
    BY <1>1, <1>2, <1>4 DEF OnlyLast
  <2>2. Len(q) - 1 = 0
    BY <2>1
  <2>3. Len(Tail(q)) = 0
    BY <1>1, <2>2
  <2> QED
    BY <1>1, <2>3, EmptySeq
<1> QED
  BY <1>3, <1>4

LEMMA OnlyLastPrefix ==
  ASSUME NEW S, NEW q \in Seq(S), NEW n \in 0 .. Len(q), NEW K, OnlyLast(q, K)
  PROVE  OnlyLast(SubSeq(q, 1, n), K)
<1>1. /\ DOMAIN q = 1 .. Len(q) /\ Len(q) \in Nat
      /\ SubSeq(q, 1, n) \in Seq(S) /\ Len(SubSeq(q, 1, n)) = n
      /\ \A i \in 1 .. n : SubSeq(q, 1, n)[i] = q[i]
  BY LenProperties, InPrefix
<1>2. DOMAIN SubSeq(q, 1, n) = 1 .. n
  BY <1>1, LenProperties
<1> QED
  BY <1>1, <1>2 DEF OnlyLast

Results == {"ok", "notFound"}

Exchange ==
  /\ at # "verify" => toGame = <<>>
  /\ \A s : Has(toLogin, "verify", s) => at = "verify" /\ s = cur /\ toGame = <<>>
  /\ OnlyLast(toLogin, {"verify"})
  /\ OnlyLast(toGame, Results)
  /\ \A s : \A k \in Results : Has(toGame, k, s) => s = cur

LEMMA InitExchange == Init => Exchange
BY HasEmpty DEF Init, Exchange, OnlyLast

LEMMA ResultsMatch == TypeOK /\ Exchange => ResultMatchesRequest
<1> SUFFICES ASSUME TypeOK, Exchange, NEW i \in DOMAIN toGame
             PROVE  /\ at = "verify"
                    /\ toGame[i].kind # "kick" => toGame[i].sid = cur
  BY DEF ResultMatchesRequest
<1>1. toGame # <<>> /\ toGame[i] \in ToGame
  BY ElementOfSeq, LenProperties DEF TypeOK
<1>2. toGame[i].kind # "kick" => toGame[i].kind \in Results
  BY <1>1 DEF ToGame, Results
<1>3. Has(toGame, toGame[i].kind, toGame[i].sid)
  BY DEF Has
<1> QED
  BY <1>1, <1>2, <1>3 DEF Exchange

(* The wire is empty after Close.                                          *)
LEMMA ClosedExchange == toLogin' = <<>> /\ toGame' = <<>> => Exchange'
BY HasEmpty DEF Exchange, OnlyLast

(* A frame other than a verification is sent while none is under way.      *)
LEMMA SendExchange ==
  ASSUME TypeOK, Exchange, at # "verify", at' # "verify", UNCHANGED toGame,
         NEW m \in ToLogin, m.kind # "verify", toLogin' = Append(toLogin, m)
  PROVE  Exchange'
<1>1. toGame = <<>> /\ \A s : ~ Has(toLogin, "verify", s)
  BY DEF Exchange
<1>2. toLogin \in Seq(ToLogin)
  BY DEF TypeOK
<1>3. \A s : ~ Has(Append(toLogin, m), "verify", s)
  BY <1>1, <1>2, HasAppend
<1>4. OnlyLast(Append(toLogin, m), {"verify"})
  BY <1>1, <1>2, OnlyLastAppend
<1> QED
  BY <1>1, <1>3, <1>4, HasEmpty DEF Exchange, OnlyLast

LEMMA SendVerifyExchange ==
  ASSUME TypeOK, Exchange, SendVerify
  PROVE  Exchange'
<1>1. toGame = <<>> /\ \A s : ~ Has(toLogin, "verify", s)
  BY DEF Exchange, SendVerify, Popped
<1>2. /\ toLogin \in Seq(ToLogin) /\ Head(requests) \in ToLogin
      /\ Head(requests).kind = "verify"
  BY QueueTypes, MessageTypes DEF TypeOK, SendVerify, Popped
<1>3. \A s : Has(Append(toLogin, Head(requests)), "verify", s) => s = Head(requests).sid
  BY <1>1, <1>2, HasAppend
<1>4. OnlyLast(Append(toLogin, Head(requests)), {"verify"})
  BY <1>1, <1>2, OnlyLastAppend
<1>5. OnlyLast(toLogin, {"verify"})
  BY DEF Exchange
<1> QED
  BY <1>1, <1>3, <1>4, <1>5, HasEmpty DEF Exchange, OnlyLast, SendVerify

(* The link thread takes a frame.                                          *)
LEMMA RecvExchange ==
  ASSUME TypeOK, Exchange, UNCHANGED <<toLogin, cur>>, toGame # <<>>,
         toGame' = Tail(toGame), at = "verify",
         at' = "verify" \/ (at' = "top" /\ Head(toGame).kind \in Results)
  PROVE  Exchange'
<1>1. toGame \in Seq(ToGame)
  BY DEF TypeOK
<1>2. \A s : ~ Has(toLogin, "verify", s)
  BY DEF Exchange
<1>3. /\ OnlyLast(Tail(toGame), Results)
      /\ Head(toGame).kind \in Results => Tail(toGame) = <<>>
  BY <1>1, OnlyLastTail DEF Exchange
<1>4. \A s : \A k \in Results : Has(Tail(toGame), k, s) => s = cur
  BY <1>1, HasTail DEF Exchange
<1> QED
  BY <1>2, <1>3, <1>4 DEF Exchange

LEMMA BreakExchange ==
  ASSUME TypeOK, Exchange, BreakLink
  PROVE  Exchange'
<1>1. PICK n \in 0 .. Len(toGame) : toGame' = SubSeq(toGame, 1, n)
  BY DEF BreakLink
<1>2. toGame \in Seq(ToGame)
  BY DEF TypeOK
<1>3. /\ OnlyLast(toGame', Results)
      /\ \A s : \A k \in Results : Has(toGame', k, s) => s = cur
  BY <1>1, <1>2, OnlyLastPrefix, HasPrefix DEF Exchange
<1>4. at # "verify" => toGame' = <<>>
  <2>1. at # "verify" => toGame = <<>>
    BY DEF Exchange
  <2>2. toGame = <<>> => Len(toGame) = 0 /\ n = 0
    OBVIOUS
  <2>3. n = 0 => SubSeq(toGame, 1, n) = <<>>
    BY <1>2, InPrefix, EmptySeq
  <2> QED
    BY <1>1, <2>1, <2>2, <2>3
<1>5. toLogin' = <<>> /\ cur' = cur /\ at' = at
  BY DEF BreakLink
<1> QED
  BY <1>3, <1>4, <1>5, HasEmpty DEF Exchange, OnlyLast

(* What the login server answers to a token.                               *)
LEMMA KickThenOk ==
  ASSUME NEW a, NEW b
  PROVE  /\ <<>> \o <<a>> \o <<b>> = <<a, b>>
         /\ <<>> \o <<>> \o <<b>> = <<b>>
         /\ Append(<<>>, b) = <<b>>
<1>1. <<a>> \in Seq({a, b}) /\ <<b>> \in Seq({a, b}) /\ <<>> \in Seq({a, b})
  OBVIOUS
<1>2. /\ <<>> \o <<a>> = <<a>> /\ <<>> \o <<>> = <<>> /\ <<>> \o <<b>> = <<b>>
  BY <1>1, ConcatEmptySeq
<1>3. <<a>> \o <<b>> = <<a, b>>
  <2>1. <<a, b>> \in Seq({a, b}) /\ Len(<<a, b>>) = 2 /\ Len(<<a>>) = 1 /\ Len(<<b>>) = 1
    OBVIOUS
  <2>2. /\ <<a>> \o <<b>> \in Seq({a, b}) /\ Len(<<a>> \o <<b>>) = 2
        /\ (<<a>> \o <<b>>)[1] = a /\ (<<a>> \o <<b>>)[2] = b
    BY <1>1, <2>1, ConcatProperties
  <2>3. \A i \in 1 .. 2 : (<<a>> \o <<b>>)[i] = <<a, b>>[i]
    BY <2>2
  <2> QED
    BY <2>1, <2>2, <2>3, SeqEqual
<1>4. Append(<<>>, b) = <<b>>
  OBVIOUS
<1> QED
  BY <1>2, <1>3, <1>4

LEMMA LoginExchange ==
  ASSUME TypeOK, Exchange, LoginServerReceives
  PROVE  Exchange'
<1>1. UNCHANGED <<at, cur>>
  BY DEF LoginServerReceives
<1>2. toLogin \in Seq(ToLogin) /\ toGame \in Seq(ToGame)
  BY DEF TypeOK
<1>3. CASE /\ oldLink # <<>> /\ HandleFrame(Head(oldLink), FALSE) /\ UNCHANGED toLogin
  <2>1. UNCHANGED toGame
    BY <1>3 DEF HandleFrame, HandleTokenVerify
  <2> QED
    BY <1>1, <1>3, <2>1 DEF Exchange
<1>4. CASE /\ toLogin # <<>> /\ HandleFrame(Head(toLogin), TRUE)
           /\ toLogin' = Tail(toLogin)
  <2> DEFINE m == Head(toLogin)
  <2>1. /\ OnlyLast(Tail(toLogin), {"verify"})
        /\ m.kind = "verify" => Tail(toLogin) = <<>>
        /\ \A s : Has(Tail(toLogin), "verify", s) => Has(toLogin, "verify", s)
        /\ Has(toLogin, m.kind, m.sid) /\ m \in ToLogin
    BY <1>2, <1>4, OnlyLastTail, HasTail, QueueTypes DEF Exchange
  <2>2. CASE UNCHANGED toGame
    BY <1>1, <1>4, <2>1, <2>2 DEF Exchange
  <2>3. CASE m.kind = "verify"
    <3>1. at = "verify" /\ m.sid = cur /\ toGame = <<>> /\ cur \in Sids
      BY <2>1, <2>3, MessageTypes DEF Exchange
    <3>2. toLogin' = <<>>
      BY <1>4, <2>1, <2>3
    <3>3. \/ toGame' = <<Msg("kick", cur), Msg("ok", cur)>>
          \/ toGame' = <<Msg("ok", cur)>> \/ toGame' = <<Msg("notFound", cur)>>
          \/ UNCHANGED toGame
      <4>1. /\ <<>> \o <<Msg("kick", cur)>> \o <<Msg("ok", cur)>>
                 = <<Msg("kick", cur), Msg("ok", cur)>>
            /\ <<>> \o <<>> \o <<Msg("ok", cur)>> = <<Msg("ok", cur)>>
            /\ Append(<<>>, Msg("notFound", cur)) = <<Msg("notFound", cur)>>
        BY KickThenOk
      <4>2. HandleTokenVerify(cur, TRUE)
        BY <1>4, <2>3, <3>1 DEF HandleFrame
      <4> QED
        BY <3>1, <4>1, <4>2 DEF HandleTokenVerify, KickIfOnline
    <3>4. /\ OnlyLast(<<Msg("ok", cur)>>, Results) /\ OnlyLast(<<Msg("notFound", cur)>>, Results)
          /\ OnlyLast(<<Msg("kick", cur), Msg("ok", cur)>>, Results)
      BY DEF OnlyLast, Msg, Results
    <3>5. \A k \in Results : \A s : /\ Has(<<Msg("ok", cur)>>, k, s) => s = cur
                                    /\ Has(<<Msg("notFound", cur)>>, k, s) => s = cur
                                    /\ Has(<<Msg("kick", cur), Msg("ok", cur)>>, k, s) => s = cur
      BY DEF Has, Msg
    <3> QED
      <4>1. /\ \A s : ~ Has(toLogin', "verify", s)
            /\ OnlyLast(toLogin', {"verify"}) /\ OnlyLast(<<>>, Results)
        BY <3>2, HasEmpty DEF OnlyLast
      <4>2. OnlyLast(toGame', Results)
        BY <3>1, <3>3, <3>4, <4>1
      <4>3. \A s : \A k \in Results : Has(toGame', k, s) => s = cur
        BY <3>1, <3>3, <3>5, HasEmpty
      <4> QED
        BY <1>1, <3>1, <4>1, <4>2, <4>3 DEF Exchange
  <2> QED
    BY <1>4, <2>2, <2>3 DEF HandleFrame
<1> QED
  BY <1>3, <1>4 DEF LoginServerReceives

LEMMA NextExchange == TypeOK /\ Exchange /\ [Next]_vars => Exchange'
<1> SUFFICES ASSUME TypeOK, Exchange, [Next]_vars
             PROVE  Exchange'
  OBVIOUS
<1>1. CASE /\ UNCHANGED <<cur, toLogin, toGame>>
           /\ at' = at \/ (at # "verify" /\ at' # "verify")
  BY <1>1 DEF Exchange
<1>2. ASSUME NEW s \in Sids, \/ Connect(s) \/ HandlePreAuthPacket(s) \/ Hangup(s)
                             \/ Autosave(s) \/ EnqueueDisconnect(s) \/ Release(s)
      PROVE  Exchange'
  BY <1>1, <1>2
  DEF Connect, HandlePreAuthPacket, Hangup, Autosave, EnqueueDisconnect, Release
<1>3. ASSUME NEW s \in Sids, \/ OnClientLeave(s) \/ CharacterLoaded(s)
                             \/ CharacterNotLoaded(s) \/ OnChannelEnter(s)
      PROVE  Exchange'
  BY <1>1, <1>3 DEF OnClientLeave, CharacterLoaded, CharacterNotLoaded, OnChannelEnter
<1>4. CASE SweepOnline \/ DbThread
  BY <1>1, <1>4 DEF SweepOnline, DbThread, LoadCharacter, SaveFull
<1>5. CASE \/ Reconnect \/ (\E S \in SUBSET pending : ReapPendingSelect(S))
           \/ (\E s \in scan : RetryDeferredSelect(s))
  BY <1>1, <1>5 DEF Reconnect, ReapPendingSelect, RetryDeferredSelect
<1>6. CASE PopNothing \/ ProcessChannelSelect \/ ProcessCharacterSelect \/ ProcessPendingGone
  BY <1>1, <1>6
  DEF PopNothing, ProcessChannelSelect, ProcessCharacterSelect, ProcessPendingGone, Popped
<1>7. CASE MaybeSendOnlineSnapshot
  <2>1. SnapshotSid \subseteq Sids
    BY DEF SnapshotSid, TypeOK
  <2>2. \A s \in SnapshotSid : Msg("sync", s) \in ToLogin /\ Msg("sync", s).kind # "verify"
    BY <2>1, MessageTypes
  <2>3. \/ UNCHANGED toLogin
        \/ \E s \in SnapshotSid : toLogin' = Append(toLogin, Msg("sync", s))
    BY <1>7 DEF MaybeSendOnlineSnapshot, SendOnlineSnapshot
  <2> QED
    BY <1>1, <1>7, <2>2, <2>3, SendExchange DEF MaybeSendOnlineSnapshot
<1>8. CASE SendSessionGone
  <2>1. Head(requests) \in ToLogin /\ Head(requests).kind = "leave"
    BY <1>8, QueueTypes, MessageTypes DEF SendSessionGone, Popped
  <2> QED
    BY <1>1, <1>8, <2>1, SendExchange, ClosedExchange DEF SendSessionGone, Popped, Close
<1>9. CASE SendVerifyFails \/ OtherRequestFails \/ RecvFails
  BY <1>9, ClosedExchange DEF SendVerifyFails, OtherRequestFails, RecvFails, Close
<1>10. CASE RecvKick \/ VerifyOk \/ VerifyNotFound
  BY <1>10, RecvExchange DEF RecvKick, VerifyOk, VerifyNotFound, Received, Results
<1>11. CASE UNCHANGED vars
  BY <1>1, <1>11 DEF vars
<1> QED
  BY <1>2, <1>3, <1>4, <1>5, <1>6, <1>7, <1>8, <1>9, <1>10, <1>11,
     SendVerifyExchange, BreakExchange, LoginExchange
  DEF Next, Clients, Autosaves, Servers, Teardown, LinkThread, ChannelThread, Pop, RecvFrame

(* Whatever fails in between, a result that RecvVerifyOrKick reads belongs *)
(* to the connection ProcessVerify sent the token of: Close leaves no      *)
(* answer behind that the next verification could take for its own.        *)
THEOREM ResultsBelongToTheirRequest == Spec => []ResultMatchesRequest
<1>1. Init => TypeOK /\ Exchange
  BY InitTypeOK, InitExchange
<1> QED
  BY <1>1, NextTypeOK, NextExchange, ResultsMatch, PTL DEF Spec

-----------------------------------------------------------------------------
(* Part 2.  What a step can do to the holders of the account, read off the *)
(* handlers once, for the invariants that follow.                          *)

(* RetryDeferredSelects visits only pendings.                              *)
Scanning == scan \subseteq pending /\ (at # "retry" => scan = {})

LEMMA InitScanning == Init => Scanning
BY DEF Init, Scanning

LEMMA NextScanning == TypeOK /\ Scanning /\ [Next]_vars => Scanning'
<1> SUFFICES ASSUME TypeOK, Scanning, [Next]_vars
             PROVE  Scanning'
  OBVIOUS
<1>1. CASE /\ UNCHANGED <<scan, pending>>
           /\ at' = at \/ (at # "retry" /\ at' # "retry") \/ scan = {}
  BY <1>1 DEF Scanning
<1>2. ASSUME NEW s \in Sids, \/ Connect(s) \/ HandlePreAuthPacket(s) \/ Hangup(s)
                             \/ Autosave(s) \/ EnqueueDisconnect(s) \/ Release(s)
      PROVE  Scanning'
  BY <1>1, <1>2
  DEF Connect, HandlePreAuthPacket, Hangup, Autosave, EnqueueDisconnect, Release
<1>3. ASSUME NEW s \in Sids, \/ OnClientLeave(s) \/ CharacterLoaded(s)
                             \/ CharacterNotLoaded(s) \/ OnChannelEnter(s)
      PROVE  Scanning'
  BY <1>1, <1>3 DEF OnClientLeave, CharacterLoaded, CharacterNotLoaded, OnChannelEnter
<1>4. CASE SweepOnline \/ DbThread \/ LoginServerReceives \/ BreakLink \/ Reconnect
  BY <1>1, <1>4
  DEF SweepOnline, DbThread, LoadCharacter, SaveFull, LoginServerReceives, BreakLink, Reconnect
<1>5. ASSUME NEW S \in SUBSET pending, ReapPendingSelect(S)
      PROVE  Scanning'
  BY <1>5 DEF ReapPendingSelect, Erase, Scanning, TypeOK
<1>6. ASSUME NEW s \in scan, RetryDeferredSelect(s)
      PROVE  Scanning'
  BY <1>6 DEF RetryDeferredSelect, Erase, Scanning
<1>7. CASE MaybeSendOnlineSnapshot
  BY <1>1, <1>7 DEF MaybeSendOnlineSnapshot
<1>8. CASE \/ PopNothing \/ SendVerify \/ SendVerifyFails \/ SendSessionGone
           \/ OtherRequestFails \/ ProcessChannelSelect
  BY <1>1, <1>8
  DEF PopNothing, SendVerify, SendVerifyFails, SendSessionGone, OtherRequestFails,
      ProcessChannelSelect, Popped
<1>9. CASE ProcessCharacterSelect \/ ProcessPendingGone \/ RecvFrame
  <2>1. scan = {} /\ at' # "retry" /\ UNCHANGED scan
    BY <1>9
    DEF ProcessCharacterSelect, ProcessPendingGone, Popped, RecvFrame, RecvKick, VerifyOk,
        VerifyNotFound, RecvFails, Received, Scanning
  <2> QED
    BY <2>1 DEF Scanning
<1>10. CASE UNCHANGED vars
  BY <1>1, <1>10 DEF vars
<1> QED
  BY <1>2, <1>3, <1>4, <1>5, <1>6, <1>7, <1>8, <1>9, <1>10
  DEF Next, Clients, Autosaves, Servers, Teardown, LinkThread, ChannelThread, Pop

Wires == <<toLogin, oldLink, toGame, connected, linkAlive, breaks, timing>>

(* No connection becomes new again.                                        *)
Lasting == \A s \in Sids : net[s] # "new" => net'[s] # "new"

Turn == \/ at' = at
        \/ at = "pop" /\ at' = "top"
        \/ at = "top" /\ connected /\ at' = "retry"

(* Leave notices are queued for the connections in P at most.              *)
FewLeaves(P) ==
  \A s : Has(requests', "leave", s) => Has(requests, "leave", s) \/ s \in P

(* The pendings in P end without a session; P may be empty.  A rollback    *)
(* of OnLoginSuccess clears the account index.                             *)
Dropped(P) ==
  /\ Lasting /\ Turn /\ FewLeaves(P)
  /\ pending' = pending \ P /\ replacing' = replacing \ P
  /\ accountToSid' = accountToSid \/ (P # {} /\ accountToSid' = NoSid)
  /\ UNCHANGED <<sessions, kicked, pendingSave, cur, sawKick, syncDue, Wires,
                 tokens, online>>

Admitted(s) ==
  /\ s \in pending /\ s \notin sessions /\ (s \notin replacing \/ ~ pendingSave)
  /\ Lasting /\ Turn /\ FewLeaves({})
  /\ pending' = pending \ {s} /\ replacing' = replacing \ {s}
  /\ sessions' = sessions \cup {s} /\ accountToSid' = s
  /\ UNCHANGED <<kicked, pendingSave, cur, sawKick, syncDue, Wires, tokens, online>>

(* The link thread gives the link up: it found it dead, or an answer took  *)
(* too long.                                                               *)
LinkFails ==
  /\ Lasting /\ FewLeaves({}) /\ Close /\ at' = "top"
  /\ linkAlive => at = "verify" /\ breaks < timing.breaks
  /\ breaks' = IF linkAlive THEN breaks + 1 ELSE breaks
  /\ UNCHANGED <<pending, replacing, mapVars, cur, sawKick, syncDue, timing,
                 tokens, online>>

LEMMA SettlesLasting == TypeOK /\ Settles => Lasting
BY DEF TypeOK, Settles, Lasting

(* Requests that are appended or popped change the leave notices so.       *)
LEMMA RequestLeaves ==
  ASSUME TypeOK
  PROVE  /\ UNCHANGED requests => FewLeaves({})
         /\ requests # <<>> /\ requests' = Tail(requests) => FewLeaves({})
         /\ \A m \in Request : m.kind # "leave" /\ requests' = Append(requests, m) => FewLeaves({})
         /\ \A s \in Sids : requests' = Append(requests, Msg("leave", s)) => FewLeaves({s})
         /\ \A s \in Sids : requests # <<>> /\ requests' = Append(Tail(requests), Msg("leave", s))
              => FewLeaves({s})
<1>1. requests \in Seq(Request) /\ (requests # <<>> => Tail(requests) \in Seq(Request))
  BY QueueTypes DEF TypeOK
<1>2. /\ UNCHANGED requests => FewLeaves({})
      /\ requests # <<>> /\ requests' = Tail(requests) => FewLeaves({})
  BY <1>1, HasTail DEF FewLeaves
<1>3. \A m \in Request : m.kind # "leave" /\ requests' = Append(requests, m) => FewLeaves({})
  BY <1>1, HasAppend DEF FewLeaves
<1>4. ASSUME NEW s \in Sids
      PROVE  /\ requests' = Append(requests, Msg("leave", s)) => FewLeaves({s})
             /\ requests # <<>> /\ requests' = Append(Tail(requests), Msg("leave", s))
                  => FewLeaves({s})
  <2>1. Msg("leave", s) \in Request /\ Msg("leave", s).sid = s
    BY MessageTypes
  <2>2. \A x : Has(Append(requests, Msg("leave", s)), "leave", x)
                 => Has(requests, "leave", x) \/ x = s
    BY <1>1, <2>1, HasAppend
  <2>3. requests # <<>> =>
          \A x : Has(Append(Tail(requests), Msg("leave", s)), "leave", x)
                   => Has(requests, "leave", x) \/ x = s
    <3>1. requests # <<>> =>
            \A x : Has(Append(Tail(requests), Msg("leave", s)), "leave", x)
                     => Has(Tail(requests), "leave", x) \/ x = s
      BY <1>1, <2>1, HasAppend
    <3> QED
      BY <1>1, <3>1, HasTail
  <2> QED
    BY <2>2, <2>3 DEF FewLeaves
<1> QED
  BY <1>2, <1>3, <1>4

LEMMA NoticeLeaves ==
  ASSUME TypeOK, NEW P \in SUBSET Sids, NEW q \in Walks(P), requests' = requests \o LeaveNotices(q)
  PROVE  FewLeaves(P)
<1>1. LeaveNotices(q) \in Seq(Request) /\ requests \in Seq(Request)
  BY WalkNotices DEF TypeOK
<1> QED
  BY <1>1, HasConcat, HasNotices DEF FewLeaves

Drops == \E P \in SUBSET pending : Dropped(P)
Admits == \E s \in Sids : Admitted(s)

(* AdmitOrRefuse admits or drops, whatever had been popped before.         *)
LEMMA DecisionClass ==
  ASSUME TypeOK, NEW s \in pending, NEW rest, NEW joinable, AdmitOrRefuse(s, rest, joinable),
         \/ rest = requests \/ (requests # <<>> /\ rest = Tail(requests)),
         Erase({s}), Turn, s \notin replacing \/ ~ pendingSave,
         UNCHANGED <<cur, sawKick, syncDue, Wires, tokens, online>>
  PROVE  Drops \/ Admits
<1>1. s \in Sids /\ pending' = pending \ {s} /\ replacing' = replacing \ {s}
  BY DEF TypeOK, Erase
<1>2. CASE Admit(s, rest)
  <2>1. FewLeaves({})
    BY <1>2, RequestLeaves DEF Admit
  <2>2. Lasting
    BY <1>2 DEF Admit, Lasting
  <2>3. Admitted(s)
    BY <1>1, <1>2, <2>1, <2>2 DEF Admit, Admitted
  <2> QED
    BY <1>1, <2>3 DEF Admits
<1>3. CASE RefuseDead(s, rest) \/ RefuseFull(s, rest)
  <2>1. requests' = Append(rest, Msg("leave", s))
    BY <1>3 DEF RefuseDead, RefuseFull
  <2>2. FewLeaves({s})
    BY <1>1, <2>1, RequestLeaves
  <2>3. Settles
    BY <1>3, Settling DEF RefuseDead, RefuseFull
  <2>4. /\ accountToSid' = accountToSid \/ accountToSid' = NoSid
        /\ UNCHANGED <<sessions, kicked, pendingSave>>
    BY <1>3 DEF RefuseDead, RefuseFull
  <2>5. Dropped({s})
    BY <1>1, <2>2, <2>3, <2>4, SettlesLasting DEF Dropped
  <2> QED
    BY <2>5 DEF Drops
<1> QED
  BY <1>2, <1>3 DEF AdmitOrRefuse

(* A step that leaves the holders alone drops nobody.                      *)
LEMMA NobodyDropped ==
  ASSUME TypeOK, Lasting, Turn, FewLeaves({}),
         UNCHANGED <<pending, replacing, mapVars, cur, sawKick, syncDue, Wires, tokens, online>>
  PROVE  Drops
<1>1. Dropped({})
  BY DEF Dropped
<1> QED
  BY <1>1 DEF Drops

LEMMA SelectClass ==
  ASSUME TypeOK, Scanning, (\E s \in scan : RetryDeferredSelect(s)) \/ ProcessCharacterSelect
  PROVE  Drops \/ Admits
<1>1. ASSUME NEW s \in scan, RetryDeferredSelect(s)
      PROVE  Drops \/ Admits
  <2>1. /\ s \in pending /\ Turn
        /\ UNCHANGED <<cur, sawKick, syncDue, Wires, tokens, online>>
    BY <1>1 DEF Scanning, RetryDeferredSelect, Turn, Wires
  <2>2. CASE UNCHANGED <<net, requests, pendVars, mapVars, dbQueue>>
    BY <2>1, <2>2, RequestLeaves, NobodyDropped DEF Lasting
  <2>3. CASE /\ IsSaveReady /\ Erase({s})
             /\ \E joinable \in BOOLEAN : AdmitOrRefuse(s, requests, joinable)
    BY <2>1, <2>3, DecisionClass DEF IsSaveReady
  <2> QED
    BY <1>1, <2>2, <2>3 DEF RetryDeferredSelect
<1>2. CASE ProcessCharacterSelect
  <2> DEFINE s == Head(requests).sid
  <2>1. /\ requests # <<>> /\ Turn
        /\ UNCHANGED <<cur, sawKick, syncDue, Wires, tokens, online>>
    BY <1>2 DEF ProcessCharacterSelect, Popped, Turn, Wires
  <2>2. CASE SelectIgnored(s) \/ SelectDeferred(s)
    <3>1. /\ requests' = Tail(requests)
          /\ UNCHANGED <<net, pending, replacing, mapVars>>
      BY <2>2 DEF SelectIgnored, SelectDeferred
    <3> QED
      BY <2>1, <3>1, RequestLeaves, NobodyDropped DEF Lasting
  <2>3. CASE SelectDecided(s)
    <3>1. /\ s \in pending /\ Erase({s}) /\ (s \notin replacing \/ ~ pendingSave)
      BY <2>3 DEF SelectDecided, MustWait, IsSaveReady
    <3>2. CASE \E joinable \in BOOLEAN : AdmitOrRefuse(s, Tail(requests), joinable)
      BY <2>1, <3>1, <3>2, DecisionClass
    <3>3. CASE RefuseFull(s, Tail(requests))
      <4>1. s \in Sids
        BY <3>1 DEF TypeOK
      <4>2. Lasting /\ FewLeaves({s})
        BY <2>1, <3>3, <4>1, Settling, SettlesLasting, RequestLeaves DEF RefuseFull
      <4>3. Dropped({s})
        BY <2>1, <3>1, <3>3, <4>2 DEF RefuseFull, Erase, Dropped
      <4> QED
        BY <3>1, <4>3 DEF Drops
    <3> QED
      BY <2>3, <3>2, <3>3 DEF SelectDecided
  <2> QED
    BY <1>2, <2>2, <2>3 DEF ProcessCharacterSelect
<1> QED
  BY <1>1, <1>2

LEMMA DropClass ==
  ASSUME TypeOK,
         \/ \E S \in SUBSET pending : ReapPendingSelect(S)
         \/ PopNothing \/ ProcessChannelSelect \/ ProcessPendingGone
  PROVE  Drops
<1>1. ASSUME NEW S \in SUBSET pending, ReapPendingSelect(S)
      PROVE  Drops
  <2>1. Lasting
    BY <1>1, Settling, SettlesLasting DEF ReapPendingSelect
  <2>2. FewLeaves(S)
    <3>1. S \in SUBSET Sids
      BY DEF TypeOK
    <3> QED
      BY <1>1, <3>1, NoticeLeaves DEF ReapPendingSelect
  <2>3. Dropped(S)
    BY <1>1, <2>1, <2>2 DEF ReapPendingSelect, Erase, Dropped, Turn, Wires
  <2> QED
    BY <2>3 DEF Drops
<1>2. CASE PopNothing
  BY <1>2, RequestLeaves, NobodyDropped DEF PopNothing, Lasting, Turn, Wires
<1>3. CASE ProcessChannelSelect
  BY <1>3, RequestLeaves, NobodyDropped DEF ProcessChannelSelect, Popped, Lasting, Turn, Wires
<1>4. CASE ProcessPendingGone
  <2> DEFINE s == Head(requests).sid
  <2>1. /\ requests # <<>> /\ Lasting /\ Turn /\ s \in Sids
        /\ UNCHANGED <<mapVars, cur, sawKick, syncDue, Wires, tokens, online>>
    BY <1>4, QueueTypes, MessageTypes DEF ProcessPendingGone, Popped, Lasting, Turn, Wires
  <2>2. Erase({s})
    BY <1>4 DEF ProcessPendingGone, EndPending
  <2>3. CASE s \in pending
    <3>1. FewLeaves({s})
      BY <1>4, <2>1, <2>3, RequestLeaves DEF ProcessPendingGone, EndPending
    <3>2. Dropped({s})
      BY <2>1, <2>2, <3>1 DEF Erase, Dropped
    <3> QED
      BY <2>3, <3>2 DEF Drops
  <2>4. CASE s \notin pending
    <3>1. requests' = Tail(requests)
      BY <1>4, <2>4 DEF ProcessPendingGone, EndPending
    <3>2. UNCHANGED <<pending, replacing>>
      BY <2>2, <2>4 DEF Erase, TypeOK
    <3> QED
      BY <2>1, <3>1, <3>2, RequestLeaves, NobodyDropped
  <2> QED
    BY <2>3, <2>4
<1> QED
  BY <1>1, <1>2, <1>3, <1>4

LEMMA QuietClass ==
  ASSUME TypeOK, NEW s \in Sids,
         \/ HandlePreAuthPacket(s) \/ Hangup(s) \/ EnqueueDisconnect(s) \/ Release(s)
         \/ Autosave(s) \/ CharacterLoaded(s) \/ CharacterNotLoaded(s) \/ OnChannelEnter(s)
  PROVE  Drops
<1>1. CASE HandlePreAuthPacket(s)
  <2>1. script[s] \in Seq(Handshake) /\ script[s] # <<>>
    BY <1>1 DEF HandlePreAuthPacket, TypeOK
  <2>2. Head(script[s]) \in Handshake
    BY <2>1, HeadTailProperties
  <2>3. /\ Msg(Head(script[s]), s) \in Request /\ Msg(Head(script[s]), s).kind # "leave"
    BY <2>2, MessageTypes DEF Handshake
  <2> QED
    BY <1>1, <2>3, RequestLeaves, NobodyDropped
    DEF HandlePreAuthPacket, Lasting, Turn, Wires
<1>2. CASE EnqueueDisconnect(s)
  <2>1. Msg("pendingGone", s) \in Request /\ Msg("pendingGone", s).kind # "leave"
    BY MessageTypes
  <2>2. FewLeaves({})
    BY <1>2, <2>1, RequestLeaves DEF EnqueueDisconnect
  <2>3. Lasting
    BY <1>2 DEF EnqueueDisconnect, Lasting, TypeOK
  <2> QED
    BY <1>2, <2>2, <2>3, NobodyDropped DEF EnqueueDisconnect, Turn, Wires
<1>3. CASE Hangup(s) \/ CharacterNotLoaded(s)
  <2>1. Lasting /\ FewLeaves({})
    BY <1>3, Settling, SettlesLasting, RequestLeaves DEF Hangup, CharacterNotLoaded
  <2> QED
    BY <1>3, <2>1, NobodyDropped DEF Hangup, CharacterNotLoaded, Turn, Wires
<1>4. CASE Release(s)
  <2>1. Lasting /\ FewLeaves({})
    BY <1>4, RequestLeaves DEF Release, Lasting, TypeOK
  <2> QED
    BY <1>4, <2>1, NobodyDropped DEF Release, Turn, Wires
<1>5. CASE Autosave(s) \/ CharacterLoaded(s) \/ OnChannelEnter(s)
  <2>1. Lasting /\ FewLeaves({})
    BY <1>5, RequestLeaves DEF Autosave, CharacterLoaded, OnChannelEnter, Lasting
  <2> QED
    BY <1>5, <2>1, NobodyDropped DEF Autosave, CharacterLoaded, OnChannelEnter, Turn, Wires
<1> QED
  BY <1>1, <1>2, <1>3, <1>4, <1>5

LEMMA FailClass ==
  ASSUME TypeOK, SendVerifyFails \/ OtherRequestFails \/ RecvFails
  PROVE  LinkFails
<1>1. CASE SendVerifyFails
  <2>1. Lasting /\ FewLeaves({})
    BY <1>1, Settling, SettlesLasting, RequestLeaves DEF SendVerifyFails, Popped
  <2> QED
    BY <1>1, <2>1 DEF SendVerifyFails, LinkFails
<1>2. CASE OtherRequestFails
  <2>1. Lasting /\ FewLeaves({})
    BY <1>2, RequestLeaves DEF OtherRequestFails, Lasting
  <2> QED
    BY <1>2, <2>1 DEF OtherRequestFails, LinkFails
<1>3. CASE RecvFails
  <2>1. Lasting /\ FewLeaves({})
    BY <1>3, Settling, SettlesLasting, RequestLeaves DEF RecvFails
  <2> QED
    BY <1>3, <2>1 DEF RecvFails, LinkFails
<1> QED
  BY <1>1, <1>2, <1>3

(* Every step drops, admits or is one of those that touch the link, the    *)
(* table of the login server, or the map.                                  *)
LEMMA Classes ==
  ASSUME TypeOK, Scanning, [Next]_vars
  PROVE  \/ Drops \/ Admits \/ LinkFails
         \/ \E s \in Sids : Connect(s) \/ OnClientLeave(s)
         \/ Reconnect \/ MaybeSendOnlineSnapshot \/ SendVerify \/ SendSessionGone
         \/ RecvKick \/ VerifyOk \/ VerifyNotFound \/ BreakLink
         \/ LoginServerReceives \/ SweepOnline
<1>1. CASE UNCHANGED vars
  BY <1>1, RequestLeaves, NobodyDropped DEF vars, Lasting, Turn, Wires
<1>2. CASE DbThread
  BY <1>2, RequestLeaves, NobodyDropped
  DEF DbThread, LoadCharacter, SaveFull, Lasting, Turn, Wires
<1> QED
  BY <1>1, <1>2, SelectClass, DropClass, QuietClass, FailClass
  DEF Next, Clients, Autosaves, Servers, Teardown, LinkThread, ChannelThread, Pop, RecvFrame

-----------------------------------------------------------------------------
(* The link: what is on its way, and that only a failure ends it.          *)
Link ==
  /\ linkAlive => connected
  /\ ~ linkAlive => toLogin = <<>> /\ breaks > 0
  /\ ~ connected => at = "top"
  /\ oldLink # <<>> => breaks > 0

LEMMA InitLink == Init => Link
BY DEF Init, Link

LEMMA NextLink == TypeOK /\ Scanning /\ Link /\ [Next]_vars => Link'
<1> SUFFICES ASSUME TypeOK, Scanning, Link, [Next]_vars
             PROVE  Link'
  OBVIOUS
<1>1. breaks \in Nat
  BY AdmissionAssumption DEF TypeOK, Timing
<1>2. ASSUME UNCHANGED <<toLogin, oldLink, connected, linkAlive, breaks>>, Turn
      PROVE  Link'
  BY <1>2 DEF Link, Turn
<1>3. CASE Drops \/ Admits
  BY <1>2, <1>3 DEF Drops, Admits, Dropped, Admitted, Wires
<1>4. CASE LinkFails
  BY <1>1, <1>4 DEF LinkFails, Close, Link
<1>5. ASSUME NEW s \in Sids, Connect(s) \/ OnClientLeave(s)
      PROVE  Link'
  BY <1>2, <1>5 DEF Connect, OnClientLeave, Turn
<1>6. CASE Reconnect
  BY <1>6 DEF Reconnect, Link
<1>7. CASE MaybeSendOnlineSnapshot
  BY <1>7 DEF MaybeSendOnlineSnapshot, SendOnlineSnapshot, Link
<1>8. CASE SendVerify \/ SendSessionGone
  BY <1>1, <1>8 DEF SendVerify, SendSessionGone, Popped, Close, Link
<1>9. CASE RecvKick \/ VerifyOk \/ VerifyNotFound \/ SweepOnline
  BY <1>9 DEF RecvKick, VerifyOk, VerifyNotFound, SweepOnline, Received, Link
<1>10. CASE BreakLink
  BY <1>1, <1>10 DEF BreakLink, Link
<1>11. CASE LoginServerReceives
  BY <1>11 DEF LoginServerReceives, Link
<1> QED
  BY <1>3, <1>4, <1>5, <1>6, <1>7, <1>8, <1>9, <1>10, <1>11, Classes

Sent(k, s) == Has(toLogin, k, s) \/ Has(oldLink, k, s)

(* A failure brings nothing new on its way.                                *)
LEMMA CloseSent ==
  TypeOK /\ Close => \A k, s : Sent(k, s)' => Sent(k, s)
<1> SUFFICES ASSUME TypeOK, Close
             PROVE  \A k, s : Sent(k, s)' => Sent(k, s)
  OBVIOUS
<1>1. toLogin \in Seq(ToLogin) /\ oldLink \in Seq(ToLogin)
  BY DEF TypeOK
<1>2. \A k, s : Has(oldLink \o toLogin, k, s) => Sent(k, s)
  BY <1>1, HasConcat DEF Sent
<1> QED
  BY <1>2, HasEmpty DEF Close, Sent

LEMMA BreakSent ==
  TypeOK /\ BreakLink => /\ \A k, s : Sent(k, s)' => Sent(k, s)
                         /\ \A k, s : Has(toGame', k, s) => Has(toGame, k, s)
<1> SUFFICES ASSUME TypeOK, BreakLink
             PROVE  /\ \A k, s : Sent(k, s)' => Sent(k, s)
                    /\ \A k, s : Has(toGame', k, s) => Has(toGame, k, s)
  OBVIOUS
<1>1. /\ toLogin \in Seq(ToLogin) /\ oldLink \in Seq(ToLogin) /\ toGame \in Seq(ToGame)
  BY DEF TypeOK
<1>2. PICK n \in 0 .. Len(toLogin) : oldLink' = oldLink \o SubSeq(toLogin, 1, n)
  BY DEF BreakLink
<1>3. /\ SubSeq(toLogin, 1, n) \in Seq(ToLogin)
      /\ \A k, s : Has(SubSeq(toLogin, 1, n), k, s) => Has(toLogin, k, s)
  BY <1>1, InPrefix, HasPrefix
<1>4. \A k, s : Has(oldLink', k, s) => Sent(k, s)
  <2>1. PICK r \in Seq(ToLogin) : /\ oldLink' = oldLink \o r
                                 /\ \A k, s : Has(r, k, s) => Has(toLogin, k, s)
    BY <1>2, <1>3
  <2>2. \A k, s : Has(oldLink \o r, k, s) => Has(oldLink, k, s) \/ Has(r, k, s)
    BY <1>1, HasConcat
  <2> QED
    BY <2>1, <2>2 DEF Sent
<1>5. \A k, s : ~ Has(toLogin', k, s)
  BY HasEmpty DEF BreakLink
<1>6. \A k, s : Has(toGame', k, s) => Has(toGame, k, s)
  BY <1>1, HasPrefix DEF BreakLink
<1> QED
  BY <1>4, <1>5, <1>6 DEF Sent

(* What the login server makes of a frame.                                 *)
Frame(m) == m \in ToLogin /\ Sent(m.kind, m.sid)

Accepted(s) == Has(toGame, "ok", s)

(* A token is spent; the answer goes to a connection that is still there.  *)
Answer(s) ==
  /\ at = "verify" /\ s = cur /\ toGame = <<>> /\ toLogin' = <<>> /\ oldLink' = oldLink
  /\ timing.lateFrames \/ oldLink = <<>>
  /\ \A x : ~ Has(toLogin, "sync", x)
  /\ toGame' = IF online = NoSid THEN <<Msg("ok", s)>> ELSE <<Msg("kick", s), Msg("ok", s)>>

Consumes(s) ==
  /\ s \in Sids /\ tokens[s] > 0 /\ tokens' = [tokens EXCEPT ![s] = @ - 1] /\ online' = s
  /\ Answer(s) \/ UNCHANGED toGame

Refuses ==
  /\ UNCHANGED <<tokens, online>>
  /\ toGame' = toGame \/ \A s : ~ Has(toGame', "ok", s) /\ ~ Has(toGame', "kick", s)

Leaves(s) ==
  /\ Sent("leave", s) /\ s \in Sids
  /\ online' = IF online = s THEN NoSid ELSE online
  /\ UNCHANGED <<tokens, toGame>>

Syncs(s) == Sent("sync", s) /\ s \in Sids /\ online' = s /\ UNCHANGED <<tokens, toGame>>

LEMMA Receives ==
  ASSUME TypeOK, Exchange, LoginServerReceives
  PROVE  /\ \E s : Consumes(s) \/ Refuses \/ Leaves(s) \/ Syncs(s)
         /\ \E k, s : Sent(k, s)
         /\ \A k, s : Sent(k, s)' => Sent(k, s)
         /\ \A s : Has(toLogin, "sync", s) => Has(toLogin', "sync", s) \/ (s \in Sids /\ online' = s)
         /\ UNCHANGED <<netVars, requests, at, cur, sawKick, scan, syncDue, connected,
                        linkAlive, timing, breaks, pending, replacing, mapVars>>
<1>1. toLogin \in Seq(ToLogin) /\ oldLink \in Seq(ToLogin) /\ toGame \in Seq(ToGame)
  BY DEF TypeOK
<1>2. UNCHANGED <<netVars, requests, at, cur, sawKick, scan, syncDue, connected,
                  linkAlive, timing, breaks, pending, replacing, mapVars>>
  BY DEF LoginServerReceives
<1>3. ASSUME NEW m \in ToLogin, Sent(m.kind, m.sid), HandleFrame(m, FALSE)
      PROVE  \E s : Consumes(s) \/ Refuses \/ Leaves(s) \/ Syncs(s)
  <2>1. m.sid \in Sids
    BY MessageTypes
  <2>2. CASE m.kind = "verify" /\ HandleTokenVerify(m.sid, FALSE)
    BY <2>1, <2>2 DEF HandleTokenVerify, Consumes, Refuses, Accepted
  <2>3. CASE m.kind = "leave" /\ RemoveOnline(m.sid) /\ UNCHANGED <<tokens, toGame>>
    BY <1>3, <2>1, <2>3 DEF RemoveOnline, Leaves
  <2>4. CASE m.kind = "sync" /\ online' = m.sid /\ UNCHANGED <<tokens, toGame>>
    BY <1>3, <2>1, <2>4 DEF Syncs
  <2> QED
    BY <1>3, <2>2, <2>3, <2>4 DEF HandleFrame
<1>4. CASE oldLink # <<>> /\ HandleFrame(Head(oldLink), FALSE)
           /\ oldLink' = Tail(oldLink) /\ UNCHANGED toLogin
  <2>1. /\ Head(oldLink) \in ToLogin
        /\ Has(oldLink, Head(oldLink).kind, Head(oldLink).sid)
        /\ \A k, s : Has(Tail(oldLink), k, s) => Has(oldLink, k, s)
    BY <1>1, <1>4, QueueTypes, HasTail
  <2>2. Sent(Head(oldLink).kind, Head(oldLink).sid)
    BY <2>1 DEF Sent
  <2>3. \A k, s : Sent(k, s)' => Sent(k, s)
    BY <1>4, <2>1 DEF Sent
  <2>4. \A s : Has(toLogin, "sync", s) => Has(toLogin', "sync", s)
    BY <1>4
  <2>5. \E s : Consumes(s) \/ Refuses \/ Leaves(s) \/ Syncs(s)
    BY <1>3, <1>4, <2>1, <2>2
  <2> QED
    BY <1>2, <2>2, <2>3, <2>4, <2>5
<1>5. CASE /\ toLogin # <<>> /\ (timing.lateFrames \/ oldLink = <<>>)
           /\ HandleFrame(Head(toLogin), TRUE)
           /\ toLogin' = Tail(toLogin) /\ UNCHANGED oldLink
  <2> DEFINE m == Head(toLogin)
  <2>1. /\ m \in ToLogin /\ Has(toLogin, m.kind, m.sid) /\ m.sid \in Sids
        /\ \A k, s : Has(Tail(toLogin), k, s) => Has(toLogin, k, s)
        /\ \A k, s : Has(toLogin, k, s) => (m.kind = k /\ m.sid = s) \/ Has(Tail(toLogin), k, s)
    BY <1>1, <1>5, QueueTypes, HasTail, MessageTypes
  <2>2. Sent(m.kind, m.sid)
    BY <2>1 DEF Sent
  <2>3. \A k, s : Sent(k, s)' => Sent(k, s)
    BY <1>5, <2>1 DEF Sent
  <2>4. CASE m.kind = "verify"
    <3>1. at = "verify" /\ m.sid = cur /\ toGame = <<>> /\ HandleTokenVerify(cur, TRUE)
      BY <1>5, <2>1, <2>4 DEF Exchange, HandleFrame
    <3>2. Tail(toLogin) = <<>>
      BY <1>1, <1>5, <2>4, OnlyLastTail DEF Exchange
    <3>3. \A s : ~ Has(toLogin, "sync", s)
      <4>1. \A s : ~ Has(Tail(toLogin), "sync", s)
        BY <3>2, HasEmpty
      <4>2. m.kind # "sync"
        BY <2>4
      <4> HIDE DEF m
      <4> QED
        BY <2>1, <4>1, <4>2
    <3>4. /\ <<>> \o <<Msg("kick", cur)>> \o <<Msg("ok", cur)>>
               = <<Msg("kick", cur), Msg("ok", cur)>>
          /\ <<>> \o <<>> \o <<Msg("ok", cur)>> = <<Msg("ok", cur)>>
          /\ Append(<<>>, Msg("notFound", cur)) = <<Msg("notFound", cur)>>
      BY KickThenOk
    <3>5. CASE /\ tokens[cur] > 0 /\ tokens' = [tokens EXCEPT ![cur] = @ - 1]
               /\ online' = cur
               /\ toGame' = toGame \o KickIfOnline(cur) \o <<Msg("ok", cur)>>
      <4>1. toGame' = IF online = NoSid THEN <<Msg("ok", cur)>>
                      ELSE <<Msg("kick", cur), Msg("ok", cur)>>
        BY <3>1, <3>4, <3>5 DEF KickIfOnline
      <4>2. Answer(cur)
        BY <1>5, <3>1, <3>2, <3>3, <4>1 DEF Answer
      <4>3. Consumes(cur)
        BY <2>1, <3>1, <3>5, <4>2 DEF Consumes
      <4> QED
        BY <1>2, <2>2, <2>3, <3>3, <4>3
    <3>6. CASE UNCHANGED <<tokens, online>> /\ toGame' = Append(toGame, Msg("notFound", cur))
      <4>1. \A s : ~ Has(<<Msg("notFound", cur)>>, "ok", s) /\ ~ Has(<<Msg("notFound", cur)>>, "kick", s)
        BY DEF Has, Msg
      <4>2. Refuses
        BY <3>1, <3>4, <3>6, <4>1 DEF Refuses
      <4> QED
        BY <1>2, <2>2, <2>3, <3>3, <4>2
    <3> QED
      BY <3>1, <3>5, <3>6 DEF HandleTokenVerify
  <2>5. CASE m.kind = "leave" /\ RemoveOnline(m.sid) /\ UNCHANGED <<tokens, toGame>>
    <3>1. Leaves(m.sid)
      BY <2>1, <2>2, <2>5 DEF RemoveOnline, Leaves
    <3>2. \A s : Has(toLogin, "sync", s) => Has(toLogin', "sync", s)
      BY <1>5, <2>1, <2>5
    <3> QED
      BY <1>2, <2>2, <2>3, <3>1, <3>2
  <2>6. CASE m.kind = "sync" /\ online' = m.sid /\ UNCHANGED <<tokens, toGame>>
    <3>1. Syncs(m.sid)
      BY <2>1, <2>2, <2>6 DEF Syncs
    <3>2. \A s : Has(toLogin, "sync", s) => Has(toLogin', "sync", s) \/ (s \in Sids /\ online' = s)
      BY <1>5, <2>1, <2>6
    <3> QED
      BY <1>2, <2>2, <2>3, <3>1, <3>2
  <2> QED
    BY <1>5, <2>4, <2>5, <2>6 DEF HandleFrame
<1> QED
  BY <1>4, <1>5 DEF LoginServerReceives

-----------------------------------------------------------------------------
(* The career of a connection with one token: it holds the token, has been *)
(* accepted, is pending or has a session, has left; none of it twice.      *)
OneToken == MaxTokens = 1

Spent(s) == net[s] # "new" /\ tokens[s] = 0
Out(s) == s \notin pending \cup sessions
Left(s) == Has(requests, "leave", s) \/ Sent("leave", s)

Once ==
  /\ \A s \in Sids : tokens[s] > 0 => net[s] # "new"
  /\ \A s \in Sids : (~ Out(s) \/ Accepted(s) \/ Left(s)) => Spent(s)
  /\ pending \cap sessions = {}
  /\ \A s \in Sids : Accepted(s) => Out(s)
  /\ \A s \in Sids : Left(s) => Out(s) /\ ~ Accepted(s)

(* Nobody gets a token back, or leaves without having held the account.    *)
Onward ==
  \A s \in Sids : (Spent(s) => Spent(s)') /\ (Left(s)' => Left(s) \/ ~ Out(s))

LEMMA InitOnce == Init => Once
BY HasEmpty DEF Init, Once, Out, Accepted, Left, Sent

(* A step that spends no token takes everybody on to the next stage.       *)
LEMMA OnceFrame ==
  ASSUME TypeOK, Once, Lasting, UNCHANGED tokens,
         \A s \in Sids : Left(s)' => Left(s) \/ (~ Out(s) /\ Out(s)'),
         \A s \in Sids : Accepted(s)' => Accepted(s),
         \A s \in Sids : ~ Out(s)' => ~ Out(s) \/ (Accepted(s) /\ ~ Accepted(s)'),
         pending' \cap sessions' = {}
  PROVE  Once' /\ Onward
<1>1. \A s \in Sids : Spent(s) => Spent(s)'
  BY DEF Spent, Lasting
<1>2. \A s \in Sids : (tokens[s] > 0)' => (net[s] # "new")'
  BY DEF Once, Lasting
<1> QED
  BY <1>1, <1>2 DEF Once, Onward

(* The common case: nothing but the leave notices and answers move on.     *)
LEMMA OnceSame ==
  ASSUME TypeOK, Once, Lasting, UNCHANGED <<tokens, pending, sessions>>,
         \A s \in Sids : Left(s)' => Left(s),
         \A s \in Sids : Accepted(s)' => Accepted(s)
  PROVE  Once' /\ Onward
<1>1. \A s \in Sids : Out(s)' <=> Out(s)
  BY DEF Out
<1>2. pending' \cap sessions' = {}
  BY DEF Once
<1> QED
  BY <1>1, <1>2, OnceFrame

LEMMA DropsOnce ==
  ASSUME TypeOK, Once, Drops \/ Admits
  PROVE  Once' /\ Onward
<1>1. CASE Drops
  <2>1. PICK P \in SUBSET pending : Dropped(P)
    BY <1>1 DEF Drops
  <2>2. \A s \in Sids : Left(s)' => Left(s) \/ s \in P
    BY <2>1 DEF Dropped, FewLeaves, Left, Sent, Wires
  <2>3. \A s \in Sids : Accepted(s)' <=> Accepted(s)
    BY <2>1 DEF Dropped, Accepted, Wires
  <2>4. /\ \A s \in Sids : ~ Out(s)' => ~ Out(s)
        /\ \A s \in P : ~ Out(s) /\ Out(s)'
        /\ pending' \cap sessions' = {}
    BY <2>1 DEF Dropped, Out, Once
  <2>5. Lasting /\ UNCHANGED tokens
    BY <2>1 DEF Dropped
  <2> QED
    BY <2>2, <2>3, <2>4, <2>5, OnceFrame
<1>2. CASE Admits
  <2>1. PICK x \in Sids : Admitted(x)
    BY <1>2 DEF Admits
  <2>2. \A s \in Sids : Left(s)' => Left(s)
    BY <2>1 DEF Admitted, FewLeaves, Left, Sent, Wires
  <2>3. \A s \in Sids : Accepted(s)' <=> Accepted(s)
    BY <2>1 DEF Admitted, Accepted, Wires
  <2>4. /\ \A s \in Sids : ~ Out(s)' => ~ Out(s)
        /\ pending' \cap sessions' = {}
    BY <2>1 DEF Admitted, Out, Once
  <2>5. Lasting /\ UNCHANGED tokens
    BY <2>1 DEF Admitted
  <2> QED
    BY <2>2, <2>3, <2>4, <2>5, OnceFrame
<1> QED
  BY <1>1, <1>2

LEMMA LoopOnce ==
  ASSUME TypeOK, Once,
         \/ LinkFails \/ Reconnect \/ MaybeSendOnlineSnapshot \/ SendVerify
         \/ SendSessionGone \/ VerifyNotFound \/ BreakLink \/ SweepOnline
  PROVE  Once' /\ Onward
<1>1. /\ requests \in Seq(Request) /\ toLogin \in Seq(ToLogin) /\ toGame \in Seq(ToGame)
  BY DEF TypeOK
<1>2. CASE LinkFails
  <2>1. Lasting /\ UNCHANGED <<tokens, pending, sessions>>
    BY <1>2 DEF LinkFails
  <2>2. \A s \in Sids : Left(s)' => Left(s)
    BY <1>2, CloseSent DEF LinkFails, FewLeaves, Left
  <2>3. \A s \in Sids : ~ Accepted(s)'
    BY <1>2, HasEmpty DEF LinkFails, Close, Accepted
  <2> QED
    BY <2>1, <2>2, <2>3, OnceSame
<1>3. CASE Reconnect \/ SweepOnline
  <2>1. Lasting /\ UNCHANGED <<tokens, pending, sessions>>
    BY <1>3 DEF Reconnect, SweepOnline, Lasting
  <2>2. \A s \in Sids : (Left(s)' => Left(s)) /\ (Accepted(s)' => Accepted(s))
    BY <1>3 DEF Reconnect, SweepOnline, Left, Sent, Accepted
  <2> QED
    BY <2>1, <2>2, OnceSame
<1>4. CASE MaybeSendOnlineSnapshot
  <2>1. Lasting /\ UNCHANGED <<tokens, pending, sessions, requests, oldLink, toGame>>
    BY <1>4 DEF MaybeSendOnlineSnapshot, Lasting
  <2>2. \A s \in Sids : Has(toLogin', "leave", s) => Has(toLogin, "leave", s)
    <3>1. SnapshotSid \subseteq Sids
      BY DEF SnapshotSid, TypeOK
    <3>2. \/ UNCHANGED toLogin
          \/ \E x \in SnapshotSid : toLogin' = Append(toLogin, Msg("sync", x))
      BY <1>4 DEF MaybeSendOnlineSnapshot, SendOnlineSnapshot
    <3>3. \A x \in SnapshotSid : \A s : Has(Append(toLogin, Msg("sync", x)), "leave", s)
                                         => Has(toLogin, "leave", s)
      BY <1>1, <3>1, HasAppend, MessageTypes
    <3> QED
      BY <3>2, <3>3
  <2>3. \A s \in Sids : (Left(s)' => Left(s)) /\ (Accepted(s)' => Accepted(s))
    BY <2>1, <2>2 DEF Left, Sent, Accepted
  <2> QED
    BY <2>1, <2>3, OnceSame
<1>5. CASE SendVerify
  <2>1. /\ Lasting /\ UNCHANGED <<tokens, pending, sessions, oldLink, toGame>>
        /\ requests # <<>> /\ requests' = Tail(requests) /\ Head(requests).kind = "verify"
        /\ toLogin' = toLogin \/ toLogin' = Append(toLogin, Head(requests))
    BY <1>5 DEF SendVerify, Popped, Lasting
  <2>2. \A s : Has(toLogin', "leave", s) => Has(toLogin, "leave", s)
    <3>1. Head(requests) \in ToLogin
      BY <2>1, QueueTypes, MessageTypes
    <3> QED
      <4>1. \A s : Has(Append(toLogin, Head(requests)), "leave", s) => Has(toLogin, "leave", s)
        BY <1>1, <2>1, <3>1, HasAppend
      <4> QED
        BY <2>1, <4>1
  <2>3. \A s : Has(requests', "leave", s) => Has(requests, "leave", s)
    BY <1>1, <2>1, HasTail
  <2>4. \A s \in Sids : (Left(s)' => Left(s)) /\ (Accepted(s)' => Accepted(s))
    BY <2>1, <2>2, <2>3 DEF Left, Sent, Accepted
  <2> QED
    BY <2>1, <2>4, OnceSame
<1>6. CASE SendSessionGone
  <2>1. /\ Lasting /\ UNCHANGED <<tokens, pending, sessions>>
        /\ requests # <<>> /\ requests' = Tail(requests) /\ Head(requests).kind = "leave"
    BY <1>6 DEF SendSessionGone, Popped, Lasting
  <2>2. \A s \in Sids : Sent("leave", s)' => Sent("leave", s) \/ s = Head(requests).sid
    <3>1. Head(requests) \in ToLogin
      BY <2>1, QueueTypes, MessageTypes
    <3>2. \A s : Has(Append(toLogin, Head(requests)), "leave", s)
                   => Has(toLogin, "leave", s) \/ s = Head(requests).sid
      BY <1>1, <3>1, HasAppend
    <3>3. CASE toLogin' = Append(toLogin, Head(requests)) /\ UNCHANGED oldLink
      BY <3>2, <3>3 DEF Sent
    <3>4. CASE UNCHANGED <<toLogin, oldLink>>
      BY <3>4 DEF Sent
    <3>5. CASE Close
      BY <3>5, CloseSent
    <3> QED
      BY <1>6, <3>3, <3>4, <3>5 DEF SendSessionGone
  <2>3. /\ \A s : Has(requests', "leave", s) => Has(requests, "leave", s)
        /\ Has(requests, "leave", Head(requests).sid)
    BY <1>1, <2>1, HasTail
  <2>4. \A s \in Sids : Left(s)' => Left(s)
    BY <2>2, <2>3 DEF Left
  <2>5. \A s \in Sids : Accepted(s)' => Accepted(s)
    BY <1>6, HasEmpty DEF SendSessionGone, Close, Accepted
  <2> QED
    BY <2>1, <2>4, <2>5, OnceSame
<1>7. CASE VerifyNotFound
  <2>1. UNCHANGED <<tokens, pending, sessions, requests, toLogin, oldLink>>
    BY <1>7 DEF VerifyNotFound
  <2>2. Lasting
    BY <1>7, Settling, SettlesLasting DEF VerifyNotFound
  <2>3. \A s : Has(toGame', "ok", s) => Has(toGame, "ok", s)
    BY <1>1, <1>7, HasTail DEF VerifyNotFound, Received
  <2>4. \A s \in Sids : (Left(s)' => Left(s)) /\ (Accepted(s)' => Accepted(s))
    BY <2>1, <2>3 DEF Left, Sent, Accepted
  <2> QED
    BY <2>1, <2>2, <2>4, OnceSame
<1>8. CASE BreakLink
  <2>1. Lasting /\ UNCHANGED <<tokens, pending, sessions, requests>>
    BY <1>8 DEF BreakLink, Lasting
  <2>2. \A s \in Sids : (Left(s)' => Left(s)) /\ (Accepted(s)' => Accepted(s))
    BY <1>8, <2>1, BreakSent DEF Left, Accepted
  <2> QED
    BY <2>1, <2>2, OnceSame
<1> QED
  BY <1>2, <1>3, <1>4, <1>5, <1>6, <1>7, <1>8

LEMMA AnswersOnce ==
  ASSUME TypeOK, Once, Exchange, RecvKick \/ VerifyOk
  PROVE  Once' /\ Onward
<1>1. /\ requests \in Seq(Request) /\ toGame \in Seq(ToGame) /\ pending \in SUBSET Sids
  BY DEF TypeOK
<1>2. CASE RecvKick
  <2>1. /\ pending' = {} /\ UNCHANGED <<tokens, sessions, toLogin, oldLink>>
        /\ toGame' = Tail(toGame) /\ toGame # <<>>
    BY <1>2 DEF RecvKick, KickByAccount, Erase, Received
  <2>2. Lasting
    BY <1>2, Settling, SettlesLasting DEF RecvKick, KickByAccount
  <2>3. FewLeaves(pending)
    BY <1>1, <1>2, NoticeLeaves DEF RecvKick, KickByAccount
  <2>4. \A s \in pending : ~ Out(s) /\ Out(s)'
    BY <2>1 DEF Once, Out
  <2>5. \A s \in Sids : Left(s)' => Left(s) \/ (~ Out(s) /\ Out(s)')
    BY <2>1, <2>3, <2>4 DEF FewLeaves, Left, Sent
  <2>6. \A s \in Sids : Accepted(s)' => Accepted(s)
    BY <1>1, <2>1, HasTail DEF Accepted
  <2>7. (\A s \in Sids : ~ Out(s)' => ~ Out(s)) /\ pending' \cap sessions' = {}
    BY <2>1 DEF Out
  <2> QED
    BY <2>1, <2>2, <2>5, <2>6, <2>7, OnceFrame
<1>3. CASE VerifyOk
  <2> DEFINE x == Head(toGame).sid
  <2>1. /\ pending' = pending \cup {x} /\ toGame' = Tail(toGame)
        /\ toGame # <<>> /\ Head(toGame).kind = "ok" /\ x \in Sids
        /\ UNCHANGED <<tokens, sessions, requests, toLogin, oldLink>> /\ Lasting
    BY <1>3, QueueTypes, MessageTypes DEF VerifyOk, Received, Lasting
  <2>2. Accepted(x) /\ Tail(toGame) = <<>>
    <3>1. Has(toGame, "ok", x)
      BY <1>1, <2>1, HasTail
    <3> QED
      BY <1>1, <2>1, <3>1, OnlyLastTail DEF Accepted, Exchange, Results
  <2>3. \A s \in Sids : ~ Accepted(s)'
    BY <2>1, <2>2, HasEmpty DEF Accepted
  <2>4. \A s \in Sids : Left(s)' => Left(s)
    BY <2>1 DEF Left, Sent
  <2>5. /\ \A s \in Sids : ~ Out(s)' => ~ Out(s) \/ s = x
        /\ pending' \cap sessions' = {}
    BY <2>1, <2>2 DEF Once, Out
  <2> QED
    BY <2>1, <2>2, <2>3, <2>4, <2>5, OnceFrame
<1> QED
  BY <1>2, <1>3

LEMMA ConnectOnce ==
  ASSUME TypeOK, Once, NEW s \in Sids, Connect(s) \/ OnClientLeave(s)
  PROVE  Once' /\ Onward
<1>1. CASE Connect(s)
  <2>1. /\ net[s] = "new" /\ net' = [net EXCEPT ![s] = "open"]
        /\ \E n \in 1 .. MaxTokens : tokens' = [tokens EXCEPT ![s] = n]
        /\ UNCHANGED <<pending, sessions, requests, toLogin, oldLink, toGame>>
    BY <1>1 DEF Connect
  <2>2. \A x \in Sids \ {s} : net'[x] = net[x] /\ tokens'[x] = tokens[x]
    BY <2>1 DEF TypeOK
  <2>3. net'[s] # "new"
    BY <2>1 DEF TypeOK
  <2>4. ~ Spent(s)
    BY <2>1 DEF Spent
  <2>5. \A x \in Sids : /\ Out(x)' <=> Out(x)
                        /\ Accepted(x)' <=> Accepted(x)
                        /\ Left(x)' <=> Left(x)
    BY <2>1 DEF Out, Accepted, Left, Sent
  <2>6. \A x \in Sids \ {s} : Spent(x) => Spent(x)'
    BY <2>2 DEF Spent
  <2> QED
    BY <2>1, <2>2, <2>3, <2>4, <2>5, <2>6 DEF Once, Onward
<1>2. CASE OnClientLeave(s)
  <2>1. /\ UNCHANGED <<net, tokens, pending, toLogin, oldLink, toGame>>
        /\ sessions' = sessions \ {s}
        /\ requests' = IF s \in sessions \ kicked THEN Append(requests, Msg("leave", s))
                       ELSE requests
    BY <1>2 DEF OnClientLeave
  <2>2. s \in sessions => ~ Out(s) /\ Out(s)'
    BY <2>1 DEF Once, Out
  <2>3. \A x : Has(requests', "leave", x) => Has(requests, "leave", x) \/ (x = s /\ s \in sessions)
    BY <2>1, RequestLeaves DEF FewLeaves
  <2>4. \A x \in Sids : Left(x)' => Left(x) \/ (~ Out(x) /\ Out(x)')
    BY <2>1, <2>2, <2>3 DEF Left, Sent
  <2>5. /\ \A x \in Sids : (Accepted(x)' => Accepted(x)) /\ (~ Out(x)' => ~ Out(x))
        /\ pending' \cap sessions' = {} /\ Lasting
    BY <2>1 DEF Accepted, Out, Once, Lasting
  <2> QED
    BY <2>1, <2>4, <2>5, OnceFrame
<1> QED
  BY <1>1, <1>2

(* Whose token is consumed has not been accepted before.                   *)
LEMMA ConsumesFirst ==
  ASSUME TypeOK, Once, OneToken, NEW s, Consumes(s)
  PROVE  /\ s \in Sids /\ ~ Spent(s) /\ Out(s) /\ ~ Accepted(s) /\ ~ Left(s)
         /\ tokens'[s] = 0 /\ net[s] # "new"
         /\ \A x \in Sids \ {s} : tokens'[x] = tokens[x]
<1>1. s \in Sids /\ tokens[s] > 0 /\ tokens' = [tokens EXCEPT ![s] = @ - 1]
  BY DEF Consumes
<1>2. tokens[s] \in 0 .. 1
  BY <1>1 DEF TypeOK, OneToken
<1>3. tokens[s] = 1
  BY <1>1, <1>2
<1>4. tokens'[s] = 0 /\ \A x \in Sids \ {s} : tokens'[x] = tokens[x]
  BY <1>1, <1>3 DEF TypeOK
<1> QED
  BY <1>1, <1>3, <1>4 DEF Once, Spent

LEMMA ReceiveOnce ==
  ASSUME TypeOK, Once, Exchange, OneToken, LoginServerReceives
  PROVE  Once' /\ Onward
<1>1. /\ UNCHANGED <<net, requests, pending, sessions>>
      /\ \A k, s : Sent(k, s)' => Sent(k, s)
      /\ \E s : Consumes(s) \/ Refuses \/ Leaves(s) \/ Syncs(s)
  BY Receives
<1>2. \A s \in Sids : Left(s)' => Left(s)
  BY <1>1 DEF Left
<1>3. Lasting
  BY <1>1 DEF Lasting
<1>4. ASSUME NEW s, Consumes(s)
      PROVE  Once' /\ Onward
  <2>1. /\ s \in Sids /\ ~ Spent(s) /\ Out(s) /\ ~ Accepted(s) /\ ~ Left(s)
        /\ tokens'[s] = 0 /\ net[s] # "new"
        /\ \A x \in Sids \ {s} : tokens'[x] = tokens[x]
    BY <1>4, ConsumesFirst
  <2>2. \A x \in Sids : Accepted(x)' => Accepted(x) \/ x = s
    <3>1. \A x : /\ Has(<<Msg("ok", s)>>, "ok", x) => x = s
                 /\ Has(<<Msg("kick", s), Msg("ok", s)>>, "ok", x) => x = s
      BY DEF Has, Msg
    <3> QED
      BY <1>4, <3>1 DEF Consumes, Answer, Accepted
  <2>3. \A x \in Sids : Out(x)' <=> Out(x)
    BY <1>1 DEF Out
  <2>4. \A x \in Sids : (Spent(x) => Spent(x)') /\ (x = s => Spent(x)')
    BY <1>1, <2>1 DEF Spent
  <2>5. \A x \in Sids : (tokens[x] > 0)' => (net[x] # "new")'
    BY <1>1, <2>1 DEF Once
  <2>6. pending' \cap sessions' = {}
    BY <1>1 DEF Once
  <2> QED
    BY <1>2, <2>1, <2>2, <2>3, <2>4, <2>5, <2>6 DEF Once, Onward
<1>5. CASE Refuses
  BY <1>1, <1>2, <1>3, <1>5, OnceSame DEF Refuses, Accepted
<1>6. ASSUME NEW s, Leaves(s) \/ Syncs(s)
      PROVE  Once' /\ Onward
  <2>1. UNCHANGED <<tokens, toGame>>
    BY <1>6 DEF Leaves, Syncs
  <2> QED
    BY <1>1, <1>2, <1>3, <2>1, OnceSame DEF Accepted
<1> QED
  BY <1>1, <1>4, <1>5, <1>6

LEMMA NextOnce ==
  TypeOK /\ Scanning /\ Exchange /\ Once /\ OneToken /\ [Next]_vars => Once' /\ Onward
<1> SUFFICES ASSUME TypeOK, Scanning, Exchange, Once, OneToken, [Next]_vars
             PROVE  Once' /\ Onward
  OBVIOUS
<1> QED
  BY Classes, DropsOnce, LoopOnce, AnswersOnce, ConnectOnce, ReceiveOnce

-----------------------------------------------------------------------------
(* The holders of the account: pendings, and the sessions not kicked.      *)
Holders == pending \cup (sessions \ kicked)

OneHolder == \A x, y \in Holders : x = y

(* Frames of a dead link that come late can be believed once more, unless  *)
(* the link never fails.  They do no harm when no token is left, because   *)
(* then nobody asks the login server any more.                             *)
Orderly == timing.lateFrames => timing.breaks = 0
Watched == Orderly \/ \E s \in Sids : ~ Spent(s)

(* Snapshots name connections that have held the account.                  *)
Named == \A s : Sent("sync", s) => s \in Sids /\ Spent(s)

(* A connection accepted by the login server finds the account free, or    *)
(* the kick that will free it is ahead of it, and nothing is on its way    *)
(* that would put somebody else into the online table.                     *)
Caught ==
  \A s \in Sids : Accepted(s) =>
    /\ Orderly => \A k, x : ~ Sent(k, x)
    /\ Watched => online = s /\ \A x : ~ Sent("sync", x) /\ ~ Sent("leave", x)
    /\ Head(toGame).kind # "kick" => Holders = {}

(* A connection whose token was consumed, and whose acceptance got lost    *)
(* with the link or waits to be read: it does not leave.                   *)
Never(y) == Spent(y) /\ Out(y) /\ ~ Left(y)

(* Snapshots under way name the holder, and the online table knows either  *)
(* the holder, or nobody, or somebody who will not leave.                  *)
QuietAt(s) ==
  /\ \A x : Sent("sync", x) => x = s
  /\ online = NoSid \/ online = s \/ Never(online)
Quiet == Watched => \A s \in Holders : QuietAt(s)

(* The login server has forgotten the holder in the one failure of the     *)
(* link, and the snapshot that follows the reconnection will name it.      *)
Recovering ==
  /\ breaks = timing.breaks /\ ~ timing.sweepUnnoticed
  /\ \/ ~ connected /\ syncDue
     \/ linkAlive /\ syncDue /\ at \in {"top", "retry"}
     \/ linkAlive /\ \E s : Has(toLogin, "sync", s)
Known == Watched /\ Holders # {} /\ online = NoSid => Recovering

(* The link fails at most once, the game server notices that before the    *)
(* grace of the login server runs out, and frames of the dead link come    *)
(* before those of its successor, or else there are two connections.       *)
TwoConnections == \A x, y, z \in Sids : x = y \/ y = z \/ x = z

OneFailure == \A t \in Timings :
  t.breaks = 0 \/ (t.breaks = 1 /\ ~ t.sweepUnnoticed /\ (t.lateFrames => TwoConnections))

HolderInv == /\ TypeOK /\ Scanning /\ Exchange /\ Link /\ Once
             /\ IndexExact /\ OneHolder /\ Named /\ Caught /\ Quiet /\ Known

(* What the lemmas on the classes of steps assume of a step.               *)
Steady == Onward /\ UNCHANGED timing

LEMMA InitHolder == Init => IndexExact /\ OneHolder /\ Named /\ Caught /\ Quiet /\ Known
BY HasEmpty
DEF Init, IndexExact, OneHolder, Holders, Named, Sent, Caught, Accepted, Quiet, Known

(* A link that has failed cannot fail again.                               *)
LEMMA FailedOnce ==
  ASSUME TypeOK, OneFailure, breaks > 0
  PROVE  /\ breaks = timing.breaks /\ ~ timing.sweepUnnoticed
         /\ ~ Orderly => TwoConnections
<1>1. timing \in Timings /\ timing.breaks \in Nat /\ breaks \in 0 .. timing.breaks
  BY AdmissionAssumption DEF TypeOK, Timing
<1>2. \/ timing.breaks = 0
      \/ timing.breaks = 1 /\ ~ timing.sweepUnnoticed /\ (timing.lateFrames => TwoConnections)
  BY <1>1 DEF OneFailure
<1> QED
  BY <1>1, <1>2 DEF Orderly

(* Tokens are not given back.                                              *)
LEMMA WatchedBefore ==
  ASSUME Steady
  PROVE  /\ Orderly' <=> Orderly
         /\ Watched' => Watched
BY DEF Steady, Onward, Orderly, Watched

LEMMA NeverLasts ==
  ASSUME Onward, pending' \cup sessions' \subseteq pending \cup sessions
  PROVE  \A y \in Sids : Never(y) => Never(y)'
BY DEF Onward, Never, Out

LEMMA QuietFrame ==
  ASSUME TypeOK, Quiet, Steady, Holders' \subseteq Holders,
         pending' \cup sessions' \subseteq pending \cup sessions,
         \A x : Sent("sync", x)' => Sent("sync", x),
         online' = online \/ online' = NoSid
  PROVE  Quiet'
<1> SUFFICES ASSUME Watched', NEW s \in Holders'
             PROVE  QuietAt(s)'
  BY DEF Quiet
<1>1. QuietAt(s)
  BY WatchedBefore DEF Quiet
<1>2. online \in Sids \cup {NoSid}
  BY DEF TypeOK
<1>3. \A y \in Sids : Never(y) => Never(y)'
  BY NeverLasts DEF Steady
<1>4. ASSUME online' = online, online # NoSid, Never(online)
      PROVE  Never(online)'
  <2>1. PICK y \in Sids : y = online
    BY <1>2, <1>4
  <2>2. Never(y)' /\ y = online'
    BY <1>3, <1>4, <2>1
  <2> QED
    BY <2>2 DEF Never, Spent, Out, Left, Sent
<1> QED
  BY <1>1, <1>4 DEF QuietAt

LEMMA CaughtNone == (\A s : ~ Has(toGame', "ok", s)) => Caught'
BY DEF Caught, Accepted

LEMMA CaughtIdle == Exchange /\ at # "verify" /\ toGame' = toGame => Caught'
BY CaughtNone, HasEmpty DEF Exchange

LEMMA KnownFrame ==
  ASSUME Known, Steady, Holders' \subseteq Holders, online' = NoSid => online = NoSid,
         Recovering => Recovering'
  PROVE  Known'
BY WatchedBefore DEF Known

LEMMA NamedFrame ==
  ASSUME Named, Steady, \A x : Sent("sync", x)' => Sent("sync", x)
  PROVE  Named'
BY DEF Named, Steady, Onward

(* Who holds the account gives it up, or turns from a pending into the     *)
(* session.                                                                *)
LEMMA HoldersShrink ==
  ASSUME HolderInv, Steady, Turn, Holders' \subseteq Holders,
         pending' \cup sessions' \subseteq pending \cup sessions,
         UNCHANGED <<Wires, online, syncDue>>
  PROVE  OneHolder' /\ Named' /\ Caught' /\ Quiet' /\ Known'
<1>1. OneHolder'
  BY DEF HolderInv, OneHolder
<1>2. Caught'
  BY WatchedBefore DEF HolderInv, Caught, Accepted, Sent, Wires
<1>3. Named' /\ Quiet'
  <2>1. \A x : Sent("sync", x)' => Sent("sync", x)
    BY DEF Sent, Wires
  <2> QED
    BY <2>1, QuietFrame, NamedFrame DEF HolderInv
<1>4. Known'
  <2>1. Recovering => Recovering'
    BY DEF Recovering, Turn, Wires
  <2> QED
    BY <2>1, KnownFrame DEF HolderInv
<1> QED
  BY <1>1, <1>2, <1>3, <1>4

LEMMA DropsHolder ==
  ASSUME HolderInv, Steady, Drops \/ Admits
  PROVE  IndexExact' /\ OneHolder' /\ Named' /\ Caught' /\ Quiet' /\ Known'
<1>0. TypeOK /\ IndexExact /\ OneHolder /\ pending \cap sessions = {} /\ kicked \subseteq sessions
  BY DEF HolderInv, Once, TypeOK
<1>1. \A p \in pending : sessions \ kicked = {}
  BY <1>0 DEF OneHolder, Holders
<1>2. CASE Drops
  <2>1. PICK P \in SUBSET pending : Dropped(P)
    BY <1>2 DEF Drops
  <2>2. /\ Holders' \subseteq Holders
        /\ pending' \cup sessions' \subseteq pending \cup sessions
    BY <2>1 DEF Dropped, Holders
  <2>3. /\ Turn /\ UNCHANGED <<Wires, online, syncDue>>
    BY <2>1 DEF Dropped
  <2>4. IndexExact'
    <3>1. CASE accountToSid' = accountToSid
      BY <1>0, <2>1, <3>1 DEF Dropped, IndexExact
    <3>2. CASE P # {} /\ accountToSid' = NoSid
      <4>1. sessions \ kicked = {}
        BY <1>1, <3>2
      <4> QED
        BY <2>1, <3>2, <4>1 DEF Dropped, IndexExact
    <3> QED
      BY <2>1, <3>1, <3>2 DEF Dropped
  <2> QED
    BY <2>2, <2>3, <2>4, HoldersShrink
<1>3. CASE Admits
  <2>1. PICK s \in Sids : Admitted(s)
    BY <1>3 DEF Admits
  <2>2. s \in pending /\ s \notin sessions /\ s \notin kicked /\ sessions \ kicked = {}
    BY <1>0, <1>1, <2>1 DEF Admitted
  <2>3. /\ Holders' \subseteq Holders
        /\ pending' \cup sessions' \subseteq pending \cup sessions
    BY <2>1, <2>2 DEF Admitted, Holders
  <2>4. /\ Turn /\ UNCHANGED <<Wires, online, syncDue>>
    BY <2>1 DEF Admitted
  <2>5. IndexExact'
    BY <2>1, <2>2 DEF Admitted, IndexExact
  <2> QED
    BY <2>3, <2>4, <2>5, HoldersShrink
<1> QED
  BY <1>2, <1>3

LEMMA LeaveHolder ==
  ASSUME HolderInv, Steady, NEW s \in Sids, Connect(s) \/ OnClientLeave(s)
  PROVE  IndexExact' /\ OneHolder' /\ Named' /\ Caught' /\ Quiet' /\ Known'
<1>0. TypeOK /\ IndexExact
  BY DEF HolderInv
<1>1. CASE Connect(s)
  <2>1. /\ Turn /\ UNCHANGED <<Wires, online, syncDue, pending, mapVars>>
    BY <1>1 DEF Connect, Turn, Wires
  <2>2. IndexExact' /\ Holders' = Holders
    BY <1>0, <2>1 DEF IndexExact, Holders
  <2> QED
    BY <2>1, <2>2, HoldersShrink
<1>2. CASE OnClientLeave(s)
  <2>1. /\ Turn /\ UNCHANGED <<Wires, online, syncDue, pending>>
        /\ sessions' = sessions \ {s} /\ kicked' = kicked \ {s} /\ ForgetIndex(s)
    BY <1>2 DEF OnClientLeave, Turn, Wires
  <2>2. /\ Holders' \subseteq Holders
        /\ pending' \cup sessions' \subseteq pending \cup sessions
    BY <2>1 DEF Holders
  <2>3. IndexExact'
    BY <1>0, <2>1 DEF ForgetIndex, IndexExact, TypeOK
  <2> QED
    BY <2>1, <2>2, <2>3, HoldersShrink
<1> QED
  BY <1>1, <1>2

(* Frames move, and the holders stay.                                      *)
LEMMA SameHolders ==
  ASSUME HolderInv, Steady, UNCHANGED <<pending, mapVars, online>>,
         \A x : Sent("sync", x)' => Sent("sync", x),
         Recovering => Recovering'
  PROVE  IndexExact' /\ OneHolder' /\ Named' /\ Quiet' /\ Known'
<1>1. Holders' = Holders
  BY DEF Holders
<1>2. IndexExact' /\ OneHolder'
  BY <1>1 DEF HolderInv, IndexExact, OneHolder
<1>3. Named' /\ Quiet'
  BY <1>1, QuietFrame, NamedFrame DEF HolderInv
<1>4. Known'
  BY <1>1, KnownFrame DEF HolderInv
<1> QED
  BY <1>2, <1>3, <1>4

(* A snapshot names the holder, if there is one.                           *)
LEMMA SnapshotNamesHolder ==
  ASSUME HolderInv
  PROVE  SnapshotSid \subseteq Holders /\ (Holders # {} => SnapshotSid # {})
<1>1. IndexExact
  BY DEF HolderInv
<1>2. CASE accountToSid # NoSid
  BY <1>1, <1>2 DEF IndexExact, SnapshotSid, Holders
<1>3. CASE accountToSid = NoSid
  <2>1. sessions \ kicked = {}
    <3>1. \A s \in sessions \ kicked : s = NoSid /\ s \in Sids
      BY <1>1, <1>3 DEF IndexExact, HolderInv, TypeOK
    <3> QED
      BY <3>1, AdmissionAssumption
  <2> QED
    BY <1>3, <2>1 DEF SnapshotSid, Holders
<1> QED
  BY <1>2, <1>3

LEMMA FailsHolder ==
  ASSUME HolderInv, Steady, LinkFails \/ Reconnect \/ VerifyNotFound
  PROVE  IndexExact' /\ OneHolder' /\ Named' /\ Caught' /\ Quiet' /\ Known'
<1>0. TypeOK /\ Link /\ Exchange /\ breaks \in Nat /\ toGame \in Seq(ToGame)
  <2>1. TypeOK /\ Link /\ Exchange
    BY DEF HolderInv
  <2>2. breaks \in Nat /\ toGame \in Seq(ToGame)
    BY <2>1, AdmissionAssumption DEF TypeOK, Timing
  <2> QED
    BY <2>1, <2>2
<1>1. CASE LinkFails
  <2>1. \A x : Sent("sync", x)' => Sent("sync", x)
    BY <1>0, <1>1, CloseSent DEF LinkFails
  <2>2. Recovering => Recovering'
    BY <1>0, <1>1 DEF LinkFails, Close, Recovering
  <2>3. Caught'
    BY <1>1, CaughtNone, HasEmpty DEF LinkFails, Close
  <2> QED
    BY <1>1, <2>1, <2>2, <2>3, SameHolders DEF LinkFails
<1>2. CASE Reconnect
  <2>1. \A x : Sent("sync", x)' => Sent("sync", x)
    BY <1>2 DEF Reconnect, Sent
  <2>2. Recovering => Recovering'
    BY <1>0, <1>2 DEF Reconnect, Recovering, Link
  <2>3. Caught'
    BY <1>0, <1>2, CaughtIdle DEF Reconnect
  <2> QED
    BY <1>2, <2>1, <2>2, <2>3, SameHolders DEF Reconnect
<1>3. CASE VerifyNotFound
  <2>1. \A x : Sent("sync", x)' => Sent("sync", x)
    BY <1>3 DEF VerifyNotFound, Sent
  <2>2. Recovering => Recovering'
    BY <1>0, <1>3 DEF VerifyNotFound, Received, Recovering, Link
  <2>3. toGame' = <<>>
    BY <1>0, <1>3, OnlyLastTail DEF VerifyNotFound, Received, Exchange, Results
  <2>4. Caught'
    BY <2>3, CaughtNone, HasEmpty
  <2> QED
    BY <1>3, <2>1, <2>2, <2>4, SameHolders DEF VerifyNotFound
<1> QED
  BY <1>1, <1>2, <1>3

LEMMA SendHolder ==
  ASSUME HolderInv, Steady, SendVerify \/ SendSessionGone
  PROVE  IndexExact' /\ OneHolder' /\ Named' /\ Caught' /\ Quiet' /\ Known'
<1>0. TypeOK /\ Link /\ Exchange /\ toLogin \in Seq(ToLogin)
  BY DEF HolderInv, TypeOK
<1>1. /\ at = "pop" /\ requests # <<>> /\ Head(requests).kind \in {"verify", "leave"}
      /\ UNCHANGED <<pending, mapVars, online, syncDue, timing, breaks>>
  BY DEF SendVerify, SendSessionGone, Popped
<1>2. Head(requests) \in ToLogin /\ Head(requests).kind # "sync"
  BY <1>0, <1>1, QueueTypes, MessageTypes
<1>3. \A s : Has(Append(toLogin, Head(requests)), "sync", s) <=> Has(toLogin, "sync", s)
  BY <1>0, <1>2, HasAppend
<1>4. \/ Close /\ ~ linkAlive
      \/ /\ toLogin' = toLogin \/ toLogin' = Append(toLogin, Head(requests))
         /\ UNCHANGED <<oldLink, linkAlive, connected, toGame>>
  BY DEF SendVerify, SendSessionGone
<1>5. \A x : Sent("sync", x)' => Sent("sync", x)
  <2>1. CASE Close
    BY <1>0, <2>1, CloseSent
  <2>2. CASE /\ toLogin' = toLogin \/ toLogin' = Append(toLogin, Head(requests))
             /\ UNCHANGED oldLink
    BY <1>3, <2>2 DEF Sent
  <2> QED
    BY <1>4, <2>1, <2>2
<1>6. Recovering => Recovering'
  BY <1>0, <1>1, <1>3, <1>4 DEF Recovering, Link
<1>7. Caught'
  BY <1>0, <1>1, <1>4, CaughtIdle, CaughtNone, HasEmpty DEF Close
<1> QED
  BY <1>1, <1>5, <1>6, <1>7, SameHolders

LEMMA SnapshotHolder ==
  ASSUME HolderInv, Steady, MaybeSendOnlineSnapshot
  PROVE  IndexExact' /\ OneHolder' /\ Named' /\ Caught' /\ Quiet' /\ Known'
<1>0. TypeOK /\ Link /\ Exchange /\ toLogin \in Seq(ToLogin)
  BY DEF HolderInv, TypeOK
<1>1. /\ at = "retry"
      /\ UNCHANGED <<pending, mapVars, online, timing, breaks, connected, linkAlive,
                     oldLink, toGame>>
  BY DEF MaybeSendOnlineSnapshot
<1>2. /\ SnapshotSid \subseteq Holders /\ SnapshotSid \subseteq Sids
      /\ Holders # {} => SnapshotSid # {}
  BY <1>0, SnapshotNamesHolder DEF SnapshotSid, TypeOK
<1>3. \A x \in SnapshotSid : \A s :
        Has(Append(toLogin, Msg("sync", x)), "sync", s) <=> Has(toLogin, "sync", s) \/ s = x
  BY <1>0, <1>2, HasAppend, MessageTypes
<1>4. Holders' = Holders
  BY <1>1 DEF Holders
<1>5. IndexExact' /\ OneHolder' /\ Caught'
  BY <1>0, <1>1, <1>4, CaughtIdle DEF HolderInv, IndexExact, OneHolder
<1>6. \A s : Has(toLogin', "sync", s) => Has(toLogin, "sync", s) \/ s \in Holders
  BY <1>2, <1>3 DEF MaybeSendOnlineSnapshot, SendOnlineSnapshot
<1>7. Quiet'
  <2> SUFFICES ASSUME Watched', NEW s \in Holders
               PROVE  QuietAt(s)'
    BY <1>4 DEF Quiet
  <2>1. QuietAt(s)
    BY WatchedBefore DEF HolderInv, Quiet
  <2>2. \A x : Sent("sync", x)' => x = s
    <3>1. \A x : Has(toLogin, "sync", x) \/ Has(oldLink, "sync", x) => x = s
      BY <2>1 DEF QuietAt, Sent
    <3>2. \A x \in Holders : x = s
      BY DEF HolderInv, OneHolder
    <3> QED
      BY <1>1, <1>6, <3>1, <3>2 DEF Sent
  <2>3. online' = NoSid \/ online' = s \/ Never(online)'
    <3>1. online = NoSid \/ online = s \/ Never(online)
      BY <2>1 DEF QuietAt
    <3>2. ASSUME online # NoSid, Never(online)
          PROVE  Never(online)'
      <4>1. PICK y \in Sids : y = online
        BY <1>0, <3>2 DEF TypeOK
      <4>2. Never(y)' /\ y = online'
        BY <1>1, <3>2, <4>1, NeverLasts DEF Steady
      <4> QED
        BY <4>2 DEF Never, Spent, Out, Left, Sent
    <3> QED
      BY <1>1, <3>1, <3>2
  <2> QED
    BY <2>2, <2>3 DEF QuietAt
<1>8. Known'
  <2> SUFFICES ASSUME Watched', Holders # {}, online = NoSid
               PROVE  Recovering'
    BY <1>1, <1>4 DEF Known
  <2>1. Recovering
    BY WatchedBefore DEF HolderInv, Known
  <2>2. linkAlive
    BY <1>0, <1>1, <2>1 DEF Recovering, Link
  <2>3. CASE syncDue
    <3>1. \E x \in SnapshotSid : toLogin' = Append(toLogin, Msg("sync", x))
      BY <1>2, <2>2, <2>3 DEF MaybeSendOnlineSnapshot, SendOnlineSnapshot
    <3>2. \E s : Has(toLogin', "sync", s)
      <4>1. PICK x \in SnapshotSid : toLogin' = Append(toLogin, Msg("sync", x))
        BY <3>1
      <4>2. Has(Append(toLogin, Msg("sync", x)), "sync", x)
        BY <1>3
      <4> QED
        BY <4>1, <4>2
    <3> QED
      BY <1>1, <2>1, <2>2, <3>2 DEF Recovering
  <2>4. CASE \E s : Has(toLogin, "sync", s)
    <3>1. \E s : Has(toLogin', "sync", s)
      BY <1>3, <2>4 DEF MaybeSendOnlineSnapshot, SendOnlineSnapshot
    <3> QED
      BY <1>1, <2>1, <2>2, <3>1 DEF Recovering
  <2> QED
    BY <1>0, <1>1, <2>1, <2>3, <2>4 DEF Recovering, Link
<1>9. Named'
  <2>1. \A s \in Holders : s \in Sids /\ Spent(s)
    BY <1>0 DEF HolderInv, Once, Out, Holders, TypeOK
  <2>2. \A s : Sent("sync", s)' => Sent("sync", s) \/ s \in Holders
    BY <1>1, <1>6 DEF Sent
  <2> QED
    BY <2>1, <2>2 DEF HolderInv, Named, Steady, Onward
<1> QED
  BY <1>5, <1>7, <1>8, <1>9

LEMMA KickHolder ==
  ASSUME HolderInv, Steady, RecvKick
  PROVE  IndexExact' /\ OneHolder' /\ Named' /\ Caught' /\ Quiet' /\ Known' /\ Holders' = {}
<1>0. TypeOK /\ IndexExact /\ Caught /\ toGame \in Seq(ToGame)
  BY DEF HolderInv, TypeOK
<1>1. /\ pending' = {} /\ accountToSid' = NoSid /\ MarkKicked
      /\ toGame' = Tail(toGame) /\ toGame # <<>>
      /\ UNCHANGED <<sessions, toLogin, oldLink, online>>
  BY DEF RecvKick, KickByAccount, Erase, Received
<1>2. sessions' \ kicked' = {}
  <2>1. accountToSid # NoSid => accountToSid \in sessions
    BY <1>0 DEF IndexExact
  <2>2. accountToSid = NoSid => sessions \ kicked = {}
    <3>1. \A s \in sessions \ kicked : s \in Sids /\ s = accountToSid
      BY <1>0 DEF IndexExact, TypeOK
    <3> QED
      BY <3>1, AdmissionAssumption
  <2>3. sessions \ kicked \subseteq {accountToSid}
    BY <1>0 DEF IndexExact
  <2>4. \/ accountToSid \in sessions /\ kicked' = kicked \cup {accountToSid}
        \/ accountToSid \notin sessions /\ kicked' = kicked
    BY <1>1 DEF MarkKicked
  <2> QED
    BY <1>1, <2>1, <2>2, <2>3, <2>4
<1>3. Holders' = {}
  BY <1>1, <1>2 DEF Holders
<1>4. IndexExact'
  BY <1>1, <1>2 DEF IndexExact
<1>5. Caught'
  <2>1. \A s \in Sids : Accepted(s)' => Accepted(s)
    BY <1>0, <1>1, HasTail DEF Accepted
  <2> QED
    BY <1>0, <1>1, <1>3, <2>1, WatchedBefore DEF Caught, Sent
<1>6. Named'
  BY <1>1, NamedFrame DEF HolderInv, Sent
<1> QED
  BY <1>3, <1>4, <1>5, <1>6 DEF OneHolder, Quiet, Known

LEMMA OkHolder ==
  ASSUME HolderInv, Steady, VerifyOk
  PROVE  /\ IndexExact' /\ OneHolder' /\ Named' /\ Caught' /\ Quiet' /\ Known'
         /\ Holders = {} /\ Accepted(Head(toGame).sid) /\ Head(toGame).sid \in Sids
<1> PICK x : x = Head(toGame).sid
  OBVIOUS
<1>0. TypeOK /\ IndexExact /\ Caught /\ Exchange /\ toGame \in Seq(ToGame)
  BY DEF HolderInv, TypeOK
<1>1. /\ pending' = pending \cup {x} /\ toGame # <<>> /\ Head(toGame).kind = "ok"
      /\ toGame' = Tail(toGame) /\ UNCHANGED <<mapVars, toLogin, oldLink, online>>
  BY DEF VerifyOk, Received
<1>2. x \in Sids /\ Accepted(x) /\ toGame' = <<>>
  <2>1. Has(toGame, "ok", x) /\ x \in Sids
    BY <1>0, <1>1, HasTail, QueueTypes, MessageTypes
  <2>2. toGame' = <<>>
    BY <1>0, <1>1, OnlyLastTail DEF Exchange, Results
  <2> QED
    BY <2>1, <2>2 DEF Accepted
<1>3. /\ Holders = {}
      /\ Watched => online = x /\ \A y : ~ Sent("sync", y)
  BY <1>0, <1>1, <1>2 DEF Caught
<1>4. Holders' = {x}
  BY <1>1, <1>3 DEF Holders
<1>5. IndexExact'
  BY <1>0, <1>1 DEF IndexExact
<1>6. Caught'
  BY <1>2, CaughtNone, HasEmpty
<1>7. Quiet'
  <2>1. Watched' => \A y : ~ Sent("sync", y)'
    BY <1>1, <1>3, WatchedBefore DEF Sent
  <2>2. Watched' => QuietAt(x)'
    BY <1>1, <1>3, <2>1, WatchedBefore DEF QuietAt
  <2> QED
    BY <1>4, <2>2 DEF Quiet
<1>8. Known'
  BY <1>1, <1>2, <1>3, WatchedBefore, AdmissionAssumption DEF Known
<1>9. Named'
  BY <1>1, NamedFrame DEF HolderInv, Sent
<1> QED
  BY <1>2, <1>3, <1>4, <1>5, <1>6, <1>7, <1>8, <1>9 DEF OneHolder

LEMMA BreakHolder ==
  ASSUME HolderInv, Steady, BreakLink
  PROVE  IndexExact' /\ OneHolder' /\ Named' /\ Caught' /\ Quiet' /\ Known'
<1>0. TypeOK /\ Caught /\ breaks \in Nat /\ toGame \in Seq(ToGame)
  <2>1. TypeOK /\ Caught
    BY DEF HolderInv
  <2>2. breaks \in Nat /\ toGame \in Seq(ToGame)
    BY <2>1, AdmissionAssumption DEF TypeOK, Timing
  <2> QED
    BY <2>1, <2>2
<1>1. /\ \A k, s : Sent(k, s)' => Sent(k, s)
      /\ \A k, s : Has(toGame', k, s) => Has(toGame, k, s)
  BY <1>0, BreakSent
<1>2. ~ Recovering
  BY <1>0 DEF BreakLink, Recovering
<1>3. UNCHANGED <<pending, mapVars, online>>
  BY DEF BreakLink
<1>4. Caught'
  <2>1. PICK n \in 0 .. Len(toGame) : toGame' = SubSeq(toGame, 1, n)
    BY DEF BreakLink
  <2>2. toGame' # <<>> => Head(toGame') = Head(toGame)
    <3>1. SUFFICES ASSUME toGame' # <<>>
                   PROVE  Head(toGame') = Head(toGame)
      OBVIOUS
    <3>2. /\ toGame' \in Seq(ToGame) /\ Len(toGame') = n
          /\ \A i \in 1 .. n : toGame'[i] = toGame[i]
      BY <1>0, <2>1, InPrefix
    <3>3. Len(toGame') # 0 /\ toGame # <<>> /\ 1 \in 1 .. n
      BY <1>0, <2>1, <3>1, <3>2, EmptySeq
    <3>4. Head(toGame') = toGame'[1]
      BY <3>1, <3>2, HeadTailProperties
    <3>5. Head(toGame) = toGame[1]
      BY <1>0, <3>3, HeadTailProperties
    <3> QED
      BY <3>2, <3>3, <3>4, <3>5
  <2>3. \A s : Accepted(s)' => Accepted(s) /\ toGame' # <<>>
    BY <1>1, HasEmpty DEF Accepted
  <2>4. Holders' = Holders
    BY <1>3 DEF Holders
  <2> QED
    BY <1>0, <1>1, <1>3, <2>2, <2>3, <2>4, WatchedBefore DEF Caught
<1> QED
  BY <1>1, <1>2, <1>3, <1>4, SameHolders

(* The login server forgets a holder only while the game server waits to   *)
(* reconnect, and a snapshot is due then.                                  *)
LEMMA SweepHolder ==
  ASSUME HolderInv, Steady, OneFailure, SweepOnline
  PROVE  IndexExact' /\ OneHolder' /\ Named' /\ Caught' /\ Quiet' /\ Known'
<1>0. TypeOK /\ Link /\ Exchange /\ IndexExact /\ OneHolder /\ Quiet
  BY DEF HolderInv
<1>1. /\ at # "verify" /\ GraceOver /\ online' = NoSid
      /\ syncDue' = (syncDue \/ ~ connected)
      /\ UNCHANGED <<pending, mapVars, toLogin, oldLink, toGame, connected, linkAlive,
                     timing, breaks>>
  BY DEF SweepOnline
<1>2. Holders' = Holders
  BY <1>1 DEF Holders
<1>3. IndexExact' /\ OneHolder'
  BY <1>0, <1>1, <1>2 DEF IndexExact, OneHolder
<1>4. Caught'
  BY <1>0, <1>1, CaughtIdle
<1>5. Quiet' /\ Named'
  BY <1>0, <1>1, <1>2, QuietFrame, NamedFrame DEF HolderInv, Sent
<1>6. Known'
  <2> SUFFICES ASSUME Holders # {}
               PROVE  Recovering'
    BY <1>2 DEF Known
  <2>1. SnapshotSid # {}
    BY SnapshotNamesHolder
  <2>2. ~ linkAlive => /\ breaks = timing.breaks /\ ~ timing.sweepUnnoticed
    BY <1>0, FailedOnce DEF Link
  <2>3. ~ connected
    BY <1>1, <2>1, <2>2 DEF GraceOver
  <2>4. ~ linkAlive
    BY <1>0, <2>3 DEF Link
  <2> QED
    BY <1>1, <2>2, <2>3, <2>4 DEF Recovering
<1> QED
  BY <1>3, <1>4, <1>5, <1>6

(* With frames that may come late there are two connections, and a link    *)
(* that never fails leaves none behind.                                    *)
LEMMA OnlyTwo == TypeOK /\ OneFailure /\ ~ Orderly => TwoConnections
BY DEF TypeOK, OneFailure, Orderly

LEMMA NeverFails == TypeOK /\ timing.breaks = 0 => breaks = 0
BY DEF TypeOK

LEMMA SentSids == TypeOK => \A k, s : Sent(k, s) => s \in Sids
BY MessageTypes DEF TypeOK, Sent, Has

LEMMA ReceiveHolder ==
  ASSUME HolderInv, Steady, OneToken, OneFailure, LoginServerReceives
  PROVE  IndexExact' /\ OneHolder' /\ Named' /\ Caught' /\ Quiet' /\ Known'
<1>0. /\ TypeOK /\ Link /\ Exchange /\ Once /\ IndexExact /\ OneHolder
      /\ Named /\ Caught /\ Quiet /\ Known
  BY DEF HolderInv
<1>1. /\ UNCHANGED <<net, requests, at, syncDue, connected, linkAlive, timing, breaks,
                     pending, mapVars>>
      /\ \A k, s : Sent(k, s)' => Sent(k, s)
      /\ \E k, s : Sent(k, s)
      /\ \A s : Has(toLogin, "sync", s) => Has(toLogin', "sync", s) \/ (s \in Sids /\ online' = s)
      /\ \E s : Consumes(s) \/ Refuses \/ Leaves(s) \/ Syncs(s)
  BY <1>0, Receives
<1>2. Holders' = Holders
  BY <1>1 DEF Holders
<1>3. IndexExact' /\ OneHolder'
  BY <1>0, <1>1, <1>2 DEF IndexExact, OneHolder
<1>4. Named'
  BY <1>0, <1>1, NamedFrame
<1>5. online' = NoSid /\ Recovering => Recovering'
  <2>1. online' = NoSid /\ (\E s : Has(toLogin, "sync", s)) => \E s : Has(toLogin', "sync", s)
    BY <1>1, AdmissionAssumption
  <2> QED
    BY <1>1, <2>1 DEF Recovering
<1>6. ASSUME online' = online \/ online' = NoSid,
             Watched /\ Holders # {} => online' = online,
             \A s \in Sids : Accepted(s)' => Accepted(s) /\ toGame' = toGame,
             Watched /\ (\E s \in Sids : Accepted(s)) => online' = online
      PROVE  Caught' /\ Quiet' /\ Known'
  <2>1. Caught'
    BY <1>0, <1>1, <1>2, <1>6, WatchedBefore DEF Caught
  <2>2. Quiet'
    BY <1>0, <1>1, <1>2, <1>6, QuietFrame
  <2>3. Known'
    BY <1>0, <1>2, <1>5, <1>6, WatchedBefore DEF Known
  <2> QED
    BY <2>1, <2>2, <2>3
<1>7. ASSUME NEW x, Consumes(x)
      PROVE  Caught' /\ Quiet' /\ Known'
  <2>1. /\ x \in Sids /\ ~ Spent(x) /\ Out(x) /\ ~ Left(x) /\ tokens'[x] = 0
        /\ net[x] # "new" /\ online' = x /\ Watched
    BY <1>0, <1>7, ConsumesFirst DEF Consumes, Watched
  <2>2. Never(x)'
    BY <1>1, <2>1 DEF Never, Spent, Out, Left
  <2>3. Quiet'
    <3> SUFFICES ASSUME NEW s \in Holders
                 PROVE  QuietAt(s)'
      BY <1>2 DEF Quiet
    <3>1. \A y : Sent("sync", y)' => y = s
      BY <1>0, <1>1, <2>1 DEF Quiet, QuietAt
    <3>2. Never(online)'
      BY <2>1, <2>2 DEF Never, Spent, Out, Left, Sent
    <3> QED
      BY <3>1, <3>2 DEF QuietAt
  <2>4. Known'
    BY <2>1, AdmissionAssumption DEF Known
  <2>5. ASSUME Watched', ~ Orderly, NEW y \in Sids, Spent(y)
        PROVE  FALSE
    <3>1. PICK z \in Sids : ~ Spent(z)'
      BY <1>1, <2>5 DEF Watched, Orderly
    <3>2. Spent(x)' /\ Spent(y)'
      BY <1>1, <2>1, <2>5 DEF Spent, Steady, Onward
    <3>3. x # y /\ y # z /\ x # z
      BY <2>1, <2>5, <3>1, <3>2
    <3> QED
      BY <1>0, <2>1, <2>5, <3>3, OnlyTwo DEF TwoConnections
  <2>6. CASE UNCHANGED toGame
    <3>1. \A s \in Sids : Accepted(s)' => Accepted(s)
      BY <2>6 DEF Accepted
    <3>2. ASSUME NEW s \in Sids, Accepted(s)
          PROVE  /\ ~ Orderly' /\ ~ Watched'
                 /\ Head(toGame').kind # "kick" => Holders' = {}
      <4>1. ~ Orderly
        BY <1>0, <1>1, <3>2 DEF Caught
      <4>2. Spent(s)
        BY <1>0, <3>2 DEF Once
      <4>3. ~ Orderly' /\ ~ Watched'
        BY <2>5, <4>1, <4>2, WatchedBefore
      <4> QED
        BY <1>0, <1>2, <2>6, <3>2, <4>3 DEF Caught
    <3> QED
      BY <2>3, <2>4, <3>1, <3>2 DEF Caught
  <2>7. CASE Answer(x)
    <3>1. \A s : Accepted(s)' => s = x
      <4>1. \A s : /\ Has(<<Msg("ok", x)>>, "ok", s) => s = x
                   /\ Has(<<Msg("kick", x), Msg("ok", x)>>, "ok", s) => s = x
        BY DEF Has, Msg
      <4> QED
        BY <2>7, <4>1 DEF Answer, Accepted
    <3>2. Orderly => \A k, y : ~ Sent(k, y)'
      <4>1. Orderly => oldLink = <<>>
        BY <1>0, <2>7, NeverFails DEF Answer, Link, Orderly
      <4> QED
        BY <2>7, <4>1, HasEmpty DEF Answer, Sent
    <3>3. Watched' => \A y : ~ Sent("sync", y)' /\ ~ Sent("leave", y)'
      <4>1. ASSUME NEW y, Sent("sync", y) \/ Sent("leave", y)
            PROVE  y \in Sids /\ Spent(y)
        BY <1>0, <4>1, SentSids DEF Named, Once, Left
      <4> QED
        BY <1>1, <2>5, <3>2, <4>1
    <3>4. Head(toGame').kind # "kick" => Holders' = {}
      <4>1. Head(<<Msg("kick", x), Msg("ok", x)>>).kind = "kick"
        BY DEF Msg
      <4>2. online = NoSid => Holders = {}
        <5>1. ~ Recovering
          BY <1>0, <2>7 DEF Answer, Recovering, Link
        <5> QED
          BY <1>0, <2>1, <5>1 DEF Known
      <4> QED
        BY <1>2, <2>7, <4>1, <4>2 DEF Answer
    <3>5. Caught'
      BY <2>1, <3>1, <3>2, <3>3, <3>4, WatchedBefore DEF Caught
    <3> QED
      BY <2>3, <2>4, <3>5
  <2> QED
    BY <1>7, <2>3, <2>4, <2>6, <2>7 DEF Consumes
<1>8. CASE Refuses
  <2>1. online' = online
    BY <1>8 DEF Refuses
  <2>2. \A s \in Sids : Accepted(s)' => Accepted(s) /\ toGame' = toGame
    BY <1>8 DEF Refuses, Accepted
  <2> QED
    BY <1>3, <1>4, <1>6, <2>1, <2>2
<1>9. ASSUME NEW y, Leaves(y)
      PROVE  Caught' /\ Quiet' /\ Known'
  <2>1. /\ y \in Sids /\ Left(y) /\ UNCHANGED toGame
        /\ online' = IF online = y THEN NoSid ELSE online
    BY <1>9 DEF Leaves, Left
  <2>2. Watched /\ Holders # {} => online' = online
    <3> SUFFICES ASSUME Watched, NEW s \in Holders
                 PROVE  online' = online
      OBVIOUS
    <3>1. s \in Sids /\ ~ Out(s)
      BY <1>0 DEF Holders, Out, TypeOK
    <3>2. s # y
      BY <1>0, <2>1, <3>1 DEF Once
    <3>3. online = NoSid \/ online = s \/ Never(online)
      BY <1>0 DEF Quiet, QuietAt
    <3> QED
      BY <2>1, <3>2, <3>3 DEF Never
  <2>3. Watched => \A s \in Sids : ~ Accepted(s)
    BY <1>0, <1>9 DEF Caught, Leaves
  <2> QED
    BY <1>6, <2>1, <2>2, <2>3 DEF Accepted
<1>10. ASSUME NEW y, Syncs(y)
       PROVE  Caught' /\ Quiet' /\ Known'
  <2>1. y \in Sids /\ Sent("sync", y) /\ online' = y /\ UNCHANGED toGame
    BY <1>10 DEF Syncs
  <2>2. Caught'
    BY <1>0, <1>2, <2>1, WatchedBefore DEF Caught, Accepted
  <2>3. Quiet'
    BY <1>0, <1>1, <1>2, <2>1, WatchedBefore DEF Quiet, QuietAt
  <2>4. Known'
    BY <2>1, AdmissionAssumption DEF Known
  <2> QED
    BY <2>2, <2>3, <2>4
<1> QED
  BY <1>1, <1>3, <1>4, <1>7, <1>8, <1>9, <1>10

LEMMA TimingStays == TypeOK /\ Scanning /\ [Next]_vars => UNCHANGED timing
<1> SUFFICES ASSUME TypeOK, Scanning, [Next]_vars
             PROVE  UNCHANGED timing
  OBVIOUS
<1>1. CASE Drops \/ Admits \/ LinkFails
  BY <1>1 DEF Drops, Dropped, Admits, Admitted, LinkFails, Wires
<1>2. ASSUME NEW s \in Sids, Connect(s) \/ OnClientLeave(s)
      PROVE  UNCHANGED timing
  BY <1>2 DEF Connect, OnClientLeave
<1>3. CASE \/ Reconnect \/ MaybeSendOnlineSnapshot \/ SendVerify \/ SendSessionGone
           \/ RecvKick \/ VerifyOk \/ VerifyNotFound \/ BreakLink
           \/ LoginServerReceives \/ SweepOnline
  BY <1>3
  DEF Reconnect, MaybeSendOnlineSnapshot, SendVerify, SendSessionGone, RecvKick, VerifyOk,
      VerifyNotFound, BreakLink, LoginServerReceives, SweepOnline
<1> QED
  BY <1>1, <1>2, <1>3, Classes

LEMMA NextHolder == HolderInv /\ OneToken /\ OneFailure /\ [Next]_vars => HolderInv'
<1> SUFFICES ASSUME HolderInv, OneToken, OneFailure, [Next]_vars
             PROVE  HolderInv'
  OBVIOUS
<1>1. TypeOK' /\ Scanning' /\ Exchange' /\ Link' /\ Once' /\ Steady
  BY NextTypeOK, NextScanning, NextExchange, NextLink, NextOnce, TimingStays
  DEF HolderInv, Steady
<1>2. IndexExact' /\ OneHolder' /\ Named' /\ Caught' /\ Quiet' /\ Known'
  <2>1. TypeOK /\ Scanning
    BY DEF HolderInv
  <2> QED
    BY <1>1, <2>1, Classes, DropsHolder, LeaveHolder, FailsHolder, SendHolder, SnapshotHolder,
       KickHolder, OkHolder, BreakHolder, SweepHolder, ReceiveHolder
<1> QED
  BY <1>1, <1>2 DEF HolderInv

LEMMA HolderAlways ==
  ASSUME OneToken, OneFailure
  PROVE  Spec => []HolderInv
<1>1. Init => HolderInv
  BY InitTypeOK, InitScanning, InitExchange, InitLink, InitOnce, InitHolder DEF HolderInv
<1>2. HolderInv /\ [Next]_vars => HolderInv'
  BY NextHolder
<1> QED
  BY <1>1, <1>2, PTL DEF Spec

(* m_accountToSid names the session of the account that is in the map and  *)
(* was not kicked, whenever there is one, and nobody else: through         *)
(* admissions, rollbacks of OnLoginSuccess, kicks and leaves of any number *)
(* of connections, each with one token, and a failure of the link that the *)
(* game server notices before the grace of the login server runs out.      *)
(* Frames of the dead link that the login server reads after those of the  *)
(* next one are covered for two connections; with three they can cancel a  *)
(* kick.                                                                   *)
THEOREM IndexNamesTheSession ==
  ASSUME OneToken, OneFailure
  PROVE  Spec => []IndexExact
<1>1. HolderInv => IndexExact
  BY DEF HolderInv
<1> QED
  BY <1>1, HolderAlways, PTL

LEMMA HolderIsKnown == HolderInv => HolderKnown
<1> SUFFICES ASSUME HolderInv, ~ timing.lateFrames, accountToSid # NoSid, linkAlive,
                    ~ syncDue, toLogin = <<>>
             PROVE  online # NoSid
  BY DEF HolderKnown
<1>1. Link /\ Known /\ IndexExact
  BY DEF HolderInv
<1>2. Holders # {}
  BY <1>1 DEF IndexExact, Holders
<1>3. ~ Recovering
  BY <1>1, HasEmpty DEF Recovering, Link
<1> QED
  BY <1>1, <1>2, <1>3 DEF Known, Watched, Orderly

(* Once MaybeSendOnlineSnapshot has run on a working link and the login    *)
(* server has read all frames, its online table has an entry for every     *)
(* account with a session, so that the next login of the account kicks:    *)
(* for any number of connections, each with one token, and one failure of  *)
(* the link that the game server notices in time.                          *)
THEOREM SessionsAreKnownOnline ==
  ASSUME OneToken, OneFailure
  PROVE  Spec => []HolderKnown
BY HolderAlways, HolderIsKnown, PTL


-----------------------------------------------------------------------------
(* Part 3.  The gate, the one session and the stored play.                 *)

(* Who has been accepted and is no longer on the way to a session.         *)
Past(s) == Spent(s) /\ s \notin pending /\ ~ Accepted(s)

LEMMA SessionsArePast == TypeOK /\ Once => \A s \in sessions : Past(s)
BY DEF TypeOK, Once, Past, Out

Kicking(s) == Has(toGame, "kick", s)

(* Only the login server sends answers.                                    *)
LEMMA FewAnswers ==
  ASSUME TypeOK, Scanning, Exchange, [Next]_vars, ~ LoginServerReceives
  PROVE  \A k, s : Has(toGame', k, s) => Has(toGame, k, s)
<1>1. toGame \in Seq(ToGame)
  BY DEF TypeOK
<1>2. CASE UNCHANGED toGame
  BY <1>2
<1>3. CASE Drops \/ Admits
  BY <1>3, <1>2 DEF Drops, Dropped, Admits, Admitted, Wires
<1>4. CASE LinkFails \/ SendSessionGone
  BY <1>4, <1>2, HasEmpty DEF LinkFails, SendSessionGone, Close
<1>5. ASSUME NEW s \in Sids, Connect(s) \/ OnClientLeave(s)
      PROVE  UNCHANGED toGame
  BY <1>5 DEF Connect, OnClientLeave
<1>6. CASE Reconnect \/ MaybeSendOnlineSnapshot \/ SendVerify \/ SweepOnline
  BY <1>2, <1>6 DEF Reconnect, MaybeSendOnlineSnapshot, SendVerify, SweepOnline
<1>7. CASE RecvKick \/ VerifyOk \/ VerifyNotFound
  BY <1>1, <1>7, HasTail DEF RecvKick, VerifyOk, VerifyNotFound, Received
<1>8. CASE BreakLink
  BY <1>8, BreakSent
<1> QED
  BY <1>2, <1>3, <1>4, <1>5, <1>6, <1>7, <1>8, Classes

(* It accepts, and kicks for, only the connection whose token it consumes. *)
LEMMA NewAnswers ==
  ASSUME TypeOK, Exchange, Once, OneToken, LoginServerReceives, NEW s
  PROVE  /\ Accepted(s)' => Accepted(s) \/ (s \in Sids /\ ~ Spent(s) /\ Spent(s)' /\ Out(s))
         /\ Kicking(s)' => Kicking(s) \/ (s \in Sids /\ ~ Spent(s) /\ Spent(s)' /\ Out(s))
<1>1. /\ \E x : Consumes(x) \/ Refuses \/ Leaves(x) \/ Syncs(x)
      /\ UNCHANGED net
  BY Receives
<1>2. CASE Refuses \/ UNCHANGED toGame
  BY <1>2 DEF Refuses, Accepted, Kicking
<1>3. ASSUME NEW x, Leaves(x) \/ Syncs(x)
      PROVE  UNCHANGED toGame
  BY <1>3 DEF Leaves, Syncs
<1>4. ASSUME NEW x, Consumes(x), Answer(x)
      PROVE  /\ Accepted(s)' \/ Kicking(s)' => s = x
             /\ x \in Sids /\ ~ Spent(x) /\ Spent(x)' /\ Out(x)
  <2>1. \A k : /\ Has(<<Msg("ok", x)>>, k, s) => s = x
               /\ Has(<<Msg("kick", x), Msg("ok", x)>>, k, s) => s = x
    BY DEF Has, Msg
  <2>2. Accepted(s)' \/ Kicking(s)' => s = x
    BY <1>4, <2>1 DEF Answer, Accepted, Kicking
  <2>3. x \in Sids /\ ~ Spent(x) /\ Out(x) /\ tokens'[x] = 0 /\ net[x] # "new"
    BY <1>4, ConsumesFirst
  <2> QED
    BY <1>1, <2>2, <2>3 DEF Spent
<1> QED
  BY <1>1, <1>2, <1>3, <1>4 DEF Consumes

(* Nobody comes back to the way to a session.                              *)
LEMMA NextPast ==
  ASSUME TypeOK, Scanning, Exchange, Once, OneToken, [Next]_vars
  PROVE  \A s \in Sids : Past(s) => Past(s)'
<1> SUFFICES ASSUME NEW s \in Sids, Past(s)
             PROVE  Past(s)'
  OBVIOUS
<1>1. Spent(s)'
  BY NextOnce DEF Onward, Past
<1>2. ~ Accepted(s)'
  BY FewAnswers, NewAnswers DEF Past, Accepted
<1>3. s \notin pending'
  <2>1. pending' \subseteq pending \/ VerifyOk
    <3>1. CASE Drops \/ Admits
      BY <3>1 DEF Drops, Dropped, Admits, Admitted
    <3>2. ASSUME NEW x \in Sids, Connect(x) \/ OnClientLeave(x)
          PROVE  pending' \subseteq pending
      BY <3>2 DEF Connect, OnClientLeave
    <3>3. CASE LinkFails \/ LoginServerReceives
      BY <3>3, Receives DEF LinkFails
    <3>4. CASE \/ Reconnect \/ MaybeSendOnlineSnapshot \/ SendVerify \/ SendSessionGone
               \/ RecvKick \/ VerifyNotFound \/ BreakLink \/ SweepOnline
      BY <3>4
      DEF Reconnect, MaybeSendOnlineSnapshot, SendVerify, SendSessionGone, RecvKick,
          KickByAccount, Erase, VerifyNotFound, BreakLink, SweepOnline
    <3> QED
      BY <3>1, <3>2, <3>3, <3>4, Classes
  <2>2. CASE VerifyOk
    <3>1. toGame # <<>> /\ Head(toGame).kind = "ok" /\ pending' = pending \cup {Head(toGame).sid}
      BY <2>2 DEF VerifyOk, Received
    <3>2. Accepted(Head(toGame).sid)
      BY <3>1, HasTail DEF TypeOK, Accepted
    <3> QED
      BY <3>1, <3>2 DEF Past
  <2> QED
    BY <2>1, <2>2 DEF Past
<1> QED
  BY <1>1, <1>2, <1>3 DEF Past

-----------------------------------------------------------------------------
(* Kicks.  One goes ahead of the result of the verification that caused    *)
(* it, for a connection that has spent its token and is not yet pending.   *)
Kicks == \A s \in Sids : Kicking(s) => Spent(s) /\ Out(s)
OneKick == \A i \in DOMAIN toGame : toGame[i].kind = "kick" => i = 1

(* A kick stays good until it is read.                                     *)
LEMMA NextKicks ==
  ASSUME TypeOK, Scanning, Exchange, Once, OneToken, Onward, Kicks, [Next]_vars
  PROVE  Kicks'
<1> SUFFICES ASSUME NEW s \in Sids, Kicking(s)'
             PROVE  Spent(s)' /\ Out(s)'
  BY DEF Kicks
<1>1. CASE LoginServerReceives
  <2>1. UNCHANGED <<pending, sessions>>
    BY <1>1, Receives
  <2> QED
    BY <1>1, <2>1, NewAnswers DEF Kicks, Onward, Out
<1>2. CASE ~ LoginServerReceives
  <2>1. Kicking(s) /\ toGame' # <<>>
    BY <1>2, FewAnswers, HasEmpty DEF Kicking
  <2>2. Spent(s)' /\ Out(s)
    BY <2>1 DEF Kicks, Onward
  <2>3. pending' \cup sessions' \subseteq pending \cup sessions \/ VerifyOk
    <3>1. CASE Drops \/ Admits
      BY <3>1 DEF Drops, Dropped, Admits, Admitted
    <3>2. ASSUME NEW x \in Sids, Connect(x) \/ OnClientLeave(x)
          PROVE  pending' \cup sessions' \subseteq pending \cup sessions
      BY <3>2 DEF Connect, OnClientLeave
    <3>3. CASE LinkFails
      BY <3>3 DEF LinkFails
    <3>4. CASE \/ Reconnect \/ MaybeSendOnlineSnapshot \/ SendVerify \/ SendSessionGone
               \/ RecvKick \/ VerifyNotFound \/ BreakLink \/ SweepOnline
      BY <3>4
      DEF Reconnect, MaybeSendOnlineSnapshot, SendVerify, SendSessionGone, RecvKick,
          KickByAccount, Erase, VerifyNotFound, BreakLink, SweepOnline
    <3> QED
      BY <1>2, <3>1, <3>2, <3>3, <3>4, Classes
  <2>4. ~ VerifyOk
    <3>1. VerifyOk => toGame' = <<>>
      <4>1. toGame \in Seq(ToGame) /\ OnlyLast(toGame, Results)
        BY DEF TypeOK, Exchange
      <4> QED
        BY <4>1, OnlyLastTail DEF VerifyOk, Received, Results
    <3> QED
      BY <2>1, <3>1
  <2> QED
    BY <2>2, <2>3, <2>4 DEF Out
<1> QED
  BY <1>1, <1>2

LEMMA NoSecondKick ==
  ASSUME toGame \in Seq(ToGame), toGame # <<>>, OneKick, NEW s
  PROVE  ~ Has(Tail(toGame), "kick", s)
<1>1. /\ Tail(toGame) \in Seq(ToGame) /\ Len(Tail(toGame)) = Len(toGame) - 1
      /\ \A i \in 1 .. (Len(toGame) - 1) : Tail(toGame)[i] = toGame[i + 1]
  BY HeadTailProperties
<1>2. DOMAIN toGame = 1 .. Len(toGame) /\ DOMAIN Tail(toGame) = 1 .. (Len(toGame) - 1)
      /\ Len(toGame) \in Nat
  BY <1>1, LenProperties
<1>3. \A i \in DOMAIN Tail(toGame) : i + 1 \in DOMAIN toGame /\ i + 1 # 1
  BY <1>2
<1> QED
  BY <1>1, <1>2, <1>3 DEF OneKick, Has

LEMMA NextOneKick ==
  ASSUME TypeOK, Scanning, Exchange, OneKick, [Next]_vars
  PROVE  OneKick'
<1>0. toGame \in Seq(ToGame)
  BY DEF TypeOK
<1>1. CASE UNCHANGED toGame
  BY <1>1 DEF OneKick
<1>2. ASSUME \A s : ~ Has(toGame', "kick", s)
      PROVE  OneKick'
  BY <1>2 DEF OneKick, Has
<1>3. CASE Drops \/ Admits \/ LinkFails \/ SendSessionGone
  BY <1>1, <1>2, <1>3, HasEmpty
  DEF Drops, Dropped, Admits, Admitted, Wires, LinkFails, SendSessionGone, Close
<1>4. ASSUME NEW s \in Sids, Connect(s) \/ OnClientLeave(s)
      PROVE  UNCHANGED toGame
  BY <1>4 DEF Connect, OnClientLeave
<1>5. CASE Reconnect \/ MaybeSendOnlineSnapshot \/ SendVerify \/ SweepOnline
  BY <1>1, <1>5 DEF Reconnect, MaybeSendOnlineSnapshot, SendVerify, SweepOnline
<1>6. CASE RecvKick \/ VerifyOk \/ VerifyNotFound
  <2>1. toGame # <<>> /\ toGame' = Tail(toGame)
    BY <1>6 DEF RecvKick, VerifyOk, VerifyNotFound, Received
  <2> QED
    BY <1>0, <1>2, <2>1, NoSecondKick
<1>7. CASE BreakLink
  <2>1. PICK n \in 0 .. Len(toGame) : toGame' = SubSeq(toGame, 1, n)
    BY <1>7 DEF BreakLink
  <2>2. /\ toGame' \in Seq(ToGame) /\ Len(toGame') = n /\ Len(toGame) \in Nat
        /\ \A i \in 1 .. n : toGame'[i] = toGame[i]
    BY <1>0, <2>1, InPrefix
  <2>3. DOMAIN toGame' = 1 .. n /\ DOMAIN toGame = 1 .. Len(toGame)
    BY <1>0, <2>2, LenProperties
  <2> QED
    BY <2>2, <2>3 DEF OneKick
<1>8. CASE LoginServerReceives
  <2>1. \E s : Consumes(s) \/ Refuses \/ Leaves(s) \/ Syncs(s)
    BY <1>8, Receives
  <2>2. CASE Refuses
    BY <1>1, <1>2, <2>2 DEF Refuses
  <2>3. ASSUME NEW s, Answer(s)
        PROVE  OneKick'
    BY <2>3 DEF Answer, OneKick, Msg
  <2> QED
    BY <1>1, <2>1, <2>2, <2>3 DEF Consumes, Leaves, Syncs
<1> QED
  BY <1>3, <1>1, <1>4, <1>5, <1>6, <1>7, <1>8, Classes

-----------------------------------------------------------------------------
(* The save gate opens for one kicked session at a time.  Whoever kicked   *)
(* it waits in the gate or gave up, which takes one connection; the kick   *)
(* of a second session would take two more.                                *)
ThreeConnections ==
  \A w, x, y, z \in Sids : w = x \/ w = y \/ w = z \/ x = y \/ x = z \/ y = z

IndexIn == accountToSid # NoSid => accountToSid \in sessions \ kicked
KickedOnce == \A x, y \in kicked : x = y

(* y has kicked a session, or lost its pending selection, and is not       *)
(* admitted before the gate opens.                                         *)
Barred(y) ==
  /\ Spent(y) /\ y \notin sessions /\ ~ Kicking(y)
  /\ Accepted(y) => sawKick
  /\ y \in pending => y \in replacing
Kicker == kicked # {} => \E y \in Sids : Barred(y)

KickInv == /\ TypeOK /\ Scanning /\ Exchange /\ Once /\ Kicks /\ OneKick
           /\ IndexIn /\ KickedOnce /\ Kicker /\ GateMatchesKicked

LEMMA InitKick == Init => Kicks /\ OneKick /\ IndexIn /\ KickedOnce /\ Kicker /\ GateMatchesKicked
BY HasEmpty
DEF Init, Kicks, Kicking, OneKick, IndexIn, KickedOnce, Kicker, GateMatchesKicked

(* Pendings become fewer, and no answer arrives for who has had one.       *)
LEMMA KickFrame ==
  ASSUME KickInv, Onward,
         \A s \in Sids : Spent(s) /\ Accepted(s)' => Accepted(s) /\ sawKick' = sawKick,
         \A s \in Sids : Spent(s) /\ Kicking(s)' => Kicking(s),
         pending' \subseteq pending, \A t \in pending' : t \in replacing => t \in replacing',
         sessions' \subseteq sessions, UNCHANGED <<kicked, pendingSave>>
  PROVE  KickedOnce' /\ Kicker' /\ GateMatchesKicked'
<1>1. \A y \in Sids : Barred(y) => Barred(y)'
  BY DEF Barred, Onward
<1> QED
  BY <1>1 DEF KickInv, KickedOnce, Kicker, GateMatchesKicked

LEMMA DropsKick ==
  ASSUME KickInv, Onward, Drops
  PROVE  IndexIn' /\ KickedOnce' /\ Kicker' /\ GateMatchesKicked'
<1>1. PICK P \in SUBSET pending : Dropped(P)
  BY DEF Drops
<1>2. IndexIn'
  BY <1>1 DEF KickInv, IndexIn, Dropped
<1>3. /\ \A s : Accepted(s)' => Accepted(s) /\ sawKick' = sawKick
      /\ \A s : Kicking(s)' => Kicking(s)
      /\ pending' \subseteq pending /\ \A t \in pending' : t \in replacing => t \in replacing'
      /\ UNCHANGED <<sessions, kicked, pendingSave>>
  BY <1>1 DEF Dropped, Accepted, Kicking, Wires
<1> QED
  BY <1>2, <1>3, KickFrame

(* Who is admitted while the gate is shut has not kicked.                  *)
LEMMA AdmitsKick ==
  ASSUME KickInv, Onward, NEW s \in Sids, Admitted(s)
  PROVE  IndexIn' /\ KickedOnce' /\ Kicker' /\ GateMatchesKicked'
<1>1. /\ TypeOK /\ kicked \subseteq sessions
      /\ s \in pending /\ s \notin sessions /\ (s \notin replacing \/ ~ pendingSave)
      /\ pending' = pending \ {s} /\ replacing' = replacing \ {s}
      /\ sessions' = sessions \cup {s} /\ accountToSid' = s
      /\ UNCHANGED <<kicked, pendingSave, sawKick, toGame>>
  BY DEF KickInv, TypeOK, Admitted, Wires
<1>2. IndexIn'
  BY <1>1 DEF IndexIn
<1>3. Kicker'
  <2> SUFFICES ASSUME kicked # {}
               PROVE  \E y \in Sids : Barred(y)'
    BY <1>1 DEF Kicker
  <2>1. PICK y \in Sids : Barred(y)
    BY DEF KickInv, Kicker
  <2>2. y # s
    BY <1>1, <2>1 DEF KickInv, GateMatchesKicked, Barred
  <2>3. Barred(y)'
    BY <1>1, <2>1, <2>2 DEF Barred, Onward, Kicking, Accepted
  <2> QED
    BY <2>3
<1> QED
  BY <1>1, <1>2, <1>3 DEF KickInv, KickedOnce, GateMatchesKicked

LEMMA LeaveKick ==
  ASSUME KickInv, Onward, NEW s \in Sids, Connect(s) \/ OnClientLeave(s)
  PROVE  IndexIn' /\ KickedOnce' /\ Kicker' /\ GateMatchesKicked'
<1>0. TypeOK /\ kicked \subseteq sessions /\ pendingSave \in BOOLEAN
  BY DEF KickInv, TypeOK
<1>1. UNCHANGED <<pending, replacing, sawKick, toGame>>
  BY DEF Connect, OnClientLeave
<1>2. /\ \A x : Accepted(x)' => Accepted(x) /\ sawKick' = sawKick
      /\ \A x : Kicking(x)' => Kicking(x)
  BY <1>1 DEF Accepted, Kicking
<1>3. CASE Connect(s)
  <2>1. UNCHANGED mapVars
    BY <1>3 DEF Connect
  <2>2. IndexIn'
    BY <2>1 DEF KickInv, IndexIn
  <2> QED
    BY <1>1, <1>2, <2>1, <2>2, KickFrame
<1>4. CASE OnClientLeave(s)
  <2>1. /\ sessions' = sessions \ {s} /\ kicked' = kicked \ {s} /\ ForgetIndex(s)
        /\ pendingSave' = (pendingSave /\ s \notin kicked)
    BY <1>4 DEF OnClientLeave, OpenGate
  <2>2. IndexIn'
    BY <2>1 DEF KickInv, IndexIn, ForgetIndex
  <2>3. CASE s \in kicked
    <3>1. kicked' = {} /\ pendingSave' = FALSE
      BY <1>0, <2>1, <2>3 DEF KickInv, KickedOnce
    <3> QED
      BY <2>2, <3>1 DEF KickedOnce, Kicker, GateMatchesKicked
  <2>4. CASE s \notin kicked
    <3>1. sessions' \subseteq sessions /\ UNCHANGED <<kicked, pendingSave>>
      BY <1>0, <2>1, <2>4
    <3> QED
      BY <1>1, <1>2, <2>2, <3>1, KickFrame
  <2> QED
    BY <2>3, <2>4
<1> QED
  BY <1>3, <1>4

(* The link thread and the login server at work between the answers.       *)
Between == \/ LinkFails \/ Reconnect \/ MaybeSendOnlineSnapshot \/ SendVerify
           \/ SendSessionGone \/ VerifyNotFound \/ BreakLink \/ SweepOnline

LEMMA BetweenAnswers ==
  ASSUME TypeOK, Exchange, Between
  PROVE  /\ UNCHANGED <<pending, replacing, mapVars>>
         /\ \A s : Accepted(s)' => Accepted(s) /\ sawKick' = sawKick
<1>0. toGame \in Seq(ToGame)
  BY DEF TypeOK
<1>1. UNCHANGED <<pending, replacing, mapVars>>
  BY DEF Between, LinkFails, Reconnect, MaybeSendOnlineSnapshot, SendVerify,
         SendSessionGone, VerifyNotFound, BreakLink, SweepOnline
<1>2. CASE SendVerify
  <2>1. toGame' = <<>>
    BY <1>2 DEF SendVerify, Popped, Exchange
  <2> QED
    BY <1>1, <2>1, HasEmpty DEF Accepted
<1>3. CASE LinkFails
  BY <1>1, <1>3, HasEmpty DEF LinkFails, Close, Accepted
<1>4. CASE Reconnect \/ MaybeSendOnlineSnapshot \/ SweepOnline
  BY <1>1, <1>4 DEF Reconnect, MaybeSendOnlineSnapshot, SweepOnline, Accepted
<1>5. CASE SendSessionGone
  BY <1>1, <1>5, HasEmpty DEF SendSessionGone, Close, Accepted
<1>6. CASE VerifyNotFound
  BY <1>0, <1>1, <1>6, HasTail DEF VerifyNotFound, Received, Accepted
<1>7. CASE BreakLink
  BY <1>1, <1>7, BreakSent DEF BreakLink, Accepted
<1> QED
  BY <1>2, <1>3, <1>4, <1>5, <1>6, <1>7 DEF Between

LEMMA BetweenKick ==
  ASSUME KickInv, Onward, [Next]_vars, Between, ~ LoginServerReceives
  PROVE  IndexIn' /\ KickedOnce' /\ Kicker' /\ GateMatchesKicked'
<1>1. /\ UNCHANGED <<pending, replacing, mapVars>>
      /\ \A s : Accepted(s)' => Accepted(s) /\ sawKick' = sawKick
  BY BetweenAnswers DEF KickInv
<1>2. \A s : Kicking(s)' => Kicking(s)
  BY FewAnswers DEF KickInv, Kicking
<1>3. IndexIn'
  BY <1>1 DEF KickInv, IndexIn
<1> QED
  BY <1>1, <1>2, <1>3, KickFrame

(* A second kicked session would take four connections: both sessions, and *)
(* those that kicked them.                                                 *)
LEMMA RecvKickKick ==
  ASSUME KickInv, Onward, ThreeConnections, RecvKick
  PROVE  IndexIn' /\ KickedOnce' /\ Kicker' /\ GateMatchesKicked'
<1> PICK c : c = Head(toGame).sid
  OBVIOUS
<1>0. /\ TypeOK /\ Kicks /\ OneKick /\ toGame \in Seq(ToGame) /\ IndexIn
      /\ kicked \subseteq sessions /\ sessions \subseteq Sids
  BY DEF KickInv, TypeOK
<1>1. /\ pending' = {} /\ MarkKicked /\ sawKick' = (sawKick \/ accountToSid # NoSid)
      /\ toGame' = Tail(toGame) /\ toGame # <<>> /\ Head(toGame).kind = "kick"
      /\ accountToSid' = NoSid /\ UNCHANGED sessions
  BY DEF RecvKick, KickByAccount, Erase, Received
<1>2. c \in Sids /\ Kicking(c) /\ Spent(c) /\ Out(c)
  <2>1. c \in Sids /\ Kicking(c)
    BY <1>0, <1>1, HasTail, QueueTypes, MessageTypes DEF Kicking
  <2> QED
    BY <1>0, <2>1 DEF Kicks
<1>3. /\ \A x : Accepted(x)' => Accepted(x)
      /\ \A x : ~ Kicking(x)'
  BY <1>0, <1>1, HasTail, NoSecondKick DEF Accepted, Kicking
<1>4. IndexIn'
  BY <1>1 DEF IndexIn
<1>5. CASE accountToSid \notin sessions
  <2>1. UNCHANGED <<kicked, pendingSave>>
    BY <1>1, <1>5 DEF MarkKicked
  <2>2. \A y \in Sids : Barred(y) => Barred(y)'
    BY <1>1, <1>3 DEF Barred, Onward
  <2> QED
    BY <1>4, <2>1, <2>2 DEF KickInv, KickedOnce, Kicker, GateMatchesKicked
<1>6. CASE accountToSid \in sessions
  <2>1. /\ kicked' = kicked \cup {accountToSid} /\ pendingSave' = TRUE
        /\ accountToSid # NoSid /\ accountToSid \in Sids /\ accountToSid \notin kicked
    BY <1>0, <1>1, <1>6, AdmissionAssumption DEF MarkKicked, IndexIn
  <2>2. kicked = {}
    <3> SUFFICES ASSUME NEW x \in kicked
                 PROVE  FALSE
      OBVIOUS
    <3>1. PICK y \in Sids : Barred(y)
      BY DEF KickInv, Kicker
    <3>2. x \in Sids /\ x # accountToSid /\ x # c /\ accountToSid # c
      BY <1>0, <1>2, <1>6, <2>1 DEF Out
    <3>3. y # x /\ y # accountToSid /\ y # c
      BY <1>0, <1>2, <1>6, <3>1 DEF Barred
    <3> QED
      BY <1>2, <2>1, <3>2, <3>3 DEF ThreeConnections
  <2>3. Barred(c)'
    BY <1>1, <1>2, <1>3, <2>1 DEF Barred, Onward, Out
  <2> QED
    BY <1>2, <1>4, <2>1, <2>2, <2>3 DEF KickedOnce, Kicker, GateMatchesKicked
<1> QED
  BY <1>5, <1>6

LEMMA OkKick ==
  ASSUME KickInv, Onward, VerifyOk
  PROVE  IndexIn' /\ KickedOnce' /\ Kicker' /\ GateMatchesKicked'
<1> PICK x : x = Head(toGame).sid
  OBVIOUS
<1>0. TypeOK /\ Exchange /\ OneKick /\ toGame \in Seq(ToGame)
  BY DEF KickInv, TypeOK
<1>1. /\ pending' = pending \cup {x} /\ toGame # <<>> /\ Head(toGame).kind = "ok"
      /\ replacing' = IF sawKick THEN replacing \cup {x} ELSE replacing \ {x}
      /\ toGame' = Tail(toGame) /\ UNCHANGED <<mapVars, sawKick>>
  BY DEF VerifyOk, Received
<1>2. Accepted(x)
  BY <1>0, <1>1, HasTail DEF Accepted
<1>3. \A y : ~ Accepted(y)' /\ ~ Kicking(y)'
  <2>1. toGame' = <<>>
    BY <1>0, <1>1, OnlyLastTail DEF Exchange, Results
  <2> QED
    BY <2>1, HasEmpty DEF Accepted, Kicking
<1>4. \A y \in Sids : Barred(y) => Barred(y)'
  BY <1>1, <1>2, <1>3 DEF Barred, Onward
<1> QED
  BY <1>1, <1>4 DEF KickInv, IndexIn, KickedOnce, Kicker, GateMatchesKicked

LEMMA ReceiveKick ==
  ASSUME KickInv, Onward, OneToken, LoginServerReceives
  PROVE  IndexIn' /\ KickedOnce' /\ Kicker' /\ GateMatchesKicked'
<1>1. UNCHANGED <<pending, replacing, mapVars, sawKick>>
  BY Receives DEF KickInv
<1>2. /\ \A s \in Sids : Spent(s) /\ Accepted(s)' => Accepted(s)
      /\ \A s \in Sids : Spent(s) /\ Kicking(s)' => Kicking(s)
  BY NewAnswers DEF KickInv
<1>3. IndexIn'
  BY <1>1 DEF KickInv, IndexIn
<1>4. /\ pending' \subseteq pending /\ sessions' \subseteq sessions
      /\ \A t \in pending' : t \in replacing => t \in replacing'
      /\ UNCHANGED <<kicked, pendingSave>> /\ sawKick' = sawKick
  BY <1>1
<1>5. /\ \A s \in Sids : Spent(s) /\ Accepted(s)' => Accepted(s) /\ sawKick' = sawKick
      /\ \A s \in Sids : Spent(s) /\ Kicking(s)' => Kicking(s)
  BY <1>2, <1>4
<1>6. KickedOnce' /\ Kicker' /\ GateMatchesKicked'
  BY <1>4, <1>5, KickFrame
<1> QED
  BY <1>3, <1>6

LEMMA NextKick ==
  KickInv /\ OneToken /\ ThreeConnections /\ [Next]_vars => KickInv'
<1> SUFFICES ASSUME KickInv, OneToken, ThreeConnections, [Next]_vars
             PROVE  KickInv'
  OBVIOUS
<1>1. TypeOK /\ Scanning /\ Exchange /\ Once /\ Kicks /\ OneKick
  BY DEF KickInv
<1>2. TypeOK' /\ Scanning' /\ Exchange' /\ Once' /\ Onward
  BY <1>1, NextTypeOK, NextScanning, NextExchange, NextOnce
<1>3. Kicks' /\ OneKick'
  BY <1>1, <1>2, NextKicks, NextOneKick
<1>4. IndexIn' /\ KickedOnce' /\ Kicker' /\ GateMatchesKicked'
  BY <1>1, <1>2, Classes, DropsKick, AdmitsKick, LeaveKick, BetweenKick, RecvKickKick, OkKick,
     ReceiveKick DEF Admits, Between
<1> QED
  BY <1>2, <1>3, <1>4 DEF KickInv

(* m_pendingSaveAccounts holds the account exactly as long as a session    *)
(* that KickByAccount kicked has not reached OnSessionGone, so that a      *)
(* replacement neither overtakes the last save nor waits for none: for up  *)
(* to three connections with one token each, whenever and however often    *)
(* the link fails.  With four, a second session can be kicked while the    *)
(* first has not left, and the gate opens when the first one does.         *)
THEOREM GateFollowsTheKick ==
  ASSUME OneToken, ThreeConnections
  PROVE  Spec => []GateMatchesKicked
<1>1. Init => KickInv
  BY InitTypeOK, InitScanning, InitExchange, InitOnce, InitKick DEF KickInv
<1>2. KickInv /\ [Next]_vars => KickInv'
  BY NextKick
<1>3. KickInv => GateMatchesKicked
  BY DEF KickInv
<1> QED
  BY <1>1, <1>2, <1>3, PTL DEF Spec

-----------------------------------------------------------------------------
(* One session, for two connections: a third one could be kicked while its *)
(* predecessor still waits for the save of the first, and then two sessions *)
(* exist, of which the older saves last.                                   *)
(*                                                                         *)
(* A pending next to the session is its replacement, and the session is    *)
(* kicked; while it is, the other connection has spent its token, and is   *)
(* pending only if it saw the kick.                                        *)
OneInMap == \A x, y \in sessions : x = y
Replaced == \A t \in pending, s \in sessions : t \in replacing /\ s \in kicked
Gated == \A s \in kicked : \A x \in Sids \ {s} : Spent(x) /\ (Accepted(x) => sawKick)

GateInv == HolderInv /\ KickInv /\ OneInMap /\ Replaced /\ Gated

LEMMA InitGate == Init => OneInMap /\ Replaced /\ Gated
BY DEF Init, OneInMap, Replaced, Gated

(* Pendings and sessions become fewer, and no answer arrives.              *)
LEMMA GateFrame ==
  ASSUME GateInv, Onward,
         \A s : Accepted(s)' => Accepted(s) /\ sawKick' = sawKick,
         pending' \subseteq pending, sessions' \subseteq sessions,
         \A t \in pending' : t \in replacing => t \in replacing',
         kicked' = kicked \cap sessions'
  PROVE  OneInMap' /\ Replaced' /\ Gated'
<1>1. OneInMap'
  BY DEF GateInv, OneInMap
<1>2. Replaced'
  BY DEF GateInv, Replaced
<1>3. Gated'
  BY DEF GateInv, Gated, Onward
<1> QED
  BY <1>1, <1>2, <1>3

LEMMA DropsGate ==
  ASSUME GateInv, Onward, Drops
  PROVE  OneInMap' /\ Replaced' /\ Gated'
<1>1. PICK P \in SUBSET pending : Dropped(P)
  BY DEF Drops
<1>2. /\ \A s : Accepted(s)' => Accepted(s) /\ sawKick' = sawKick
      /\ pending' \subseteq pending /\ sessions' \subseteq sessions
      /\ \A t \in pending' : t \in replacing => t \in replacing'
      /\ UNCHANGED <<sessions, kicked, pendingSave>>
  BY <1>1 DEF Dropped, Accepted, Wires
<1>3. kicked' = kicked \cap sessions'
  BY <1>2 DEF GateInv, HolderInv, TypeOK
<1> QED
  BY <1>2, <1>3, GateFrame

(* A session is admitted into an empty map: next to a kicked one it would  *)
(* be a replacement, and the gate is shut.                                 *)
LEMMA AdmitsGate ==
  ASSUME GateInv, Onward, NEW s \in Sids, Admitted(s)
  PROVE  OneInMap' /\ Replaced' /\ Gated' /\ sessions = {}
<1>1. /\ TypeOK /\ OneHolder /\ kicked \subseteq sessions
      /\ s \in pending /\ (s \notin replacing \/ ~ pendingSave)
      /\ sessions' = sessions \cup {s} /\ pending' = pending \ {s}
      /\ UNCHANGED <<kicked, pendingSave>>
  BY DEF GateInv, HolderInv, TypeOK, Admitted
<1>2. sessions = {}
  BY <1>1 DEF GateInv, KickInv, Replaced, GateMatchesKicked
<1>3. kicked = {} /\ pending' = {}
  BY <1>1, <1>2 DEF OneHolder, Holders
<1> QED
  BY <1>1, <1>2, <1>3 DEF GateInv, OneInMap, Replaced, Gated

LEMMA LeaveGate ==
  ASSUME GateInv, Onward, NEW s \in Sids, Connect(s) \/ OnClientLeave(s)
  PROVE  OneInMap' /\ Replaced' /\ Gated'
<1>1. UNCHANGED <<pending, replacing, sawKick, toGame>>
  BY DEF Connect, OnClientLeave
<1>2. \A x : Accepted(x)' => Accepted(x) /\ sawKick' = sawKick
  BY <1>1 DEF Accepted
<1>0. kicked \subseteq sessions
  BY DEF GateInv, HolderInv, TypeOK
<1>3. sessions' \subseteq sessions /\ kicked' = kicked \cap sessions'
  <2>1. CASE Connect(s)
    BY <1>0, <2>1 DEF Connect
  <2>2. CASE OnClientLeave(s)
    BY <1>0, <2>2 DEF OnClientLeave
  <2> QED
    BY <2>1, <2>2
<1> QED
  BY <1>1, <1>2, <1>3, GateFrame

LEMMA BetweenGate ==
  ASSUME GateInv, Onward, Between
  PROVE  OneInMap' /\ Replaced' /\ Gated'
<1>1. TypeOK /\ Exchange /\ kicked = kicked \cap sessions
  BY DEF GateInv, HolderInv, TypeOK
<1>2. /\ UNCHANGED <<pending, replacing, mapVars>>
      /\ \A x : Accepted(x)' => Accepted(x) /\ sawKick' = sawKick
  BY <1>1, BetweenAnswers
<1> QED
  BY <1>1, <1>2, GateFrame

(* The kick marks the session, for the connection that made it wait for    *)
(* the session's last save: with two connections, that is the other one.   *)
LEMMA KickGate ==
  ASSUME GateInv, Onward, TwoConnections, RecvKick
  PROVE  OneInMap' /\ Replaced' /\ Gated'
<1> PICK c : c = Head(toGame).sid
  OBVIOUS
<1>0. /\ TypeOK /\ Once /\ Kicks /\ toGame \in Seq(ToGame) /\ IndexExact
      /\ kicked \subseteq sessions /\ sessions \subseteq Sids
  BY DEF GateInv, HolderInv, KickInv, TypeOK
<1>1. /\ pending' = {} /\ MarkKicked /\ sawKick' = (sawKick \/ accountToSid # NoSid)
      /\ toGame' = Tail(toGame) /\ toGame # <<>> /\ Head(toGame).kind = "kick"
      /\ UNCHANGED sessions
  BY DEF RecvKick, KickByAccount, Erase, Received
<1>2. c \in Sids /\ Spent(c) /\ Out(c)
  <2>1. c \in Sids /\ Kicking(c)
    BY <1>0, <1>1, HasTail, QueueTypes, MessageTypes DEF Kicking
  <2> QED
    BY <1>0, <2>1 DEF Kicks
<1>3. \A x : Accepted(x)' => Accepted(x)
  BY <1>0, <1>1, HasTail DEF Accepted
<1>4. Gated'
  <2> SUFFICES ASSUME NEW s \in kicked', NEW x \in Sids \ {s}
               PROVE  Spent(x)' /\ (Accepted(x)' => sawKick')
    BY DEF Gated
  <2>1. CASE s \in kicked
    BY <1>1, <1>3, <2>1 DEF GateInv, Gated, Onward
  <2>2. CASE s \notin kicked
    <3>1. s = accountToSid /\ s \in sessions
      BY <1>1, <2>2 DEF MarkKicked
    <3>2. s # NoSid /\ s \in Sids /\ s # c
      BY <1>0, <1>2, <3>1, AdmissionAssumption DEF Out
    <3>3. x = c
      BY <1>2, <3>2 DEF TwoConnections
    <3> QED
      BY <1>1, <1>2, <3>1, <3>2, <3>3 DEF Onward
  <2> QED
    BY <2>1, <2>2
<1> QED
  BY <1>1, <1>4 DEF GateInv, OneInMap, Replaced

(* A connection that becomes pending next to a kicked session has seen the *)
(* kick.                                                                   *)
LEMMA OkGate ==
  ASSUME GateInv, Onward, VerifyOk
  PROVE  OneInMap' /\ Replaced' /\ Gated'
<1> PICK x : x = Head(toGame).sid
  OBVIOUS
<1>0. TypeOK /\ Once /\ Exchange /\ HolderInv /\ sessions \subseteq Sids
  BY DEF GateInv, HolderInv, TypeOK
<1>1. /\ pending' = pending \cup {x} /\ toGame # <<>> /\ Head(toGame).kind = "ok"
      /\ replacing' = IF sawKick THEN replacing \cup {x} ELSE replacing \ {x}
      /\ toGame' = Tail(toGame) /\ UNCHANGED mapVars
  BY DEF VerifyOk, Received
<1>2. Holders = {} /\ Accepted(x) /\ x \in Sids
  BY <1>0, OkHolder DEF VerifyOk, Steady
<1>3. pending' = {x} /\ sessions \subseteq kicked
  BY <1>1, <1>2 DEF Holders
<1>4. Replaced'
  <2> SUFFICES ASSUME NEW s \in sessions
               PROVE  x \in replacing' /\ s \in kicked
    BY <1>1, <1>3 DEF Replaced
  <2>1. s \in kicked /\ x # s
    BY <1>0, <1>2, <1>3 DEF Once, Out
  <2>2. sawKick
    BY <1>2, <2>1 DEF GateInv, Gated
  <2> QED
    BY <1>1, <2>1, <2>2
<1>5. \A y : ~ Accepted(y)'
  <2>1. toGame \in Seq(ToGame) /\ OnlyLast(toGame, Results)
    BY <1>0 DEF TypeOK, Exchange
  <2>2. toGame' = <<>>
    BY <1>1, <2>1, OnlyLastTail DEF Results
  <2> QED
    BY <2>2, HasEmpty DEF Accepted
<1>6. Gated'
  <2> SUFFICES ASSUME NEW s \in kicked, NEW y \in Sids \ {s}
               PROVE  Spent(y)'
    BY <1>1, <1>5 DEF Gated
  <2> QED
    BY DEF GateInv, Gated, Onward
<1> QED
  BY <1>1, <1>4, <1>6 DEF GateInv, OneInMap

(* While a session is kicked, no other connection has a token left to be   *)
(* accepted for.                                                           *)
LEMMA ReceiveGate ==
  ASSUME GateInv, Onward, OneToken, LoginServerReceives
  PROVE  OneInMap' /\ Replaced' /\ Gated'
<1>0. TypeOK /\ Exchange /\ Once /\ kicked \subseteq sessions
  BY DEF GateInv, HolderInv, TypeOK
<1>1. UNCHANGED <<pending, replacing, mapVars, sawKick>>
  BY <1>0, Receives
<1>2. Gated'
  <2> SUFFICES ASSUME NEW s \in kicked, NEW x \in Sids \ {s}
               PROVE  Spent(x)' /\ (Accepted(x)' => sawKick)
    BY <1>1 DEF Gated
  <2>1. Spent(x) /\ (Accepted(x) => sawKick)
    BY DEF GateInv, Gated
  <2>2. Accepted(x)' => Accepted(x)
    BY <1>0, <2>1, NewAnswers
  <2> QED
    BY <2>1, <2>2 DEF Onward
<1> QED
  BY <1>1, <1>2 DEF GateInv, OneInMap, Replaced

LEMMA NextGate ==
  GateInv /\ OneToken /\ OneFailure /\ TwoConnections /\ [Next]_vars => GateInv'
<1> SUFFICES ASSUME GateInv, OneToken, OneFailure, TwoConnections, [Next]_vars
             PROVE  GateInv'
  OBVIOUS
<1>1. TypeOK /\ Scanning /\ Exchange /\ Once /\ HolderInv /\ KickInv
  BY DEF GateInv, HolderInv
<1>2. HolderInv' /\ KickInv' /\ Onward
  <2>1. ThreeConnections
    BY DEF TwoConnections, ThreeConnections
  <2> QED
    BY <1>1, <2>1, NextHolder, NextKick, NextOnce
<1>3. OneInMap' /\ Replaced' /\ Gated'
  BY <1>1, <1>2, Classes, DropsGate, AdmitsGate, LeaveGate, BetweenGate, KickGate, OkGate,
     ReceiveGate DEF Admits, Between
<1> QED
  BY <1>2, <1>3 DEF GateInv

LEMMA GateAlways ==
  ASSUME OneToken, OneFailure, TwoConnections
  PROVE  Spec => []GateInv
<1>1. Init => GateInv
  BY InitTypeOK, InitScanning, InitExchange, InitLink, InitOnce, InitHolder, InitKick, InitGate
  DEF GateInv, HolderInv, KickInv
<1>2. GateInv /\ [Next]_vars => GateInv'
  BY NextGate
<1> QED
  BY <1>1, <1>2, PTL DEF Spec

(* The account has one session in m_sessionMap at a time: a login that     *)
(* finds a session kicked waits until OnSessionGone has taken it out, for  *)
(* two connections with one token each and one failure of the link that is *)
(* noticed before the grace of the login server runs out.                  *)
THEOREM AccountHasOneSession ==
  ASSUME OneToken, OneFailure, TwoConnections
  PROVE  Spec => []OneSession
<1>1. GateInv => OneSession
  <2> SUFFICES ASSUME GateInv
               PROVE  Cardinality(sessions) <= 1
    BY DEF OneSession
  <2>1. CASE sessions = {}
    BY <2>1, FS_EmptySet
  <2>2. CASE sessions # {}
    <3>1. PICK s : sessions = {s}
      BY <2>2 DEF GateInv, OneInMap
    <3>2. Cardinality(sessions) = 1
      BY <3>1, FS_Singleton
    <3> QED
      BY <3>2
  <2> QED
    BY <2>1, <2>2
<1> QED
  BY <1>1, GateAlways, PTL

-----------------------------------------------------------------------------
(* Loads and saves in the queue of the DB thread, and loaded characters in *)
(* the mailbox of the channel.                                             *)

(* q holds at most one k of s.                                             *)
Single(q, k, s) ==
  \A i, j \in DOMAIN q :
    (q[i].kind = k /\ q[i].sid = s /\ q[j].kind = k /\ q[j].sid = s) => i = j

NoSaves(q)   == \A i \in DOMAIN q : q[i].kind # "save"
Below(P, q)  == \A i \in DOMAIN q : q[i].kind = "save" => P \subseteq q[i].play
Above(q, P)  == \A i \in DOMAIN q : q[i].kind = "save" => q[i].play \subseteq P
Rising(q)    == \A i, j \in DOMAIN q :
                  (q[i].kind = "save" /\ q[j].kind = "save" /\ i < j)
                    => q[i].play \subseteq q[j].play
LoadLast(q, s) == \A i, j \in DOMAIN q :
                    (q[i].kind = "load" /\ q[i].sid = s /\ q[j].kind = "save") => j < i
Loads(q, s, P) == \A i \in DOMAIN q : (q[i].kind = "loaded" /\ q[i].sid = s) => q[i].play = P

LEMMA AppendAt ==
  ASSUME NEW S, NEW q \in Seq(S), NEW e \in S
  PROVE  /\ DOMAIN q = 1 .. Len(q) /\ Len(q) \in Nat
         /\ DOMAIN Append(q, e) = 1 .. (Len(q) + 1)
         /\ \A i \in 1 .. Len(q) : Append(q, e)[i] = q[i]
         /\ Append(q, e)[Len(q) + 1] = e
<1>1. /\ Append(q, e) \in Seq(S) /\ Len(Append(q, e)) = Len(q) + 1
      /\ \A i \in 1 .. Len(q) : Append(q, e)[i] = q[i]
      /\ Append(q, e)[Len(q) + 1] = e
  BY AppendProperties
<1> QED
  BY <1>1, LenProperties

LEMMA TailAt ==
  ASSUME NEW S, NEW q \in Seq(S), q # <<>>
  PROVE  /\ DOMAIN q = 1 .. Len(q) /\ Len(q) \in Nat /\ Len(q) # 0
         /\ DOMAIN Tail(q) = 1 .. (Len(q) - 1)
         /\ \A i \in 1 .. (Len(q) - 1) : Tail(q)[i] = q[i + 1]
         /\ Head(q) = q[1]
<1>1. /\ Tail(q) \in Seq(S) /\ Head(q) = q[1] /\ Len(Tail(q)) = Len(q) - 1
      /\ \A i \in 1 .. (Len(q) - 1) : Tail(q)[i] = q[i + 1]
  BY HeadTailProperties
<1> QED
  BY <1>1, LenProperties, EmptySeq

LEMMA SingleAppend ==
  ASSUME NEW S, NEW q \in Seq(S), NEW e \in S, NEW k, NEW s, Single(q, k, s),
         e.kind = k /\ e.sid = s => ~ Has(q, k, s)
  PROVE  Single(Append(q, e), k, s)
<1> SUFFICES ASSUME NEW i \in DOMAIN Append(q, e), NEW j \in DOMAIN Append(q, e),
                    Append(q, e)[i].kind = k, Append(q, e)[i].sid = s,
                    Append(q, e)[j].kind = k, Append(q, e)[j].sid = s
             PROVE  i = j
  BY DEF Single
<1>1. CASE e.kind = k /\ e.sid = s
  <2>1. \A x \in 1 .. Len(q) : ~ (q[x].kind = k /\ q[x].sid = s)
    BY <1>1, AppendAt DEF Has
  <2>2. i \notin 1 .. Len(q) /\ j \notin 1 .. Len(q)
    BY <2>1, AppendAt
  <2> QED
    BY <2>2, AppendAt
<1>2. CASE ~ (e.kind = k /\ e.sid = s)
  <2>1. i \in 1 .. Len(q) /\ j \in 1 .. Len(q)
    BY <1>2, AppendAt
  <2> QED
    BY <2>1, AppendAt DEF Single
<1> QED
  BY <1>1, <1>2

LEMMA SingleTail ==
  ASSUME NEW S, NEW q \in Seq(S), q # <<>>, NEW k, NEW s, Single(q, k, s)
  PROVE  /\ Single(Tail(q), k, s)
         /\ Head(q).kind = k /\ Head(q).sid = s => ~ Has(Tail(q), k, s)
<1>1. \A i \in DOMAIN Tail(q) : /\ i + 1 \in DOMAIN q /\ Tail(q)[i] = q[i + 1]
                               /\ i \in Nat /\ i # 0
  BY TailAt
<1>2. Single(Tail(q), k, s)
  <2> SUFFICES ASSUME NEW i \in DOMAIN Tail(q), NEW j \in DOMAIN Tail(q),
                      Tail(q)[i].kind = k, Tail(q)[i].sid = s,
                      Tail(q)[j].kind = k, Tail(q)[j].sid = s
               PROVE  i = j
    BY DEF Single
  <2>1. i + 1 = j + 1
    BY <1>1 DEF Single
  <2> QED
    BY <1>1, <2>1
<1>3. ASSUME Head(q).kind = k, Head(q).sid = s, Has(Tail(q), k, s)
      PROVE  FALSE
  <2>1. PICK i \in DOMAIN Tail(q) : Tail(q)[i].kind = k /\ Tail(q)[i].sid = s
    BY <1>3 DEF Has
  <2>2. 1 \in DOMAIN q /\ q[1] = Head(q)
    BY TailAt
  <2>3. i + 1 = 1
    BY <1>1, <1>3, <2>1, <2>2 DEF Single
  <2> QED
    BY <1>1, <2>1, <2>3
<1> QED
  BY <1>2, <1>3

(* What a queue keeps when a command or an event is appended ...           *)
LEMMA ChainAppend ==
  ASSUME NEW S, NEW q \in Seq(S), NEW e \in S
  PROVE  /\ NoSaves(q) /\ e.kind # "save" => NoSaves(Append(q, e))
         /\ \A P : Below(P, q) /\ (e.kind = "save" => P \subseteq e.play)
                     => Below(P, Append(q, e))
         /\ \A P : Above(q, P) /\ (e.kind = "save" => e.play \subseteq P)
                     => Above(Append(q, e), P)
         /\ Rising(q) /\ (e.kind = "save" => Above(q, e.play)) => Rising(Append(q, e))
         /\ \A s : LoadLast(q, s) /\ e.kind # "save" => LoadLast(Append(q, e), s)
         /\ \A s : ~ Has(q, "load", s) /\ e.kind # "load" => LoadLast(Append(q, e), s)
         /\ \A s, P : Loads(q, s, P) /\ (e.kind = "loaded" /\ e.sid = s => e.play = P)
                        => Loads(Append(q, e), s, P)
<1>1. NoSaves(q) /\ e.kind # "save" => NoSaves(Append(q, e))
  BY AppendAt DEF NoSaves
<1>2. ASSUME NEW P, Below(P, q), e.kind = "save" => P \subseteq e.play
      PROVE  Below(P, Append(q, e))
  BY <1>2, AppendAt DEF Below
<1>3. ASSUME NEW P, Above(q, P), e.kind = "save" => e.play \subseteq P
      PROVE  Above(Append(q, e), P)
  BY <1>3, AppendAt DEF Above
<1>4. ASSUME Rising(q), e.kind = "save" => Above(q, e.play)
      PROVE  Rising(Append(q, e))
  <2> SUFFICES ASSUME NEW i \in 1 .. (Len(q) + 1), NEW j \in 1 .. (Len(q) + 1), i < j,
                      Append(q, e)[i].kind = "save", Append(q, e)[j].kind = "save"
               PROVE  Append(q, e)[i].play \subseteq Append(q, e)[j].play
    BY AppendAt DEF Rising
  <2>1. i \in 1 .. Len(q)
    BY AppendAt
  <2>2. CASE j \in 1 .. Len(q)
    BY <1>4, <2>1, <2>2, AppendAt DEF Rising
  <2>3. CASE j = Len(q) + 1
    BY <1>4, <2>1, <2>3, AppendAt DEF Above
  <2> QED
    BY <2>2, <2>3, AppendAt
<1>5. ASSUME NEW s, LoadLast(q, s), e.kind # "save"
      PROVE  LoadLast(Append(q, e), s)
  <2> SUFFICES ASSUME NEW i \in 1 .. (Len(q) + 1), NEW j \in 1 .. (Len(q) + 1),
                      Append(q, e)[i].kind = "load", Append(q, e)[i].sid = s,
                      Append(q, e)[j].kind = "save"
               PROVE  j < i
    BY AppendAt DEF LoadLast
  <2>1. j \in 1 .. Len(q)
    BY <1>5, AppendAt
  <2>2. CASE i \in 1 .. Len(q)
    BY <1>5, <2>1, <2>2, AppendAt DEF LoadLast
  <2>3. CASE i = Len(q) + 1
    BY <2>1, <2>3, AppendAt
  <2> QED
    BY <2>2, <2>3, AppendAt
<1>6. ASSUME NEW s, ~ Has(q, "load", s), e.kind # "load"
      PROVE  LoadLast(Append(q, e), s)
  BY <1>6, AppendAt DEF LoadLast, Has
<1>7. ASSUME NEW s, NEW P, Loads(q, s, P), e.kind = "loaded" /\ e.sid = s => e.play = P
      PROVE  Loads(Append(q, e), s, P)
  BY <1>7, AppendAt DEF Loads
<1> QED
  BY <1>1, <1>2, <1>3, <1>4, <1>5, <1>6, <1>7

(* ... and when its head is taken.                                         *)
LEMMA ChainTail ==
  ASSUME NEW S, NEW q \in Seq(S), q # <<>>
  PROVE  /\ NoSaves(q) => NoSaves(Tail(q)) /\ Head(q).kind # "save"
         /\ \A P : Below(P, q) =>
              Below(P, Tail(q)) /\ (Head(q).kind = "save" => P \subseteq Head(q).play)
         /\ \A P : Above(q, P) =>
              Above(Tail(q), P) /\ (Head(q).kind = "save" => Head(q).play \subseteq P)
         /\ Rising(q) =>
              Rising(Tail(q)) /\ (Head(q).kind = "save" => Below(Head(q).play, Tail(q)))
         /\ \A s : LoadLast(q, s) =>
              LoadLast(Tail(q), s) /\ (Head(q).kind = "load" /\ Head(q).sid = s => NoSaves(q))
         /\ \A s, P : Loads(q, s, P) =>
              Loads(Tail(q), s, P)
                /\ (Head(q).kind = "loaded" /\ Head(q).sid = s => Head(q).play = P)
<1>1. \A i \in DOMAIN Tail(q) : /\ i + 1 \in DOMAIN q /\ Tail(q)[i] = q[i + 1]
                               /\ i \in Nat /\ i # 0
  BY TailAt
<1>2. /\ 1 \in DOMAIN q /\ q[1] = Head(q)
      /\ \A i \in DOMAIN q : i \in Nat /\ ~ (i < 1)
  BY TailAt
<1>3. NoSaves(q) => NoSaves(Tail(q)) /\ Head(q).kind # "save"
  BY <1>1, <1>2 DEF NoSaves
<1>4. \A P : Below(P, q) =>
        Below(P, Tail(q)) /\ (Head(q).kind = "save" => P \subseteq Head(q).play)
  BY <1>1, <1>2 DEF Below
<1>5. \A P : Above(q, P) =>
        Above(Tail(q), P) /\ (Head(q).kind = "save" => Head(q).play \subseteq P)
  BY <1>1, <1>2 DEF Above
<1>6. ASSUME Rising(q)
      PROVE  Rising(Tail(q)) /\ (Head(q).kind = "save" => Below(Head(q).play, Tail(q)))
  <2>1. \A i, j \in DOMAIN Tail(q) : i < j => i + 1 < j + 1
    BY <1>1
  <2>2. \A i \in DOMAIN Tail(q) : 1 < i + 1
    BY <1>1
  <2>3. Rising(Tail(q))
    BY <1>1, <1>6, <2>1 DEF Rising
  <2>4. ASSUME Head(q).kind = "save"
        PROVE  Below(Head(q).play, Tail(q))
    BY <1>1, <1>2, <1>6, <2>2, <2>4 DEF Rising, Below
  <2> QED
    BY <2>3, <2>4
<1>7. ASSUME NEW s, LoadLast(q, s)
      PROVE  LoadLast(Tail(q), s) /\ (Head(q).kind = "load" /\ Head(q).sid = s => NoSaves(q))
  <2>1. \A i, j \in DOMAIN Tail(q) : j + 1 < i + 1 => j < i
    BY <1>1
  <2>2. LoadLast(Tail(q), s)
    BY <1>1, <1>7, <2>1 DEF LoadLast
  <2>3. ASSUME Head(q).kind = "load", Head(q).sid = s
        PROVE  NoSaves(q)
    BY <1>2, <1>7, <2>3 DEF LoadLast, NoSaves
  <2> QED
    BY <2>2, <2>3
<1>8. ASSUME NEW s, NEW P, Loads(q, s, P)
      PROVE  /\ Loads(Tail(q), s, P)
             /\ Head(q).kind = "loaded" /\ Head(q).sid = s => Head(q).play = P
  BY <1>1, <1>2, <1>8 DEF Loads
<1> QED
  BY <1>3, <1>4, <1>5, <1>6, <1>7, <1>8

-----------------------------------------------------------------------------
(* What a step does to the play of the account: nothing, or it admits a    *)
(* session and queues its load, or it is one of five that move the play.   *)
Idle ==
  /\ UNCHANGED <<dbQueue, players, progress, stored, sessions>>
  /\ \/ UNCHANGED channelEvents
     \/ \E e \in ChanEvent : e.kind # "loaded" /\ channelEvents' = Append(channelEvents, e)
     \/ channelEvents # <<>> /\ channelEvents' = Tail(channelEvents)

Boards(s) ==
  /\ s \in pending /\ s \notin sessions /\ sessions' = sessions \cup {s}
  /\ dbQueue' = Append(dbQueue, Event("load", s, {}))
  /\ UNCHANGED <<channelEvents, players, progress, stored>>

LEMMA DecisionPlay ==
  ASSUME NEW s \in pending, NEW rest, NEW joinable, AdmitOrRefuse(s, rest, joinable),
         UNCHANGED <<channelEvents, players, progress, stored>>
  PROVE  Idle \/ Boards(s)
BY DEF AdmitOrRefuse, Admit, RefuseDead, RefuseFull, Idle, Boards

LEMMA SelectPlay ==
  ASSUME TypeOK, Scanning, (\E s \in scan : RetryDeferredSelect(s)) \/ ProcessCharacterSelect
  PROVE  Idle \/ \E s \in Sids : Boards(s)
<1>1. UNCHANGED <<channelEvents, players, progress, stored>> /\ pending \subseteq Sids
  BY DEF RetryDeferredSelect, ProcessCharacterSelect, TypeOK
<1>2. ASSUME NEW s \in scan, RetryDeferredSelect(s)
      PROVE  Idle \/ \E x \in Sids : Boards(x)
  <2>1. s \in pending
    BY DEF Scanning
  <2>2. CASE UNCHANGED <<net, requests, pendVars, mapVars, dbQueue>>
    BY <1>1, <2>2 DEF Idle
  <2>3. CASE \E joinable \in BOOLEAN : AdmitOrRefuse(s, requests, joinable)
    BY <1>1, <2>1, <2>3, DecisionPlay
  <2> QED
    BY <1>2, <2>2, <2>3 DEF RetryDeferredSelect
<1>3. CASE ProcessCharacterSelect
  <2> PICK s : s = Head(requests).sid
    OBVIOUS
  <2>1. SelectIgnored(s) \/ SelectDeferred(s) \/ SelectDecided(s)
    BY <1>3 DEF ProcessCharacterSelect
  <2>2. CASE SelectIgnored(s) \/ SelectDeferred(s)
    BY <1>1, <2>2 DEF SelectIgnored, SelectDeferred, Idle
  <2>3. CASE SelectDecided(s)
    <3>1. s \in pending
      BY <2>3 DEF SelectDecided
    <3>2. CASE RefuseFull(s, Tail(requests))
      BY <1>1, <3>2 DEF RefuseFull, Idle
    <3>3. CASE \E joinable \in BOOLEAN : AdmitOrRefuse(s, Tail(requests), joinable)
      BY <1>1, <3>1, <3>3, DecisionPlay
    <3> QED
      BY <2>3, <3>2, <3>3 DEF SelectDecided
  <2> QED
    BY <2>1, <2>2, <2>3
<1> QED
  BY <1>2, <1>3

LEMMA PlayClass ==
  ASSUME TypeOK, Scanning, [Next]_vars
  PROVE  \/ Idle \/ LoadCharacter \/ SaveFull
         \/ \E s \in Sids : \/ Boards(s) \/ Autosave(s) \/ OnClientLeave(s)
                            \/ CharacterLoaded(s) /\ s \in sessions
<1>1. ASSUME NEW s \in Sids, Connect(s) \/ HandlePreAuthPacket(s) \/ Hangup(s) \/ Release(s)
      PROVE  Idle
  BY <1>1 DEF Connect, HandlePreAuthPacket, Hangup, Release, Idle
<1>2. ASSUME NEW s \in Sids, EnqueueDisconnect(s)
      PROVE  Idle
  <2>1. Event("leave", s, {}) \in ChanEvent /\ Event("leave", s, {}).kind = "leave"
    BY EventTypes
  <2> QED
    BY <1>2, <2>1 DEF EnqueueDisconnect, Idle
<1>3. ASSUME NEW s \in Sids,
             \/ CharacterNotLoaded(s) \/ OnChannelEnter(s)
             \/ CharacterLoaded(s) /\ s \notin sessions
      PROVE  Idle
  BY <1>3 DEF CharacterNotLoaded, OnChannelEnter, CharacterLoaded, NextEvent, Idle
<1>4. CASE SweepOnline \/ LoginServerReceives \/ BreakLink \/ Reconnect
           \/ MaybeSendOnlineSnapshot \/ (\E S \in SUBSET pending : ReapPendingSelect(S))
  BY <1>4
  DEF SweepOnline, LoginServerReceives, BreakLink, Reconnect, MaybeSendOnlineSnapshot,
      ReapPendingSelect, Idle
<1>5. CASE \/ PopNothing \/ SendVerify \/ SendVerifyFails \/ SendSessionGone
           \/ OtherRequestFails \/ ProcessChannelSelect \/ ProcessPendingGone
  BY <1>5
  DEF PopNothing, SendVerify, SendVerifyFails, SendSessionGone, OtherRequestFails,
      ProcessChannelSelect, ProcessPendingGone, Idle
<1>6. CASE RecvFrame
  BY <1>6
  DEF RecvFrame, RecvKick, KickByAccount, VerifyOk, VerifyNotFound, RecvFails, Idle
<1>7. CASE UNCHANGED vars
  BY <1>7 DEF vars, Idle
<1> QED
  BY <1>1, <1>2, <1>3, <1>4, <1>5, <1>6, <1>7, SelectPlay
  DEF Next, Clients, Autosaves, Servers, Teardown, LinkThread, ChannelThread, DbThread, Pop

-----------------------------------------------------------------------------
(* The character of a session is loaded once, and it plays only then.      *)
Loading(s) == Has(dbQueue, "load", s) \/ Has(channelEvents, "loaded", s)

LoadOnce ==
  \A s \in Sids :
    /\ Loading(s) => Past(s) /\ s \notin players
    /\ Single(dbQueue, "load", s) /\ Single(channelEvents, "loaded", s)
    /\ Has(dbQueue, "load", s) => ~ Has(channelEvents, "loaded", s)

LEMMA InitLoadOnce == Init => LoadOnce
BY HasEmpty DEF Init, LoadOnce, Loading, Single

(* No load is queued, and none delivered.                                  *)
LEMMA LoadFrame ==
  ASSUME LoadOnce, NEW s \in Sids, Past(s) => Past(s)', s \in players' => s \in players,
         Has(dbQueue, "load", s)' => Has(dbQueue, "load", s),
         Has(channelEvents, "loaded", s)' => Has(channelEvents, "loaded", s),
         Single(dbQueue, "load", s)', Single(channelEvents, "loaded", s)'
  PROVE  /\ Loading(s)' => Past(s)' /\ s \notin players'
         /\ Has(dbQueue, "load", s)' => ~ Has(channelEvents, "loaded", s)'
BY DEF LoadOnce, Loading

LEMMA NextLoadOnce ==
  ASSUME TypeOK, Scanning, Exchange, Once, OneToken, LoadOnce, [Next]_vars
  PROVE  LoadOnce'
<1> DEFINE Good(s) == /\ Loading(s)' => Past(s)' /\ s \notin players'
                      /\ Single(dbQueue, "load", s)' /\ Single(channelEvents, "loaded", s)'
                      /\ Has(dbQueue, "load", s)' => ~ Has(channelEvents, "loaded", s)'
<1> SUFFICES ASSUME NEW s \in Sids
             PROVE  Good(s)
  BY DEF LoadOnce
<1>0. /\ dbQueue \in Seq(DbCommand) /\ channelEvents \in Seq(ChanEvent)
      /\ players \subseteq sessions
  BY DEF TypeOK
<1>1. /\ Past(s) => Past(s)'
      /\ Loading(s) => Past(s) /\ s \notin players
      /\ Single(dbQueue, "load", s) /\ Single(channelEvents, "loaded", s)
      /\ Has(dbQueue, "load", s) => ~ Has(channelEvents, "loaded", s)
  BY NextPast DEF LoadOnce
<1>2. ASSUME NEW e \in ChanEvent, e.kind # "loaded"
      PROVE  /\ Single(Append(channelEvents, e), "loaded", s)
             /\ Has(Append(channelEvents, e), "loaded", s) => Has(channelEvents, "loaded", s)
  BY <1>0, <1>1, <1>2, SingleAppend, HasAppend
<1>3. channelEvents # <<>> =>
        /\ Single(Tail(channelEvents), "loaded", s)
        /\ Has(Tail(channelEvents), "loaded", s) => Has(channelEvents, "loaded", s)
  BY <1>0, <1>1, SingleTail, HasTail
<1>4. dbQueue # <<>> =>
        /\ Single(Tail(dbQueue), "load", s)
        /\ Has(Tail(dbQueue), "load", s) => Has(dbQueue, "load", s)
  BY <1>0, <1>1, SingleTail, HasTail
<1>5. ASSUME NEW e \in DbCommand, e.kind # "load"
      PROVE  /\ Single(Append(dbQueue, e), "load", s)
             /\ Has(Append(dbQueue, e), "load", s) => Has(dbQueue, "load", s)
  BY <1>0, <1>1, <1>5, SingleAppend, HasAppend
<1>6. CASE Idle
  BY <1>1, <1>2, <1>3, <1>6, LoadFrame DEF Idle
<1>7. CASE SaveFull
  BY <1>1, <1>4, <1>7, LoadFrame DEF SaveFull
<1>8. ASSUME NEW x \in Sids, Autosave(x) \/ OnClientLeave(x)
      PROVE  Good(s)
  <2>1. Event("save", x, progress[x]) \in DbCommand /\ Event("save", x, progress[x]).kind = "save"
    BY EventTypes DEF TypeOK
  <2>2. UNCHANGED dbQueue \/ dbQueue' = Append(dbQueue, Event("save", x, progress[x]))
    BY <1>8 DEF Autosave, OnClientLeave, SavePlayer
  <2>3. /\ Single(dbQueue, "load", s)'
        /\ Has(dbQueue, "load", s)' => Has(dbQueue, "load", s)
    BY <1>1, <1>5, <2>1, <2>2
  <2>4. /\ players' \subseteq players
        /\ \/ UNCHANGED channelEvents
           \/ channelEvents # <<>> /\ channelEvents' = Tail(channelEvents)
    BY <1>8 DEF Autosave, OnClientLeave, NextEvent
  <2> QED
    BY <1>1, <1>3, <2>3, <2>4, LoadFrame
<1>9. ASSUME NEW x \in Sids, Boards(x)
      PROVE  Good(s)
  <2>1. /\ x \in pending /\ x \notin players /\ UNCHANGED <<channelEvents, players>>
        /\ dbQueue' = Append(dbQueue, Event("load", x, {})) /\ x \in sessions'
    BY <1>0, <1>9 DEF Boards
  <2>2. Event("load", x, {}) \in DbCommand /\ Event("load", x, {}).kind = "load"
        /\ Event("load", x, {}).sid = x
    BY EventTypes
  <2>3. ~ Loading(x)
    BY <2>1 DEF LoadOnce, Past
  <2>4. Past(x)'
    <3>1. TypeOK' /\ Once'
      BY NextTypeOK, NextOnce
    <3> QED
      BY <2>1, <3>1 DEF TypeOK, Once, Past, Out
  <2>5. Single(dbQueue, "load", s)'
    <3>1. Event("load", x, {}).sid = s => ~ Has(dbQueue, "load", s)
      BY <2>2, <2>3 DEF Loading
    <3>2. Single(Append(dbQueue, Event("load", x, {})), "load", s)
      BY <1>0, <1>1, <2>2, <3>1, SingleAppend
    <3> QED
      BY <2>1, <3>2
  <2>6. Has(dbQueue, "load", s)' => Has(dbQueue, "load", s) \/ s = x
    <3>1. Has(Append(dbQueue, Event("load", x, {})), "load", s) => Has(dbQueue, "load", s) \/ s = x
      BY <1>0, <2>2, HasAppend
    <3> QED
      BY <2>1, <3>1
  <2>7. Single(channelEvents, "loaded", s)' /\ (Has(channelEvents, "loaded", s)' <=> Has(channelEvents, "loaded", s))
    BY <1>1, <2>1
  <2>8. CASE s = x
    BY <2>1, <2>3, <2>4, <2>5, <2>7, <2>8 DEF Loading
  <2>9. CASE s # x
    BY <1>1, <2>1, <2>5, <2>6, <2>7, <2>9, LoadFrame
  <2> QED
    BY <2>8, <2>9
<1>10. ASSUME NEW x \in Sids, CharacterLoaded(x), x \in sessions
       PROVE  Good(s)
  <2>1. /\ channelEvents # <<>> /\ Head(channelEvents).kind = "loaded"
        /\ Head(channelEvents).sid = x /\ players' = players \cup {x} /\ UNCHANGED dbQueue
        /\ channelEvents' = Append(Tail(channelEvents), Event("enter", x, {}))
    BY <1>10 DEF CharacterLoaded, NextEvent
  <2>2. Event("enter", x, {}) \in ChanEvent /\ Event("enter", x, {}).kind = "enter"
        /\ Tail(channelEvents) \in Seq(ChanEvent)
    BY <2>1, EventTypes, QueueTypes
  <2>3. /\ Single(channelEvents, "loaded", s)'
        /\ Has(channelEvents, "loaded", s)' => Has(Tail(channelEvents), "loaded", s)
    BY <1>3, <2>1, <2>2, SingleAppend, HasAppend
  <2>4. CASE s = x
    <3>1. ~ Has(Tail(channelEvents), "loaded", s)
      BY <1>0, <1>1, <2>1, <2>4, SingleTail
    <3>2. Has(channelEvents, "loaded", s)
      BY <1>0, <2>1, <2>4, HasTail
    <3>3. ~ Loading(s)'
      BY <1>1, <2>1, <2>3, <3>1, <3>2 DEF Loading
    <3> QED
      BY <1>1, <2>1, <2>3, <3>1, <3>3
  <2>5. CASE s # x
    BY <1>1, <1>3, <2>1, <2>3, <2>5, LoadFrame
  <2> QED
    BY <2>4, <2>5
<1>11. CASE LoadCharacter
  <2> PICK x : x = Head(dbQueue).sid
    OBVIOUS
  <2>1. /\ dbQueue # <<>> /\ Head(dbQueue).kind = "load" /\ dbQueue' = Tail(dbQueue)
        /\ UNCHANGED <<players, stored>> /\ stored \in SUBSET Sids
    BY <1>11 DEF LoadCharacter, TypeOK
  <2>2. x \in Sids
    BY <2>1, QueueTypes, EventTypes
  <2>3. PICK e \in ChanEvent : e.sid = x /\ channelEvents' = Append(channelEvents, e)
    <3>1. \A k \in {"loaded", "failed"} :
            LET e == Event(k, x, IF k = "loaded" THEN stored ELSE {})
            IN  e \in ChanEvent /\ e.sid = x
      BY <2>1, <2>2, EventTypes
    <3> QED
      BY <1>11, <3>1 DEF LoadCharacter
  <2>4. CASE s = x
    <3>1. Has(dbQueue, "load", s) /\ ~ Has(Tail(dbQueue), "load", s)
      BY <1>0, <1>1, <2>1, <2>4, HasTail, SingleTail
    <3>2. Single(Append(channelEvents, e), "loaded", s)
      BY <1>0, <1>1, <3>1, SingleAppend
    <3> QED
      BY <1>1, <1>4, <2>1, <2>3, <3>1, <3>2 DEF Loading
  <2>5. CASE s # x
    <3>1. /\ Single(Append(channelEvents, e), "loaded", s)
          /\ Has(Append(channelEvents, e), "loaded", s) => Has(channelEvents, "loaded", s)
      BY <1>0, <1>1, <2>3, <2>5, SingleAppend, HasAppend
    <3> QED
      BY <1>1, <1>4, <2>1, <2>3, <3>1, LoadFrame
  <2> QED
    BY <2>4, <2>5
<1> QED
  BY <1>6, <1>7, <1>8, <1>9, <1>10, <1>11, PlayClass

-----------------------------------------------------------------------------
(* What was played moves on in order: from the row to the saves that wait, *)
(* from each save to the next, and to the Player.  A session whose load is *)
(* under way starts from all of it.                                        *)
FromHere(s) ==
  /\ LoadLast(dbQueue, s) /\ Loads(channelEvents, s, stored)
  /\ Has(channelEvents, "loaded", s) => NoSaves(dbQueue)

Chain ==
  /\ Below(stored, dbQueue) /\ Rising(dbQueue)
  /\ \A s \in players : stored \subseteq progress[s] /\ Above(dbQueue, progress[s])
  /\ \A s \in sessions : FromHere(s)

ChainInv == GateInv /\ LoadOnce /\ Chain

LEMMA InitChain == Init => Chain
BY DEF Init, Chain, Below, Rising

LEMMA IdleChain ==
  ASSUME TypeOK, Chain, Idle
  PROVE  Chain'
<1>1. UNCHANGED <<dbQueue, players, progress, stored, sessions>>
  BY DEF Idle
<1>2. ASSUME NEW s \in sessions
      PROVE  FromHere(s)'
  <2>1. FromHere(s) /\ channelEvents \in Seq(ChanEvent)
    BY DEF Chain, TypeOK
  <2>2. CASE UNCHANGED channelEvents
    BY <1>1, <2>1, <2>2 DEF FromHere
  <2>3. ASSUME NEW e \in ChanEvent, e.kind # "loaded", channelEvents' = Append(channelEvents, e)
        PROVE  FromHere(s)'
    BY <1>1, <2>1, <2>3, ChainAppend, HasAppend DEF FromHere
  <2>4. CASE channelEvents # <<>> /\ channelEvents' = Tail(channelEvents)
    BY <1>1, <2>1, <2>4, ChainTail, HasTail DEF FromHere
  <2> QED
    BY <2>2, <2>3, <2>4 DEF Idle
<1> QED
  BY <1>1, <1>2 DEF Chain

(* A session is admitted when no other is left whose saves could follow.   *)
LEMMA BoardsChain ==
  ASSUME TypeOK, Chain, LoadOnce, OneInMap', NEW s \in Sids, Boards(s)
  PROVE  Chain'
<1>1. /\ sessions' = sessions \cup {s} /\ s \notin sessions /\ s \in pending
      /\ UNCHANGED <<channelEvents, players, progress, stored>>
      /\ dbQueue' = Append(dbQueue, Event("load", s, {}))
      /\ dbQueue \in Seq(DbCommand) /\ players \subseteq sessions
  BY DEF Boards, TypeOK
<1>2. sessions = {} /\ players = {}
  BY <1>1 DEF OneInMap
<1>3. ~ Has(dbQueue, "load", s) /\ ~ Has(channelEvents, "loaded", s)
  BY <1>1 DEF LoadOnce, Loading, Past
<1>4. Event("load", s, {}) \in DbCommand /\ Event("load", s, {}).kind = "load"
  BY EventTypes
<1>5. Below(stored, dbQueue)' /\ Rising(dbQueue)'
  BY <1>1, <1>4, ChainAppend DEF Chain
<1>6. FromHere(s)'
  <2>1. LoadLast(dbQueue, s)
    BY <1>3 DEF LoadLast, Has
  <2>2. LoadLast(dbQueue, s)'
    BY <1>1, <1>4, <2>1, ChainAppend
  <2>3. Loads(channelEvents, s, stored)
    BY <1>3 DEF Loads, Has
  <2> QED
    BY <1>1, <1>3, <2>2, <2>3 DEF FromHere
<1> QED
  BY <1>1, <1>2, <1>5, <1>6 DEF Chain

(* A save holds all that was saved before it: there is one Player, and its *)
(* load is over.                                                           *)
LEMMA SaveChain ==
  ASSUME TypeOK, Chain, NEW s \in players
  PROVE  LET q == Append(dbQueue, Event("save", s, progress[s]))
         IN  /\ Below(stored, q) /\ Rising(q) /\ Above(q, progress[s])
             /\ ~ Has(dbQueue, "load", s) => LoadLast(q, s)
<1>1. s \in Sids /\ dbQueue \in Seq(DbCommand) /\ progress[s] \in SUBSET Sids
  BY DEF TypeOK
<1>2. PICK e \in DbCommand : /\ e = Event("save", s, progress[s])
                             /\ e.kind = "save" /\ e.play = progress[s]
  BY <1>1, EventTypes
<1>3. /\ Below(stored, dbQueue) /\ Rising(dbQueue)
      /\ stored \subseteq progress[s] /\ Above(dbQueue, progress[s])
  BY DEF Chain
<1>4. /\ Below(stored, Append(dbQueue, e)) /\ Rising(Append(dbQueue, e))
      /\ Above(Append(dbQueue, e), progress[s])
      /\ ~ Has(dbQueue, "load", s) => LoadLast(Append(dbQueue, e), s)
  BY <1>1, <1>2, <1>3, ChainAppend
<1> QED
  BY <1>2, <1>4

LEMMA AutosaveChain ==
  ASSUME TypeOK, Chain, LoadOnce, OneInMap, NEW s \in Sids, Autosave(s)
  PROVE  Chain'
<1>1. /\ s \in players /\ players \subseteq sessions
      /\ dbQueue' = Append(dbQueue, Event("save", s, progress[s]))
      /\ UNCHANGED <<channelEvents, players, progress, stored, sessions>>
  BY DEF Autosave, TypeOK
<1>2. \A x \in sessions : x = s
  BY <1>1 DEF OneInMap
<1>3. ~ Has(dbQueue, "load", s) /\ ~ Has(channelEvents, "loaded", s)
  BY <1>1 DEF LoadOnce, Loading
<1>4. /\ Below(stored, dbQueue)' /\ Rising(dbQueue)' /\ Above(dbQueue, progress[s])'
      /\ LoadLast(dbQueue, s)'
  BY <1>1, <1>3, SaveChain
<1>5. stored \subseteq progress[s] /\ Loads(channelEvents, s, stored)
  BY <1>1 DEF Chain, FromHere
<1>6. FromHere(s)'
  BY <1>1, <1>3, <1>4, <1>5 DEF FromHere
<1> QED
  BY <1>1, <1>2, <1>4, <1>5, <1>6 DEF Chain

LEMMA LeaveChain ==
  ASSUME TypeOK, Chain, OneInMap, NEW s \in Sids, OnClientLeave(s)
  PROVE  Chain'
<1>1. /\ channelEvents # <<>> /\ channelEvents' = Tail(channelEvents)
      /\ players' = players \ {s} /\ progress' = [progress EXCEPT ![s] = {}]
      /\ sessions' = sessions \ {s} /\ UNCHANGED stored
      /\ dbQueue' = IF s \in players THEN Append(dbQueue, Event("save", s, progress[s]))
                    ELSE dbQueue
  BY DEF OnClientLeave, NextEvent, SavePlayer
<1>2. /\ players \subseteq sessions /\ channelEvents \in Seq(ChanEvent)
      /\ players \subseteq Sids /\ progress \in [Sids -> SUBSET Sids]
  BY DEF TypeOK
<1>3. CASE s \in players
  <2>1. sessions' = {} /\ players' = {}
    BY <1>1, <1>2, <1>3 DEF OneInMap
  <2>2. Below(stored, dbQueue)' /\ Rising(dbQueue)'
    BY <1>1, <1>3, SaveChain
  <2> QED
    BY <2>1, <2>2 DEF Chain
<1>4. CASE s \notin players
  <2>1. UNCHANGED dbQueue /\ \A x \in players' : x \in players /\ progress'[x] = progress[x]
    BY <1>1, <1>2, <1>4
  <2>2. ASSUME NEW x \in sessions'
        PROVE  FromHere(x)'
    <3>1. FromHere(x)
      BY <1>1, <2>2 DEF Chain
    <3> QED
      BY <1>1, <1>2, <2>1, <3>1, ChainTail, HasTail DEF FromHere
  <2>3. \A x \in players' : (stored \subseteq progress[x])' /\ Above(dbQueue, progress[x])'
    BY <1>1, <2>1 DEF Chain
  <2> QED
    BY <1>1, <2>1, <2>2, <2>3 DEF Chain
<1> QED
  BY <1>3, <1>4

(* A Player starts from what is stored, and no save waits.                 *)
LEMMA PlayerChain ==
  ASSUME TypeOK, Chain, OneInMap, NEW s \in sessions, CharacterLoaded(s)
  PROVE  Chain'
<1>1. /\ channelEvents # <<>> /\ Head(channelEvents).kind = "loaded"
      /\ Head(channelEvents).sid = s
      /\ channelEvents' = Append(Tail(channelEvents), Event("enter", s, {}))
      /\ players' = players \cup {s}
      /\ progress' = [progress EXCEPT ![s] = Head(channelEvents).play \cup {s}]
      /\ UNCHANGED <<dbQueue, stored, sessions>>
  BY DEF CharacterLoaded, NextEvent
<1>2. /\ players \subseteq sessions /\ channelEvents \in Seq(ChanEvent)
      /\ s \in Sids /\ progress \in [Sids -> SUBSET Sids]
  BY DEF TypeOK
<1>3. \A x \in sessions : x = s
  BY DEF OneInMap
<1>4. FromHere(s)
  BY DEF Chain
<1>5. Head(channelEvents).play = stored /\ NoSaves(dbQueue)
  BY <1>1, <1>2, <1>4, ChainTail, HasTail DEF FromHere
<1>6. progress'[s] = stored \cup {s} /\ Above(dbQueue, progress'[s])
  BY <1>1, <1>2, <1>5 DEF Above, NoSaves
<1>7. FromHere(s)'
  <2>1. /\ Tail(channelEvents) \in Seq(ChanEvent) /\ Event("enter", s, {}) \in ChanEvent
        /\ Event("enter", s, {}).kind = "enter"
    BY <1>1, <1>2, EventTypes, QueueTypes
  <2>2. Loads(Tail(channelEvents), s, stored)
    BY <1>1, <1>2, <1>4, ChainTail DEF FromHere
  <2>3. Loads(channelEvents', s, stored)
    BY <1>1, <2>1, <2>2, ChainAppend
  <2> QED
    BY <1>1, <1>4, <1>5, <2>3 DEF FromHere
<1> QED
  BY <1>1, <1>2, <1>3, <1>6, <1>7 DEF Chain

LEMMA LoadChain ==
  ASSUME TypeOK, Chain, LoadCharacter
  PROVE  Chain'
<1> PICK t : t = Head(dbQueue).sid
  OBVIOUS
<1>1. /\ dbQueue # <<>> /\ Head(dbQueue).kind = "load" /\ dbQueue' = Tail(dbQueue)
      /\ UNCHANGED <<players, progress, stored, sessions>>
  BY DEF LoadCharacter
<1>2. /\ dbQueue \in Seq(DbCommand) /\ channelEvents \in Seq(ChanEvent)
      /\ stored \in SUBSET Sids /\ t \in Sids
  BY <1>1, QueueTypes, EventTypes DEF TypeOK
<1>3. PICK e \in ChanEvent : /\ e.sid = t /\ (e.kind = "loaded" => e.play = stored)
                             /\ channelEvents' = Append(channelEvents, e)
  <2>1. \A k \in {"loaded", "failed"} :
          LET e == Event(k, t, IF k = "loaded" THEN stored ELSE {})
          IN  e \in ChanEvent /\ e.sid = t /\ (e.kind = "loaded" => e.play = stored)
    BY <1>2, EventTypes
  <2> QED
    BY <2>1 DEF LoadCharacter
<1>4. ASSUME NEW s \in sessions
      PROVE  FromHere(s)'
  <2>1. FromHere(s)
    BY DEF Chain
  <2>2. LoadLast(dbQueue', s) /\ Loads(channelEvents', s, stored)
    BY <1>1, <1>2, <1>3, <2>1, ChainAppend, ChainTail DEF FromHere
  <2>3. Has(channelEvents', "loaded", s) => NoSaves(dbQueue)
    <3>1. Has(channelEvents', "loaded", s) => Has(channelEvents, "loaded", s) \/ s = t
      BY <1>2, <1>3, HasAppend
    <3>2. s = t => NoSaves(dbQueue)
      BY <1>1, <1>2, <2>1, ChainTail DEF FromHere
    <3> QED
      BY <2>1, <3>1, <3>2 DEF FromHere
  <2>4. NoSaves(dbQueue) => NoSaves(dbQueue')
    BY <1>1, <1>2, ChainTail
  <2> QED
    BY <1>1, <2>2, <2>3, <2>4 DEF FromHere
<1>5. Below(stored, dbQueue') /\ Rising(dbQueue')
  BY <1>1, <1>2, ChainTail DEF Chain
<1>6. \A s \in players : stored \subseteq progress[s] /\ Above(dbQueue', progress[s])
  BY <1>1, <1>2, ChainTail DEF Chain
<1> QED
  BY <1>1, <1>4, <1>5, <1>6 DEF Chain

(* Whether or not the save succeeds.                                       *)
LEMMA StoreChain ==
  ASSUME TypeOK, Chain, SaveFull
  PROVE  Chain' /\ stored \subseteq stored'
<1>1. /\ dbQueue # <<>> /\ Head(dbQueue).kind = "save" /\ dbQueue' = Tail(dbQueue)
      /\ stored' = stored \/ stored' = Head(dbQueue).play
      /\ UNCHANGED <<channelEvents, players, progress, sessions>>
      /\ dbQueue \in Seq(DbCommand)
  BY DEF SaveFull, TypeOK
<1>2. stored \subseteq Head(dbQueue).play /\ Below(stored', dbQueue') /\ Rising(dbQueue')
  BY <1>1, ChainTail DEF Chain
<1>3. \A s \in players : stored' \subseteq progress[s] /\ Above(dbQueue', progress[s])
  BY <1>1, ChainTail DEF Chain
<1>4. ASSUME NEW s \in sessions
      PROVE  FromHere(s)'
  <2>1. FromHere(s)
    BY DEF Chain
  <2>2. ~ Has(channelEvents, "loaded", s)
    BY <1>1, <2>1, ChainTail DEF FromHere
  <2>3. LoadLast(dbQueue', s)
    BY <1>1, <2>1, ChainTail DEF FromHere
  <2> QED
    BY <1>1, <2>2, <2>3 DEF FromHere, Loads, Has
<1> QED
  BY <1>1, <1>2, <1>3, <1>4 DEF Chain

LEMMA NextChain ==
  ChainInv /\ OneToken /\ OneFailure /\ TwoConnections /\ [Next]_vars
    => ChainInv' /\ stored \subseteq stored'
<1> SUFFICES ASSUME ChainInv, OneToken, OneFailure, TwoConnections, [Next]_vars
             PROVE  ChainInv' /\ stored \subseteq stored'
  OBVIOUS
<1>1. /\ TypeOK /\ Scanning /\ Exchange /\ Once /\ OneInMap /\ LoadOnce /\ Chain /\ GateInv
  BY DEF ChainInv, GateInv, HolderInv
<1>2. GateInv' /\ OneInMap' /\ LoadOnce'
  BY <1>1, NextGate, NextLoadOnce DEF GateInv
<1>3. CASE Idle
  BY <1>1, <1>2, <1>3, IdleChain DEF Idle, ChainInv
<1>4. ASSUME NEW s \in Sids, \/ Boards(s) \/ Autosave(s) \/ OnClientLeave(s)
                             \/ CharacterLoaded(s) /\ s \in sessions
      PROVE  Chain' /\ stored' = stored
  <2>1. stored' = stored
    BY <1>4 DEF Boards, Autosave, OnClientLeave, CharacterLoaded
  <2> QED
    BY <1>1, <1>2, <1>4, <2>1, BoardsChain, AutosaveChain, LeaveChain, PlayerChain
<1>5. CASE LoadCharacter
  BY <1>1, <1>2, <1>5, LoadChain DEF LoadCharacter, ChainInv
<1>6. CASE SaveFull
  BY <1>1, <1>2, <1>6, StoreChain DEF ChainInv
<1> QED
  BY <1>1, <1>2, <1>3, <1>4, <1>5, <1>6, PlayClass DEF ChainInv

(* What a session played and a save stored stays in the character's row:   *)
(* no save of an older state follows it, whether the older session is      *)
(* kicked, hangs up or saves as it plays, and whichever saves fail; for    *)
(* two connections with one token each and one failure of the link that is *)
(* noticed in time.                                                        *)
THEOREM StoredPlayIsKept ==
  ASSUME OneToken, OneFailure, TwoConnections
  PROVE  Spec => ProgressNeverLost
<1>1. Init => ChainInv
  BY InitTypeOK, InitScanning, InitExchange, InitLink, InitOnce, InitHolder, InitGate,
     InitKick, InitLoadOnce, InitChain DEF ChainInv, GateInv, HolderInv, KickInv
<1>2. ChainInv /\ [Next]_vars => ChainInv' /\ [stored \subseteq stored']_vars
  BY NextChain
<1> QED
  BY <1>1, <1>2, PTL DEF Spec, ProgressNeverLost
=============================================================================
