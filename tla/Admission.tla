------------------------------ MODULE Admission ------------------------------
(***************************************************************************)
(* The way of one account into the game: LoginLinkThread.cpp (the thread   *)
(* that verifies tokens and admits), ChannelManager.cpp (session map,      *)
(* account index, kick), the leave, enter and load jobs of the channel,    *)
(* the queue of the DB thread, and the online table of the login server    *)
(* (InterServerDispatcher.cpp, TokenStore.cpp).                            *)
(*                                                                         *)
(* Several connections of ONE account compete: its player may log in from  *)
(* several machines, and the newest login throws the older one out.  Other *)
(* accounts share no state with it but the capacity of queues and          *)
(* channels; whether these are full is therefore left open at each test.   *)
(* Time is abstract too: a deadline may have passed whenever it is tested. *)
(*                                                                         *)
(* Steps run on: the client and the completion workers (Connect, Packet,   *)
(* Hangup, Notify, Free), the link thread (its loop goes through the       *)
(* labels of "at"), the channel thread (one event of its mailbox a step),  *)
(* the DB thread (one command a step), the login server (one frame a       *)
(* step, and its sweep).                                                   *)
(*                                                                         *)
(* Definitions named Bad... are not part of the model: each is a form that *)
(* the definition after it would take with a plausible bug, kept to show   *)
(* that the property named in PROJECT.json notices it.                     *)
(***************************************************************************)
EXTENDS Naturals, Sequences, FiniteSets

CONSTANTS
  Sids,               \* connections to the game server, one handle each
  NoSid,              \* no connection
  MaxTokens,          \* BOUND: tokens a client fetched before it connects
  Scripts,            \* BOUND: handshake packets a connection may send, in order
  Timings             \* BOUND: the timings one behaviour may show, see Timing

(* What the threads may do to each other is chosen once per behaviour, so    *)
(* that one run covers several combinations and a property can say which     *)
(* ones it needs:                                                            *)
(*   splitTeardown   other threads run between EnqueueDisconnect and Release *)
(*   lateFrames      the login server handles frames of a dead link after    *)
(*                   those of its successor                                  *)
(*   sweepUnnoticed  the grace of the login server runs out while the game   *)
(*                   server has not noticed that the link is dead            *)
(*   breaks          how often the inter-server link may fail                *)
Timing == [splitTeardown : BOOLEAN, lateFrames : BOOLEAN,
           sweepUnnoticed : BOOLEAN, breaks : Nat]

Handshake == {"verify", "channelSelect", "characterSelect"}

ASSUME AdmissionAssumption ==
  /\ IsFiniteSet(Sids) /\ NoSid \notin Sids
  /\ MaxTokens \in Nat \ {0} /\ Timings \subseteq Timing
  /\ Scripts \subseteq Seq(Handshake)

VARIABLES
  net,           \* [Sids -> phase of the connection in the session pool]
  script,        \* [Sids -> handshake packets the client will still send]
  requests,      \* m_requests of the link thread
  at,            \* where the link thread's loop is
  cur, sawKick,  \* the connection it verifies, sawKick of ProcessVerify
  scan,          \* pendings RetryDeferredSelects has still to visit
  syncDue,       \* ONLINE_SYNC_INTERVAL_MS has surely passed since m_lastSyncMs
  connected,     \* m_client.IsConnected()
  linkAlive,     \* the TCP connection really works
  timing,        \* the timing of this behaviour
  breaks,        \* failures of the link so far
  toLogin,       \* frames on their way to the login server
  oldLink,       \* frames of earlier connections it has not handled yet
  toGame,        \* frames on their way to the link thread
  pending,       \* keys of m_pendingSelect
  replacing,     \* those with isReplacingKick
  chosen,        \* those with a selectedChannelId
  awaiting,      \* those with awaitingSave
  sessions,      \* keys of m_sessionMap
  kicked,        \* those with accountId 0 and kickSaveAccountId set
  accountToSid,  \* m_accountToSid of the account
  pendingSave,   \* the account is in m_pendingSaveAccounts
  players,       \* sessions with a Player attached
  inWorld,       \* those whose Player is in a map
  progress,      \* [Sids -> sessions whose play the Player's state includes]
  channelEvents, \* m_sessionEventMailbox of the channel
  dbQueue,       \* m_requestQueue of the DB thread
  stored,        \* sessions whose play the character's row includes
  tokens,        \* [Sids -> Nat] unused tokens for this connection
  online         \* m_online of the account

netVars  == <<net, script>>
loopVars == <<at, cur, sawKick, scan, syncDue>>
linkVars == <<connected, linkAlive, timing, breaks, toLogin, oldLink, toGame>>
pendVars == <<pending, replacing, chosen, awaiting>>
mapVars  == <<sessions, kicked, accountToSid, pendingSave>>
chanVars == <<players, inWorld, progress, channelEvents>>
dbVars   == <<dbQueue, stored>>
loginVars == <<tokens, online>>
vars == <<netVars, requests, loopVars, linkVars, pendVars, mapVars, chanVars,
          dbVars, loginVars>>

Msg(kind, s)         == [kind |-> kind, sid |-> s]
Event(kind, s, play) == [kind |-> kind, sid |-> s, play |-> play]

Request   == [kind : Handshake \cup {"leave", "pendingGone"}, sid : Sids]
ToLogin   == [kind : {"verify", "leave", "sync"}, sid : Sids]
ToGame    == [kind : {"kick", "ok", "notFound"}, sid : Sids]
ChanEvent == [kind : {"leave", "loaded", "failed", "enter"},
              sid : Sids, play : SUBSET Sids]
DbCommand == [kind : {"load", "save"}, sid : Sids, play : SUBSET Sids]

Init ==
  /\ net = [s \in Sids |-> "new"] /\ script = [s \in Sids |-> <<>>]
  /\ requests = <<>>
  /\ at = "top" /\ cur = NoSid /\ sawKick = FALSE /\ scan = {} /\ syncDue = TRUE
  /\ timing \in Timings
  /\ connected = TRUE /\ linkAlive = TRUE /\ breaks = 0
  /\ toLogin = <<>> /\ oldLink = <<>> /\ toGame = <<>>
  /\ pending = {} /\ replacing = {} /\ chosen = {} /\ awaiting = {}
  /\ sessions = {} /\ kicked = {} /\ accountToSid = NoSid /\ pendingSave = FALSE
  /\ players = {} /\ inWorld = {} /\ progress = [s \in Sids |-> {}]
  /\ channelEvents = <<>> /\ dbQueue = <<>> /\ stored = {}
  /\ tokens = [s \in Sids |-> 0] /\ online = NoSid

-----------------------------------------------------------------------------
(* The connection, as the session pool presents it (module SessionPool):   *)
(* "open", "closing" once the socket is closed, "notified" after           *)
(* EnqueueDisconnect, "gone" after Release.                                *)

(* SessionPool::DisconnectTo of every handle in S; a stale one is a no-op. *)
Disconnect(S) ==
  net' = [s \in Sids |-> IF s \in S /\ net[s] = "open" THEN "closing" ELSE net[s]]

(* SessionPool::IsSessionAlive, true until Release advances the generation.*)
BadIsAlive(s) == TRUE
IsAlive(s) == net[s] \in {"open", "closing", "notified"}

(* The client fetches tokens from the login server and connects.           *)
Connect(s) ==
  /\ net[s] = "new"
  /\ net' = [net EXCEPT ![s] = "open"]
  /\ \E n \in 1 .. MaxTokens : tokens' = [tokens EXCEPT ![s] = n]
  /\ \E q \in Scripts : script' = [script EXCEPT ![s] = q]
  /\ UNCHANGED <<requests, loopVars, linkVars, pendVars, mapVars,
                 chanVars, dbVars, online>>

(* ChannelManager::EnqueuePacket and HandlePreAuthPacket: the next         *)
(* handshake packet of a connection without a session becomes a request.   *)
(* (A packet dropped at the attempt limit of the connection or, by         *)
(* TryPushRequest, at a full queue changes nothing; the client may stop    *)
(* anywhere in its script.)                                                *)
HandlePreAuthPacket(s) ==
  /\ net[s] = "open" /\ s \notin sessions
  /\ script[s] # <<>>
  /\ script' = [script EXCEPT ![s] = Tail(@)]
  /\ requests' = Append(requests, Msg(Head(script[s]), s))
  /\ UNCHANGED <<net, loopVars, linkVars, pendVars, mapVars, chanVars, dbVars,
                 loginVars>>

(* The socket is closed: by the peer, by the sweep of silent sockets, or   *)
(* by Channel::KickIdleSessions.                                           *)
Hangup(s) ==
  /\ net[s] = "open"
  /\ Disconnect({s})
  /\ UNCHANGED <<script, requests, loopVars, linkVars, pendVars, mapVars,
                 chanVars, dbVars, loginVars>>

(* ChannelManager::EnqueueDisconnect, called by the worker that returned   *)
(* the last reference: a leave job for a session, else a note to the link  *)
(* thread, which passes no cap.  Release follows, in the same step unless  *)
(* timing.splitTeardown holds.                                                    *)
EnqueueDisconnect(s) ==
  /\ net[s] = "closing"
  /\ net' = [net EXCEPT ![s] = IF timing.splitTeardown THEN "notified" ELSE "gone"]
  /\ IF s \in sessions
     THEN /\ channelEvents' = Append(channelEvents, Event("leave", s, {}))
          /\ UNCHANGED requests
     ELSE /\ requests' = Append(requests, Msg("pendingGone", s))
          /\ UNCHANGED channelEvents
  /\ UNCHANGED <<script, loopVars, linkVars, pendVars, mapVars, players,
                 inWorld, progress, dbVars, loginVars>>

(* SessionPool::Release.                                                   *)
Release(s) ==
  /\ net[s] = "notified"
  /\ net' = [net EXCEPT ![s] = "gone"]
  /\ UNCHANGED <<script, requests, loopVars, linkVars, pendVars, mapVars,
                 chanVars, dbVars, loginVars>>

-----------------------------------------------------------------------------
(* The link thread: one turn of ThreadLoop goes through "top", "retry" and *)
(* "pop", and through "verify" when the request popped is a verification.  *)

(* Orders in which an unordered map may be walked.                         *)
Walks(S) == {q \in [1 .. Cardinality(S) -> S] : {q[i] : i \in DOMAIN q} = S}

LeaveNotices(q) == [i \in DOMAIN q |-> Msg("leave", q[i])]

Erase(S) ==
  /\ pending'   = pending \ S
  /\ replacing' = replacing \ S
  /\ chosen'    = chosen \ S
  /\ awaiting'  = awaiting \ S

(* ConnectAndRegister succeeded; while it fails the loop changes nothing.  *)
Reconnect ==
  /\ at = "top" /\ ~connected
  /\ connected' = TRUE /\ linkAlive' = TRUE
  /\ UNCHANGED <<netVars, requests, loopVars, timing, breaks, toLogin, oldLink, toGame,
                 pendVars, mapVars, chanVars, dbVars, loginVars>>

(* ReapPendingSelect: the pendings in S have been idle for ten minutes.    *)
ReapPendingSelect(S) ==
  /\ at = "top" /\ connected
  /\ Erase(S) /\ Disconnect(S)
  /\ \E q \in Walks(S) : requests' = requests \o LeaveNotices(q)
  /\ at' = "retry" /\ scan' = awaiting \ S
  /\ UNCHANGED <<script, cur, sawKick, syncDue, linkVars, mapVars, chanVars,
                 dbVars, loginVars>>

(* ChannelManager::IsSaveReady.                                            *)
BadIsSaveReady == TRUE
IsSaveReady == ~pendingSave

(* ChannelManager::OnLoginSuccess found the connection alive before and    *)
(* after the insertion; the load of the character is queued.               *)
Admit(s, rest) ==
  /\ IsAlive(s) /\ s \notin sessions
  /\ sessions' = sessions \cup {s}
  /\ accountToSid' = s
  /\ dbQueue' = Append(dbQueue, Event("load", s, {}))
  /\ requests' = rest
  /\ UNCHANGED <<net, kicked, pendingSave>>

(* OnLoginSuccess returned nullptr.  A connection that died between its    *)
(* two tests is rolled back, and that erases the entry of the index.       *)
RefuseDead(s, rest) ==
  /\ ~(IsAlive(s) /\ s \notin sessions)
  /\ \E rollback \in {b \in BOOLEAN : b => s \notin sessions} :
       accountToSid' = IF rollback THEN NoSid ELSE accountToSid
  /\ requests' = Append(rest, Msg("leave", s))
  /\ UNCHANGED <<net, sessions, kicked, pendingSave, dbQueue>>

(* The server or the channel is full, or no valid channel was chosen:      *)
(* online entry freed, SC_LOGIN_RESULT SERVER_FULL, connection closed.     *)
RefuseFull(s, rest) ==
  /\ requests' = Append(rest, Msg("leave", s))
  /\ Disconnect({s})
  /\ UNCHANGED <<mapVars, dbQueue>>

(* The pending s is decided, with the requests in rest still to be served: *)
(* IsChannelJoinable (joinable is what its population test says), then     *)
(* OnLoginSuccess.                                                         *)
AdmitOrRefuse(s, rest, joinable) ==
  \/ s \in chosen /\ joinable /\ (Admit(s, rest) \/ RefuseDead(s, rest))
  \/ ~(s \in chosen /\ joinable) /\ RefuseFull(s, rest)

(* RetryDeferredSelects visits one pending that awaits a save.             *)
RetryDeferredSelect(s) ==
  /\ at = "retry" /\ s \in scan
  /\ scan' = scan \ {s}
  /\ \/ ~IsSaveReady /\ UNCHANGED <<net, requests, pendVars, mapVars, dbQueue>>
     \/ /\ IsSaveReady /\ Erase({s})
        /\ \E joinable \in BOOLEAN : AdmitOrRefuse(s, requests, joinable)
  /\ UNCHANGED <<script, at, cur, sawKick, syncDue, linkVars, chanVars,
                 stored, loginVars>>

(* MaybeSendOnlineSnapshot.  The interval may have passed even when        *)
(* syncDue does not hold.  A snapshot that names the account refreshes its *)
(* entry; of several entries the last one wins, and the index comes after  *)
(* the pendings.  Results of the send are ignored and m_lastSyncMs is set  *)
(* before it, so a snapshot on a dead link is lost.                        *)
SnapshotSid == IF accountToSid # NoSid THEN {accountToSid} ELSE pending

SendOnlineSnapshot ==
  /\ syncDue' = FALSE
  /\ IF linkAlive /\ SnapshotSid # {}
     THEN \E s \in SnapshotSid : toLogin' = Append(toLogin, Msg("sync", s))
     ELSE UNCHANGED toLogin

(* BOUND: an optional snapshot is sent only when none is under way.        *)
MaybeSendOnlineSnapshot ==
  /\ at = "retry" /\ scan = {}
  /\ \/ /\ syncDue \/ \A i \in DOMAIN toLogin : toLogin[i].kind # "sync"
        /\ SendOnlineSnapshot
     \/ ~syncDue /\ UNCHANGED <<syncDue, toLogin>>
  /\ at' = "pop"
  /\ UNCHANGED <<netVars, requests, cur, sawKick, scan, connected, linkAlive,
                 timing, breaks, oldLink, toGame, pendVars, mapVars, chanVars, dbVars,
                 loginVars>>

(* PopRequest found the queue empty.                                       *)
PopNothing ==
  /\ at = "pop" /\ requests = <<>>
  /\ at' = "top"
  /\ UNCHANGED <<netVars, requests, cur, sawKick, scan, syncDue, linkVars,
                 pendVars, mapVars, chanVars, dbVars, loginVars>>

Popped(kind) == at = "pop" /\ requests # <<>> /\ Head(requests).kind = kind

(* m_client.Close: frames already sent still reach the login server, on a  *)
(* connection of their own; what was not read is gone.                     *)
BadClose ==
  /\ connected' = FALSE /\ linkAlive' = FALSE
  /\ oldLink' = oldLink \o toLogin
  /\ toLogin' = <<>> /\ UNCHANGED toGame
Close ==
  /\ connected' = FALSE /\ linkAlive' = FALSE
  /\ oldLink' = oldLink \o toLogin
  /\ toLogin' = <<>> /\ toGame' = <<>>

(* RejectOrphanConnection.                                                 *)
RejectOrphan(s) ==
  IF s \in sessions \/ s \in pending THEN UNCHANGED net ELSE Disconnect({s})

(* ProcessVerify up to SendVerify.  A send on a dead link may still seem   *)
(* to succeed.                                                             *)
SendVerify ==
  /\ Popped("verify")
  /\ requests' = Tail(requests)
  /\ cur' = Head(requests).sid /\ sawKick' = FALSE /\ at' = "verify"
  /\ toLogin' = IF linkAlive THEN Append(toLogin, Head(requests)) ELSE toLogin
  /\ UNCHANGED <<netVars, scan, syncDue, connected, linkAlive, timing, breaks, oldLink,
                 toGame, pendVars, mapVars, chanVars, dbVars, loginVars>>

SendVerifyFails ==
  /\ Popped("verify") /\ ~linkAlive
  /\ requests' = Tail(requests)
  /\ RejectOrphan(Head(requests).sid)
  /\ Close /\ at' = "top"
  /\ UNCHANGED <<script, cur, sawKick, scan, syncDue, timing, breaks, pendVars,
                 mapVars, chanVars, dbVars, loginVars>>

(* SendSessionGone: nobody answers, and a notice that is lost is not sent  *)
(* again.                                                                  *)
SendSessionGone ==
  /\ Popped("leave")
  /\ requests' = Tail(requests)
  /\ at' = "top"
  /\ \/ linkAlive /\ toLogin' = Append(toLogin, Head(requests))
                  /\ UNCHANGED <<connected, linkAlive, oldLink, toGame>>
     \/ ~linkAlive /\ UNCHANGED <<connected, linkAlive, toLogin, oldLink, toGame>>
     \/ ~linkAlive /\ Close
  /\ UNCHANGED <<netVars, cur, sawKick, scan, syncDue, timing, breaks, pendVars,
                 mapVars, chanVars, dbVars, loginVars>>

(* The request popped is one of another account, and sending it shows that *)
(* the link is dead.                                                       *)
OtherRequestFails ==
  /\ at = "pop" /\ ~linkAlive
  /\ Close /\ at' = "top"
  /\ UNCHANGED <<netVars, requests, cur, sawKick, scan, syncDue, timing, breaks,
                 pendVars, mapVars, chanVars, dbVars, loginVars>>

(* ProcessChannelSelect keeps the channel; the list of characters it asks  *)
(* the DB thread for changes nothing here.                                 *)
BadKeepChannel(s) == chosen' = chosen \cup {s}
KeepChannel(s) == chosen' = chosen \cup ({s} \cap pending)

ProcessChannelSelect ==
  /\ Popped("channelSelect")
  /\ requests' = Tail(requests)
  /\ at' = "top"
  /\ KeepChannel(Head(requests).sid)
  /\ UNCHANGED <<netVars, cur, sawKick, scan, syncDue, linkVars, pending,
                 replacing, awaiting, mapVars, chanVars, dbVars, loginVars>>

(* ProcessPendingGone.                                                     *)
BadEndPending(s, rest) ==
  /\ UNCHANGED pendVars
  /\ requests' = IF s \in pending THEN Append(rest, Msg("leave", s)) ELSE rest
EndPending(s, rest) ==
  /\ Erase({s})
  /\ requests' = IF s \in pending THEN Append(rest, Msg("leave", s)) ELSE rest

ProcessPendingGone ==
  /\ Popped("pendingGone")
  /\ EndPending(Head(requests).sid, Tail(requests))
  /\ at' = "top"
  /\ UNCHANGED <<netVars, cur, sawKick, scan, syncDue, linkVars, mapVars,
                 chanVars, dbVars, loginVars>>

-----------------------------------------------------------------------------
(* ProcessCharacterSelect: the three ways a request can go.                *)

SelectIgnored(s) ==
  /\ s \notin pending
  /\ requests' = Tail(requests)
  /\ UNCHANGED <<net, pendVars, mapVars, dbQueue>>

(* A replacement waits for the last save of the session it replaces.       *)
BadMustWait(s) == s \in replacing /\ s \in sessions
MustWait(s) == s \in replacing /\ ~IsSaveReady

SelectDeferred(s) ==
  /\ s \in pending /\ MustWait(s)
  /\ awaiting' = awaiting \cup {s}
  /\ requests' = Tail(requests)
  /\ UNCHANGED <<net, pending, replacing, chosen, mapVars, dbQueue>>

(* A replacement skips the CCU test.                                       *)
SelectDecided(s) ==
  /\ s \in pending /\ ~MustWait(s)
  /\ Erase({s})
  /\ \E ccuFull, joinable \in BOOLEAN :
       \/ /\ ~(s \notin replacing /\ ccuFull)
          /\ AdmitOrRefuse(s, Tail(requests), joinable)
       \/ /\ s \notin replacing /\ ccuFull
          /\ RefuseFull(s, Tail(requests))

ProcessCharacterSelect ==
  /\ Popped("characterSelect")
  /\ LET s == Head(requests).sid IN
       SelectIgnored(s) \/ SelectDeferred(s) \/ SelectDecided(s)
  /\ at' = "top"
  /\ UNCHANGED <<script, cur, sawKick, scan, syncDue, linkVars, chanVars,
                 stored, loginVars>>

-----------------------------------------------------------------------------
(* ProcessVerify from SendVerify on: frames are read until the result.     *)

Received(kind) == at = "verify" /\ toGame # <<>> /\ Head(toGame).kind = kind

(* KickByAccount closes the session of the account and has its successor   *)
(* wait for the last save, then KickPending throws the pendings out.       *)
BadMarkKicked == pendingSave' = (pendingSave \/ accountToSid # NoSid) /\ UNCHANGED kicked
MarkKicked ==
  IF accountToSid \in sessions
  THEN kicked' = kicked \cup {accountToSid} /\ pendingSave' = TRUE
  ELSE UNCHANGED <<kicked, pendingSave>>

KickByAccount ==
  /\ MarkKicked
  /\ accountToSid' = NoSid
  /\ Disconnect(pending \cup {accountToSid})
  /\ Erase(pending)
  /\ \E q \in Walks(pending) : requests' = requests \o LeaveNotices(q)
  /\ UNCHANGED sessions

RecvKick ==
  /\ Received("kick")
  /\ toGame' = Tail(toGame)
  /\ KickByAccount
  /\ sawKick' = (sawKick \/ accountToSid # NoSid)
  /\ UNCHANGED <<script, at, cur, scan, syncDue, connected, linkAlive, timing, breaks,
                 toLogin, oldLink, chanVars, dbVars, loginVars>>

(* DeliverVerifyResult with EVerifyResult::OK: a pending selection without *)
(* a channel.                                                              *)
VerifyOk ==
  /\ Received("ok")
  /\ LET s == Head(toGame).sid IN
       /\ pending'   = pending \cup {s}
       /\ replacing' = IF sawKick THEN replacing \cup {s} ELSE replacing \ {s}
       /\ chosen'    = chosen \ {s}
       /\ awaiting'  = awaiting \ {s}
  /\ toGame' = Tail(toGame) /\ at' = "top"
  /\ UNCHANGED <<netVars, requests, cur, sawKick, scan, syncDue, connected,
                 linkAlive, timing, breaks, toLogin, oldLink, mapVars, chanVars,
                 dbVars, loginVars>>

VerifyNotFound ==
  /\ Received("notFound")
  /\ RejectOrphan(Head(toGame).sid)
  /\ toGame' = Tail(toGame) /\ at' = "top"
  /\ UNCHANGED <<script, requests, cur, sawKick, scan, syncDue, connected,
                 linkAlive, timing, breaks, toLogin, oldLink, pendVars, mapVars,
                 chanVars, dbVars, loginVars>>

(* RecvVerifyOrKick fails: the link is dead, or the answer takes longer    *)
(* than LINK_RECV_TIMEOUT_MS.                                              *)
RecvFails ==
  /\ at = "verify"
  /\ linkAlive => breaks < timing.breaks
  /\ breaks' = IF linkAlive THEN breaks + 1 ELSE breaks
  /\ RejectOrphan(cur)
  /\ Close /\ at' = "top"
  /\ UNCHANGED <<script, requests, cur, sawKick, scan, syncDue, timing, pendVars,
                 mapVars, chanVars, dbVars, loginVars>>

(* The TCP connection dies; some frames on their way may have arrived.     *)
BreakLink ==
  /\ linkAlive /\ breaks < timing.breaks
  /\ breaks' = breaks + 1
  /\ linkAlive' = FALSE
  /\ \E n \in 0 .. Len(toLogin) : oldLink' = oldLink \o SubSeq(toLogin, 1, n)
  /\ \E n \in 0 .. Len(toGame) : toGame' = SubSeq(toGame, 1, n)
  /\ toLogin' = <<>>
  /\ UNCHANGED <<netVars, requests, loopVars, connected, timing, pendVars,
                 mapVars, chanVars, dbVars, loginVars>>

-----------------------------------------------------------------------------
(* The login server.  Answers go to the connection the frame came on;      *)
(* those of an earlier connection are dropped.                             *)

(* HandleTokenVerify: the token is consumed, the account becomes online    *)
(* with this connection, and a kick goes ahead of the result if it was     *)
(* online already (TokenStore::Consume and PutOnline).                     *)
KickIfOnline(s) == IF online = NoSid THEN <<>> ELSE <<Msg("kick", s)>>

HandleTokenVerify(s, answered) ==
  \/ /\ tokens[s] > 0
     /\ tokens' = [tokens EXCEPT ![s] = @ - 1]
     /\ online' = s
     /\ toGame' = IF answered THEN toGame \o KickIfOnline(s) \o <<Msg("ok", s)>>
                  ELSE toGame
  \/ \* no such token, or expired
     /\ UNCHANGED <<tokens, online>>
     /\ toGame' = IF answered THEN Append(toGame, Msg("notFound", s)) ELSE toGame

(* HandlePlayerLeave and TokenStore::RemoveOnline: only the holder leaves. *)
BadRemoveOnline(s) == online' = NoSid
RemoveOnline(s) == online' = IF online = s THEN NoSid ELSE online

HandleFrame(m, answered) ==
  \/ m.kind = "verify" /\ HandleTokenVerify(m.sid, answered)
  \/ m.kind = "leave" /\ RemoveOnline(m.sid) /\ UNCHANGED <<tokens, toGame>>
  \/ m.kind = "sync" /\ online' = m.sid /\ UNCHANGED <<tokens, toGame>>

LoginServerReceives ==
  /\ \/ /\ toLogin # <<>> /\ (timing.lateFrames \/ oldLink = <<>>)
        /\ HandleFrame(Head(toLogin), TRUE)
        /\ toLogin' = Tail(toLogin) /\ UNCHANGED oldLink
     \/ /\ oldLink # <<>> /\ HandleFrame(Head(oldLink), FALSE)
        /\ oldLink' = Tail(oldLink) /\ UNCHANGED toLogin
  /\ UNCHANGED <<netVars, requests, loopVars, connected, linkAlive, timing, breaks,
                 pendVars, mapVars, chanVars, dbVars>>

(* TokenStore::SweepOnline: no snapshot has named the account for          *)
(* ONLINE_GRACE_MS, which is three snapshot intervals.  On a live link a   *)
(* snapshot names every account the game server knows.  A game server that *)
(* knows of the dead link has been without a snapshot for as long; one     *)
(* that does not know goes on sending them, and setting m_lastSyncMs.      *)
BadGraceOver == SnapshotSid # {}
GraceOver == SnapshotSid = {} \/ ~connected \/ (~linkAlive /\ timing.sweepUnnoticed)

SweepOnline ==
  /\ online # NoSid
  /\ at # "verify" /\ toLogin = <<>> /\ oldLink = <<>>
  /\ GraceOver
  /\ online' = NoSid
  /\ syncDue' = (syncDue \/ ~connected)
  /\ UNCHANGED <<netVars, requests, at, cur, sawKick, scan, linkVars, pendVars,
                 mapVars, chanVars, dbVars, tokens>>

-----------------------------------------------------------------------------
(* The channel thread: the head of m_sessionEventMailbox.                  *)

NextEvent(kind, s) ==
  /\ channelEvents # <<>>
  /\ Head(channelEvents).kind = kind /\ Head(channelEvents).sid = s

(* SavePlayerFull in OnClientLeave: what the Player did is queued.         *)
SavePlayer(s) ==
  dbQueue' = IF s \in players THEN Append(dbQueue, Event("save", s, progress[s]))
             ELSE dbQueue

(* The account index in OnSessionGone: only this connection's entry goes.  *)
BadForgetIndex(s) == UNCHANGED accountToSid
ForgetIndex(s) ==
  accountToSid' = IF s \notin kicked /\ accountToSid = s THEN NoSid ELSE accountToSid

(* The save gate in OnSessionGone.                                         *)
BadOpenGate(s) == UNCHANGED pendingSave
OpenGate(s) == pendingSave' = (pendingSave /\ s \notin kicked)

(* Channel::OnClientLeave: the save first, then ChannelManager::           *)
(* OnSessionGone, which opens the save gate if the session was kicked and  *)
(* tells the login server if it was not.                                   *)
OnClientLeave(s) ==
  /\ NextEvent("leave", s)
  /\ channelEvents' = Tail(channelEvents)
  /\ SavePlayer(s)
  /\ players' = players \ {s} /\ inWorld' = inWorld \ {s}
  /\ progress' = [progress EXCEPT ![s] = {}]
  /\ sessions' = sessions \ {s} /\ kicked' = kicked \ {s}
  /\ OpenGate(s)
  /\ ForgetIndex(s)
  /\ requests' = IF s \in sessions \ kicked THEN Append(requests, Msg("leave", s))
                 ELSE requests
  /\ UNCHANGED <<netVars, loopVars, linkVars, pendVars, stored, loginVars>>

(* DbResultJob::Execute with a character: the Player is attached and its   *)
(* entry into the map is queued.  It plays from here on.                   *)
CharacterLoaded(s) ==
  /\ NextEvent("loaded", s)
  /\ IF s \in sessions
     THEN /\ players' = players \cup {s}
          /\ progress' = [progress EXCEPT ![s] = Head(channelEvents).play \cup {s}]
          /\ channelEvents' = Append(Tail(channelEvents), Event("enter", s, {}))
     ELSE channelEvents' = Tail(channelEvents) /\ UNCHANGED <<players, progress>>
  /\ UNCHANGED <<netVars, requests, loopVars, linkVars, pendVars, mapVars,
                 inWorld, dbVars, loginVars>>

(* DbResultJob::FailLogin: the leave job will clean up.                    *)
CharacterNotLoaded(s) ==
  /\ NextEvent("failed", s)
  /\ channelEvents' = Tail(channelEvents)
  /\ IF s \in sessions THEN Disconnect({s}) ELSE UNCHANGED net
  /\ UNCHANGED <<script, requests, loopVars, linkVars, pendVars, mapVars,
                 players, inWorld, progress, dbVars, loginVars>>

(* Channel::OnChannelEnter.                                                *)
OnChannelEnter(s) ==
  /\ NextEvent("enter", s)
  /\ channelEvents' = Tail(channelEvents)
  /\ inWorld' = inWorld \cup ({s} \cap players)
  /\ UNCHANGED <<netVars, requests, loopVars, linkVars, pendVars, mapVars,
                 players, progress, dbVars, loginVars>>

(* The periodic save of UpdateFrame.  BOUND: one save of a session waits.  *)
Autosave(s) ==
  /\ s \in inWorld
  /\ \A i \in DOMAIN dbQueue : ~(dbQueue[i].kind = "save" /\ dbQueue[i].sid = s)
  /\ dbQueue' = Append(dbQueue, Event("save", s, progress[s]))
  /\ UNCHANGED <<netVars, requests, loopVars, linkVars, pendVars, mapVars,
                 chanVars, stored, loginVars>>

-----------------------------------------------------------------------------
(* The DB thread: the head of m_requestQueue.  Any command can fail; that  *)
(* of a save goes unnoticed.                                               *)

LoadCharacter ==
  /\ dbQueue # <<>> /\ Head(dbQueue).kind = "load"
  /\ dbQueue' = Tail(dbQueue)
  /\ \E kind \in {"loaded", "failed"} :
       channelEvents' = Append(channelEvents,
         Event(kind, Head(dbQueue).sid, IF kind = "loaded" THEN stored ELSE {}))
  /\ UNCHANGED <<netVars, requests, loopVars, linkVars, pendVars, mapVars,
                 players, inWorld, progress, stored, loginVars>>

SaveFull ==
  /\ dbQueue # <<>> /\ Head(dbQueue).kind = "save"
  /\ dbQueue' = Tail(dbQueue)
  /\ stored' \in {stored, Head(dbQueue).play}
  /\ UNCHANGED <<netVars, requests, loopVars, linkVars, pendVars, mapVars,
                 chanVars, loginVars>>

-----------------------------------------------------------------------------
RecvFrame == RecvKick \/ VerifyOk \/ VerifyNotFound \/ RecvFails

Pop == \/ PopNothing
       \/ SendVerify \/ SendVerifyFails
       \/ SendSessionGone \/ OtherRequestFails
       \/ ProcessChannelSelect
       \/ ProcessCharacterSelect
       \/ ProcessPendingGone

LinkThread == \/ Reconnect
              \/ \E S \in SUBSET pending : ReapPendingSelect(S)
              \/ \E s \in scan : RetryDeferredSelect(s)
              \/ MaybeSendOnlineSnapshot
              \/ Pop
              \/ RecvFrame

ChannelThread == \E s \in Sids : \/ OnClientLeave(s)
                                 \/ CharacterLoaded(s)
                                 \/ CharacterNotLoaded(s)
                                 \/ OnChannelEnter(s)

DbThread == LoadCharacter \/ SaveFull

Clients == \E s \in Sids : Connect(s) \/ HandlePreAuthPacket(s) \/ Hangup(s)

Autosaves == \E s \in Sids : Autosave(s)

Teardown == \E s \in Sids : EnqueueDisconnect(s) \/ Release(s)

Servers == \/ Teardown
           \/ LinkThread
           \/ ChannelThread
           \/ DbThread
           \/ LoginServerReceives
           \/ SweepOnline

Next == Clients \/ Autosaves \/ BreakLink \/ Servers

Spec == Init /\ [][Next]_vars

(* The threads never stop; each has a step of its own whenever it has      *)
(* work.  The worker that returned the last reference of a connection      *)
(* finishes its teardown, a waiting recv ends with a frame or a failure,   *)
(* the sweep of the login server runs periodically, and the interval of    *)
(* the snapshots elapses again and again.  Clients promise nothing.        *)
Fairness == /\ WF_vars(LinkThread)
            /\ WF_vars(ChannelThread)
            /\ WF_vars(DbThread)
            /\ WF_vars(LoginServerReceives)
            /\ WF_vars(SweepOnline)
            /\ SF_vars(MaybeSendOnlineSnapshot /\ toLogin' # toLogin)
            /\ WF_vars(Teardown)

FairSpec == Spec /\ Fairness

-----------------------------------------------------------------------------
(* Properties.                                                             *)

(* Every variable keeps its type, and the flags of a pending or a session  *)
(* never outlive it.                                                       *)
TypeOK ==
  /\ net \in [Sids -> {"new", "open", "closing", "notified", "gone"}]
  /\ script \in [Sids -> Seq(Handshake)]
  /\ requests \in Seq(Request)
  /\ at \in {"top", "retry", "pop", "verify"}
  /\ cur \in Sids \cup {NoSid} /\ sawKick \in BOOLEAN /\ scan \subseteq Sids
  /\ syncDue \in BOOLEAN /\ connected \in BOOLEAN /\ linkAlive \in BOOLEAN
  /\ timing \in Timings /\ breaks \in 0 .. timing.breaks
  /\ toLogin \in Seq(ToLogin) /\ oldLink \in Seq(ToLogin) /\ toGame \in Seq(ToGame)
  /\ pending \subseteq Sids
  /\ replacing \subseteq pending /\ chosen \subseteq pending /\ awaiting \subseteq pending
  /\ sessions \subseteq Sids /\ kicked \subseteq sessions
  /\ players \subseteq sessions /\ inWorld \subseteq players
  /\ accountToSid \in Sids \cup {NoSid} /\ pendingSave \in BOOLEAN
  /\ progress \in [Sids -> SUBSET Sids]
  /\ channelEvents \in Seq(ChanEvent) /\ dbQueue \in Seq(DbCommand)
  /\ stored \subseteq Sids
  /\ tokens \in [Sids -> 0 .. MaxTokens] /\ online \in Sids \cup {NoSid}

(* What a session played and a save made durable stays in the character's  *)
(* row: no later save writes a state loaded before it (the "lost update"   *)
(* that the pending-save gate and the FIFO of the DB thread shall exclude).*)
ProgressNeverLost == [][stored \subseteq stored']_vars

(* The account has one session at a time in the session map, so that never *)
(* two Players of one character exist: a kicked session must be gone       *)
(* before its successor is admitted.                                       *)
OneSession == Cardinality(sessions) <= 1

(* m_accountToSid names a session that is in the map and was not kicked,   *)
(* and such a session is named: a kick finds whom it shall find.           *)
IndexExact ==
  /\ accountToSid # NoSid => accountToSid \in sessions \ kicked
  /\ sessions \ kicked \subseteq {accountToSid}

(* The save gate is shut exactly while a kicked session has not yet queued *)
(* its last save.                                                          *)
GateMatchesKicked == pendingSave <=> kicked # {}

(* A session whose connection is down has its leave job under way: no      *)
(* session and no Player stays behind without an owner.                    *)
LeaveUnderWay(s) ==
  \E i \in DOMAIN channelEvents : channelEvents[i].kind = "leave" /\ channelEvents[i].sid = s
OrphanFree == \A s \in sessions : net[s] \in {"open", "closing"} \/ LeaveUnderWay(s)

(* So it is unless a thread runs between the notice and the end of the     *)
(* handle of one connection.                                               *)
NoOrphan == ~timing.splitTeardown => OrphanFree

(* Once a snapshot went out on a working link and the login server has     *)
(* read all frames, its online table knows every account with a session:   *)
(* the next login of the account kicks.  (Late frames of a dead link and a *)
(* dead link unnoticed for the length of the grace can break it until the  *)
(* next snapshot.)                                                         *)
HolderKnown ==
  /\ ~timing.lateFrames /\ ~timing.sweepUnnoticed
  /\ accountToSid # NoSid /\ linkAlive /\ ~syncDue /\ toLogin = <<>>
  => online # NoSid

(* A result the link thread reads belongs to the connection it verifies.   *)
ResultMatchesRequest ==
  \A i \in DOMAIN toGame : at = "verify" /\ (toGame[i].kind # "kick" => toGame[i].sid = cur)

(* A replacement that waits for a save is not left waiting.                *)
GateReopens == pendingSave ~> ~pendingSave

(* The online table does not keep an account whose connection is gone.     *)
Ghost == \E s \in Sids : online = s /\ net[s] = "gone"
GhostExpires == Ghost ~> ~Ghost

(* A pending selection does not outlive its connection.                    *)
StalePending == \E s \in pending : net[s] = "gone"
PendingEnds == StalePending ~> ~StalePending
=============================================================================
