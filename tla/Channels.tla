------------------------------ MODULE Channels ------------------------------
(***************************************************************************)
(* Sessions in the channels: how packets and disconnect notices are routed *)
(* to the thread of the channel that owns a session, how a session moves   *)
(* to another channel while it plays, and who may touch its place in the   *)
(* maps and its send batch (ChannelManager.cpp, Channel.cpp, MapManager.cpp,*)
(* CrossChannelChat.cpp, DBResultJob.cpp).                                 *)
(*                                                                         *)
(* Steps run on: the client (Send, Hangup); the completion worker of a     *)
(* session, which first resolves the channel of the session and enqueues   *)
(* later (EnqueuePacket, EnqueueDisconnect, then Deliver); the thread that *)
(* serves whispers (Route, then PostToChannel); one thread per channel,    *)
(* one job a step.  A job runs to its end without other threads: it        *)
(* touches the maps and batches of its own channel, and what it does to    *)
(* the session map (MigrateChannel, OnSessionGone) is one lock section at  *)
(* its end.                                                                *)
(*                                                                         *)
(* Everybody on a map sees everybody there, and nobody dies.  Whether a    *)
(* portal is in reach, a cooldown is over or a channel is full (others     *)
(* play, too) is left open at each test.                                   *)
(*                                                                         *)
(* Definitions named Bad... are not part of the model: each is a form that *)
(* the definition after it would take with a plausible bug.                *)
(***************************************************************************)
EXTENDS Naturals, Sequences, FiniteSets

CONSTANTS
  Sids,          \* authenticated connections
  Channels, Maps,
  None,          \* no channel
  Scripts,       \* BOUND: the packets each client sends while it plays, in order
  MoveCap,       \* jobs the movement mailbox holds
  JobsPerTick    \* MAX_CRITICAL_JOBS_PER_TICK, MAX_MOVE_JOBS_PER_TICK

(* A packet: the argument is the clientSeq of a move, the channel of a     *)
(* change, the addressee of a whisper.                                     *)
Packet(k, a) == [kind |-> k, arg |-> a]
Moves == {"start", "stop"}
Packets ==
  [kind : Moves, arg : Nat] \cup [kind : {"portal", "chat"}, arg : {None}]
    \cup [kind : {"change"}, arg : Channels] \cup [kind : {"whisper"}, arg : Sids]

(* LocalPlayer::NextSeq of the client numbers the moves it sends.  (Only   *)
(* LatestMoveWins depends on clients that do.)                             *)
Numbered(packets) ==
  /\ \A i \in DOMAIN packets : packets[i].kind \in Moves => packets[i].arg > 0
  /\ \A i, j \in DOMAIN packets :
       i < j /\ packets[i].kind \in Moves /\ packets[j].kind \in Moves
         => packets[i].arg < packets[j].arg

ASSUME ChannelsAssumption ==
  /\ IsFiniteSet(Sids) /\ IsFiniteSet(Channels) /\ None \notin Channels
  /\ Scripts \subseteq [Sids -> Seq(Packets)]
  /\ MoveCap \in Nat /\ JobsPerTick \in Nat \ {0}

ASSUME ClientsAssumption == \A q \in Scripts, s \in Sids : Numbered(q[s])

VARIABLES
  net,        \* [Sids -> phase of the connection]
  script,     \* [Sids -> packets the client will still send]
  routing,    \* [Sids -> what the worker of the session is about to enqueue, where]
  home,       \* [Sids -> m_channelId of its GameSession, None: not in m_sessionMap]
  population, \* m_channelPlayerCount
  loads,      \* [Sids -> channel the result of its DB load will go to]
  attached,   \* sessions with a Player
  map,        \* [Sids -> m_mapId of the Player]
  moving,     \* sessions whose Player's moveState is START
  lastSeq,    \* [Sids -> m_lastSeq of the Player]
  phase,      \* [Channels -> part of the tick the channel thread is in]
  done,       \* [Channels -> jobs taken from the present lane in this tick]
  events, critical, moves,  \* the three mailboxes of each channel
  grid,       \* [Channels -> [Sids -> [Maps -> entries of its Player in m_objects]]]
  outbound,   \* [Channels -> receivers in m_outboundPackets of its maps]
  flushList,  \* [Channels -> m_flushList, as a set]
  queued,     \* sessions with m_batchQueued, the batch of which is not empty
  whispers,   \* job queue of the shared services thread
  posting,    \* the job that thread is about to enqueue, or none
  writer,     \* HISTORY [Sids -> channel thread that advanced m_sendKey last,
              \*           None: none since the session belongs to its channel]
  kept,       \* HISTORY [Sids -> last move that a mailbox took]
  changed,    \* HISTORY sessions that left their first channel
  hurried     \* HISTORY sessions whose Player changed maps while in none, or that came
              \*         back to a channel where an enter job of theirs still waited

netVars   == <<net, script, routing>>
ownVars   == <<home, population>>
playVars  == <<attached, map, moving, lastSeq>>
tickVars  == <<phase, done>>
boxVars   == <<events, critical, moves>>
sendVars  == <<outbound, flushList, queued, writer>>
chatVars  == <<whispers, posting>>
histVars  == <<kept, changed, hurried>>
vars == <<netVars, ownVars, loads, playVars, tickVars, boxVars, grid, sendVars,
          chatVars, histVars>>

Job(k, s, a) == [kind |-> k, sid |-> s, arg |-> a]
EventKind == {"loaded", "enter", "changeEnter", "leave"}
Event     == [kind : EventKind, sid : Sids, arg : {None}]
MoveJob   == [kind : {"start"}, sid : Sids, arg : Nat]
CritJob   == [kind : {"stop"}, sid : Sids, arg : Nat]
               \cup [kind : {"portal", "chat", "deliver"}, sid : Sids, arg : {None}]
               \cup [kind : {"change"}, sid : Sids, arg : Channels]
               \cup [kind : {"whisper"}, sid : Sids, arg : Sids]
Nothing == [job |-> None, to |-> None]

Init ==
  /\ net = [s \in Sids |-> "new"] /\ script \in Scripts
  /\ routing = [s \in Sids |-> Nothing]
  /\ home = [s \in Sids |-> None] /\ population = [c \in Channels |-> 0]
  /\ loads = [s \in Sids |-> None] /\ attached = {}
  /\ map \in [Sids -> Maps] /\ moving = {} /\ lastSeq = [s \in Sids |-> 0]
  /\ phase = [c \in Channels |-> "events"] /\ done = [c \in Channels |-> 0]
  /\ events = [c \in Channels |-> <<>>] /\ critical = [c \in Channels |-> <<>>]
  /\ moves = [c \in Channels |-> <<>>]
  /\ grid = [c \in Channels |-> [s \in Sids |-> [m \in Maps |-> 0]]]
  /\ outbound = [c \in Channels |-> {}] /\ flushList = [c \in Channels |-> {}]
  /\ queued = {} /\ whispers = <<>> /\ posting = Nothing
  /\ writer = [s \in Sids |-> None] /\ kept = [s \in Sids |-> "none"]
  /\ changed = {} /\ hurried = {}

-----------------------------------------------------------------------------
(* Admission (module Admission), and the connection.                       *)

(* ChannelManager::OnLoginSuccess: the session is in the map and its       *)
(* channel, its character is being loaded.                                 *)
OnLoginSuccess(s, c) ==
  /\ net[s] = "new"
  /\ net' = [net EXCEPT ![s] = "open"]
  /\ home' = [home EXCEPT ![s] = c]
  /\ population' = [population EXCEPT ![c] = @ + 1]
  /\ loads' = [loads EXCEPT ![s] = c]
  /\ UNCHANGED <<script, routing, playVars, tickVars, boxVars, grid, sendVars,
                 chatVars, histVars>>

(* The DB thread posts the result of the load to the channel chosen then.  *)
LoadDone(s) ==
  /\ loads[s] # None
  /\ events' = [events EXCEPT ![loads[s]] = Append(@, Job("loaded", s, None))]
  /\ loads' = [loads EXCEPT ![s] = None]
  /\ UNCHANGED <<netVars, ownVars, playVars, tickVars, critical, moves, grid,
                 sendVars, chatVars, histVars>>

(* The client, the server or the network ends the connection.              *)
Hangup(s) ==
  /\ net[s] = "open"
  /\ net' = [net EXCEPT ![s] = "closed"]
  /\ script' = [script EXCEPT ![s] = <<>>]
  /\ UNCHANGED <<routing, ownVars, loads, playVars, tickVars, boxVars,
                 grid, sendVars, chatVars, histVars>>

(* ChannelManager::EnqueuePacket, first half: the channel of the session.  *)
(* (Clients send once they got SC_ENTER_WORLD.)                            *)
EnqueuePacket(s) ==
  /\ net[s] = "open" /\ s \in attached /\ routing[s] = Nothing /\ script[s] # <<>>
  /\ LET p == Head(script[s])
     IN routing' = [routing EXCEPT ![s] =
                      [job |-> Job(p.kind, s, p.arg), to |-> home[s]]]
  /\ script' = [script EXCEPT ![s] = Tail(@)]
  /\ UNCHANGED <<net, ownVars, loads, playVars, tickVars, boxVars, grid,
                 sendVars, chatVars, histVars>>

(* ChannelManager::EnqueueDisconnect, first half.                          *)
EnqueueDisconnect(s) ==
  /\ net[s] = "closed" /\ routing[s] = Nothing
  /\ net' = [net EXCEPT ![s] = "noticed"]
  /\ routing' = [routing EXCEPT ![s] = [job |-> Job("leave", s, None), to |-> home[s]]]
  /\ UNCHANGED <<script, ownVars, loads, playVars, tickVars, boxVars, grid,
                 sendVars, chatVars, histVars>>

(* Second half of both.  The movement mailbox sheds at its limit; the      *)
(* session event mailbox grows, and the critical one is large enough here. *)
Deliver(s) ==
  /\ routing[s] # Nothing
  /\ LET j == routing[s].job
         c == routing[s].to
     IN \/ /\ j.kind = "leave"
           /\ events' = [events EXCEPT ![c] = Append(@, j)]
           /\ UNCHANGED <<critical, moves, kept>>
        \/ /\ j.kind = "start"
           /\ IF Len(moves[c]) < MoveCap
              THEN /\ moves' = [moves EXCEPT ![c] = Append(@, j)]
                   /\ kept' = [kept EXCEPT ![s] = "start"]
              ELSE UNCHANGED <<moves, kept>>
           /\ UNCHANGED <<events, critical>>
        \/ /\ j.kind \notin {"leave", "start"}
           /\ critical' = [critical EXCEPT ![c] = Append(@, j)]
           /\ kept' = [kept EXCEPT ![s] = IF j.kind = "stop" THEN "stop" ELSE @]
           /\ UNCHANGED <<events, moves>>
  /\ routing' = [routing EXCEPT ![s] = Nothing]
  /\ UNCHANGED <<net, script, ownVars, loads, playVars, tickVars, grid, sendVars,
                 chatVars, changed, hurried>>

-----------------------------------------------------------------------------
(* What jobs share.                                                        *)

InMap(c, m) == {s \in Sids : grid[c][s][m] > 0}
Entries(c, s) == {m \in Maps : grid[c][s][m] > 0}

(* Map::Insert and Map::Erase: another entry, or one less if there is one. *)
Insert(g, c, s, m) == [g EXCEPT ![c][s][m] = @ + 1]
Erase(g, c, s, m)  == [g EXCEPT ![c][s][m] = IF @ = 0 THEN 0 ELSE @ - 1]

(* Channel::ResolveOwnedPlayer.                                            *)
Owned(c, s) == home[s] = c /\ s \in attached

(* An own message at once: GameSession::SendScrambled advances m_sendKey.  *)
SendNow(c, s) == writer' = [writer EXCEPT ![s] = c]

TakeEvent(c, k, s) ==
  /\ phase[c] = "events"
  /\ events[c] # <<>> /\ Head(events[c]) = Job(k, s, None)

TakeCritical(c, k, s) ==
  /\ phase[c] = "critical" /\ done[c] < JobsPerTick
  /\ critical[c] # <<>> /\ Head(critical[c]).kind = k /\ Head(critical[c]).sid = s
  /\ critical' = [critical EXCEPT ![c] = Tail(@)]
  /\ done' = [done EXCEPT ![c] = @ + 1]

-----------------------------------------------------------------------------
(* Session events.                                                         *)

(* DbResultJob: attach the Player, send its inventory, and spawn it by a    *)
(* job of its own.                                                         *)
DbResultJob(c, s) ==
  /\ TakeEvent(c, "loaded", s)
  /\ \/ /\ home[s] = None   \* hung up meanwhile
        /\ events' = [events EXCEPT ![c] = Tail(@)]
        /\ UNCHANGED <<net, attached, writer>>
     \/ /\ home[s] # None
        /\ attached' = attached \cup {s}
        /\ SendNow(c, s)
        /\ events' = [events EXCEPT ![c] = Append(Tail(@), Job("enter", s, None))]
        /\ UNCHANGED net
     \/ /\ home[s] # None   \* FailLogin
        /\ net' = [net EXCEPT ![s] = IF @ = "open" THEN "closed" ELSE @]
        /\ events' = [events EXCEPT ![c] = Tail(@)]
        /\ UNCHANGED <<attached, writer>>
  /\ UNCHANGED <<script, routing, ownVars, loads, map, moving, lastSeq, tickVars,
                 critical, moves, grid, outbound, flushList, queued, chatVars, histVars>>

(* MapManager::AddPlayer: an entry, and spawn messages for everybody who   *)
(* sees it (and for itself: every map has monsters).                       *)
AddPlayer(c, s) ==
  /\ grid' = Insert(grid, c, s, map[s])
  /\ outbound' = [outbound EXCEPT ![c] = @ \cup InMap(c, map[s]) \cup {s}]

(* Channel::OnChannelEnter.                                                *)
OnChannelEnter(c, s) ==
  /\ TakeEvent(c, "enter", s)
  /\ events' = [events EXCEPT ![c] = Tail(@)]
  /\ IF s \in attached
     THEN AddPlayer(c, s) /\ SendNow(c, s)
     ELSE UNCHANGED <<grid, outbound, writer>>
  /\ UNCHANGED <<netVars, ownVars, loads, playVars, tickVars, critical, moves,
                 flushList, queued, chatVars, histVars>>

(* Channel::OnChannelChangeEnter: not if the session moved on meanwhile.   *)
BadOnChannelChangeEnter(c, s) ==
  /\ TakeEvent(c, "changeEnter", s)
  /\ events' = [events EXCEPT ![c] = Tail(@)]
  /\ IF s \in attached
     THEN AddPlayer(c, s) /\ SendNow(c, s)
     ELSE UNCHANGED <<grid, outbound, writer>>
  /\ UNCHANGED <<netVars, ownVars, loads, playVars, tickVars, critical, moves,
                 flushList, queued, chatVars, histVars>>
OnChannelChangeEnter(c, s) ==
  /\ TakeEvent(c, "changeEnter", s)
  /\ events' = [events EXCEPT ![c] = Tail(@)]
  /\ IF Owned(c, s)
     THEN AddPlayer(c, s) /\ SendNow(c, s)
     ELSE UNCHANGED <<grid, outbound, writer>>
  /\ UNCHANGED <<netVars, ownVars, loads, playVars, tickVars, critical, moves,
                 flushList, queued, chatVars, histVars>>

(* Channel::OnClientLeave of a session another channel owns by now:        *)
(* ChannelManager::RerouteLeave passes the notice on to the owner.         *)
BadRerouteLeave(c, s) == events' = [events EXCEPT ![c] = Tail(@)]
RerouteLeave(c, s) ==
  events' = [events EXCEPT ![c] = Tail(@),
                           ![home[s]] = Append(@, Job("leave", s, None))]

OnStrayLeave(c, s) ==
  /\ TakeEvent(c, "leave", s)
  /\ home[s] \notin {None, c}
  /\ RerouteLeave(c, s)
  /\ UNCHANGED <<netVars, ownVars, loads, playVars, tickVars, critical, moves,
                 grid, sendVars, chatVars, histVars>>

(* ChannelManager::OnSessionGone: out of the map, Player and GameSession   *)
(* back to their pools (Reset clears m_batchQueued).                       *)
BadOnSessionGone(s) ==
  /\ home' = [home EXCEPT ![s] = None]
  /\ UNCHANGED population
  /\ attached' = attached \ {s} /\ moving' = moving \ {s}
  /\ lastSeq' = [lastSeq EXCEPT ![s] = 0]
  /\ queued' = queued \ {s}
  /\ writer' = [writer EXCEPT ![s] = None]
OnSessionGone(s) ==
  /\ home' = [home EXCEPT ![s] = None]
  /\ population' = [population EXCEPT ![home[s]] = @ - 1]
  /\ attached' = attached \ {s} /\ moving' = moving \ {s}
  /\ lastSeq' = [lastSeq EXCEPT ![s] = 0]
  /\ queued' = queued \ {s}
  /\ writer' = [writer EXCEPT ![s] = None]

(* Channel::OnClientLeave of the owner.  (The save and the name: modules   *)
(* Admission and Saving.)                                                  *)
OnClientLeave(c, s) ==
  /\ TakeEvent(c, "leave", s)
  /\ home[s] = c
  /\ events' = [events EXCEPT ![c] = Tail(@)]
  /\ IF s \in attached
     THEN /\ grid' = Erase(grid, c, s, map[s])
          /\ outbound' = [outbound EXCEPT ![c] = @ \cup (InMap(c, map[s]) \ {s})]
     ELSE UNCHANGED <<grid, outbound>>
  /\ OnSessionGone(s)
  /\ UNCHANGED <<netVars, loads, map, tickVars, critical, moves,
                 flushList, chatVars, histVars>>

-----------------------------------------------------------------------------
(* Packets.                                                                *)

(* Channel::OnMove of a move from either mailbox: the newest clientSeq.    *)
BadMoveTo(c, s, kind, seq) ==
  IF Owned(c, s)
  THEN /\ moving' = IF kind = "start" THEN moving \cup {s} ELSE moving \ {s}
       /\ lastSeq' = [lastSeq EXCEPT ![s] = seq]
  ELSE UNCHANGED <<moving, lastSeq>>
MoveTo(c, s, kind, seq) ==
  IF Owned(c, s) /\ seq > lastSeq[s]
  THEN /\ moving' = IF kind = "start" THEN moving \cup {s} ELSE moving \ {s}
       /\ lastSeq' = [lastSeq EXCEPT ![s] = seq]
  ELSE UNCHANGED <<moving, lastSeq>>

OnStopMove(c, s) ==
  /\ TakeCritical(c, "stop", s)
  /\ MoveTo(c, s, "stop", Head(critical[c]).arg)
  /\ UNCHANGED <<netVars, ownVars, loads, attached, map, phase, events, moves, grid,
                 sendVars, chatVars, histVars>>

OnStartMove(c, s) ==
  /\ phase[c] = "moves" /\ done[c] < JobsPerTick
  /\ moves[c] # <<>> /\ Head(moves[c]).sid = s
  /\ moves' = [moves EXCEPT ![c] = Tail(@)]
  /\ done' = [done EXCEPT ![c] = @ + 1]
  /\ MoveTo(c, s, "start", Head(moves[c]).arg)
  /\ UNCHANGED <<netVars, ownVars, loads, attached, map, phase, events, critical,
                 grid, sendVars, chatVars, histVars>>

(* Channel::OnPortal and MapManager::ChangeMap: out of the old map, into   *)
(* the new one, whether or not the Player was in the old one.              *)
OnPortal(c, s) ==
  /\ TakeCritical(c, "portal", s)
  /\ IF Owned(c, s)
     THEN \E to \in Maps \ {map[s]} :
            /\ map' = [map EXCEPT ![s] = to]
            /\ grid' = Insert(Erase(grid, c, s, map[s]), c, s, to)
            /\ outbound' = [outbound EXCEPT ![c] =
                              @ \cup InMap(c, map[s]) \cup InMap(c, to) \cup {s}]
            /\ SendNow(c, s)
            /\ hurried' = IF Entries(c, s) = {} THEN hurried \cup {s} ELSE hurried
     ELSE UNCHANGED <<map, grid, outbound, writer, hurried>>
  /\ UNCHANGED <<netVars, ownVars, loads, attached, moving, lastSeq, phase, events,
                 moves, flushList, queued, chatVars, kept, changed>>

(* Channel::HandlePublicChat and BroadcastToMapBatched: into the batch of  *)
(* everybody on the map whose session is the channel's.                    *)
ChatReceivers(c, s) == {r \in InMap(c, map[s]) : home[r] = c}

OnChat(c, s) ==
  /\ TakeCritical(c, "chat", s)
  /\ IF Owned(c, s)
     THEN /\ flushList' = [flushList EXCEPT ![c] = @ \cup (ChatReceivers(c, s) \ queued)]
          /\ queued' = queued \cup ChatReceivers(c, s)
     ELSE UNCHANGED <<flushList, queued>>
  /\ UNCHANGED <<netVars, ownVars, loads, playVars, phase, events, moves, grid,
                 outbound, writer, chatVars, histVars>>

(* Channel::HandleWhisper: to the thread that knows the names.             *)
OnWhisper(c, s) ==
  /\ TakeCritical(c, "whisper", s)
  /\ whispers' = IF Owned(c, s) THEN Append(whispers, Head(critical[c])) ELSE whispers
  /\ UNCHANGED <<netVars, ownVars, loads, playVars, phase, events, moves, grid,
                 sendVars, posting, histVars>>

(* WhisperDeliverJob and WhisperFailJob.  The channel they were routed to  *)
(* is the channel whose mailbox they are in.                               *)
BadWhisperDeliver(c, s) ==
  /\ TakeCritical(c, "deliver", s)
  /\ IF home[s] # None THEN SendNow(c, s) ELSE UNCHANGED writer
  /\ UNCHANGED <<netVars, ownVars, loads, playVars, phase, events, moves, grid,
                 outbound, flushList, queued, chatVars, histVars>>
WhisperDeliver(c, s) ==
  /\ TakeCritical(c, "deliver", s)
  /\ IF home[s] = c THEN SendNow(c, s) ELSE UNCHANGED writer
  /\ UNCHANGED <<netVars, ownVars, loads, playVars, phase, events, moves, grid,
                 outbound, flushList, queued, chatVars, histVars>>

(* A packet its handler refuses: a cooldown, a portal out of reach, an      *)
(* empty message, a channel that is full or the present one.               *)
Refuse(c, s) ==
  /\ Owned(c, s)
  /\ \/ TakeCritical(c, "change", s) /\ SendNow(c, s)
     \/ TakeCritical(c, "whisper", s) /\ (SendNow(c, s) \/ UNCHANGED writer)
     \/ (TakeCritical(c, "portal", s) \/ TakeCritical(c, "chat", s)) /\ UNCHANGED writer
  /\ UNCHANGED <<netVars, ownVars, loads, playVars, phase, events, moves, grid,
                 outbound, flushList, queued, chatVars, histVars>>

-----------------------------------------------------------------------------
(* A session changes channels.                                             *)

(* ChannelManager::MigrateChannel: counts, owner and the enter job of the  *)
(* new channel in one lock section.  A new writer has not sent yet.        *)
BadMigrateChannel(s, from, to) ==
  /\ population' = [population EXCEPT ![from] = @ - 1, ![to] = @ + 1]
  /\ home' = [home EXCEPT ![s] = to]
  /\ UNCHANGED events
BadMigrateCount(s, from, to) ==
  /\ population' = [population EXCEPT ![from] = @ - 1]
  /\ home' = [home EXCEPT ![s] = to]
  /\ events' = [events EXCEPT ![to] = Append(@, Job("changeEnter", s, None))]
MigrateChannel(s, from, to) ==
  /\ population' = [population EXCEPT ![from] = @ - 1, ![to] = @ + 1]
  /\ home' = [home EXCEPT ![s] = to]
  /\ events' = [events EXCEPT ![to] = Append(@, Job("changeEnter", s, None))]

(* Channel::BeginChannelHandoff, what precedes MigrateChannel: the batch   *)
(* is sent and the session leaves the flush list.                          *)
BadQuiesce(c, s) == queued' = queued \ {s} /\ UNCHANGED flushList
Quiesce(c, s) ==
  /\ queued' = queued \ {s}
  /\ flushList' = [flushList EXCEPT ![c] = @ \ {s}]

(* Channel::OnChannelChange and BeginChannelHandoff.                       *)
OnChannelChange(c, s) ==
  LET to == Head(critical[c]).arg IN
  /\ TakeCritical(c, "change", s)
  /\ IF Owned(c, s)
     THEN /\ to # c
          /\ grid' = Erase(grid, c, s, map[s])
          /\ outbound' = [outbound EXCEPT ![c] = @ \cup (InMap(c, map[s]) \ {s})]
          /\ Quiesce(c, s)
          /\ MigrateChannel(s, c, to)
          /\ writer' = [writer EXCEPT ![s] = None]
          /\ changed' = changed \cup {s}
          /\ hurried' = IF \E i \in DOMAIN events[to] : events[to][i] = Job("changeEnter", s, None)
                        THEN hurried \cup {s} ELSE hurried
     ELSE UNCHANGED <<grid, outbound, queued, flushList, ownVars, events, writer,
                      changed, hurried>>
  /\ UNCHANGED <<netVars, loads, playVars, phase, moves, chatVars, kept>>

-----------------------------------------------------------------------------
(* The tick (Channel::TickLoop).                                           *)

(* ProcessSessionEvent drains its mailbox; ProcessJob drains each of the   *)
(* others up to a limit.                                                   *)
NextPhase(c) ==
  /\ \/ phase[c] = "events" /\ events[c] = <<>>
        /\ phase' = [phase EXCEPT ![c] = "critical"]
     \/ phase[c] = "critical" /\ (critical[c] = <<>> \/ done[c] = JobsPerTick)
        /\ phase' = [phase EXCEPT ![c] = "moves"]
  /\ done' = [done EXCEPT ![c] = 0]
  /\ UNCHANGED <<netVars, ownVars, loads, playVars, boxVars, grid, sendVars,
                 chatVars, histVars>>

(* Channel::SendObjectUpdates: those who see somebody move (any: monsters  *)
(* move, too), the receivers of the outbound messages that are still the   *)
(* channel's, and the flush of all batches.                                *)
OutboundTo(c) == {r \in outbound[c] : home[r] = c}

SendObjectUpdates(c) ==
  /\ phase[c] = "moves" /\ (moves[c] = <<>> \/ done[c] = JobsPerTick)
  /\ \E seen \in SUBSET {r \in Sids : home[r] = c /\ Entries(c, r) # {}} :
       LET receivers == seen \cup OutboundTo(c)
           sent == flushList[c] \cup (receivers \ queued)
       IN /\ writer' = [s \in Sids |-> IF s \in sent THEN c ELSE writer[s]]
          /\ queued' = (queued \cup receivers) \ sent
  /\ flushList' = [flushList EXCEPT ![c] = {}]
  /\ outbound' = [outbound EXCEPT ![c] = {}]
  /\ phase' = [phase EXCEPT ![c] = "events"] /\ done' = [done EXCEPT ![c] = 0]
  /\ UNCHANGED <<netVars, ownVars, loads, playVars, boxVars, grid, chatVars, histVars>>

-----------------------------------------------------------------------------
(* The shared services thread: CrossChannelChat::Route finds the addressee *)
(* (or answers the sender), PostToChannel resolves its channel and         *)
(* enqueues afterwards.                                                    *)
Route ==
  /\ whispers # <<>> /\ posting = Nothing
  /\ whispers' = Tail(whispers)
  /\ \E s \in {Head(whispers).sid, Head(whispers).arg} :
       posting' = IF home[s] = None THEN Nothing
                  ELSE [job |-> Job("deliver", s, None), to |-> home[s]]
  /\ UNCHANGED <<netVars, ownVars, loads, playVars, tickVars, boxVars, grid,
                 sendVars, histVars>>

PostToChannel ==
  /\ posting # Nothing
  /\ critical' = [critical EXCEPT ![posting.to] = Append(@, posting.job)]
  /\ posting' = Nothing
  /\ UNCHANGED <<netVars, ownVars, loads, playVars, tickVars, events, moves, grid,
                 sendVars, whispers, histVars>>

-----------------------------------------------------------------------------
SessionEvent(c) ==
  \E s \in Sids : \/ DbResultJob(c, s) \/ OnChannelEnter(c, s)
                  \/ OnChannelChangeEnter(c, s)
                  \/ OnStrayLeave(c, s) \/ OnClientLeave(c, s)

PacketJob(c) ==
  \E s \in Sids : \/ OnStopMove(c, s) \/ OnStartMove(c, s) \/ OnPortal(c, s)
                  \/ OnChat(c, s) \/ OnWhisper(c, s) \/ WhisperDeliver(c, s)
                  \/ Refuse(c, s) \/ OnChannelChange(c, s)

TickLoop(c) == SessionEvent(c) \/ PacketJob(c) \/ NextPhase(c) \/ SendObjectUpdates(c)

Client(s) == (\E c \in Channels : OnLoginSuccess(s, c)) \/ EnqueuePacket(s) \/ Hangup(s)
Worker(s) == EnqueueDisconnect(s) \/ Deliver(s)
SharedServices == Route \/ PostToChannel

Next ==
  \/ \E s \in Sids : Client(s) \/ Worker(s) \/ LoadDone(s)
  \/ \E c \in Channels : TickLoop(c)
  \/ SharedServices

Spec == Init /\ [][Next]_vars

-----------------------------------------------------------------------------
(* Properties.                                                             *)

TypeOK ==
  /\ net \in [Sids -> {"new", "open", "closed", "noticed"}]
  /\ script \in [Sids -> Seq(Packets)]
  /\ home \in [Sids -> Channels \cup {None}]
  /\ routing \in [Sids -> {Nothing} \cup
       [job : CritJob \cup MoveJob \cup [kind : {"leave"}, sid : Sids, arg : {None}],
        to : Channels]]
  /\ population \in [Channels -> Nat]
  /\ loads \in [Sids -> Channels \cup {None}]
  /\ attached \subseteq Sids /\ moving \subseteq Sids
  /\ map \in [Sids -> Maps] /\ lastSeq \in [Sids -> Nat]
  /\ phase \in [Channels -> {"events", "critical", "moves"}]
  /\ done \in [Channels -> 0 .. JobsPerTick]
  /\ events \in [Channels -> Seq(Event)]
  /\ critical \in [Channels -> Seq(CritJob)] /\ moves \in [Channels -> Seq(MoveJob)]
  /\ grid \in [Channels -> [Sids -> [Maps -> Nat]]]
  /\ outbound \in [Channels -> SUBSET Sids] /\ flushList \in [Channels -> SUBSET Sids]
  /\ queued \subseteq Sids
  /\ whispers \in Seq([kind : {"whisper"}, sid : Sids, arg : Sids])
  /\ posting \in {Nothing} \cup [job : CritJob, to : Channels]
  /\ writer \in [Sids -> Channels \cup {None}]
  /\ kept \in [Sids -> {"none"} \cup Moves]
  /\ changed \subseteq Sids /\ hurried \subseteq Sids

(* A Player is in the maps of the channel that owns its session, on its    *)
(* own map and once, and in no other channel: what lets channel threads    *)
(* work on their maps without locks.  Broken only for a session whose      *)
(* portal was taken between MigrateChannel and its enter job, or that came *)
(* back to a channel that had not yet taken its enter job (hurried).       *)
GridSound ==
  \A s \in Sids \ hurried, c \in Channels, m \in Maps :
    grid[c][s][m] > 0 =>
      grid[c][s][m] = 1 /\ home[s] = c /\ s \in attached /\ map[s] = m

(* ChannelManager.cpp:497: the enter job of the target handles the grid    *)
(* before any packet routed there.  Then no Player is ever in the maps     *)
(* twice, or left there by a session that is gone.                         *)
NoDanglingEntry ==
  \A s \in Sids, c \in Channels : Entries(c, s) # {} => home[s] = c

(* A disconnect notice is never lost between channels: as long as a        *)
(* noticed session is in the session map, its leave job is on its way to   *)
(* some channel.                                                           *)
LeaveUnderWay ==
  \A s \in Sids : net[s] = "noticed" /\ home[s] # None =>
    \/ routing[s] # Nothing
    \/ \E c \in Channels : \E i \in DOMAIN events[c] : events[c][i] = Job("leave", s, None)

(* No session is lost between channels either: a Player that is not in the *)
(* maps of its owner has its enter job in the mailbox of the owner.        *)
ArrivalUnderWay ==
  \A s \in attached :
    \/ Entries(home[s], s) # {}
    \/ \E i \in DOMAIN events[home[s]] :
         events[home[s]][i] \in {Job("enter", s, None), Job("changeEnter", s, None)}

(* m_channelPlayerCount, which the caps are tested against, counts the     *)
(* sessions of every channel through logins, changes and leaves.           *)
PopulationExact ==
  \A c \in Channels : population[c] = Cardinality({s \in Sids : home[s] = c})

(* Only the thread of the channel that owns a session advances its send    *)
(* key: two writers would put client and server out of step for good.      *)
SoleWriter == \A s \in Sids : writer[s] \in {None, home[s]}

(* A batch with messages is in the flush list of the owner, and a flush    *)
(* list holds no session of another channel, and none at all while the     *)
(* channel may give sessions back to the pool.                             *)
FlushListExact ==
  \A c \in Channels :
    /\ flushList[c] = {s \in queued : home[s] = c}
    /\ phase[c] = "events" => flushList[c] = {}

(* Two mailboxes may turn STOP and START around, and STARTs may be shed;   *)
(* when none waits, the Player of a session that stayed in its channel     *)
(* does what the last move taken into a mailbox said.                      *)
MoveWaits(s) ==
  \/ routing[s] # Nothing /\ routing[s].job.kind \in Moves
  \/ \E c \in Channels :
       \/ \E i \in DOMAIN moves[c] : moves[c][i].sid = s
       \/ \E i \in DOMAIN critical[c] : critical[c][i].sid = s /\ critical[c][i].kind = "stop"
LatestMoveWins ==
  \A s \in attached \ changed : ~MoveWaits(s) => (s \in moving <=> kept[s] = "start")

=============================================================================
