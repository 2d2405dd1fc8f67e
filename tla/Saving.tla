-------------------------------- MODULE Saving --------------------------------
(***************************************************************************)
(* How the inventory of a character reaches the database and comes back:   *)
(* the autosave of the channels with its dirty bit, the last save of a     *)
(* leaving session, the commit of a trade, the failure notices of the DB   *)
(* thread, the load of a login, crashes, and the orderly shutdown          *)
(* (Channel.cpp, DBCommands.cpp, DBResultJob.cpp, DBThread.cpp, main.cpp). *)
(*                                                                         *)
(* A channel thread repeats its tick: it drains the session events, runs   *)
(* jobs of packets, and at the end of a tick may autosave.  The DB thread  *)
(* executes one FIFO of commands.  An inventory is a set of items here;    *)
(* slots and stacks are in module Inventory, the steps that lead to a      *)
(* trade in module Trade, routing and admission in Channels and Admission. *)
(* The position, hit points and name of a character are left out: each     *)
(* autosave writes them again whether they changed or not.                 *)
(***************************************************************************)
EXTENDS Integers, Sequences, SequencesExt, FiniteSetsExt

CONSTANTS
  Players,     \* characters
  Channels,
  Nowhere,     \* no channel
  Items,
  StartRow,    \* the rows the database starts with
  Movers,      \* BOUND: characters that change channels
  MaxLogins,   \* BOUND: sessions of one character between two starts of the server
  MaxFaults,   \* BOUND: commands the database fails to execute
  QueueCap,    \* BOUND: commands in the queue of the DB thread when a new one comes
  EventCap     \* BOUND: session events of a channel when a player changes to it

ASSUME SavingAssumption ==
  /\ Nowhere \notin Channels /\ Movers \subseteq Players /\ IsFiniteSet(Players)
  /\ StartRow \in [Players -> SUBSET Items]
  /\ \A p, q \in Players : p # q => StartRow[p] \cap StartRow[q] = {}
  /\ MaxLogins \in [Players -> Nat]
  /\ {MaxFaults, QueueCap, EventCap} \subseteq Nat

VARIABLES
  server,    \* "up", "closed" (workers and login link have stopped), "stopping"
  phase,     \* where the tick of a channel is
  events,    \* m_sessionEventMailbox of a channel
  queue,     \* m_requestQueue of the DB thread
  row,       \* the inventory rows of a character
  sid,       \* the session of a character, counted
  online,    \* its connection is up
  stage,     \* "out", "loading" (admitted, no Player yet), "playing"
  home,      \* GameSession::m_channelId
  grid,      \* the channel whose maps hold the Player
  inv,       \* m_inventory; of a player who is out: what he left with
  dirty,     \* DB_DIRTY_INVENTORY
  ground,    \* items that lie on the ground, or that monsters will drop
  faults,    \* commands that failed so far
  torn,      \* history: how items changed hands without a common transaction
  failed,    \* history: characters whose last save or commit did not reach their rows
  late       \* history: players who changed to a channel that had stopped

dbVars     == <<queue, row, faults, torn, failed>>
playerVars == <<sid, online, stage, home, grid, inv, dirty>>
vars == <<server, phase, events, dbVars, playerVars, ground, late>>

LoginNumbers == UNION {0 .. MaxLogins[p] : p \in Players}

Event   == [kind : {"loaded", "loadFailed", "enter", "arrive", "leave", "saveFailed"},
            who : Players, sid : LoginNumbers, items : SUBSET Items]
Ev(kind, p) == [kind |-> kind, who |-> p, sid |-> sid[p], items |-> {}]

\* A command writes the rows of the characters in its domain; a load has the domain {}.  It
\* names the sessions that asked for it.
Command == [kind : {"save", "trade", "load"}, who : Players,
            sid : UNION {[S -> LoginNumbers] : S \in SUBSET Players},
            rows : UNION {[S -> SUBSET Items] : S \in SUBSET Players},
            reply : Channels \cup {Nowhere}]

Writes(cmd) == DOMAIN cmd.rows
Post(c, e)  == events' = [events EXCEPT ![c] = Append(@, e)]
Enqueue(q)  == queue' = queue \o q
HasRoom     == Len(queue) < QueueCap

EachPlayer(v) == [p \in Players |-> v]   \* one value for every character
EachChannel(v) == [c \in Channels |-> v]  \* one value for every channel

Init ==
  /\ server = "up" /\ phase = EachChannel("events") /\ events = EachChannel(<<>>) /\ queue = <<>>
  /\ sid = EachPlayer(0) /\ online = EachPlayer(FALSE) /\ stage = EachPlayer("out")
  /\ home = EachPlayer(Nowhere) /\ grid = EachPlayer(Nowhere)
  /\ row = StartRow /\ inv = StartRow /\ dirty = EachPlayer(FALSE)
  /\ failed = {} /\ late = {}
  /\ ground = Items \ UNION Range(StartRow)
  /\ faults = 0 /\ torn = {}

-----------------------------------------------------------------------------
(* Sessions come and go.                                                     *)

\* The admission has set the channel of the session and queues the load.
Login(p, c) ==
  /\ server = "up" /\ stage[p] = "out" /\ sid[p] < MaxLogins[p] /\ HasRoom
  /\ sid'    = [sid EXCEPT ![p] = @ + 1]
  /\ online' = [online EXCEPT ![p] = TRUE]
  /\ stage'  = [stage EXCEPT ![p] = "loading"]
  /\ home'   = [home EXCEPT ![p] = c]
  /\ Enqueue(<<[kind |-> "load", who |-> p, sid |-> [x \in {p} |-> sid'[p]], rows |-> [x \in {} |-> {}], reply |-> c]>>)
  /\ UNCHANGED <<server, phase, events, row, faults, torn, failed, grid, inv, dirty, ground, late>>

Disconnect(p) ==
  /\ online' = [online EXCEPT ![p] = FALSE]
  /\ Post(home[p], Ev("leave", p))

\* The connection ends and the notice goes to the channel of the session.
Hangup(p) ==
  /\ server = "up" /\ online[p]
  /\ Disconnect(p)
  /\ UNCHANGED <<server, phase, dbVars, sid, stage, home, grid, inv, dirty, ground, late>>

-----------------------------------------------------------------------------
(* The jobs of a channel, for players it owns and who are loaded.            *)

Owns(c, p) == stage[p] = "playing" /\ home[p] = c
InJobs(c)  == phase[c] = "jobs"

SetInventory(p, items) ==
  /\ inv'   = [inv EXCEPT ![p] = items]
  /\ dirty' = [dirty EXCEPT ![p] = TRUE]

Saved(p, i) == i \in row[p] \/ \E n \in DOMAIN queue : p \in Writes(queue[n]) /\ i \in queue[n].rows[p]

\* OnItemPickup.  The item may still be in what is stored of the one who discarded it.
Pickup(c, p) ==
  /\ InJobs(c) /\ Owns(c, p)
  /\ \E i \in ground :
       /\ SetInventory(p, inv[p] \cup {i})
       /\ ground' = ground \ {i}
       /\ torn' = IF \E q \in Players \ {p} : Saved(q, i) THEN torn \cup {"discard"} ELSE torn
  /\ UNCHANGED <<server, phase, events, queue, row, faults, failed, sid, online, stage, home, grid,
                 late>>

\* OnItemDiscard: the item is on the ground before the change is saved.
Discard(c, p) ==
  /\ InJobs(c) /\ Owns(c, p)
  /\ \E i \in inv[p] : SetInventory(p, inv[p] \ {i}) /\ ground' = ground \cup {i}
  /\ UNCHANGED <<server, phase, events, dbVars, sid, online, stage, home, grid, late>>

Save(p, items, c) ==
  [kind |-> "save", who |-> p, sid |-> [x \in {p} |-> sid[x]], rows |-> [x \in {p} |-> items],
   reply |-> c]

BadTradeCommit(p, q, after, c) == <<Save(p, after[p], c), Save(q, after[q], c)>>

\* Both inventories in one command, for one transaction.
TradeCommit(p, q, after, c) ==
  <<[kind |-> "trade", who |-> p, sid |-> [x \in {p, q} |-> sid[x]],
     rows |-> [x \in {p, q} |-> after[x]], reply |-> c]>>

\* CommitTrade: S are the offered items.  The dirty bits stay as they are.
CommitTrade(c, p, q) ==
  /\ InJobs(c) /\ p # q /\ Owns(c, p) /\ Owns(c, q) /\ grid[q] = c /\ HasRoom
  /\ \E S \in SUBSET (inv[p] \cup inv[q]) \ {{}} :
       LET after == [inv EXCEPT ![p] = (@ \ S) \cup (inv[q] \cap S),
                                ![q] = (@ \ S) \cup (inv[p] \cap S)]
       IN  inv' = after /\ Enqueue(TradeCommit(p, q, after, c))
  /\ UNCHANGED <<server, phase, events, row, faults, torn, failed, sid, online, stage, home,
                 grid, dirty, ground, late>>

BadMarkMoved(p) == UNCHANGED dirty

\* The player takes the dirty bit along: failure notices to the old channel are void.
MarkMoved(p) == dirty' = [dirty EXCEPT ![p] = TRUE]

\* BeginChannelHandoff and MigrateChannel.
ChangeChannel(c, p, t) ==
  /\ InJobs(c) /\ Owns(c, p) /\ p \in Movers /\ t # c /\ Len(events[t]) < EventCap
  /\ MarkMoved(p)
  /\ grid' = [grid EXCEPT ![p] = Nowhere]
  /\ home' = [home EXCEPT ![p] = t]
  /\ Post(t, Ev("arrive", p))
  /\ late' = IF phase[t] = "stopped" THEN late \cup {p} ELSE late
  /\ UNCHANGED <<server, phase, dbVars, sid, online, stage, inv, ground>>

-----------------------------------------------------------------------------
(* Session events: a channel drains them before its jobs.                    *)

Take(c, kind) ==
  /\ phase[c] \in {"events", "draining"}
  /\ events[c] # <<>> /\ Head(events[c]).kind = kind
Rest(c)       == [events EXCEPT ![c] = Tail(@)]
Who(c)        == Head(events[c]).who
Session(c)    == stage[Who(c)] # "out" /\ sid[Who(c)] = Head(events[c]).sid
HasPlayer(c)  == Session(c) /\ stage[Who(c)] = "playing"

\* DbResultJob with a character and its inventory, followed by the enter job.
Loaded(c) ==
  /\ Take(c, "loaded")
  /\ LET p == Who(c) IN
     IF ~ Session(c) THEN events' = Rest(c) /\ UNCHANGED <<stage, inv, dirty>>
     ELSE /\ stage'  = [stage EXCEPT ![p] = "playing"]
          /\ inv'    = [inv EXCEPT ![p] = Head(events[c]).items]
          /\ dirty'  = [dirty EXCEPT ![p] = FALSE]
          /\ events' = [Rest(c) EXCEPT ![c] = Append(@, Ev("enter", p))]
  /\ UNCHANGED <<server, phase, dbVars, sid, online, home, grid, ground, late>>

\* FailLogin: nothing was loaded, so nothing may be saved.
LoadFailed(c) ==
  /\ Take(c, "loadFailed")
  /\ IF Session(c) /\ online[Who(c)]
       THEN /\ online' = [online EXCEPT ![Who(c)] = FALSE]
            /\ events' = [Rest(c) EXCEPT ![home[Who(c)]] = Append(@, Ev("leave", Who(c)))]
       ELSE events' = Rest(c) /\ UNCHANGED online
  /\ UNCHANGED <<server, phase, dbVars, sid, stage, home, grid, inv, dirty, ground, late>>

\* OnChannelEnter, and OnChannelChangeEnter, which asks who owns the session.
Enter(c) ==
  /\ \/ Take(c, "enter") /\ HasPlayer(c)
     \/ Take(c, "arrive") /\ HasPlayer(c) /\ home[Who(c)] = c
  /\ events' = Rest(c)
  /\ grid' = [grid EXCEPT ![Who(c)] = c]
  /\ UNCHANGED <<server, phase, dbVars, sid, online, stage, home, inv, dirty, ground, late>>

StaleEnter(c) ==
  /\ \/ Take(c, "enter") /\ ~ HasPlayer(c)
     \/ Take(c, "arrive") /\ ~ (HasPlayer(c) /\ home[Who(c)] = c)
  /\ events' = Rest(c)
  /\ UNCHANGED <<server, phase, dbVars, playerVars, ground, late>>

\* SavePlayerFull: whatever the dirty bit says, and with nobody to tell of a failure.
LastSave(p) == <<Save(p, inv[p], Nowhere)>>

\* OnClientLeave at the owner: last save, then the session is gone.
Leave(c) ==
  /\ Take(c, "leave") /\ Session(c) /\ home[Who(c)] = c
  /\ LET p == Who(c) IN
     /\ Enqueue(IF stage[p] = "playing" THEN LastSave(p) ELSE <<>>)
     /\ stage' = [stage EXCEPT ![p] = "out"]
     /\ home'  = [home EXCEPT ![p] = Nowhere]
     /\ grid'  = [grid EXCEPT ![p] = Nowhere]
     /\ dirty' = [dirty EXCEPT ![p] = FALSE]
  /\ events' = Rest(c)
  /\ UNCHANGED <<server, phase, row, faults, torn, failed, sid, online, inv, ground, late>>

\* RerouteLeave follows a session that changed its channel.
Reroute(c) ==
  /\ Take(c, "leave") /\ (Session(c) => home[Who(c)] # c)
  /\ events' = IF Session(c) THEN [Rest(c) EXCEPT ![home[Who(c)]] = Append(@, Head(events[c]))]
                             ELSE Rest(c)
  /\ UNCHANGED <<server, phase, dbVars, playerVars, ground, late>>

\* InventorySaveFailedJob.
SaveFailed(c) ==
  /\ Take(c, "saveFailed")
  /\ dirty' = IF HasPlayer(c) /\ home[Who(c)] = c THEN [dirty EXCEPT ![Who(c)] = TRUE] ELSE dirty
  /\ events' = Rest(c)
  /\ UNCHANGED <<server, phase, dbVars, sid, online, stage, home, grid, inv, ground, late>>

-----------------------------------------------------------------------------
(* The tick.                                                                 *)

SeqOfSaves(S, c) == LET order == SetToSeq(S) IN [i \in DOMAIN order |-> Save(order[i], inv[order[i]], c)]

BeginJobs(c) ==
  /\ phase[c] = "events" /\ events[c] = <<>>
  /\ phase' = [phase EXCEPT ![c] = "jobs"]
  /\ UNCHANGED <<server, events, dbVars, playerVars, ground, late>>

\* UpdateFrame, every DB_SAVE_INTERVAL: queue the dirty ones and clear the bit at once.
Autosave(c) ==
  LET S == {p \in Players : grid[p] = c /\ dirty[p]}
  IN  /\ InJobs(c) /\ S # {} /\ HasRoom
      /\ Enqueue(SeqOfSaves(S, c))
      /\ dirty' = [p \in Players |-> dirty[p] /\ p \notin S]

EndTick(c) ==
  /\ InJobs(c)
  /\ phase' = [phase EXCEPT ![c] = IF server = "stopping" THEN "draining" ELSE "events"]
  /\ Autosave(c) \/ UNCHANGED <<queue, dirty>>
  /\ UNCHANGED <<server, events, row, faults, torn, failed, sid, online, stage, home, grid, inv,
                 ground, late>>

BadDrained(c) == TRUE
Drained(c)    == events[c] = <<>>

\* After the loop: the last events, then ShutdownSaveConnectedPlayers.
ShutdownSave(c) ==
  /\ phase[c] = "draining" /\ Drained(c)
  /\ phase' = [phase EXCEPT ![c] = "stopped"]
  /\ Enqueue(SeqOfSaves({p \in Players : grid[p] = c}, Nowhere))
  /\ UNCHANGED <<server, events, row, faults, torn, failed, playerVars, ground, late>>

-----------------------------------------------------------------------------
(* The DB thread.                                                            *)

\* InventorySaveFailedJob for every character of the command, addressed to the session it had.
Notices(cmd) == LET order == SetToSeq(Writes(cmd)) IN
  [i \in DOMAIN order |-> [kind |-> "saveFailed", who |-> order[i],
                           sid |-> cmd.sid[order[i]], items |-> {}]]

\* One transaction: all rows or none.  A commit whose answer is lost counts as a failure.
Write(cmd, applied, told) ==
  /\ told => applied
  /\ row' = IF applied THEN [p \in Players |-> IF p \in Writes(cmd) THEN cmd.rows[p] ELSE row[p]]
                       ELSE row
  /\ failed' = IF applied THEN failed \ Writes(cmd) ELSE failed \cup Writes(cmd)
  /\ torn' = IF cmd.kind = "trade" /\ ~ applied THEN torn \cup {"trade"} ELSE torn
  /\ IF told \/ cmd.reply = Nowhere
       THEN UNCHANGED events
       ELSE events' = [events EXCEPT ![cmd.reply] = @ \o Notices(cmd)]
  /\ faults' = IF told THEN faults ELSE faults + 1

Load(cmd, told) ==
  /\ events' = [events EXCEPT ![cmd.reply] =
       Append(@, [kind |-> IF told THEN "loaded" ELSE "loadFailed",
                  who |-> cmd.who, sid |-> cmd.sid[cmd.who], items |-> IF told THEN row[cmd.who] ELSE {}])]
  /\ faults' = IF told THEN faults ELSE faults + 1
  /\ UNCHANGED <<row, torn, failed>>

Execute ==
  /\ queue # <<>>
  /\ queue' = Tail(queue)
  /\ \E applied, told \in BOOLEAN :
       /\ told \/ faults < MaxFaults
       /\ IF Head(queue).kind = "load" THEN applied /\ Load(Head(queue), told)
                                       ELSE Write(Head(queue), applied, told)
  /\ UNCHANGED <<server, phase, playerVars, ground, late>>

-----------------------------------------------------------------------------
(* The end of the process.                                                   *)

\* gameServer.Stop and loginLink.Stop: no packets, notices or logins any more.
Close ==
  /\ server = "up" /\ server' = "closed"
  /\ UNCHANGED <<phase, events, dbVars, playerVars, ground, late>>

\* Channel::Stop of every channel; dbThread.Stop drains the queue after they ended.
StopChannels ==
  /\ server = "closed" /\ server' = "stopping"
  /\ UNCHANGED <<phase, events, dbVars, playerVars, ground, late>>

\* A crash (RecoverIfConnectionLost may also exit), or the end of the shutdown; then a restart.
Restart ==
  /\ server' = "up" /\ phase' = EachChannel("events") /\ events' = EachChannel(<<>>) /\ queue' = <<>>
  /\ sid' = EachPlayer(0) /\ online' = EachPlayer(FALSE) /\ stage' = EachPlayer("out")
  /\ home' = EachPlayer(Nowhere) /\ grid' = EachPlayer(Nowhere)
  /\ row' = row /\ inv' = row /\ dirty' = EachPlayer(FALSE)
  /\ failed' = {} /\ late' = {}
  /\ ground' = Items \ UNION Range(row)
  /\ UNCHANGED <<faults, torn>>

Next ==
  \/ \E p \in Players, c \in Channels :
       \/ Login(p, c)
       \/ Pickup(c, p) \/ Discard(c, p)
       \/ \E q \in Players : CommitTrade(c, p, q)
       \/ \E t \in Channels : ChangeChannel(c, p, t)
  \/ \E p \in Players : Hangup(p)
  \/ \E c \in Channels :
       \/ Loaded(c) \/ LoadFailed(c) \/ Enter(c) \/ StaleEnter(c) \/ Leave(c) \/ Reroute(c)
       \/ SaveFailed(c) \/ BeginJobs(c) \/ EndTick(c) \/ ShutdownSave(c)
  \/ Execute \/ Close \/ StopChannels \/ Restart

Spec == Init /\ [][Next]_vars

-----------------------------------------------------------------------------
\* Every variable keeps its type; whoever is in the maps of a channel has a Player.
TypeOK ==
  /\ server \in {"up", "closed", "stopping"}
  /\ phase \in [Channels -> {"events", "jobs", "draining", "stopped"}]
  /\ events \in [Channels -> Seq(Event)]
  /\ queue \in Seq(Command)
  /\ row \in [Players -> SUBSET Items] /\ inv \in [Players -> SUBSET Items]
  /\ sid \in [Players -> LoginNumbers]
  /\ online \in [Players -> BOOLEAN] /\ dirty \in [Players -> BOOLEAN]
  /\ stage \in [Players -> {"out", "loading", "playing"}]
  /\ home \in [Players -> Channels \cup {Nowhere}]
  /\ grid \in [Players -> Channels \cup {Nowhere}]
  /\ \A p \in Players : /\ stage[p] = "out" <=> home[p] = Nowhere
                        /\ grid[p] # Nowhere => stage[p] = "playing"
  /\ ground \subseteq Items /\ failed \subseteq Players /\ late \subseteq Players
  /\ faults \in 0 .. MaxFaults /\ torn \subseteq {"trade", "discard"}

Queued(p) == {i \in DOMAIN queue : p \in Writes(queue[i])}

\* What the rows of p will hold when the queue is executed.
Durable(p) == IF Queued(p) = {} THEN row[p] ELSE queue[Max(Queued(p))].rows[p]

NoticeFor(p) ==
  \E i \in DOMAIN events[home[p]] :
    LET e == events[home[p]][i] IN e.kind = "saveFailed" /\ e.who = p /\ e.sid = sid[p]

\* A change of an inventory is never forgotten while its owner plays: it is saved, its save
\* is the last one queued, or the dirty bit is set or will be set again by a failure notice
\* that reaches the channel the player is in by then (the optimistic clear of the autosave).
NothingForgotten ==
  /\ TypeOK
  /\ \A p \in Players :
    stage[p] = "playing" /\ phase[home[p]] # "stopped" =>
      inv[p] = Durable(p) \/ dirty[p] \/ NoticeFor(p)

\* What a character owns when he is next seen.
Owned(p) == IF stage[p] = "playing" THEN inv[p] ELSE Durable(p)

\* No item belongs to two characters, neither in memory nor in the rows a crash at this moment
\* would leave, whatever trades, failures and restarts there were; except after a trade whose
\* commit failed, or after the pickup of an item whose discarding was not saved yet.
NoItemTwice ==
  torn = {} => \A p, q \in Players : p # q => /\ Owned(p) \cap Owned(q) = {}
                                              /\ row[p] \cap row[q] = {}

\* The same without the exception for trades: the rows never hold one half of a trade, whatever
\* the database did to its commit.
NoHalfTrade == "discard" \notin torn => \A p, q \in Players : p # q => row[p] \cap row[q] = {}

Ended(p) == stage[p] = "out" \/ \A c \in Channels : phase[c] = "stopped"

\* A character who left, or whom the shutdown found in the game, keeps exactly what he had,
\* and a login finds it, unless the database failed his last save or he was on his way to a
\* channel that had stopped.
SavedAtTheEnd ==
  \A p \in Players : p \notin failed \cup late =>
    /\ Ended(p) => inv[p] = Durable(p)
    /\ \A c \in Channels : \A i \in DOMAIN events[c] :
         LET e == events[c][i] IN
         e.kind = "loaded" /\ e.who = p /\ e.sid = sid[p] /\ stage[p] = "loading"
           => e.items = inv[p]
=============================================================================
