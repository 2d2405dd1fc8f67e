# Verification of the KYS network game servers

TLA+ modules, TLC configurations and TLAPS proofs kept beside the code of
`KYS_NetworkGame`: a game server (`ServerApp`) and a login server (`LoginServer`),
both built on one IOCP network library (`GameServer`), with a shared protocol
library (`GameCommon`) and a Windows client (`GameClient`).

- [The system](#the-system): parts, state, interactions, what is hard about them
- [Modules](#modules): what models which code, and how
- [Runs](#runs): what TLC checks, with which bounds and assumptions
- [Proofs](#proofs): what TLAPS proves, and along which argument
- [Where the code and its comments disagree](#where-the-code-and-its-comments-disagree)
- [Not modelled](#not-modelled) and [Plan](#plan)

`PROJECT.json` holds the tables: components, runs, the code line(s) each
definition stands for, the mutation each property was tried against, hazards and
theorems.

## The system

### Processes and threads

A player fetches a one-time token (60 s) from the login server, connects to the
game server with it, chooses a channel and a character, and plays. The game
server asks the login server over one TCP link whether the token is good. The
login server also decides about double logins: it keeps a table of accounts that
are online, and when an account that is online verifies again it sends a kick
ahead of the result.

| thread | code | works on |
|---|---|---|
| accept thread | `IOCPServer::AcceptThreadProc` | slots of the session pool |
| completion workers | `IOCPServer::WorkerThreadProc` | receives, sends, teardown; calls `ChannelManager` |
| no-receive sweep (main thread) | `SessionPool::ReapIdleSessions` | silent sockets |
| link thread | `LoginLinkThread::ThreadLoop` | inter-server link, pending selections, admission, kicks |
| one thread per channel (6) | `Channel::TickLoop` | players, maps, monsters of the channel, its mailboxes |
| DB thread | `DBThread::ThreadLoop` | one FIFO of loads and saves |
| shared services thread | `SharedServicesThread` | name directory, whispers |
| path finder thread | `PathfinderThread` | path requests of monsters |
| login server | the same library twice (client port, inter-server port), a DB thread, a token sweep | tokens, online table, accounts |

### Components

| component | state | operations | correct when |
|---|---|---|---|
| session pool (`SessionPool`, `Session`) | slots, generations, pending-I/O counts, send rings | allocate, lease, send, receive, disconnect, release, sweep | a slot is never reused under somebody, never lost; one disconnect notice per connection, after its packets; one receive and one send at a time |
| accept pool (`IOCPServer`) | posted AcceptEx operations | post, retry, stop | the server keeps accepting |
| channel manager | session map, account index, save gate, population, pre-auth counters | admit, kick, leave, route, migrate, attach player | one session per account; index and gate match the sessions; no session without an owner |
| login link | request queue, pending selections, link | verify, select channel / character, notify leave, snapshot, reconnect | every request ends; a result reaches its connection; nothing is admitted twice |
| channel | critical and movement mailbox, players in maps, tick clock | drain, update, flush, save, kick idle | jobs in order, no lost leave, no player without a session |
| DB thread | request FIFO | load, save, create, trade, stash | saves before the load of a replacement; no lost update |
| name directory | name -> sid | register, unregister, lookup | the entry of a later login survives the leave of an earlier one |
| items, trade | inventory, two trade states, ground items | pick up, drop, offer, confirm | items are neither lost nor doubled |
| world, monsters, path finding | cells, view sets, monster state | move, spawn, respawn, chase | everybody in view knows everybody in view |
| packet obfuscation | send and receive keys per session | scramble, descramble | both ends advance in the same order |
| two-lock queue, pools, ring buffer | nodes, free lists, indices | enqueue, dequeue, allocate, free | linearizable, no double allocation |
| lock-free queue | nodes, tags | enqueue, dequeue | no ABA (only the unit tests use it) |
| login server: tokens, online table | tokens, holder and last snapshot of every account | issue, consume, put, remove, refresh, sweep | a token works once; an account that plays is known, a ghost expires |
| login server: accounts | login attempts, queue to the DB thread | log in, create | one account per name |
| monitor, logger, config, data tables | - | - | not part of the protocol |

### How they interact

The library calls the game through `INetEventHandler` (`EnqueueConnect`,
`EnqueuePacket`, `EnqueueDisconnect`) from completion workers; the game calls the
library by handle (`SendTo`, `DisconnectTo`, `IsSessionAlive`). A handle holds the
slot and its generation, so that an old handle stops matching. Threads of the
game share `ChannelManager`'s maps under one reader/writer lock and otherwise talk
through queues: channel mailboxes, the requests of the link thread, the FIFO of
the DB thread. The two servers talk through frames on a TCP link that may break
at any time and is set up again by the link thread.

### What is hard

- The last reference of a session may be returned by any thread, while others
  still try to lease it, and the slot is reused at once.
- A connection can die at every point of the login handshake, which passes
  through a worker, the link thread, the other server, the DB thread and a
  channel thread, each of which looks the connection up by its handle again.
- A second and a third login of one account arrive while the first one still has
  its last save to write.
- The link fails with frames on their way in both directions; leave notices are
  fire-and-forget, and only a periodic snapshot and a sweep repair the tables.
- Mailboxes, queues and send rings have limits and drop what does not fit.
- The dirty bit of a player is cleared when his save is queued, not when it is
  written; a command may fail, a trade writes two rows, and the server may crash
  between any two commands.
- A trade is kept in two places and refers to slots of inventories; between its
  request and its end its partners may walk away, die, change channel or hang up.
- Paths arrive ticks after they were asked for, or never, for monsters whose slot may
  hold another one by then.

`PROJECT.json` ("hazards") lists these at the lines where they bite.

## Modules

### SessionPool, NetEvents: the connection life cycle

`SessionPool.tla` models `SessionPool.cpp`, `Session.cpp` and the completion paths
of `IOCPServer.cpp`. One variable per field of a slot (`generation`, `pendingIo`,
`disconnecting`, `sendInProgress`, ...), the operations the kernel owns (`posted`)
and the completion port (`completed`), and for every thread a label, the slot it
works on and the references it owes. One action per atomic section of the code: an
interlocked operation, a spin-lock section, a system call. What a peer sends is
one bit (data or end of stream); the send ring counts batches (`QueueCap`).
`lastRecv` is fresh or expired, time is not counted.

`ReapIdleSessions` tests a slot without a handle and then leases whatever handle the slot
has by then, which may be one that is still inside `OnAcceptComplete`. The model allows it,
and mostly nothing comes of it. Two steps do harm, and the history variable `overtaken`
records them: a `DecPendingIo` that leaves the count to a lease which is being aborted
(`LeavesToAborted`: neither of the two returns the slot), and the explicit `Release` of
`OnAcceptComplete` on a session that is still leased (the lease is then returned to a count of 0, or to the
next connection). The properties read "`overtaken`, or ...": they say that everything
is right up to such a step, the leases inside `OnAcceptComplete` included, and claim nothing after it.

`NetEvents.tla` is the abstract contract: a handle is opened once on a free slot,
hears packets only between opening and notice, is announced exactly once, and is
retired only after that. `SessionPool` implements it (`ImplementsNetEvents`, with
the refinement mapping in `SessionPool.tla`).

### Admission: the way of one account into the game

`Admission.tla` composes what the login of one account passes through:

| code | in the module |
|---|---|
| `ChannelManager`: pre-auth packets, disconnect notice, `OnLoginSuccess`, `OnSessionGone`, `KickByAccount`, `IsSaveReady` | `HandlePreAuthPacket`, `EnqueueDisconnect`, `Admit` / `RefuseDead`, `OnClientLeave`, `KickByAccount`, `IsSaveReady` |
| `LoginLinkThread`: `ThreadLoop` and every handler it calls | labels `at` = top, retry, pop, verify; `ReapPendingSelect`, `RetryDeferredSelect`, `MaybeSendOnlineSnapshot`, `SendVerify`, `RecvKick`, `VerifyOk`, `ProcessChannelSelect`, `ProcessCharacterSelect`, `ProcessPendingGone`, `Reconnect`, `Close` |
| `Channel`: leave, load-result and enter jobs, periodic save | `OnClientLeave`, `CharacterLoaded`, `CharacterNotLoaded`, `OnChannelEnter`, `Autosave` |
| `DBThread`: FIFO of loads and saves | `LoadCharacter`, `SaveFull` (either may fail) |
| login server: tokens, online table, sweep | `HandleTokenVerify`, `RemoveOnline`, `HandleFrame`, `SweepOnline` |
| `SessionPool`, abstracted by what the pool proves | `net`: open, closing, notified, gone |

Abstractions and why they lose nothing the properties see:

- **One account.** Accounts share no entry of any map; they share capacity and the
  link. Whether the server or a channel is full is therefore chosen anew at each
  test (`ccuFull`, `joinable`), and a request of another account may be the one that
  finds the link dead (`OtherRequestFails`).
- **What a character did** is the set of sessions whose play its state includes
  (`progress` in memory, `stored` in the database). A load takes `stored`, a save
  overwrites it: a lost update is a save that shrinks `stored`.
- **Time.** A deadline may have passed whenever it is tested. The exceptions are
  relations between deadlines that the code relies on: `ONLINE_GRACE_MS` is three
  snapshot intervals, so on a working link the sweep takes only accounts that
  snapshots do not name (`GraceOver`), and after a known failure as long as that
  the next snapshot is due (`syncDue`).
- A client sends the packets of a script and may stop or hang up anywhere; a
  packet dropped at a limit is one it did not send. A client whose character
  selection ends in a refusal does not retry on the same connection, as in the
  code.
- The leave job (save queued, then `OnSessionGone`) and an admission (map entry,
  then load queued) are single steps: between their halves only threads run that
  touch neither the entry of this session nor the order of its DB commands.
- Left out of the handlers: character creation and deletion and the lists sent to
  the client, which change no state kept here, and the drain at shutdown.

What the threads may do to each other in time is a record `timing` (type `Timing`),
chosen once per behaviour from the constant `Timings`, so that one run covers several
combinations and a property can name the one it needs:

- `splitTeardown`: other threads may run between `EnqueueDisconnect` and `Release`
  in `Session::DecPendingIo`. The code allows it.
- `lateFrames`: the two workers of the inter-server port may handle frames of a dead
  link after frames of its successor. The code allows it.
- `sweepUnnoticed`: the grace of the login server may run out while the game server
  has not noticed that the link is dead. The code allows it.
- `breaks`: how often the link may fail.

### Channels: who owns a session

`Channels.tla` follows sessions that play: how packets, disconnect notices and
whispers find the thread of the channel that owns a session, how the owner
changes while all of these are on their way, and who may touch its Player, its
send batch and its send key.

| code | in the module |
|---|---|
| `ChannelManager::EnqueuePacket`, `EnqueueDisconnect`, `PostToChannel`: resolve the channel under a read lock, enqueue after it | two steps each: `EnqueuePacket` / `EnqueueDisconnect`, then `Deliver`; `Route`, then `PostToChannel` |
| `OnSessionGone`, `MigrateChannel`, `RerouteLeave` | operators of the same names inside the job that calls them |
| `Channel::TickLoop`: `ProcessSessionEvent`, `ProcessJob` with its two lanes and their limits, `SendObjectUpdates` | `phase`, `done`, `TakeEvent`, `TakeCritical`, `OnStartMove`, `NextPhase`, `SendObjectUpdates` |
| session events | `DbResultJob`, `OnChannelEnter`, `OnChannelChangeEnter`, `OnStrayLeave` / `OnClientLeave` |
| packets | `OnStopMove`, `OnStartMove`, `OnPortal`, `OnChat`, `OnWhisper`, `OnChannelChange`, `Refuse` (all refusals of a handler) |
| `WhisperDeliverJob`, `WhisperFailJob` | `WhisperDeliver` |
| `m_objects`, `m_outboundPackets`, `m_flushList`, `m_batchQueued`, `m_sendKey` | `grid` (entries counted per map), `outbound`, `flushList`, `queued`, `writer` |

- A job is one step. It works on the maps and batches of its own channel, to which
  no other thread has access as long as `GridSound`, `SoleWriter` and `FlushListExact`
  hold, and what it changes in the session map is one write-lock section at its end.
- Everybody on a map sees everybody there (cells and view sets are left out), nobody
  dies, and whether a portal is in reach, a cooldown over or a channel full is
  open at every test. A channel other players fill is a refusal at any time.
- The movement mailbox sheds at its limit; the critical mailbox is large enough
  (its limit is a hazard without a property); the session event mailbox grows, as
  in the code.
- `writer`, `kept`, `changed` and `hurried` are history variables: the channel thread that
  advanced the send key last, the last move a mailbox took, sessions that left
  their first channel, and sessions whose portal ran before their enter job or that came
  back to a channel whose earlier enter job still waited.
- The client numbers its moves (`LocalPlayer::NextSeq`; `main.cpp` stamps each with it):
  `Numbered`, assumed by `ClientsAssumption`. Only `LatestMoveWins` depends on it.
- Trades, items, saves and the name directory are left out of the handlers (see the
  next modules); a whisper finds its addressee or is answered to its sender.

### Inventory, Trade: items of the players of one channel

`Inventory.tla` has the operations of `Inventory.cpp` as operators on the slots of one
inventory: stacking (`Poured`), placing, moving, splitting, equipping, removing. Each
`Can...` operator says when the code succeeds. `Trade.tla` builds the handlers of
`Channel.cpp` on them:

| code | in the module |
|---|---|
| `OnTradeRequest`, `OnTradeResponse`, `OnTradeAddItem`, `OnTradeRemoveItem`, `OnTradeAccept`, `OnTradeCancel`, `CommitTrade` | `Request`, `Respond`, `AddItem`, `RemoveItem`, `Accept`, `Cancel`, with the exchange inside `Accept` |
| `OnItemPickup`, `OnItemMove` / equip / unequip, `OnItemUse`, `OnItemDiscard`, expiry of ground items | `Pickup`, `Rearrange`, `Use`, `Discard`, `Expire` |
| portals, channel changes, leaving, death and respawn, as far as they end trades | `Portal`, `Leave`, `Arrive`, `Die`, `Respawn` |

- All handlers run on the thread of the channel, each to its end, so a handler is
  one step. The state of a trade is kept twice, once per player, as in the code
  (`TradeState`), and nothing in the model ties the two together.
- Positions, clocks, hit points and the unique numbers of items are left out: a
  pickup may be refused as too far or protected, and a player may die or rise, at
  any moment. A lethal hit and `CollectDiedPlayers` of the same tick are one step.
- `agreed` (the two offers a player accepted) and `gone` (what was used up, expired or was
  pushed out of a full ground) are history.

### Saving: how an inventory reaches the database and comes back

`Saving.tla` follows the inventories through autosave, logout, trade commit, failure
notice, load, crash and shutdown. An inventory is a set of items; how it changes is in
`Trade` and how sessions are routed in `Channels`.

| code | in the module |
|---|---|
| `Channel::TickLoop`: drain of session events, jobs, the periodic autosave with its dirty bits | `phase`; `BeginJobs`, `EndTick`, `Autosave` |
| item handlers, `CommitTrade`, `OnChannelChange` with the `MarkDbDirty` of the handoff | `Pickup`, `Discard`, `CommitTrade`, `ChangeChannel` |
| load result, enter, leave, `RerouteLeave`, `InventorySaveFailedJob` | `Loaded`, `LoadFailed`, `Enter`, `StaleEnter`, `Leave`, `Reroute`, `SaveFailed` |
| `DBThread` and `LoadCharacterCommand`, `SaveFullCommand`, `TradeCommitCommand` | `queue`, `Execute`: a command is applied, fails, or is applied and its answer is lost |
| shutdown of `main.cpp`: workers and link, channels, DB thread | `Close`, `StopChannels`, `ShutdownSave`, and the drain of the FIFO |
| a crash and a new start | `Restart`, at any moment: memory and queue are gone, the rows stay |

- The clear of a dirty bit at autosave is optimistic: `inv` may be ahead of the rows with
  the bit off as long as a command or a failure notice is on its way. That is
  what `NothingForgotten` is about.
- `torn`, `failed` and `late` are history variables that name the cases in which the code
  does not promise anything: an item changed hands without a common transaction
  (a trade whose commit failed and is saved in halves; a discard not yet saved and a
  pickup by somebody else), a last save that failed (it has no retry), and a player
  who changed to a channel that had stopped already. `SavedAtTheEnd` and `NoItemTwice`
  hold outside of them.

### Monsters: spawn groups, behaviour, paths

`Monsters.tla` models one map: the tick phases of `Map` and `MapManager` (jobs, `Update` of every
monster, sweep of corpses, reservations that are due), the states of `Monster.cpp` (idle,
patrol, chase, attack, return, dead), and the bounded queue of `PathfinderThread` with
answers that drop at the limit of the critical mailbox.

- A spawn group counts its monsters, corpses included (`alive`), and its
  reservations (`later`, `due`).
- Positions, walls and hit points are left out: whether a target is in range, in
  reach or lost, whether a spot is walkable and whether a path is found is open at
  every test. Which waypoints a search returns is left out; what matters is who asked
  for a path, and when.
- The cooldown of requests is left out: to ask is optional for a monster that may ask.
- `life` and `cleared` are history: the birth of a monster, and its last `ClearPath`.

## Runs

The runs of `SessionPool`, `Admission`, `Channels` and `Saving` switch TLC's deadlock check off:
clients are finite, tokens and incarnations are bounded, a server shuts down, so
every behaviour may stop. In `trade` and `monsters` it is on.

| run | instance | properties |
|---|---|---|
| `session` | 2 slots, 2 incarnations, 2 workers, 1 caller, the sweep (also inside `OnAcceptComplete`), 2 batches; see `Affordable` | `TypeOK`, `CountIsExact`, `NoUseAfterRelease`, `NoSlotLeak`, `FreeListSound`, `OneOwnerPerContext`, `NoStalledSend`, `ImplementsNetEvents` |
| `session_live` | 1 slot, 2 incarnations, fair threads | `TeardownCompletes`, `SilentSocketReaped` |
| `admission` | 2 connections; either `splitTeardown` and `lateFrames` on a link that stays up, or 1 failure of the link | `TypeOK`, `OneSession`, `IndexExact`, `GateMatchesKicked`, `NoOrphan`, `HolderKnown`, `ResultMatchesRequest`, `ProgressNeverLost` |
| `admission_live` | 1 session in the game and 1 login, 1 failure, fair threads, `lateFrames`, `sweepUnnoticed` | `GateReopens`, `GhostExpires`, `PendingEnds` |
| `channels` | 2 sessions, 2 channels, 2 maps, 2 jobs per tick, a movement mailbox of 1 | `TypeOK`, `GridSound`, `LeaveUnderWay`, `ArrivalUnderWay`, `PopulationExact`, `SoleWriter`, `FlushListExact`, `LatestMoveWins` |
| `trade` | 2 players with bags of 2 slots, 2 offers each, stacks of 2, one ground item at a time | `TypeOK`, `ItemsConserved`, `Paired`, `OffersCovered`, `ExchangeAsAgreed` |
| `saving` | 2 characters, 1 item, 2 channels, 1 fault, one character may come back | `NothingForgotten`, `NoItemTwice`, `SavedAtTheEnd` |
| `monsters` | one group of 2 monsters in 2 pool slots, 1 target, 1 kill, 2 requests, queue and mailbox of 1, fair ticks | `PopulationExact`, `FreshPaths`, `SelfHealing` |
| `admission_lost_update`, `admission_orphan`, `channels_dangling`, `saving_half_trade` | expected violations, see below | one each |

Bounds. One slot with two incarnations is the smallest pool in which an old handle
meets a new session, and every count, label and context is per slot; two slots are
needed only for the free list and for "another live handle on this slot". `Affordable`
of `MCSessionPool` therefore lets one slot go through both incarnations with all threads
on it, and both slots at once only with one incarnation of each, one worker and
one of caller and sweep at a time and one batch. Two
workers meet on one session as a receive and a send completion; a third would
have to hold a third operation, and a session never has more than two. Two
connections are enough for every pairwise race of an account (kick of a session,
kick of a pending, replacement waiting for a save); what three do is in
`admission_lost_update` (there TLC looks only at states in which clients send one
after the other and the request queue has at most two entries: a violation found
under a constraint is a violation). `MaxTokens` = 1 and the packets of the real
client (`Usual`) leave out clients that verify twice on one connection. One link
failure, with any prefix of the frames on their way delivered, meets every state
of the handshake; a second one that follows before a snapshot got through is a window of
the code (below).
`BOUND` in a comment marks each bound that is a guard: `MaxGen`, `MaxTokens`,
`breaks` in `Timings`, one waiting autosave per session, one optional snapshot on its way.
Symmetry is used only in runs whose properties are safety properties.

`channels` begins with one session playing in any channel and on any map and the
other about to log in (`BeginSpec`): a login in an empty server meets nothing the
later one does not. The newcomer plays one of four scripts (`Casts`): chat,
change channel and take a portal; change channels twice while the other one
whispers to it; change three times; or start, stop and start again. The first two put a migration
between any two steps of the other channel, a second one before the first has
arrived, and a leave, a whisper, a chat or a portal into every gap; the third brings
the session back to a channel that still holds its enter job, and the last fills the
movement mailbox. Two jobs per tick let a lane be exhausted and
packets be deferred. A third channel would be one more stop on the way of a session
whose enter jobs lie in two mailboxes already.

`trade` has bags and trades of two slots, so that offers of both sides together
overfill a bag, stacks merge or do not fit, and a slot is offered twice. A third player
would only be a second partner to ask, and a request is refused by whoever trades;
what it reaches is a pair that is being formed while one of the two is asked again,
which two players do with requests that cross.

`saving` has one item, which is what can be in two places; with two channels a player
changes channel between the queueing of his save and its failure notice. `Affordable` of `MCSaving`
keeps at most two session events and commands under way together, and one after an unsaved
discard was picked up. After an item was torn no property but `NothingForgotten` says
anything of it, so there no server shuts down and nobody comes back; and a character
comes back without a fault and without a shutdown. One fault puts a failure into any
place of the FIFO; a crash (`Restart`) may happen any number of times.

`monsters` has a pool of two for a group of two, so a spawn has to take the slot of a
corpse that was swept, while the other monster hunts. Two requests are an earlier
pursuit and the present one; a queue and a mailbox of one drop the second.

Fairness. `SessionPool`: every thread that is inside a library call goes on (weak
fairness of `Progress`); a closed socket completes its outstanding operations
(`CancelOutstanding`, what `closesocket` does); the spin lock of the pool is held for
a few instructions, so the thread that wants to return a slot gets it (strong
fairness of `SelfRelease`). Nothing obliges a peer to speak, the game to call or the
kernel to finish an operation of an open socket. `TeardownCompletes` also supposes
`LeasesPause`, that is that the game and the sweep are now and then without a lease of the
session: `FindAndLease` does not test `m_disconnecting`, so nothing but their pauses ends a chain of
leases that overlap. Both liveness properties except `overtaken`.
`Admission`: the link, channel, DB and login threads never stop and take a step
whenever they have one; a teardown that began ends; the sweep of the login server
runs periodically; and the snapshot interval elapses again and again (strong
fairness of a snapshot that is really sent, because the loop passes the test many
times before it is due). Clients promise nothing: they may hang on for ever
without a packet, and the idle sweep of pending selections is not counted on.
`Monsters`: the tick of the channel goes on (weak fairness of its phase changes), and
clocks advance while the code tests them again and again: the time to live of a
request runs out, corpses expire and reservations come due, and the random spot of a spawn
is walkable once in a while (strong fairness of `Update(s, TRUE)`, `SweepAll` and `TrySpawn`). The
path finder and the mailbox promise nothing: an answer may never come.
`Channels`, `Trade` and `Saving` have no fairness: their properties say what must hold or be
under way, not when it arrives.
`admission_live` starts from a reachable state, one session playing, to keep the
graph small; autosaves are left out of it.

What the runs show, in words:

- A slot is returned exactly when nobody needs it and always if nobody does, a
  disconnect notice comes once and last, no completion reaches another session,
  and bytes queued behind a send in progress are sent.
- An account never has two sessions in the map, even while a kicked one is still
  leaving; the account index and the save gate agree with the sessions; with two
  logins no save undoes a durable one; a dead connection never leaves a session,
  a pending selection, a shut gate or (for longer than the grace) an online entry
  behind; a verification result is never taken for another connection's; and a
  caught-up login server knows whom to kick.
- While a session changes channels, as often and as fast as it may, its Player is
  in the maps of its owner only, or its enter job is waiting there; its
  disconnect notice reaches the owner by way of every channel it was sent to; no
  old owner touches its send key or batch; the channel counts stay exact. The
  mailboxes may reorder and shed moves, and the Player still ends as the client
  last said.
- Whatever trades, pickups, drops, deaths and departures are mixed, no item is
  lost or doubled, two players trade with each other or not at all, what is
  offered is in the slot it was offered from, and an exchange is the one both
  accepted.
- What a player has in memory is in the database, on its way there, marked dirty, or
  a failure notice for it is on its way, through every channel change and failed
  save; a character that left or was saved at the shutdown keeps what he had; and no
  crash doubles an item, but for the exceptions named above.
- Every spawn group keeps its number through failed spawns, kills and sweeps, and is
  complete again after the last kill; a monster follows only a path that it asked
  for itself in its present pursuit, and none waits for ever for a dropped answer.

Each property of a passing run has been tried against a plausible bug in the
code it depends on: the definitions `Bad...` in the modules, named in
`PROJECT.json` ("mutants"), each of which TLC finds to violate it.

## Proofs

TLAPS proves the following for any values of the constants that satisfy the assumptions of
the modules: `SessionPoolAssumption` (any number of slots, threads, batches and incarnations),
`ChannelsAssumption` (any finite sets of sessions and channels, any maps, packets and limits;
`LastMoveCounts` alone also uses `ClientsAssumption`), `TradeAssumption` and
`InventoryAssumption` (any finite sets of players, maps and kinds, any bags, limits and things to
start with), `SavingAssumption` (any finite set of characters, any channels, items and bounds),
`AdmissionAssumption` (any finite set of connections, any scripts of handshake packets, any
timings) and `MonstersAssumption` (any groups, pool and queues; `SpawnsFit`, which the code tests
when it loads the tables, is not needed).

| theorem | module | says |
|---|---|---|
| `TypeCorrect` | `SessionPool_proofs` | `Spec => []TypeOK` |
| `CountCorrect` | `SessionPool_proofs` | `pendingIo` is exactly the outstanding operations plus what threads owe; until `overtaken` |
| `NeverUnderflows` | `SessionPool_proofs` | the count does not go below zero; until `overtaken` |
| `SlotOutlivesUsers` | `SessionPool_proofs` | no slot is recycled under a thread, an operation or a completion; until `overtaken` |
| `SlotsNeverLost` | `SessionPool_proofs` | a slot that is off the free list has somebody who will return it; until `overtaken` |
| `FreeListIsSound` | `SessionPool_events` | no slot is on the free list twice, and the slots there are as `Reset` left them; until `overtaken` |
| `ContextsHaveOneOwner` | `SessionPool_events` | each of the two contexts of a session has one owner; `m_sendInProgress` says who has the send; until `overtaken` |
| `SendsNeverStall` | `SessionPool_events` | queued bytes have a send in progress or about to be posted, or the session closes; until `overtaken` |
| `PoolImplementsContract` | `SessionPool_events` | every step is one of `NetEvents`, up to the one that sets `overtaken` |
| `ChannelsTypeCorrect` | `Channels_proofs` | `Spec => []TypeOK`; what is routed has a channel to go to, counts are never below zero |
| `OnlyOwnerSends` | `Channels_proofs` | only the thread of the owning channel advances the send key of a session |
| `FlushListsExact` | `Channels_proofs` | flush lists are the owned sessions with a batch, and empty while sessions are given back |
| `PopulationsExact` | `Channels_proofs` | `m_channelPlayerCount` counts the sessions of every channel |
| `NoticeNeverLost` | `Channels_proofs` | a disconnect notice is on its way until the owner took it |
| `PlayersStayInTheirMaps` | `Channels_proofs` | a Player is in the maps of its owner alone, on its map and once, unless hurried |
| `NobodyIsLost` | `Channels_proofs` | a Player in no map of its owner has an enter job there |
| `LastMoveCounts` | `Channels_proofs` | a Player with no move waiting does what the last move taken into a mailbox said |
| `AddAmount`, `MoveRearranges` | `Inventory_proofs` | pouring adds exactly the quantity, moving keeps limits and amounts |
| `TradeTypeCorrect` | `Trade_proofs` | `Spec => []TypeOK`; no slot above its limit |
| `TradesStayPaired` | `Trade_proofs` | who trades has a living partner on his map who trades with him |
| `OffersStayCovered` | `Trade_proofs` | what is offered lies in the slots it names until the trade ends |
| `NoItemIsLost` | `Trade_proofs` | per kind, inventories, ground and what is gone add up to the same number |
| `ExchangesMatchTheDeal` | `Trade_proofs` | an exchange moves just the two offers that one side had accepted as they are |
| `SavingTypeCorrect` | `Saving_proofs` | `Spec => []TypeOK`; who is in a map was loaded |
| `ChangesAreNotForgotten` | `Saving_proofs` | an inventory is in the rows, queued, dirty, or a failure notice for it is where its owner is |
| `ItemsStayUnique` | `Saving_proofs` | no item is in two inventories or in two characters' rows, but for `torn` |
| `LeavingIsSaved` | `Saving_proofs` | who left or was found by the shutdown keeps what he had, but for `failed` and `late` |
| `MonstersTypeCorrect` | `Monsters_proofs` | `Spec => []TypeOK` |
| `GroupsStayComplete` | `Monsters_proofs` | monsters and reservations make up the group, and wire ids are unique |
| `PathsStayFresh` | `Monsters_proofs` | a monster follows only a path it asked for in this life and pursuit |
| `AdmissionTypeCorrect` | `Admission_proofs` | `Spec => []TypeOK`; who plays or is kicked is in the session map |
| `SessionsKeepAnOwner` | `Admission_proofs` | a session whose connection is down has its leave job under way (`NoOrphan`) |
| `ResultsBelongToTheirRequest` | `Admission_proofs` | a result is read for the connection that is verified (`ResultMatchesRequest`) |
| `IndexNamesTheSession` | `Admission_proofs` | `m_accountToSid` names the session that was not kicked (`IndexExact`); under `OneToken`, `OneFailure` |
| `SessionsAreKnownOnline` | `Admission_proofs` | after a snapshot the login server knows who plays (`HolderKnown`); under `OneToken`, `OneFailure` |
| `GateFollowsTheKick` | `Admission_proofs` | the gate is shut while a kicked session has not left (`GateMatchesKicked`); under `OneToken`, `ThreeConnections` |
| `AccountHasOneSession` | `Admission_proofs` | one session per account (`OneSession`); under `OneToken`, `OneFailure`, `TwoConnections` |
| `StoredPlayIsKept` | `Admission_proofs` | no save of an older state follows a stored one (`ProgressNeverLost`); under `OneToken`, `OneFailure`, `TwoConnections` |

The theorems about `SessionPool`, `Channels`, `Trade`, `Saving` and `Monsters` have no condition
on the constants but the assumptions above; what they except is named by the history variables `overtaken`,
`hurried`, `torn`, `failed` and `late`, which the
properties mention and the runs reach. The first three of `Admission` hold for all constants; the
others say under which timings and for how many connections the code keeps what it
promises, as named hypotheses on the constants:

- `OneToken`: a client verifies once per connection, as the real one does.
- `OneFailure`: the link fails at most once, the game server notices it before the grace of the
  login server runs out (`~ sweepUnnoticed`), and frames of the dead link are handled
  before those of the next one (`~ lateFrames`), unless there are only two connections.
- `TwoConnections`, `ThreeConnections`: how many connections there are for the account.

Each of them marks a real limit: dropped, it lets TLC violate some property that assumes it. "More windows", below,
says which. Only the `OneToken` of the gate may be more than that property needs: two connections
that verify twice do not violate it. `splitTeardown`, the packets the clients send, failed loads and saves and
full channels are not restricted by any hypothesis (`NoOrphan` itself excepts `splitTeardown`). The instance of `admission` satisfies all three,
so each theorem covers its run.

**`SessionPool`: counting.** None of these is inductive as it stands. That the count is exact needs
to know that a completion belongs to the incarnation that posted it; that needs the slot
not to be recycled while an operation is outstanding, which needs the count to be
exact. `IInv` is the conjunction that carries all of them at once: `TypeInv`
(types, and where a thread at each label stands: it has a slot, what it owes, which
operation it may be finishing) and `SafeInv`, whose parts are named for what they say: the free list has no
duplicates and is the set of slots whose last handle is of an earlier generation
(`FreeUnique`, `SlotGen`), the game knows only issued handles (`KnownIssued`), a thread that uses
a session has the present incarnation (`UserOK`), operations are of the present
incarnation (`IoCurrent`), one receive and one send (`RecvAlone`, `SendAlone`), the
count (`Counted`), who tears a slot down or sets it up is alone on it but for
leases about to abort (`ClosingAlone`, `AcceptAlone`), every slot has somebody to return it
(`Kept`), and an aborting lease is on a slot that is being returned, or that the accept thread has not counted its
first receive on, or that has another reference besides (`AbortOK`). The third case of `AbortOK` is where
`overtaken` comes from: a lease granted at zero inside `OnAcceptComplete` may be aborted
after others have come and gone. `SafeStep` proves that every step which does not set `overtaken` keeps `IInv`, one lemma per action, with
lemmas on the cardinalities that `Counted` is made of; `Inductive` is then `[](overtaken \/ IInv)`. `TypeOK`,
`CountIsExact`, `NoUseAfterRelease` and `NoSlotLeak` are also checked by `session`.

**`SessionPool`: events.** `SessionPool_events` starts from `IInv` and adds four facts (`EInv`): a slot
off duty is as `Reset` left it (`FreshFree`); a send in progress has bytes, and is with the
kernel, in the completion queue or with the worker that completes it (`SendOwned`);
`SendsGoOn` (`NoStalledSend` without its exception), whose witness is the thread between the test and the set of `m_sendInProgress`;
and a handle has had its notice exactly if its teardown is past it (`NoticeOnce`). The
refinement then goes step by step: the allocation of a slot, a completed
receive, the notice and the release map to the four actions of `NetEvents` (`OpenStep`,
`DeliverStep`, `AnnounceStep`, `RetireStep`), every other step leaves the mapped variables alone.
`NoticeOnce` and `ClosingAlone` are what makes a packet after the notice, or a second notice, impossible.

**`Channels`: owners.** The first five properties hold each other up, with four more facts, so
`IInv` of `Channels_proofs` carries them together. A session that is connected, attached
or has a batch is in the session map (`Mapped`); what is routed for a session is its own,
and nothing but its leave job after the notice (`Notices`). A character is loaded once,
for the channel the session was admitted to, and nothing of the session is in the game
before (`LoadOnce`); the enter job of a login runs in the phase in which it was posted,
that is before the session can change channels (`EnterFirst`). `SoleWriter` needs the last
two, because neither `DbResultJob` nor `OnChannelEnter` looks at the owner before it
sends. A flush at the end of a tick sends to everybody in the flush list, so
`SoleWriter` also needs `FlushListExact`; that one needs `Mapped` at logins and its own
second half at leaves, which take no session off the list. The counts need that a login
finds the session in no channel (`Mapped`), and that a session is counted where it is.
`LeaveUnderWay` needs `Notices`: what `Deliver` hands over for a noticed session is the
leave job. Mailboxes are sequences; Parts 2 and 3 say once what is in them, and how often,
after a job was taken or put (`Taken`, `Put`, `EventsPassed`, ...), and the steps that post
no job of a login are `Quiet`.

**`Channels`: maps.** `GridSound` is not inductive, because an enter job inserts without a look
at the map. `Placed` adds to it, for a session that never hurried, that it has at most
one enter job of a change in each mailbox, and that a channel which owns it and has an enter job for it
has it in no map (`Awaited`). That an enter job of the login and one of a change
never meet is `LoginBefore`. With these, a step either leaves the session where it is,
inserts it by the one enter job that is gone afterwards, moves it to another map of the same channel, or
takes it out: the lemmas of Part 11 are one per step of this kind. `Arrives` is
`ArrivalUnderWay` in the same terms; what it needs is that only the owner takes an enter
job off the list for good.

**`Channels`: moves.** `LatestMoveWins` speaks of the moment when no move waits. `Ordered` says what
holds before it, per session: the numbers of the moves are the smaller the further a move has come,
script, worker, mailbox, `m_lastSeq` (`Ahead`); until the first change all moves wait
at the owner (`Here`); the last move that a mailbox took either was executed, or waits and is newer
than all others and than what the Player does (`Latest`); nobody moves while he is loaded
(`Unmoved`). A start that is shed is not the last one kept, and a stop that overtakes is the
newer one, which is why the sequence number in `OnMove` is enough. `Ordered` is proved as a second
invariant, from `IInv` and `ClientsAssumption`.

**`Inventory`, `Trade`.** `IInv` of `Trade_proofs` is `TypeOK`, `Sound` for every player, and `ItemsConserved`. `Sound` is
`Bond` (partners name each other, are alive, on the same map and in fitting states:
a request meets an answer, a window a window) and `Terms` (only an open window offers or has
accepted, what is offered is covered by the slots, and who accepted agreed to
just the two offers that lie there). `Bond` is what makes `OffersCovered` inductive:
a handler that ends the trade of one ends that of the other. `NoItemIsLost` is an equation of sums over
slots, players and maps; `Inventory_proofs` has the lemmas about one inventory (what pouring,
placing, removing, splitting and equipping do to the amount of each kind), `Trade_proofs` lifts them
to the world. That the exchange cannot lose anything rests on `OffersCovered`
(the removals succeed) and on the test of `Accept` that what is received fits.

**`Saving`.** An inventory is in memory, in commands, in notices and in rows, and none of
the three properties is inductive by itself. `IInv` has types of what is in the queues
(`CommandsSound`, `EventsSound`, `EntersSound`), that a load answers with the rows it will be
measured by (`LoadsSound`: no command of that character is queued then), and for each character
`PlayersSound`: what holds while he loads (`Waits`), plays (`Plays`), where he is
(`OnMaps`), what keeps his changes (`Kept`: stored, queued, dirty or noticed), and what
he left (`Rests`). `NoItemTwice` needs to look into the queue: `ItemsTraced` says that as long as nothing was torn
the claims on an item, by the rows, by each command after the other, and by the memory,
form a chain, in which it changes hands only by the commit of a trade, that is for
both sides at once. `GroundFirm` adds that an item which lies on the ground and is in an
inventory all the same (the save after its discarding failed, and its owner came back) is
firmly stored for him, so that a pickup by another is seen to tear it.

**`Monsters`.** `MInv` has the books of the groups (`alive` is the number of monsters in the map, and with
the reservations the size of the group), that ids are below `nextId` and
therefore unique, and what a pursuit may rely on (`Pursuits`): the path of a monster is
of its life and was asked for after `cleared`, and what it waits for is too. `nextId` is
never reused, so an answer for a slot that was swept and filled again finds no
monster with its id.

**`Admission`: results.** `NoOrphan` and `ResultMatchesRequest` need little: the leave job is on its way from
the notice on, and `Exchange` says that the link has at most one verify under way, of the connection `cur`,
that a result is the last frame of its answer, and that nothing is left to read
when the link thread is not waiting for it. `Classes` then sorts the steps of all threads by what they do to the account:
drop pendings (`Drops`), admit one (`Admits`), connect or leave, read a kick or a result, let the
login server handle a frame, or leave all that alone (`Between`). The invariants of Parts 2 and 3 have one lemma per class.

**`Admission`: who has the account.** `HolderInv` is about the *holders*, the pendings and the sessions that
were not kicked: there is at most one (`OneHolder`), and if it is a session, the index
names it (`IndexExact`). That a second one never appears is decided on the other machine: an
accepted connection finds no holder, or the kick that will free the account is the frame
ahead of its result (`Caught`). That needs the online table: it names the holder, or somebody whose acceptance was lost and who will not
send a leave (`Quiet`), or nobody, and then only until the snapshot after the reconnection
(`Known`, `Recovering`). Snapshots and leaves on their way must not undo it; a leave is sent
once, by who held the account and does not any more, because a connection with one token
goes one way: new, accepted, pending, in the map, gone (`Once`). With late
frames a snapshot of an old holder can be believed again. That does no harm when every token is spent,
since nobody asks any more, and with two connections that is always so
(`Watched`).

**`Admission`: the gate.** `m_pendingSaveAccounts` is a set of accounts, opened by the first kicked session that leaves, so
`GateMatchesKicked` needs that only one session is kicked at a time (`KickedOnce`). While it
is, somebody who kicked it, or lost the account to it, is waiting or has given up, and is
not in the map (`Kicker`); to kick another session takes the session
and a third connection whose kick is read. Three connections are too few for that, whatever the
link does: this argument uses no part of `HolderInv`.

**`Admission`: one session, stored play.** With two connections the map has one session (`OneInMap`): a pending next to it is
its replacement, so the gate stops it (`Replaced`), and it can only have become one by seeing the kick
(`Gated`). `ProgressNeverLost` follows from a chain (`ChainInv`): what the row stores is part of each
save queued, each save is part of the next one (`Below`, `Rising`), and all of them of what the Player has
(`Above`); a session whose load is under way has no save of another queued
behind it (`FromHere`), since nobody else is in the map to make one. Saves may fail: a link
of the chain is then left out.

Sums and cardinalities are taken by induction over sets of numbers and over subsets of a finite
set (`Induct`, `SubsetInduct`, `LeastExists`): the library's induction theorems take an operator as a
parameter, but `WFMin` does not, and a least counterexample serves as well.

Only model-checked: all liveness (`TeardownCompletes`, `SilentSocketReaped`, `GateReopens`, `GhostExpires`, `PendingEnds`,
`SelfHealing`), because temporal reasoning with fairness is beyond the provers used. Of the listed theorems all
state a property of a run but `NeverUnderflows`, which `CountCorrect` rests on,
`AddAmount` and `MoveRearranges`, on which the proofs about trades rest, and the type correctness of `Saving` and
`Monsters`, which their runs leave to the proof.

## Where the code and its comments disagree

- **Three logins in a row** (`admission_lost_update`). A replacement waits for the
  last save only if its own verification kicked the session. The second login
  kicks the first and erases the index; the third finds nothing to kick, is not a
  replacement, and may load before the first one's save is queued.
- **Death during admission** (`admission_orphan`). `OnLoginSuccess` tests liveness
  by generation, which advances only after the disconnect notice. A connection
  between the two is admitted and never removed.
- **A portal before the enter job** (`channels_dangling`). `MigrateChannel` posts the
  enter job before a worker can route a packet to the new channel, but session
  events are drained only at the start of a tick. A portal that arrives while the
  new channel is past that point runs first and puts a Player on a map that is on
  none yet; the enter job adds it again. After the leave one entry is left, of a
  Player that was given back to its pool. The proof of `GridSound` shows that there is
  one more way, and no third: a session that changes away from a channel and back
  while that channel has not yet taken its first enter job finds two of them there.
  That takes three changes, and a channel whose tick lasts for two cooldowns of a change
  (`CHANNEL_CHANGE_MIN_INTERVAL_MS`); without this case in `hurried`, TLC finds the Player twice
  on a map. `hurried` names both, and `GridSound` holds for every other session.
- **A trade saved in halves** (`saving_half_trade`). The commit of a trade is one transaction so
  that no crash can separate its halves. When it fails, both players are
  marked dirty again and saved by two commands of their own: between the two the
  item has no owner in the database, or two. `NoItemTwice` shows that, with unsaved discards,
  this is the only way.

The comments they contradict are quoted in `PROJECT.json` ("findings").

### More windows

One window is part of the model and of its runs, and its harm is marked by `overtaken`: the lease
of the sweep inside `OnAcceptComplete`. In the instance of `session`, TLC finds the count at -1 when
`NoUnderflow` is stated without the exception (the lease survives the explicit `Release` of a
failed first receive), and a slot that nobody returns when `NoSlotLeak` is (a lease that aborts
swallows the crossing of zero). Without a sweep (`Reapers = {}`) TLC finds `overtaken` always FALSE.

Other windows of the code are parameters of the models, kept closed in the runs above and named
in the hypotheses of the theorems. What TLC finds when they are opened:

- `sweepUnnoticed` of `Admission`. Snapshots on a dead link are stamped as sent; after the
  reconnection the login server may not know who plays until the next one is due. With
  it on, two connections suffice to violate `IndexExact`, `OneSession` and
  `ProgressNeverLost`: the next login kicks nobody. (`HolderKnown` excepts this timing and `lateFrames`.)
- A second failure of the link, after the reconnection and before the snapshot arrived.
  `MaybeSendOnlineSnapshot` sets `m_lastSyncMs` before it sends, and a reconnection does not reset it
  (`LoginLinkThread.cpp:537-538`). If the entry of the account was swept during the first failure, it stays unknown for another
  interval. `breaks` = 2 violates the same three properties and `HolderKnown`.
- `lateFrames` together with a failure and three connections. A snapshot of the dead link,
  handled late, makes the login server kick for a holder who has left, or hides the
  present one: `IndexExact` is violated. With two connections TLC and the proof agree that
  nothing happens.
- Two verifications on one connection (`MaxTokens` = 2) violate `IndexExact` and `OneSession`. The real
  client sends one.
- Three connections violate `OneSession` and `ProgressNeverLost` without any failure (the run
  `admission_lost_update`); four violate `GateMatchesKicked`: a second session is kicked before the first one has left,
  and the account has one entry in `m_pendingSaveAccounts` for both.

## Not modelled

- `serialization`, `logger`, `config`, `timer`, `locks`, `monitor`, `password_hashing`, data tables: layout,
  I/O, wrappers over one system call, or read-only data. Locks appear in the models
  as atomic sections. Of `db_providers` only what a command reads and writes is modelled,
  not its statements.
- Vendored code under `ThirdParty` (ImGui, rapidyaml, googletest, the MySQL headers) is most of the
  lines of the repository and none of the servers' logic; what they do of it (YAML
  of the data tables, a MySQL connection) enters the models as a step that succeeds
  or fails.
- The search of the path finder and the cells and view sets of the maps: computations on
  positions, which the models leave out; `Monsters` leaves the result of a search open.
- The ring buffer, the object pools and the packet obfuscation, which work on bytes or memory.
- `LockFreeQueue`: only `Tests/UnitTests/LockFreeQueueTest.cpp` uses it, no server does.
- A restart of the login server, which empties the online table and the tokens. What `Admission` has
  of it is the sweep that forgets the account while the link is down.
- Handshakes no real client sends (two selections, none, out of order) are in no run; the theorems
  that name no script (`AdmissionTypeCorrect`, `IndexNamesTheSession` and the others) cover them.
- The AcceptEx pool, the name directory, and the login and creation of accounts.
- A player who changes to a channel that has stopped is in no map and is not saved by the
  shutdown (exception `late` of `Saving`); an unsaved discard and a saved pickup of the same
  item may both survive a crash (exception `discard`).
- The reuse of socket handle values by Windows while another thread still reads
  `m_sock`, and the wrap-around of the 32-bit generation.
- The last save of a session is not repeated when it fails; `Saving` lets it fail
  (exception `failed`), `Admission` requires only that what became durable stays.
- Tests, the stress client, the editors and rendering.

## Plan

Done: `SessionPool` with `NetEvents`, `Admission`, `Channels`, `Inventory` and `Trade`, `Saving`, `Monsters`,
all with their proofs.

Next, in this order:

1. **What `Channels` leaves out**: the receive and send keys, which must advance in
   wire order and for shed packets too; the limit of the critical mailbox.
2. **Queues and pools**: `TwoLockJobQueue` (DROP and GROW), `ObjectPool` / `TlsObjectPool`,
   `RingBuffer` with framing; each shown to implement a bounded FIFO or a set.
3. The name directory, the accept pool, account creation.

Modules to be proved about use no RECURSIVE operator.
