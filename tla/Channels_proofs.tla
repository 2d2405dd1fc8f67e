---------------------------- MODULE Channels_proofs ----------------------------
(***************************************************************************)
(* Proofs about Channels for any number of sessions, channels, maps and    *)
(* packets: types, who sends on a session, the flush lists, the counts of  *)
(* the channels, that no disconnect notice is lost, who is in which map,   *)
(* and that the last move of a session wins.                               *)
(*                                                                         *)
(* Part 1: what else holds in every reachable state.                       *)
(***************************************************************************)
EXTENDS Channels, FiniteSetTheorems, SequenceTheorems, TLAPS

(***************************************************************************)
(* Jobs in a mailbox.                                                      *)
(***************************************************************************)
In(q, e)   == \E i \in DOMAIN q : q[i] = e
Once(q, e) == \A i, j \in DOMAIN q : q[i] = e /\ q[j] = e => i = j

Loaded(s) == Job("loaded", s, None)
Enter(s)  == Job("enter", s, None)
Leave(s)  == Job("leave", s, None)

(***************************************************************************)
(* A session that is connected, plays or has something to send is in the   *)
(* session map; only one that was announced as closed may be gone.         *)
(***************************************************************************)
Mapped ==
  \A s \in Sids :
    /\ net[s] = "new" => home[s] = None
    /\ net[s] \in {"open", "closed"} => home[s] # None
    /\ s \in attached => home[s] # None
    /\ s \in queued => home[s] # None

(***************************************************************************)
(* The jobs on their way for a session are its own; a leave job follows    *)
(* the notice, and nothing else is routed for the session after it.        *)
(***************************************************************************)
Notices ==
  \A s \in Sids :
    /\ routing[s] # Nothing => routing[s].job.sid = s
    /\ routing[s] # Nothing /\ routing[s].job.kind = "leave" => net[s] = "noticed"
    /\ net[s] = "noticed" /\ routing[s] # Nothing => routing[s].job = Leave(s)
    /\ \A c \in Channels : In(events[c], Leave(s)) => net[s] = "noticed"

(***************************************************************************)
(* A character is loaded once, for the channel the session was admitted    *)
(* to; nothing of the session is in the game before.                       *)
(***************************************************************************)
LoadOnce ==
  \A s \in Sids :
    /\ net[s] = "new" \/ loads[s] # None =>
         \A c \in Channels : ~In(events[c], Loaded(s))
    /\ net[s] = "new" => loads[s] = None
    /\ loads[s] # None => home[s] \in {None, loads[s]} /\ s \notin attached
    /\ \A c \in Channels :
         /\ Once(events[c], Loaded(s))
         /\ In(events[c], Loaded(s)) => home[s] \in {None, c} /\ s \notin attached
         /\ \A d \in Channels :
              In(events[c], Loaded(s)) /\ In(events[d], Loaded(s)) => c = d
         /\ In(events[c], Enter(s)) =>
              /\ loads[s] = None /\ net[s] # "new"
              /\ \A d \in Channels : ~In(events[d], Loaded(s))

(***************************************************************************)
(* An enter job of a login runs in the phase in which it was posted, and   *)
(* therefore before its session can change channels.                       *)
(***************************************************************************)
EnterFirst ==
  \A s \in Sids, c \in Channels :
    In(events[c], Enter(s)) => phase[c] = "events" /\ (s \in attached => home[s] = c)

(***************************************************************************)
(* The enter jobs, and who is in which map.                                *)
(***************************************************************************)
Again(s) == Job("changeEnter", s, None)
Comes(t) == {Enter(t), Again(t)}

(* The enter job of a channel change is posted after the one of the login  *)
(* was taken.                                                              *)
LoginBefore ==
  \A s \in Sids, c \in Channels :
    /\ Once(events[c], Enter(s))
    /\ In(events[c], Again(s)) =>
         /\ net[s] # "new" /\ loads[s] = None
         /\ \A d \in Channels : ~In(events[d], Loaded(s)) /\ ~In(events[d], Enter(s))

(* Where t is drawn, and that an enter job finds its Player in no map.     *)
Alone(g, h, a, mp, t) ==
  \A x \in Channels, m \in Maps :
    g[x][t][m] > 0 => g[x][t][m] = 1 /\ h[t] = x /\ t \in a /\ mp[t] = m
Awaited(ev, g, h, a, t) ==
  \A x \in Channels : \A e \in Comes(t) :
    In(ev[x], e) /\ h[t] = x /\ t \in a => \A m \in Maps : g[x][t][m] = 0
PlacedAt(t) ==
  /\ Alone(grid, home, attached, map, t)
  /\ \A x \in Channels : Once(events[x], Again(t))
  /\ Awaited(events, grid, home, attached, t)
Placed == \A t \in Sids \ hurried : PlacedAt(t)

Drawn(g, h, t) == \E m \in Maps : g[h[t]][t][m] > 0
Called(ev, h, t) == \E e \in Comes(t) : In(ev[h[t]], e)
Arrives == \A t \in attached : Drawn(grid, home, t) \/ Called(events, home, t)

(***************************************************************************)
(* The moves of a session.                                                 *)
(***************************************************************************)
(* A move of t in a mailbox of c; a move its worker is about to enqueue.   *)
Waits(c, t, j) ==
  /\ j.sid = t
  /\ In(moves[c], j) \/ (j.kind = "stop" /\ In(critical[c], j))
Sending(t) == routing[t] # Nothing /\ routing[t].job.kind \in Moves
Loading(t) ==
  net[t] = "new" \/ loads[t] # None \/ \E c \in Channels : In(events[c], Loaded(t))

(* Moves are newer the less far they have come.                            *)
Newer(t, n) == lastSeq[t] < n /\ \A c \in Channels : \A j : Waits(c, t, j) => j.arg < n
Ahead(t) ==
  /\ Numbered(script[t])
  /\ \A i \in DOMAIN script[t] : script[t][i].kind \in Moves =>
       /\ Newer(t, script[t][i].arg)
       /\ Sending(t) => routing[t].job.arg < script[t][i].arg
  /\ Sending(t) => Newer(t, routing[t].job.arg)

(* Before its first channel change all moves of t are with its owner.      *)
Here(t) ==
  t \in attached \ changed =>
    /\ \A c \in Channels : \A j : Waits(c, t, j) => home[t] = c
    /\ Sending(t) => routing[t].to = home[t]

(* The Player does what the last move taken into a mailbox said, or that   *)
(* move waits and is newer than every other and than what the Player does. *)
Settled(t) ==
  /\ t \in moving <=> kept[t] = "start"
  /\ \A c \in Channels : \A j : Waits(c, t, j) => j.arg <= lastSeq[t]
Expects(t) ==
  \E c \in Channels : \E j :
    /\ Waits(c, t, j) /\ j.kind = kept[t] /\ lastSeq[t] < j.arg
    /\ \A d \in Channels : \A i : Waits(d, t, i) => i = j \/ i.arg < j.arg
Latest(t) == t \in attached \ changed => Settled(t) \/ Expects(t)

(* Nobody moves while its character is being loaded.                       *)
Unmoved(t) ==
  Loading(t) =>
    /\ t \notin moving /\ kept[t] = "none" /\ ~Sending(t)
    /\ \A c \in Channels : \A j : ~Waits(c, t, j)

InOrder(t) == Ahead(t) /\ Here(t) /\ Latest(t) /\ Unmoved(t)
Ordered == \A t \in Sids : InOrder(t)

(* The shared services thread posts whispers only.                         *)
Posts == posting # Nothing => posting.job.kind = "deliver"

IInv ==
  /\ TypeOK /\ Mapped /\ Notices /\ LoadOnce /\ EnterFirst
  /\ SoleWriter /\ FlushListExact /\ PopulationExact /\ LeaveUnderWay
  /\ LoginBefore /\ Placed /\ Arrives /\ Posts

-----------------------------------------------------------------------------
(***************************************************************************)
(* Part 2: mailboxes.                                                      *)
(***************************************************************************)
LEMMA Constants == None \notin Channels
  BY ChannelsAssumption

LEMMA Kinds ==
  ASSUME NEW s \in Sids
  PROVE  /\ Loaded(s) \in Event /\ Enter(s) \in Event /\ Leave(s) \in Event
         /\ Job("changeEnter", s, None) \in Event
         /\ \A t \in Sids :
              /\ Loaded(s) = Loaded(t) <=> s = t
              /\ Enter(s) = Enter(t) <=> s = t
              /\ Leave(s) = Leave(t) <=> s = t
              /\ Loaded(s) # Enter(t) /\ Loaded(s) # Leave(t) /\ Enter(s) # Leave(t)
              /\ Job("changeEnter", s, None) \notin {Loaded(t), Enter(t), Leave(t)}
  BY DEF Loaded, Enter, Leave, Job, Event, EventKind

(* What a mailbox holds after a job was taken from it.                     *)
LEMMA Taken ==
  ASSUME NEW S, NEW q \in Seq(S), q # <<>>
  PROVE  /\ Head(q) \in S /\ Tail(q) \in Seq(S) /\ In(q, Head(q))
         /\ \A e : In(Tail(q), e) => In(q, e)
         /\ \A e : In(q, e) /\ Head(q) # e => In(Tail(q), e)
<1>1. Head(q) = q[1]
  OBVIOUS
<1>2. /\ Head(q) \in S /\ Tail(q) \in Seq(S)
      /\ Len(Tail(q)) = Len(q) - 1
      /\ \A i \in 1 .. Len(Tail(q)) : Tail(q)[i] = q[i + 1]
  BY HeadTailProperties
<1>3. Len(q) \in Nat \ {0} /\ DOMAIN q = 1 .. Len(q) /\ DOMAIN Tail(q) = 1 .. (Len(q) - 1)
  BY <1>2, LenProperties, EmptySeq
<1>4. In(q, Head(q))
  BY <1>1, <1>3 DEF In
<1>5. ASSUME NEW e, In(Tail(q), e) PROVE In(q, e)
  <2>1. PICK i \in 1 .. (Len(q) - 1) : Tail(q)[i] = e
    BY <1>3, <1>5 DEF In
  <2>2. i + 1 \in 1 .. Len(q) /\ q[i + 1] = e
    BY <2>1, <1>2, <1>3
  <2> QED
    BY <2>2, <1>3 DEF In
<1>6. ASSUME NEW e, In(q, e), Head(q) # e PROVE In(Tail(q), e)
  <2>1. PICK i \in 1 .. Len(q) : q[i] = e
    BY <1>3, <1>6 DEF In
  <2>2. i # 1
    BY <2>1, <1>1, <1>6
  <2>3. i - 1 \in 1 .. (Len(q) - 1) /\ i - 1 + 1 = i
    BY <2>2, <1>3
  <2>4. Tail(q)[i - 1] = e
    BY <2>1, <2>3, <1>2
  <2> QED
    BY <2>3, <2>4, <1>3 DEF In
<1> QED
  BY <1>2, <1>4, <1>5, <1>6

LEMMA TakenOnce ==
  ASSUME NEW S, NEW q \in Seq(S), q # <<>>, NEW e, Once(q, e)
  PROVE  Once(Tail(q), e) /\ (Head(q) = e => ~In(Tail(q), e))
<1>1. Head(q) = q[1]
  OBVIOUS
<1>2. /\ Len(Tail(q)) = Len(q) - 1 /\ Tail(q) \in Seq(S)
      /\ \A i \in 1 .. Len(Tail(q)) : Tail(q)[i] = q[i + 1]
  BY HeadTailProperties
<1>3. Len(q) \in Nat \ {0} /\ DOMAIN q = 1 .. Len(q) /\ DOMAIN Tail(q) = 1 .. (Len(q) - 1)
  BY <1>2, LenProperties, EmptySeq
<1>4. Once(Tail(q), e)
  <2> SUFFICES ASSUME NEW i \in 1 .. (Len(q) - 1), NEW j \in 1 .. (Len(q) - 1),
                      Tail(q)[i] = e, Tail(q)[j] = e
               PROVE  i = j
    BY <1>3 DEF Once
  <2>1. i + 1 \in 1 .. Len(q) /\ j + 1 \in 1 .. Len(q) /\ q[i + 1] = e /\ q[j + 1] = e
    BY <1>2, <1>3
  <2>2. i + 1 = j + 1
    BY <2>1, <1>3 DEF Once
  <2> QED
    BY <2>2
<1>5. ASSUME Head(q) = e, In(Tail(q), e) PROVE FALSE
  <2>1. PICK i \in 1 .. (Len(q) - 1) : Tail(q)[i] = e
    BY <1>3, <1>5 DEF In
  <2>2. i + 1 \in 1 .. Len(q) /\ 1 \in 1 .. Len(q) /\ q[i + 1] = e /\ q[1] = e
    BY <2>1, <1>1, <1>2, <1>3, <1>5
  <2>3. i + 1 = 1
    BY <2>2, <1>3 DEF Once
  <2> QED
    BY <2>3
<1> QED
  BY <1>4, <1>5

(* ... and after a job was put into it.                                    *)
LEMMA Put ==
  ASSUME NEW S, NEW q \in Seq(S), NEW f \in S
  PROVE  /\ Append(q, f) \in Seq(S) /\ Append(q, f) # <<>>
         /\ \A e : In(Append(q, f), e) <=> (In(q, e) \/ f = e)
<1>1. /\ Append(q, f) \in Seq(S) /\ Len(Append(q, f)) = Len(q) + 1
      /\ \A i \in 1 .. Len(q) : Append(q, f)[i] = q[i]
      /\ Append(q, f)[Len(q) + 1] = f
  BY AppendProperties
<1>2. Len(q) \in Nat /\ DOMAIN q = 1 .. Len(q)
  BY LenProperties
<1>3. DOMAIN Append(q, f) = 1 .. (Len(q) + 1)
  BY <1>1, LenProperties
<1>4. \A i \in 1 .. (Len(q) + 1) : i \in 1 .. Len(q) \/ i = Len(q) + 1
  BY <1>2
<1>5. Len(q) + 1 \in 1 .. (Len(q) + 1) /\ (1 .. Len(q)) \subseteq 1 .. (Len(q) + 1)
  BY <1>2
<1>6. ASSUME NEW e, In(Append(q, f), e) PROVE In(q, e) \/ f = e
  BY <1>1, <1>2, <1>3, <1>4, <1>6 DEF In
<1>7. ASSUME NEW e, In(q, e) \/ f = e PROVE In(Append(q, f), e)
  BY <1>1, <1>2, <1>3, <1>5, <1>7 DEF In
<1>8. Append(q, f) # <<>>
  BY <1>1, <1>2, EmptySeq
<1> QED
  BY <1>1, <1>6, <1>7, <1>8

LEMMA PutOnce ==
  ASSUME NEW S, NEW q \in Seq(S), NEW f \in S,
         NEW e, Once(q, e), f # e \/ ~In(q, e)
  PROVE  Once(Append(q, f), e)
<1>1. /\ Append(q, f) \in Seq(S) /\ Len(Append(q, f)) = Len(q) + 1
      /\ \A i \in 1 .. Len(q) : Append(q, f)[i] = q[i]
      /\ Append(q, f)[Len(q) + 1] = f
  BY AppendProperties
<1>2. Len(q) \in Nat /\ DOMAIN q = 1 .. Len(q) /\ DOMAIN Append(q, f) = 1 .. (Len(q) + 1)
  BY <1>1, LenProperties
<1>3. SUFFICES ASSUME NEW i \in 1 .. (Len(q) + 1), NEW j \in 1 .. (Len(q) + 1),
                      Append(q, f)[i] = e, Append(q, f)[j] = e
               PROVE  i = j
  BY <1>2 DEF Once
<1>4. CASE i \in 1 .. Len(q) /\ j \in 1 .. Len(q)
  BY <1>1, <1>2, <1>3, <1>4 DEF Once
<1>5. CASE i = Len(q) + 1 /\ j = Len(q) + 1
  BY <1>5
<1>6. CASE i \in 1 .. Len(q) /\ j = Len(q) + 1
  BY <1>6, <1>1, <1>2, <1>3 DEF In
<1>7. CASE i = Len(q) + 1 /\ j \in 1 .. Len(q)
  BY <1>7, <1>1, <1>2, <1>3 DEF In
<1> QED
  BY <1>2, <1>4, <1>5, <1>6, <1>7

-----------------------------------------------------------------------------
(***************************************************************************)
(* Part 3: the parts of TypeOK.                                            *)
(***************************************************************************)
SessionTypes ==
  /\ net \in [Sids -> {"new", "open", "closed", "noticed"}]
  /\ home \in [Sids -> Channels \cup {None}]
  /\ loads \in [Sids -> Channels \cup {None}]
  /\ attached \subseteq Sids /\ queued \subseteq Sids
  /\ writer \in [Sids -> Channels \cup {None}]

PlayTypes ==
  /\ moving \subseteq Sids /\ map \in [Sids -> Maps] /\ lastSeq \in [Sids -> Nat]
  /\ kept \in [Sids -> {"none"} \cup Moves]
  /\ changed \subseteq Sids /\ hurried \subseteq Sids

ChannelTypes ==
  /\ phase \in [Channels -> {"events", "critical", "moves"}]
  /\ done \in [Channels -> 0 .. JobsPerTick]
  /\ outbound \in [Channels -> SUBSET Sids] /\ flushList \in [Channels -> SUBSET Sids]

GridTypes == grid \in [Channels -> [Sids -> [Maps -> Nat]]]

Routed == CritJob \cup MoveJob \cup [kind : {"leave"}, sid : Sids, arg : {None}]

RouteTypes ==
  /\ script \in [Sids -> Seq(Packets)]
  /\ routing \in [Sids -> {Nothing} \cup [job : Routed, to : Channels]]

EventTypes == events \in [Channels -> Seq(Event)]

LaneTypes ==
  /\ critical \in [Channels -> Seq(CritJob)] /\ moves \in [Channels -> Seq(MoveJob)]

ChatTypes ==
  /\ whispers \in Seq([kind : {"whisper"}, sid : Sids, arg : Sids])
  /\ posting \in {Nothing} \cup [job : CritJob, to : Channels]

PopulationType == population \in [Channels -> Nat]

LEMMA TypeParts ==
  TypeOK <=> /\ SessionTypes /\ PlayTypes /\ ChannelTypes /\ GridTypes /\ RouteTypes
             /\ EventTypes /\ LaneTypes /\ ChatTypes /\ PopulationType
  BY DEF TypeOK, SessionTypes, PlayTypes, ChannelTypes, GridTypes, RouteTypes,
         Routed, EventTypes, LaneTypes, ChatTypes, PopulationType

LEMMA TypePartsNext ==
  TypeOK' <=> /\ SessionTypes' /\ PlayTypes' /\ ChannelTypes' /\ GridTypes' /\ RouteTypes'
              /\ EventTypes' /\ LaneTypes' /\ ChatTypes' /\ PopulationType'
  BY DEF TypeOK, SessionTypes, PlayTypes, ChannelTypes, GridTypes, RouteTypes,
         Routed, EventTypes, LaneTypes, ChatTypes, PopulationType

(* The job a session event takes is in the mailbox.                        *)
LEMMA EventTaken ==
  ASSUME EventTypes, NEW c \in Channels, NEW s \in Sids, NEW k, TakeEvent(c, k, s)
  PROVE  /\ events[c] \in Seq(Event) /\ events[c] # <<>>
         /\ Head(events[c]) = Job(k, s, None) /\ In(events[c], Job(k, s, None))
         /\ phase[c] = "events"
  BY Taken DEF EventTypes, TakeEvent

(* A job of the critical lane carries what its handler needs.              *)
LEMMA CriticalTaken ==
  ASSUME LaneTypes, NEW c \in Channels, NEW s \in Sids, NEW k, TakeCritical(c, k, s)
  PROVE  /\ critical[c] \in Seq(CritJob) /\ critical[c] # <<>>
         /\ phase[c] = "critical" /\ Tail(critical[c]) \in Seq(CritJob)
         /\ k = "stop" => Head(critical[c]).arg \in Nat
         /\ k = "change" => Head(critical[c]).arg \in Channels
         /\ k = "whisper" => Head(critical[c]) \in [kind : {"whisper"}, sid : Sids, arg : Sids]
<1>1. /\ critical[c] \in Seq(CritJob) /\ critical[c] # <<>> /\ phase[c] = "critical"
      /\ Head(critical[c]).kind = k
  BY DEF LaneTypes, TakeCritical
<1>2. Head(critical[c]) \in CritJob /\ Tail(critical[c]) \in Seq(CritJob)
  BY <1>1, Taken
<1>3. /\ k = "stop" => Head(critical[c]).arg \in Nat
      /\ k = "change" => Head(critical[c]).arg \in Channels
      /\ k = "whisper" => Head(critical[c]) \in [kind : {"whisper"}, sid : Sids, arg : Sids]
  BY <1>1, <1>2 DEF CritJob
<1> QED
  BY <1>1, <1>2, <1>3

(* What a step may do with the session events: take a job of c, put one    *)
(* into the mailbox of d, take one and put another into the same mailbox,  *)
(* take one and put another into that of d.                                *)
Takes(c)        == events[c] # <<>> /\ events' = [events EXCEPT ![c] = Tail(@)]
Puts(d, f)      == events' = [events EXCEPT ![d] = Append(@, f)]
Replaces(c, f)  == events[c] # <<>> /\ events' = [events EXCEPT ![c] = Append(Tail(@), f)]
Passes(c, d, f) ==
  /\ events[c] # <<>> /\ d # c
  /\ events' = [events EXCEPT ![c] = Tail(@), ![d] = Append(@, f)]

(* A change of channels: the session is the channel's, and its new owner   *)
(* is another channel.                                                     *)
LEMMA Changes ==
  ASSUME LaneTypes, SessionTypes, NEW c \in Channels, NEW s \in Sids,
         OnChannelChange(c, s), Owned(c, s)
  PROVE  \E to \in Channels \ {c} :
           /\ home[s] = c /\ s \in attached /\ phase[c] = "critical"
           /\ home' = [home EXCEPT ![s] = to]
           /\ population' = [population EXCEPT ![c] = @ - 1, ![to] = @ + 1]
           /\ Puts(to, Job("changeEnter", s, None))
           /\ queued' = queued \ {s} /\ flushList' = [flushList EXCEPT ![c] = @ \ {s}]
           /\ writer' = [writer EXCEPT ![s] = None]
  BY CriticalTaken DEF OnChannelChange, Owned, MigrateChannel, Quiesce, Puts

LEMMA EventsTaken ==
  ASSUME EventTypes, NEW c \in Channels, Takes(c)
  PROVE  /\ EventTypes'
         /\ \A x \in Channels : \A e :
              /\ In(events'[x], e) => In(events[x], e)
              /\ In(events[x], e) => In(events'[x], e) \/ (x = c /\ Head(events[c]) = e)
<1>1. events[c] \in Seq(Event) /\ events[c] # <<>>
  BY DEF EventTypes, Takes
<1>2. events'[c] = Tail(events[c]) /\ (\A x \in Channels \ {c} : events'[x] = events[x])
  BY DEF EventTypes, Takes
<1>3. Tail(events[c]) \in Seq(Event)
  BY <1>1, Taken
<1>4. EventTypes'
  BY <1>3 DEF EventTypes, Takes
<1>5. \A e : /\ In(events'[c], e) => In(events[c], e)
             /\ In(events[c], e) => In(events'[c], e) \/ Head(events[c]) = e
  BY <1>1, <1>2, Taken
<1> QED
  BY <1>2, <1>4, <1>5

LEMMA EventsTakenOnce ==
  ASSUME EventTypes, NEW c \in Channels, Takes(c),
         NEW x \in Channels, NEW e, Once(events[x], e)
  PROVE  /\ Once(events'[x], e)
         /\ x = c /\ Head(events[c]) = e => ~In(events'[x], e)
<1>1. events[c] \in Seq(Event) /\ events[c] # <<>>
  BY DEF EventTypes, Takes
<1>2. events'[c] = Tail(events[c]) /\ (x # c => events'[x] = events[x])
  BY DEF EventTypes, Takes
<1> QED
  BY <1>1, <1>2, TakenOnce

LEMMA EventsPut ==
  ASSUME EventTypes, NEW d \in Channels, NEW f \in Event, Puts(d, f)
  PROVE  /\ EventTypes'
         /\ \A x \in Channels : \A e :
              In(events'[x], e) <=> In(events[x], e) \/ (x = d /\ e = f)
<1>1. events[d] \in Seq(Event)
  BY DEF EventTypes
<1>2. events'[d] = Append(events[d], f) /\ (\A x \in Channels \ {d} : events'[x] = events[x])
  BY DEF EventTypes, Puts
<1>3. Append(events[d], f) \in Seq(Event)
  BY <1>1, Put
<1>4. EventTypes'
  BY <1>3 DEF EventTypes, Puts
<1>5. \A e : In(events'[d], e) <=> In(events[d], e) \/ e = f
  BY <1>1, <1>2, Put
<1> QED
  BY <1>2, <1>4, <1>5

LEMMA EventsPutOnce ==
  ASSUME EventTypes, NEW d \in Channels, NEW f \in Event, Puts(d, f),
         NEW x \in Channels, NEW e, Once(events[x], e), e # f \/ ~In(events[x], e)
  PROVE  Once(events'[x], e)
<1>1. events[d] \in Seq(Event)
  BY DEF EventTypes
<1>2. events'[d] = Append(events[d], f) /\ (x # d => events'[x] = events[x])
  BY DEF EventTypes, Puts
<1> QED
  BY <1>1, <1>2, PutOnce

LEMMA EventsReplaced ==
  ASSUME EventTypes, NEW c \in Channels, NEW f \in Event, Replaces(c, f)
  PROVE  /\ EventTypes' /\ In(events'[c], f)
         /\ \A x \in Channels : \A e :
              /\ In(events'[x], e) => In(events[x], e) \/ (x = c /\ e = f)
              /\ In(events[x], e) => In(events'[x], e) \/ (x = c /\ Head(events[c]) = e)
<1>1. events[c] \in Seq(Event) /\ events[c] # <<>>
  BY DEF EventTypes, Replaces
<1>2. PICK q \in Seq(Event) : q = Tail(events[c])
  BY <1>1, Taken
<1>3. events'[c] = Append(q, f) /\ (\A x \in Channels \ {c} : events'[x] = events[x])
  BY <1>2 DEF EventTypes, Replaces
<1>4. Append(q, f) \in Seq(Event)
  BY Put
<1>5. EventTypes'
  BY <1>2, <1>4 DEF EventTypes, Replaces
<1>6. \A e : In(events'[c], e) <=> In(q, e) \/ e = f
  BY <1>3, Put
<1>7. \A e : /\ In(q, e) => In(events[c], e)
             /\ In(events[c], e) => In(q, e) \/ Head(events[c]) = e
  BY <1>1, <1>2, Taken
<1> QED
  BY <1>3, <1>5, <1>6, <1>7

LEMMA EventsReplacedOnce ==
  ASSUME EventTypes, NEW c \in Channels, NEW f \in Event, Replaces(c, f),
         NEW x \in Channels, NEW e, Once(events[x], e), e # f
  PROVE  /\ Once(events'[x], e)
         /\ x = c /\ Head(events[c]) = e => ~In(events'[x], e)
<1>1. events[c] \in Seq(Event) /\ events[c] # <<>>
  BY DEF EventTypes, Replaces
<1>2. PICK q \in Seq(Event) : q = Tail(events[c])
  BY <1>1, Taken
<1>3. events'[c] = Append(q, f) /\ (x # c => events'[x] = events[x])
  BY <1>2 DEF EventTypes, Replaces
<1>4. CASE x = c
  <2>1. Once(q, e) /\ (Head(events[c]) = e => ~In(q, e))
    BY <1>1, <1>2, <1>4, TakenOnce
  <2>2. f \in Event /\ (e # f) /\ (In(events'[c], e) => In(q, e))
    BY <1>3, Put
  <2> QED
    BY <1>3, <1>4, <2>1, <2>2, PutOnce
<1> QED
  BY <1>3, <1>4

LEMMA EventsPassed ==
  ASSUME EventTypes, NEW c \in Channels, NEW d \in Channels, NEW f \in Event, Passes(c, d, f)
  PROVE  /\ EventTypes' /\ In(events'[d], f)
         /\ \A x \in Channels : \A e :
              /\ In(events'[x], e) => In(events[x], e) \/ (x = d /\ e = f)
              /\ In(events[x], e) => In(events'[x], e) \/ (x = c /\ Head(events[c]) = e)
<1>1. events[c] \in Seq(Event) /\ events[c] # <<>> /\ events[d] \in Seq(Event) /\ d # c
  BY DEF EventTypes, Passes
<1>2. /\ events'[c] = Tail(events[c]) /\ events'[d] = Append(events[d], f)
      /\ \A x \in Channels \ {c, d} : events'[x] = events[x]
  BY <1>1 DEF EventTypes, Passes
<1>3. Tail(events[c]) \in Seq(Event) /\ Append(events[d], f) \in Seq(Event)
  BY <1>1, Taken, Put
<1>4. EventTypes'
  BY <1>3 DEF EventTypes, Passes
<1>5. \A e : In(events'[d], e) <=> In(events[d], e) \/ e = f
  BY <1>1, <1>2, Put
<1>6. \A e : /\ In(events'[c], e) => In(events[c], e)
             /\ In(events[c], e) => In(events'[c], e) \/ Head(events[c]) = e
  BY <1>1, <1>2, Taken
<1> QED
  BY <1>2, <1>4, <1>5, <1>6

LEMMA EventsPassedOnce ==
  ASSUME EventTypes, NEW c \in Channels, NEW d \in Channels, NEW f \in Event, Passes(c, d, f),
         NEW x \in Channels, NEW e, Once(events[x], e), e # f
  PROVE  Once(events'[x], e)
<1>1. events[c] \in Seq(Event) /\ events[c] # <<>> /\ events[d] \in Seq(Event) /\ d # c
  BY DEF EventTypes, Passes
<1>2. /\ events'[c] = Tail(events[c]) /\ events'[d] = Append(events[d], f)
      /\ x \notin {c, d} => events'[x] = events[x]
  BY <1>1 DEF EventTypes, Passes
<1>3. CASE x = c
  BY <1>1, <1>2, <1>3, TakenOnce
<1>4. CASE x = d
  BY <1>1, <1>2, <1>4, PutOnce
<1> QED
  BY <1>2, <1>3, <1>4

-----------------------------------------------------------------------------
(***************************************************************************)
(* Part 4: who is in the session map.                                      *)
(***************************************************************************)
LEMMA MappedStep ==
  ASSUME SessionTypes, EventTypes, ChannelTypes, LaneTypes, Mapped, Notices, FlushListExact,
         [Next]_vars
  PROVE  Mapped'
<1> USE Constants
<1>1. ASSUME NEW s \in Sids, NEW c \in Channels, OnLoginSuccess(s, c) PROVE Mapped'
  BY <1>1 DEF OnLoginSuccess, Mapped, SessionTypes, playVars, sendVars
<1>2. ASSUME NEW s \in Sids, Hangup(s) PROVE Mapped'
  BY <1>2 DEF Hangup, Mapped, SessionTypes, ownVars, playVars, sendVars
<1>3. ASSUME NEW s \in Sids, EnqueueDisconnect(s) PROVE Mapped'
  BY <1>3 DEF EnqueueDisconnect, Mapped, SessionTypes, ownVars, playVars, sendVars
<1>4. ASSUME NEW c \in Channels, NEW s \in Sids, DbResultJob(c, s) PROVE Mapped'
  BY <1>4 DEF DbResultJob, Mapped, SessionTypes, ownVars
<1>5. ASSUME NEW c \in Channels, NEW s \in Sids, OnClientLeave(c, s) PROVE Mapped'
  <2>1. net[s] = "noticed"
    BY <1>5, EventTaken DEF OnClientLeave, Notices, Leave
  <2>2. /\ net' = net /\ home' = [home EXCEPT ![s] = None]
        /\ attached' = attached \ {s} /\ queued' = queued \ {s}
    BY <1>5 DEF OnClientLeave, OnSessionGone, netVars
  <2> QED
    BY <2>1, <2>2 DEF Mapped, SessionTypes
<1>6. ASSUME NEW c \in Channels, NEW s \in Sids, OnChat(c, s) PROVE Mapped'
  <2>1. queued' \subseteq queued \cup ChatReceivers(c, s)
    BY <1>6 DEF OnChat
  <2>2. net' = net /\ home' = home /\ attached' = attached
    BY <1>6 DEF OnChat, netVars, ownVars, playVars
  <2> QED
    BY <2>1, <2>2 DEF Mapped, ChatReceivers, InMap
<1>7. ASSUME NEW c \in Channels, NEW s \in Sids, OnChannelChange(c, s) PROVE Mapped'
  <2>1. /\ net' = net /\ attached' = attached /\ queued' \subseteq queued
        /\ \/ home' = home
           \/ home[s] = c /\ home' = [home EXCEPT ![s] = home'[s]] /\ home'[s] # None
    <3>1. CASE Owned(c, s)
      <4>1. PICK to \in Channels \ {c} :
              home[s] = c /\ home' = [home EXCEPT ![s] = to] /\ queued' = queued \ {s}
        BY <1>7, <3>1, Changes
      <4>2. net' = net /\ attached' = attached
        BY <1>7 DEF OnChannelChange, netVars, playVars
      <4> QED
        BY <4>1, <4>2 DEF SessionTypes
    <3>2. CASE ~Owned(c, s)
      BY <1>7, <3>2 DEF OnChannelChange, netVars, playVars, ownVars
    <3> QED
      BY <3>1, <3>2
  <2> QED
    BY <2>1 DEF Mapped, SessionTypes
<1>8. ASSUME NEW c \in Channels, SendObjectUpdates(c) PROVE Mapped'
  <2>1. PICK seen \in SUBSET {r \in Sids : home[r] = c /\ Entries(c, r) # {}} :
          queued' \subseteq queued \cup seen \cup OutboundTo(c)
    BY <1>8 DEF SendObjectUpdates
  <2>2. net' = net /\ home' = home /\ attached' = attached
    BY <1>8 DEF SendObjectUpdates, netVars, ownVars, playVars
  <2>3. \A r \in Sids : r \in queued' => home[r] # None
    BY <2>1 DEF Mapped, OutboundTo
  <2> QED
    BY <2>2, <2>3 DEF Mapped
<1>9. ASSUME NEW s \in Sids, NEW c \in Channels,
             \/ OnChannelEnter(c, s) \/ OnChannelChangeEnter(c, s) \/ OnStrayLeave(c, s)
             \/ OnStopMove(c, s) \/ OnStartMove(c, s) \/ OnPortal(c, s) \/ OnWhisper(c, s)
             \/ WhisperDeliver(c, s) \/ Refuse(c, s)
      PROVE  Mapped'
  <2>1. UNCHANGED <<net, home, attached, queued>>
    BY <1>9 DEF OnChannelEnter, OnChannelChangeEnter, OnStrayLeave, OnStopMove,
                OnStartMove, OnPortal, OnWhisper, WhisperDeliver, Refuse,
                netVars, ownVars, playVars, sendVars
  <2> QED
    BY <2>1 DEF Mapped
<1>10. ASSUME NEW s \in Sids, LoadDone(s) \/ EnqueuePacket(s) \/ Deliver(s) PROVE Mapped'
  BY <1>10 DEF LoadDone, EnqueuePacket, Deliver, netVars, ownVars, playVars, sendVars, Mapped
<1>11. ASSUME NEW c \in Channels, NextPhase(c) PROVE Mapped'
  BY <1>11 DEF NextPhase, netVars, ownVars, playVars, sendVars, Mapped
<1>12. ASSUME SharedServices \/ UNCHANGED vars PROVE Mapped'
  BY <1>12 DEF SharedServices, Route, PostToChannel, vars, netVars, ownVars, playVars,
               sendVars, Mapped
<1> QED
  BY <1>1, <1>2, <1>3, <1>4, <1>5, <1>6, <1>7, <1>8, <1>9, <1>10, <1>11, <1>12
     DEF Next, Client, Worker, TickLoop, SessionEvent, PacketJob

-----------------------------------------------------------------------------
(***************************************************************************)
(* Part 5: what is on its way for a session.                               *)
(***************************************************************************)
LEMMA RouteTarget ==
  ASSUME RouteTypes, NEW s \in Sids, routing[s] # Nothing
  PROVE  routing[s].to \in Channels /\ routing[s].job \in Routed
  BY DEF RouteTypes

LEMMA NoticesStep ==
  ASSUME SessionTypes, EventTypes, LaneTypes, RouteTypes, Mapped, Notices, [Next]_vars
  PROVE  Notices'
<1> USE Constants
<1>a. \A x \in Channels : events[x] \in Seq(Event)
  BY DEF EventTypes
<1>1. ASSUME NEW s \in Sids, NEW c \in Channels, OnLoginSuccess(s, c) PROVE Notices'
  <2>1. net[s] = "new" /\ net' = [net EXCEPT ![s] = "open"] /\ UNCHANGED <<routing, events>>
    BY <1>1 DEF OnLoginSuccess, boxVars
  <2> QED
    BY <2>1 DEF Notices, SessionTypes
<1>2. ASSUME NEW s \in Sids, LoadDone(s) PROVE Notices'
  <2>1. /\ loads[s] \in Channels /\ Puts(loads[s], Loaded(s))
        /\ UNCHANGED <<routing, net>>
    BY <1>2 DEF LoadDone, netVars, SessionTypes, Loaded, Puts
  <2>2. \A x \in Channels, t \in Sids : In(events'[x], Leave(t)) => In(events[x], Leave(t))
    BY <2>1, EventsPut, Kinds
  <2> QED
    BY <2>1, <2>2 DEF Notices
<1>3. ASSUME NEW s \in Sids, Hangup(s) PROVE Notices'
  BY <1>3 DEF Hangup, boxVars, Notices, SessionTypes
<1>4. ASSUME NEW s \in Sids, EnqueuePacket(s) PROVE Notices'
  <2>1. PICK j \in Routed :
          /\ routing' = [routing EXCEPT ![s] = [job |-> j, to |-> home[s]]]
          /\ j.sid = s /\ j.kind # "leave" /\ net[s] = "open"
    <3>1. Head(script[s]) \in Packets
      BY <1>4, Taken DEF EnqueuePacket, RouteTypes
    <3>2. /\ Job(Head(script[s]).kind, s, Head(script[s]).arg) \in Routed
          /\ Head(script[s]).kind # "leave"
      BY <3>1 DEF Packets, Moves, Routed, CritJob, MoveJob, Job
    <3> QED
      BY <1>4, <3>2 DEF EnqueuePacket, Job
  <2>2. net' = net /\ events' = events
    BY <1>4 DEF EnqueuePacket, boxVars
  <2> QED
    BY <2>1, <2>2 DEF Notices, RouteTypes
<1>5. ASSUME NEW s \in Sids, EnqueueDisconnect(s) PROVE Notices'
  BY <1>5 DEF EnqueueDisconnect, boxVars, Notices, SessionTypes, RouteTypes, Leave, Job
<1>6. ASSUME NEW s \in Sids, Deliver(s) PROVE Notices'
  <2>1. routing[s] # Nothing /\ routing' = [routing EXCEPT ![s] = Nothing] /\ net' = net
    BY <1>6 DEF Deliver
  <2>2. \A x \in Channels, t \in Sids :
          In(events'[x], Leave(t)) => In(events[x], Leave(t)) \/ net[t] = "noticed"
    <3>1. CASE routing[s].job.kind = "leave"
      <4>1. routing[s].job = Leave(s) /\ net[s] = "noticed" /\ routing[s].to \in Channels
        BY <2>1, <3>1, RouteTarget DEF Notices
      <4>2. PICK d \in Channels : Puts(d, Leave(s))
        BY <1>6, <3>1, <4>1 DEF Deliver, Puts
      <4>3. Leave(s) \in Event /\ \A t \in Sids : Leave(t) = Leave(s) => t = s
        BY Kinds
      <4>4. \A x \in Channels : \A e :
              In(events'[x], e) => In(events[x], e) \/ e = Leave(s)
        BY <4>2, <4>3, EventsPut
      <4> QED
        BY <4>1, <4>3, <4>4
    <3>2. CASE routing[s].job.kind # "leave"
      BY <1>6, <3>2 DEF Deliver
    <3> QED
      BY <3>1, <3>2
  <2> QED
    BY <2>1, <2>2 DEF Notices, RouteTypes
<1>7. ASSUME NEW c \in Channels, NEW s \in Sids, DbResultJob(c, s) PROVE Notices'
  <2>1. /\ routing' = routing
        /\ net' = net \/ net' = [net EXCEPT ![s] = IF @ = "open" THEN "closed" ELSE @]
    BY <1>7 DEF DbResultJob
  <2>2. events[c] # <<>> /\ Head(events[c]) \in Event
    BY <1>7, EventTaken, Kinds DEF DbResultJob, Loaded
  <2>3. \A x \in Channels, t \in Sids : In(events'[x], Leave(t)) => In(events[x], Leave(t))
    <3>1. CASE Takes(c)
      BY <3>1, EventsTaken
    <3>2. CASE Replaces(c, Enter(s))
      <4>1. Enter(s) \in Event /\ \A t \in Sids : Enter(s) # Leave(t)
        BY Kinds
      <4>2. \A x \in Channels : \A e :
              In(events'[x], e) => In(events[x], e) \/ e = Enter(s)
        BY <3>2, <4>1, EventsReplaced
      <4> QED
        BY <4>1, <4>2
    <3> QED
      BY <3>1, <3>2, <2>2, <1>7 DEF DbResultJob, Enter, Takes, Replaces
  <2> QED
    BY <2>1, <2>3 DEF Notices, SessionTypes
<1>8. ASSUME NEW c \in Channels, NEW s \in Sids,
             OnChannelEnter(c, s) \/ OnChannelChangeEnter(c, s) \/ OnClientLeave(c, s)
      PROVE  Notices'
  <2>1. Takes(c) /\ UNCHANGED <<routing, net>>
    BY <1>8 DEF OnChannelEnter, OnChannelChangeEnter, OnClientLeave, TakeEvent, Takes, netVars
  <2>2. \A x \in Channels, t \in Sids : In(events'[x], Leave(t)) => In(events[x], Leave(t))
    BY <2>1, EventsTaken
  <2> QED
    BY <2>1, <2>2 DEF Notices
<1>9. ASSUME NEW c \in Channels, NEW s \in Sids, OnStrayLeave(c, s) PROVE Notices'
  <2>1. In(events[c], Leave(s)) /\ Passes(c, home[s], Leave(s)) /\ UNCHANGED <<routing, net>>
    BY <1>9, EventTaken DEF OnStrayLeave, RerouteLeave, Leave, netVars, Passes
  <2>2. Leave(s) \in Event
    BY Kinds
  <2>a. PICK d \in Channels : Passes(c, d, Leave(s))
    BY <1>9, <2>1 DEF OnStrayLeave, SessionTypes
  <2>3. \A x \in Channels : \A e :
          In(events'[x], e) => In(events[x], e) \/ e = Leave(s)
    BY <2>2, <2>a, EventsPassed
  <2>4. \A x \in Channels, t \in Sids : In(events'[x], Leave(t)) => net[t] = "noticed"
    BY <2>1, <2>3, Kinds DEF Notices
  <2> QED
    BY <2>1, <2>4 DEF Notices
<1>10. ASSUME NEW c \in Channels, NEW s \in Sids, OnChannelChange(c, s) PROVE Notices'
  <2>1. UNCHANGED <<routing, net>>
    BY <1>10 DEF OnChannelChange, netVars
  <2>2. \A x \in Channels, t \in Sids : In(events'[x], Leave(t)) => In(events[x], Leave(t))
    <3>1. CASE Owned(c, s)
      <4>1. PICK to \in Channels : Puts(to, Job("changeEnter", s, None))
        BY <1>10, <3>1, Changes
      <4>2. /\ Job("changeEnter", s, None) \in Event
            /\ \A t \in Sids : Job("changeEnter", s, None) # Leave(t)
        BY Kinds
      <4> QED
        BY <4>1, <4>2, EventsPut
    <3>2. CASE ~Owned(c, s)
      BY <1>10, <3>2 DEF OnChannelChange
    <3> QED
      BY <3>1, <3>2
  <2> QED
    BY <2>1, <2>2 DEF Notices
<1>11. ASSUME NEW s \in Sids, NEW c \in Channels,
              \/ OnStopMove(c, s) \/ OnStartMove(c, s) \/ OnPortal(c, s) \/ OnChat(c, s)
              \/ OnWhisper(c, s) \/ WhisperDeliver(c, s) \/ Refuse(c, s)
       PROVE  Notices'
  <2>1. UNCHANGED <<net, routing, events>>
    BY <1>11 DEF OnStopMove, OnStartMove, OnPortal, OnChat, OnWhisper, WhisperDeliver,
                 Refuse, netVars
  <2> QED
    BY <2>1 DEF Notices
<1>12. ASSUME NEW c \in Channels, NextPhase(c) \/ SendObjectUpdates(c) PROVE Notices'
  <2>1. UNCHANGED <<net, routing, events>>
    BY <1>12 DEF NextPhase, SendObjectUpdates, netVars, boxVars
  <2> QED
    BY <2>1 DEF Notices
<1>13. ASSUME SharedServices \/ UNCHANGED vars PROVE Notices'
  <2>1. UNCHANGED <<net, routing, events>>
    BY <1>13 DEF SharedServices, Route, PostToChannel, vars, netVars, boxVars
  <2> QED
    BY <2>1 DEF Notices
<1> QED
  BY <1>1, <1>2, <1>3, <1>4, <1>5, <1>6, <1>7, <1>8, <1>9, <1>10, <1>11, <1>12, <1>13
     DEF Next, Client, Worker, TickLoop, SessionEvent, PacketJob

-----------------------------------------------------------------------------
(***************************************************************************)
(* Part 6: the jobs of a login.  Most steps post none.                     *)
(***************************************************************************)
Quiet ==
  /\ EventTypes'
  /\ \A x \in Channels, t \in Sids :
       /\ In(events'[x], Loaded(t)) => In(events[x], Loaded(t))
       /\ In(events'[x], Enter(t)) => In(events[x], Enter(t))
       /\ Once(events[x], Loaded(t)) => Once(events'[x], Loaded(t))

LEMMA QuietUnchanged ==
  ASSUME EventTypes, events' = events
  PROVE  Quiet
  BY DEF EventTypes, Quiet

LEMMA QuietTaken ==
  ASSUME EventTypes, NEW c \in Channels, Takes(c)
  PROVE  Quiet
  BY EventsTaken, EventsTakenOnce DEF Quiet

LEMMA QuietPut ==
  ASSUME EventTypes, NEW d \in Channels, NEW f \in Event, Puts(d, f),
         \A t \in Sids : f # Loaded(t) /\ f # Enter(t)
  PROVE  Quiet
<1>1. EventTypes' /\ \A x \in Channels, t \in Sids :
        /\ In(events'[x], Loaded(t)) => In(events[x], Loaded(t))
        /\ In(events'[x], Enter(t)) => In(events[x], Enter(t))
  BY EventsPut
<1>2. \A x \in Channels, t \in Sids :
        Once(events[x], Loaded(t)) => Once(events'[x], Loaded(t))
  BY EventsPutOnce
<1> QED
  BY <1>1, <1>2 DEF Quiet

LEMMA QuietPassed ==
  ASSUME EventTypes, NEW c \in Channels, NEW d \in Channels, NEW f \in Event, Passes(c, d, f),
         \A t \in Sids : f # Loaded(t) /\ f # Enter(t)
  PROVE  Quiet
<1>1. EventTypes' /\ \A x \in Channels, t \in Sids :
        /\ In(events'[x], Loaded(t)) => In(events[x], Loaded(t))
        /\ In(events'[x], Enter(t)) => In(events[x], Enter(t))
  BY EventsPassed
<1>2. \A x \in Channels, t \in Sids :
        Once(events[x], Loaded(t)) => Once(events'[x], Loaded(t))
  BY EventsPassedOnce
<1> QED
  BY <1>1, <1>2 DEF Quiet

(* All steps but the end of a load and the job that attaches a Player.     *)
LEMMA QuietSteps ==
  ASSUME SessionTypes, EventTypes, LaneTypes, RouteTypes, Notices
  PROVE  /\ \A s \in Sids, c \in Channels :
              \/ OnLoginSuccess(s, c) \/ OnChannelEnter(c, s) \/ OnChannelChangeEnter(c, s)
              \/ OnStrayLeave(c, s) \/ OnClientLeave(c, s) \/ OnStopMove(c, s)
              \/ OnStartMove(c, s) \/ OnPortal(c, s) \/ OnChat(c, s) \/ OnWhisper(c, s)
              \/ WhisperDeliver(c, s) \/ Refuse(c, s) \/ OnChannelChange(c, s)
              => Quiet
         /\ \A s \in Sids :
              Hangup(s) \/ EnqueuePacket(s) \/ EnqueueDisconnect(s) \/ Deliver(s) => Quiet
         /\ \A c \in Channels : NextPhase(c) \/ SendObjectUpdates(c) => Quiet
         /\ SharedServices \/ UNCHANGED vars => Quiet
<1> USE Constants
<1>1. ASSUME NEW s \in Sids, NEW c \in Channels,
             \/ OnLoginSuccess(s, c) \/ OnStopMove(c, s)
             \/ OnStartMove(c, s) \/ OnPortal(c, s) \/ OnChat(c, s) \/ OnWhisper(c, s)
             \/ WhisperDeliver(c, s) \/ Refuse(c, s)
      PROVE  Quiet
  <2>1. events' = events
    BY <1>1 DEF OnLoginSuccess, OnStopMove, OnStartMove, OnPortal, OnChat, OnWhisper,
                WhisperDeliver, Refuse, boxVars
  <2> QED
    BY <2>1, QuietUnchanged
<1>2. ASSUME NEW s \in Sids, NEW c \in Channels,
             OnChannelEnter(c, s) \/ OnChannelChangeEnter(c, s) \/ OnClientLeave(c, s)
      PROVE  Quiet
  <2>1. Takes(c)
    BY <1>2 DEF OnChannelEnter, OnChannelChangeEnter, OnClientLeave, TakeEvent, Takes
  <2> QED
    BY <2>1, QuietTaken
<1>3. ASSUME NEW s \in Sids, NEW c \in Channels, OnStrayLeave(c, s) PROVE Quiet
  <2>1. PICK d \in Channels : Passes(c, d, Leave(s))
    BY <1>3 DEF OnStrayLeave, RerouteLeave, TakeEvent, Leave, Passes, SessionTypes
  <2>2. Leave(s) \in Event /\ \A t \in Sids : Leave(s) # Loaded(t) /\ Leave(s) # Enter(t)
    BY Kinds
  <2> QED
    BY <2>1, <2>2, QuietPassed
<1>4. ASSUME NEW s \in Sids, NEW c \in Channels, OnChannelChange(c, s) PROVE Quiet
  <2>1. CASE Owned(c, s)
    <3>1. PICK to \in Channels : Puts(to, Job("changeEnter", s, None))
      BY <1>4, <2>1, Changes
    <3>2. PICK f \in Event : f = Job("changeEnter", s, None)
      BY Kinds
    <3>3. \A t \in Sids : f # Loaded(t) /\ f # Enter(t)
      BY <3>2, Kinds
    <3> QED
      BY <3>1, <3>2, <3>3, QuietPut
  <2>2. CASE ~Owned(c, s)
    BY <1>4, <2>2, QuietUnchanged DEF OnChannelChange
  <2> QED
    BY <2>1, <2>2
<1>5. ASSUME NEW s \in Sids, Hangup(s) \/ EnqueuePacket(s) \/ EnqueueDisconnect(s) PROVE Quiet
  BY <1>5, QuietUnchanged DEF Hangup, EnqueuePacket, EnqueueDisconnect, boxVars
<1>6. ASSUME NEW s \in Sids, Deliver(s) PROVE Quiet
  <2>1. CASE routing[s].job.kind = "leave"
    <3>1. routing[s].job = Leave(s) /\ routing[s].to \in Channels
      BY <1>6, <2>1, RouteTarget DEF Notices, Deliver
    <3>2. PICK d \in Channels : Puts(d, Leave(s))
      BY <1>6, <2>1, <3>1 DEF Deliver, Puts
    <3>3. Leave(s) \in Event /\ \A t \in Sids : Leave(s) # Loaded(t) /\ Leave(s) # Enter(t)
      BY Kinds
    <3> QED
      BY <3>2, <3>3, QuietPut
  <2>2. CASE routing[s].job.kind # "leave"
    BY <1>6, <2>2, QuietUnchanged DEF Deliver
  <2> QED
    BY <2>1, <2>2
<1>7. ASSUME NEW c \in Channels, NextPhase(c) \/ SendObjectUpdates(c) PROVE Quiet
  BY <1>7, QuietUnchanged DEF NextPhase, SendObjectUpdates, boxVars
<1>8. ASSUME SharedServices \/ UNCHANGED vars PROVE Quiet
  BY <1>8, QuietUnchanged DEF SharedServices, Route, PostToChannel, vars, boxVars
<1> QED
  BY <1>1, <1>2, <1>3, <1>4, <1>5, <1>6, <1>7, <1>8

(* The job that ends a login: the session is gone or fails, or its Player  *)
(* is attached and an enter job replaces the job.                          *)
LEMMA DbResults ==
  ASSUME SessionTypes, EventTypes, NEW c \in Channels, NEW s \in Sids, DbResultJob(c, s)
  PROVE  /\ In(events[c], Loaded(s)) /\ Head(events[c]) = Loaded(s)
         /\ UNCHANGED <<home, loads, phase, queued, flushList, population, routing>>
         /\ \A t \in Sids : (net'[t] = "new" => net[t] = "new")
         /\ \/ Takes(c) /\ attached' = attached /\ writer' = writer
            \/ /\ Replaces(c, Enter(s)) /\ home[s] # None /\ phase[c] = "events"
               /\ attached' = attached \cup {s} /\ writer' = [writer EXCEPT ![s] = c]
<1>1. /\ In(events[c], Loaded(s)) /\ Head(events[c]) = Loaded(s)
      /\ events[c] # <<>> /\ phase[c] = "events"
  BY EventTaken DEF DbResultJob, Loaded
<1>2. UNCHANGED <<home, loads, phase, queued, flushList, population, routing>>
  BY DEF DbResultJob, ownVars, tickVars
<1>3. \A t \in Sids : (net'[t] = "new" => net[t] = "new")
  BY DEF DbResultJob, SessionTypes
<1>4. \/ Takes(c) /\ attached' = attached /\ writer' = writer
      \/ /\ Replaces(c, Enter(s)) /\ home[s] # None
         /\ attached' = attached \cup {s} /\ writer' = [writer EXCEPT ![s] = c]
  BY <1>1 DEF DbResultJob, SendNow, Takes, Replaces, Enter
<1> QED
  BY <1>1, <1>2, <1>3, <1>4

(* Steps that post no job of a login and start no load keep LoadOnce.      *)
LEMMA LoadOnceKept ==
  ASSUME SessionTypes, LoadOnce, Quiet, loads' = loads, attached' \subseteq attached,
         \A t \in Sids : (net'[t] = "new" => net[t] = "new"),
         \A t \in Sids : t \notin attached => home'[t] \in {home[t], None}
  PROVE  LoadOnce'
<1> SUFFICES ASSUME NEW s \in Sids
    PROVE  /\ net'[s] = "new" \/ loads'[s] # None =>
                \A c \in Channels : ~In(events'[c], Loaded(s))
           /\ net'[s] = "new" => loads'[s] = None
           /\ loads'[s] # None => home'[s] \in {None, loads'[s]} /\ s \notin attached'
           /\ \A c \in Channels :
                /\ Once(events'[c], Loaded(s))
                /\ In(events'[c], Loaded(s)) => home'[s] \in {None, c} /\ s \notin attached'
                /\ \A d \in Channels :
                     In(events'[c], Loaded(s)) /\ In(events'[d], Loaded(s)) => c = d
                /\ In(events'[c], Enter(s)) =>
                     /\ loads'[s] = None /\ net'[s] # "new"
                     /\ \A d \in Channels : ~In(events'[d], Loaded(s))
  BY DEF LoadOnce
<1>1. \A x \in Channels :
        /\ In(events'[x], Loaded(s)) => In(events[x], Loaded(s))
        /\ In(events'[x], Enter(s)) => In(events[x], Enter(s))
        /\ Once(events[x], Loaded(s)) => Once(events'[x], Loaded(s))
  BY DEF Quiet
<1>2. net'[s] = "new" \/ loads'[s] # None =>
        \A c \in Channels : ~In(events'[c], Loaded(s))
  BY <1>1 DEF LoadOnce
<1>3. net'[s] = "new" => loads'[s] = None
  BY DEF LoadOnce
<1>4. loads'[s] # None => home'[s] \in {None, loads'[s]} /\ s \notin attached'
  BY DEF LoadOnce
<1>5. ASSUME NEW c \in Channels
      PROVE  /\ Once(events'[c], Loaded(s))
             /\ In(events'[c], Loaded(s)) => home'[s] \in {None, c} /\ s \notin attached'
             /\ \A d \in Channels :
                  In(events'[c], Loaded(s)) /\ In(events'[d], Loaded(s)) => c = d
             /\ In(events'[c], Enter(s)) =>
                  /\ loads'[s] = None /\ net'[s] # "new"
                  /\ \A d \in Channels : ~In(events'[d], Loaded(s))
  <2>1. Once(events'[c], Loaded(s))
    BY <1>1 DEF LoadOnce
  <2>2. In(events'[c], Loaded(s)) => home'[s] \in {None, c} /\ s \notin attached'
    BY <1>1 DEF LoadOnce
  <2>3. \A d \in Channels :
          In(events'[c], Loaded(s)) /\ In(events'[d], Loaded(s)) => c = d
    BY <1>1 DEF LoadOnce
  <2>4. In(events'[c], Enter(s)) =>
          /\ loads'[s] = None /\ net'[s] # "new"
          /\ \A d \in Channels : ~In(events'[d], Loaded(s))
    BY <1>1 DEF LoadOnce
  <2> QED
    BY <2>1, <2>2, <2>3, <2>4
<1> QED
  BY <1>2, <1>3, <1>4, <1>5

(* The end of a load.                                                      *)
LEMMA LoadOnceDone ==
  ASSUME SessionTypes, EventTypes, LoadOnce, NEW s \in Sids, LoadDone(s)
  PROVE  LoadOnce' /\ EventTypes'
<1>1. PICK d \in Channels : loads[s] = d
  BY DEF LoadDone, SessionTypes
<1>2. d # None /\ d = loads[s]
  BY <1>1 DEF LoadDone
<1>3. Puts(d, Loaded(s)) /\ UNCHANGED <<net, home, attached>>
  BY <1>1 DEF LoadDone, Puts, Loaded, netVars, ownVars, playVars
<1>4. \A t \in Sids : loads'[t] = IF t = s THEN None ELSE loads[t]
  BY DEF LoadDone, SessionTypes
<1>5. /\ Loaded(s) \in Event
      /\ \A t \in Sids : Enter(t) # Loaded(s) /\ (Loaded(t) = Loaded(s) => t = s)
  BY Kinds
<1>6. /\ EventTypes'
      /\ \A x \in Channels, t \in Sids :
           /\ In(events'[x], Loaded(t)) => In(events[x], Loaded(t)) \/ (x = d /\ t = s)
           /\ In(events'[x], Enter(t)) => In(events[x], Enter(t))
  BY <1>3, <1>5, EventsPut
<1>7. \A x \in Channels : ~In(events[x], Loaded(s)) /\ ~In(events[x], Enter(s))
  BY <1>2 DEF LoadOnce
<1>8. \A x \in Channels, t \in Sids : Once(events'[x], Loaded(t))
  BY <1>3, <1>5, <1>7, EventsPutOnce DEF LoadOnce
<1>9. ASSUME NEW t \in Sids
      PROVE  /\ net'[t] = "new" \/ loads'[t] # None =>
                  \A c \in Channels : ~In(events'[c], Loaded(t))
             /\ net'[t] = "new" => loads'[t] = None
             /\ loads'[t] # None => home'[t] \in {None, loads'[t]} /\ t \notin attached'
  <2>1. CASE t = s
    BY <2>1, <1>2, <1>3, <1>4 DEF LoadOnce
  <2>2. CASE t # s
    BY <2>2, <1>3, <1>4, <1>6 DEF LoadOnce
  <2> QED
    BY <2>1, <2>2
<1>10. ASSUME NEW t \in Sids, NEW c \in Channels
       PROVE  /\ In(events'[c], Loaded(t)) => home'[t] \in {None, c} /\ t \notin attached'
              /\ \A e \in Channels :
                   In(events'[c], Loaded(t)) /\ In(events'[e], Loaded(t)) => c = e
              /\ In(events'[c], Enter(t)) =>
                   /\ loads'[t] = None /\ net'[t] # "new"
                   /\ \A e \in Channels : ~In(events'[e], Loaded(t))
  <2>1. CASE t = s
    <3>1. \A x \in Channels : (In(events'[x], Loaded(s)) => x = d) /\ ~In(events'[x], Enter(s))
      BY <1>6, <1>7
    <3> QED
      BY <2>1, <3>1, <1>2, <1>3 DEF LoadOnce
  <2>2. CASE t # s
    <3>1. \A x \in Channels : /\ In(events'[x], Loaded(t)) => In(events[x], Loaded(t))
                              /\ In(events'[x], Enter(t)) => In(events[x], Enter(t))
      BY <2>2, <1>6
    <3> QED
      BY <2>2, <3>1, <1>3, <1>4 DEF LoadOnce
  <2> QED
    BY <2>1, <2>2
<1> QED
  BY <1>6, <1>8, <1>9, <1>10 DEF LoadOnce

(* A Player is attached.                                                   *)
LEMMA LoadOnceAttached ==
  ASSUME SessionTypes, EventTypes, LoadOnce, NEW c \in Channels, NEW s \in Sids,
         DbResultJob(c, s)
  PROVE  LoadOnce' /\ EventTypes'
<1>1. CASE Takes(c) /\ attached' = attached
  <2>1. Quiet
    BY <1>1, QuietTaken
  <2> QED
    BY <1>1, <2>1, DbResults, LoadOnceKept DEF Quiet
<1>2. CASE Replaces(c, Enter(s)) /\ attached' = attached \cup {s}
  <2>1. /\ In(events[c], Loaded(s)) /\ Head(events[c]) = Loaded(s)
        /\ home' = home /\ loads' = loads /\ \A t \in Sids : (net'[t] = "new" => net[t] = "new")
    BY DbResults
  <2>2. /\ Enter(s) \in Event
        /\ \A t \in Sids : Loaded(t) # Enter(s) /\ (Enter(t) = Enter(s) => t = s)
    BY Kinds
  <2>3. /\ EventTypes'
        /\ \A x \in Channels, t \in Sids :
             /\ In(events'[x], Loaded(t)) => In(events[x], Loaded(t))
             /\ In(events'[x], Enter(t)) => In(events[x], Enter(t)) \/ (x = c /\ t = s)
    BY <1>2, <2>2, EventsReplaced
  <2>4. /\ \A x \in Channels, t \in Sids : Once(events'[x], Loaded(t))
        /\ ~In(events'[c], Loaded(s))
    BY <1>2, <2>1, <2>2, EventsReplacedOnce DEF LoadOnce
  <2>5. \A x \in Channels : ~In(events'[x], Loaded(s))
    BY <2>1, <2>3, <2>4 DEF LoadOnce
  <2>6. loads[s] = None /\ net[s] # "new"
    BY <2>1 DEF LoadOnce
  <2>7. ASSUME NEW t \in Sids
        PROVE  /\ net'[t] = "new" \/ loads'[t] # None =>
                    \A x \in Channels : ~In(events'[x], Loaded(t))
               /\ net'[t] = "new" => loads'[t] = None
               /\ loads'[t] # None => home'[t] \in {None, loads'[t]} /\ t \notin attached'
    <3>1. CASE t = s
      BY <3>1, <2>1, <2>5, <2>6
    <3>2. CASE t # s
      BY <3>2, <1>2, <2>1, <2>3 DEF LoadOnce
    <3> QED
      BY <3>1, <3>2
  <2>8. ASSUME NEW t \in Sids, NEW x \in Channels
        PROVE  /\ In(events'[x], Loaded(t)) => home'[t] \in {None, x} /\ t \notin attached'
               /\ \A e \in Channels :
                    In(events'[x], Loaded(t)) /\ In(events'[e], Loaded(t)) => x = e
               /\ In(events'[x], Enter(t)) =>
                    /\ loads'[t] = None /\ net'[t] # "new"
                    /\ \A e \in Channels : ~In(events'[e], Loaded(t))
    <3>1. CASE t = s
      BY <3>1, <2>1, <2>5, <2>6
    <3>2. CASE t # s
      <4>1. \A y \in Channels : /\ In(events'[y], Loaded(t)) => In(events[y], Loaded(t))
                                /\ In(events'[y], Enter(t)) => In(events[y], Enter(t))
        BY <3>2, <2>3
      <4> QED
        BY <3>2, <4>1, <1>2, <2>1 DEF LoadOnce
    <3> QED
      BY <3>1, <3>2
  <2> QED
    BY <2>3, <2>4, <2>7, <2>8 DEF LoadOnce
<1> QED
  BY <1>1, <1>2, DbResults

LEMMA LoadOnceLogin ==
  ASSUME SessionTypes, EventTypes, Mapped, LoadOnce, NEW s \in Sids, NEW c \in Channels,
         OnLoginSuccess(s, c)
  PROVE  LoadOnce'
<1> USE Constants
<1>1. /\ net[s] = "new" /\ home[s] = None /\ s \notin attached
      /\ net' = [net EXCEPT ![s] = "open"] /\ home' = [home EXCEPT ![s] = c]
      /\ loads' = [loads EXCEPT ![s] = c] /\ UNCHANGED <<attached, events>>
  BY DEF OnLoginSuccess, Mapped, boxVars, playVars
<1>2. \A t \in Sids : /\ net'[t] = IF t = s THEN "open" ELSE net[t]
                      /\ home'[t] = IF t = s THEN c ELSE home[t]
                      /\ loads'[t] = IF t = s THEN c ELSE loads[t]
  BY <1>1 DEF SessionTypes
<1>3. \A x \in Channels : ~In(events[x], Loaded(s)) /\ ~In(events[x], Enter(s))
  BY <1>1 DEF LoadOnce
<1> QED
  BY <1>1, <1>2, <1>3 DEF LoadOnce

LEMMA LoadOnceStep ==
  ASSUME SessionTypes, EventTypes, LaneTypes, RouteTypes, Mapped, Notices, LoadOnce,
         [Next]_vars
  PROVE  LoadOnce' /\ EventTypes'
<1>1. ASSUME NEW s \in Sids, NEW c \in Channels, OnLoginSuccess(s, c)
      PROVE  LoadOnce' /\ EventTypes'
  BY <1>1, LoadOnceLogin, QuietSteps DEF Quiet
<1>2. ASSUME NEW s \in Sids, LoadDone(s) PROVE LoadOnce' /\ EventTypes'
  BY <1>2, LoadOnceDone
<1>3. ASSUME NEW c \in Channels, NEW s \in Sids, DbResultJob(c, s)
      PROVE  LoadOnce' /\ EventTypes'
  BY <1>3, LoadOnceAttached
<1>4. ASSUME NEW s \in Sids, Hangup(s) \/ EnqueuePacket(s) \/ EnqueueDisconnect(s) \/ Deliver(s)
      PROVE  LoadOnce' /\ EventTypes'
  <2>1. /\ UNCHANGED <<loads, home, attached>>
        /\ \A t \in Sids : (net'[t] = "new" => net[t] = "new")
    BY <1>4 DEF Hangup, EnqueuePacket, EnqueueDisconnect, Deliver, ownVars, playVars,
                SessionTypes
  <2>2. Quiet
    BY <1>4, QuietSteps
  <2> QED
    BY <2>1, <2>2, LoadOnceKept DEF Quiet
<1>5. ASSUME NEW c \in Channels, NEW s \in Sids,
             \/ OnChannelEnter(c, s) \/ OnChannelChangeEnter(c, s) \/ OnStrayLeave(c, s)
             \/ OnStopMove(c, s) \/ OnStartMove(c, s) \/ OnPortal(c, s) \/ OnChat(c, s)
             \/ OnWhisper(c, s) \/ WhisperDeliver(c, s) \/ Refuse(c, s)
      PROVE  LoadOnce' /\ EventTypes'
  <2>1. UNCHANGED <<net, loads, home, attached>>
    BY <1>5 DEF OnChannelEnter, OnChannelChangeEnter, OnStrayLeave, OnStopMove,
                OnStartMove, OnPortal, OnChat, OnWhisper, WhisperDeliver, Refuse,
                netVars, ownVars, playVars
  <2>2. Quiet
    BY <1>5, QuietSteps
  <2> QED
    BY <2>1, <2>2, LoadOnceKept DEF Quiet
<1>6. ASSUME NEW c \in Channels, NEW s \in Sids, OnClientLeave(c, s)
      PROVE  LoadOnce' /\ EventTypes'
  <2>1. /\ net' = net /\ loads' = loads /\ attached' = attached \ {s}
        /\ \A t \in Sids : home'[t] \in {home[t], None}
    BY <1>6 DEF OnClientLeave, OnSessionGone, netVars, SessionTypes
  <2>2. Quiet
    BY <1>6, QuietSteps
  <2> QED
    BY <2>1, <2>2, LoadOnceKept DEF Quiet
<1>7. ASSUME NEW c \in Channels, NEW s \in Sids, OnChannelChange(c, s)
      PROVE  LoadOnce' /\ EventTypes'
  <2>1. net' = net /\ loads' = loads /\ attached' = attached
    BY <1>7 DEF OnChannelChange, netVars, playVars
  <2>2. \A t \in Sids : t \notin attached => home'[t] \in {home[t], None}
    <3>1. CASE Owned(c, s)
      BY <1>7, <3>1, Changes DEF SessionTypes
    <3>2. CASE ~Owned(c, s)
      BY <1>7, <3>2 DEF OnChannelChange, ownVars
    <3> QED
      BY <3>1, <3>2
  <2>3. Quiet
    BY <1>7, QuietSteps
  <2> QED
    BY <2>1, <2>2, <2>3, LoadOnceKept DEF Quiet
<1>8. ASSUME NEW c \in Channels, NextPhase(c) \/ SendObjectUpdates(c)
      PROVE  LoadOnce' /\ EventTypes'
  <2>1. UNCHANGED <<net, loads, home, attached>>
    BY <1>8 DEF NextPhase, SendObjectUpdates, netVars, ownVars, playVars
  <2>2. Quiet
    BY <1>8, QuietSteps
  <2> QED
    BY <2>1, <2>2, LoadOnceKept DEF Quiet
<1>9. ASSUME SharedServices \/ UNCHANGED vars PROVE LoadOnce' /\ EventTypes'
  <2>1. UNCHANGED <<net, loads, home, attached>>
    BY <1>9 DEF SharedServices, Route, PostToChannel, vars, netVars, ownVars, playVars
  <2>2. Quiet
    BY <1>9, QuietSteps
  <2> QED
    BY <2>1, <2>2, LoadOnceKept DEF Quiet
<1> QED
  BY <1>1, <1>2, <1>3, <1>4, <1>5, <1>6, <1>7, <1>8, <1>9
     DEF Next, Client, Worker, TickLoop, SessionEvent, PacketJob

(* The enter job of a login.                                               *)
LEMMA EnterFirstStep ==
  ASSUME SessionTypes, ChannelTypes, EventTypes, LaneTypes, RouteTypes, Mapped, Notices,
         LoadOnce, EnterFirst, [Next]_vars
  PROVE  EnterFirst'
<1> USE Constants
<1>a. ASSUME Quiet, phase' = phase, attached' \subseteq attached,
             \A t \in Sids, x \in Channels :
               In(events[x], Enter(t)) /\ t \in attached' => home'[t] = home[t]
      PROVE  EnterFirst'
  BY <1>a DEF EnterFirst, Quiet
<1>1. ASSUME NEW s \in Sids, NEW c \in Channels, OnLoginSuccess(s, c) PROVE EnterFirst'
  <2>1. /\ phase' = phase /\ attached' = attached /\ s \notin attached
        /\ \A t \in Sids \ {s} : home'[t] = home[t]
    BY <1>1 DEF OnLoginSuccess, Mapped, playVars, tickVars, SessionTypes
  <2>2. Quiet
    BY <1>1, QuietSteps
  <2> QED
    BY <2>1, <2>2, <1>a
<1>2. ASSUME NEW s \in Sids, LoadDone(s) PROVE EnterFirst'
  <2>1. /\ loads[s] \in Channels /\ UNCHANGED <<phase, attached, home>>
        /\ events' = [events EXCEPT ![loads[s]] = Append(@, Loaded(s))]
    BY <1>2 DEF LoadDone, SessionTypes, tickVars, playVars, ownVars, Loaded
  <2>2. PICK d \in Channels : Puts(d, Loaded(s))
    BY <2>1 DEF Puts
  <2>3. Loaded(s) \in Event /\ \A t \in Sids : Enter(t) # Loaded(s)
    BY Kinds
  <2>4. \A x \in Channels, t \in Sids : In(events'[x], Enter(t)) => In(events[x], Enter(t))
    BY <2>2, <2>3, EventsPut
  <2> QED
    BY <2>1, <2>4 DEF EnterFirst
<1>3. ASSUME NEW c \in Channels, NEW s \in Sids, DbResultJob(c, s) PROVE EnterFirst'
  <2>1. In(events[c], Loaded(s)) /\ UNCHANGED <<home, phase>>
    BY <1>3, DbResults
  <2>2. CASE Takes(c) /\ attached' = attached
    <3>1. Quiet
      BY <2>2, QuietTaken
    <3> QED
      BY <2>1, <2>2, <3>1, <1>a
  <2>3. CASE /\ Replaces(c, Enter(s)) /\ home[s] # None /\ phase[c] = "events"
             /\ attached' = attached \cup {s}
    <3>1. Enter(s) \in Event /\ \A t \in Sids : Enter(t) = Enter(s) => t = s
      BY Kinds
    <3>2. \A x \in Channels, t \in Sids :
            In(events'[x], Enter(t)) => In(events[x], Enter(t)) \/ (x = c /\ t = s)
      BY <2>3, <3>1, EventsReplaced
    <3>3. home[s] = c /\ \A x \in Channels : ~In(events[x], Enter(s))
      BY <2>1, <2>3 DEF LoadOnce
    <3> QED
      BY <2>1, <2>3, <3>2, <3>3 DEF EnterFirst
  <2> QED
    BY <1>3, <2>2, <2>3, DbResults
<1>4. ASSUME NEW s \in Sids, Hangup(s) \/ EnqueuePacket(s) \/ EnqueueDisconnect(s) \/ Deliver(s)
      PROVE  EnterFirst'
  <2>1. UNCHANGED <<phase, home, attached>>
    BY <1>4 DEF Hangup, EnqueuePacket, EnqueueDisconnect, Deliver, ownVars, playVars, tickVars
  <2>2. Quiet
    BY <1>4, QuietSteps
  <2> QED
    BY <2>1, <2>2, <1>a
<1>5. ASSUME NEW c \in Channels, NEW s \in Sids,
             \/ OnChannelEnter(c, s) \/ OnChannelChangeEnter(c, s) \/ OnStrayLeave(c, s)
             \/ OnStopMove(c, s) \/ OnStartMove(c, s) \/ OnPortal(c, s) \/ OnChat(c, s)
             \/ OnWhisper(c, s) \/ WhisperDeliver(c, s) \/ Refuse(c, s)
      PROVE  EnterFirst'
  <2>1. UNCHANGED <<phase, home, attached>>
    BY <1>5 DEF OnChannelEnter, OnChannelChangeEnter, OnStrayLeave, OnStopMove,
                OnStartMove, OnPortal, OnChat, OnWhisper, WhisperDeliver, Refuse,
                tickVars, ownVars, playVars
  <2>2. Quiet
    BY <1>5, QuietSteps
  <2> QED
    BY <2>1, <2>2, <1>a
<1>6. ASSUME NEW c \in Channels, NEW s \in Sids, OnClientLeave(c, s) PROVE EnterFirst'
  <2>1. /\ phase' = phase /\ attached' = attached \ {s}
        /\ \A t \in Sids \ {s} : home'[t] = home[t]
    BY <1>6 DEF OnClientLeave, OnSessionGone, tickVars, SessionTypes
  <2>2. Quiet
    BY <1>6, QuietSteps
  <2> QED
    BY <2>1, <2>2, <1>a
<1>7. ASSUME NEW c \in Channels, NEW s \in Sids, OnChannelChange(c, s) PROVE EnterFirst'
  <2>1. phase' = phase /\ attached' = attached
    BY <1>7 DEF OnChannelChange, playVars
  <2>2. Quiet
    BY <1>7, QuietSteps
  <2>3. CASE Owned(c, s)
    <3>1. /\ home[s] = c /\ s \in attached /\ phase[c] = "critical"
          /\ \A t \in Sids \ {s} : home'[t] = home[t]
      BY <1>7, <2>3, Changes DEF SessionTypes
    <3>2. \A x \in Channels : ~In(events[x], Enter(s))
      BY <3>1 DEF EnterFirst
    <3> QED
      BY <2>1, <2>2, <3>1, <3>2, <1>a
  <2>4. CASE ~Owned(c, s)
    BY <1>7, <2>1, <2>2, <2>4, <1>a DEF OnChannelChange, ownVars
  <2> QED
    BY <2>3, <2>4
<1>8. ASSUME NEW c \in Channels, NextPhase(c) PROVE EnterFirst'
  <2>1. UNCHANGED <<events, home, attached>>
    BY <1>8 DEF NextPhase, boxVars, ownVars, playVars
  <2>2. /\ \A x \in Channels \ {c} : phase'[x] = phase[x]
        /\ phase[c] # "events" \/ events[c] = <<>>
    BY <1>8 DEF NextPhase, ChannelTypes
  <2>3. events[c] = <<>> => \A e : ~In(events[c], e)
    BY DEF In
  <2> QED
    BY <2>1, <2>2, <2>3 DEF EnterFirst
<1>9. ASSUME NEW c \in Channels, SendObjectUpdates(c) PROVE EnterFirst'
  <2>1. /\ UNCHANGED <<events, home, attached>>
        /\ \A x \in Channels : phase'[x] \in {phase[x], "events"}
    BY <1>9 DEF SendObjectUpdates, boxVars, ownVars, playVars, ChannelTypes
  <2> QED
    BY <2>1 DEF EnterFirst
<1>10. ASSUME SharedServices \/ UNCHANGED vars PROVE EnterFirst'
  <2>1. UNCHANGED <<phase, home, attached>>
    BY <1>10 DEF SharedServices, Route, PostToChannel, vars, tickVars, ownVars, playVars
  <2>2. Quiet
    BY <1>10, QuietSteps
  <2> QED
    BY <2>1, <2>2, <1>a
<1> QED
  BY <1>1, <1>2, <1>3, <1>4, <1>5, <1>6, <1>7, <1>8, <1>9, <1>10
     DEF Next, Client, Worker, TickLoop, SessionEvent, PacketJob


-----------------------------------------------------------------------------
(***************************************************************************)
(* Part 7: who sends on a session, and the flush lists.                    *)
(***************************************************************************)
(* Jobs that send on the session that is theirs.                           *)
LEMMA OwnerSends ==
  ASSUME SessionTypes, EventTypes, LoadOnce, EnterFirst,
         NEW c \in Channels, NEW s \in Sids,
         \/ DbResultJob(c, s) \/ OnChannelEnter(c, s) \/ OnChannelChangeEnter(c, s)
         \/ OnPortal(c, s) \/ WhisperDeliver(c, s) \/ Refuse(c, s)
  PROVE  /\ home' = home
         /\ writer' = writer \/ (home[s] = c /\ writer' = [writer EXCEPT ![s] = c])
<1>1. CASE DbResultJob(c, s)
  BY <1>1, DbResults DEF LoadOnce
<1>2. CASE OnChannelEnter(c, s)
  BY <1>2, EventTaken DEF OnChannelEnter, Enter, EnterFirst, SendNow, ownVars
<1>3. CASE OnChannelChangeEnter(c, s)
  BY <1>3 DEF OnChannelChangeEnter, Owned, SendNow, ownVars
<1>4. CASE OnPortal(c, s)
  BY <1>4 DEF OnPortal, Owned, SendNow, ownVars
<1>5. CASE WhisperDeliver(c, s)
  BY <1>5 DEF WhisperDeliver, SendNow, ownVars
<1>6. CASE Refuse(c, s)
  BY <1>6 DEF Refuse, Owned, SendNow, ownVars
<1> QED
  BY <1>1, <1>2, <1>3, <1>4, <1>5, <1>6

(* The end of a tick: the receivers are the channel's, and so is everybody *)
(* in the flush list.                                                      *)
LEMMA Updates ==
  ASSUME SessionTypes, ChannelTypes, FlushListExact,
         NEW c \in Channels, SendObjectUpdates(c)
  PROVE  \E receivers, sent \in SUBSET Sids :
           /\ \A r \in receivers \cup sent : home[r] = c
           /\ sent = flushList[c] \cup (receivers \ queued)
           /\ writer' = [t \in Sids |-> IF t \in sent THEN c ELSE writer[t]]
           /\ queued' = (queued \cup receivers) \ sent
<1>1. PICK seen \in SUBSET {r \in Sids : home[r] = c /\ Entries(c, r) # {}} :
        LET receivers == seen \cup OutboundTo(c)
            sent == flushList[c] \cup (receivers \ queued)
        IN /\ writer' = [t \in Sids |-> IF t \in sent THEN c ELSE writer[t]]
           /\ queued' = (queued \cup receivers) \ sent
  BY DEF SendObjectUpdates
<1>2. PICK receivers \in SUBSET Sids : receivers = seen \cup OutboundTo(c)
  BY DEF OutboundTo, ChannelTypes
<1>3. PICK sent \in SUBSET Sids : sent = flushList[c] \cup (receivers \ queued)
  BY DEF ChannelTypes
<1>4. /\ writer' = [t \in Sids |-> IF t \in sent THEN c ELSE writer[t]]
      /\ queued' = (queued \cup receivers) \ sent
  BY <1>1, <1>2, <1>3
<1>5. \A r \in receivers : home[r] = c
  BY <1>2 DEF OutboundTo
<1>6. \A r \in sent : home[r] = c
  BY <1>3, <1>5 DEF FlushListExact
<1> QED
  BY <1>3, <1>4, <1>5, <1>6

LEMMA SoleWriterStep ==
  ASSUME SessionTypes, ChannelTypes, EventTypes, LaneTypes, Mapped, LoadOnce, EnterFirst,
         SoleWriter, FlushListExact, [Next]_vars
  PROVE  SoleWriter'
<1> USE Constants
<1>1. ASSUME NEW s \in Sids, NEW c \in Channels, OnLoginSuccess(s, c) PROVE SoleWriter'
  BY <1>1 DEF OnLoginSuccess, Mapped, SoleWriter, SessionTypes, sendVars
<1>2. ASSUME NEW c \in Channels, NEW s \in Sids,
             \/ DbResultJob(c, s) \/ OnChannelEnter(c, s) \/ OnChannelChangeEnter(c, s)
             \/ OnPortal(c, s) \/ WhisperDeliver(c, s) \/ Refuse(c, s)
      PROVE  SoleWriter'
  <2>1. /\ home' = home
        /\ writer' = writer \/ (home[s] = c /\ writer' = [writer EXCEPT ![s] = c])
    BY <1>2, OwnerSends
  <2> QED
    BY <2>1 DEF SoleWriter, SessionTypes
<1>3. ASSUME NEW c \in Channels, NEW s \in Sids, OnClientLeave(c, s) PROVE SoleWriter'
  BY <1>3 DEF OnClientLeave, OnSessionGone, SoleWriter, SessionTypes
<1>4. ASSUME NEW c \in Channels, NEW s \in Sids, OnChannelChange(c, s) PROVE SoleWriter'
  <2>1. CASE Owned(c, s)
    <3>1. /\ writer' = [writer EXCEPT ![s] = None]
          /\ \A t \in Sids \ {s} : home'[t] = home[t]
      BY <1>4, <2>1, Changes DEF SessionTypes
    <3> QED
      BY <3>1 DEF SoleWriter, SessionTypes
  <2>2. CASE ~Owned(c, s)
    BY <1>4, <2>2 DEF OnChannelChange, SoleWriter, ownVars
  <2> QED
    BY <2>1, <2>2
<1>5. ASSUME NEW c \in Channels, SendObjectUpdates(c) PROVE SoleWriter'
  <2>1. PICK sent \in SUBSET Sids :
          /\ \A r \in sent : home[r] = c
          /\ writer' = [t \in Sids |-> IF t \in sent THEN c ELSE writer[t]]
    BY <1>5, Updates
  <2>2. home' = home
    BY <1>5 DEF SendObjectUpdates, ownVars
  <2> QED
    BY <2>1, <2>2 DEF SoleWriter
<1>6. ASSUME NEW s \in Sids,
             \/ LoadDone(s) \/ Hangup(s) \/ EnqueuePacket(s) \/ EnqueueDisconnect(s)
             \/ Deliver(s)
      PROVE  SoleWriter'
  BY <1>6 DEF LoadDone, Hangup, EnqueuePacket, EnqueueDisconnect, Deliver, ownVars, sendVars,
              SoleWriter
<1>7. ASSUME NEW c \in Channels, NEW s \in Sids,
             \/ OnStrayLeave(c, s) \/ OnStopMove(c, s) \/ OnStartMove(c, s) \/ OnChat(c, s)
             \/ OnWhisper(c, s)
      PROVE  SoleWriter'
  BY <1>7 DEF OnStrayLeave, OnStopMove, OnStartMove, OnChat, OnWhisper, ownVars, sendVars,
              SoleWriter
<1>8. ASSUME NEW c \in Channels, NextPhase(c) PROVE SoleWriter'
  BY <1>8 DEF NextPhase, ownVars, sendVars, SoleWriter
<1>9. ASSUME SharedServices \/ UNCHANGED vars PROVE SoleWriter'
  BY <1>9 DEF SharedServices, Route, PostToChannel, vars, ownVars, sendVars, SoleWriter
<1> QED
  BY <1>1, <1>2, <1>3, <1>4, <1>5, <1>6, <1>7, <1>8, <1>9
     DEF Next, Client, Worker, TickLoop, SessionEvent, PacketJob

LEMMA FlushListStep ==
  ASSUME SessionTypes, ChannelTypes, EventTypes, LaneTypes, Mapped, LoadOnce, EnterFirst,
         FlushListExact, [Next]_vars
  PROVE  FlushListExact'
<1> USE Constants
<1>1. ASSUME NEW s \in Sids, NEW c \in Channels, OnLoginSuccess(s, c) PROVE FlushListExact'
  <2>1. /\ s \notin queued /\ UNCHANGED <<queued, flushList, phase>>
        /\ \A t \in Sids \ {s} : home'[t] = home[t]
    BY <1>1 DEF OnLoginSuccess, Mapped, SessionTypes, sendVars, tickVars
  <2>2. \A x \in Channels : {r \in queued : home'[r] = x} = {r \in queued : home[r] = x}
    BY <2>1 DEF SessionTypes
  <2> QED
    BY <2>1, <2>2 DEF FlushListExact
<1>2. ASSUME NEW c \in Channels, NEW s \in Sids, OnClientLeave(c, s) PROVE FlushListExact'
  <2>1. /\ home[s] = c /\ phase[c] = "events" /\ UNCHANGED <<flushList, phase>>
        /\ queued' = queued \ {s} /\ \A t \in Sids \ {s} : home'[t] = home[t]
    BY <1>2 DEF OnClientLeave, TakeEvent, OnSessionGone, SessionTypes, tickVars
  <2>2. s \notin queued
    BY <2>1 DEF FlushListExact
  <2>3. \A x \in Channels : {r \in queued' : home'[r] = x} = {r \in queued : home[r] = x}
    BY <2>1, <2>2 DEF SessionTypes
  <2> QED
    BY <2>1, <2>3 DEF FlushListExact
<1>3. ASSUME NEW c \in Channels, NEW s \in Sids, OnChat(c, s) PROVE FlushListExact'
  <2>1. phase[c] = "critical" /\ UNCHANGED <<home, phase>>
    BY <1>3, CriticalTaken DEF OnChat, ownVars
  <2>2. CASE Owned(c, s)
    <3>1. PICK receivers \in SUBSET Sids : receivers = ChatReceivers(c, s)
      BY DEF ChatReceivers, InMap
    <3>2. /\ \A r \in receivers : home[r] = c
          /\ flushList' = [flushList EXCEPT ![c] = @ \cup (receivers \ queued)]
          /\ queued' = queued \cup receivers
      BY <1>3, <2>2, <3>1 DEF OnChat, ChatReceivers
    <3>3. /\ flushList'[c] = flushList[c] \cup (receivers \ queued)
          /\ \A x \in Channels \ {c} : flushList'[x] = flushList[x]
      BY <3>2 DEF ChannelTypes
    <3>4. flushList[c] \cup (receivers \ queued) = {r \in queued \cup receivers : home[r] = c}
      BY <3>2 DEF FlushListExact
    <3>5. \A x \in Channels \ {c} :
            {r \in queued \cup receivers : home[r] = x} = {r \in queued : home[r] = x}
      BY <3>2
    <3> QED
      BY <2>1, <3>2, <3>3, <3>4, <3>5 DEF FlushListExact
  <2>3. CASE ~Owned(c, s)
    BY <1>3, <2>1, <2>3 DEF OnChat, FlushListExact
  <2> QED
    BY <2>2, <2>3
<1>4. ASSUME NEW c \in Channels, NEW s \in Sids, OnChannelChange(c, s) PROVE FlushListExact'
  <2>1. phase' = phase
    BY <1>4 DEF OnChannelChange
  <2>2. CASE Owned(c, s)
    <3>1. /\ queued' = queued \ {s} /\ flushList' = [flushList EXCEPT ![c] = @ \ {s}]
          /\ home[s] = c /\ phase[c] = "critical"
          /\ \A t \in Sids \ {s} : home'[t] = home[t]
      BY <1>4, <2>2, Changes DEF SessionTypes
    <3>2. \A x \in Channels : flushList'[x] = flushList[x] \ {s}
      BY <3>1 DEF ChannelTypes, FlushListExact
    <3>3. \A x \in Channels :
            {r \in queued' : home'[r] = x} = {r \in queued : home[r] = x} \ {s}
      BY <3>1 DEF SessionTypes
    <3> QED
      BY <2>1, <3>1, <3>2, <3>3 DEF FlushListExact
  <2>3. CASE ~Owned(c, s)
    BY <1>4, <2>1, <2>3 DEF OnChannelChange, FlushListExact, ownVars
  <2> QED
    BY <2>2, <2>3
<1>5. ASSUME NEW c \in Channels, SendObjectUpdates(c) PROVE FlushListExact'
  <2>1. PICK receivers, sent \in SUBSET Sids :
          /\ \A r \in receivers \cup sent : home[r] = c
          /\ sent = flushList[c] \cup (receivers \ queued)
          /\ queued' = (queued \cup receivers) \ sent
    BY <1>5, Updates
  <2>2. /\ home' = home /\ flushList'[c] = {} /\ phase'[c] = "events"
        /\ \A x \in Channels \ {c} : flushList'[x] = flushList[x] /\ phase'[x] = phase[x]
    BY <1>5 DEF SendObjectUpdates, ownVars, ChannelTypes
  <2>3. {r \in queued' : home[r] = c} = {}
    BY <2>1 DEF FlushListExact
  <2>4. \A x \in Channels \ {c} : {r \in queued' : home[r] = x} = {r \in queued : home[r] = x}
    BY <2>1
  <2> QED
    BY <2>2, <2>3, <2>4 DEF FlushListExact
<1>6. ASSUME NEW c \in Channels, NextPhase(c) PROVE FlushListExact'
  <2>1. /\ UNCHANGED <<home, queued, flushList>>
        /\ \A x \in Channels : phase'[x] = "events" => phase[x] = "events"
    BY <1>6 DEF NextPhase, ownVars, sendVars, ChannelTypes
  <2> QED
    BY <2>1 DEF FlushListExact
<1>7. ASSUME NEW s \in Sids,
             \/ LoadDone(s) \/ Hangup(s) \/ EnqueuePacket(s) \/ EnqueueDisconnect(s)
             \/ Deliver(s)
      PROVE  FlushListExact'
  <2>1. UNCHANGED <<home, queued, flushList, phase>>
    BY <1>7 DEF LoadDone, Hangup, EnqueuePacket, EnqueueDisconnect, Deliver, ownVars,
                sendVars, tickVars
  <2> QED
    BY <2>1 DEF FlushListExact
<1>8. ASSUME NEW c \in Channels, NEW s \in Sids,
             \/ DbResultJob(c, s) \/ OnChannelEnter(c, s) \/ OnChannelChangeEnter(c, s)
             \/ OnStrayLeave(c, s) \/ OnStopMove(c, s) \/ OnStartMove(c, s)
             \/ OnPortal(c, s) \/ OnWhisper(c, s) \/ WhisperDeliver(c, s) \/ Refuse(c, s)
      PROVE  FlushListExact'
  <2>1. UNCHANGED <<home, queued, flushList, phase>>
    BY <1>8 DEF DbResultJob, OnChannelEnter, OnChannelChangeEnter, OnStrayLeave, OnStopMove,
                OnStartMove, OnPortal, OnWhisper, WhisperDeliver, Refuse, ownVars, sendVars,
                tickVars
  <2> QED
    BY <2>1 DEF FlushListExact
<1>9. ASSUME SharedServices \/ UNCHANGED vars PROVE FlushListExact'
  <2>1. UNCHANGED <<home, queued, flushList, phase>>
    BY <1>9 DEF SharedServices, Route, PostToChannel, vars, ownVars, sendVars, tickVars
  <2> QED
    BY <2>1 DEF FlushListExact
<1> QED
  BY <1>1, <1>2, <1>3, <1>4, <1>5, <1>6, <1>7, <1>8, <1>9
     DEF Next, Client, Worker, TickLoop, SessionEvent, PacketJob


-----------------------------------------------------------------------------
(***************************************************************************)
(* Part 8: the counts of the channels.                                     *)
(***************************************************************************)
Members(c) == {s \in Sids : home[s] = c}

LEMMA MembersFinite ==
  ASSUME NEW c
  PROVE  IsFiniteSet(Members(c)) /\ Cardinality(Members(c)) \in Nat
<1>1. IsFiniteSet(Sids) /\ Members(c) \in SUBSET Sids
  BY ChannelsAssumption DEF Members
<1> QED
  BY <1>1, FS_Subset, FS_CardinalityType

LEMMA PopulationIs ==
  PopulationExact <=> \A c \in Channels : population[c] = Cardinality(Members(c))
  BY DEF PopulationExact, Members

LEMMA PopulationNext ==
  PopulationExact' <=> \A c \in Channels : population'[c] = Cardinality(Members(c)')
  BY DEF PopulationExact, Members

(* A session joins a channel, leaves one, or goes from one to another.     *)
LEMMA Joins ==
  ASSUME SessionTypes, PopulationType, PopulationExact,
         NEW s \in Sids, NEW c \in Channels, home[s] = None,
         home' = [home EXCEPT ![s] = c], population' = [population EXCEPT ![c] = @ + 1]
  PROVE  PopulationExact' /\ PopulationType'
<1>1. Members(c)' = Members(c) \cup {s} /\ s \notin Members(c)
  BY ChannelsAssumption DEF Members, SessionTypes
<1>2. \A x \in Channels \ {c} : Members(x)' = Members(x)
  BY ChannelsAssumption DEF Members, SessionTypes
<1>3. IsFiniteSet(Members(c))
  BY MembersFinite
<1>4. Cardinality(Members(c)') = Cardinality(Members(c)) + 1
  BY <1>1, <1>3, FS_AddElement
<1>5. population'[c] = population[c] + 1 /\ \A x \in Channels \ {c} : population'[x] = population[x]
  BY DEF PopulationType
<1>6. \A x \in Channels : population'[x] = Cardinality(Members(x)')
  BY <1>2, <1>4, <1>5, PopulationIs
<1>7. PopulationType'
  BY DEF PopulationType
<1> QED
  BY <1>6, <1>7, PopulationNext

LEMMA Parts ==
  ASSUME SessionTypes, PopulationType, PopulationExact,
         NEW s \in Sids, NEW c \in Channels, home[s] = c,
         home' = [home EXCEPT ![s] = None], population' = [population EXCEPT ![c] = @ - 1]
  PROVE  PopulationExact' /\ PopulationType'
<1>1. Members(c)' = Members(c) \ {s} /\ s \in Members(c)
  BY ChannelsAssumption DEF Members, SessionTypes
<1>2. \A x \in Channels \ {c} : Members(x)' = Members(x)
  BY ChannelsAssumption DEF Members, SessionTypes
<1>3. IsFiniteSet(Members(c)) /\ Cardinality(Members(c)) \in Nat
  BY MembersFinite
<1>4. Cardinality(Members(c)') = Cardinality(Members(c)) - 1
  BY <1>1, <1>3, FS_RemoveElement
<1>5. Cardinality(Members(c)) # 0
  BY <1>1, <1>3, FS_EmptySet
<1>6. population'[c] = population[c] - 1 /\ \A x \in Channels \ {c} : population'[x] = population[x]
  BY DEF PopulationType
<1>7. \A x \in Channels : population'[x] = Cardinality(Members(x)')
  BY <1>2, <1>4, <1>6, PopulationIs
<1>8. population[c] \in Nat \ {0}
  BY <1>3, <1>5, PopulationIs
<1>9. PopulationType'
  BY <1>8 DEF PopulationType
<1> QED
  BY <1>7, <1>9, PopulationNext

LEMMA Migrates ==
  ASSUME SessionTypes, PopulationType, PopulationExact,
         NEW s \in Sids, NEW c \in Channels, NEW d \in Channels \ {c}, home[s] = c,
         home' = [home EXCEPT ![s] = d],
         population' = [population EXCEPT ![c] = @ - 1, ![d] = @ + 1]
  PROVE  PopulationExact' /\ PopulationType'
<1>1. /\ Members(c)' = Members(c) \ {s} /\ s \in Members(c)
      /\ Members(d)' = Members(d) \cup {s} /\ s \notin Members(d)
  BY DEF Members, SessionTypes
<1>2. \A x \in Channels \ {c, d} : Members(x)' = Members(x)
  BY DEF Members, SessionTypes
<1>3. /\ IsFiniteSet(Members(c)) /\ Cardinality(Members(c)) \in Nat
      /\ IsFiniteSet(Members(d))
  BY MembersFinite
<1>4. Cardinality(Members(c)') = Cardinality(Members(c)) - 1
  BY ZenonT(60), <1>1, <1>3, FS_RemoveElement
<1>5. Cardinality(Members(d)') = Cardinality(Members(d)) + 1
  BY <1>1, <1>3, FS_AddElement
<1>6. Cardinality(Members(c)) # 0
  BY <1>1, <1>3, FS_EmptySet
<1>7. /\ population'[c] = population[c] - 1 /\ population'[d] = population[d] + 1
      /\ \A x \in Channels \ {c, d} : population'[x] = population[x]
  BY DEF PopulationType
<1>8. \A x \in Channels : population'[x] = Cardinality(Members(x)')
  BY <1>2, <1>4, <1>5, <1>7, PopulationIs
<1>9. population[c] \in Nat \ {0}
  BY <1>3, <1>6, PopulationIs
<1>10. PopulationType'
  BY <1>9 DEF PopulationType
<1> QED
  BY <1>8, <1>10, PopulationNext

LEMMA PopulationStep ==
  ASSUME SessionTypes, LaneTypes, PopulationType, Mapped, PopulationExact, [Next]_vars
  PROVE  PopulationExact' /\ PopulationType'
<1>1. ASSUME NEW s \in Sids, NEW c \in Channels, OnLoginSuccess(s, c)
      PROVE  PopulationExact' /\ PopulationType'
  BY <1>1, Joins DEF OnLoginSuccess, Mapped
<1>2. ASSUME NEW c \in Channels, NEW s \in Sids, OnClientLeave(c, s)
      PROVE  PopulationExact' /\ PopulationType'
  BY <1>2, Parts DEF OnClientLeave, OnSessionGone
<1>3. ASSUME NEW c \in Channels, NEW s \in Sids, OnChannelChange(c, s)
      PROVE  PopulationExact' /\ PopulationType'
  <2>1. CASE Owned(c, s)
    <3>1. PICK d \in Channels \ {c} :
            /\ home[s] = c /\ home' = [home EXCEPT ![s] = d]
            /\ population' = [population EXCEPT ![c] = @ - 1, ![d] = @ + 1]
      BY <1>3, <2>1, Changes
    <3> QED
      BY <3>1, Migrates
  <2>2. CASE ~Owned(c, s)
    BY <1>3, <2>2 DEF OnChannelChange, ownVars, PopulationExact, PopulationType
  <2> QED
    BY <2>1, <2>2
<1>4. ASSUME NEW s \in Sids,
             \/ LoadDone(s) \/ Hangup(s) \/ EnqueuePacket(s) \/ EnqueueDisconnect(s)
             \/ Deliver(s)
      PROVE  PopulationExact' /\ PopulationType'
  <2>1. UNCHANGED <<home, population>>
    BY <1>4 DEF LoadDone, Hangup, EnqueuePacket, EnqueueDisconnect, Deliver, ownVars
  <2> QED
    BY <2>1 DEF PopulationExact, PopulationType
<1>5. ASSUME NEW c \in Channels, NEW s \in Sids,
             \/ DbResultJob(c, s) \/ OnChannelEnter(c, s) \/ OnChannelChangeEnter(c, s)
             \/ OnStrayLeave(c, s) \/ OnStopMove(c, s) \/ OnStartMove(c, s) \/ OnChat(c, s)
             \/ OnPortal(c, s) \/ OnWhisper(c, s) \/ WhisperDeliver(c, s) \/ Refuse(c, s)
      PROVE  PopulationExact' /\ PopulationType'
  <2>1. UNCHANGED <<home, population>>
    BY <1>5 DEF DbResultJob, OnChannelEnter, OnChannelChangeEnter, OnStrayLeave, OnStopMove,
                OnStartMove, OnChat, OnPortal, OnWhisper, WhisperDeliver, Refuse, ownVars
  <2> QED
    BY <2>1 DEF PopulationExact, PopulationType
<1>6. ASSUME NEW c \in Channels, NextPhase(c) \/ SendObjectUpdates(c)
      PROVE  PopulationExact' /\ PopulationType'
  BY <1>6 DEF NextPhase, SendObjectUpdates, ownVars, PopulationExact, PopulationType
<1>7. ASSUME SharedServices \/ UNCHANGED vars
      PROVE  PopulationExact' /\ PopulationType'
  BY <1>7 DEF SharedServices, Route, PostToChannel, vars, ownVars, PopulationExact,
              PopulationType
<1> QED
  BY <1>1, <1>2, <1>3, <1>4, <1>5, <1>6, <1>7
     DEF Next, Client, Worker, TickLoop, SessionEvent, PacketJob

-----------------------------------------------------------------------------
(***************************************************************************)
(* Part 9: the leave jobs.                                                 *)
(***************************************************************************)
Announced(s) == \E c \in Channels : In(events[c], Leave(s))

LEMMA LeaveIs ==
  LeaveUnderWay <=>
    \A s \in Sids : net[s] = "noticed" /\ home[s] # None => routing[s] # Nothing \/ Announced(s)
  BY DEF LeaveUnderWay, Announced, In, Leave

LEMMA LeaveNext ==
  LeaveUnderWay' <=>
    \A s \in Sids : net'[s] = "noticed" /\ home'[s] # None => routing'[s] # Nothing \/ Announced(s)'
  BY DEF LeaveUnderWay, Announced, In, Leave

(* Only the owner of a session takes its leave job away.                   *)
LEMMA LeavesStay ==
  ASSUME SessionTypes, EventTypes, LaneTypes, RouteTypes, Notices, [Next]_vars,
         NEW t \in Sids, Announced(t)
  PROVE  Announced(t)' \/ \E c \in Channels : OnClientLeave(c, t)
<1> USE Constants
<1>a. ASSUME NEW c \in Channels, Takes(c), Head(events[c]) # Leave(t)
      PROVE  Announced(t)'
  BY <1>a, EventsTaken DEF Announced
<1>b. ASSUME NEW d \in Channels, NEW f \in Event, Puts(d, f)
      PROVE  Announced(t)'
  BY <1>b, EventsPut DEF Announced
<1>c. ASSUME NEW c \in Channels, NEW f \in Event, Replaces(c, f), Head(events[c]) # Leave(t)
      PROVE  Announced(t)'
  BY <1>c, EventsReplaced DEF Announced
<1>d. ASSUME NEW c \in Channels, NEW d \in Channels, NEW s \in Sids, Passes(c, d, Leave(s)),
             Head(events[c]) = Leave(s)
      PROVE  Announced(t)'
  <2>1. Leave(s) \in Event /\ (Leave(s) = Leave(t) => s = t)
    BY Kinds
  <2>2. /\ In(events'[d], Leave(s))
        /\ \A x \in Channels :
             In(events[x], Leave(t)) => In(events'[x], Leave(t)) \/ Leave(s) = Leave(t)
    BY <1>d, <2>1, EventsPassed
  <2> QED
    BY <2>1, <2>2 DEF Announced
<1>e. ASSUME events' = events PROVE Announced(t)'
  BY <1>e DEF Announced
<1>1. ASSUME NEW s \in Sids, NEW c \in Channels, OnLoginSuccess(s, c) PROVE Announced(t)'
  BY <1>1, <1>e DEF OnLoginSuccess, boxVars
<1>2. ASSUME NEW s \in Sids, LoadDone(s) PROVE Announced(t)'
  <2>1. PICK d \in Channels : Puts(d, Loaded(s))
    BY <1>2 DEF LoadDone, Puts, Loaded, SessionTypes
  <2> QED
    BY <2>1, <1>b, Kinds
<1>3. ASSUME NEW s \in Sids, Hangup(s) \/ EnqueuePacket(s) \/ EnqueueDisconnect(s)
      PROVE  Announced(t)'
  BY <1>3, <1>e DEF Hangup, EnqueuePacket, EnqueueDisconnect, boxVars
<1>4. ASSUME NEW s \in Sids, Deliver(s) PROVE Announced(t)'
  <2>1. CASE routing[s].job.kind = "leave"
    <3>1. routing[s].job = Leave(s) /\ routing[s].to \in Channels
      BY <1>4, <2>1, RouteTarget DEF Notices, Deliver
    <3>2. PICK d \in Channels : Puts(d, Leave(s))
      BY <1>4, <2>1, <3>1 DEF Deliver, Puts
    <3> QED
      BY <3>2, <1>b, Kinds
  <2>2. CASE routing[s].job.kind # "leave"
    BY <1>4, <2>2, <1>e DEF Deliver
  <2> QED
    BY <2>1, <2>2
<1>5. ASSUME NEW c \in Channels, NEW s \in Sids, DbResultJob(c, s) PROVE Announced(t)'
  <2>1. Head(events[c]) = Loaded(s) /\ (Takes(c) \/ Replaces(c, Enter(s)))
    BY <1>5, DbResults
  <2>2. Loaded(s) # Leave(t) /\ Enter(s) \in Event
    BY Kinds
  <2> QED
    BY <2>1, <2>2, <1>a, <1>c
<1>6. ASSUME NEW c \in Channels, NEW s \in Sids, OnChannelEnter(c, s) PROVE Announced(t)'
  <2>1. Takes(c) /\ Head(events[c]) = Enter(s)
    BY <1>6 DEF OnChannelEnter, TakeEvent, Takes, Enter
  <2> QED
    BY <2>1, <1>a, Kinds
<1>7. ASSUME NEW c \in Channels, NEW s \in Sids, OnChannelChangeEnter(c, s) PROVE Announced(t)'
  <2>1. Takes(c) /\ Head(events[c]) = Job("changeEnter", s, None)
    BY <1>7 DEF OnChannelChangeEnter, TakeEvent, Takes
  <2> QED
    BY <2>1, <1>a, Kinds
<1>8. ASSUME NEW c \in Channels, NEW s \in Sids, OnStrayLeave(c, s) PROVE Announced(t)'
  <2>1. Head(events[c]) = Leave(s) /\ \E d \in Channels : Passes(c, d, Leave(s))
    BY <1>8 DEF OnStrayLeave, RerouteLeave, TakeEvent, Leave, Passes, SessionTypes
  <2> QED
    BY <2>1, <1>d
<1>9. ASSUME NEW c \in Channels, NEW s \in Sids, OnClientLeave(c, s)
      PROVE  Announced(t)' \/ OnClientLeave(c, t)
  <2>1. Takes(c) /\ Head(events[c]) = Leave(s)
    BY <1>9 DEF OnClientLeave, TakeEvent, Takes, Leave
  <2>2. Leave(s) = Leave(t) => s = t
    BY Kinds
  <2> QED
    BY <1>9, <2>1, <2>2, <1>a
<1>10. ASSUME NEW c \in Channels, NEW s \in Sids, OnChannelChange(c, s) PROVE Announced(t)'
  <2>1. CASE Owned(c, s)
    <3>1. PICK to \in Channels : Puts(to, Job("changeEnter", s, None))
      BY <1>10, <2>1, Changes
    <3> QED
      BY <3>1, <1>b, Kinds
  <2>2. CASE ~Owned(c, s)
    BY <1>10, <2>2, <1>e DEF OnChannelChange
  <2> QED
    BY <2>1, <2>2
<1>11. ASSUME NEW s \in Sids, NEW c \in Channels,
              \/ OnStopMove(c, s) \/ OnStartMove(c, s) \/ OnPortal(c, s) \/ OnChat(c, s)
              \/ OnWhisper(c, s) \/ WhisperDeliver(c, s) \/ Refuse(c, s)
       PROVE  Announced(t)'
  BY <1>11, <1>e DEF OnStopMove, OnStartMove, OnPortal, OnChat, OnWhisper, WhisperDeliver,
                     Refuse
<1>12. ASSUME NEW c \in Channels, NextPhase(c) \/ SendObjectUpdates(c) PROVE Announced(t)'
  BY <1>12, <1>e DEF NextPhase, SendObjectUpdates, boxVars
<1>13. ASSUME SharedServices \/ UNCHANGED vars PROVE Announced(t)'
  BY <1>13, <1>e DEF SharedServices, Route, PostToChannel, vars, boxVars
<1> QED
  BY <1>1, <1>2, <1>3, <1>4, <1>5, <1>6, <1>7, <1>8, <1>9, <1>10, <1>11, <1>12, <1>13
     DEF Next, Client, Worker, TickLoop, SessionEvent, PacketJob

(* A session is announced as closed by EnqueueDisconnect alone, joins the  *)
(* session map by its login alone, and what is routed for it is delivered. *)
LEMMA NoticeSteps ==
  ASSUME SessionTypes, LaneTypes, RouteTypes, [Next]_vars, NEW t \in Sids
  PROVE  /\ net'[t] = "noticed" => net[t] = "noticed" \/ EnqueueDisconnect(t)
         /\ net'[t] = "noticed" /\ home'[t] # None => home[t] # None
         /\ routing[t] # Nothing => routing'[t] # Nothing \/ Deliver(t)
<1> DEFINE Goal == /\ net'[t] = "noticed" => net[t] = "noticed" \/ EnqueueDisconnect(t)
                   /\ net'[t] = "noticed" /\ home'[t] # None => home[t] # None
                   /\ routing[t] # Nothing => routing'[t] # Nothing \/ Deliver(t)
<1>1. ASSUME NEW s \in Sids, NEW c \in Channels, OnLoginSuccess(s, c) PROVE Goal
  BY <1>1 DEF OnLoginSuccess, SessionTypes
<1>2. ASSUME NEW s \in Sids, Hangup(s) PROVE Goal
  BY <1>2 DEF Hangup, SessionTypes, ownVars
<1>3. ASSUME NEW s \in Sids, EnqueuePacket(s) PROVE Goal
  BY <1>3 DEF EnqueuePacket, RouteTypes, ownVars
<1>4. ASSUME NEW s \in Sids, EnqueueDisconnect(s) PROVE Goal
  BY <1>4 DEF EnqueueDisconnect, SessionTypes, RouteTypes, ownVars
<1>5. ASSUME NEW s \in Sids, Deliver(s) PROVE Goal
  <2>1. UNCHANGED <<net, home>> /\ routing' = [routing EXCEPT ![s] = Nothing]
    BY <1>5 DEF Deliver, ownVars
  <2>2. t # s => routing'[t] = routing[t]
    BY <2>1 DEF RouteTypes
  <2> QED
    BY <1>5, <2>1, <2>2
<1>6. ASSUME NEW s \in Sids, LoadDone(s) PROVE Goal
  BY <1>6 DEF LoadDone, netVars, ownVars
<1>7. ASSUME NEW c \in Channels, NEW s \in Sids, DbResultJob(c, s) PROVE Goal
  BY <1>7 DEF DbResultJob, SessionTypes, ownVars
<1>8. ASSUME NEW c \in Channels, NEW s \in Sids, OnClientLeave(c, s) PROVE Goal
  BY <1>8 DEF OnClientLeave, OnSessionGone, SessionTypes, netVars
<1>9. ASSUME NEW c \in Channels, NEW s \in Sids, OnChannelChange(c, s) PROVE Goal
  <2>1. UNCHANGED <<net, routing>>
    BY <1>9 DEF OnChannelChange, netVars
  <2>2. home'[t] # None => home[t] # None
    <3>1. CASE Owned(c, s)
      BY <1>9, <3>1, Changes, Constants DEF SessionTypes
    <3>2. CASE ~Owned(c, s)
      BY <1>9, <3>2 DEF OnChannelChange, ownVars
    <3> QED
      BY <3>1, <3>2
  <2> QED
    BY <2>1, <2>2
<1>10. ASSUME NEW c \in Channels, NEW s \in Sids,
              \/ OnChannelEnter(c, s) \/ OnChannelChangeEnter(c, s) \/ OnStrayLeave(c, s)
              \/ OnStopMove(c, s) \/ OnStartMove(c, s) \/ OnPortal(c, s) \/ OnChat(c, s)
              \/ OnWhisper(c, s) \/ WhisperDeliver(c, s) \/ Refuse(c, s)
       PROVE  Goal
  BY <1>10 DEF OnChannelEnter, OnChannelChangeEnter, OnStrayLeave, OnStopMove, OnStartMove,
               OnPortal, OnChat, OnWhisper, WhisperDeliver, Refuse, netVars, ownVars
<1>11. ASSUME NEW c \in Channels, NextPhase(c) \/ SendObjectUpdates(c) PROVE Goal
  BY <1>11 DEF NextPhase, SendObjectUpdates, netVars, ownVars
<1>12. ASSUME SharedServices \/ UNCHANGED vars PROVE Goal
  BY <1>12 DEF SharedServices, Route, PostToChannel, vars, netVars, ownVars
<1> HIDE DEF Goal
<1>13. Goal
  BY <1>1, <1>2, <1>3, <1>4, <1>5, <1>6, <1>7, <1>8, <1>9, <1>10, <1>11, <1>12
     DEF Next, Client, Worker, TickLoop, SessionEvent, PacketJob
<1> QED
  BY <1>13 DEF Goal

LEMMA LeaveStep ==
  ASSUME SessionTypes, EventTypes, LaneTypes, RouteTypes, Mapped, Notices, LeaveUnderWay,
         [Next]_vars
  PROVE  LeaveUnderWay'
<1> USE Constants
<1> SUFFICES ASSUME NEW t \in Sids, net'[t] = "noticed", home'[t] # None
             PROVE  routing'[t] # Nothing \/ Announced(t)'
  BY LeaveNext
<1>1. /\ net[t] = "noticed" \/ EnqueueDisconnect(t)
      /\ home[t] # None
      /\ routing[t] # Nothing => routing'[t] # Nothing \/ Deliver(t)
  BY NoticeSteps
<1>2. CASE EnqueueDisconnect(t)
  <2>1. routing'[t] = [job |-> Job("leave", t, None), to |-> home[t]]
    BY <1>2 DEF EnqueueDisconnect, RouteTypes
  <2> QED
    BY <2>1, <1>1 DEF Nothing
<1>3. CASE net[t] = "noticed" /\ Announced(t)
  <2>1. Announced(t)' \/ \E c \in Channels : OnClientLeave(c, t)
    BY <1>3, LeavesStay
  <2>2. ASSUME NEW c \in Channels, OnClientLeave(c, t) PROVE FALSE
    BY <2>2 DEF OnClientLeave, OnSessionGone, SessionTypes
  <2> QED
    BY <2>1, <2>2
<1>4. CASE net[t] = "noticed" /\ Deliver(t)
  <2>1. routing[t] # Nothing
    BY <1>4 DEF Deliver
  <2>2. routing[t].job = Leave(t) /\ routing[t].to \in Channels
    BY <2>1, <1>4, RouteTarget DEF Notices
  <2>3. routing[t].job.kind = "leave"
    BY <2>2 DEF Leave, Job
  <2>4. PICK d \in Channels : Puts(d, Leave(t))
    BY <1>4, <2>2, <2>3 DEF Deliver, Puts
  <2>5. Leave(t) \in Event
    BY Kinds
  <2>6. In(events'[d], Leave(t))
    BY <2>4, <2>5, EventsPut
  <2> QED
    BY <2>6 DEF Announced
<1> QED
  BY <1>1, <1>2, <1>3, <1>4, LeaveIs


-----------------------------------------------------------------------------
(***************************************************************************)
(* Part 10: types.                                                         *)
(***************************************************************************)
LEMMA SessionTypesStep ==
  ASSUME SessionTypes, ChannelTypes, EventTypes, LaneTypes, LoadOnce, EnterFirst,
         FlushListExact, [Next]_vars
  PROVE  SessionTypes'
<1>1. ASSUME NEW s \in Sids, NEW c \in Channels, OnLoginSuccess(s, c) PROVE SessionTypes'
  BY <1>1 DEF OnLoginSuccess, SessionTypes, playVars, sendVars
<1>2. ASSUME NEW s \in Sids, LoadDone(s) PROVE SessionTypes'
  BY <1>2 DEF LoadDone, SessionTypes, netVars, ownVars, playVars, sendVars
<1>3. ASSUME NEW s \in Sids, Hangup(s) \/ EnqueueDisconnect(s) PROVE SessionTypes'
  BY <1>3 DEF Hangup, EnqueueDisconnect, SessionTypes, ownVars, playVars, sendVars
<1>4. ASSUME NEW s \in Sids, EnqueuePacket(s) \/ Deliver(s) PROVE SessionTypes'
  BY <1>4 DEF EnqueuePacket, Deliver, SessionTypes, ownVars, playVars, sendVars
<1>5. ASSUME NEW c \in Channels, NEW s \in Sids, DbResultJob(c, s) PROVE SessionTypes'
  <2>1. net' \in [Sids -> {"new", "open", "closed", "noticed"}] /\ attached' \subseteq Sids
    BY <1>5 DEF DbResultJob, SessionTypes
  <2>2. UNCHANGED <<home, loads, queued>>
    BY <1>5 DEF DbResultJob, ownVars
  <2>3. writer' \in [Sids -> Channels \cup {None}]
    BY <1>5, OwnerSends DEF SessionTypes
  <2> QED
    BY <2>1, <2>2, <2>3 DEF SessionTypes
<1>6. ASSUME NEW c \in Channels, NEW s \in Sids,
             \/ OnChannelEnter(c, s) \/ OnChannelChangeEnter(c, s)
             \/ OnPortal(c, s) \/ WhisperDeliver(c, s) \/ Refuse(c, s)
      PROVE  SessionTypes'
  <2>1. UNCHANGED <<net, home, loads, attached, queued>>
    BY <1>6 DEF OnChannelEnter, OnChannelChangeEnter, OnPortal, WhisperDeliver, Refuse,
                netVars, ownVars, playVars
  <2>2. writer' \in [Sids -> Channels \cup {None}]
    BY <1>6, OwnerSends DEF SessionTypes
  <2> QED
    BY <2>1, <2>2 DEF SessionTypes
<1>7. ASSUME NEW c \in Channels, NEW s \in Sids,
             \/ OnStrayLeave(c, s) \/ OnStopMove(c, s) \/ OnStartMove(c, s) \/ OnWhisper(c, s)
      PROVE  SessionTypes'
  <2>1. UNCHANGED <<net, home, loads, attached, queued, writer>>
    BY <1>7 DEF OnStrayLeave, OnStopMove, OnStartMove, OnWhisper, netVars, ownVars, playVars,
                sendVars
  <2> QED
    BY <2>1 DEF SessionTypes
<1>8. ASSUME NEW c \in Channels, NEW s \in Sids, OnChat(c, s) PROVE SessionTypes'
  <2>1. UNCHANGED <<net, home, loads, attached, writer>>
    BY <1>8 DEF OnChat, netVars, ownVars, playVars
  <2>2. queued' \subseteq Sids
    BY <1>8 DEF OnChat, ChatReceivers, InMap, SessionTypes
  <2> QED
    BY <2>1, <2>2 DEF SessionTypes
<1>9. ASSUME NEW c \in Channels, NEW s \in Sids, OnClientLeave(c, s) PROVE SessionTypes'
  BY <1>9 DEF OnClientLeave, OnSessionGone, SessionTypes, netVars
<1>10. ASSUME NEW c \in Channels, NEW s \in Sids, OnChannelChange(c, s) PROVE SessionTypes'
  <2>1. UNCHANGED <<net, loads, attached>>
    BY <1>10 DEF OnChannelChange, netVars, playVars
  <2>2. CASE Owned(c, s)
    <3>1. PICK to \in Channels :
            /\ home' = [home EXCEPT ![s] = to] /\ queued' = queued \ {s}
            /\ writer' = [writer EXCEPT ![s] = None]
      BY <1>10, <2>2, Changes
    <3> QED
      BY <2>1, <3>1 DEF SessionTypes
  <2>3. CASE ~Owned(c, s)
    BY <1>10, <2>1, <2>3 DEF OnChannelChange, ownVars, SessionTypes
  <2> QED
    BY <2>2, <2>3
<1>11. ASSUME NEW c \in Channels, SendObjectUpdates(c) PROVE SessionTypes'
  <2>1. UNCHANGED <<net, home, loads, attached>>
    BY <1>11 DEF SendObjectUpdates, netVars, ownVars, playVars
  <2>2. PICK receivers, sent \in SUBSET Sids :
          /\ writer' = [t \in Sids |-> IF t \in sent THEN c ELSE writer[t]]
          /\ queued' = (queued \cup receivers) \ sent
    BY <1>11, Updates
  <2> QED
    BY <2>1, <2>2 DEF SessionTypes
<1>12. ASSUME NEW c \in Channels, NextPhase(c) PROVE SessionTypes'
  BY <1>12 DEF NextPhase, SessionTypes, netVars, ownVars, playVars, sendVars
<1>13. ASSUME SharedServices \/ UNCHANGED vars PROVE SessionTypes'
  BY <1>13 DEF SharedServices, Route, PostToChannel, vars, SessionTypes, netVars, ownVars,
               playVars, sendVars
<1> QED
  BY <1>1, <1>2, <1>3, <1>4, <1>5, <1>6, <1>7, <1>8, <1>9, <1>10, <1>11, <1>12, <1>13
     DEF Next, Client, Worker, TickLoop, SessionEvent, PacketJob

(* Moves and portals, and what the histories keep.                         *)
LEMMA PlayTypesStep ==
  ASSUME PlayTypes, SessionTypes, RouteTypes, LaneTypes, [Next]_vars
  PROVE  PlayTypes'
<1>a. ASSUME NEW c \in Channels, NEW s \in Sids, NEW k, NEW seq \in Nat, MoveTo(c, s, k, seq)
      PROVE  moving' \subseteq Sids /\ lastSeq' \in [Sids -> Nat]
  BY <1>a DEF MoveTo, PlayTypes
<1>1. ASSUME NEW s \in Sids, Deliver(s) PROVE PlayTypes'
  <2>1. UNCHANGED <<map, moving, lastSeq, changed, hurried>>
    BY <1>1 DEF Deliver, playVars
  <2>2. kept' \in [Sids -> {"none"} \cup Moves]
    <3>1. kept' = kept \/ \E v \in {"none"} \cup Moves : kept' = [kept EXCEPT ![s] = v]
      BY <1>1 DEF Deliver, PlayTypes, Moves
    <3> QED
      BY <3>1 DEF PlayTypes
  <2> QED
    BY <2>1, <2>2 DEF PlayTypes
<1>2. ASSUME NEW c \in Channels, NEW s \in Sids, OnClientLeave(c, s) PROVE PlayTypes'
  BY <1>2 DEF OnClientLeave, OnSessionGone, PlayTypes, histVars
<1>3. ASSUME NEW c \in Channels, NEW s \in Sids, OnStopMove(c, s) PROVE PlayTypes'
  <2>1. Head(critical[c]).arg \in Nat
    BY <1>3, CriticalTaken DEF OnStopMove
  <2>2. moving' \subseteq Sids /\ lastSeq' \in [Sids -> Nat]
    BY <1>3, <2>1, <1>a DEF OnStopMove
  <2> QED
    BY <1>3, <2>2 DEF OnStopMove, PlayTypes, histVars
<1>4. ASSUME NEW c \in Channels, NEW s \in Sids, OnStartMove(c, s) PROVE PlayTypes'
  <2>1. moves[c] \in Seq(MoveJob) /\ moves[c] # <<>>
    BY <1>4 DEF OnStartMove, LaneTypes
  <2>2. Head(moves[c]) \in MoveJob
    BY <2>1, Taken
  <2>3. Head(moves[c]).arg \in Nat
    BY <2>2 DEF MoveJob
  <2>4. moving' \subseteq Sids /\ lastSeq' \in [Sids -> Nat]
    BY <1>4, <2>3, <1>a DEF OnStartMove
  <2> QED
    BY <1>4, <2>4 DEF OnStartMove, PlayTypes, histVars
<1>5. ASSUME NEW c \in Channels, NEW s \in Sids, OnPortal(c, s) PROVE PlayTypes'
  <2>1. map' \in [Sids -> Maps] /\ hurried' \subseteq Sids
    BY <1>5 DEF OnPortal, PlayTypes
  <2>2. UNCHANGED <<moving, lastSeq, kept, changed>>
    BY <1>5 DEF OnPortal
  <2> QED
    BY <2>1, <2>2 DEF PlayTypes
<1>6. ASSUME NEW c \in Channels, NEW s \in Sids, OnChannelChange(c, s) PROVE PlayTypes'
  <2>1. UNCHANGED <<map, moving, lastSeq, kept>>
    BY <1>6 DEF OnChannelChange, playVars
  <2>2. /\ changed' = changed \/ changed' = changed \cup {s}
        /\ hurried' = hurried \/ hurried' = hurried \cup {s}
    BY <1>6 DEF OnChannelChange
  <2>3. changed' \subseteq Sids /\ hurried' \subseteq Sids
    BY <2>2 DEF PlayTypes
  <2> QED
    BY <2>1, <2>3 DEF PlayTypes
<1>7. ASSUME NEW s \in Sids, NEW c \in Channels, OnLoginSuccess(s, c) PROVE PlayTypes'
  BY <1>7 DEF OnLoginSuccess, PlayTypes, playVars, histVars
<1>8. ASSUME NEW s \in Sids,
             LoadDone(s) \/ Hangup(s) \/ EnqueuePacket(s) \/ EnqueueDisconnect(s)
      PROVE  PlayTypes'
  BY <1>8 DEF LoadDone, Hangup, EnqueuePacket, EnqueueDisconnect, PlayTypes, playVars,
              histVars
<1>9. ASSUME NEW c \in Channels, NEW s \in Sids,
             \/ DbResultJob(c, s) \/ OnChannelEnter(c, s) \/ OnChannelChangeEnter(c, s)
             \/ OnStrayLeave(c, s) \/ OnChat(c, s) \/ OnWhisper(c, s)
             \/ WhisperDeliver(c, s) \/ Refuse(c, s)
      PROVE  PlayTypes'
  <2>1. UNCHANGED <<map, moving, lastSeq, kept, changed, hurried>>
    BY <1>9 DEF DbResultJob, OnChannelEnter, OnChannelChangeEnter, OnStrayLeave, OnChat,
                OnWhisper, WhisperDeliver, Refuse, playVars, histVars
  <2> QED
    BY <2>1 DEF PlayTypes
<1>10. ASSUME NEW c \in Channels, NextPhase(c) \/ SendObjectUpdates(c) PROVE PlayTypes'
  BY <1>10 DEF NextPhase, SendObjectUpdates, PlayTypes, playVars, histVars
<1>11. ASSUME SharedServices \/ UNCHANGED vars PROVE PlayTypes'
  BY <1>11 DEF SharedServices, Route, PostToChannel, vars, PlayTypes, playVars, histVars
<1> QED
  BY <1>1, <1>2, <1>3, <1>4, <1>5, <1>6, <1>7, <1>8, <1>9, <1>10, <1>11
     DEF Next, Client, Worker, TickLoop, SessionEvent, PacketJob

(* Ticks, their outbound receivers and flush lists.                        *)
LEMMA ChannelTypesStep ==
  ASSUME SessionTypes, PlayTypes, ChannelTypes, LaneTypes, [Next]_vars
  PROVE  ChannelTypes'
<1> USE ChannelsAssumption
<1>a. ASSUME NEW c \in Channels, NEW s \in Sids, NEW k, TakeCritical(c, k, s)
      PROVE  done' \in [Channels -> 0 .. JobsPerTick]
  BY <1>a DEF TakeCritical, ChannelTypes
<1>b. ASSUME NEW c \in Channels, NEW s \in Sids, AddPlayer(c, s)
      PROVE  outbound' \in [Channels -> SUBSET Sids]
  BY <1>b DEF AddPlayer, InMap, ChannelTypes
<1>1. ASSUME NEW c \in Channels, NEW s \in Sids,
             OnChannelEnter(c, s) \/ OnChannelChangeEnter(c, s)
      PROVE  ChannelTypes'
  <2>1. UNCHANGED <<phase, done, flushList>>
    BY <1>1 DEF OnChannelEnter, OnChannelChangeEnter, tickVars
  <2>2. outbound' \in [Channels -> SUBSET Sids]
    BY <1>1, <1>b DEF OnChannelEnter, OnChannelChangeEnter, ChannelTypes
  <2> QED
    BY <2>1, <2>2 DEF ChannelTypes
<1>2. ASSUME NEW c \in Channels, NEW s \in Sids, OnClientLeave(c, s) PROVE ChannelTypes'
  <2>1. UNCHANGED <<phase, done, flushList>>
    BY <1>2 DEF OnClientLeave, tickVars
  <2>2. \/ outbound' = outbound
        \/ outbound' = [outbound EXCEPT ![c] = @ \cup (InMap(c, map[s]) \ {s})]
    BY <1>2 DEF OnClientLeave
  <2>3. InMap(c, map[s]) \subseteq Sids
    BY DEF InMap
  <2>4. outbound' \in [Channels -> SUBSET Sids]
    BY <2>2, <2>3 DEF ChannelTypes
  <2> QED
    BY <2>1, <2>4 DEF ChannelTypes
<1>3. ASSUME NEW c \in Channels, NEW s \in Sids,
             \/ OnStopMove(c, s) \/ OnWhisper(c, s) \/ WhisperDeliver(c, s) \/ Refuse(c, s)
      PROVE  ChannelTypes'
  <2>1. UNCHANGED <<phase, outbound, flushList>>
    BY <1>3 DEF OnStopMove, OnWhisper, WhisperDeliver, Refuse, sendVars
  <2>2. done' \in [Channels -> 0 .. JobsPerTick]
    BY <1>3, <1>a DEF OnStopMove, OnWhisper, WhisperDeliver, Refuse
  <2> QED
    BY <2>1, <2>2 DEF ChannelTypes
<1>4. ASSUME NEW c \in Channels, NEW s \in Sids, OnStartMove(c, s) PROVE ChannelTypes'
  BY <1>4 DEF OnStartMove, ChannelTypes, sendVars
<1>5. ASSUME NEW c \in Channels, NEW s \in Sids, OnPortal(c, s) PROVE ChannelTypes'
  <2>1. UNCHANGED <<phase, flushList>>
    BY <1>5 DEF OnPortal
  <2>2. done' \in [Channels -> 0 .. JobsPerTick]
    BY <1>5, <1>a DEF OnPortal
  <2>3. outbound' \in [Channels -> SUBSET Sids]
    BY <1>5 DEF OnPortal, ChannelTypes, InMap
  <2> QED
    BY <2>1, <2>2, <2>3 DEF ChannelTypes
<1>6. ASSUME NEW c \in Channels, NEW s \in Sids, OnChat(c, s) PROVE ChannelTypes'
  <2>1. UNCHANGED <<phase, outbound>>
    BY <1>6 DEF OnChat
  <2>2. done' \in [Channels -> 0 .. JobsPerTick]
    BY <1>6, <1>a DEF OnChat
  <2>3. /\ \/ flushList' = flushList
           \/ flushList' = [flushList EXCEPT ![c] = @ \cup (ChatReceivers(c, s) \ queued)]
        /\ ChatReceivers(c, s) \subseteq Sids
    BY <1>6 DEF OnChat, ChatReceivers, InMap
  <2>4. flushList' \in [Channels -> SUBSET Sids]
    BY <2>3 DEF ChannelTypes
  <2> QED
    BY <2>1, <2>2, <2>4 DEF ChannelTypes
<1>7. ASSUME NEW c \in Channels, NEW s \in Sids, OnChannelChange(c, s) PROVE ChannelTypes'
  <2>1. phase' = phase
    BY <1>7 DEF OnChannelChange
  <2>2. done' \in [Channels -> 0 .. JobsPerTick]
    BY <1>7, <1>a DEF OnChannelChange
  <2>3. outbound' \in [Channels -> SUBSET Sids]
    BY <1>7 DEF OnChannelChange, ChannelTypes, InMap
  <2>4. flushList' \in [Channels -> SUBSET Sids]
    BY <1>7 DEF OnChannelChange, Quiesce, ChannelTypes
  <2> QED
    BY <2>1, <2>2, <2>3, <2>4 DEF ChannelTypes
<1>8. ASSUME NEW c \in Channels, NextPhase(c) PROVE ChannelTypes'
  BY <1>8 DEF NextPhase, ChannelTypes, sendVars
<1>9. ASSUME NEW c \in Channels, SendObjectUpdates(c) PROVE ChannelTypes'
  BY <1>9 DEF SendObjectUpdates, ChannelTypes
<1>10. ASSUME NEW s \in Sids, NEW c \in Channels, OnLoginSuccess(s, c) PROVE ChannelTypes'
  BY <1>10 DEF OnLoginSuccess, ChannelTypes, tickVars, sendVars
<1>11. ASSUME NEW s \in Sids,
              \/ LoadDone(s) \/ Hangup(s) \/ EnqueuePacket(s) \/ EnqueueDisconnect(s)
              \/ Deliver(s)
       PROVE  ChannelTypes'
  BY <1>11 DEF LoadDone, Hangup, EnqueuePacket, EnqueueDisconnect, Deliver, ChannelTypes,
               tickVars, sendVars
<1>12. ASSUME NEW c \in Channels, NEW s \in Sids, DbResultJob(c, s) \/ OnStrayLeave(c, s)
       PROVE  ChannelTypes'
  <2>1. UNCHANGED <<phase, done, outbound, flushList>>
    BY <1>12 DEF DbResultJob, OnStrayLeave, tickVars, sendVars
  <2> QED
    BY <2>1 DEF ChannelTypes
<1>13. ASSUME SharedServices \/ UNCHANGED vars PROVE ChannelTypes'
  BY <1>13 DEF SharedServices, Route, PostToChannel, vars, ChannelTypes, tickVars, sendVars
<1> QED
  BY <1>1, <1>2, <1>3, <1>4, <1>5, <1>6, <1>7, <1>8, <1>9, <1>10, <1>11, <1>12, <1>13
     DEF Next, Client, Worker, TickLoop, SessionEvent, PacketJob

(* The maps: entries are inserted and erased.                              *)
LEMMA GridTypesStep ==
  ASSUME PlayTypes, GridTypes, [Next]_vars
  PROVE  GridTypes'
<1> DEFINE Grids == [Channels -> [Sids -> [Maps -> Nat]]]
<1>a. ASSUME NEW g \in Grids, NEW c \in Channels, NEW s \in Sids, NEW m \in Maps
      PROVE  Insert(g, c, s, m) \in Grids
  BY <1>a DEF Insert
<1>b. ASSUME NEW g \in Grids, NEW c \in Channels, NEW s \in Sids, NEW m \in Maps
      PROVE  Erase(g, c, s, m) \in Grids
  <2>1. g[c][s][m] \in Nat
    BY <1>b
  <2>2. PICK n \in Nat : n = IF g[c][s][m] = 0 THEN 0 ELSE g[c][s][m] - 1
    BY <2>1
  <2>3. Erase(g, c, s, m) = [g EXCEPT ![c][s][m] = n]
    BY <2>2 DEF Erase
  <2> QED
    BY <2>3
<1>c. grid \in Grids /\ \A s \in Sids : map[s] \in Maps
  BY DEF GridTypes, PlayTypes
<1>d. grid' \in Grids => GridTypes'
  BY DEF GridTypes
<1> HIDE DEF Grids
<1>1. ASSUME NEW c \in Channels, NEW s \in Sids,
             OnChannelEnter(c, s) \/ OnChannelChangeEnter(c, s)
      PROVE  GridTypes'
  BY <1>1, <1>a, <1>c, <1>d DEF OnChannelEnter, OnChannelChangeEnter, AddPlayer
<1>2. ASSUME NEW c \in Channels, NEW s \in Sids, OnClientLeave(c, s) \/ OnChannelChange(c, s)
      PROVE  GridTypes'
  BY <1>2, <1>b, <1>c, <1>d DEF OnClientLeave, OnChannelChange
<1>3. ASSUME NEW c \in Channels, NEW s \in Sids, OnPortal(c, s) PROVE GridTypes'
  <2>1. CASE Owned(c, s)
    <3>1. PICK to \in Maps : grid' = Insert(Erase(grid, c, s, map[s]), c, s, to)
      BY <1>3, <2>1 DEF OnPortal
    <3>2. Erase(grid, c, s, map[s]) \in Grids
      BY <1>b, <1>c
    <3> QED
      BY <3>1, <3>2, <1>a, <1>d
  <2>2. CASE ~Owned(c, s)
    BY <1>3, <2>2, <1>c, <1>d DEF OnPortal
  <2> QED
    BY <2>1, <2>2
<1>4. ASSUME NEW s \in Sids, NEW c \in Channels, OnLoginSuccess(s, c) PROVE GridTypes'
  BY <1>4 DEF OnLoginSuccess, GridTypes
<1>5. ASSUME NEW s \in Sids,
             \/ LoadDone(s) \/ Hangup(s) \/ EnqueuePacket(s) \/ EnqueueDisconnect(s)
             \/ Deliver(s)
      PROVE  GridTypes'
  BY <1>5 DEF LoadDone, Hangup, EnqueuePacket, EnqueueDisconnect, Deliver, GridTypes
<1>6. ASSUME NEW c \in Channels, NEW s \in Sids,
             \/ DbResultJob(c, s) \/ OnStrayLeave(c, s) \/ OnStopMove(c, s)
             \/ OnStartMove(c, s) \/ OnChat(c, s) \/ OnWhisper(c, s)
             \/ WhisperDeliver(c, s) \/ Refuse(c, s)
      PROVE  GridTypes'
  BY <1>6 DEF DbResultJob, OnStrayLeave, OnStopMove, OnStartMove, OnChat, OnWhisper,
              WhisperDeliver, Refuse, GridTypes
<1>7. ASSUME NEW c \in Channels, NextPhase(c) \/ SendObjectUpdates(c) PROVE GridTypes'
  BY <1>7 DEF NextPhase, SendObjectUpdates, GridTypes
<1>8. ASSUME SharedServices \/ UNCHANGED vars PROVE GridTypes'
  BY <1>8 DEF SharedServices, Route, PostToChannel, vars, GridTypes
<1> QED
  BY <1>1, <1>2, <1>3, <1>4, <1>5, <1>6, <1>7, <1>8
     DEF Next, Client, Worker, TickLoop, SessionEvent, PacketJob

(* What the completion worker of a session is about to enqueue.            *)
LEMMA RouteTypesStep ==
  ASSUME SessionTypes, RouteTypes, Mapped, [Next]_vars
  PROVE  RouteTypes'
<1>1. ASSUME NEW s \in Sids, Hangup(s) PROVE RouteTypes'
  BY <1>1, EmptySeq DEF Hangup, RouteTypes
<1>2. ASSUME NEW s \in Sids, EnqueuePacket(s) PROVE RouteTypes'
  <2>1. script[s] \in Seq(Packets) /\ script[s] # <<>> /\ home[s] \in Channels
    BY <1>2 DEF EnqueuePacket, RouteTypes, Mapped, SessionTypes
  <2>2. Head(script[s]) \in Packets /\ Tail(script[s]) \in Seq(Packets)
    BY <2>1, Taken
  <2>3. Job(Head(script[s]).kind, s, Head(script[s]).arg) \in Routed
    BY <2>2 DEF Packets, Moves, Routed, CritJob, MoveJob, Job
  <2>4. PICK r \in [job : Routed, to : Channels] : routing' = [routing EXCEPT ![s] = r]
    BY <1>2, <2>1, <2>3 DEF EnqueuePacket
  <2>5. script' = [script EXCEPT ![s] = Tail(script[s])]
    BY <1>2 DEF EnqueuePacket
  <2>6. script' \in [Sids -> Seq(Packets)]
    BY <2>2, <2>5 DEF RouteTypes
  <2>7. routing' \in [Sids -> {Nothing} \cup [job : Routed, to : Channels]]
    BY <2>4 DEF RouteTypes
  <2> QED
    BY <2>6, <2>7 DEF RouteTypes
<1>3. ASSUME NEW s \in Sids, EnqueueDisconnect(s) PROVE RouteTypes'
  <2>1. home[s] \in Channels
    BY <1>3 DEF EnqueueDisconnect, Mapped, SessionTypes
  <2>2. Job("leave", s, None) \in Routed
    BY DEF Routed, Job
  <2>3. PICK r \in [job : Routed, to : Channels] : routing' = [routing EXCEPT ![s] = r]
    BY <1>3, <2>1, <2>2 DEF EnqueueDisconnect
  <2> QED
    BY <1>3, <2>3 DEF EnqueueDisconnect, RouteTypes
<1>4. ASSUME NEW s \in Sids, Deliver(s) PROVE RouteTypes'
  BY <1>4 DEF Deliver, RouteTypes
<1>5. ASSUME NEW s \in Sids, NEW c \in Channels, OnLoginSuccess(s, c) PROVE RouteTypes'
  BY <1>5 DEF OnLoginSuccess, RouteTypes
<1>6. ASSUME NEW s \in Sids, LoadDone(s) PROVE RouteTypes'
  BY <1>6 DEF LoadDone, RouteTypes, netVars
<1>7. ASSUME NEW c \in Channels, NEW s \in Sids,
             \/ DbResultJob(c, s) \/ OnChannelEnter(c, s) \/ OnChannelChangeEnter(c, s)
             \/ OnStrayLeave(c, s) \/ OnClientLeave(c, s) \/ OnStopMove(c, s)
             \/ OnStartMove(c, s) \/ OnPortal(c, s) \/ OnChat(c, s) \/ OnWhisper(c, s)
             \/ WhisperDeliver(c, s) \/ Refuse(c, s) \/ OnChannelChange(c, s)
      PROVE  RouteTypes'
  <2>1. UNCHANGED <<script, routing>>
    BY <1>7 DEF DbResultJob, OnChannelEnter, OnChannelChangeEnter, OnStrayLeave,
                OnClientLeave, OnStopMove, OnStartMove, OnPortal, OnChat, OnWhisper,
                WhisperDeliver, Refuse, OnChannelChange, netVars
  <2> QED
    BY <2>1 DEF RouteTypes
<1>8. ASSUME NEW c \in Channels, NextPhase(c) \/ SendObjectUpdates(c) PROVE RouteTypes'
  BY <1>8 DEF NextPhase, SendObjectUpdates, RouteTypes, netVars
<1>9. ASSUME SharedServices \/ UNCHANGED vars PROVE RouteTypes'
  BY <1>9 DEF SharedServices, Route, PostToChannel, vars, RouteTypes, netVars
<1> QED
  BY <1>1, <1>2, <1>3, <1>4, <1>5, <1>6, <1>7, <1>8, <1>9
     DEF Next, Client, Worker, TickLoop, SessionEvent, PacketJob

(* The lanes of the channels.                                              *)
LEMMA LaneTypesStep ==
  ASSUME RouteTypes, LaneTypes, ChatTypes, Notices, [Next]_vars
  PROVE  LaneTypes'
<1>a. ASSUME NEW c \in Channels, NEW s \in Sids, NEW k, TakeCritical(c, k, s)
      PROVE  critical' \in [Channels -> Seq(CritJob)]
  <2>1. Tail(critical[c]) \in Seq(CritJob)
    BY <1>a, CriticalTaken
  <2> QED
    BY <1>a, <2>1 DEF TakeCritical, LaneTypes
<1>b. ASSUME NEW c \in Channels, NEW j \in CritJob,
             critical' = [critical EXCEPT ![c] = Append(@, j)]
      PROVE  critical' \in [Channels -> Seq(CritJob)]
  <2>1. Append(critical[c], j) \in Seq(CritJob)
    BY Put DEF LaneTypes
  <2> QED
    BY <1>b, <2>1 DEF LaneTypes
<1>1. ASSUME NEW s \in Sids, Deliver(s) PROVE LaneTypes'
  <2>1. routing[s].to \in Channels /\ routing[s].job \in Routed
    BY <1>1, RouteTarget DEF Deliver
  <2>2. PICK c \in Channels, j \in Routed : c = routing[s].to /\ j = routing[s].job
    BY <2>1
  <2>3. CASE j.kind = "leave"
    BY <1>1, <2>2, <2>3 DEF Deliver, LaneTypes
  <2>4. CASE j.kind = "start"
    <3>1. j \in MoveJob
      BY <2>4 DEF Routed, CritJob, MoveJob
    <3>2. Append(moves[c], j) \in Seq(MoveJob)
      BY <3>1, Put DEF LaneTypes
    <3>3. critical' = critical /\ (moves' = moves \/ moves' = [moves EXCEPT ![c] = Append(@, j)])
      BY <1>1, <2>2, <2>4 DEF Deliver
    <3> QED
      BY <3>2, <3>3 DEF LaneTypes
  <2>5. CASE j.kind \notin {"leave", "start"}
    <3>1. j \in CritJob
      BY <2>5 DEF Routed, CritJob, MoveJob
    <3>2. moves' = moves /\ critical' = [critical EXCEPT ![c] = Append(@, j)]
      BY <1>1, <2>2, <2>5 DEF Deliver
    <3>3. critical' \in [Channels -> Seq(CritJob)]
      BY <3>1, <3>2, <1>b
    <3> QED
      BY <3>2, <3>3 DEF LaneTypes
  <2> QED
    BY <2>3, <2>4, <2>5
<1>2. ASSUME NEW c \in Channels, NEW s \in Sids,
             \/ OnStopMove(c, s) \/ OnPortal(c, s) \/ OnChat(c, s) \/ OnWhisper(c, s)
             \/ WhisperDeliver(c, s) \/ Refuse(c, s) \/ OnChannelChange(c, s)
      PROVE  LaneTypes'
  <2>1. moves' = moves
    BY <1>2 DEF OnStopMove, OnPortal, OnChat, OnWhisper, WhisperDeliver, Refuse,
                OnChannelChange
  <2>2. critical' \in [Channels -> Seq(CritJob)]
    BY <1>2, <1>a DEF OnStopMove, OnPortal, OnChat, OnWhisper, WhisperDeliver, Refuse,
                      OnChannelChange
  <2> QED
    BY <2>1, <2>2 DEF LaneTypes
<1>3. ASSUME NEW c \in Channels, NEW s \in Sids, OnStartMove(c, s) PROVE LaneTypes'
  <2>1. moves[c] \in Seq(MoveJob) /\ moves[c] # <<>>
    BY <1>3 DEF OnStartMove, LaneTypes
  <2>2. Tail(moves[c]) \in Seq(MoveJob)
    BY <2>1, Taken
  <2>3. critical' = critical /\ moves' = [moves EXCEPT ![c] = Tail(@)]
    BY <1>3 DEF OnStartMove
  <2> QED
    BY <2>2, <2>3 DEF LaneTypes
<1>4. ASSUME SharedServices \/ UNCHANGED vars PROVE LaneTypes'
  <2>1. CASE PostToChannel
    <3>1. PICK c \in Channels, j \in CritJob : c = posting.to /\ j = posting.job
      BY <2>1 DEF PostToChannel, ChatTypes
    <3>2. moves' = moves /\ critical' = [critical EXCEPT ![c] = Append(@, j)]
      BY <2>1, <3>1 DEF PostToChannel
    <3>3. critical' \in [Channels -> Seq(CritJob)]
      BY <3>2, <1>b
    <3> QED
      BY <3>2, <3>3 DEF LaneTypes
  <2>2. CASE Route \/ UNCHANGED vars
    BY <2>2 DEF Route, vars, boxVars, LaneTypes
  <2> QED
    BY <1>4, <2>1, <2>2 DEF SharedServices
<1>5. ASSUME NEW s \in Sids, NEW c \in Channels, OnLoginSuccess(s, c) PROVE LaneTypes'
  BY <1>5 DEF OnLoginSuccess, LaneTypes, boxVars
<1>6. ASSUME NEW s \in Sids,
             LoadDone(s) \/ Hangup(s) \/ EnqueuePacket(s) \/ EnqueueDisconnect(s)
      PROVE  LaneTypes'
  BY <1>6 DEF LoadDone, Hangup, EnqueuePacket, EnqueueDisconnect, LaneTypes, boxVars
<1>7. ASSUME NEW c \in Channels, NEW s \in Sids,
             \/ DbResultJob(c, s) \/ OnChannelEnter(c, s) \/ OnChannelChangeEnter(c, s)
             \/ OnStrayLeave(c, s) \/ OnClientLeave(c, s)
      PROVE  LaneTypes'
  BY <1>7 DEF DbResultJob, OnChannelEnter, OnChannelChangeEnter, OnStrayLeave, OnClientLeave,
              LaneTypes
<1>8. ASSUME NEW c \in Channels, NextPhase(c) \/ SendObjectUpdates(c) PROVE LaneTypes'
  BY <1>8 DEF NextPhase, SendObjectUpdates, LaneTypes, boxVars
<1> QED
  BY <1>1, <1>2, <1>3, <1>4, <1>5, <1>6, <1>7, <1>8
     DEF Next, Client, Worker, TickLoop, SessionEvent, PacketJob

(* The shared services thread.                                             *)
LEMMA ChatTypesStep ==
  ASSUME SessionTypes, LaneTypes, ChatTypes, [Next]_vars
  PROVE  ChatTypes'
<1> DEFINE Whisper == [kind : {"whisper"}, sid : Sids, arg : Sids]
<1>1. ASSUME NEW c \in Channels, NEW s \in Sids, OnWhisper(c, s) PROVE ChatTypes'
  <2>1. Head(critical[c]) \in Whisper
    BY <1>1, CriticalTaken DEF OnWhisper
  <2>2. Append(whispers, Head(critical[c])) \in Seq(Whisper)
    BY <2>1, Put DEF ChatTypes
  <2> QED
    BY <1>1, <2>2 DEF OnWhisper, ChatTypes
<1>2. ASSUME Route PROVE ChatTypes'
  <2>1. whispers \in Seq(Whisper) /\ whispers # <<>>
    BY <1>2 DEF Route, ChatTypes
  <2>2. Head(whispers) \in Whisper /\ Tail(whispers) \in Seq(Whisper)
    BY <2>1, Taken
  <2>3. PICK s \in Sids : posting' = IF home[s] = None THEN Nothing
                                     ELSE [job |-> Job("deliver", s, None), to |-> home[s]]
    BY <1>2, <2>2 DEF Route
  <2>4. Job("deliver", s, None) \in CritJob
    BY DEF Job, CritJob
  <2>5. posting' \in {Nothing} \cup [job : CritJob, to : Channels]
    BY <2>3, <2>4 DEF SessionTypes
  <2> QED
    BY <1>2, <2>2, <2>5 DEF Route, ChatTypes
<1>3. ASSUME PostToChannel PROVE ChatTypes'
  BY <1>3 DEF PostToChannel, ChatTypes
<1>4. ASSUME UNCHANGED vars PROVE ChatTypes'
  BY <1>4 DEF vars, chatVars, ChatTypes
<1>5. ASSUME NEW s \in Sids, NEW c \in Channels, OnLoginSuccess(s, c) PROVE ChatTypes'
  BY <1>5 DEF OnLoginSuccess, ChatTypes, chatVars
<1>6. ASSUME NEW s \in Sids,
             \/ LoadDone(s) \/ Hangup(s) \/ EnqueuePacket(s) \/ EnqueueDisconnect(s)
             \/ Deliver(s)
      PROVE  ChatTypes'
  BY <1>6 DEF LoadDone, Hangup, EnqueuePacket, EnqueueDisconnect, Deliver, ChatTypes, chatVars
<1>7. ASSUME NEW c \in Channels, NEW s \in Sids,
             \/ DbResultJob(c, s) \/ OnChannelEnter(c, s) \/ OnChannelChangeEnter(c, s)
             \/ OnStrayLeave(c, s) \/ OnClientLeave(c, s) \/ OnStopMove(c, s)
             \/ OnStartMove(c, s) \/ OnPortal(c, s) \/ OnChat(c, s)
             \/ WhisperDeliver(c, s) \/ Refuse(c, s) \/ OnChannelChange(c, s)
      PROVE  ChatTypes'
  BY <1>7 DEF DbResultJob, OnChannelEnter, OnChannelChangeEnter, OnStrayLeave,
              OnClientLeave, OnStopMove, OnStartMove, OnPortal, OnChat,
              WhisperDeliver, Refuse, OnChannelChange, ChatTypes, chatVars
<1>8. ASSUME NEW c \in Channels, NextPhase(c) \/ SendObjectUpdates(c) PROVE ChatTypes'
  BY <1>8 DEF NextPhase, SendObjectUpdates, ChatTypes, chatVars
<1> QED
  BY <1>1, <1>2, <1>3, <1>4, <1>5, <1>6, <1>7, <1>8
     DEF Next, Client, Worker, TickLoop, SessionEvent, PacketJob, SharedServices

-----------------------------------------------------------------------------
(***************************************************************************)
(* Part 11: the enter jobs, and who is in which map.                       *)
(***************************************************************************)
LEMMA ArrivesIs == Arrives <=> ArrivalUnderWay
<1>1. \A t : Called(events, home, t) <=>
        \E i \in DOMAIN events[home[t]] : events[home[t]][i] \in Comes(t)
  BY DEF Called, In, Comes
<1>2. \A t : Drawn(grid, home, t) <=> Entries(home[t], t) # {}
  BY DEF Drawn, Entries
<1>3. \A t : Comes(t) = {Job("enter", t, None), Job("changeEnter", t, None)}
  BY DEF Comes, Enter, Again
<1> QED
  BY <1>1, <1>2, <1>3 DEF Arrives, ArrivalUnderWay

LEMMA AlonePlaced == Placed => GridSound
  BY DEF Placed, PlacedAt, Alone, GridSound

(* Steps that leave the enter jobs of t alone.                             *)
SameJobs(t) ==
  \A x \in Channels : \A e \in Comes(t) :
    /\ In(events'[x], e) <=> In(events[x], e)
    /\ Once(events[x], e) => Once(events'[x], e)

LEMMA SameTaken ==
  ASSUME EventTypes, NEW c \in Channels, Takes(c), NEW t \in Sids, Head(events[c]) \notin Comes(t)
  PROVE  SameJobs(t)
  BY EventsTaken, EventsTakenOnce DEF SameJobs

LEMMA SamePut ==
  ASSUME EventTypes, NEW d \in Channels, NEW f \in Event, Puts(d, f), NEW t \in Sids, f \notin Comes(t)
  PROVE  SameJobs(t)
<1>1. \A x \in Channels : \A e \in Comes(t) : In(events'[x], e) <=> In(events[x], e)
  BY EventsPut
<1>2. \A x \in Channels : \A e \in Comes(t) : Once(events[x], e) => Once(events'[x], e)
  BY EventsPutOnce
<1> QED
  BY <1>1, <1>2 DEF SameJobs

LEMMA SameReplaced ==
  ASSUME EventTypes, NEW c \in Channels, NEW f \in Event, Replaces(c, f), NEW t \in Sids,
         f \notin Comes(t), Head(events[c]) \notin Comes(t)
  PROVE  SameJobs(t)
<1>1. \A x \in Channels : \A e \in Comes(t) : In(events'[x], e) <=> In(events[x], e)
  BY EventsReplaced
<1>2. \A x \in Channels : \A e \in Comes(t) : Once(events[x], e) => Once(events'[x], e)
  BY EventsReplacedOnce
<1> QED
  BY <1>1, <1>2 DEF SameJobs

LEMMA SamePassed ==
  ASSUME EventTypes, NEW c \in Channels, NEW d \in Channels, NEW f \in Event, Passes(c, d, f),
         NEW t \in Sids, f \notin Comes(t), Head(events[c]) \notin Comes(t)
  PROVE  SameJobs(t)
<1>1. \A x \in Channels : \A e \in Comes(t) : In(events'[x], e) <=> In(events[x], e)
  BY EventsPassed
<1>2. \A x \in Channels : \A e \in Comes(t) : Once(events[x], e) => Once(events'[x], e)
  BY EventsPassedOnce
<1> QED
  BY <1>1, <1>2 DEF SameJobs

LEMMA SameUnchanged == ASSUME events' = events, NEW t \in Sids PROVE SameJobs(t)
  BY DEF SameJobs

LEMMA ComesAre ==
  ASSUME NEW s \in Sids, NEW t \in Sids
  PROVE  /\ Loaded(s) \notin Comes(t) /\ Leave(s) \notin Comes(t)
         /\ s # t => Enter(s) \notin Comes(t) /\ Again(s) \notin Comes(t)
         /\ Enter(s) \in Event /\ Again(s) \in Event /\ Enter(s) # Again(t)
         /\ Enter(t) \in Comes(t) /\ Again(t) \in Comes(t)
         /\ \A e \in Comes(t) : e = Enter(t) \/ e = Again(t)
  BY Kinds DEF Comes, Again, Enter, Loaded, Leave, Job

(* ... and t where it is.                                                  *)
SamePlace(t) ==
  /\ \A x \in Channels : grid'[x][t] = grid[x][t]
  /\ map'[t] = map[t] /\ home'[t] = home[t]
  /\ t \in attached' <=> t \in attached
  /\ t \in hurried' <=> t \in hurried
Still(t) == SameJobs(t) /\ SamePlace(t)

LEMMA StillKeeps ==
  ASSUME NEW t \in Sids, Still(t)
  PROVE  /\ PlacedAt(t) => PlacedAt(t)'
         /\ (t \in attached => Drawn(grid, home, t) \/ Called(events, home, t)) /\ home[t] \in Channels =>
            (t \in attached' => Drawn(grid', home', t) \/ Called(events', home', t))
<1>1. /\ \A x \in Channels : grid'[x][t] = grid[x][t]
      /\ map'[t] = map[t] /\ home'[t] = home[t] /\ (t \in attached' <=> t \in attached)
      /\ \A x \in Channels : \A e \in Comes(t) : /\ In(events'[x], e) <=> In(events[x], e)
                                                 /\ Once(events[x], e) => Once(events'[x], e)
  BY DEF Still, SamePlace, SameJobs
<1>2. ASSUME PlacedAt(t) PROVE PlacedAt(t)'
  <2>1. Alone(grid', home', attached', map', t)
    BY <1>1, <1>2 DEF PlacedAt, Alone
  <2>2. \A x \in Channels : Once(events'[x], Again(t))
    BY <1>1, <1>2 DEF PlacedAt, Comes
  <2>3. Awaited(events', grid', home', attached', t)
    BY <1>1, <1>2 DEF PlacedAt, Awaited
  <2> QED
    BY <2>1, <2>2, <2>3 DEF PlacedAt
<1>3. ASSUME home[t] \in Channels, Drawn(grid, home, t) PROVE Drawn(grid', home', t)
  BY <1>1, <1>3 DEF Drawn
<1>4. ASSUME home[t] \in Channels, Called(events, home, t) PROVE Called(events', home', t)
  BY <1>1, <1>4 DEF Called
<1> QED
  BY <1>1, <1>2, <1>3, <1>4

LEMMA GridAside ==
  ASSUME GridTypes, NEW c \in Channels, NEW s \in Sids, NEW m \in Maps, NEW m2 \in Maps,
         NEW t \in Sids, t # s
  PROVE  \A x \in Channels : /\ Insert(grid, c, s, m)[x][t] = grid[x][t]
                             /\ Erase(grid, c, s, m)[x][t] = grid[x][t]
                             /\ Insert(Erase(grid, c, s, m), c, s, m2)[x][t] = grid[x][t]
<1>1. \A x \in Channels : /\ Insert(grid, c, s, m)[x][t] = grid[x][t]
                          /\ Erase(grid, c, s, m)[x][t] = grid[x][t]
  BY DEF Insert, Erase, GridTypes
<1>2. PICK g : g = Erase(grid, c, s, m)
  OBVIOUS
<1>3. DOMAIN g = Channels /\ DOMAIN g[c] = Sids
  BY <1>2 DEF Erase, GridTypes
<1>4. \A x \in Channels : Insert(g, c, s, m2)[x][t] = g[x][t]
  BY <1>3 DEF Insert
<1> QED
  BY <1>1, <1>2, <1>4

(* What Insert and Erase do to the entries of the session itself.          *)
Apart(h, g, c, t, m) ==
  \A x \in Channels, n \in Maps : x # c \/ n # m => h[x][t][n] = g[x][t][n]

LEMMA InsertOwn ==
  ASSUME NEW g \in [Channels -> [Sids -> [Maps -> Nat]]], NEW c \in Channels, NEW t \in Sids,
         NEW m \in Maps, NEW h, h = Insert(g, c, t, m)
  PROVE  /\ h \in [Channels -> [Sids -> [Maps -> Nat]]]
         /\ h[c][t][m] = g[c][t][m] + 1
         /\ Apart(h, g, c, t, m)
<1>1. h = [g EXCEPT ![c][t][m] = g[c][t][m] + 1]
  BY DEF Insert
<1>2. g[c][t][m] + 1 \in Nat
  OBVIOUS
<1>3. h \in [Channels -> [Sids -> [Maps -> Nat]]]
  BY <1>1, <1>2
<1>4. h[c][t][m] = g[c][t][m] + 1
  BY <1>1
<1>5. \A x \in Channels, n \in Maps : x # c \/ n # m => h[x][t][n] = g[x][t][n]
  BY <1>1
<1> QED
  BY <1>3, <1>4, <1>5 DEF Apart

LEMMA EraseOwn ==
  ASSUME NEW g \in [Channels -> [Sids -> [Maps -> Nat]]], NEW c \in Channels, NEW t \in Sids,
         NEW m \in Maps, NEW h, h = Erase(g, c, t, m)
  PROVE  /\ h \in [Channels -> [Sids -> [Maps -> Nat]]]
         /\ h[c][t][m] = IF g[c][t][m] = 0 THEN 0 ELSE g[c][t][m] - 1
         /\ Apart(h, g, c, t, m)
<1>1. PICK k \in Nat : k = IF g[c][t][m] = 0 THEN 0 ELSE g[c][t][m] - 1
  <2>1. g[c][t][m] \in Nat
    OBVIOUS
  <2> QED
    BY <2>1
<1>2. h = [g EXCEPT ![c][t][m] = k]
  BY <1>1 DEF Erase
<1>3. h \in [Channels -> [Sids -> [Maps -> Nat]]]
  BY <1>2
<1>4. h[c][t][m] = k
  BY <1>2
<1>5. \A x \in Channels, n \in Maps : x # c \/ n # m => h[x][t][n] = g[x][t][n]
  BY <1>2
<1> QED
  BY <1>1, <1>3, <1>4, <1>5 DEF Apart

(* The steps that move t, or touch its enter jobs.                         *)
Turns(c, t) ==
  \/ OnLoginSuccess(t, c) \/ DbResultJob(c, t) \/ OnChannelEnter(c, t)
  \/ OnChannelChangeEnter(c, t) \/ OnClientLeave(c, t)
  \/ (OnPortal(c, t) \/ OnChannelChange(c, t)) /\ Owned(c, t)

LEMMA StillSteps ==
  ASSUME SessionTypes, PlayTypes, GridTypes, EventTypes, LaneTypes, RouteTypes, Notices,
         [Next]_vars, NEW t \in Sids
  PROVE  Still(t) \/ \E c \in Channels : Turns(c, t)
<1> USE Constants
<1>a. ASSUME UNCHANGED <<grid, home, attached, map, hurried>> PROVE SamePlace(t)
  BY <1>a DEF SamePlace
<1>b. ASSUME UNCHANGED <<grid, home, attached, map, hurried, events>> PROVE Still(t)
  BY <1>a, <1>b, SameUnchanged DEF Still
<1>1. ASSUME NEW s \in Sids, NEW c \in Channels, OnLoginSuccess(s, c), s # t
      PROVE  Still(t)
  <2>1. /\ UNCHANGED <<grid, attached, map, hurried, events>>
        /\ home'[t] = home[t]
    BY <1>1 DEF OnLoginSuccess, SessionTypes, playVars, boxVars, histVars
  <2>2. SamePlace(t)
    BY <2>1 DEF SamePlace
  <2> QED
    BY <2>1, <2>2, SameUnchanged DEF Still
<1>2. ASSUME NEW s \in Sids, LoadDone(s) PROVE Still(t)
  <2>1. PICK d \in Channels : Puts(d, Loaded(s))
    BY <1>2 DEF LoadDone, Puts, Loaded, SessionTypes
  <2>2. UNCHANGED <<grid, home, attached, map, hurried>>
    BY <1>2 DEF LoadDone, ownVars, playVars, histVars
  <2>3. Loaded(s) \in Event /\ Loaded(s) \notin Comes(t)
    BY ComesAre, Kinds
  <2>4. SameJobs(t)
    BY <2>1, <2>3, SamePut
  <2> QED
    BY <2>2, <2>4, <1>a DEF Still
<1>3. ASSUME NEW s \in Sids, Hangup(s) \/ EnqueuePacket(s) \/ EnqueueDisconnect(s)
      PROVE  Still(t)
  BY <1>3, <1>b DEF Hangup, EnqueuePacket, EnqueueDisconnect, ownVars, playVars, boxVars, histVars
<1>4. ASSUME NEW s \in Sids, Deliver(s) PROVE Still(t)
  <2>0. UNCHANGED <<grid, home, attached, map, hurried>>
    BY <1>4 DEF Deliver, ownVars, playVars
  <2>1. CASE routing[s].job.kind = "leave"
    <3>1. routing[s].job = Leave(s) /\ routing[s].to \in Channels
      BY <1>4, <2>1, RouteTarget DEF Notices, Deliver
    <3>2. PICK d \in Channels : Puts(d, Leave(s))
      BY <1>4, <2>1, <3>1 DEF Deliver, Puts
    <3>3. Leave(s) \in Event /\ Leave(s) \notin Comes(t)
      BY ComesAre, Kinds
    <3>4. SameJobs(t)
      BY <3>2, <3>3, SamePut
    <3> QED
      BY <2>0, <3>4, <1>a DEF Still
  <2>2. CASE routing[s].job.kind # "leave"
    BY <2>0, <1>4, <2>2, <1>b DEF Deliver
  <2> QED
    BY <2>1, <2>2
<1>5. ASSUME NEW c \in Channels, NEW s \in Sids, DbResultJob(c, s), s # t PROVE Still(t)
  <2>1. Head(events[c]) = Loaded(s) /\ home' = home
    BY <1>5, DbResults
  <2>2. UNCHANGED <<grid, map, hurried>> /\ (t \in attached' <=> t \in attached)
    BY <1>5 DEF DbResultJob, histVars
  <2>3. SamePlace(t)
    BY <2>1, <2>2 DEF SamePlace
  <2>4. Loaded(s) \notin Comes(t) /\ Enter(s) \in Event /\ Enter(s) \notin Comes(t)
    BY <1>5, ComesAre
  <2>5. Takes(c) \/ Replaces(c, Enter(s))
    BY <1>5, DbResults
  <2>6. SameJobs(t)
    BY <2>1, <2>4, <2>5, SameTaken, SameReplaced
  <2> QED
    BY <2>3, <2>6 DEF Still
<1>6. ASSUME NEW c \in Channels, NEW s \in Sids,
             OnChannelEnter(c, s) \/ OnChannelChangeEnter(c, s), s # t
      PROVE  Still(t)
  <2>1. Takes(c) /\ Head(events[c]) \in {Enter(s), Again(s)}
    BY <1>6 DEF OnChannelEnter, OnChannelChangeEnter, TakeEvent, Takes, Enter, Again
  <2>2. Enter(s) \notin Comes(t) /\ Again(s) \notin Comes(t)
    BY <1>6, ComesAre
  <2>3. SameJobs(t)
    BY <2>1, <2>2, SameTaken
  <2>4. UNCHANGED <<home, attached, map, hurried>>
    BY <1>6 DEF OnChannelEnter, OnChannelChangeEnter, ownVars, playVars, histVars
  <2>5. grid' = grid \/ grid' = Insert(grid, c, s, map[s])
    BY <1>6 DEF OnChannelEnter, OnChannelChangeEnter, AddPlayer
  <2>6. map[s] \in Maps
    BY DEF PlayTypes
  <2>7. \A x \in Channels : grid'[x][t] = grid[x][t]
    BY <1>6, <2>5, <2>6, GridAside
  <2> QED
    BY <2>3, <2>4, <2>7 DEF Still, SamePlace
<1>7. ASSUME NEW c \in Channels, NEW s \in Sids, OnStrayLeave(c, s) PROVE Still(t)
  <2>1. PICK d \in Channels : Passes(c, d, Leave(s))
    BY <1>7 DEF OnStrayLeave, RerouteLeave, TakeEvent, Leave, Passes, SessionTypes
  <2>2. Head(events[c]) = Leave(s)
    BY <1>7 DEF OnStrayLeave, TakeEvent, Leave
  <2>3. Leave(s) \in Event /\ Leave(s) \notin Comes(t)
    BY ComesAre, Kinds
  <2>4. SameJobs(t)
    BY <2>1, <2>2, <2>3, SamePassed
  <2>5. UNCHANGED <<grid, home, attached, map, hurried>>
    BY <1>7 DEF OnStrayLeave, ownVars, playVars, histVars
  <2> QED
    BY <2>4, <2>5, <1>a DEF Still
<1>8. ASSUME NEW c \in Channels, NEW s \in Sids, OnClientLeave(c, s), s # t PROVE Still(t)
  <2>1. Takes(c) /\ Head(events[c]) = Leave(s)
    BY <1>8 DEF OnClientLeave, TakeEvent, Takes, Leave
  <2>2. SameJobs(t)
    BY <2>1, SameTaken, ComesAre
  <2>3. /\ UNCHANGED <<map, hurried>> /\ (t \in attached' <=> t \in attached)
        /\ home'[t] = home[t]
    BY <1>8 DEF OnClientLeave, OnSessionGone, SessionTypes, histVars
  <2>4. grid' = grid \/ grid' = Erase(grid, c, s, map[s])
    BY <1>8 DEF OnClientLeave
  <2>5. map[s] \in Maps
    BY DEF PlayTypes
  <2>6. \A x \in Channels : grid'[x][t] = grid[x][t]
    BY <1>8, <2>4, <2>5, GridAside
  <2> QED
    BY <2>2, <2>3, <2>6 DEF Still, SamePlace
<1>9. ASSUME NEW c \in Channels, NEW s \in Sids, OnPortal(c, s), s # t \/ ~Owned(c, s)
      PROVE  Still(t)
  <2>1. UNCHANGED <<home, attached, events>>
    BY <1>9 DEF OnPortal, ownVars
  <2>2. CASE ~Owned(c, s)
    BY <1>9, <2>1, <2>2, <1>b DEF OnPortal
  <2>3. CASE Owned(c, s) /\ s # t
    <3>1. PICK to \in Maps : /\ map' = [map EXCEPT ![s] = to]
                             /\ grid' = Insert(Erase(grid, c, s, map[s]), c, s, to)
      BY <1>9, <2>3 DEF OnPortal
    <3>2. t \in hurried' <=> t \in hurried
      BY <1>9, <2>3 DEF OnPortal
    <3>3. map[s] \in Maps /\ map'[t] = map[t]
      BY <3>1, <2>3 DEF PlayTypes
    <3>4. \A x \in Channels : grid'[x][t] = grid[x][t]
      BY <2>3, <3>1, <3>3, GridAside
    <3> QED
      BY <2>1, <3>2, <3>3, <3>4, SameUnchanged DEF Still, SamePlace
  <2> QED
    BY <1>9, <2>2, <2>3
<1>10. ASSUME NEW c \in Channels, NEW s \in Sids, OnChannelChange(c, s), s # t \/ ~Owned(c, s)
       PROVE  Still(t)
  <2>1. UNCHANGED <<attached, map>>
    BY <1>10 DEF OnChannelChange, playVars
  <2>2. CASE ~Owned(c, s)
    BY <1>10, <2>1, <2>2, <1>b DEF OnChannelChange, ownVars
  <2>3. CASE Owned(c, s) /\ s # t
    <3>1. PICK to \in Channels : /\ Puts(to, Again(s)) /\ home' = [home EXCEPT ![s] = to]
      BY <1>10, <2>3, Changes DEF Again
    <3>2. SameJobs(t)
      BY <3>1, <2>3, SamePut, ComesAre
    <3>3. (t \in hurried' <=> t \in hurried) /\ grid' = Erase(grid, c, s, map[s])
      BY <1>10, <2>3 DEF OnChannelChange
    <3>4. map[s] \in Maps /\ home'[t] = home[t]
      BY <3>1, <2>3 DEF PlayTypes, SessionTypes
    <3>5. \A x \in Channels : grid'[x][t] = grid[x][t]
      BY <2>3, <3>3, <3>4, GridAside
    <3> QED
      BY <2>1, <3>2, <3>3, <3>4, <3>5 DEF Still, SamePlace
  <2> QED
    BY <1>10, <2>2, <2>3
<1>11. ASSUME NEW s \in Sids, NEW c \in Channels,
              \/ OnStopMove(c, s) \/ OnStartMove(c, s) \/ OnChat(c, s) \/ OnWhisper(c, s)
              \/ WhisperDeliver(c, s) \/ Refuse(c, s)
       PROVE  Still(t)
  BY <1>11, <1>b DEF OnStopMove, OnStartMove, OnChat, OnWhisper, WhisperDeliver, Refuse,
                     ownVars, playVars, histVars
<1>12. ASSUME NEW c \in Channels, NextPhase(c) \/ SendObjectUpdates(c) PROVE Still(t)
  BY <1>12, <1>b DEF NextPhase, SendObjectUpdates, boxVars, ownVars, playVars, histVars
<1>13. ASSUME SharedServices \/ UNCHANGED vars PROVE Still(t)
  BY <1>13, <1>b DEF SharedServices, Route, PostToChannel, vars, boxVars, ownVars, playVars,
                     histVars
<1>14. ASSUME NEW s \in Sids, Client(s) \/ Worker(s) \/ LoadDone(s)
       PROVE  Still(t) \/ \E c \in Channels : Turns(c, t)
  BY <1>14, <1>1, <1>2, <1>3, <1>4 DEF Client, Worker, Turns
<1>15. ASSUME NEW c \in Channels, SessionEvent(c)
       PROVE  Still(t) \/ \E d \in Channels : Turns(d, t)
  BY <1>15, <1>5, <1>6, <1>7, <1>8 DEF SessionEvent, Turns
<1>16. ASSUME NEW c \in Channels, PacketJob(c)
       PROVE  Still(t) \/ \E d \in Channels : Turns(d, t)
  BY <1>16, <1>9, <1>10, <1>11 DEF PacketJob, Turns
<1> QED
  BY <1>12, <1>13, <1>14, <1>15, <1>16 DEF Next, TickLoop

(* What a login still has ahead of it shrinks, once the session is open.   *)
LEMMA LoginRuns ==
  ASSUME SessionTypes, EventTypes, LaneTypes, RouteTypes, Mapped, Notices, [Next]_vars,
         NEW t \in Sids, net[t] # "new", loads[t] = None,
         \A d \in Channels : ~In(events[d], Loaded(t))
  PROVE  /\ net'[t] # "new" /\ loads'[t] = None
         /\ \A d \in Channels : ~In(events'[d], Loaded(t))
<1> USE Constants
<1>a. ASSUME Quiet PROVE \A d \in Channels : ~In(events'[d], Loaded(t))
  BY <1>a DEF Quiet
<1>1. ASSUME NEW s \in Sids, NEW c \in Channels, OnLoginSuccess(s, c)
      PROVE  /\ net'[t] # "new" /\ loads'[t] = None
             /\ \A d \in Channels : ~In(events'[d], Loaded(t))
  <2>1. s # t /\ net'[t] = net[t] /\ loads'[t] = loads[t]
    BY <1>1 DEF OnLoginSuccess, SessionTypes
  <2> QED
    BY <1>1, <2>1, <1>a, QuietSteps
<1>2. ASSUME NEW s \in Sids, LoadDone(s)
      PROVE  /\ net'[t] # "new" /\ loads'[t] = None
             /\ \A d \in Channels : ~In(events'[d], Loaded(t))
  <2>1. PICK d \in Channels : Puts(d, Loaded(s))
    BY <1>2 DEF LoadDone, Puts, Loaded, SessionTypes
  <2>2. s # t /\ net' = net /\ loads'[t] = loads[t]
    BY <1>2 DEF LoadDone, SessionTypes, netVars
  <2>3. Loaded(s) \in Event /\ Loaded(s) # Loaded(t)
    BY <2>2, Kinds
  <2>4. \A x \in Channels : ~In(events'[x], Loaded(t))
    BY <2>1, <2>3, EventsPut
  <2> QED
    BY <2>2, <2>4
<1>3. ASSUME NEW c \in Channels, NEW s \in Sids, DbResultJob(c, s)
      PROVE  /\ net'[t] # "new" /\ loads'[t] = None
             /\ \A d \in Channels : ~In(events'[d], Loaded(t))
  <2>1. (net'[t] = "new" => net[t] = "new") /\ loads' = loads
    BY <1>3, DbResults
  <2>2. Takes(c) \/ Replaces(c, Enter(s))
    BY <1>3, DbResults
  <2>3. Enter(s) \in Event /\ Loaded(t) # Enter(s)
    BY Kinds
  <2>4. \A x \in Channels : ~In(events'[x], Loaded(t))
    BY <2>2, <2>3, EventsTaken, EventsReplaced
  <2> QED
    BY <2>1, <2>4
<1>4. ASSUME NEW s \in Sids, Hangup(s) \/ EnqueuePacket(s) \/ EnqueueDisconnect(s) \/ Deliver(s)
      PROVE  /\ net'[t] # "new" /\ loads'[t] = None
             /\ \A d \in Channels : ~In(events'[d], Loaded(t))
  <2>1. loads' = loads /\ (net'[t] = "new" => net[t] = "new")
    BY <1>4 DEF Hangup, EnqueuePacket, EnqueueDisconnect, Deliver, SessionTypes
  <2> QED
    BY <1>4, <2>1, <1>a, QuietSteps
<1>5. ASSUME NEW c \in Channels, NEW s \in Sids,
             \/ OnChannelEnter(c, s) \/ OnChannelChangeEnter(c, s) \/ OnStrayLeave(c, s)
             \/ OnClientLeave(c, s) \/ OnStopMove(c, s) \/ OnStartMove(c, s) \/ OnPortal(c, s)
             \/ OnChat(c, s) \/ OnWhisper(c, s) \/ WhisperDeliver(c, s) \/ Refuse(c, s)
             \/ OnChannelChange(c, s)
      PROVE  /\ net'[t] # "new" /\ loads'[t] = None
             /\ \A d \in Channels : ~In(events'[d], Loaded(t))
  <2>1. UNCHANGED <<net, loads>>
    BY <1>5 DEF OnChannelEnter, OnChannelChangeEnter, OnStrayLeave, OnClientLeave, OnStopMove,
                OnStartMove, OnPortal, OnChat, OnWhisper, WhisperDeliver, Refuse,
                OnChannelChange, netVars
  <2> QED
    BY <1>5, <2>1, <1>a, QuietSteps
<1>6. ASSUME NEW c \in Channels, NextPhase(c) \/ SendObjectUpdates(c)
      PROVE  /\ net'[t] # "new" /\ loads'[t] = None
             /\ \A d \in Channels : ~In(events'[d], Loaded(t))
  <2>1. UNCHANGED <<net, loads>>
    BY <1>6 DEF NextPhase, SendObjectUpdates, netVars
  <2> QED
    BY <1>6, <2>1, <1>a, QuietSteps
<1>7. ASSUME SharedServices \/ UNCHANGED vars
      PROVE  /\ net'[t] # "new" /\ loads'[t] = None
             /\ \A d \in Channels : ~In(events'[d], Loaded(t))
  <2>1. UNCHANGED <<net, loads, events>>
    BY <1>7 DEF SharedServices, Route, PostToChannel, vars, netVars, boxVars
  <2> QED
    BY <2>1
<1> QED
  BY <1>1, <1>2, <1>3, <1>4, <1>5, <1>6, <1>7
     DEF Next, Client, Worker, TickLoop, SessionEvent, PacketJob

(* The step at which the enter job of t begins to be there.                *)
LEMMA PostedOnce ==
  ASSUME EventTypes, NEW c \in Channels, NEW f \in Event, Replaces(c, f),
         \A x \in Channels : ~In(events[x], f)
  PROVE  \A x \in Channels : Once(events'[x], f)
<1>1. events[c] \in Seq(Event) /\ events[c] # <<>>
  BY DEF EventTypes, Replaces
<1>2. PICK q \in Seq(Event) : q = Tail(events[c])
  BY <1>1, Taken
<1>3. events'[c] = Append(q, f) /\ (\A x \in Channels \ {c} : events'[x] = events[x])
  BY <1>2 DEF EventTypes, Replaces
<1>4. ~In(q, f)
  BY <1>1, <1>2, Taken
<1>5. Once(q, f)
  BY <1>4 DEF In, Once
<1>6. Once(events'[c], f)
  BY <1>3, <1>4, <1>5, PutOnce
<1>7. ASSUME NEW x \in Channels \ {c} PROVE Once(events'[x], f)
  BY <1>3, <1>7 DEF In, Once
<1> QED
  BY <1>6, <1>7

LEMMA LoginBeforeStep ==
  ASSUME SessionTypes, PlayTypes, ChannelTypes, GridTypes, EventTypes, LaneTypes, RouteTypes,
         Mapped, Notices, LoadOnce, EnterFirst, LoginBefore, [Next]_vars
  PROVE  LoginBefore'
<1> USE Constants
<1> SUFFICES ASSUME NEW s \in Sids, NEW c \in Channels
    PROVE  /\ Once(events'[c], Enter(s))
           /\ In(events'[c], Again(s)) =>
                /\ net'[s] # "new" /\ loads'[s] = None
                /\ \A d \in Channels : ~In(events'[d], Loaded(s)) /\ ~In(events'[d], Enter(s))
  BY DEF LoginBefore
<1> DEFINE Goal == /\ Once(events'[c], Enter(s))
                   /\ In(events'[c], Again(s)) =>
                        /\ net'[s] # "new" /\ loads'[s] = None
                        /\ \A d \in Channels : ~In(events'[d], Loaded(s)) /\ ~In(events'[d], Enter(s))
<1>a. Once(events[c], Enter(s)) /\ Enter(s) \in Comes(s) /\ Again(s) \in Comes(s)
  BY ComesAre DEF LoginBefore
<1>b. In(events[c], Again(s)) =>
        /\ net[s] # "new" /\ loads[s] = None
        /\ \A d \in Channels : ~In(events[d], Loaded(s)) /\ ~In(events[d], Enter(s))
  BY DEF LoginBefore
<1>c. In(events[c], Again(s)) =>
        /\ net'[s] # "new" /\ loads'[s] = None
        /\ \A d \in Channels : ~In(events'[d], Loaded(s))
  BY <1>b, LoginRuns
(* The step posts no enter job of s.                                       *)
<1>d. ASSUME \A x \in Channels : \A e \in Comes(s) : In(events'[x], e) => In(events[x], e),
             Once(events[c], Enter(s)) => Once(events'[c], Enter(s))
      PROVE  Goal
  BY <1>a, <1>b, <1>c, <1>d
<1>e. ASSUME NEW d \in Channels, Takes(d) PROVE Goal
  <2>1. \A x \in Channels : \A e \in Comes(s) : In(events'[x], e) => In(events[x], e)
    BY <1>e, EventsTaken
  <2>2. Once(events[c], Enter(s)) => Once(events'[c], Enter(s))
    BY <1>e, EventsTakenOnce
  <2> QED
    BY <2>1, <2>2, <1>d
<1>1. CASE Still(s)
  BY <1>1, <1>a, <1>d DEF Still, SameJobs
<1>2. ASSUME NEW d \in Channels, Turns(d, s) PROVE Goal
  <2>1. CASE OnLoginSuccess(s, d) \/ OnPortal(d, s)
    <3>1. events' = events
      BY <2>1 DEF OnLoginSuccess, OnPortal, boxVars
    <3> QED
      BY <3>1, <1>d
  <2>2. CASE DbResultJob(d, s)
    <3>1. In(events[d], Loaded(s)) /\ (Takes(d) \/ Replaces(d, Enter(s)))
      BY <2>2, DbResults
    <3>2. CASE Takes(d)
      BY <3>2, <1>e
    <3>3. CASE Replaces(d, Enter(s))
      <4>1. \A x \in Channels : ~In(events[x], Enter(s)) /\ ~In(events[x], Again(s))
        BY <3>1 DEF LoadOnce, LoginBefore
      <4>2. Enter(s) \in Event /\ Enter(s) # Again(s)
        BY ComesAre
      <4>3. Once(events'[c], Enter(s))
        BY <3>3, <4>1, <4>2, PostedOnce
      <4>4. ~In(events'[c], Again(s))
        BY <3>3, <4>1, <4>2, EventsReplaced
      <4> QED
        BY <4>3, <4>4
    <3> QED
      BY <3>1, <3>2, <3>3
  <2>3. CASE OnChannelEnter(d, s) \/ OnChannelChangeEnter(d, s) \/ OnClientLeave(d, s)
    <3>1. Takes(d)
      BY <2>3 DEF OnChannelEnter, OnChannelChangeEnter, OnClientLeave, TakeEvent, Takes
    <3> QED
      BY <3>1, <1>e
  <2>4. CASE OnChannelChange(d, s) /\ Owned(d, s)
    <3>1. PICK to \in Channels : Puts(to, Again(s))
      BY <2>4, Changes DEF Again
    <3>2. home[s] = d /\ s \in attached /\ phase[d] = "critical"
      BY <2>4, Changes
    <3>3. net[s] # "new" /\ loads[s] = None /\ \A x \in Channels : ~In(events[x], Loaded(s))
      BY <3>2 DEF Mapped, LoadOnce
    <3>4. net'[s] # "new" /\ loads'[s] = None /\ \A x \in Channels : ~In(events'[x], Loaded(s))
      BY <3>3, LoginRuns
    <3>5. \A x \in Channels : ~In(events[x], Enter(s))
      BY <3>2 DEF EnterFirst
    <3>6. Again(s) \in Event /\ Enter(s) # Again(s)
      BY ComesAre
    <3>7. \A x \in Channels : ~In(events'[x], Enter(s))
      BY <3>1, <3>5, <3>6, EventsPut
    <3>8. Once(events'[c], Enter(s))
      BY <3>7 DEF In, Once
    <3> QED
      BY <3>4, <3>7, <3>8
  <2> QED
    BY <1>2, <2>1, <2>2, <2>3, <2>4 DEF Turns
<1> QED
  BY <1>1, <1>2, StillSteps

(* Who turns up in no map is placed well.                                  *)
Nowhere(g, t) == \A x \in Channels, m \in Maps : g[x][t][m] = 0

LEMMA NowherePlaced ==
  ASSUME NEW t \in Sids, Nowhere(grid, t)', \A x \in Channels : Once(events'[x], Again(t))
  PROVE  PlacedAt(t)'
<1>1. \A x \in Channels, m \in Maps : grid'[x][t][m] = 0
  BY DEF Nowhere
<1>2. Alone(grid', home', attached', map', t)
  BY <1>1 DEF Alone
<1>3. Awaited(events', grid', home', attached', t)
  BY <1>1 DEF Awaited
<1> QED
  BY <1>2, <1>3 DEF PlacedAt

LEMMA NowhereIs ==
  ASSUME GridTypes, NEW t \in Sids, Alone(grid, home, attached, map, t),
         t \notin attached \/ home[t] = None
  PROVE  Nowhere(grid, t)
<1>1. \A x \in Channels, m \in Maps : grid[x][t][m] \in Nat
  BY DEF GridTypes
<1> QED
  BY <1>1, Constants DEF Alone, Nowhere

LEMMA OnlyAtHome ==
  ASSUME GridTypes, NEW t \in Sids, NEW c \in Channels, Alone(grid, home, attached, map, t),
         home[t] = c
  PROVE  /\ \A x \in Channels, m \in Maps : x # c \/ m # map[t] => grid[x][t][m] = 0
         /\ \A m \in Maps : grid[c][t][m] \in {0, 1}
<1>1. \A x \in Channels, m \in Maps : grid[x][t][m] \in Nat
  BY DEF GridTypes
<1> QED
  BY <1>1 DEF Alone

(* An enter job of its owner puts t onto its map.                          *)
LEMMA PlacedIn ==
  ASSUME GridTypes, PlayTypes, EventTypes, LoginBefore, NEW t \in Sids, PlacedAt(t),
         NEW c \in Channels, Takes(c), NEW e \in Comes(t), Head(events[c]) = e, In(events[c], e),
         home[t] = c, t \in attached, UNCHANGED <<home, attached, map>>,
         grid' = Insert(grid, c, t, map[t])
  PROVE  PlacedAt(t)'
<1>1. Alone(grid, home, attached, map, t) /\ Awaited(events, grid, home, attached, t)
  BY DEF PlacedAt
<1>2. \A m \in Maps : grid[c][t][m] = 0
  BY <1>1 DEF Awaited
<1>3. map[t] \in Maps /\ grid \in [Channels -> [Sids -> [Maps -> Nat]]]
  BY DEF PlayTypes, GridTypes
<1>4. /\ grid'[c][t][map[t]] = grid[c][t][map[t]] + 1
      /\ Apart(grid', grid, c, t, map[t])
  BY <1>3, InsertOwn
<1>5. \A x \in Channels, n \in Maps : x # c => grid[x][t][n] = 0
  BY <1>1, OnlyAtHome
<1>6. \A x \in Channels, n \in Maps :
        grid'[x][t][n] = IF x = c /\ n = map[t] THEN 1 ELSE 0
  BY <1>2, <1>3, <1>4, <1>5 DEF Apart
<1>7. Alone(grid', home', attached', map', t)
  BY <1>6 DEF Alone
<1>8. \A x \in Channels : Once(events[x], Again(t)) /\ Once(events[x], Enter(t))
  BY DEF PlacedAt, LoginBefore
<1>9. \A x \in Channels : Once(events'[x], Again(t))
  BY <1>8, EventsTakenOnce
<1>10. \A f \in Comes(t) : ~In(events'[c], f)
  <2>1. e = Enter(t) \/ e = Again(t)
    BY ComesAre
  <2>2. Once(events[c], e)
    BY <1>8, <2>1
  <2>3. ~In(events'[c], e)
    BY <2>2, EventsTakenOnce
  <2>4. In(events[c], Again(t)) => ~In(events[c], Enter(t))
    BY DEF LoginBefore
  <2>5. \A f \in Comes(t) : f # e => ~In(events[c], f)
    BY <2>1, <2>4, ComesAre
  <2>6. \A f \in Comes(t) : f # e => ~In(events'[c], f)
    BY <2>5, EventsTaken
  <2> QED
    BY <2>3, <2>6
<1>11. Awaited(events', grid', home', attached', t)
  BY <1>10 DEF Awaited
<1> QED
  BY <1>7, <1>9, <1>11 DEF PlacedAt

(* A job taken that changes no map leaves t placed.                        *)
LEMMA PlacedTaken ==
  ASSUME EventTypes, NEW t \in Sids, PlacedAt(t), NEW c \in Channels, Takes(c),
         UNCHANGED <<grid, home, attached, map>>
  PROVE  PlacedAt(t)'
<1>1. Alone(grid', home', attached', map', t)
  BY DEF PlacedAt, Alone
<1>2. \A x \in Channels : Once(events'[x], Again(t))
  BY EventsTakenOnce DEF PlacedAt
<1>3. \A x \in Channels : \A e : In(events'[x], e) => In(events[x], e)
  BY EventsTaken
<1>4. Awaited(events', grid', home', attached', t)
  BY <1>3 DEF PlacedAt, Awaited
<1> QED
  BY <1>1, <1>2, <1>4 DEF PlacedAt

(* Erase takes the one entry of t away.                                    *)
LEMMA ErasedAll ==
  ASSUME GridTypes, PlayTypes, NEW t \in Sids, NEW c \in Channels,
         Alone(grid, home, attached, map, t), home[t] = c
  PROVE  /\ Erase(grid, c, t, map[t]) \in [Channels -> [Sids -> [Maps -> Nat]]]
         /\ \A x \in Channels, m \in Maps : Erase(grid, c, t, map[t])[x][t][m] = 0
<1>1. map[t] \in Maps /\ grid \in [Channels -> [Sids -> [Maps -> Nat]]]
  BY DEF PlayTypes, GridTypes
<1>2. /\ \A x \in Channels, m \in Maps : x # c \/ m # map[t] => grid[x][t][m] = 0
      /\ grid[c][t][map[t]] \in {0, 1}
  BY <1>1, OnlyAtHome
<1>3. PICK g : g = Erase(grid, c, t, map[t])
  OBVIOUS
<1>4. /\ g \in [Channels -> [Sids -> [Maps -> Nat]]]
      /\ g[c][t][map[t]] = IF grid[c][t][map[t]] = 0 THEN 0 ELSE grid[c][t][map[t]] - 1
      /\ Apart(g, grid, c, t, map[t])
  BY <1>1, <1>3, EraseOwn
<1>5. g[c][t][map[t]] = 0
  BY <1>2, <1>4
<1>6. \A x \in Channels, m \in Maps : g[x][t][m] = 0
  BY <1>2, <1>4, <1>5 DEF Apart
<1> QED
  BY <1>3, <1>4, <1>6

LEMMA PlacedPortal ==
  ASSUME GridTypes, PlayTypes, NEW t \in Sids, PlacedAt(t), NEW c \in Channels,
         OnPortal(c, t), Owned(c, t), t \notin hurried'
  PROVE  PlacedAt(t)'
<1>1. /\ Alone(grid, home, attached, map, t) /\ Awaited(events, grid, home, attached, t)
      /\ \A x \in Channels : Once(events[x], Again(t))
  BY DEF PlacedAt
<1>2. /\ home[t] = c /\ t \in attached /\ UNCHANGED <<home, attached, events>>
      /\ Entries(c, t) # {}
  BY DEF OnPortal, Owned, ownVars
<1>3. PICK to \in Maps \ {map[t]} :
        /\ map' = [map EXCEPT ![t] = to]
        /\ grid' = Insert(Erase(grid, c, t, map[t]), c, t, to)
  BY DEF OnPortal
<1>4. PICK g : g = Erase(grid, c, t, map[t])
  OBVIOUS
<1>5. /\ g \in [Channels -> [Sids -> [Maps -> Nat]]]
      /\ \A x \in Channels, m \in Maps : g[x][t][m] = 0
  BY <1>1, <1>2, <1>4, ErasedAll
<1>6. /\ grid'[c][t][to] = g[c][t][to] + 1
      /\ Apart(grid', g, c, t, to)
  <2>1. grid' = Insert(g, c, t, to)
    BY <1>3, <1>4
  <2>2. to \in Maps
    OBVIOUS
  <2>3. g \in [Channels -> [Sids -> [Maps -> Nat]]]
    BY <1>5
  <2> QED
    BY <2>1, <2>2, <2>3, InsertOwn
<1>7. \A x \in Channels, m \in Maps : grid'[x][t][m] = IF x = c /\ m = to THEN 1 ELSE 0
  BY <1>5, <1>6 DEF Apart
<1>8. map'[t] = to
  BY <1>3 DEF PlayTypes
<1>9. Alone(grid', home', attached', map', t)
  BY <1>2, <1>7, <1>8 DEF Alone
<1>10. PICK m \in Maps : grid[c][t][m] > 0
  BY <1>2 DEF Entries
<1>11. \A e \in Comes(t) : ~In(events[c], e)
  BY <1>1, <1>2, <1>10 DEF Awaited
<1>12. Awaited(events', grid', home', attached', t)
  BY <1>2, <1>11 DEF Awaited
<1> QED
  BY <1>1, <1>2, <1>9, <1>12 DEF PlacedAt

LEMMA PlacedChange ==
  ASSUME SessionTypes, GridTypes, PlayTypes, EventTypes, LaneTypes, NEW t \in Sids, PlacedAt(t),
         NEW c \in Channels, OnChannelChange(c, t), Owned(c, t), t \notin hurried'
  PROVE  PlacedAt(t)'
<1>1. Alone(grid, home, attached, map, t) /\ \A x \in Channels : Once(events[x], Again(t))
  BY DEF PlacedAt
<1>2. PICK to : to = Head(critical[c]).arg
  OBVIOUS
<1>3. TakeCritical(c, "change", t)
  BY DEF OnChannelChange
<1>4. to \in Channels
  BY <1>2, <1>3, CriticalTaken
<1>5. Puts(to, Again(t))
  BY <1>2 DEF OnChannelChange, MigrateChannel, Puts, Again
<1>6. ~\E i \in DOMAIN events[to] : events[to][i] = Again(t)
  BY <1>2 DEF OnChannelChange, Again
<1>7. ~In(events[to], Again(t))
  BY <1>6 DEF In
<1>8. Again(t) \in Event
  BY ComesAre
<1>9. \A x \in Channels : Once(events'[x], Again(t))
  <2> SUFFICES ASSUME NEW x \in Channels PROVE Once(events'[x], Again(t))
    OBVIOUS
  <2>1. CASE x = to
    BY <1>1, <1>4, <1>5, <1>7, <1>8, <2>1, EventsPutOnce
  <2>2. CASE x # to
    BY <1>1, <1>4, <1>5, <2>2 DEF Puts, EventTypes
  <2> QED
    BY <2>1, <2>2
<1>10. grid' = Erase(grid, c, t, map[t]) /\ home[t] = c
  BY DEF OnChannelChange, Owned
<1>11. \A x \in Channels, m \in Maps : Erase(grid, c, t, map[t])[x][t][m] = 0
  BY <1>1, <1>10, ErasedAll
<1>12. Nowhere(grid, t)'
  BY <1>10, <1>11 DEF Nowhere
<1> QED
  BY <1>9, <1>12, NowherePlaced

LEMMA PlacedLeave ==
  ASSUME GridTypes, PlayTypes, EventTypes, NEW t \in Sids, PlacedAt(t), NEW c \in Channels,
         OnClientLeave(c, t)
  PROVE  PlacedAt(t)'
<1>1. Alone(grid, home, attached, map, t) /\ \A x \in Channels : Once(events[x], Again(t))
  BY DEF PlacedAt
<1>2. Takes(c) /\ home[t] = c
  BY DEF OnClientLeave, TakeEvent, Takes
<1>3. \A x \in Channels : Once(events'[x], Again(t))
  BY <1>1, <1>2, EventsTakenOnce
<1>4. CASE t \in attached
  <2>1. grid' = Erase(grid, c, t, map[t])
    BY <1>4 DEF OnClientLeave
  <2>2. \A x \in Channels, m \in Maps : Erase(grid, c, t, map[t])[x][t][m] = 0
    BY <1>1, <1>2, ErasedAll
  <2>3. Nowhere(grid, t)'
    BY <2>1, <2>2 DEF Nowhere
  <2> QED
    BY <1>3, <2>3, NowherePlaced
<1>5. CASE t \notin attached
  <2>1. grid' = grid
    BY <1>5 DEF OnClientLeave
  <2>2. Nowhere(grid, t)
    BY <1>1, <1>5, NowhereIs
  <2>3. Nowhere(grid, t)'
    BY <2>1, <2>2 DEF Nowhere
  <2> QED
    BY <1>3, <2>3, NowherePlaced
<1> QED
  BY <1>4, <1>5

LEMMA PlacedLogin ==
  ASSUME SessionTypes, GridTypes, EventTypes, Mapped, LoadOnce, NEW t \in Sids, PlacedAt(t),
         NEW c \in Channels, OnLoginSuccess(t, c) \/ DbResultJob(c, t)
  PROVE  PlacedAt(t)'
<1> USE Constants
<1>1. Alone(grid, home, attached, map, t) /\ \A x \in Channels : Once(events[x], Again(t))
  BY DEF PlacedAt
<1>2. t \notin attached
  <2>1. CASE OnLoginSuccess(t, c)
    BY <2>1 DEF OnLoginSuccess, Mapped
  <2>2. CASE DbResultJob(c, t)
    BY <2>2, DbResults DEF LoadOnce
  <2> QED
    BY <2>1, <2>2
<1>3. Nowhere(grid, t)
  BY <1>1, <1>2, NowhereIs
<1>4. grid' = grid
  BY DEF OnLoginSuccess, DbResultJob
<1>5. Nowhere(grid, t)'
  BY <1>3, <1>4 DEF Nowhere
<1>6. \A x \in Channels : Once(events'[x], Again(t))
  <2>1. CASE OnLoginSuccess(t, c)
    BY <1>1, <2>1 DEF OnLoginSuccess, boxVars
  <2>2. CASE DbResultJob(c, t)
    <3>1. Takes(c) \/ Replaces(c, Enter(t))
      BY <2>2, DbResults
    <3>2. Enter(t) \in Event /\ Enter(t) # Again(t)
      BY ComesAre
    <3> QED
      BY <1>1, <3>1, <3>2, EventsTakenOnce, EventsReplacedOnce
  <2> QED
    BY <2>1, <2>2
<1> QED
  BY <1>5, <1>6, NowherePlaced

LEMMA PlacedEnter ==
  ASSUME GridTypes, PlayTypes, EventTypes, EnterFirst, LoginBefore, NEW t \in Sids, PlacedAt(t),
         NEW c \in Channels, OnChannelEnter(c, t) \/ OnChannelChangeEnter(c, t)
  PROVE  PlacedAt(t)'
<1>1. PICK e \in Comes(t) : Head(events[c]) = e /\ In(events[c], e)
  <2>1. CASE OnChannelEnter(c, t)
    BY <2>1, EventTaken, ComesAre DEF OnChannelEnter, Enter
  <2>2. CASE OnChannelChangeEnter(c, t)
    BY <2>2, EventTaken, ComesAre DEF OnChannelChangeEnter, Again
  <2> QED
    BY <2>1, <2>2
<1>2. Takes(c) /\ UNCHANGED <<home, attached, map>>
  BY DEF OnChannelEnter, OnChannelChangeEnter, TakeEvent, Takes, ownVars, playVars
<1>3. \/ grid' = grid
      \/ grid' = Insert(grid, c, t, map[t]) /\ t \in attached /\ home[t] = c
  <2>1. CASE OnChannelEnter(c, t)
    <3>1. In(events[c], Enter(t))
      BY <2>1, EventTaken DEF OnChannelEnter, Enter
    <3> QED
      BY <2>1, <3>1 DEF OnChannelEnter, AddPlayer, EnterFirst
  <2>2. CASE OnChannelChangeEnter(c, t)
    BY <2>2 DEF OnChannelChangeEnter, AddPlayer, Owned
  <2> QED
    BY <2>1, <2>2
<1> QED
  BY <1>1, <1>2, <1>3, PlacedIn, PlacedTaken

LEMMA PlacedStep ==
  ASSUME SessionTypes, PlayTypes, GridTypes, EventTypes, LaneTypes, RouteTypes, Mapped, Notices,
         LoadOnce, EnterFirst, LoginBefore, Placed, [Next]_vars
  PROVE  Placed'
<1> SUFFICES ASSUME NEW t \in Sids, t \notin hurried' PROVE PlacedAt(t)'
  BY DEF Placed
<1>1. CASE Still(t)
  BY <1>1, StillKeeps DEF Placed, Still, SamePlace
<1>2. ASSUME NEW c \in Channels, Turns(c, t) PROVE PlacedAt(t)'
  <2>1. t \notin hurried
    BY <1>2 DEF Turns, OnLoginSuccess, DbResultJob, OnChannelEnter, OnChannelChangeEnter,
                OnClientLeave, OnPortal, OnChannelChange, histVars
  <2>2. PlacedAt(t)
    BY <2>1 DEF Placed
  <2> QED
    BY <1>2, <2>2, PlacedLogin, PlacedEnter, PlacedLeave, PlacedPortal, PlacedChange DEF Turns
<1> QED
  BY <1>1, <1>2, StillSteps

(* A Player is in the maps of its owner, or its enter job waits there.     *)
LEMMA ArrivesStep ==
  ASSUME SessionTypes, PlayTypes, GridTypes, EventTypes, LaneTypes, RouteTypes, Mapped, Notices,
         LoadOnce, EnterFirst, Arrives, [Next]_vars, SessionTypes'
  PROVE  Arrives'
<1> USE Constants
<1> SUFFICES ASSUME NEW t \in attached' PROVE Drawn(grid', home', t) \/ Called(events', home', t)
  BY DEF Arrives
<1>0. t \in Sids
  BY DEF SessionTypes
<1>a. t \in attached => home[t] \in Channels
  BY <1>0 DEF Mapped, SessionTypes
<1>1. CASE Still(t)
  <2>1. t \in attached
    BY <1>1 DEF Still, SamePlace
  <2> QED
    BY <1>0, <1>1, <1>a, <2>1, StillKeeps DEF Arrives
<1>2. ASSUME NEW c \in Channels, Turns(c, t)
      PROVE  Drawn(grid', home', t) \/ Called(events', home', t)
  <2>1. CASE OnLoginSuccess(t, c)
    BY <1>0, <2>1 DEF OnLoginSuccess, Mapped, playVars
  <2>2. CASE DbResultJob(c, t)
    <3>1. In(events[c], Loaded(t)) /\ home' = home
      BY <1>0, <2>2, DbResults
    <3>2. t \notin attached /\ home[t] \in {None, c}
      BY <1>0, <3>1 DEF LoadOnce
    <3>3. Replaces(c, Enter(t)) /\ home[t] # None
      BY <1>0, <2>2, <3>2, DbResults
    <3>4. Enter(t) \in Event /\ Enter(t) \in Comes(t)
      BY <1>0, ComesAre
    <3>5. In(events'[c], Enter(t))
      BY <3>3, <3>4, EventsReplaced
    <3> QED
      BY <3>1, <3>2, <3>3, <3>4, <3>5 DEF Called
  <2>3. CASE OnChannelEnter(c, t) \/ OnChannelChangeEnter(c, t)
    <3>1. Takes(c) /\ UNCHANGED <<home, attached>>
      BY <2>3 DEF OnChannelEnter, OnChannelChangeEnter, TakeEvent, Takes, ownVars, playVars
    <3>2. t \in attached
      BY <3>1
    <3>3. CASE grid' = Insert(grid, c, t, map[t]) /\ home[t] = c
      <4>1. map[t] \in Maps /\ grid \in [Channels -> [Sids -> [Maps -> Nat]]]
        BY <1>0 DEF PlayTypes, GridTypes
      <4>2. grid'[c][t][map[t]] = grid[c][t][map[t]] + 1
        BY <1>0, <3>3, <4>1, InsertOwn
      <4>3. grid[c][t][map[t]] \in Nat
        BY <1>0, <4>1
      <4>4. grid'[c][t][map[t]] > 0
        BY <4>2, <4>3
      <4> QED
        BY <3>1, <3>3, <4>1, <4>4 DEF Drawn
    <3>4. CASE grid' = grid /\ home[t] # c
      <4>1. \A x \in Channels : \A e : x # c /\ In(events[x], e) => In(events'[x], e)
        BY <3>1, EventsTaken
      <4>2. Drawn(grid, home, t) \/ Called(events, home, t)
        BY <3>2 DEF Arrives
      <4> QED
        BY <1>a, <3>1, <3>2, <3>4, <4>1, <4>2 DEF Drawn, Called
    <3>5. \/ grid' = Insert(grid, c, t, map[t]) /\ home[t] = c
          \/ grid' = grid /\ home[t] # c
      <4>1. CASE OnChannelEnter(c, t)
        <5>1. In(events[c], Enter(t))
          BY <1>0, <4>1, EventTaken DEF OnChannelEnter, Enter
        <5>2. home[t] = c
          BY <1>0, <3>2, <5>1 DEF EnterFirst
        <5> QED
          BY <3>2, <4>1, <5>2 DEF OnChannelEnter, AddPlayer
      <4>2. CASE OnChannelChangeEnter(c, t)
        BY <3>2, <4>2 DEF OnChannelChangeEnter, AddPlayer, Owned
      <4> QED
        BY <2>3, <4>1, <4>2
    <3> QED
      BY <3>3, <3>4, <3>5
  <2>4. CASE OnClientLeave(c, t)
    BY <2>4 DEF OnClientLeave, OnSessionGone
  <2>5. CASE OnPortal(c, t) /\ Owned(c, t)
    <3>1. PICK to \in Maps : grid' = Insert(Erase(grid, c, t, map[t]), c, t, to)
      BY <2>5 DEF OnPortal
    <3>2. home' = home /\ home[t] = c
      BY <2>5 DEF OnPortal, Owned, ownVars
    <3>3. map[t] \in Maps /\ grid \in [Channels -> [Sids -> [Maps -> Nat]]]
      BY <1>0 DEF PlayTypes, GridTypes
    <3>4. PICK g \in [Channels -> [Sids -> [Maps -> Nat]]] : g = Erase(grid, c, t, map[t])
      BY <1>0, <3>3, EraseOwn
    <3>5. grid'[c][t][to] = g[c][t][to] + 1
      <4>1. grid' = Insert(g, c, t, to)
        BY <3>1, <3>4
      <4> QED
        BY <4>1, <1>0, <3>4, InsertOwn
    <3>6. g[c][t][to] \in Nat
      BY <1>0
    <3>7. grid'[c][t][to] > 0
      BY <3>5, <3>6
    <3> QED
      BY <3>2, <3>7 DEF Drawn
  <2>6. CASE OnChannelChange(c, t) /\ Owned(c, t)
    <3>1. PICK to \in Channels : Puts(to, Again(t)) /\ home' = [home EXCEPT ![t] = to]
      BY <1>0, <2>6, Changes DEF Again
    <3>2. Again(t) \in Event /\ Again(t) \in Comes(t)
      BY <1>0, ComesAre
    <3>3. In(events'[to], Again(t))
      BY <3>1, <3>2, EventsPut
    <3>4. home'[t] = to
      BY <1>0, <3>1 DEF SessionTypes
    <3> QED
      BY <3>2, <3>3, <3>4 DEF Called
  <2> QED
    BY <1>2, <2>1, <2>2, <2>3, <2>4, <2>5, <2>6 DEF Turns
<1> QED
  BY <1>0, <1>1, <1>2, StillSteps

-----------------------------------------------------------------------------
(***************************************************************************)
(* Part 12: the moves of a session.                                        *)
(***************************************************************************)
LEMMA LatestIs == ASSUME SessionTypes, Ordered PROVE LatestMoveWins
<1> SUFFICES ASSUME NEW t \in attached \ changed, ~MoveWaits(t)
             PROVE  t \in moving <=> kept[t] = "start"
  BY DEF LatestMoveWins
<1>1. \A c \in Channels : \A j : ~Waits(c, t, j)
  BY DEF MoveWaits, Waits, In
<1>2. ~Expects(t)
  BY <1>1 DEF Expects
<1>3. Settled(t)
  BY <1>2 DEF Ordered, InOrder, Latest, SessionTypes
<1> QED
  BY <1>3 DEF Settled

LEMMA WaitsAre ==
  ASSUME LaneTypes, NEW c \in Channels, NEW t, NEW j, Waits(c, t, j)
  PROVE  j.arg \in Nat /\ j.kind \in Moves
<1>1. CASE In(moves[c], j)
  <2>1. j \in MoveJob
    BY <1>1 DEF In, LaneTypes
  <2> QED
    BY <2>1 DEF MoveJob, Moves
<1>2. CASE j.kind = "stop" /\ In(critical[c], j)
  <2>1. j \in CritJob
    BY <1>2 DEF In, LaneTypes
  <2> QED
    BY <1>2, <2>1 DEF CritJob, Moves
<1> QED
  BY <1>1, <1>2 DEF Waits

SameWaits(t) == \A x \in Channels : \A j : Waits(x, t, j)' <=> Waits(x, t, j)

LEMMA LanesUnchanged ==
  ASSUME NEW t, UNCHANGED <<critical, moves>> PROVE SameWaits(t)
  BY DEF SameWaits, Waits

(* A job of the critical lane that is no stop, or not of t, is none of the *)
(* moves of t.                                                             *)
LEMMA CriticalAside ==
  ASSUME LaneTypes, NEW c \in Channels, NEW s \in Sids, NEW k, TakeCritical(c, k, s),
         moves' = moves, NEW t, k # "stop" \/ s # t
  PROVE  SameWaits(t)
<1>1. /\ critical[c] \in Seq(CritJob) /\ critical[c] # <<>>
      /\ Head(critical[c]).kind = k /\ Head(critical[c]).sid = s
  BY DEF LaneTypes, TakeCritical
<1>2. critical'[c] = Tail(critical[c]) /\ \A x \in Channels \ {c} : critical'[x] = critical[x]
  BY DEF LaneTypes, TakeCritical
<1>3. \A e : /\ In(critical'[c], e) => In(critical[c], e)
             /\ In(critical[c], e) /\ Head(critical[c]) # e => In(critical'[c], e)
  BY <1>1, <1>2, Taken
<1>4. \A j : j.sid = t /\ j.kind = "stop" =>
        (In(critical'[c], j) <=> In(critical[c], j))
  BY <1>1, <1>3
<1>5. \A x \in Channels : \A j : j.sid = t /\ j.kind = "stop" =>
        (In(critical'[x], j) <=> In(critical[x], j))
  BY <1>2, <1>4
<1> QED
  BY <1>5 DEF SameWaits, Waits

LEMMA CriticalPut ==
  ASSUME LaneTypes, NEW c \in Channels, NEW f \in CritJob, moves' = moves,
         critical' = [critical EXCEPT ![c] = Append(@, f)]
  PROVE  \A t : \A x \in Channels : \A j :
           Waits(x, t, j)' <=> Waits(x, t, j) \/ (x = c /\ j = f /\ f.sid = t /\ f.kind = "stop")
<1>1. critical[c] \in Seq(CritJob)
  BY DEF LaneTypes
<1>2. critical'[c] = Append(critical[c], f) /\ \A x \in Channels \ {c} : critical'[x] = critical[x]
  BY DEF LaneTypes
<1>3. \A e : In(critical'[c], e) <=> In(critical[c], e) \/ f = e
  BY <1>1, <1>2, Put
<1>4. \A x \in Channels : \A e : In(critical'[x], e) <=> In(critical[x], e) \/ (x = c /\ f = e)
  BY <1>2, <1>3
<1>5. ASSUME NEW t, NEW x \in Channels, NEW j
      PROVE  Waits(x, t, j)' <=> Waits(x, t, j) \/ (x = c /\ j = f /\ f.sid = t /\ f.kind = "stop")
  <2>1. In(critical'[x], j) <=> In(critical[x], j) \/ (x = c /\ f = j)
    BY <1>4
  <2> QED
    BY <2>1 DEF Waits
<1> QED
  BY <1>5

LEMMA MovesPut ==
  ASSUME LaneTypes, NEW c \in Channels, NEW f \in MoveJob, critical' = critical,
         moves' = [moves EXCEPT ![c] = Append(@, f)]
  PROVE  \A t : \A x \in Channels : \A j :
           Waits(x, t, j)' <=> Waits(x, t, j) \/ (x = c /\ j = f /\ f.sid = t)
<1>1. moves[c] \in Seq(MoveJob)
  BY DEF LaneTypes
<1>2. moves'[c] = Append(moves[c], f) /\ \A x \in Channels \ {c} : moves'[x] = moves[x]
  BY DEF LaneTypes
<1>3. \A e : In(moves'[c], e) <=> In(moves[c], e) \/ f = e
  BY <1>1, <1>2, Put
<1>4. \A x \in Channels : \A e : In(moves'[x], e) <=> In(moves[x], e) \/ (x = c /\ f = e)
  BY <1>2, <1>3
<1>5. ASSUME NEW t, NEW x \in Channels, NEW j
      PROVE  Waits(x, t, j)' <=> Waits(x, t, j) \/ (x = c /\ j = f /\ f.sid = t)
  <2>1. In(moves'[x], j) <=> In(moves[x], j) \/ (x = c /\ f = j)
    BY <1>4
  <2> QED
    BY <2>1 DEF Waits
<1> QED
  BY <1>5

(* Steps after which t has no more ahead of it than before.                *)
Calm(t) ==
  /\ script'[t] = script[t] \/ script'[t] = <<>>
  /\ Sending(t)' => Sending(t) /\ routing'[t] = routing[t]
  /\ lastSeq'[t] \in {0, lastSeq[t]} /\ kept'[t] = kept[t]
  /\ t \in moving' => t \in moving
  /\ t \in attached' \ changed' =>
       /\ t \in attached \ changed /\ home'[t] = home[t]
       /\ lastSeq'[t] = lastSeq[t] /\ (t \in moving' <=> t \in moving)
  /\ SameWaits(t)

LEMMA CalmKeeps ==
  ASSUME PlayTypes, RouteTypes, LaneTypes, NEW t \in Sids, Calm(t), InOrder(t),
         Loading(t)' => Loading(t)
  PROVE  InOrder(t)'
<1>1. \A x \in Channels : \A j : Waits(x, t, j)' <=> Waits(x, t, j)
  BY DEF Calm, SameWaits
<1>2. Ahead(t)'
  <2>1. lastSeq'[t] <= lastSeq[t] /\ lastSeq'[t] \in Nat /\ lastSeq[t] \in Nat
    BY DEF Calm, PlayTypes
  <2>2. \A n \in Nat : Newer(t, n) => Newer(t, n)'
    BY <1>1, <2>1 DEF Newer
  <2>3. Numbered(script'[t])
    BY DEF Calm, InOrder, Ahead, Numbered
  <2>4. Sending(t)' => Newer(t, routing[t].job.arg)' /\ routing'[t] = routing[t] /\ Sending(t)
    <3>1. Sending(t) => routing[t].job.arg \in Nat
      BY DEF Sending, RouteTypes, Routed, CritJob, MoveJob, Moves
    <3> QED
      BY <2>2, <3>1 DEF Calm, InOrder, Ahead
  <2>5. ASSUME NEW i \in DOMAIN script'[t], script'[t][i].kind \in Moves
        PROVE  /\ Newer(t, script[t][i].arg)'
               /\ Sending(t)' => routing'[t].job.arg < script'[t][i].arg
    <3>1. script'[t] = script[t]
      BY <2>5 DEF Calm
    <3>2. script[t][i].arg \in Nat
      <4>1. script[t][i] \in Packets
        BY <2>5, <3>1 DEF RouteTypes
      <4> QED
        BY <2>5, <3>1, <4>1 DEF Packets, Moves
    <3>3. /\ Newer(t, script[t][i].arg)
          /\ Sending(t) => routing[t].job.arg < script[t][i].arg
      BY <2>5, <3>1 DEF InOrder, Ahead
    <3> QED
      BY <2>2, <2>4, <3>1, <3>2, <3>3 DEF Newer
  <2> QED
    BY <2>3, <2>4, <2>5 DEF Ahead
<1>3. Here(t)'
  <2> SUFFICES ASSUME t \in attached' \ changed'
      PROVE  /\ \A c \in Channels : \A j : Waits(c, t, j)' => home'[t] = c
             /\ Sending(t)' => routing'[t].to = home'[t]
    BY DEF Here
  <2>1. t \in attached \ changed /\ home'[t] = home[t]
    BY DEF Calm
  <2>2. Sending(t)' => Sending(t) /\ routing'[t] = routing[t]
    BY DEF Calm
  <2> QED
    BY <1>1, <2>1, <2>2 DEF InOrder, Here
<1>4. Latest(t)'
  <2> SUFFICES ASSUME t \in attached' \ changed' PROVE Settled(t)' \/ Expects(t)'
    BY DEF Latest
  <2>1. /\ t \in attached \ changed /\ lastSeq'[t] = lastSeq[t] /\ (t \in moving' <=> t \in moving)
        /\ kept'[t] = kept[t]
    BY DEF Calm
  <2>2. Settled(t) => Settled(t)'
    BY <1>1, <2>1 DEF Settled
  <2>3. Expects(t) => Expects(t)'
    BY <1>1, <2>1 DEF Expects
  <2> QED
    BY <2>1, <2>2, <2>3 DEF InOrder, Latest
<1>5. Unmoved(t)'
  <2>1. kept'[t] = kept[t] /\ (t \in moving' => t \in moving) /\ (Sending(t)' => Sending(t))
    BY DEF Calm
  <2> QED
    BY <1>1, <2>1 DEF InOrder, Unmoved
<1> QED
  BY <1>2, <1>3, <1>4, <1>5 DEF InOrder

LEMMA CalmUnchanged ==
  ASSUME NEW t, SameWaits(t),
         UNCHANGED <<script, routing, lastSeq, kept, moving, attached, changed, home>>
  PROVE  Calm(t)
  BY DEF Calm, Sending

(* All steps but those of the moves of t, and of its login.                *)
Moved(c, t) ==
  \/ EnqueuePacket(t) \/ (Deliver(t) /\ Sending(t))
  \/ DbResultJob(c, t) \/ OnStopMove(c, t) \/ OnStartMove(c, t)

LEMMA CalmDeliver ==
  ASSUME PlayTypes, RouteTypes, LaneTypes, Notices, NEW t \in Sids, NEW s \in Sids, Deliver(s),
         s # t \/ ~Sending(t)
  PROVE  Calm(t)
<1>1. routing[s].to \in Channels /\ routing[s].job \in Routed /\ routing[s].job.sid = s
  BY RouteTarget DEF Deliver, Notices
<1>2. PICK c \in Channels, j \in Routed : c = routing[s].to /\ j = routing[s].job /\ j.sid = s
  BY <1>1
<1>3. s # t \/ j.kind \notin Moves
  BY <1>2 DEF Deliver, Sending
<1>4. UNCHANGED <<script, lastSeq, moving, attached, changed, home>>
  BY DEF Deliver, playVars, ownVars
<1>5. routing' = [routing EXCEPT ![s] = Nothing]
  BY DEF Deliver
<1>6. Sending(t)' => Sending(t) /\ routing'[t] = routing[t]
  BY <1>5 DEF Sending, RouteTypes
<1>7. SameWaits(t) /\ kept'[t] = kept[t]
  <2>1. CASE j.kind = "leave"
    BY <1>2, <2>1, LanesUnchanged DEF Deliver
  <2>2. CASE j.kind = "start"
    <3>1. j \in MoveJob /\ s # t
      BY <1>3, <2>2 DEF Routed, CritJob, MoveJob, Moves
    <3>2. /\ critical' = critical /\ (kept' = kept \/ kept' = [kept EXCEPT ![s] = "start"])
          /\ moves' = moves \/ moves' = [moves EXCEPT ![c] = Append(@, j)]
      BY <1>2, <2>2 DEF Deliver
    <3>3. kept'[t] = kept[t]
      BY <3>1, <3>2 DEF PlayTypes
    <3>4. CASE moves' = moves
      BY <3>2, <3>3, <3>4, LanesUnchanged
    <3>5. CASE moves' = [moves EXCEPT ![c] = Append(@, j)]
      <4>1. \A x \in Channels : \A i :
              Waits(x, t, i)' <=> Waits(x, t, i) \/ (x = c /\ i = j /\ j.sid = t)
        BY <3>1, <3>2, <3>5, MovesPut
      <4> QED
        BY <1>2, <3>1, <3>3, <4>1 DEF SameWaits
    <3> QED
      BY <3>2, <3>4, <3>5
  <2>3. CASE j.kind \notin {"leave", "start"}
    <3>1. j \in CritJob
      BY <2>3 DEF Routed, CritJob, MoveJob
    <3>2. /\ moves' = moves /\ critical' = [critical EXCEPT ![c] = Append(@, j)]
          /\ kept' = [kept EXCEPT ![s] = IF j.kind = "stop" THEN "stop" ELSE @]
      BY <1>2, <2>3 DEF Deliver
    <3>3. kept'[t] = kept[t]
      BY <1>3, <3>2 DEF PlayTypes, Moves
    <3>4. \A x \in Channels : \A i :
            Waits(x, t, i)' <=> Waits(x, t, i) \/ (x = c /\ i = j /\ j.sid = t /\ j.kind = "stop")
      BY <3>1, <3>2, CriticalPut
    <3>5. SameWaits(t)
      BY <1>2, <1>3, <3>4 DEF SameWaits, Moves
    <3> QED
      BY <3>3, <3>5
  <2> QED
    BY <2>1, <2>2, <2>3
<1> QED
  BY <1>4, <1>6, <1>7 DEF Calm

(* Moves of the others.                                                    *)
LEMMA CalmMoveTo ==
  ASSUME PlayTypes, LaneTypes, NEW t \in Sids, NEW s \in Sids, NEW c \in Channels, s # t,
         OnStopMove(c, s) \/ OnStartMove(c, s)
  PROVE  Calm(t)
<1>1. UNCHANGED <<script, routing, attached, kept, changed, home>>
  BY DEF OnStopMove, OnStartMove, netVars, ownVars, histVars
<1>2. PICK k, n : MoveTo(c, s, k, n)
  BY DEF OnStopMove, OnStartMove
<1>3. (t \in moving' <=> t \in moving) /\ lastSeq'[t] = lastSeq[t]
  BY <1>2 DEF MoveTo, PlayTypes
<1>4. SameWaits(t)
  <2>1. CASE OnStopMove(c, s)
    BY <2>1, CriticalAside DEF OnStopMove
  <2>2. CASE OnStartMove(c, s)
    <3>1. /\ moves[c] \in Seq(MoveJob) /\ moves[c] # <<>> /\ Head(moves[c]).sid = s
          /\ critical' = critical
      BY <2>2 DEF OnStartMove, LaneTypes
    <3>2. moves'[c] = Tail(moves[c]) /\ \A x \in Channels \ {c} : moves'[x] = moves[x]
      BY <2>2 DEF OnStartMove, LaneTypes
    <3>3. \A e : /\ In(moves'[c], e) => In(moves[c], e)
                 /\ In(moves[c], e) /\ Head(moves[c]) # e => In(moves'[c], e)
      BY <3>1, <3>2, Taken
    <3>4. \A x \in Channels : \A j : j.sid = t => (In(moves'[x], j) <=> In(moves[x], j))
      BY <3>1, <3>2, <3>3
    <3> QED
      BY <3>1, <3>4 DEF SameWaits, Waits
  <2> QED
    BY <2>1, <2>2
<1> QED
  BY <1>1, <1>3, <1>4 DEF Calm, Sending

LEMMA CalmSteps ==
  ASSUME SessionTypes, PlayTypes, RouteTypes, LaneTypes, EventTypes, ChatTypes, Mapped, Notices,
         Posts, [Next]_vars, NEW t \in Sids
  PROVE  Calm(t) \/ \E c \in Channels : Moved(c, t)
<1> USE Constants
<1>1. ASSUME NEW s \in Sids, NEW c \in Channels, OnLoginSuccess(s, c) PROVE Calm(t)
  <2>1. /\ UNCHANGED <<script, routing, lastSeq, kept, moving, attached, changed, critical, moves>>
        /\ s \notin attached /\ home' = [home EXCEPT ![s] = c]
    BY <1>1 DEF OnLoginSuccess, Mapped, playVars, histVars, boxVars
  <2>2. t \in attached => home'[t] = home[t]
    BY <2>1 DEF SessionTypes
  <2> QED
    BY <2>1, <2>2, LanesUnchanged DEF Calm, Sending
<1>2. ASSUME NEW s \in Sids, LoadDone(s) PROVE Calm(t)
  BY <1>2, LanesUnchanged, CalmUnchanged DEF LoadDone, netVars, ownVars, playVars, histVars
<1>3. ASSUME NEW s \in Sids, Hangup(s) PROVE Calm(t)
  <2>1. /\ UNCHANGED <<routing, lastSeq, kept, moving, attached, changed, home, critical, moves>>
        /\ script' = [script EXCEPT ![s] = <<>>]
    BY <1>3 DEF Hangup, ownVars, playVars, histVars, boxVars
  <2>2. script'[t] = script[t] \/ script'[t] = <<>>
    BY <2>1 DEF RouteTypes
  <2> QED
    BY <2>1, <2>2, LanesUnchanged DEF Calm, Sending
<1>4. ASSUME NEW s \in Sids, s # t, EnqueuePacket(s) PROVE Calm(t)
  <2>1. /\ UNCHANGED <<lastSeq, kept, moving, attached, changed, home, critical, moves>>
        /\ script' = [script EXCEPT ![s] = Tail(@)] /\ \E r : routing' = [routing EXCEPT ![s] = r]
    BY <1>4 DEF EnqueuePacket, ownVars, playVars, histVars, boxVars
  <2>2. script'[t] = script[t] /\ routing'[t] = routing[t]
    BY <1>4, <2>1 DEF RouteTypes
  <2> QED
    BY <2>1, <2>2, LanesUnchanged DEF Calm, Sending
<1>5. ASSUME NEW s \in Sids, EnqueueDisconnect(s) PROVE Calm(t)
  <2>1. /\ UNCHANGED <<script, lastSeq, kept, moving, attached, changed, home, critical, moves>>
        /\ \E r : r.job.kind = "leave" /\ routing' = [routing EXCEPT ![s] = r]
    BY <1>5 DEF EnqueueDisconnect, ownVars, playVars, histVars, boxVars, Job
  <2>2. Sending(t)' => Sending(t) /\ routing'[t] = routing[t]
    BY <2>1 DEF Sending, RouteTypes, Moves
  <2> QED
    BY <2>1, <2>2, LanesUnchanged DEF Calm
<1>6. ASSUME NEW c \in Channels, NEW s \in Sids, s # t, DbResultJob(c, s) PROVE Calm(t)
  <2>1. /\ UNCHANGED <<script, routing, lastSeq, kept, moving, changed, home, critical, moves>>
        /\ t \in attached' <=> t \in attached
    BY <1>6 DEF DbResultJob, ownVars, histVars
  <2> QED
    BY <2>1, LanesUnchanged DEF Calm, Sending
<1>7. ASSUME NEW c \in Channels, NEW s \in Sids,
             OnChannelEnter(c, s) \/ OnChannelChangeEnter(c, s) \/ OnStrayLeave(c, s)
      PROVE  Calm(t)
  BY <1>7, LanesUnchanged, CalmUnchanged
     DEF OnChannelEnter, OnChannelChangeEnter, OnStrayLeave, netVars, ownVars, playVars, histVars
<1>8. ASSUME NEW c \in Channels, NEW s \in Sids, OnClientLeave(c, s) PROVE Calm(t)
  <2>1. /\ UNCHANGED <<script, routing, kept, changed, critical, moves>>
        /\ home' = [home EXCEPT ![s] = None] /\ attached' = attached \ {s}
        /\ moving' = moving \ {s} /\ lastSeq' = [lastSeq EXCEPT ![s] = 0]
    BY <1>8 DEF OnClientLeave, OnSessionGone, netVars, histVars
  <2>2. lastSeq'[t] \in {0, lastSeq[t]} /\ (t # s => lastSeq'[t] = lastSeq[t])
    BY <2>1 DEF PlayTypes
  <2>3. t # s => home'[t] = home[t]
    BY <2>1 DEF SessionTypes
  <2> QED
    BY <2>1, <2>2, <2>3, LanesUnchanged DEF Calm, Sending
<1>9. ASSUME NEW c \in Channels, NEW s \in Sids,
             \/ OnPortal(c, s) \/ OnChat(c, s) \/ OnWhisper(c, s)
             \/ WhisperDeliver(c, s) \/ Refuse(c, s)
      PROVE  Calm(t)
  <2>1. UNCHANGED <<script, routing, lastSeq, kept, moving, attached, changed, home, moves>>
    BY <1>9 DEF OnPortal, OnChat, OnWhisper, WhisperDeliver, Refuse, netVars, ownVars, playVars,
                histVars
  <2>2. \E k \in {"portal", "chat", "whisper", "deliver", "change"} : TakeCritical(c, k, s)
    BY <1>9 DEF OnPortal, OnChat, OnWhisper, WhisperDeliver, Refuse
  <2>3. SameWaits(t)
    BY <2>1, <2>2, CriticalAside
  <2> QED
    BY <2>1, <2>3, CalmUnchanged
<1>10. ASSUME NEW c \in Channels, NEW s \in Sids, OnChannelChange(c, s) PROVE Calm(t)
  <2>1. UNCHANGED <<script, routing, lastSeq, kept, moving, attached, moves>>
    BY <1>10 DEF OnChannelChange, netVars, playVars
  <2>2. SameWaits(t)
    BY <1>10, <2>1, CriticalAside DEF OnChannelChange
  <2>3. CASE Owned(c, s)
    <3>1. PICK to \in Channels : home' = [home EXCEPT ![s] = to]
      BY <1>10, <2>3, Changes
    <3>2. changed' = changed \cup {s}
      BY <1>10, <2>3 DEF OnChannelChange
    <3>3. t # s => home'[t] = home[t]
      BY <3>1 DEF SessionTypes
    <3> QED
      BY <2>1, <2>2, <3>2, <3>3 DEF Calm, Sending
  <2>4. CASE ~Owned(c, s)
    <3>1. UNCHANGED <<home, changed>>
      BY <1>10, <2>4 DEF OnChannelChange, ownVars
    <3> QED
      BY <2>1, <2>2, <3>1, CalmUnchanged
  <2> QED
    BY <2>3, <2>4
<1>11. ASSUME NEW c \in Channels, NextPhase(c) \/ SendObjectUpdates(c) PROVE Calm(t)
  BY <1>11, LanesUnchanged, CalmUnchanged
     DEF NextPhase, SendObjectUpdates, netVars, ownVars, playVars, boxVars, histVars
<1>12. ASSUME SharedServices \/ UNCHANGED vars PROVE Calm(t)
  <2>1. UNCHANGED <<script, routing, lastSeq, kept, moving, attached, changed, home, moves>>
    BY <1>12 DEF SharedServices, Route, PostToChannel, vars, netVars, ownVars, playVars,
                 boxVars, histVars
  <2>2. CASE PostToChannel
    <3>1. PICK c \in Channels, j \in CritJob :
            c = posting.to /\ j = posting.job /\ j.kind = "deliver"
      BY <2>2 DEF PostToChannel, ChatTypes, Posts
    <3>2. critical' = [critical EXCEPT ![c] = Append(@, j)]
      BY <2>2, <3>1 DEF PostToChannel
    <3>3. \A x \in Channels : \A i :
            Waits(x, t, i)' <=> Waits(x, t, i) \/ (x = c /\ i = j /\ j.sid = t /\ j.kind = "stop")
      BY <2>1, <3>2, CriticalPut
    <3>4. SameWaits(t)
      BY <3>1, <3>3 DEF SameWaits
    <3> QED
      BY <2>1, <3>4, CalmUnchanged
  <2>3. CASE Route \/ UNCHANGED vars
    <3>1. critical' = critical
      BY <2>3 DEF Route, vars, boxVars
    <3> QED
      BY <2>1, <3>1, LanesUnchanged, CalmUnchanged
  <2> QED
    BY <1>12, <2>2, <2>3 DEF SharedServices
<1>13. ASSUME NEW s \in Sids, Client(s) \/ Worker(s) \/ LoadDone(s)
       PROVE  Calm(t) \/ EnqueuePacket(t) \/ (Deliver(t) /\ Sending(t))
  <2>1. ASSUME Deliver(s) PROVE Calm(t) \/ (Deliver(t) /\ Sending(t))
    BY <2>1, CalmDeliver
  <2> QED
    BY <1>13, <1>1, <1>2, <1>3, <1>4, <1>5, <2>1 DEF Client, Worker
<1>14. ASSUME NEW c \in Channels, SessionEvent(c) PROVE Calm(t) \/ DbResultJob(c, t)
  BY <1>14, <1>6, <1>7, <1>8 DEF SessionEvent
<1>15. ASSUME NEW c \in Channels, PacketJob(c)
       PROVE  Calm(t) \/ OnStopMove(c, t) \/ OnStartMove(c, t)
  <2>1. ASSUME NEW s \in Sids, OnStopMove(c, s) \/ OnStartMove(c, s)
        PROVE  Calm(t) \/ OnStopMove(c, t) \/ OnStartMove(c, t)
    BY <2>1, CalmMoveTo
  <2> QED
    BY <1>15, <1>9, <1>10, <2>1 DEF PacketJob
<1>16. ASSUME NEW s \in Sids, Client(s) \/ Worker(s) \/ LoadDone(s)
       PROVE  Calm(t) \/ \E c \in Channels : Moved(c, t)
  <2>1. EnqueuePacket(t) \/ (Deliver(t) /\ Sending(t)) => \E c \in Channels : TRUE
    BY RouteTarget DEF EnqueuePacket, Deliver, Mapped, SessionTypes
  <2> QED
    BY <1>13, <1>16, <2>1 DEF Moved
<1> QED
  BY <1>11, <1>12, <1>14, <1>15, <1>16 DEF Next, TickLoop, Moved

LEMMA LoadingStays ==
  ASSUME SessionTypes, EventTypes, LaneTypes, RouteTypes, Mapped, Notices, [Next]_vars,
         NEW t \in Sids
  PROVE  Loading(t)' => Loading(t)
  BY LoginRuns DEF Loading

LEMMA LoadingApart ==
  ASSUME Mapped, LoadOnce, NEW t \in Sids, Loading(t)
  PROVE  t \notin attached
  BY DEF Loading, Mapped, LoadOnce

LEMMA NumberedTail ==
  ASSUME NEW q \in Seq(Packets), q # <<>>, Numbered(q)
  PROVE  /\ Numbered(Tail(q))
         /\ \A i \in DOMAIN Tail(q) :
              /\ \E k \in DOMAIN q : Tail(q)[i] = q[k]
              /\ Head(q).kind \in Moves /\ Tail(q)[i].kind \in Moves => Head(q).arg < Tail(q)[i].arg
<1>1. Head(q) = q[1]
  OBVIOUS
<1>2. /\ Len(Tail(q)) = Len(q) - 1 /\ Tail(q) \in Seq(Packets)
      /\ \A i \in 1 .. Len(Tail(q)) : Tail(q)[i] = q[i + 1]
  BY HeadTailProperties
<1>3. Len(q) \in Nat \ {0} /\ DOMAIN q = 1 .. Len(q) /\ DOMAIN Tail(q) = 1 .. (Len(q) - 1)
  BY <1>2, LenProperties, EmptySeq
<1>4. \A i \in DOMAIN Tail(q) : i + 1 \in DOMAIN q /\ Tail(q)[i] = q[i + 1] /\ 1 < i + 1 /\ 1 \in DOMAIN q
  BY <1>2, <1>3
<1>5. \A i, j \in DOMAIN Tail(q) : i < j => i + 1 < j + 1
  BY <1>3
<1>6. Numbered(Tail(q))
  BY <1>4, <1>5 DEF Numbered
<1>7. \A i \in DOMAIN Tail(q) :
        Head(q).kind \in Moves /\ Tail(q)[i].kind \in Moves => Head(q).arg < Tail(q)[i].arg
  BY <1>1, <1>4 DEF Numbered
<1> QED
  BY <1>4, <1>6, <1>7

(* The worker takes the next packet of the client.                         *)
LEMMA MovedEnqueue ==
  ASSUME SessionTypes, PlayTypes, RouteTypes, LaneTypes, Mapped, LoadOnce, NEW t \in Sids,
         InOrder(t), EnqueuePacket(t), Loading(t)' => Loading(t)
  PROVE  InOrder(t)'
<1>1. /\ UNCHANGED <<lastSeq, kept, moving, attached, changed, home, critical, moves>>
      /\ t \in attached /\ script[t] # <<>> /\ routing[t] = Nothing
  BY DEF EnqueuePacket, ownVars, playVars, histVars, boxVars
<1>2. PICK q \in Seq(Packets) : q = script[t]
  BY DEF RouteTypes
<1>3. PICK p : p = Head(q)
  OBVIOUS
<1>4. /\ script'[t] = Tail(q)
      /\ routing'[t] = [job |-> Job(p.kind, t, p.arg), to |-> home[t]]
  BY <1>2, <1>3 DEF EnqueuePacket, RouteTypes
<1>5. Ahead(t) /\ Here(t) /\ Latest(t)
  BY DEF InOrder
<1>6. /\ Numbered(Tail(q))
      /\ \A i \in DOMAIN Tail(q) :
           /\ \E k \in DOMAIN q : Tail(q)[i] = q[k]
           /\ p.kind \in Moves /\ Tail(q)[i].kind \in Moves => p.arg < Tail(q)[i].arg
  BY <1>1, <1>2, <1>3, <1>5, NumberedTail DEF Ahead
<1>7. \A k \in DOMAIN q : q[k].kind \in Moves => Newer(t, q[k].arg)
  BY <1>2, <1>5 DEF Ahead
<1>8. SameWaits(t)
  BY <1>1, LanesUnchanged
<1>9. \A n : Newer(t, n) => Newer(t, n)'
  BY <1>1, <1>8 DEF Newer, SameWaits
<1>10. /\ Sending(t)' => p.kind \in Moves
       /\ routing'[t].job.arg = p.arg /\ routing'[t].to = home[t]
  BY <1>4 DEF Sending, Job
<1>11. Ahead(t)'
  <2>1. Sending(t)' => Newer(t, routing[t].job.arg)'
    <3>1. 1 \in DOMAIN q /\ q[1] = p
      BY <1>1, <1>2, <1>3, LenProperties, EmptySeq
    <3>2. p.kind \in Moves => Newer(t, p.arg)'
      BY <1>7, <1>9, <3>1
    <3> QED
      BY <1>10, <3>2 DEF Newer
  <2>2. ASSUME NEW i \in DOMAIN script'[t], script'[t][i].kind \in Moves
        PROVE  /\ Newer(t, script[t][i].arg)'
               /\ Sending(t)' => routing'[t].job.arg < script'[t][i].arg
    <3>1. PICK k \in DOMAIN q : script'[t][i] = q[k]
      BY <1>4, <1>6, <2>2
    <3>2. Newer(t, q[k].arg)'
      BY <1>7, <1>9, <2>2, <3>1
    <3>3. Newer(t, script[t][i].arg)'
      BY <3>1, <3>2 DEF Newer
    <3>4. Sending(t)' => routing'[t].job.arg < script'[t][i].arg
      BY <1>4, <1>6, <1>10, <2>2
    <3> QED
      BY <3>3, <3>4
  <2>3. Numbered(script'[t])
    BY <1>4, <1>6
  <2> QED
    BY <2>1, <2>2, <2>3 DEF Ahead
<1>12. Here(t)'
  BY <1>1, <1>5, <1>8, <1>10 DEF Here, SameWaits
<1>13. Latest(t)'
  <2>1. Settled(t) => Settled(t)'
    BY <1>1, <1>8 DEF Settled, SameWaits
  <2>2. Expects(t) => Expects(t)'
    BY <1>1, <1>8 DEF Expects, SameWaits
  <2> QED
    BY <1>1, <1>5, <2>1, <2>2 DEF Latest
<1>14. Unmoved(t)'
  BY <1>1, LoadingApart DEF Unmoved
<1> QED
  BY <1>11, <1>12, <1>13, <1>14 DEF InOrder

(* A mailbox takes the move j of t, the newest so far.                     *)
LEMMA MovedTaken ==
  ASSUME PlayTypes, RouteTypes, LaneTypes, Mapped, LoadOnce, NEW t \in Sids, InOrder(t),
         Sending(t), NEW j, j = routing[t].job, NEW c \in Channels, c = routing[t].to,
         UNCHANGED <<script, lastSeq, moving, attached, changed, home>>,
         kept'[t] = j.kind, ~Sending(t)', Loading(t)' => Loading(t),
         \A x \in Channels : \A i : Waits(x, t, i)' <=> Waits(x, t, i) \/ (x = c /\ i = j)
  PROVE  InOrder(t)'
<1>1. Ahead(t) /\ Here(t) /\ Unmoved(t)
  BY DEF InOrder
<1>2. lastSeq[t] < j.arg /\ \A x \in Channels : \A i : Waits(x, t, i) => i.arg < j.arg
  BY <1>1 DEF Ahead, Newer
<1>3. Ahead(t)'
  <2>1. ASSUME NEW i \in DOMAIN script[t], script[t][i].kind \in Moves
        PROVE  Newer(t, script[t][i].arg)'
    <3>1. Newer(t, script[t][i].arg) /\ j.arg < script[t][i].arg
      BY <1>1, <2>1 DEF Ahead
    <3> QED
      BY <3>1 DEF Newer
  <2> QED
    BY <1>1, <2>1 DEF Ahead
<1>4. Here(t)'
  BY <1>1 DEF Here
<1>5. Expects(t)'
  BY <1>2 DEF Expects
<1>6. Unmoved(t)'
  BY <1>1 DEF Unmoved
<1> QED
  BY <1>3, <1>4, <1>5, <1>6 DEF InOrder, Latest

LEMMA MovedDeliver ==
  ASSUME PlayTypes, RouteTypes, LaneTypes, Mapped, LoadOnce, Notices, NEW t \in Sids, InOrder(t),
         Deliver(t), Sending(t), Loading(t)' => Loading(t)
  PROVE  InOrder(t)'
<1>1. routing[t].to \in Channels /\ routing[t].job \in Routed /\ routing[t].job.sid = t
  BY RouteTarget DEF Deliver, Notices
<1>2. PICK c \in Channels, j \in Routed : c = routing[t].to /\ j = routing[t].job /\ j.sid = t
  BY <1>1
<1>3. j.kind = "start" \/ j.kind = "stop"
  BY <1>2 DEF Sending, Moves
<1>4. UNCHANGED <<script, lastSeq, moving, attached, changed, home>>
  BY DEF Deliver, playVars, ownVars
<1>5. ~Sending(t)'
  BY DEF Deliver, Sending, RouteTypes
<1>6. CASE j.kind = "start" /\ ~(Len(moves[c]) < MoveCap)
  <2>1. UNCHANGED <<critical, moves, kept>>
    BY <1>2, <1>6 DEF Deliver
  <2>2. Calm(t)
    BY <1>4, <1>5, <2>1, LanesUnchanged DEF Calm
  <2> QED
    BY <2>2, CalmKeeps
<1>7. CASE j.kind = "start" /\ Len(moves[c]) < MoveCap
  <2>1. /\ critical' = critical /\ kept' = [kept EXCEPT ![t] = "start"]
        /\ moves' = [moves EXCEPT ![c] = Append(@, j)]
    BY <1>2, <1>7 DEF Deliver
  <2>2. j \in MoveJob /\ kept'[t] = j.kind
    BY <1>7, <2>1 DEF Routed, CritJob, MoveJob, PlayTypes
  <2>3. \A x \in Channels : \A i :
          Waits(x, t, i)' <=> Waits(x, t, i) \/ (x = c /\ i = j /\ j.sid = t)
    BY <2>1, <2>2, MovesPut
  <2> QED
    BY <1>2, <1>4, <1>5, <2>2, <2>3, MovedTaken
<1>8. CASE j.kind = "stop"
  <2>1. /\ moves' = moves /\ critical' = [critical EXCEPT ![c] = Append(@, j)]
        /\ kept' = [kept EXCEPT ![t] = "stop"]
    BY <1>2, <1>8 DEF Deliver
  <2>2. j \in CritJob /\ kept'[t] = j.kind
    BY <1>8, <2>1 DEF Routed, CritJob, MoveJob, PlayTypes
  <2>3. \A x \in Channels : \A i :
          Waits(x, t, i)' <=> Waits(x, t, i) \/ (x = c /\ i = j /\ j.sid = t /\ j.kind = "stop")
    BY <2>1, <2>2, CriticalPut
  <2> QED
    BY <1>2, <1>4, <1>5, <1>8, <2>2, <2>3, MovedTaken
<1> QED
  BY <1>3, <1>6, <1>7, <1>8

(* The Player is attached before any move, or the login ends otherwise.    *)
LEMMA MovedAttach ==
  ASSUME SessionTypes, PlayTypes, EventTypes, RouteTypes, LaneTypes, NEW t \in Sids, InOrder(t),
         NEW c \in Channels, DbResultJob(c, t), Loading(t)' => Loading(t)
  PROVE  InOrder(t)'
<1>1. UNCHANGED <<script, routing, lastSeq, kept, moving, changed, home, critical, moves>>
  BY DEF DbResultJob, ownVars, histVars
<1>2. In(events[c], Loaded(t))
  BY DbResults
<1>3. Loading(t)
  BY <1>2 DEF Loading
<1>4. /\ t \notin moving /\ kept[t] = "none" /\ ~Sending(t)
      /\ \A x \in Channels : \A j : ~Waits(x, t, j)
  BY <1>3 DEF InOrder, Unmoved
<1>5. SameWaits(t)
  BY <1>1, LanesUnchanged
<1>6. ~Sending(t)' /\ \A x \in Channels : \A j : ~Waits(x, t, j)'
  BY <1>1, <1>4, <1>5 DEF Sending, SameWaits
<1>7. Ahead(t)'
  <2>1. Ahead(t)
    BY DEF InOrder
  <2>2. ASSUME NEW i \in DOMAIN script[t], script[t][i].kind \in Moves
        PROVE  Newer(t, script[t][i].arg)'
    <3>1. Newer(t, script[t][i].arg)
      BY <2>1, <2>2 DEF Ahead
    <3> QED
      BY <1>1, <1>6, <3>1 DEF Newer
  <2> QED
    BY <1>1, <1>6, <2>1, <2>2 DEF Ahead
<1>8. Here(t)'
  BY <1>6 DEF Here
<1>9. Settled(t)'
  BY <1>1, <1>4, <1>6 DEF Settled
<1>10. Unmoved(t)'
  BY <1>1, <1>4, <1>6 DEF Unmoved
<1> QED
  BY <1>7, <1>8, <1>9, <1>10 DEF InOrder, Latest

(* The owner takes the move h of t: it obeys it if it is newer.            *)
LEMMA MovedObeyed ==
  ASSUME PlayTypes, RouteTypes, LaneTypes, Mapped, LoadOnce, NEW t \in Sids, InOrder(t),
         NEW c \in Channels, NEW h, Waits(c, t, h), MoveTo(c, t, h.kind, h.arg),
         UNCHANGED <<script, routing, attached, kept, changed, home>>,
         \A x \in Channels : \A j : Waits(x, t, j)' => Waits(x, t, j),
         \A x \in Channels : \A j : Waits(x, t, j) => Waits(x, t, j)' \/ j = h,
         Loading(t)' => Loading(t)
  PROVE  InOrder(t)'
<1>1. Ahead(t) /\ Here(t) /\ Latest(t) /\ Unmoved(t)
  BY DEF InOrder
<1>2. h.arg \in Nat /\ h.kind \in Moves
  BY WaitsAre
<1>3. lastSeq[t] \in Nat /\ t \in DOMAIN lastSeq
  BY DEF PlayTypes
<1>4. \/ /\ Owned(c, t) /\ h.arg > lastSeq[t] /\ lastSeq'[t] = h.arg
         /\ (t \in moving' <=> h.kind = "start")
      \/ /\ ~(Owned(c, t) /\ h.arg > lastSeq[t]) /\ lastSeq'[t] = lastSeq[t]
         /\ (t \in moving' <=> t \in moving)
  BY <1>3 DEF MoveTo
<1>5. ASSUME NEW n \in Nat, Newer(t, n) PROVE lastSeq'[t] < n
  <2>1. h.arg < n /\ lastSeq[t] < n
    BY <1>5 DEF Newer
  <2> QED
    BY <1>4, <2>1
<1>6. ASSUME NEW n \in Nat, Newer(t, n)
      PROVE  lastSeq'[t] < n /\ \A x \in Channels : \A j : Waits(x, t, j)' => j.arg < n
  BY <1>5, <1>6 DEF Newer
<1>7. Sending(t)' <=> Sending(t)
  BY DEF Sending
<1>8. Here(t)'
  BY <1>1, <1>7 DEF Here
<1>9. Unmoved(t)'
  BY <1>1 DEF Unmoved
<1>10. ASSUME t \in attached \ changed, Settled(t) PROVE Settled(t)'
  <2>1. h.arg <= lastSeq[t]
    BY <1>10 DEF Settled
  <2>2. lastSeq'[t] = lastSeq[t] /\ (t \in moving' <=> t \in moving)
    BY <1>2, <1>3, <1>4, <2>1
  <2> QED
    BY <1>10, <2>2 DEF Settled
<1>11. ASSUME t \in attached \ changed, Expects(t) PROVE Settled(t)' \/ Expects(t)'
  <2>0. PICK d \in Channels : \E j :
          /\ Waits(d, t, j) /\ j.kind = kept[t] /\ lastSeq[t] < j.arg
          /\ \A x \in Channels : \A i : Waits(x, t, i) => i = j \/ i.arg < j.arg
    BY <1>11 DEF Expects
  <2>1. PICK j :
          /\ Waits(d, t, j) /\ j.kind = kept[t] /\ lastSeq[t] < j.arg
          /\ \A x \in Channels : \A i : Waits(x, t, i) => i = j \/ i.arg < j.arg
    BY <2>0
  <2>2. j.arg \in Nat
    BY <2>1, WaitsAre
  <2>3. CASE j = h
    <3>1. Owned(c, t)
      BY <1>1, <1>11 DEF Owned, Here
    <3>2. lastSeq'[t] = j.arg /\ (t \in moving' <=> j.kind = "start")
      BY <1>2, <1>3, <1>4, <2>1, <2>3, <3>1
    <3>3. \A x \in Channels : \A i : Waits(x, t, i)' => i.arg <= j.arg
      <4> SUFFICES ASSUME NEW x \in Channels, NEW i, Waits(x, t, i)' PROVE i.arg <= j.arg
        OBVIOUS
      <4>1. Waits(x, t, i) /\ i.arg \in Nat
        BY WaitsAre
      <4> QED
        BY <2>1, <2>2, <4>1
    <3> QED
      BY <2>1, <3>2, <3>3 DEF Settled
  <2>4. CASE j # h
    <3>1. Waits(d, t, j)'
      BY <2>1, <2>4
    <3>2. h.arg < j.arg
      BY <2>1, <2>4
    <3>3. lastSeq'[t] < j.arg
      BY <1>4, <2>1, <3>2
    <3> QED
      BY <2>1, <3>1, <3>3 DEF Expects
  <2> QED
    BY <2>3, <2>4
<1>12. Latest(t)'
  BY <1>1, <1>10, <1>11 DEF Latest
<1>13. Ahead(t)'
  <2>1. ASSUME NEW i \in DOMAIN script[t], script[t][i].kind \in Moves
        PROVE  Newer(t, script[t][i].arg)'
    <3>1. script[t][i] \in Packets
      BY <2>1 DEF RouteTypes
    <3>2. script[t][i].arg \in Nat
      BY <2>1, <3>1 DEF Packets, Moves
    <3>3. Newer(t, script[t][i].arg)
      BY <1>1, <2>1 DEF Ahead
    <3> QED
      BY <1>6, <3>2, <3>3 DEF Newer
  <2>2. ASSUME Sending(t) PROVE Newer(t, routing[t].job.arg)'
    <3>1. routing[t].job.arg \in Nat
      BY <2>2 DEF Sending, RouteTypes, Routed, CritJob, MoveJob, Moves
    <3>2. Newer(t, routing[t].job.arg)
      BY <1>1, <2>2 DEF Ahead
    <3> QED
      BY <1>6, <3>1, <3>2 DEF Newer
  <2> QED
    BY <1>1, <1>7, <2>1, <2>2 DEF Ahead
<1> QED
  BY <1>8, <1>9, <1>12, <1>13 DEF InOrder

LEMMA MovedTo ==
  ASSUME SessionTypes, PlayTypes, EventTypes, RouteTypes, LaneTypes, Mapped, LoadOnce,
         NEW t \in Sids, InOrder(t), NEW c \in Channels, OnStopMove(c, t) \/ OnStartMove(c, t),
         Loading(t)' => Loading(t)
  PROVE  InOrder(t)'
<1>1. UNCHANGED <<script, routing, attached, kept, changed, home>>
  BY DEF OnStopMove, OnStartMove, netVars, ownVars, histVars
<1>2. CASE OnStopMove(c, t)
  <2>1. /\ critical[c] \in Seq(CritJob) /\ critical[c] # <<>>
        /\ Head(critical[c]).kind = "stop" /\ Head(critical[c]).sid = t /\ moves' = moves
    BY <1>2 DEF OnStopMove, TakeCritical, LaneTypes
  <2>2. critical'[c] = Tail(critical[c]) /\ \A x \in Channels \ {c} : critical'[x] = critical[x]
    BY <1>2 DEF OnStopMove, TakeCritical, LaneTypes
  <2>3. PICK h : h = Head(critical[c])
    OBVIOUS
  <2>4. /\ In(critical[c], h)
        /\ \A e : /\ In(critical'[c], e) => In(critical[c], e)
                  /\ In(critical[c], e) /\ h # e => In(critical'[c], e)
    BY <2>1, <2>2, <2>3, Taken
  <2>5. Waits(c, t, h)
    BY <2>1, <2>3, <2>4 DEF Waits
  <2>6. /\ \A x \in Channels : \A j : Waits(x, t, j)' => Waits(x, t, j)
        /\ \A x \in Channels : \A j : Waits(x, t, j) => Waits(x, t, j)' \/ j = h
    BY <2>1, <2>2, <2>4 DEF Waits
  <2>7. MoveTo(c, t, h.kind, h.arg)
    BY <1>2, <2>1, <2>3 DEF OnStopMove
  <2> QED
    BY <1>1, <2>5, <2>6, <2>7, MovedObeyed
<1>3. CASE OnStartMove(c, t)
  <2>1. /\ moves[c] \in Seq(MoveJob) /\ moves[c] # <<>>
        /\ Head(moves[c]).sid = t /\ critical' = critical
    BY <1>3 DEF OnStartMove, LaneTypes
  <2>2. moves'[c] = Tail(moves[c]) /\ \A x \in Channels \ {c} : moves'[x] = moves[x]
    BY <1>3 DEF OnStartMove, LaneTypes
  <2>3. PICK h : h = Head(moves[c])
    OBVIOUS
  <2>4. /\ In(moves[c], h) /\ h \in MoveJob
        /\ \A e : /\ In(moves'[c], e) => In(moves[c], e)
                  /\ In(moves[c], e) /\ h # e => In(moves'[c], e)
    BY <2>1, <2>2, <2>3, Taken
  <2>5. Waits(c, t, h) /\ h.kind = "start"
    BY <2>1, <2>3, <2>4 DEF Waits, MoveJob
  <2>6. /\ \A x \in Channels : \A j : Waits(x, t, j)' => Waits(x, t, j)
        /\ \A x \in Channels : \A j : Waits(x, t, j) => Waits(x, t, j)' \/ j = h
    BY <2>1, <2>2, <2>4 DEF Waits
  <2>7. MoveTo(c, t, h.kind, h.arg)
    BY <1>3, <2>3, <2>5 DEF OnStartMove
  <2> QED
    BY <1>1, <2>5, <2>6, <2>7, MovedObeyed
<1> QED
  BY <1>2, <1>3

LEMMA OrderedStep ==
  ASSUME SessionTypes, PlayTypes, RouteTypes, LaneTypes, EventTypes, ChatTypes, Mapped, Notices,
         LoadOnce, Posts, Ordered, [Next]_vars
  PROVE  Ordered'
<1> SUFFICES ASSUME NEW t \in Sids PROVE InOrder(t)'
  BY DEF Ordered
<1>1. InOrder(t) /\ (Loading(t)' => Loading(t))
  BY LoadingStays DEF Ordered
<1>2. ASSUME NEW c \in Channels, Moved(c, t) PROVE InOrder(t)'
  BY <1>1, <1>2, MovedEnqueue, MovedDeliver, MovedAttach, MovedTo DEF Moved
<1> QED
  BY <1>1, <1>2, CalmSteps, CalmKeeps

LEMMA PostsStep == ASSUME Posts, [Next]_vars PROVE Posts'
<1>1. ASSUME NEW s \in Sids, NEW c \in Channels, OnLoginSuccess(s, c) PROVE posting' = posting
  BY <1>1 DEF OnLoginSuccess, chatVars
<1>2. ASSUME NEW s \in Sids,
             \/ LoadDone(s) \/ Hangup(s) \/ EnqueuePacket(s) \/ EnqueueDisconnect(s)
             \/ Deliver(s)
      PROVE  posting' = posting
  BY <1>2 DEF LoadDone, Hangup, EnqueuePacket, EnqueueDisconnect, Deliver, chatVars
<1>3. ASSUME NEW c \in Channels, NEW s \in Sids,
             \/ DbResultJob(c, s) \/ OnChannelEnter(c, s) \/ OnChannelChangeEnter(c, s)
             \/ OnStrayLeave(c, s) \/ OnClientLeave(c, s) \/ OnStopMove(c, s)
             \/ OnStartMove(c, s) \/ OnPortal(c, s) \/ OnChat(c, s) \/ OnWhisper(c, s)
             \/ WhisperDeliver(c, s) \/ Refuse(c, s) \/ OnChannelChange(c, s)
      PROVE  posting' = posting
  BY <1>3 DEF DbResultJob, OnChannelEnter, OnChannelChangeEnter, OnStrayLeave, OnClientLeave,
              OnStopMove, OnStartMove, OnPortal, OnChat, OnWhisper, WhisperDeliver, Refuse,
              OnChannelChange, chatVars
<1>4. ASSUME NEW c \in Channels, NextPhase(c) \/ SendObjectUpdates(c) PROVE posting' = posting
  BY <1>4 DEF NextPhase, SendObjectUpdates, chatVars
<1>5. CASE Route
  BY <1>5 DEF Route, Posts, Job
<1>6. CASE PostToChannel
  BY <1>6 DEF PostToChannel, Posts
<1>7. CASE UNCHANGED vars
  BY <1>7 DEF vars, chatVars, Posts
<1>8. posting' = posting => Posts'
  BY DEF Posts
<1> QED
  BY <1>1, <1>2, <1>3, <1>4, <1>5, <1>6, <1>7, <1>8
     DEF Next, Client, Worker, TickLoop, SessionEvent, PacketJob, SharedServices

-----------------------------------------------------------------------------
(***************************************************************************)
(* Part 13: the theorems.                                                  *)
(***************************************************************************)
LEMMA InitIInv == ASSUME Init PROVE IInv
<1> USE ChannelsAssumption
<1>1. SessionTypes
  BY DEF Init, SessionTypes
<1>2. PlayTypes
  BY DEF Init, PlayTypes
<1>3. ChannelTypes
  BY DEF Init, ChannelTypes
<1>4. GridTypes
  BY DEF Init, GridTypes
<1>5. RouteTypes
  BY DEF Init, RouteTypes
<1>6. EventTypes
  BY EmptySeq DEF Init, EventTypes
<1>7. LaneTypes
  BY EmptySeq DEF Init, LaneTypes
<1>8. ChatTypes
  BY EmptySeq DEF Init, ChatTypes
<1>9. PopulationType
  BY DEF Init, PopulationType
<1>10. \A c \in Channels : \A e : ~In(events[c], e) /\ Once(events[c], e)
  BY DEF Init, In, Once
<1>11. Mapped
  BY DEF Init, Mapped
<1>12. Notices
  BY <1>10 DEF Init, Notices
<1>13. LoadOnce
  BY <1>10 DEF Init, LoadOnce
<1>14. EnterFirst
  BY <1>10 DEF Init, EnterFirst
<1>15. SoleWriter
  BY DEF Init, SoleWriter
<1>16. FlushListExact
  BY DEF Init, FlushListExact
<1>17. PopulationExact
  <2>1. \A c \in Channels : {s \in Sids : home[s] = c} = {}
    BY DEF Init
  <2> QED
    BY <2>1, FS_EmptySet DEF Init, PopulationExact
<1>18. LeaveUnderWay
  BY DEF Init, LeaveUnderWay
<1>19. LoginBefore
  BY <1>10 DEF LoginBefore
<1>20. Placed
  BY <1>10 DEF Init, Placed, PlacedAt, Alone, Awaited
<1>21. Arrives
  BY DEF Init, Arrives
<1>22. Posts
  BY DEF Init, Posts
<1>23. TypeOK
  BY <1>1, <1>2, <1>3, <1>4, <1>5, <1>6, <1>7, <1>8, <1>9, TypeParts
<1> QED
  BY <1>11, <1>12, <1>13, <1>14, <1>15, <1>16, <1>17, <1>18, <1>19, <1>20, <1>21, <1>22,
     <1>23 DEF IInv

LEMMA IInvStep == ASSUME IInv, [Next]_vars PROVE IInv'
<1>1. /\ SessionTypes /\ PlayTypes /\ ChannelTypes /\ GridTypes /\ RouteTypes
      /\ EventTypes /\ LaneTypes /\ ChatTypes /\ PopulationType
  BY TypeParts DEF IInv
<1>2. /\ Mapped /\ Notices /\ LoadOnce /\ EnterFirst
      /\ SoleWriter /\ FlushListExact /\ PopulationExact /\ LeaveUnderWay
      /\ LoginBefore /\ Placed /\ Arrives /\ Posts
  BY DEF IInv
<1>3. SessionTypes'
  BY <1>1, <1>2, SessionTypesStep
<1>4. PlayTypes'
  BY <1>1, PlayTypesStep
<1>5. ChannelTypes'
  BY <1>1, ChannelTypesStep
<1>6. GridTypes'
  BY <1>1, GridTypesStep
<1>7. RouteTypes'
  BY <1>1, <1>2, RouteTypesStep
<1>8. LaneTypes'
  BY <1>1, <1>2, LaneTypesStep
<1>9. ChatTypes'
  BY <1>1, ChatTypesStep
<1>10. LoadOnce' /\ EventTypes'
  BY <1>1, <1>2, LoadOnceStep
<1>11. PopulationExact' /\ PopulationType'
  BY <1>1, <1>2, PopulationStep
<1>12. Mapped'
  BY <1>1, <1>2, MappedStep
<1>13. Notices'
  BY <1>1, <1>2, NoticesStep
<1>14. EnterFirst'
  BY <1>1, <1>2, EnterFirstStep
<1>15. SoleWriter'
  BY <1>1, <1>2, SoleWriterStep
<1>16. FlushListExact'
  BY <1>1, <1>2, FlushListStep
<1>17. LeaveUnderWay'
  BY <1>1, <1>2, LeaveStep
<1>18. TypeOK'
  BY <1>3, <1>4, <1>5, <1>6, <1>7, <1>8, <1>9, <1>10, <1>11, TypePartsNext
<1>19. LoginBefore'
  BY <1>1, <1>2, LoginBeforeStep
<1>20. Placed'
  BY <1>1, <1>2, PlacedStep
<1>21. Arrives'
  BY <1>1, <1>2, <1>3, ArrivesStep
<1>22. Posts'
  BY <1>2, PostsStep
<1> QED
  BY <1>10, <1>11, <1>12, <1>13, <1>14, <1>15, <1>16, <1>17, <1>18, <1>19, <1>20, <1>21,
     <1>22 DEF IInv

LEMMA Inductive == Spec => []IInv
<1>1. Init => IInv
  BY InitIInv
<1>2. IInv /\ [Next]_vars => IInv'
  BY IInvStep
<1> QED
  BY <1>1, <1>2, PTL DEF Spec

(* The moves stay in order as long as clients number theirs.               *)
LEMMA InitOrdered == ASSUME Init PROVE Ordered
<1> SUFFICES ASSUME NEW t \in Sids PROVE InOrder(t)
  BY DEF Ordered
<1> USE ChannelsAssumption, ClientsAssumption
<1>1. \A c \in Channels : \A j : ~Waits(c, t, j)
  BY DEF Init, Waits, In
<1>2. ~Sending(t) /\ lastSeq[t] = 0 /\ t \notin moving /\ kept[t] = "none" /\ t \notin attached
  BY DEF Init, Sending
<1>3. Numbered(script[t])
  BY DEF Init
<1>4. \A i \in DOMAIN script[t] : script[t][i].kind \in Moves => Newer(t, script[t][i].arg)
  BY <1>1, <1>2, <1>3 DEF Numbered, Newer
<1>5. Ahead(t)
  BY <1>2, <1>3, <1>4 DEF Ahead
<1> QED
  BY <1>1, <1>2, <1>5 DEF InOrder, Here, Latest, Unmoved

LEMMA AlwaysOrdered == Spec => []Ordered
<1>1. Init => Ordered
  BY InitOrdered
<1>2. IInv /\ Ordered /\ [Next]_vars => Ordered'
  BY OrderedStep, TypeParts DEF IInv
<1> QED
  BY <1>1, <1>2, Inductive, PTL DEF Spec

(* Every variable keeps its type: routed jobs have a channel to go to, and *)
(* m_channelPlayerCount is never below zero.                               *)
THEOREM ChannelsTypeCorrect == Spec => []TypeOK
<1>1. IInv => TypeOK
  BY DEF IInv
<1> QED
  BY <1>1, Inductive, PTL

(* Only the thread of the channel that owns a session advances its send    *)
(* key (GameSession::SendScrambled), through logins, channel changes,      *)
(* whispers from other channels and leaves.                                *)
THEOREM OnlyOwnerSends == Spec => []SoleWriter
<1>1. IInv => SoleWriter
  BY DEF IInv
<1> QED
  BY <1>1, Inductive, PTL

(* The flush list of a channel is exactly its sessions with messages in    *)
(* their batch, and empty while sessions may go back to the pool.          *)
THEOREM FlushListsExact == Spec => []FlushListExact
<1>1. IInv => FlushListExact
  BY DEF IInv
<1> QED
  BY <1>1, Inductive, PTL

(* m_channelPlayerCount counts the sessions of every channel.              *)
THEOREM PopulationsExact == Spec => []PopulationExact
<1>1. IInv => PopulationExact
  BY DEF IInv
<1> QED
  BY <1>1, Inductive, PTL

(* A disconnect notice that was given is on its way until the owner of the *)
(* session took it, however often the session changes channels meanwhile.  *)
THEOREM NoticeNeverLost == Spec => []LeaveUnderWay
<1>1. IInv => LeaveUnderWay
  BY DEF IInv
<1> QED
  BY <1>1, Inductive, PTL

(* A Player is in the maps of the channel that owns its session alone, on  *)
(* its own map and once, through logins, portals, channel changes and      *)
(* leaves (MapManager::AddPlayer, ChangeMap), but for the two ways to      *)
(* hurry: a portal before the enter job of a change, and a change back to  *)
(* a channel whose earlier enter job still waits.                          *)
THEOREM PlayersStayInTheirMaps == Spec => []GridSound
<1>1. IInv => GridSound
  BY AlonePlaced DEF IInv
<1> QED
  BY <1>1, Inductive, PTL

(* A Player that is not in the maps of its owner has an enter job in the   *)
(* mailbox of the owner: no channel change loses it.                       *)
THEOREM NobodyIsLost == Spec => []ArrivalUnderWay
<1>1. IInv => ArrivalUnderWay
  BY ArrivesIs DEF IInv
<1> QED
  BY <1>1, Inductive, PTL

(* When no move of it waits, the Player of a session that stayed in its    *)
(* channel does what the last move taken into a mailbox said, although two *)
(* mailboxes turn moves around and one of them sheds (Channel::OnMove).    *)
THEOREM LastMoveCounts == Spec => []LatestMoveWins
<1>1. IInv /\ Ordered => LatestMoveWins
  BY LatestIs, TypeParts DEF IInv
<1> QED
  BY <1>1, Inductive, AlwaysOrdered, PTL
=============================================================================
