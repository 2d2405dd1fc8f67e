----------------------------- MODULE MCChannels -----------------------------
(* Instances of Channels for TLC. *)
EXTENDS Channels, TLC

Interchangeable ==
  {p @@ q @@ r : p \in Permutations(Sids), q \in Permutations(Channels),
                 r \in Permutations(Maps)}

(* One client changes channels or moves about; what the others do meanwhile
   is what that may disturb. *)
Tour(c)    == <<Packet("chat", None), Packet("change", c), Packet("portal", None)>>
Return(c, d) == <<Packet("change", c), Packet("change", d)>>
Walk       == <<Packet("start", 1), Packet("stop", 2), Packet("start", 3)>>
Returns == {Return(p[1], p[2]) : p \in {q \in Channels \X Channels : q[1] # q[2]}}
Repeats == {Return(p[1], p[2]) \o <<Packet("change", p[1])>> :
              p \in {q \in Channels \X Channels : q[1] # q[2]}}
Travels == {Tour(c) : c \in Channels} \cup Returns \cup Repeats \cup {Walk}

Pair(s, travel, stay) == [t \in Sids |-> IF t = s THEN travel ELSE stay]
Casts ==
  UNION {{Pair(s, Tour(c), <<Packet("chat", None)>>) : c \in Channels}
           \cup {Pair(s, q, <<Packet("whisper", s)>>) : q \in Returns}
           \cup {Pair(s, q, <<>>) : q \in Repeats \cup {Walk}} : s \in Sids}

(* Where the runs start: all but one are playing already, alone on a map. *)
Begin ==
  \E s \in Sids : \E f \in [Sids \ {s} -> Channels] : \E m \in [Sids -> Maps] :
    LET here == Sids \ {s} IN
    /\ net = [t \in Sids |-> IF t = s THEN "new" ELSE "open"]
    /\ script \in {q \in Scripts : q[s] \in Travels}
    /\ routing = [t \in Sids |-> Nothing]
    /\ home = [t \in Sids |-> IF t = s THEN None ELSE f[t]]
    /\ population = [c \in Channels |-> Cardinality({t \in here : f[t] = c})]
    /\ loads = [t \in Sids |-> None] /\ attached = here
    /\ map = m /\ moving = {} /\ lastSeq = [t \in Sids |-> 0]
    /\ phase = [c \in Channels |-> "events"] /\ done = [c \in Channels |-> 0]
    /\ events = [c \in Channels |-> <<>>] /\ critical = [c \in Channels |-> <<>>]
    /\ moves = [c \in Channels |-> <<>>]
    /\ grid = [c \in Channels |-> [t \in Sids |-> [i \in Maps |->
                 IF t # s /\ f[t] = c /\ m[t] = i THEN 1 ELSE 0]]]
    /\ outbound = [c \in Channels |-> {}] /\ flushList = [c \in Channels |-> {}]
    /\ queued = {} /\ whispers = <<>> /\ posting = Nothing
    /\ writer = [t \in Sids |-> IF t = s THEN None ELSE f[t]]
    /\ kept = [t \in Sids |-> "none"] /\ changed = {} /\ hurried = {}

BeginSpec == Begin /\ [][Next]_vars
=============================================================================
