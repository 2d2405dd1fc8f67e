------------------------------ MODULE NetEvents ------------------------------
(***************************************************************************)
(* What the network library promises its INetEventHandler about a session  *)
(* handle <<slot, generation>>: a handle is opened once, on a slot no      *)
(* other live handle has; packets are delivered only between its opening   *)
(* and its disconnect notice; the notice comes exactly once; and only      *)
(* after it does Find stop returning the session.                          *)
(***************************************************************************)
CONSTANT Handles    \* pairs <<slot, generation>>

VARIABLES
  alive,   \* handles that Find resolves
  heard,   \* handles for which EnqueuePacket was called
  notices  \* calls of EnqueueDisconnect for each handle

vars == <<alive, heard, notices>>

Init == alive = {} /\ heard = {} /\ notices = [h \in Handles |-> 0]

Open(h) ==
  /\ \A x \in alive : x[1] # h[1]
  /\ notices[h] = 0 /\ h \notin heard
  /\ alive' = alive \cup {h}
  /\ UNCHANGED <<heard, notices>>

Deliver(h) ==
  /\ h \in alive /\ notices[h] = 0
  /\ heard' = heard \cup {h}
  /\ UNCHANGED <<alive, notices>>

Announce(h) ==
  /\ h \in alive /\ notices[h] = 0
  /\ notices' = [notices EXCEPT ![h] = 1]
  /\ UNCHANGED <<alive, heard>>

Retire(h) ==
  /\ h \in alive /\ notices[h] = 1
  /\ alive' = alive \ {h}
  /\ UNCHANGED <<heard, notices>>

Next == \E h \in Handles : Open(h) \/ Deliver(h) \/ Announce(h) \/ Retire(h)

Spec == Init /\ [][Next]_vars
=============================================================================
