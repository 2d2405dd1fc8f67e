---------------------------- MODULE MCAdmission ----------------------------
(* Instances of Admission for TLC. *)
EXTENDS Admission, TLC

Interchangeable == Permutations(Sids)

(* The packets of the game client, in its order. *)
Usual == {<<"verify", "channelSelect", "characterSelect">>}

(* Threads interleave freely on a link that stays up; the link fails once.   *)
Calm   == [splitTeardown |-> FALSE, lateFrames |-> FALSE, sweepUnnoticed |-> FALSE, breaks |-> 0]
Split  == [Calm EXCEPT !.splitTeardown = TRUE]
Broken == [Calm EXCEPT !.breaks = 1]
SplitOrBroken == {[Split EXCEPT !.lateFrames = TRUE], Broken}
OnlySplit     == {Split}
Unfortunate   == {[Broken EXCEPT !.lateFrames = TRUE, !.sweepUnnoticed = TRUE]}
Patiently     == {[Calm EXCEPT !.lateFrames = TRUE]}

(* One connection plays already when the other one comes: where the runs that
   look for an end start.  No autosaves: no wait depends on them. *)
Playing(s) ==
  /\ net = [t \in Sids |-> IF t = s THEN "open" ELSE "new"]
  /\ script = [t \in Sids |-> <<>>] /\ requests = <<>>
  /\ at = "top" /\ cur = s /\ sawKick = FALSE /\ scan = {} /\ syncDue = FALSE
  /\ timing \in Timings
  /\ connected = TRUE /\ linkAlive = TRUE /\ breaks = 0
  /\ toLogin = <<>> /\ oldLink = <<>> /\ toGame = <<>>
  /\ pending = {} /\ replacing = {} /\ chosen = {} /\ awaiting = {}
  /\ sessions = {s} /\ kicked = {} /\ accountToSid = s /\ pendingSave = FALSE
  /\ players = {s} /\ inWorld = {s} /\ progress = [t \in Sids |-> {s} \cap {t}]
  /\ channelEvents = <<>> /\ dbQueue = <<>> /\ stored = {}
  /\ tokens = [t \in Sids |-> 0] /\ online = s

LiveInit == Playing(CHOOSE s \in Sids : TRUE)
LiveSpec == LiveInit /\ [][Clients \/ BreakLink \/ Servers]_vars /\ Fairness

(* BOUND of the longest behaviours: clients send one after the other, and
   the link thread keeps up with them. *)
Patient ==
  /\ Cardinality({s \in Sids : net[s] # "new" /\ script[s] # <<>>}) <= 1
  /\ Len(requests) <= 2
=============================================================================
