------------------------------ MODULE SlotPool ------------------------------
(***************************************************************************)
(* What a concurrency governor promises to its callers, whatever it keeps  *)
(* to fulfil the promise: requests that run at the same time never exceed  *)
(* the global, the per-user and the per-channel limit, and a request never *)
(* waits while there is room for it.  In which order waiting requests are  *)
(* admitted is left open.                                                  *)
(***************************************************************************)
EXTENDS Naturals, FiniteSets

CONSTANTS
  Requests,         \* the requests for a slot, each made once
  NoChannel,        \* the channel of a request made outside any channel
  UserOf,           \* the user who makes a request
  ChannelOf,        \* the channel it comes from, or NoChannel
  GlobalLimit, PerUserLimit, PerChannelLimit

VARIABLE
  caller            \* what each request knows of its slot

Phases == {"new", "waiting", "held", "rejected", "timedOut", "released"}

Holding == {r \in Requests : caller[r] = "held"}
Waiting == {r \in Requests : caller[r] = "waiting"}

\* The requests of S by the user, and from the channel, of request r.
SameUser(S, r) == {s \in S : UserOf[s] = UserOf[r]}
SameChannel(S, r) == {s \in S : ChannelOf[s] = ChannelOf[r]}

\* The requests of H may run at the same time.
Fits(H) ==
  /\ Cardinality(H) <= GlobalLimit
  /\ \A r \in H : /\ Cardinality(SameUser(H, r)) <= PerUserLimit
                  /\ \/ ChannelOf[r] = NoChannel
                     \/ Cardinality(SameChannel(H, r)) <= PerChannelLimit

Init == caller = [r \in Requests |-> "new"]

(***************************************************************************)
(* A request asks for a slot: it gets one if there is room for it, and is  *)
(* made to wait or is turned away only if there is none.                   *)
(***************************************************************************)
Ask(r) ==
  /\ caller[r] = "new"
  /\ IF Fits(Holding \cup {r})
       THEN caller' = [caller EXCEPT ![r] = "held"]
       ELSE \E answer \in {"waiting", "rejected"} :
              caller' = [caller EXCEPT ![r] = answer]

GiveUp(r) ==
  /\ caller[r] = "waiting"
  /\ caller' = [caller EXCEPT ![r] = "timedOut"]

(***************************************************************************)
(* A slot comes back, and as many of the waiting requests get one in the   *)
(* same step as there is room for: none of those left could be added.      *)
(***************************************************************************)
Finish(r) ==
  /\ caller[r] = "held"
  /\ \E G \in SUBSET Waiting :
       LET H == (Holding \ {r}) \cup G
       IN  /\ Fits(H)
           /\ \A w \in Waiting \ G : ~ Fits(H \cup {w})
           /\ caller' = [s \in Requests |->
                           IF s = r THEN "released"
                           ELSE IF s \in G THEN "held" ELSE caller[s]]

Next == \E r \in Requests : Ask(r) \/ GiveUp(r) \/ Finish(r)

Spec == Init /\ [][Next]_caller

=============================================================================
