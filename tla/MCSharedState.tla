----------------------------- MODULE MCSharedState -----------------------------
(***************************************************************************)
(* What several gateways share or may share, side by side: the governor    *)
(* over a local or a Redis backend, the slots in Redis themselves, the     *)
(* working memory over such a backend, the bridge that moves a gateway     *)
(* between the two, the message bus and the discovery of other agents.     *)
(* Each behaviour moves one of them, chosen at the start; the others stay  *)
(* as they began.                                                          *)
(*                                                                         *)
(* Governor: four requests, two of one conversation, one of the same user  *)
(* elsewhere and one of another user in the same channel; one operation of *)
(* Redis may fail.  Slots: three requests, two of one user, of which the   *)
(* global limit admits two, and locks of three ticks.  Memory: two         *)
(* conversations of at most two entries, summarised beyond one; one        *)
(* digest, clear, fault, restart and expiry are enough for each of them to *)
(* meet every answer of the backend that is under way.  Bridge: two        *)
(* conversations, two pings under way and two outages.  Bus: a process     *)
(* calls one of the two handlers of another and broadcasts to both;        *)
(* identifiers are remembered one at a time, so that a repeated delivery   *)
(* may meet a forgotten one.  Discovery: an agent that goes down twice     *)
(* while two checks are under way.                                         *)
(***************************************************************************)
EXTENDS GatewayGovernor, RedisSlots, GatewayWorkingMemory, StateBridge,
        MessageBus, Discovery, TLC

CONSTANTS alice, bob, general, random, r1, r2, r3, r4,
          s1, s2, s3, global, u1, u2,
          k1, k2,
          c1, c2, p1, p2, ha, hb, everyone,
          d1

VARIABLE component  \* the component that moves

MCRequests == {r1, r2, r3, r4}
MCUserOf == r1 :> alice @@ r2 :> alice @@ r3 :> alice @@ r4 :> bob
MCChannelOf == r1 :> general @@ r2 :> general @@ r3 :> random @@ r4 :> general
MCScopesOf == s1 :> {global, u1} @@ s2 :> {global, u1} @@ s3 :> {global, u2}
MCLimit == global :> 2 @@ u1 :> 2 @@ u2 :> 1
MCTo == c1 :> ha @@ c2 :> everyone
MCHome == c1 :> p2 @@ c2 :> p2
MCHandlers == p1 :> <<ha, hb>> @@ p2 :> << >>

allVars == <<governorVars, redisSlotsVars, memoryVars, sbVars, busVars, discVars, component>>

Init ==
  /\ component \in {"governor", "slots", "memory", "bridge", "bus", "discovery"}
  /\ GovernorInit /\ RedisSlotsInit /\ MemoryInit /\ StateBridgeInit /\ BusInit /\ DiscInit
  \* The others begin in one way only.
  /\ component = "governor" \/ kind = "local"
  /\ component = "bridge" \/ redisUp
  /\ component = "bus" \/ busMode = "local"
  /\ component = "discovery" \/ discMode = "static"

Next ==
  /\ UNCHANGED component
  /\ IF component = "governor" THEN GovernorNext ELSE UNCHANGED governorVars
  /\ IF component = "slots" THEN RedisSlotsNext ELSE UNCHANGED redisSlotsVars
  /\ IF component = "memory" THEN MemoryNext ELSE UNCHANGED memoryVars
  /\ IF component = "bridge" THEN StateBridgeNext ELSE UNCHANGED sbVars
  /\ IF component = "bus" THEN BusNext ELSE UNCHANGED busVars
  /\ IF component = "discovery" THEN DiscNext ELSE UNCHANGED discVars

\* The fairness of each component, for the behaviours in which it moves.
Fairness ==
  /\ WF_governorVars(component = "governor" /\ Continue)
  /\ \A r \in Requests : WF_governorVars(component = "governor" /\ Release(r))
  /\ WF_memoryVars(component = "memory" /\ BackendAnswers)
  /\ WF_memoryVars(component = "memory" /\ \E j \in DOMAIN jobs : ModelAnswers(j))
  /\ WF_sbVars(component = "bridge" /\ HealthCheck)
  /\ WF_sbVars(component = "bridge" /\ PingSucceeds)
  /\ WF_sbVars(component = "bridge" /\ PingLost)
  /\ WF_sbVars(component = "bridge" /\ PingFails)
  /\ WF_discVars(component = "discovery" /\ DiscTick)
  /\ \A d \in DiscAgents :
       /\ WF_discVars(component = "discovery" /\ StartCheck(d))
       /\ WF_discVars(component = "discovery" /\ EndCheck(d))
       /\ WF_discVars(component = "discovery" /\ Resolve(d))

Spec == Init /\ [][Next]_allVars /\ Fairness
=============================================================================
