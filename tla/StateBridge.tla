------------------------------ MODULE StateBridge ------------------------------
(***************************************************************************)
(* gateway/state-adapters.js, GatewayStateBridge, over the                 *)
(* StateBackendFactory of state/state-backend.js: the adapters are built   *)
(* on local memory, rebuilt on Redis once it is connected, and rebuilt     *)
(* again whenever the health check finds that Redis has gone or is back.   *)
(* The gateway takes the working memory out of the bridge when it is       *)
(* constructed and keeps that object.  Of a working memory only the set of *)
(* cached conversations is kept; the other adapters are rebuilt with it.   *)
(* Redis is external: it goes down and comes back, and a ping it never     *)
(* answers fails, perhaps after it is back.                                *)
(*                                                                         *)
(* An operator named Bug... is a plausible wrong version of the definition *)
(* that follows it and is used nowhere in the specification.               *)
(***************************************************************************)
EXTENDS Naturals

CONSTANTS SbConversations,  \* conversations that may be cached
          SbMaxPings,       \* bound on the health checks under way
          SbMaxOutages      \* bound on the times Redis goes down

VARIABLES sbPhase,        \* "constructed", "connecting", "ready" or "down"
          redisUp,        \* whether Redis answers (external)
          outages,        \* times Redis went down (bounds the runs)
          client,         \* whether the factory has a Redis client
          redisHealthy,   \* StateBackendFactory._redisHealthy
          factoryMode,    \* StateBackendFactory._mode
          bridgeMode,     \* GatewayStateBridge._mode
          waiting,        \* pings that wait for their answer
          failing,        \* pings that failed and are not handled yet
          bridgeCache,    \* conversations in the bridge's working memory
          held,           \* what the gateway holds: "none", "current" (the
                          \* bridge's own object) or "old"
          heldCache       \* conversations in the one the gateway holds

factoryVars == <<client, redisHealthy, factoryMode>>
adapterVars == <<bridgeMode, bridgeCache, held, heldCache>>
sbVars == <<sbPhase, redisUp, outages, factoryVars, adapterVars, waiting,
            failing>>

StateBridgeInit ==
  /\ sbPhase = "constructed"
  /\ redisUp \in BOOLEAN /\ outages = 0
  /\ client = FALSE /\ redisHealthy = FALSE /\ factoryMode = "local"
  /\ bridgeMode = "local"
  /\ waiting = 0 /\ failing = 0
  /\ bridgeCache = {} /\ held = "none" /\ heldCache = {}

\* A new working memory gets the conversations of the old one, which is
\* destroyed: its cache is emptied, under the gateway if it holds that one.
Rebuild(mode) ==
  /\ bridgeMode' = mode
  /\ held' = IF held = "current" THEN "old" ELSE held
  /\ heldCache' = IF held = "current" THEN {} ELSE heldCache
  /\ UNCHANGED bridgeCache

Initialize ==
  /\ sbPhase = "constructed"
  /\ sbPhase' = "connecting"
  /\ UNCHANGED <<redisUp, outages, factoryVars, adapterVars, waiting,
                 failing>>

\* The connection opens and the first ping is answered.
Connected ==
  /\ sbPhase = "connecting" /\ redisUp
  /\ sbPhase' = "ready"
  /\ client' = TRUE /\ redisHealthy' = TRUE /\ factoryMode' = "redis"
  /\ Rebuild("redis")
  /\ UNCHANGED <<redisUp, outages, waiting, failing>>

\* Without a connection the bridge stays local, and no health check will
\* ever look again.
ConnectFails ==
  /\ sbPhase = "connecting" /\ ~redisUp
  /\ sbPhase' = "ready"
  /\ UNCHANGED <<redisUp, outages, factoryVars, adapterVars, waiting,
                 failing>>

\* new Gateway({ stateBridge })
ConstructGateway ==
  /\ sbPhase = "ready" /\ held = "none"
  /\ held' = "current" /\ heldCache' = bridgeCache
  /\ UNCHANGED <<sbPhase, redisUp, outages, factoryVars, bridgeMode,
                 bridgeCache, waiting, failing>>

\* workingMemory.add in the gateway
AddToHeld(c) ==
  /\ held # "none" /\ sbPhase = "ready"
  /\ c \notin heldCache
  /\ heldCache' = heldCache \cup {c}
  /\ bridgeCache' = IF held = "current" THEN bridgeCache \cup {c} ELSE bridgeCache
  /\ UNCHANGED <<sbPhase, redisUp, outages, factoryVars, bridgeMode, held,
                 waiting, failing>>

\* The interval of the health check fires, whether or not an earlier ping
\* has been answered.
HealthCheck ==
  /\ sbPhase = "ready" /\ client
  /\ waiting + failing < SbMaxPings
  /\ waiting' = waiting + 1
  /\ UNCHANGED <<sbPhase, redisUp, outages, factoryVars, adapterVars,
                 failing>>

BugSwitchTo(mode) ==
  /\ redisHealthy' = (mode = "redis")
  /\ factoryMode' = factoryMode
  /\ IF factoryMode # mode THEN Rebuild(mode) ELSE UNCHANGED adapterVars

\* The two outcomes a mode change has: the factory takes the new mode, and
\* the bridge rebuilds when the mode really changed.
SwitchTo(mode) ==
  /\ redisHealthy' = (mode = "redis")
  /\ factoryMode' = mode
  /\ IF factoryMode # mode THEN Rebuild(mode) ELSE UNCHANGED adapterVars

PingSucceeds ==
  /\ waiting > 0 /\ redisUp
  /\ waiting' = waiting - 1
  /\ IF redisHealthy THEN UNCHANGED <<factoryVars, adapterVars>>
                     ELSE SwitchTo("redis") /\ UNCHANGED client
  /\ UNCHANGED <<sbPhase, redisUp, outages, failing>>

PingLost ==
  /\ waiting > 0 /\ ~redisUp
  /\ waiting' = waiting - 1 /\ failing' = failing + 1
  /\ UNCHANGED <<sbPhase, redisUp, outages, factoryVars, adapterVars>>

PingFails ==
  /\ failing > 0
  /\ failing' = failing - 1
  /\ IF redisHealthy THEN SwitchTo("local") /\ UNCHANGED client
                     ELSE UNCHANGED <<factoryVars, adapterVars>>
  /\ UNCHANGED <<sbPhase, redisUp, outages, waiting>>

\* bridge.shutdown: the interval stops and the client is closed; a ping under
\* way still comes back.
Shutdown ==
  /\ sbPhase = "ready"
  /\ sbPhase' = "down"
  /\ client' = FALSE
  /\ bridgeCache' = {}
  /\ heldCache' = IF held = "current" THEN {} ELSE heldCache
  /\ UNCHANGED <<redisUp, outages, redisHealthy, factoryMode, bridgeMode,
                 held, waiting, failing>>

RedisGoesDown ==
  /\ redisUp /\ outages < SbMaxOutages
  /\ redisUp' = FALSE /\ outages' = outages + 1
  /\ UNCHANGED <<sbPhase, factoryVars, adapterVars, waiting, failing>>

RedisComesBack ==
  /\ ~redisUp
  /\ redisUp' = TRUE
  /\ UNCHANGED <<sbPhase, outages, factoryVars, adapterVars, waiting,
                 failing>>

StateBridgeNext ==
  \/ Initialize \/ Connected \/ ConnectFails \/ ConstructGateway
  \/ \E c \in SbConversations : AddToHeld(c)
  \/ HealthCheck \/ PingSucceeds \/ PingLost \/ PingFails
  \/ Shutdown \/ RedisGoesDown \/ RedisComesBack

-----------------------------------------------------------------------------

\* While its client lives the bridge ends on Redis when Redis stays up, and on
\* local memory when Redis stays away, whatever the order in which pings of
\* the time before come back (_checkRedisHealth, _rebuildAdapters).
BridgeFollowsRedis ==
  /\ <>[](redisUp /\ client) => <>[](bridgeMode = "redis")
  /\ <>[](~redisUp /\ client) => <>[](bridgeMode = "local")

\* A change of mode keeps the conversations the gateway has in its working
\* memory: the bridge says that it transfers the state in flight
\* (_rebuildAdapters), but the gateway holds the one it destroys.
ConversationKept == [][sbPhase' = "ready" => heldCache \subseteq heldCache']_sbVars
=============================================================================
