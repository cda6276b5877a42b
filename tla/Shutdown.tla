------------------------------- MODULE Shutdown -------------------------------
(***************************************************************************)
(* gracefulShutdown of app.js, which each of the two signals starts: it    *)
(* waits for the requests that hold a slot, polling and for a limited      *)
(* time, then for the sessions to be serialized, flushes the coalescer,    *)
(* closes what is open and ends the process.  The adapters go on receiving *)
(* messages all the while.  A request is a message in the coalescer or one *)
(* that holds a slot; how long requests and the awaited calls take is      *)
(* chosen.                                                                 *)
(*                                                                         *)
(* An operator named Bug... is a plausible wrong version of the definition *)
(* that follows it and is used nowhere in the specification.               *)
(***************************************************************************)
EXTENDS Integers, FiniteSets

CONSTANTS ShRequests,       \* requests
          Signals,          \* signals, each of which runs gracefulShutdown
          Grace,            \* SHUTDOWN_TIMEOUT_MS in ticks
          SerializeTimeout, \* SERIALIZE_TIMEOUT_MS in ticks
          ShHorizon         \* bound on the ticks of a behaviour

ASSUME ShutdownAssumption == {Grace, SerializeTimeout, ShHorizon} \subseteq Nat

VARIABLES shNow,     \* time in ticks
          shAt,      \* request |-> "new", "coalescing", "running", "done" or "cut"
          handler,   \* signal |-> where its handler is
          since,     \* signal |-> when its handler began what it does
          ended,     \* the process has ended
          signalled, \* when the first signal came, -1 before (history)
          affected   \* requests that held a slot then (history)

shVars == <<shNow, shAt, handler, since, ended, signalled, affected>>

Serving == {r \in ShRequests : shAt[r] = "running"}

ShutdownInit ==
  /\ shNow = 0
  /\ shAt = [r \in ShRequests |-> "new"]
  /\ handler = [s \in Signals |-> "none"]
  /\ since = [s \in Signals |-> 0]
  /\ ended = FALSE
  /\ signalled = -1 /\ affected = {}

\* A message comes, to the coalescer or, a direct one, to a slot.
Comes(r) ==
  /\ ~ended /\ shAt[r] = "new"
  /\ \E at \in {"coalescing", "running"} : shAt' = [shAt EXCEPT ![r] = at]
  /\ UNCHANGED <<shNow, handler, since, ended, signalled, affected>>

\* The coalescer's timer hands a message on; a request ends.
ShProceeds(r) ==
  /\ ~ended
  /\ \/ shAt[r] = "coalescing" /\ shAt' = [shAt EXCEPT ![r] = "running"]
     \/ shAt[r] = "running" /\ shAt' = [shAt EXCEPT ![r] = "done"]
  /\ UNCHANGED <<shNow, handler, since, ended, signalled, affected>>

HandlerGoes(s, pc) ==
  /\ handler' = [handler EXCEPT ![s] = pc]
  /\ since' = [since EXCEPT ![s] = shNow]

\* Without a request under way there is nothing to wait for.
GracefulShutdown(s) ==
  /\ ~ended /\ handler[s] = "none"
  /\ HandlerGoes(s, IF Serving # {} THEN "waiting" ELSE "serializing")
  /\ IF signalled = -1 THEN signalled' = shNow /\ affected' = Serving
     ELSE UNCHANGED <<signalled, affected>>
  /\ UNCHANGED <<shNow, shAt, ended>>

BugPoll(s) ==
  /\ ~ended /\ handler[s] = "waiting"
  /\ Cardinality(Serving) < Cardinality(affected) \/ shNow - since[s] >= Grace
  /\ HandlerGoes(s, "serializing")
  /\ UNCHANGED <<shNow, shAt, ended, signalled, affected>>

\* The poll that ends the waiting: no request holds a slot, or the time is over.
Poll(s) ==
  /\ ~ended /\ handler[s] = "waiting"
  /\ Serving = {} \/ shNow - since[s] >= Grace
  /\ HandlerGoes(s, "serializing")
  /\ UNCHANGED <<shNow, shAt, ended, signalled, affected>>

\* serializeAll has returned, failed or timed out: flushAll hands all waiting
\* messages on, and the rest is closed.
Flush(s) ==
  /\ ~ended /\ handler[s] = "serializing"
  /\ HandlerGoes(s, "closing")
  /\ shAt' = [r \in ShRequests |-> IF shAt[r] = "coalescing" THEN "running" ELSE shAt[r]]
  /\ UNCHANGED <<shNow, ended, signalled, affected>>

\* The database is closed and the process ends, with whatever still runs.
Exit(s) ==
  /\ ~ended /\ handler[s] = "closing"
  /\ ended' = TRUE
  /\ shAt' = [r \in ShRequests |->
                IF shAt[r] \in {"coalescing", "running"} THEN "cut" ELSE shAt[r]]
  /\ UNCHANGED <<shNow, handler, since, signalled, affected>>

\* The serialization is not awaited longer than its time.
ShutdownTick ==
  /\ ~ended /\ shNow < ShHorizon
  /\ \A s \in Signals : handler[s] = "serializing" => shNow - since[s] < SerializeTimeout
  /\ shNow' = shNow + 1
  /\ UNCHANGED <<shAt, handler, since, ended, signalled, affected>>

ShutdownNext ==
  \/ \E r \in ShRequests : Comes(r) \/ ShProceeds(r)
  \/ \E s \in Signals : GracefulShutdown(s) \/ Poll(s) \/ Flush(s) \/ Exit(s)
  \/ ShutdownTick

ShutdownSpec == ShutdownInit /\ [][ShutdownNext]_shVars

-----------------------------------------------------------------------------
ShutdownTypeOK ==
  /\ shNow \in 0 .. ShHorizon /\ ended \in BOOLEAN
  /\ shAt \in [ShRequests -> {"new", "coalescing", "running", "done", "cut"}]
  /\ handler \in [Signals -> {"none", "waiting", "serializing", "closing"}]
  /\ since \in [Signals -> 0 .. ShHorizon]
  /\ signalled \in -1 .. ShHorizon
  /\ affected \subseteq ShRequests

\* A request that held a slot when the first signal came has the whole time of
\* grace: new requests that come meanwhile and a second signal, whose handler
\* runs beside the first, do not shorten it (gracefulShutdown of app.js).
CutOnlyLate ==
  \A r \in affected : shAt[r] = "cut" => shNow - signalled >= Grace
=============================================================================
