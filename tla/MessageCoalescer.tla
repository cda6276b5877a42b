--------------------------- MODULE MessageCoalescer ---------------------------
(***************************************************************************)
(* MessageCoalescer of src/core/coalescer.js: quick successive messages of *)
(* a user in a channel gather in a bucket, which is flushed to the gateway *)
(* as one batch when no message has come for debounceMs.                   *)
(*                                                                         *)
(* Time is counted in ticks and kept relative: a timer knows how long it   *)
(* still runs, a message how long it has waited.  Timers fire as soon as   *)
(* they are due; the order of those due at the same tick is open.          *)
(*                                                                         *)
(* An operator named Bug... is a plausible wrong version of the definition *)
(* that follows it and is used nowhere in the specification.               *)
(***************************************************************************)
EXTENDS Naturals, Sequences, FiniteSets

CONSTANTS
  Messages,          \* each is added at most once
  KeyOf,             \* the bucketKey of each message: user and channel
  Direct,            \* the messages that are DMs (dmBypass)
  DebounceMs, MaxCoalesceMs,
  MaxTotalPending

ASSUME CoalescerAssumption ==
  /\ DebounceMs \in Nat \ {0} /\ MaxCoalesceMs \in Nat
  /\ DebounceMs < MaxCoalesceMs
  /\ MaxTotalPending \in Nat \ {0}

Keys == {KeyOf[m] : m \in Messages}

VARIABLES
  buckets,           \* the keys in _buckets
  messages,          \* the messages of each bucket
  timers,            \* the timeouts that run
  totalPendingCount,
  destroying,
  delivered,         \* how often each message was given to a flushCallback
  dropped,           \* the messages add refused
  waited,            \* ticks since each message was added (history)
  flushedAll         \* flushAll was called (history)

coalescerVars == <<buckets, messages, timers, totalPendingCount, destroying,
          delivered, dropped, waited, flushedAll>>

Pending == UNION {{messages[k][i] : i \in DOMAIN messages[k]} : k \in buckets}
New(m) == m \notin Pending /\ delivered[m] = 0 /\ m \notin dropped

Timer(kind, k, left) == [kind |-> kind, key |-> k, left |-> left]
TimersOf(k) == {t \in timers : t.key = k}
Due == {t \in timers : t.left = 0}

Deliver(batch) ==
  delivered' = [m \in Messages |->
                  delivered[m] + Cardinality({i \in DOMAIN batch : batch[i] = m})]

CoalescerInit ==
  /\ buckets = {}
  /\ messages = [k \in Keys |-> <<>>]
  /\ timers = {}
  /\ totalPendingCount = 0
  /\ destroying = FALSE
  /\ delivered = [m \in Messages |-> 0]
  /\ dropped = {}
  /\ waited = [m \in Messages |-> 0]
  /\ flushedAll = FALSE

----------------------------------------------------------------------------
\* The message goes to the gateway at once, past the bucket of its key.
Bypass(m) == m \in Direct \/ totalPendingCount >= MaxTotalPending

BugRearmed(k) ==
  IF k \in buckets THEN timers
  ELSE timers \cup {Timer("maxWait", k, MaxCoalesceMs), Timer("debounce", k, DebounceMs)}
\* Every message stops both timers of its bucket and starts them anew.
Rearmed(k) ==
  (IF k \in buckets THEN timers \ TimersOf(k) ELSE timers) \cup
    {Timer("maxWait", k, MaxCoalesceMs), Timer("debounce", k, DebounceMs)}

AddDropped(m) ==
  /\ New(m) /\ destroying
  /\ dropped' = dropped \cup {m}
  /\ UNCHANGED <<buckets, messages, timers, totalPendingCount, destroying,
                 delivered, waited, flushedAll>>

AddBypassing(m) ==
  /\ New(m) /\ ~ destroying /\ Bypass(m)
  /\ Deliver(<<m>>)
  /\ UNCHANGED <<buckets, messages, timers, totalPendingCount, destroying,
                 dropped, waited, flushedAll>>

AddToBucket(m) ==
  LET k == KeyOf[m]
  IN  /\ New(m) /\ ~ destroying /\ ~ Bypass(m)
      /\ buckets' = buckets \cup {k}
      /\ messages' = [messages EXCEPT ![k] = Append(@, m)]
      /\ totalPendingCount' = totalPendingCount + 1
      /\ timers' = Rearmed(k)
      /\ UNCHANGED <<destroying, delivered, dropped, waited, flushedAll>>

Add(m) == AddDropped(m) \/ AddBypassing(m) \/ AddToBucket(m)

BugFlushBucket(t) ==
  LET k == t.key
  IN  IF k \in buckets
        THEN /\ buckets' = buckets \ {k}
             /\ messages' = [messages EXCEPT ![k] = <<>>]
             /\ totalPendingCount' = totalPendingCount - Len(messages[k])
             /\ timers' = timers \ {t}
             /\ Deliver(messages[k])
        ELSE /\ timers' = timers \ {t}
             /\ UNCHANGED <<buckets, messages, totalPendingCount, delivered>>

\* _flushBucket, called by timer t.
FlushBucket(t) ==
  LET k == t.key
  IN  IF k \in buckets
        THEN /\ buckets' = buckets \ {k}
             /\ messages' = [messages EXCEPT ![k] = <<>>]
             /\ totalPendingCount' = totalPendingCount - Len(messages[k])
             /\ timers' = timers \ (TimersOf(k) \cup {t})
             /\ Deliver(messages[k])
        ELSE /\ timers' = timers \ {t}
             /\ UNCHANGED <<buckets, messages, totalPendingCount, delivered>>

Fire ==
  /\ \E t \in Due : FlushBucket(t)
  /\ UNCHANGED <<destroying, dropped, waited, flushedAll>>

\* flushAll empties the buckets, but keeps them, and the count of messages.
FlushAll ==
  /\ timers' = timers \ UNION {TimersOf(k) : k \in buckets}
  /\ delivered' = [m \in Messages |-> IF m \in Pending THEN delivered[m] + 1 ELSE delivered[m]]
  /\ messages' = [k \in Keys |-> <<>>]
  /\ flushedAll' = TRUE
  /\ UNCHANGED <<buckets, totalPendingCount, destroying, dropped, waited>>

Destroy ==
  /\ ~ destroying
  /\ destroying' = TRUE
  /\ timers' = timers \ UNION {TimersOf(k) : k \in buckets}
  /\ delivered' = [m \in Messages |-> IF m \in Pending THEN delivered[m] + 1 ELSE delivered[m]]
  /\ messages' = [k \in Keys |-> <<>>]
  /\ buckets' = {}
  /\ totalPendingCount' = 0
  /\ UNCHANGED <<dropped, waited, flushedAll>>

\* Time passes; timers that are due fire first.
CoalescerTick ==
  /\ Due = {} /\ timers # {}
  /\ timers' = {[t EXCEPT !.left = @ - 1] : t \in timers}
  /\ waited' = [m \in Messages |-> IF m \in Pending /\ waited[m] <= MaxCoalesceMs
                                     THEN waited[m] + 1 ELSE waited[m]]
  /\ UNCHANGED <<buckets, messages, totalPendingCount, destroying,
                 delivered, dropped, flushedAll>>

CoalescerNext == (\E m \in Messages : Add(m)) \/ Fire \/ FlushAll \/ Destroy \/ CoalescerTick

\* Time passes and timers fire.
CoalescerFairness == WF_coalescerVars(CoalescerTick) /\ WF_coalescerVars(Fire)

CoalescerSpec == CoalescerInit /\ [][CoalescerNext]_coalescerVars /\ CoalescerFairness

----------------------------------------------------------------------------
(* Properties                                                               *)

CoalescerTypeOK ==
  /\ buckets \in SUBSET Keys
  /\ messages \in [Keys -> Seq(Messages)]
  /\ \A k \in Keys \ buckets : messages[k] = <<>>
  /\ \A t \in timers : /\ t.key \in Keys
                       /\ t.left \in 0 .. MaxCoalesceMs
  /\ totalPendingCount \in Nat
  /\ destroying \in BOOLEAN /\ flushedAll \in BOOLEAN
  /\ delivered \in [Messages -> Nat]
  /\ dropped \in SUBSET Messages

\* A batch is not torn apart: a timer flushes a bucket only when its user has
\* been quiet for debounceMs, or its first message has waited maxCoalesceMs;
\* in particular a timer of an earlier bucket never flushes a later one.
NotTornApart ==
  [][\A k \in buckets :
       k \notin buckets' /\ ~ destroying' =>
         LET batch == messages[k]
         IN  batch = <<>> \/ waited[batch[Len(batch)]] >= DebounceMs
                          \/ waited[batch[1]] >= MaxCoalesceMs]_coalescerVars

\* maxCoalesceMs bounds how long a message waits ("flushed automatically when
\* the maximum waiting time maxCoalesceMs is exceeded").
WaitBounded == \A m \in Pending : waited[m] <= MaxCoalesceMs

\* Every message that waits is delivered at last: each is sent once, so that a
\* bucket that never empties holds one that is not.
AllDelivered == []<>(Pending = {})

=============================================================================
