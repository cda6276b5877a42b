------------------------- MODULE GatewayWorkingMemory -------------------------
(***************************************************************************)
(* The working memory of src/src/gateway/state-adapters.js: add, get and   *)
(* clear are synchronous on a process-local cache, and every write is also *)
(* sent to an asynchronous backend (src/src/state/redis-working-memory.js  *)
(* or LocalWorkingMemory) whose answers come back later, in call order.    *)
(* replace waits for the backend before it swaps the cache; reconcile      *)
(* rewrites the keys whose append failed; a summary or a compaction reads  *)
(* the cache, awaits a model, and then calls replace.                      *)
(*                                                                         *)
(* A message is its arrival number and a digest of older ones is Summary.  *)
(* What an awaiting operation holds of the cache is a view: JavaScript     *)
(* objects are shared, so it follows the bucket or the array until the     *)
(* code lets go of that object.  The cache's timer (30 minutes) and the    *)
(* backend's (session.idleTimeoutMs) differ, so either may expire first,   *)
(* but not while something of the key is in flight.                        *)
(*                                                                         *)
(* Names starting with Bug are faulty variants of the definition after     *)
(* them; no specification uses them.                                       *)
(***************************************************************************)
EXTENDS Integers, Sequences, FiniteSets

CONSTANTS
    Conversations,      \* conversation keys
    MaxEntries,         \* messages kept of a conversation
    SummarizeThreshold, \* length beyond which a summary is due
    KeepRecent,         \* messages a digest leaves as they are
    MinSummarized,      \* fewest messages worth a summary (5 in the code)
    MaxMessages,        \* bound: messages that arrive
    MaxDigests,         \* bound: calls of the model
    MaxClears,          \* bound: calls of clear
    MaxFaults,          \* bound: backend calls that fail
    MaxRestarts,        \* bound: crashes of the process
    MaxExpiries         \* bound: keys that expire in one of the copies

ASSUME MemoryAssumption ==
    /\ {MaxEntries, SummarizeThreshold, KeepRecent, MinSummarized} \subseteq Nat \ {0}
    /\ {MaxMessages, MaxDigests, MaxClears, MaxFaults, MaxRestarts, MaxExpiries} \subseteq Nat
    /\ KeepRecent < MaxEntries

VARIABLES
    cache,      \* _cache: the bucket of each key
    store,      \* what the backend holds
    dirty,      \* _dirtyKeys
    wire,       \* backend calls in flight, in order
    jobs,       \* awaiting replaces, reconciles and digests, by number
    arrived, digests, clears, faults, restarts, expiries, \* how many so far
    clean       \* history: keys no fault, restart, expiry or overlap has touched

memoryVars == <<cache, store, dirty, wire, jobs, arrived, digests, clears, faults,
                restarts, expiries, clean>>

Summary == 0
Messages == 1..MaxMessages
Entries == Seq({Summary} \cup Messages)
NoBucket == [present |-> FALSE, entries |-> <<>>, needsSummary |-> FALSE]

LastOf(n, s) == SubSeq(s, IF Len(s) > n THEN Len(s) - n + 1 ELSE 1, Len(s))

MemoryInit ==
    /\ cache = [k \in Conversations |-> NoBucket]
    /\ store = [k \in Conversations |-> <<>>]
    /\ dirty = {} /\ wire = <<>> /\ jobs = <<>>
    /\ arrived = 0 /\ digests = 0 /\ clears = 0 /\ faults = 0 /\ restarts = 0 /\ expiries = 0
    /\ clean = Conversations

----------------------------------------------------------------------------
\* The backend: an append keeps the last MaxEntries, a clear deletes the key.

Applied(s, w) == IF w.op = "clear" THEN <<>> ELSE LastOf(MaxEntries, Append(s, w.entry))

ClearCall(k, by, j) == [op |-> "clear", key |-> k, entry |-> Summary, by |-> by, job |-> j]
AppendCall(k, e, by, j) == [op |-> "append", key |-> k, entry |-> e, by |-> by, job |-> j]

\* The head of the wire is answered: done, or failed with or without effect.
CallAnswered(by, ok) ==
    /\ wire # <<>> /\ Head(wire).by = by
    /\ LET w == Head(wire)
           done == [store EXCEPT ![w.key] = Applied(@, w)]
       IN IF ok
             THEN store' = done /\ UNCHANGED <<faults, clean>>
             ELSE /\ faults < MaxFaults /\ faults' = faults + 1
                  /\ store' \in {store, done}
                  /\ clean' = clean \ {w.key}
    /\ UNCHANGED <<arrived, digests, clears, restarts, expiries>>

----------------------------------------------------------------------------
\* Operations that await: their numbers, and what they see of the cache.

FreeJob == CHOOSE n \in 1..Cardinality(DOMAIN jobs) + 1 : n \notin DOMAIN jobs
With(js, j, job) == [i \in DOMAIN js \cup {j} |-> IF i = j THEN job ELSE js[i]]
Without(js, j) == [i \in DOMAIN js \ {j} |-> js[i]]

\* Calls in flight outlive the operation that made them.
Orphaned(ws, j) == [i \in DOMAIN ws |-> IF ws[i].job = j THEN [ws[i] EXCEPT !.by = "none", !.job = 0]
                                                         ELSE ws[i]]
View(live, entries) == [live |-> live, entries |-> entries]

\* The views of k after its bucket, or the array in it, has changed.
Viewing(js, k, ofBucket, ofArray) ==
    [j \in DOMAIN js |->
        IF js[j].key # k THEN js[j]
        ELSE [js[j] EXCEPT !.view = IF @.live = "bucket" THEN ofBucket
                                    ELSE IF @.live = "array" THEN ofArray ELSE @]]

Busy(k, kind) == \E j \in DOMAIN jobs : jobs[j].kind = kind /\ jobs[j].key = k
Touched(k) == clean' = IF Busy(k, "replace") THEN clean \ {k} ELSE clean

----------------------------------------------------------------------------
\* The synchronous operations.

KeptEntries(entries) == LastOf(MaxEntries, entries)

\* add: push, flag a summary, trim into a new array, send the append.
Add(k) ==
    LET e == arrived + 1
        pushed == Append(cache[k].entries, e)
        kept == KeptEntries(pushed)
    IN
    /\ arrived < MaxMessages
    /\ arrived' = e
    /\ cache' = [cache EXCEPT ![k] =
          [present |-> TRUE, entries |-> kept,
           needsSummary |-> @.needsSummary \/ Len(pushed) > SummarizeThreshold]]
    /\ jobs' = Viewing(jobs, k, View("bucket", kept),
                       View(IF kept = pushed THEN "array" ELSE "none", pushed))
    /\ wire' = Append(wire, AppendCall(k, e, "add", 0))
    /\ Touched(k)
    /\ UNCHANGED <<store, dirty, digests, clears, faults, restarts, expiries>>

Detached(k) == LET v == View("none", cache[k].entries) IN Viewing(jobs, k, v, v)

\* clear, which the gateway calls for a conversation it has indexed.
Clear(k) ==
    /\ cache[k].entries # <<>>
    /\ clears < MaxClears /\ clears' = clears + 1
    /\ cache' = [cache EXCEPT ![k] = NoBucket]
    /\ jobs' = Detached(k)
    /\ wire' = Append(wire, ClearCall(k, "clear", 0))
    /\ Touched(k)
    /\ UNCHANGED <<store, dirty, arrived, digests, faults, restarts, expiries>>

Quiet(k) ==
    /\ expiries < MaxExpiries /\ expiries' = expiries + 1
    /\ \A i \in DOMAIN wire : wire[i].key # k
    /\ \A j \in DOMAIN jobs : jobs[j].key # k

\* The timer of the bucket fires.
Expire(k) ==
    /\ Quiet(k)
    /\ cache[k].present
    /\ cache' = [cache EXCEPT ![k] = NoBucket]
    /\ clean' = IF store[k] = <<>> THEN clean ELSE clean \ {k}
    /\ UNCHANGED <<store, dirty, wire, jobs, arrived, digests, clears, faults, restarts>>

\* The key expires in the backend.
BackendExpires(k) ==
    /\ Quiet(k)
    /\ store[k] # <<>>
    /\ store' = [store EXCEPT ![k] = <<>>]
    /\ clean' = IF cache[k].entries = <<>> THEN clean ELSE clean \ {k}
    /\ UNCHANGED <<cache, dirty, wire, jobs, arrived, digests, clears, faults, restarts>>

----------------------------------------------------------------------------
\* replace: clear the backend, append all, then swap the cache.

\* replace is called, by operation j, which it succeeds.
CallReplace(k, entries, j) ==
    /\ jobs' = With(jobs, j, [kind |-> "replace", key |-> k, view |-> View("none", entries),
                              left |-> {}, at |-> 0])
    /\ wire' = Append(wire, ClearCall(k, "replace", j))
    /\ Touched(k)

\* The swap, whether the backend confirmed or failed; pending is what is in flight.
Swap(j, pending) ==
    LET k == jobs[j].key
        entries == jobs[j].view.entries
    IN /\ cache' = [cache EXCEPT ![k] = [@ EXCEPT !.present = TRUE, !.entries = entries]]
       /\ jobs' = Without(Viewing(jobs, k, View("bucket", entries),
                                  View("none", cache[k].entries)), j)
       /\ wire' = Orphaned(pending, j)

BugAllAppended(job, answered) == FALSE
AllAppended(job, answered) == answered = Len(job.view.entries)

ReplaceAnswered ==
    \E ok \in BOOLEAN :
    /\ CallAnswered("replace", ok)
    /\ LET w == Head(wire)
           job == jobs[w.job]
           calls == [i \in 1..Len(job.view.entries) |->
                        AppendCall(w.key, job.view.entries[i], "replace", w.job)]
           answered == job.at + (IF w.op = "append" THEN 1 ELSE 0)
       IN IF ~ok \/ AllAppended(job, answered)
             THEN Swap(w.job, Tail(wire))
             ELSE /\ wire' = Tail(wire) \o (IF w.op = "clear" THEN calls ELSE <<>>)
                  /\ jobs' = [jobs EXCEPT ![w.job].at = answered]
                  /\ UNCHANGED cache
    /\ UNCHANGED dirty

----------------------------------------------------------------------------
\* reconcile: for each dirty key, clear the backend and append the cache.

\* Operation j turns to its next key among left; keys without a bucket are
\* dropped from the dirty ones.  sent are the calls in flight.
NextKey(j, left, dirtyLeft, sent) ==
    \E gone \in SUBSET {k \in left : ~cache[k].present} :
    /\ dirty' = dirtyLeft \ gone
    /\ \/ /\ left = gone
          /\ jobs' = Without(jobs, j)
          /\ wire' = sent
       \/ \E k \in left \ gone :
          /\ cache[k].present
          /\ jobs' = With(jobs, j, [kind |-> "reconcile", key |-> k,
                                    view |-> View("bucket", cache[k].entries),
                                    left |-> left \ (gone \cup {k}), at |-> 0])
          /\ wire' = Append(sent, ClearCall(k, "reconcile", j))

\* The answer to an add: a failure marks the key, a success reconciles the rest.
BugMarked(k) == dirty
Marked(k) == dirty \cup {k}

AddAnswered ==
    \E ok \in BOOLEAN :
    /\ CallAnswered("add", ok)
    /\ IF ok /\ dirty # {}
          THEN NextKey(FreeJob, dirty, dirty, Tail(wire))
          ELSE /\ dirty' = IF ok THEN dirty ELSE Marked(Head(wire).key)
               /\ wire' = Tail(wire)
               /\ UNCHANGED jobs
    /\ UNCHANGED cache

\* The loop reads the array it iterates, which grows while the loop awaits.
ReconcileAnswered ==
    \E ok \in BOOLEAN :
    /\ CallAnswered("reconcile", ok)
    /\ LET w == Head(wire)
           job == jobs[w.job]
           next == IF w.op = "clear" THEN 1 ELSE job.at + 1
       IN IF ok /\ next <= Len(job.view.entries)
             THEN /\ jobs' = [jobs EXCEPT ![w.job].at = next,
                        ![w.job].view.live = IF @ = "bucket" THEN "array" ELSE @]
                  /\ wire' = Append(Tail(wire),
                        AppendCall(w.key, job.view.entries[next], "reconcile", w.job))
                  /\ UNCHANGED dirty
             ELSE NextKey(w.job, job.left, IF ok THEN dirty \ {w.key} ELSE dirty, Tail(wire))
    /\ UNCHANGED cache

\* The answer to a clear(), or to a call whose operation has ended: only logged.
OtherAnswered ==
    \E ok \in BOOLEAN, by \in {"clear", "none"} :
    /\ CallAnswered(by, ok)
    /\ wire' = Tail(wire)
    /\ UNCHANGED <<cache, dirty, jobs>>

----------------------------------------------------------------------------
\* Digests: maybeSummarize holds the array, compaction a copy of it.

Digesting(k, live) ==
    /\ digests < MaxDigests /\ digests' = digests + 1
    /\ jobs' = With(jobs, FreeJob, [kind |-> "digest", key |-> k, left |-> {}, at |-> 0,
                                    view |-> View(live, cache[k].entries)])
    /\ UNCHANGED <<store, dirty, wire, arrived, clears, faults, restarts, expiries,
                   clean>>

MaybeSummarize(k) ==
    /\ cache[k].needsSummary
    /\ cache' = [cache EXCEPT ![k].needsSummary = FALSE]
    /\ IF Len(cache[k].entries) - KeepRecent < MinSummarized
          THEN UNCHANGED <<store, dirty, wire, jobs, arrived, digests, clears,
                           faults, restarts, expiries, clean>>
          ELSE Digesting(k, "array")

Compact(k) ==
    /\ Len(cache[k].entries) > KeepRecent
    /\ Digesting(k, "none")
    /\ UNCHANGED cache

\* The model answers: the digest and the recent part of the view replace all.
DigestAnswered(j) ==
    /\ jobs[j].kind = "digest"
    /\ CallReplace(jobs[j].key, <<Summary>> \o LastOf(KeepRecent, jobs[j].view.entries), j)
    /\ UNCHANGED <<cache, store, dirty, arrived, digests, clears, faults, restarts,
                   expiries>>

\* The model fails, the queue is full or the digest is empty.
DigestDropped(j) ==
    /\ jobs[j].kind = "digest"
    /\ jobs' = Without(jobs, j)
    /\ UNCHANGED <<cache, store, dirty, wire, arrived, digests, clears, faults,
                   restarts, expiries, clean>>

\* The process dies and a new one starts with an empty cache.
Restart ==
    /\ restarts < MaxRestarts /\ restarts' = restarts + 1
    /\ cache' = [k \in Conversations |-> NoBucket]
    /\ dirty' = {} /\ wire' = <<>> /\ jobs' = <<>>
    /\ clean' = {k \in clean : store[k] = <<>>}
    /\ UNCHANGED <<store, arrived, digests, clears, faults, expiries>>

BackendAnswers == AddAnswered \/ ReplaceAnswered \/ ReconcileAnswered \/ OtherAnswered
ModelAnswers(j) == DigestAnswered(j) \/ DigestDropped(j)

MemoryNext ==
    \/ \E k \in Conversations : \/ Add(k) \/ Clear(k) \/ Expire(k) \/ BackendExpires(k)
                      \/ MaybeSummarize(k) \/ Compact(k)
    \/ \E j \in DOMAIN jobs : ModelAnswers(j)
    \/ BackendAnswers
    \/ Restart

\* A connection answers or fails every call, and so does the model.
MemoryFairness ==
    /\ WF_memoryVars(BackendAnswers)
    /\ WF_memoryVars(\E j \in DOMAIN jobs : ModelAnswers(j))

MemorySpec == MemoryInit /\ [][MemoryNext]_memoryVars /\ MemoryFairness

----------------------------------------------------------------------------
MemorySettled == wire = <<>> /\ jobs = <<>>
Held(s) == {s[i] : i \in DOMAIN s}

\* A conversation is told in order: whatever overlapping replaces, trims and
\* clears have done, the cache holds at most one digest, in front, and then
\* messages in the order they arrived, none of them twice, and neither copy
\* outgrows maxEntries.
CacheInOrder ==
    \A k \in Conversations : LET s == cache[k].entries IN
        /\ \A i, j \in DOMAIN s : i < j => s[i] < s[j]
        /\ Len(s) <= MaxEntries /\ Len(store[k]) <= MaxEntries

\* What the backend will hold of k once the calls ws are answered, if it holds s.
Outcome(s, ws, k) ==
    LET held[n \in 0..Len(ws)] ==
            IF n = 0 THEN s
            ELSE IF ws[n].key = k THEN Applied(held[n - 1], ws[n]) ELSE held[n - 1]
    IN held[Len(ws)]

\* Write-through: for a key that no failure, no restart, no expiry of one copy
\* and no write during a replace has touched, the backend will hold exactly
\* what the cache holds once the calls in flight are answered.
CleanKeysMirror ==
    \A k \in clean : Busy(k, "replace") \/ Outcome(store[k], wire, k) = cache[k].entries

\* CE-2: when one append has failed and no clear, digest, restart or expiry
\* interferes, a key that is no longer dirty has every message of its cache in
\* the backend again, however many reconciles overlap, unless repeated entries
\* have pushed it to its cap.  Two failures are too many: of two reconciles of a
\* key the one may take it off the dirty ones after the other has cleared it, and
\* then the other fails.
NothingMissing ==
    MemorySettled /\ faults <= 1 /\ digests = 0 /\ clears = 0 /\ restarts = 0 /\ expiries = 0 =>
        \A k \in Conversations \ dirty :
            Len(store[k]) = MaxEntries \/ Held(cache[k].entries) \subseteq Held(store[k])

\* The two copies of a conversation: the cache is told in order, and the backend
\* is its mirror, at once where nothing failed and again where it did.
CopiesAgree == CacheInOrder /\ CleanKeysMirror /\ NothingMissing

\* Every write and every operation that awaits comes to an end.
Settles == <>[]MemorySettled

=============================================================================
