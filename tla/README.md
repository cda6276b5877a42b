# Verification of effy

effy is a gateway between chat platforms (Slack, Teams) and LLM agents. A message
comes in through a channel adapter, may be gathered with others into a batch,
passes a row of guards (rate limit, circuit breaker, concurrency slot), joins the
working memory of its conversation, is handed to an agent's LLM loop, is answered,
and is stored in an episodic history. One Node.js process does all of this on one
event loop; Redis and PostgreSQL may stand behind it.

This directory holds TLA+ models of the parts of effy whose correctness depends on
the order of events, the configurations that model-check them, and proofs about
them. Paths below are relative to `src/` of effy unless they name a module here.

Contents

1. The system
2. The modules and the code they model
3. The runs
4. What is proved
5. What the code does that its documentation does not say
6. What is not modelled, and why

## 1. The system

### 1.1 Components, their state, and what makes them correct

The message path:

| Component | Source | State | Correct when |
|---|---|---|---|
| In-process concurrency governor | `core/pool.js` | three counters (global, per user, per channel), wait queue of entries with timers | limits hold, no slot is lost or counted twice, nobody waits while there is room, a conversation is served in order |
| Gateway concurrency governor | `gateway/state-adapters.js`, `state/state-backend.js` | `_activeLocks` per conversation, `_queue`, the slots the backend counts | limits hold across answers that come late, one request per conversation, no slot leaks, no waiter is lost |
| Redis concurrency keys | `state/redis-concurrency.js` | counters and locks with expiry, shared by gateways of which any may crash | no scope has more locks than its limit, a slot that is given back is free, what a crash left behind goes away |
| Gateway working memory | `gateway/state-adapters.js`, `memory/manager.js`, `state/redis-working-memory.js` | cache of buckets, dirty keys, the backend's copy | both copies agree when nothing has gone wrong, and again after it has |
| State bridge | `gateway/state-adapters.js`, `state/state-backend.js` | mode, health checks under way, the adapters and the object the gateway holds | it ends on Redis when Redis stays, on local memory when it does not |
| Message coalescer | `core/coalescer.js` | buckets with two timers, count of pending messages | every message is delivered once, in whole batches |
| Rate limiter | `core/middleware.js` | a window of timestamps per user | nobody is turned away without cause |
| Agent circuit breaker | `core/circuit-breaker.js` | consecutive errors and `disabledUntil` per agent | disabled for the whole cooldown, after the errors that deserve it, and enabled again |
| Sessions and recovery | `core/pool.js`, `core/session-recovery.js` | sessions with an idle timer, indexing in progress | a session in use keeps its conversation; after a restart it goes on |
| Gateway pipeline | `gateway/gateway.js` (V1), `gateway/gateway-pipeline.js`, `gateway/gateway-steps.js` (V2) | the request's context: slot, session, replies | one reply, the slot comes back on every way out, everything said is stored in order |
| Branches | `core/branch-manager.js` | runs of one request, timers, abort flags | the request is answered however many branches fail |
| Model client and runtime | `shared/llm-client.js`, `agents/runtime.js` | error streak, fallback switch, iterations | the switch is earned and taken back |
| Summarization queue | `shared/summarization-queue.js` | active calls, pending tasks, limit | a task that waits is started by the end of one that runs, no task is forgotten |
| Application | `app.js` | wiring, shutdown | whoever is being answered gets the grace he was promised |

Around it:

| Component | Source | State | Correct when |
|---|---|---|---|
| Agent mailbox | `agents/mailbox.js` | queues with bounds, rows in PostgreSQL, retries | a message to be persisted is not forgotten, nor restored for ever |
| Agent bus | `agents/agent-bus.js` | count, loads, answers kept | the count is that of the asks under way |
| A2A tasks | `a2a/task-manager.js` | life of a task, store with eviction | what a client reads of a task fits together |
| Message bus | `distributed/message-bus.js` | requests waiting, identifiers handled | a response is heard whenever it comes, a repeated delivery is recognised |
| Discovery | `distributed/discovery.js` | breaker per agent, checks under way | an agent comes back when it has earned it, and then for certain |
| Background compaction | `memory/background-compaction.js` | queue, active sessions, count of processors | one compaction of a session at a time |
| Long-term memory | `memory/manager.js`, `memory/graph.js`, `memory/indexer.js`, `reflection/distiller.js`, `memory/user-profile.js`, `memory/bulletin.js` | two tables with limits, two caches for the prompts | the caches show what is stored, the tables stay within bounds |
| Observer | `observer/*.js` | insights, budget of the day, channels, buffers, change requests | suggestions stay within the budget, no batch mixes what came before and after a channel was off |
| Onboarding | `organization/onboarding.js`, `gateway/gateway.js` | dialogues, questions held back | the question that began a dialogue is answered after it |
| Skills | `skills/registry.js` | installed, created and active skills, disk | the agents get what was agreed |
| Committee | `reflection/committee.js` | proposals, votes, members | a verdict rests on every vote that was accepted |
| Logins | `auth/ms-oauth.js`, `auth/portal-auth.js`, `auth/routes.js` | tokens in the user's entity | a login is kept |
| MCP client | `mcp/client.js`, `mcp/transport.js`, `mcp/registry.js` | connections, numbered requests, tools | a call gets its own answer from the server it was meant for |

`PROJECT.json` lists every component with its files, also those left out.

### 1.2 How they interact

* `app.js` constructs one `GatewayStateBridge` and hands it to the `Gateway`, whose
  constructor takes the governor and the working memory out of it. So in production
  the slots are those of the *gateway* governor over a local backend, or a Redis one if
  the bridge has a Redis when the gateway is built; the in-process governor is what
  the gateway makes for itself when there is no bridge.
* The adapter calls the coalescer, the coalescer's callback calls
  `Gateway.onMessage`; `EFFY_GATEWAY_V2=true` chooses the pipeline in steps, otherwise
  the one function (V1) handles the message.
* A handler asks the rate limiter and the breaker, awaits a slot, touches the session,
  adds to the working memory, awaits saves, context, the agent and the reply, and
  releases the slot. Handlers of the same conversation interleave at each of these
  awaits.
* The session's idle timer calls back into the gateway, which indexes the
  conversation and then clears the working memory.
* `maybeSummarize` goes through the one summarization queue of the process and ends in
  `replace`; the engine of the agent calls `replace` as well, after a compaction.
* All runs of all agents share one model client, so that the errors of one decide which
  provider the others get. A run writes long-term memory through a tool while the indexing
  of idle sessions and the nightly distillation write the same tables, and every prompt is
  built from caches that each of them has to invalidate.
* The user's entity is one row in which the login, the refreshed tokens and the profile
  update after each message all write, each by reading, merging and writing back.
* Everything of the state bridge answers asynchronously with Redis. With the local
  backends the promises are settled already, and their continuations run before the next
  timer or message.

### 1.3 What is hard

Interleaving at awaits (state read before, used after), timers that fire while the
thing they guard is under way, answers of a backend that come after the caller has
given up, fire-and-forget writes that fail, drains that wake one waiter at a time,
limits changed while they are in use, crashes between two writes, caches invalidated
while they are being filled. `PROJECT.json` lists the hazards at their lines; each names
the property that would notice it, or says why none does.

## 2. The modules and the code they model

Conventions. One module models one component; an `MC…` module gives its constants
values for TLC, or sets several components side by side. An action is one synchronous
stretch of the code, from one await (or the start of a handler) to the next: nothing
else can run in between on the event loop. What is awaited appears as state: an answer
under way, a stage of a handler, a job. Names, texts and channels are model values; what
a model, a user or an external service decides is chosen. Operators named `Bug…` stand
before a definition and are plausible wrong versions of it; no specification uses them,
they serve to see that a property would notice the mistake. Where a module filters a
sequence, it uses `Only` of `SeqFilters`, of which the proofs have laws. Variables marked *history* in
a declaration record what happened and influence nothing.

### SlotPool, ConcurrencyGovernor

`SlotPool` is what any governor promises: it knows only what each request was told
(`caller`), never lets the holders exceed the three limits, and leaves nobody waiting
whom there is room for. `ConcurrencyGovernor` is `core/pool.js`: `GrantAtOnce`,
`TurnAway` and `Wait` are `waitForSlot` with its fast path and its bound on the queue; `Release` is
`release` with `_drainQueue`. The queue is kept as a set with the order of arrival, and the
loop as the one set of entries it admits: an entry is in it exactly if it is not done and
fits beside the holders and those admitted ahead of it. `Timeout` is the timer of an
entry, which marks it and leaves it in the array.
A request of a DM has no channel and no channel limit. The refinement maps `caller` to
itself: `PoolSpec` in the run, `ImplementsSlotPool` as a theorem.

### GatewayGovernor

The governor of `gateway/state-adapters.js`. The backend executes an operation when it
is called, and its answer joins `answers`, a queue of continuations. With `kind =
"local"` nothing else happens while an answer is under way, since settled promises are
microtasks; with `"redis"` timers, releases and new requests come in between, and
operations may fail. A Redis backend may refuse a slot that is free by the governor's own
count, since what it counts may be too high. `_queue` is a reference to an array object; a drain iterates one
array and replaces the reference when it ends, so `arrays` has one entry per array ever
made and `queue` says which one `_queue` is. `SlotReturned` is the path of comment CE-8.
The counters in the backend are those of its granted request ids.

### LimitedLeases, RedisSlots

`LimitedLeases` is what the slots in Redis promise: a lease is granted only while none of
its scopes (user, channel, everybody) is full, and ends by a release or by expiry.
`RedisSlots` is the two Lua scripts, one action each, over counters and locks that carry
the time they have left; gateways crash and never release, and release late what has
expired already. The two scripts do not touch the same counters: the client is made with a
`keyPrefix` (`state/state-backend.js:271`), which the configuration sets to `effy:` if it is
empty (`config.js:124`, `:133`) and which ioredis puts before the KEYS of a script only.
`ACQUIRE_LUA` takes all counters from its KEYS; `RELEASE_LUA` builds those of the user and
of the channel from ARGV. So a release reaches the lock and the global counter (`RsGlobal`),
and counts the others down under names that nothing reads, which are left out. A counter
that a script SETs to 0 has no expiry any more, which the model keeps apart. The refinement maps the locks that live to leases and forgets the
counters.

### GatewayWorkingMemory

The cache, the backend and the calls in flight (`wire`, answered in call order).
Operations that await are `jobs`: a `replace` between its calls and the swap, a
`reconcile` between its calls for each key, a digest between its reading of the cache
and its `replace`. What a job has read is a *view*: an alias of the bucket or the array
that follows later pushes until the code replaces that object, as JavaScript references
do. A failed call may or may not have had its effect. Messages are numbers in order of
arrival and a digest is 0, so that order and loss can be seen. TTLs are `Expire` and
`BackendExpires`, at any time nothing of the key is in flight.

### StateBridge

The life of `GatewayStateBridge` over its factory: adapters on local memory, their rebuild
on Redis after the connect, the health check whose pings may be answered late or never,
both fail-overs, and `destroy`. The gateway's reference to the first working memory is a
variable of its own, because the bridge does not change it.

### GatewayPipeline

One request is a `stage` of the handler between two awaits; `version` says which of the
two pipelines the process runs, and differs in where the question is saved, in whether
saves are awaited (`saving`), and in the order of apology and release after an error.
Requests of one conversation share `slots`, `memory`, the session with its idle timer
(`Idle`, then `Indexed` when `indexSession` has been awaited), and `history`, the
episodic rows, unique by content. The slots are as in `SlotPool`: a slot that comes back
goes to a waiting request. `Fault` lets a reply, a save, the context or the agent throw.
Routing, budgets and the agent's loop are free choices of outcomes.

### Small parts of the message path

* `MessageCoalescer`: buckets, both timers with the ticks they have left, the pending
  count, and the flushes of the shutdown. Timers due at the same tick fire in any order;
  time passes only when none is due.
* `RateLimiter`: the window of a user as ages in ticks, with both cuts of the array, and a
  log of the last minute as history.
* `CircuitBreaker`: per agent the entry of `_agents`, with times relative to now; requests
  are between `isDisabled` and their report, so that late reports reach a disabled agent.
* `SummarizationQueue`: `enqueue` (drop, execute, or wait), the end of a call with `_drain`
  of one task, and `setMaxConcurrent`, by whatever amount it raises or lowers the limit.
* `Branches`: the strategy `first_done`, the abort that stops only the waiting, and the
  caller in the pipeline that runs the request once more when every branch has failed.
* `LlmClient`: runs of several agents over one client. `CreateMessage` chooses the provider
  and takes the switch back after the cooldown; `PrimaryErrs` and `PrimaryAnswers` count;
  the loop of the runtime retries and iterates around them.
* `Shutdown`: both signal handlers, which may run beside each other, poll, serialize,
  flush and exit while the adapters go on receiving.

### Parts around it

* `Mailbox`: the queues in memory as one line by arrival, rows, writes under way with
  their retries, confirmation, restart and restore. How often the timer wrote a message
  again is a history variable (`mbRetried`), since the code forgets its own count.
* `A2ATasks`: tasks are shared objects; a cancelation and the agent's run write to them in
  turn, also when the store has evicted them.
* `AgentBus`: `ask` with its guards, its record, its timer, the cache of answers and an
  agent that ends late.
* `MessageBus`: the local and the Redis bus; deliveries may be lost or come twice, handlers
  take their time, identifiers are forgotten by age and by number. A request over Redis
  makes its entry and its timer (`CallOverRedis`) and awaits `publish`, which reaches Redis
  (`Publish`) and returns or fails, before or after Redis had the message; the promise of
  the entry may be settled by a response, the timer or `close` at any time in between
  (`busPromise`), and when `publish` fails the caller is gone and the entry stays.
* `Discovery`: the breaker of an agent with several checks under way, for the static and
  the Kubernetes discovery.
* `Compaction`: jobs queued by session, and processors that overrun their limit as the
  code lets them.
* `Knowledge`: the writers of the two tables as jobs from query to query (duplicate gate,
  insert, count and archive beyond the limit, invalidate), and the readers that build a
  view query by query and cache it.
* `Insights`: overlapping calls of `process`, each with its snapshot; the budget of the
  day and the cooldown of a channel; a post that returns after midnight.
* `ChangeControl`: change requests and their approval, refusal and expiry, the channels
  and buffers of the listener, what an observed message and the analysis of a batch leave
  behind (`remembered` for the rows of the episodic memory, `topics`, `insightful`), and
  dismissals.
* `Onboarding`: dialogues as objects that outlive their place in the map, the messages
  that wait for a reply while they hold one.
* `Skills`: downloads under way, skills created in a conversation and kept on disk,
  activation, deletion and the next start.
* `Committee`: agents asked at once, people asked one after another, votes by buttons at
  any time, the periodic check, members who leave and come back.
* `UserAuth`: login links, the callback, refreshes, the external agent's retry, and the
  profile update: each an `upsert` in two steps on one row.
* `McpClient`: requests under their numbers with timers, both transports, the registry of
  tools, connections that end or break, shutdown.

## 3. The runs

Components that share no state stand side by side in one run: each behaviour moves one of
them, chosen at the start (`component`), while the others stay as they began, so that the
state space is the sum of theirs and not the product. Fairness is stated for a component
in the behaviours that move it.

| Run | Asks | Bounds |
|---|---|---|
| `pipeline` | slots, replies and the end of every handler in V1 and V2 | 2 requests of one conversation for one slot, one fault of any kind anywhere, one restart |
| `shared_state` | `GatewayGovernor`, `RedisSlots`, `GatewayWorkingMemory`, `StateBridge`, `MessageBus`, `Discovery` | governor: 4 requests, limits 2, one failing operation, so that two drains overlap and a timer meets each of their awaits; slots: 3 requests, two of one user, limits 2 for everybody and that user and 1 for the other, any crash, locks of 3 ticks; memory: 2 keys, 2 entries kept, one each of digest, clear, fault, restart and expiry, each of which meets each call in flight; bridge: 2 pings under way, 2 outages; bus: a process calls one of the two handlers of another and broadcasts to both, identifiers remembered one at a time; discovery: 2 checks under way, an agent that goes down twice |
| `in_process` | `ConcurrencyGovernor` (also that it implements `SlotPool`), `CircuitBreaker`, `SummarizationQueue`, `MessageCoalescer`, `Branches`, `Committee`, `McpClient` | governor: 5 requests of 2 users in a channel and in none, limits 3/2/2, 2 waiters: every limit is the binding one somewhere, and a release admits two; breaker: 2 agents, 3 requests, the code's threshold and weights; queue: 5 tasks, a limit set to anything from 0 to 3; coalescer: 5 messages of 3 keys, cap 3; branches: 2 requests with 2 branches; committee: an agent, a member and one who joins, 2 proposals; tools: 2 servers with a tool in common, 2 calls, a request of each server's own |
| `records` | `GatewayPipeline`, `RateLimiter`, `Mailbox`, `A2ATasks`, `Compaction`, `LlmClient`, `Insights`, `ChangeControl`, `UserAuth`, `Onboarding`, `Skills`, `Shutdown`, `AgentBus`, `Knowledge` | in the header of `MCRecords`; each is one more than the limit it meets: one message more than a queue holds, one job more than may run, one error more than the trigger, two calls that overlap |
| `gateway_governor_leak` | CE-8's "prevent slot leak" with Redis: refuted | as in `shared_state`, no failure |
| `coalescer_wait` | the maximal wait: refuted | as in `in_process` |
| `pipeline_restart` | recovery by the first message: refuted | 1 slot, no fault, one restart |
| `conversation_kept` | the transfer between adapters: refuted | as in `shared_state` |
| `slots_given_back` | a slot that is released is free again: refuted | as in `shared_state` |
| `branched_answer` | the winner's answer reaches the request: refuted | as in `in_process` |
| `login_kept` | merging does not overwrite: refuted | as in `records` |
| `mailbox_gives_up` | a write is given up after the limit of retries: refuted | as in `records` |

The bounds are small, but each is beyond the smallest at which the mechanism it
exercises appears: two waiters for a sweep that has to choose, two drains for an overlap,
one more request than a limit, one message more than the entries kept. A second fault,
restart or digest would meet a state that the first meets already, since none leaves a
trace except the counters that bound it.

What the passing runs show, beyond types:

* **In-process governor.** One sweep per release suffices (`NoAdmissibleWaiter`), a
  conversation is served in order (`FifoPerKey`), and a request that waits is resolved
  (`WaitersResolved`).
* **Gateway governor** (`SlotsKept`, `WaitersResolved`). With Redis the limits hold
  whatever interleaves, at the price of slots that leak. With the local backend, which is
  the default, no slot leaks, one request of a conversation runs at a time and no waiter
  is lost.
* **Redis slots.** The locks are leases within the limits (`LeaseSpec`) although the
  counters are too high after a crash, and after every release those of the user and the
  channel; and a counter that is too high is gone when its scope has been quiet for the time
  of a lock (`QuietHeals`), not before. It is this that the releases live on: what they miss
  is refuted by `slots_given_back`.
* **Working memory** (`CopiesAgree`, `Settles`). The cache is in order, a clean key mirrors
  the backend, and what one failed append left out is there after the reconciliation.
* **Bridge** (`BridgeFollowsRedis`). It ends in the mode in which Redis stays, in whatever
  order old pings come back.
* **Message bus.** A call is executed again only when it has been forgotten in between
  (`NotRepeatedSoon`), and a response that comes while the caller is still in `request`
  settles it, even if `publish` has not returned yet (`ResponseHeard`).
* **Discovery.** A breaker closes only on a streak of successes since it half opened
  (`CloseEarned`), and an agent that stays up is reachable at last (`AgentReturns`).
* **Pipeline.** `SlotsTrue`, `OneReply` and `AllFinish` in both versions: the governor
  counts those who have acquired, and a handler that is over, or lost in a restart, has not;
  `ConversationFaithful` in V1: the conversation and the history are in order and
  everything asked and answered is stored.
* **Breaker, queue, coalescer.** The cooldown is whole (`CooldownKept`) and caused by a streak
  (`TripsOnStreak`); while a summary waits a call is under way whose end drains the queue,
  however the limit is raised and lowered (`SomebodyDrains`); batches are not torn apart by
  old timers (`NotTornApart`) and
  everything is delivered (`AllDelivered`).
* **Who waits for others** (`AnsweredInTheEnd`). A branched request, a proposal and a call
  of a tool end however few of the others answer.
* **Committee.** A verdict stands and rests on every vote accepted (`AcceptedVotesCount`).
* **MCP client** (`AnswersRight`). A late answer never becomes that of another call, and a
  tool with two servers is called at the one whose definition the model saw.
* **What is rationed** (`RationsKept`). Restores of a message, suggestions of a day and
  requests of a minute stay within their bounds, and nobody who keeps them is refused.
* **Records.** A task's state, history and artifacts fit (`OutcomeMatches`); one compaction of
  a session at a time (`OneJobPerSession`); what is buffered of a channel came while it is
  observed and since it was last removed (`BatchesFresh`);
  the question behind a dialogue is handed on (`QuestionHandedOn`); agents get the skills
  agreed on (`SkillsAsAgreed`); the grace of the shutdown is whole (`CutOnlyLate`); the asks
  are counted (`AsksCounted`); a write to the mailbox's table is not forgotten
  (`WriteNotForgotten`), not even
  where the code says that it gives up; the switch to the fallback is earned
  (`FallbackEarned`).
* **Long-term memory** (`KnowledgeKept`). What is cached for the prompts shows what is
  stored, unless a writer is about to have it forgotten or a reader built it meanwhile; and
  overlapping enforcements leave no more than the limit.

Fairness, and why the code justifies it:

* governors: the `finally` of the pipeline releases what a request was granted, so
  `Release` is weakly fair; the timer of an entry is *not* assumed, so that
  `WaitersResolved` is about wake-ups and not about the timeout. The continuations of
  backend calls are fair: a connection answers or fails.
* working memory: backend calls and model calls are answered or fail.
* bridge: `setInterval` checks again, and a ping is answered or fails.
* bus: nothing is assumed, and no liveness is claimed.
* discovery: the interval, the timeout of a check, and callers that resolve again.
* summarization queue: a call of the model settles (the client has a timeout).
* breaker and coalescer: time passes and timers that are due fire.
* branches: the timer of a branch, and the end of the single run, whose model calls have a
  timeout. Nothing is assumed of a branch that was left alone.
* committee: the agents' votes settle, each send ends, the periodic check finds what is
  overdue. Nothing is assumed of people.
* tools: the timer of a request. Nothing is assumed of servers.
* pipeline: a handler that has started goes on, since each thing it awaits has a timeout of
  its own; nothing is assumed of new messages, idle timers or restarts.
* the parts of `records`: no liveness is claimed.

Deadlock is not checked, since the environment is finite in every run and the system
may really stop: every request has been made and is over, or every bound is used up. Where
standing still would be a failure, a liveness property says so.

## 4. What is proved

TLAPS checks these for every value of the constants that satisfies the assumptions of
their modules. Every safety invariant and every action property that a passing run checks
is a theorem, and so are both refinements; `PROJECT.json` lists the theorems. A property
is seldom inductive as it stands, and what is proved of a step is a stronger invariant, an
operator of its own in the module of the proof. TLC found those invariants out first, on
the instances of the runs.

Where an invariant relates many values of the state, it is an operator of those *values*
and not of the variables (`Sound(caller, activeLocks, …)`, `RateSound(window, log)`), so
that each step is a lemma about constants: what a push, a swap or a removal does to any
line, table or count. The steps of the specification then only instantiate it.

**Sequences.** `Array.prototype.filter` is the operator `Only` of `SeqFilters`, and
`SeqFilterTheorems` has its laws: what it keeps, that it keeps the order, what it does to
the last element, to an appended one and to the number of elements, and that it embeds the
one sequence into the other. They go by induction on the length, but not by the library's
induction rules, which take an operator as an argument: a set of naturals that is not empty
has a least element, by `NatLessThanWellFounded`, and that of the lengths which fail a law
leads to a contradiction (`CountUp`, `SeqInduct`). For that `Only` is a recursive *function*
and not the library's `SelectSeq`.

**`ConcurrencyGovernorProofs`**: `TypeCorrect`, `CountersCorrect`, `LimitsHold`,
`WorkConserving`, `BacklogIsBounded`, `FirstInFirstOut`, `ImplementsSlotPool`. The
inductive invariant joins the types, the counters, "nobody waits whom there is room for"
and "what waits is in the queue, once". Its heart is the sweep, carried over from counters
to sets of requests (`SweepMeaning`): the entry that was admitted last fits, so that the
whole set does (`SweepWithinLimits`); one that was passed over did not fit, and does not fit
now, since room only shrinks as the set grows (`SweepComplete`); and of two entries of the
same conversation the later one is never admitted alone (`SweepFifo`). The refinement
then chooses for `SlotPool`'s `Finish` the set the sweep admitted.

**`GatewayGovernorProofs`**: `SlotsStayKept`. `SlotsKept` says that no more requests run
than the limits allow and, with the local backend, that a conversation runs one at a time
and no slot is lost. `_activeLocks` cannot say who holds which slot: of two drains that
overlap the one may overwrite the lock of the other. `GovInv` therefore gives the requests
that run *some* slots of their conversation, one each (`HoldersBacked`), all of them counted
by the backend, keeps a granted slot whose answer is under way apart from these
(`GrantsCounted`), and lets a drain stand only in an array that nobody writes any more
(`DrainsStand`). For the local backend (`Locally`) it adds that one answer is awaited at a
time, that a counted slot was granted just now or is the lock of the request that runs, and
that the entry a drain asks for still waits when the answer comes.

**`SharedStateProofs`**

* *Redis slots*: `EveryLockCounted`, `ImplementsLeases`, `HealsWhenQuiet`. A counter is never
  lower than the locks of its scope, and lives at least as long as each of them: with that,
  crashes, expiry and releases that miss a counter only make counters too high, a script that finds room has it, and the
  locks implement `LimitedLeases`. Conversely a counter lives no longer than a lock's time
  after the last acquisition, so that a quiet scope starts from nothing.
* *Discovery*: `DiscTypeCorrect`, `ClosesOnlyEarned`. The count of successes that a half open
  breaker keeps is covered by the streak of successes since it opened, because each failure
  takes it back to open.
* *Message bus*: `NothingRepeatedSoon`, `EarlyResponseHeard`. For the latter `PromiseInv`
  says that the entry of a request is there from before `publish` is called until its
  promise is settled, and that who waits has one. `BusInv` has for each bus what bounds a repeated
  execution. On the local one a call is delivered once. On Redis a call that was executed
  and has not expired is among the identifiers of its process, or as many others as the
  bound keeps were handled after it: the identifiers stand in the order in which they were
  first handled, and the oldest are cut.
* *Working memory*: `CopiesStayInAgreement`. `MemInv` has three parts. `MemCore` has the types,
  what each job may have read (the bucket or the array itself, followed by alias, or an
  older one), and the order in the cache. `MirrorInv` says of a key nothing has gone wrong
  for that its backend copy, with the calls in flight applied in turn, is its cache. `RepairInv`
  is about behaviours with one failure and nothing else that interferes: of every key, what
  the backend will hold has every message of the cache; or a reconcile is at work on it and
  what it has sent so far is not cleared behind it; or it is dirty and no reconcile is.
  The restriction of `NothingMissing` to *one* failure is real: of two reconciles of a
  key, the one may finish and take the key off the dirty ones after the other has cleared
  it, and then the other fails. The comment "Leave in dirtyKeys for next reconcile attempt"
  (`gateway/state-adapters.js:138`) does not hold then.

**`InProcessProofs`**

* *Breaker*: `BreakerTypeCorrect`, `WholeCooldown`, `NoLongerThanCooldown`,
  `TripsOnlyOnStreak`, `CountStartsAnew`. The invariant ties three clocks together: what is
  left of the cooldown, the time since the trip, and the streak; and says that a count at
  the threshold goes with an entry that has tripped, which is what makes `isDisabled` reset it.
* *Summarization queue*: `SummariesTypeCorrect`, `ActiveCorrect`, `NoWakeupLost`,
  `LimitIsRespected`. While a task waits a call is under way, for any change of the limit: a
  call that ends leaves its place to a waiting task, unless as many others still run as the
  limit allows, and `setMaxConcurrent` makes the limit at least 1. `NoWakeupLost` says no
  more, because more does not hold (section 5).
* *Coalescer*: `BatchesWhole` ties each timer of a bucket to the wait of the bucket's messages,
  so that a timer that fires proves the pause. For its types `CoalescerInv` says that the
  pending count covers the messages in the buckets, so that it never goes below 0.
* *Committee*: `VotesCounted`. Votes are collected for one proposal at a time; those of the
  current one contain all that were accepted, and those of the others no longer change.
* *MCP client*: `CallsAnsweredRight`. Numbers are never used again, so that what waits under the
  number of a request is that request, and the map of tools agrees with the last server
  that lists each.
* `ProcessTypeCorrect`: the types of the whole run `in_process`, from `ProcessInv`, which joins
  the invariants above and that of the in-process governor; a step of one component leaves the variables of the others.

**`RecordsProofs`**: `FallbackOnlyEarned` (what the client counts *is* the streak),
`SessionCompactedOnce` (who is queued or at work is in the set of active sessions, and
nobody shares it, although processors may be too many), `GraceGiven` (a handler that goes on
before the grace is over has seen that nobody is left of those the signal found),
`OutcomeFits` (a case for each way to write a task), `BufferForgotten` (of each channel no
more messages are buffered than came since it was last removed),
`QuestionReachesAgent` (who finished a dialogue holds it, and a question that waits was asked
by another message, so that who goes on with it does not look as if without one),
`EveryAskCounted` and `AsksTypeCorrect` (the place of an ask says whether it is counted, and a
late end of its agent looks at it first), `CreatedSkillsStay` (what is created is on disk
unless its writing has failed, and a download overtakes it only if it began before),
`WritesStay` (an entry that was retried so many times since its last failure has as many
INSERTs under way), `WhatIsKnownIsKept`. For the last one `KnowInv` says what a job still owes at
each of its queries: while it has stored and not yet invalidated, it is one of those that
`Unannounced` names; a view that is being built shows what its queries have read, or is
marked; and as long as a channel has more rows than its limit a session that indexes it is going to
count them, or knows of at least as many as are too many.

**`GatewayPipelineProofs`**: `SlotsCounted` and `RepliedOnce`, for any finite set of requests,
both versions, and any number of faults and restarts; for the slots the set of holders gains
or loses the one request that moves, or is handed from one to another; for the reply the
invariant says at which stages a handler can have replied with more than a greeting.
`ConversationKeptFaithfully` has three hypotheses, and is false without each: V1, since V2 does
not await its saves in order; no save that fails, since the history then lacks an entry; and
requests of different texts, since the memory and the table recognise an entry by its text.
`TalkInv` says for each stage of a handler what of its question and answer can be in the working
memory or the history, and what must be in the history; a clear, a recovery or a restart
takes many entries at once and changes the order of none.

**`MCRecordsProofs`**

* `RationsStayKept` has three invariants. `SuggestInv`: of a day's budget as much is spent as
  suggestions were posted on its account and are on their way, even when a post returns
  after midnight. `RestoreInv`: a message has been restored at most as often as its row counts
  retries, and what a restore has read had retries left. `RateSound`: the window of a user ends
  with the last requests of his log, from some place on, as old as the log says; and either
  that is the whole log, whose first requests passed, or the array was cut, and then one
  request passed within the window, the one that cut it, and all others that passed lie by
  more than the limit before the window.
* `RecordsTypeCorrect`: the types of all fourteen components, from `TypesInv`. Several are
  bounds that need a reason: the queue of a receiver exceeds its limit by one message at
  most, because a restore that awaits holds the queue itself (`mbQueueRef = "live"`) only
  while there was room in it (`QueuesInv`); the store of A2A has no task twice and none that was not sent (`TasksInv`);
  the logins in the row, and in what a job has read of it, are no more than there were links
  (`LoginsInv`); a pending change is one that was requested (`ChangesInv`); and what a reader
  builds or has cached is a view that can be asked for (`ViewsKnown`).

The assumptions on constants are those the code gives: limits and bounds are numbers, where
needed positive. Those that say more: requests, states of logins and calls of the observer
are finite sets; a request's identifier is not that of a lock (`None`); the results of
branches that are kept are at least one, because of `|| 100` in the constructor; the members
the configuration names are people; every job of the long-term memory has a text to save; a
session belongs to a channel; `BusHome` gives every call a process.

**Not proved.** The liveness properties (`WaitersResolved`, `AllFinish`, `Settles`,
`BridgeFollowsRedis`, `AgentReturns`, `AllDelivered`, `AnsweredInTheEnd`)
need fairness and ENABLED, which the prover does not handle; they stay with TLC, on the
instances above. The state bridge has no other property than one of these. The eight
refuted sentences have their counterexamples and nothing to prove.

## 5. What the code does that its documentation does not say

Eight runs refute a sentence of the repository; `PROJECT.json` quotes it.

* `NoSlotLeak`: with Redis, a request whose timer fires while the drain awaits
  `acquire` has given up, and is granted the slot all the same. Nobody releases it, and
  the lock of its conversation stays.
* `WaitBounded`: `add` restarts `maxWaitTimer` with each message, and
  `debounceMs < maxCoalesceMs`, so a steady writer is never flushed by the maximal wait.
* `RecoveredAfterRestart`: the handler adds the message to the working memory and then
  looks whether the memory is empty, so the recovery on demand never happens.
* `ConversationKept`: a change of mode copies the conversations into new adapters and
  destroys the old ones, which the gateway goes on using.
* `FullIsHeld`: a release over Redis counts down other keys than the acquisition counted up,
  so that a user who made as many requests as he may make at a time is refused until his
  counter expires, although none of them runs.
* `BranchedAnswerKept`: the caller of the branches spreads a field the result does not
  have, and the text is lost.
* `LoginKept`: `upsert` reads, awaits, and writes the whole row back.
* `GivesUp`: a failed INSERT puts its entry back with `retries: 0`, so that the write is tried
  again for as long as it fails. `WriteNotForgotten` holds for that reason.

Some properties above carry a condition because the code does not keep them beyond it,
and reading the code for the models showed more of the kind:

* *Gateway governor with Redis.* Of two overlapping drains both may acquire for the same
  entry; the second lock overwrites the first, whose slot is counted until it expires, and
  `_queue` is what the last drain left, so a waiter that only the other had kept drops out
  and is resolved by its timer alone. When `backend.release` fails, the slot stays counted in
  Redis until its lock expires, and `_drainQueue` is not called
  (`gateway/state-adapters.js:373`), so that who waits for that slot waits for the next release
  or for his timer.
* *Working memory.* Of two reconciles of a key that overlap the one may take the key off the
  dirty ones after the other has cleared it; if then the other fails, messages are missing
  in the backend of a key that is not dirty, against "Leave in dirtyKeys for next reconcile
  attempt" (`gateway/state-adapters.js:138`). Two reconciles that overlap, or a message added while a reconcile iterates,
  store entries twice in the backend; `replace` overwrites in the cache what was added while it
  awaited; a failed `clear` is not marked dirty; `get` never asks the backend, so that
  after a restart or an expiry the conversation looks empty until something is added.
* *Summarization queue.* "If we raised, drain queue to fill new slots"
  (`shared/summarization-queue.js:99`): with two tasks waiting, a limit raised by two
  starts one of them, and the other place stays free until a call ends, since `_drain` starts
  one task. Nothing calls `setMaxConcurrent` at present. A limit configured as 0 starts
  nothing at all.
* *Message bus.* Of the handlers of one process only the first gets a broadcast over Redis,
  since the calls for the others look like duplicates (`distributed/message-bus.js:334`),
  against "Dispatch broadcast to all registered handlers" (`:214`). When `publish` fails, the
  caller has its error and the entry stays until its timer rejects a promise that nobody
  holds, which the process logs as unhandled (`app.js:31`). What `publish` sends to one agent
  goes to a channel that nothing subscribes to.
* *Coalescer.* `flushAll` leaves the count as it was; at the cap a message goes ahead of
  older ones of its user that wait in their bucket; after `destroy` messages are dropped.
* *Rate limiter.* With more than three times the limit in a minute the array is cut and
  the next request passes; refused requests count, so who keeps trying stays refused.
* *Pipeline.* V2 starts the saves of answer and question without awaiting them, in that
  order, and the history may have the answer first; after an error it has no question; a
  text said twice is stored once; an idle session clears the messages that came while it
  was being indexed.
* *Background compaction.* "One at a time" (`:10`) does not hold: the early return of
  `_processNext` and its `finally` both count down (`:128`, `:182`), and more processors
  run. What saves the sessions is the set of those that are active.
* *Mailbox.* The limit of ten retries is reached only while an INSERT hangs.
* *Observer.* Removing a channel forgets its buffer. The rows of its messages stay in the
  episodic memory, the topics of its batches are still compared with those of other
  channels, and an insight that was pending is posted after the removal. `feedback-loop.js` records a HIGH change for a pattern it disables, and
  disables it before anybody approves. `ActionRouter` looks for a leader with a
  `findByType` that the entity memory does not have, so no ask ever comes from it; and
  `proactive-engine.js` calls the asynchronous `_buildMessage` without awaiting it.
* *Committee.* A deferred proposal without votes stays for ever, against the comment PERF-B
  (`:36`); who is invited again may vote again under a new identifier; the vote of one who
  was removed counts, with the quorum of those who are left.
* *Skills.* A late download overwrites a skill of the same name made here; deleting what
  is on disk may fail, and the next start brings it back.
* *Shutdown.* The adapters are never stopped; the messages the coalescer flushes are
  started and cut; closing the data sources and the database has no limit of time.
* *Long-term memory.* The duplicate gate compares a `ts_rank`, which is at most 1, with
  5.0 and never closes. A text that was saved elsewhere or archived is reported as saved
  and neither stored nor revived. `graph.create` recognises a duplicate by SQLite's words
  only, so that on PostgreSQL it throws and the profile is not refreshed. A part of a
  profile that could not be read is cached as empty for a quarter of an hour. Enforcements
  that overlap archive more than they need. A distilled decision is not protected from the
  limit of its channel, nor the tool's from the nightly one. `_extractDelegationPatterns`
  does not await its query and always finds nothing. The nightly run comes every second night.
* *MCP.* Both transports emit `error` with no listener when a command does not exist, or
  a stream breaks or is idle too long; the process then ends through its handler for
  uncaught exceptions, against "graceful degradation" (`mcp/client.js:181`,
  `mcp/README.md:43`). A request of the server whose number is in use resolves the call
  that waits under it. The end of a stream leaves calls to their timers. A server whose
  list of tools fails is never closed; one that answers the list with an error is
  registered without tools. An `initialize` under way during the shutdown registers its
  servers after it.

## 6. What is not modelled, and why

The models cover about a tenth of the lines of the implementation. The
rest is for the most part code whose correctness is not a matter of the order of events:

* *Text.* Prompts, summaries, ranking, routing by scores, formatting of messages for the
  platforms, sanitizing, help and briefing features, the tools' schemas: functions of
  strings without state. Modelling them would mean to transcribe them.
* *Input and output.* Channel adapters apart from their commands, data sources, browser and
  web tools, GitHub and other integrations, embedding and search, the self-hosted model
  client: each call is an outcome chosen by the module that makes it.
* *Storage.* The SQL translation, migrations and full-text search of `db/`: what the
  tables hold is modelled where it is used. `touchAccess` and `touch` start UPDATEs inside
  a transaction without awaiting them, which is left out of `Knowledge`.
* *Observation.* Dashboard, telemetry, logs, audit, evaluation: they read the state of
  others and keep counts that nothing depends on.
* *Credentials and permissions.* Roles, vault, trust boundary, sandbox: tests of a request
  against a configuration.
* *Code that nothing requires, or that is only exported.* Loop guard, permission gate,
  fallback chain, autonomy loop, delegation, key rotation, cooldown of models, schedule
  breaker, hot reload, workflow engine, SOP detector, memory transactions, memory tiers,
  `cortex.js`, the generic step pipeline, the breaker and the embedding cache in Redis,
  and the agent service and session store of `distributed/`, which `app.js` does not start.
  They would come next if they were put to use: the session store first, since it shares
  sessions between processes, then the memory transactions.
* *Budget gate.* Three queries whose sums are compared with limits; it keeps no state but
  the flag of an alert, and its answer is a free choice of the pipeline.

Within the modelled components: the approval and file steps of the pipeline, batch recovery
at the start (which never finds a session), notifications, statistics, the strategies of
the branches that have no caller, the tiers of compaction.
