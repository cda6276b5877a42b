---------------------------- MODULE GatewayPipeline ----------------------------
(***************************************************************************)
(* The life of a message in the gateway: Gateway.onMessage, which is the   *)
(* V1 pipeline in one function (src/src/gateway/gateway.js), and the V2    *)
(* pipeline in steps (gateway-pipeline.js, gateway-steps.js), chosen when  *)
(* the process starts.  Requests of one conversation interleave at every   *)
(* await; they share the slots of the governor, the working memory, the    *)
(* session whose idle timer indexes and clears that memory, and the        *)
(* episodic history in the database.                                       *)
(*                                                                         *)
(* The slots are those of SlotPool, of one user in one channel.  Digests   *)
(* and the asynchronous backend of the working memory are left to          *)
(* GatewayWorkingMemory.  A routing or a model is no property's concern.   *)
(* Names starting with Bug are faulty variants of the definition after     *)
(* them; no specification uses them.                                       *)
(***************************************************************************)
EXTENDS Integers, Sequences, FiniteSets

CONSTANTS
    Requests,       \* messages that reach the gateway, of one session key
    TextOf,         \* the text of each
    Versions,       \* the pipelines, of "V1" and "V2"
    MaxSlots,       \* requests that run at a time
    Faulty,         \* what may fail: "reply", "save", "context", "agent"
    MaxFaults,      \* bound: failures
    MaxRestarts     \* bound: crashes of the process

ASSUME PipelineAssumption ==
    /\ IsFiniteSet(Requests)
    /\ Versions \subseteq {"V1", "V2"}
    /\ MaxSlots \in Nat \ {0} /\ {MaxFaults, MaxRestarts} \subseteq Nat
    /\ Faulty \subseteq {"reply", "save", "context", "agent"}

VARIABLES
    stage,      \* where the handler of each request is
    replies,    \* what its sender was sent
    acquired,   \* whether it holds a slot
    slots,      \* slots taken in the governor
    memory,     \* working memory of the conversation
    session,    \* whether the session is registered, its idle timer running
    indexing,   \* the index run after an idle session
    history,    \* episodic memory, in the order of its rows
    saving,     \* saves nobody awaits
    heard,      \* history: the conversation the agent was given for a request
    before,     \* history: episodic memory when the process last started
    faults, restarts,
    version     \* EFFY_GATEWAY_V2

requestVars == <<stage, replies>>
slotVars == <<acquired, slots>>
memoryVars == <<memory, session, indexing, history, saving, heard, before>>
pipelineVars == <<stage, replies, acquired, slots, memory, session, indexing, history,
          saving, heard, before, faults, restarts, version>>

V2 == version = "V2"

Entries == [role : {"user", "assistant"}, of : Requests]
Question(r) == [role |-> "user", of |-> r]
Answer(r) == [role |-> "assistant", of |-> r]
Held(s) == {s[i] : i \in DOMAIN s}

NotIndexing == [on |-> FALSE, messages |-> <<>>]

PipelineInit ==
    /\ stage = [r \in Requests |-> "new"]
    /\ replies = [r \in Requests |-> <<>>]
    /\ acquired = [r \in Requests |-> FALSE] /\ slots = 0
    /\ memory = <<>> /\ session = FALSE /\ indexing = NotIndexing
    /\ history = <<>> /\ saving = {} /\ before = <<>>
    /\ heard = [r \in Requests |-> <<>>]
    /\ faults = 0 /\ restarts = 0
    /\ version \in Versions

----------------------------------------------------------------------------
Go(r, s) == stage' = [stage EXCEPT ![r] = s]

Fault(what) ==
    /\ what \in Faulty
    /\ faults < MaxFaults /\ faults' = faults + 1

\* adapter.reply: sent, and then on, or thrown.
Reply(r, kind, then, thrown) ==
    \/ /\ replies' = [replies EXCEPT ![r] = Append(@, kind)]
       /\ Go(r, then)
       /\ UNCHANGED faults
    \/ /\ Fault("reply")
       /\ Go(r, thrown)
       /\ UNCHANGED replies

\* episodic.save: content_hash is unique, a row that exists already is kept.
Content(e) == IF e.role = "user" THEN <<"user", TextOf[e.of]>> ELSE <<"assistant", e.of>>
Inserted(h, e) == IF \E d \in Held(h) : Content(d) = Content(e) THEN h ELSE Append(h, e)

Save(e) ==
    \/ history' = Inserted(history, e) /\ UNCHANGED faults
    \/ Fault("save") /\ UNCHANGED history

----------------------------------------------------------------------------
\* From the adapter to the guards.

\* A bot is ignored, a user over the limit is told so.
Receive(r) ==
    /\ stage[r] = "new"
    /\ \/ \E s \in {"intercept", "done"} : Go(r, s) /\ UNCHANGED <<replies, faults>>
       \/ Reply(r, "limited", "done", "failed")
    /\ UNCHANGED <<slotVars, memoryVars, restarts, version>>

\* Onboarding, help and configuration by message: one of them may answer
\* instead of the agent, onboarding also before it; a throw is swallowed.
Intercept(r) ==
    /\ stage[r] = "intercept"
    /\ \/ Go(r, "guard") /\ UNCHANGED <<replies, faults>>
       \/ Reply(r, "greeting", "guard", "guard")
       \/ Reply(r, "intercepted", "done", "guard")
    /\ UNCHANGED <<slotVars, memoryVars, restarts, version>>

\* The agent's circuit breaker.
Guard(r) ==
    /\ stage[r] = "guard"
    /\ \/ Go(r, "slot") /\ UNCHANGED <<replies, faults>>
       \/ Reply(r, "disabled", "done", "failed")
    /\ UNCHANGED <<slotVars, memoryVars, restarts, version>>

HasRoom == slots < MaxSlots

BugRefused(r) == Reply(r, "busy", "session", "failed")
Refused(r) == Reply(r, "busy", "done", "failed")

\* waitForSlot: a slot, a place in the queue, or a refusal.
AskSlot(r) ==
    /\ stage[r] = "slot"
    /\ IF HasRoom
          THEN /\ acquired' = [acquired EXCEPT ![r] = TRUE] /\ slots' = slots + 1
               /\ Go(r, "session")
               /\ UNCHANGED <<replies, faults>>
          ELSE /\ \/ Go(r, "waiting") /\ UNCHANGED <<replies, faults>>
                  \/ Refused(r)
               /\ UNCHANGED slotVars
    /\ UNCHANGED <<memoryVars, restarts, version>>

WaitExpired(r) ==
    /\ stage[r] = "waiting" /\ ~acquired[r]
    /\ Refused(r)
    /\ UNCHANGED <<slotVars, memoryVars, restarts, version>>

BugGranted(st, w) == st
Granted(st, w) == [st EXCEPT ![w] = "session"]

\* r goes to s and gives back its slot, which the next waiting request takes.
Freed(r, s) ==
    LET queue == {w \in Requests : stage[w] = "waiting" /\ ~acquired[w]}
        left == [stage EXCEPT ![r] = s]
    IN  IF ~acquired[r] THEN Go(r, s) /\ UNCHANGED slotVars
        ELSE IF queue = {}
             THEN /\ slots' = slots - 1
                  /\ acquired' = [acquired EXCEPT ![r] = FALSE]
                  /\ stage' = left
             ELSE \E w \in queue :
                  /\ acquired' = [acquired EXCEPT ![r] = FALSE, ![w] = TRUE]
                  /\ stage' = Granted(left, w)
                  /\ UNCHANGED slots

----------------------------------------------------------------------------
\* In the session.

\* The session is touched and the question enters the working memory.
OpenSession(r) ==
    /\ stage[r] = "session"
    /\ session' = TRUE
    /\ memory' = Append(memory, Question(r))
    /\ Go(r, IF V2 THEN "recovery" ELSE "saveQuestion")
    /\ UNCHANGED <<replies, slotVars, indexing, history, saving, heard, before,
                   faults, restarts, version>>

\* V1 awaits the save of the question and goes on if it fails.
SaveQuestion(r) ==
    /\ stage[r] = "saveQuestion"
    /\ Save(Question(r))
    /\ Go(r, "recovery")
    /\ UNCHANGED <<replies, slotVars, memory, session, indexing, saving, heard,
                   before, restarts, version>>

\* An empty working memory is recovered, by one request at a time.
CheckMemory(r) ==
    /\ stage[r] = "recovery"
    /\ Go(r, IF memory = <<>> /\ \A s \in Requests : stage[s] # "recovering"
                THEN "recovering" ELSE "context")
    /\ UNCHANGED <<replies, slotVars, memoryVars, faults, restarts, version>>

Recovered(rows) == rows

Recover(r) ==
    /\ stage[r] = "recovering"
    /\ memory' = IF history = <<>> THEN memory ELSE Recovered(history)
    /\ Go(r, "context")
    /\ UNCHANGED <<replies, slotVars, session, indexing, history, saving, heard, before,
                   faults, restarts, version>>

\* Context assembly and the budget, which may throw.
Assemble(r) ==
    /\ stage[r] = "context"
    /\ \/ Go(r, "agent") /\ UNCHANGED faults
       \/ Fault("context") /\ Go(r, "failed")
    /\ UNCHANGED <<replies, slotVars, memoryVars, restarts, version>>

\* The agent is given what the working memory holds; without it there is an excuse.
Run(r) ==
    /\ stage[r] = "agent"
    /\ IF memory = <<>>
          THEN Reply(r, "noHistory", "closing", "failed") /\ UNCHANGED heard
          ELSE /\ heard' = [heard EXCEPT ![r] = memory]
               /\ Go(r, "running")
               /\ UNCHANGED <<replies, faults>>
    /\ UNCHANGED <<slotVars, memory, session, indexing, history, saving, before,
                   restarts, version>>

\* The agent returns, with a text or without, or throws.
Return(r) ==
    /\ stage[r] = "running"
    /\ \/ Go(r, "respond") /\ UNCHANGED <<saving, faults>>
       \/ /\ Go(r, "closing")
          /\ saving' = IF V2 THEN saving \cup {Question(r)} ELSE saving
          /\ UNCHANGED faults
       \/ Fault("agent") /\ Go(r, "failed") /\ UNCHANGED saving
    /\ UNCHANGED <<replies, slotVars, memory, session, indexing, history, heard,
                   before, restarts, version>>

\* Once the answer is sent it enters the memory; V2 then saves the answer and
\* the question without awaiting either, V1 awaits the save of the answer.
Respond(r) ==
    /\ stage[r] = "respond"
    /\ Reply(r, "answer", IF V2 THEN "closing" ELSE "saveAnswer", "failed")
    /\ IF replies' = replies
          THEN UNCHANGED <<memory, saving>>
          ELSE /\ memory' = Append(memory, Answer(r))
               /\ saving' = IF V2 THEN saving \cup {Answer(r), Question(r)} ELSE saving
    /\ UNCHANGED <<slotVars, session, indexing, history, heard, before, restarts,
                   version>>

BugSaveAnswer(r) ==
    /\ stage[r] = "saveAnswer"
    /\ IF session THEN Save(Answer(r)) ELSE UNCHANGED <<history, faults>>
    /\ Go(r, "closing")
    /\ UNCHANGED <<replies, slotVars, memory, session, indexing, saving, heard,
                   before, restarts, version>>
SaveAnswer(r) ==
    /\ stage[r] = "saveAnswer"
    /\ Save(Answer(r))
    /\ Go(r, "closing")
    /\ UNCHANGED <<replies, slotVars, memory, session, indexing, saving, heard,
                   before, restarts, version>>

\* A save nobody awaits is answered by the database.
SaveDone(e) ==
    /\ e \in saving
    /\ saving' = saving \ {e}
    /\ Save(e)
    /\ UNCHANGED <<requestVars, slotVars, memory, session, indexing, heard, before,
                   restarts, version>>

----------------------------------------------------------------------------
\* The end of a request.

\* The slot goes back only while the session lasts.
BugClose(r) ==
    /\ stage[r] = "closing"
    /\ IF session THEN Freed(r, "done") ELSE Go(r, "done") /\ UNCHANGED slotVars
    /\ UNCHANGED <<replies, memoryVars, faults, restarts, version>>

\* finally: the slot goes back.
Close(r) ==
    /\ stage[r] = "closing"
    /\ Freed(r, "done")
    /\ UNCHANGED <<replies, memoryVars, faults, restarts, version>>

\* An error: V1 apologises and then gives the slot back, V2 the other way round.
Fail(r) ==
    /\ stage[r] = "failed"
    /\ IF V2 THEN Freed(r, "apology") /\ UNCHANGED <<replies, faults>>
             ELSE Reply(r, "error", "closing", "closing") /\ UNCHANGED slotVars
    /\ UNCHANGED <<memoryVars, restarts, version>>

Apologise(r) ==
    /\ stage[r] = "apology"
    /\ Reply(r, "error", "done", "done")
    /\ UNCHANGED <<slotVars, memoryVars, restarts, version>>

----------------------------------------------------------------------------
\* The idle session, and the process.

\* The idle timer fires, requests running or not: the session goes, and its
\* conversation is indexed unless it is being indexed already.
Idle ==
    /\ session
    /\ session' = FALSE
    /\ indexing' = IF indexing.on \/ memory = <<>> THEN indexing
                   ELSE [on |-> TRUE, messages |-> memory]
    /\ UNCHANGED <<requestVars, slotVars, memory, history, saving, heard, before,
                   faults, restarts, version>>

\* Indexed, or not: the working memory is cleared.
Indexed ==
    /\ indexing.on
    /\ indexing' = NotIndexing
    /\ memory' = <<>>
    /\ UNCHANGED <<requestVars, slotVars, session, history, saving, heard, before,
                   faults, restarts, version>>

Restart ==
    /\ restarts < MaxRestarts /\ restarts' = restarts + 1
    /\ stage' = [r \in Requests |-> IF stage[r] \in {"new", "done"} THEN stage[r] ELSE "lost"]
    /\ acquired' = [r \in Requests |-> FALSE] /\ slots' = 0
    /\ memory' = <<>> /\ session' = FALSE /\ indexing' = NotIndexing /\ saving' = {}
    /\ heard' = [r \in Requests |-> <<>>] /\ before' = history
    /\ UNCHANGED <<replies, history, faults, version>>

\* What a request does once it has been received.
Proceed(r) ==
    \/ Intercept(r) \/ Guard(r) \/ AskSlot(r) \/ WaitExpired(r)
    \/ OpenSession(r) \/ SaveQuestion(r) \/ CheckMemory(r) \/ Recover(r)
    \/ Assemble(r) \/ Run(r) \/ Return(r) \/ Respond(r) \/ SaveAnswer(r)
    \/ Close(r) \/ Fail(r) \/ Apologise(r)

PipelineNext ==
    \/ \E r \in Requests : Receive(r) \/ Proceed(r)
    \/ \E e \in Entries : SaveDone(e)
    \/ Idle \/ Indexed \/ Restart

\* Whatever a handler awaits is answered or fails, in the end by a timeout.
PipelineFairness == \A r \in Requests : WF_pipelineVars(Proceed(r))

PipelineSpec == PipelineInit /\ [][PipelineNext]_pipelineVars /\ PipelineFairness

----------------------------------------------------------------------------
PipelineTypeOK ==
    /\ stage \in [Requests -> {"new", "intercept", "guard", "slot", "waiting", "session",
                              "saveQuestion", "recovery", "recovering", "context", "agent",
                              "running", "respond", "saveAnswer", "failed", "apology",
                              "closing", "done", "lost"}]
    /\ acquired \in [Requests -> BOOLEAN] /\ slots \in 0 .. MaxSlots
    /\ Held(memory) \subseteq Entries /\ Held(history) \subseteq Entries
    /\ saving \subseteq Entries /\ session \in BOOLEAN
    /\ faults \in 0 .. MaxFaults /\ restarts \in 0 .. MaxRestarts

\* The slot comes back once on every way out of the handler, and none is given
\* back that was not taken: whoever is done, or was lost in a restart, holds no
\* slot, and the governor counts exactly the slots that are held.
SlotsTrue ==
    /\ slots = Cardinality({r \in Requests : acquired[r]})
    /\ \A r \in Requests : stage[r] \in {"done", "lost"} => ~acquired[r]

\* Apart from the greeting of the onboarding, a message is replied to once: a
\* turned away, intercepted or failed request is not answered as well.
OneReply ==
    \A r \in Requests : \A i, j \in DOMAIN replies[r] :
        replies[r][i] # "greeting" /\ replies[r][j] # "greeting" => i = j

\* Among requests that interleave, idle sessions and recoveries, the
\* conversation given to the agent has no entry twice and no answer before its
\* question.
ConversationInOrder ==
    \A i, j \in DOMAIN memory : i < j =>
        /\ memory[i] # memory[j]
        /\ ~ (memory[i].role = "assistant" /\ memory[j] = Question(memory[i].of))

\* In the history every answer comes after the question it answers.
HistoryInOrder ==
    \A i \in DOMAIN history : history[i].role = "assistant" =>
        \E j \in 1..i : history[j] = Question(history[i].of)

\* "모든 질문-답변이 DB에 영구 저장됨" (every question and answer is stored for
\* good; docs/session-memory-architecture.md:43): unless its text was said
\* before, when a handler is done, the question it gave to an agent and the
\* answer it sent are in the history, or on their way to it.
AllSaved ==
    \A r \in Requests : stage[r] = "done" /\ heard[r] # <<>> =>
        /\ Question(r) \in Held(history) \cup saving
        /\ "answer" \in Held(replies[r]) => Answer(r) \in Held(history) \cup saving

\* What was said is kept in both places, completely and in order.
ConversationFaithful == ConversationInOrder /\ HistoryInOrder /\ AllSaved

\* A message the gateway has taken up is brought to an end, however long it has
\* waited for a slot.
AllFinish == \A r \in Requests : stage[r] # "new" ~> stage[r] \in {"done", "lost"}

----------------------------------------------------------------------------
\* "재시작 후 사용자의 첫 메시지 도착 시" (when the user's first message arrives
\* after a restart; core/session-recovery.js:33): the agent is given what the
\* history held of the conversation.
RecoveredAfterRestart ==
    \A r \in Requests : heard[r] # <<>> => Held(before) \subseteq Held(heard[r])
=============================================================================
