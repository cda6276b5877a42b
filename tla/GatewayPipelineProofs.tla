-------------------------- MODULE GatewayPipelineProofs --------------------------
(***************************************************************************)
(* The slots and the replies of the pipelines, for any finite set of       *)
(* messages, both versions, and whatever fails or restarts; and what the   *)
(* first of them keeps of the conversation.  No property is inductive as   *)
(* it stands: where a handler is must say whether it may hold a slot,      *)
(* whether it has replied, and what of its message may be found.           *)
(* The types of the pipeline come last.                                    *)
(***************************************************************************)
EXTENDS GatewayPipeline, FiniteSetTheorems, TLAPS

\* Stages of a handler that holds no slot yet, or no longer.
WithoutSlot == {"new", "intercept", "guard", "slot", "waiting", "apology", "done", "lost"}

\* Stages of a handler that may have replied with more than a greeting.
Replied == {"saveAnswer", "closing", "done", "lost"}

Stages == {"intercept", "guard", "session", "saveQuestion", "recovery", "recovering",
           "context", "agent", "running", "respond", "failed"} \cup WithoutSlot \cup Replied

Kinds == {"limited", "greeting", "intercepted", "disabled", "busy", "noHistory", "answer",
          "error"}

\* Who holds a slot, and that the governor counts them.
Holders == {r \in Requests : acquired[r]}
HoldersCounted == slots = Cardinality(Holders)
Silent(r) == \A i \in DOMAIN replies[r] : replies[r][i] = "greeting"

SlotInv ==
  /\ stage \in [Requests -> Stages]
  /\ acquired \in [Requests -> BOOLEAN]
  /\ slots \in Nat /\ HoldersCounted
  /\ \A r \in Requests : stage[r] \in WithoutSlot => ~acquired[r]

ReplyInv ==
  /\ stage \in [Requests -> Stages]
  /\ replies \in [Requests -> Seq(Kinds)]
  /\ \A r \in Requests : stage[r] \notin Replied => Silent(r)
  /\ OneReply

-----------------------------------------------------------------------------
\* The holders are finitely many, so that the count of them is a number.
LEMMA FiniteHolders ==
  /\ IsFiniteSet(Holders) /\ Cardinality(Holders) \in Nat
  /\ IsFiniteSet(Holders') /\ Cardinality(Holders') \in Nat
<1>1. Holders \subseteq Requests /\ Holders' \subseteq Requests
  BY DEF Holders
<1>2. IsFiniteSet(Holders) /\ IsFiniteSet(Holders')
  BY <1>1, FS_Subset, PipelineAssumption
<1> QED BY <1>2, FS_CardinalityType

\* A handler that moves without its slot changes nothing of the slots, provided
\* it does not leave them for a stage without one.
LEMMA MovesOn ==
  ASSUME SlotInv, NEW r \in Requests, NEW s \in Stages, Go(r, s), UNCHANGED slotVars,
         s \in WithoutSlot => ~acquired[r]
  PROVE  SlotInv'
<1>1. HoldersCounted'
  BY DEF SlotInv, HoldersCounted, Holders, slotVars
<1> QED BY <1>1 DEF SlotInv, Go, slotVars

\* A step that moves no handler changes nothing of the slots.
LEMMA SlotsStay ==
  ASSUME SlotInv, UNCHANGED <<stage, slotVars>>
  PROVE  SlotInv'
BY DEF SlotInv, HoldersCounted, Holders, slotVars

\* A reply, sent or thrown, is such a move.
LEMMA ReplyMoves ==
  ASSUME SlotInv, NEW r \in Requests, NEW k, NEW s \in Stages, NEW t \in Stages,
         Reply(r, k, s, t), UNCHANGED slotVars,
         s \in WithoutSlot \/ t \in WithoutSlot => ~acquired[r]
  PROVE  SlotInv'
BY MovesOn DEF Reply

\* A request that takes a slot is one holder more.
LEMMA SlotTaken ==
  ASSUME SlotInv, NEW r \in Requests, stage[r] = "slot",
         acquired' = [acquired EXCEPT ![r] = TRUE], slots' = slots + 1, Go(r, "session")
  PROVE  SlotInv'
<1>1. Holders' = Holders \cup {r} /\ r \notin Holders
  BY DEF Holders, SlotInv, WithoutSlot
<1>2. Cardinality(Holders') = Cardinality(Holders) + 1
  BY <1>1, FiniteHolders, FS_AddElement
<1>3. HoldersCounted'
  BY <1>2 DEF SlotInv, HoldersCounted, Holders
<1> QED BY <1>3 DEF SlotInv, Go, Stages, WithoutSlot

\* A slot that is given back goes to nobody, and is one holder less, or to a
\* waiting request, which takes the place of the holder that left.
LEMMA SlotFreed ==
  ASSUME SlotInv, NEW r \in Requests, NEW s \in {"done", "apology"}, Freed(r, s)
  PROVE  SlotInv'
<1> DEFINE queue == {w \in Requests : stage[w] = "waiting" /\ ~acquired[w]}
           left == [stage EXCEPT ![r] = s]
<1>0. s \in Stages /\ s \in WithoutSlot
  BY DEF Stages, WithoutSlot
<1>1. CASE ~acquired[r]
  BY <1>0, <1>1, MovesOn DEF Freed
<1>2. CASE acquired[r] /\ queue = {}
  <2>1. /\ slots' = slots - 1 /\ stage' = left
        /\ acquired' = [acquired EXCEPT ![r] = FALSE]
    BY <1>2 DEF Freed
  <2>2. Holders' = Holders \ {r} /\ r \in Holders
    BY <1>2, <2>1 DEF Holders, SlotInv
  <2>3. Cardinality(Holders') = Cardinality(Holders) - 1
    BY <2>2, FiniteHolders, FS_RemoveElement
  <2>4. HoldersCounted' /\ slots' \in Nat
    BY <2>1, <2>3, FiniteHolders DEF SlotInv, HoldersCounted, Holders
  <2> QED BY <1>0, <2>1, <2>4 DEF SlotInv
<1>3. ASSUME acquired[r], NEW w \in queue, stage' = Granted(left, w), UNCHANGED slots,
             acquired' = [acquired EXCEPT ![r] = FALSE, ![w] = TRUE]
      PROVE  SlotInv'
  <2>1. r # w /\ w \notin Holders /\ r \in Holders
    BY <1>3 DEF Holders
  <2>2. Holders' = (Holders \ {r}) \cup {w}
    BY <1>3, <2>1 DEF Holders, SlotInv
  <2>3. /\ IsFiniteSet(Holders \ {r})
        /\ Cardinality(Holders \ {r}) = Cardinality(Holders) - 1
    BY <2>1, FiniteHolders, FS_RemoveElement
  <2>4. Cardinality(Holders') = Cardinality(Holders)
    BY <2>1, <2>2, <2>3, FiniteHolders, FS_AddElement
  <2>5. HoldersCounted' /\ slots' \in Nat
    BY <1>3, <2>4 DEF SlotInv, HoldersCounted, Holders
  <2>6. stage' = [left EXCEPT ![w] = "session"]
    BY <1>3 DEF Granted
  <2>7. stage' \in [Requests -> Stages]
    BY <1>0, <2>6 DEF SlotInv, Stages
  <2>8. \A q \in Requests : stage'[q] \in WithoutSlot => ~acquired'[q]
    BY <1>0, <1>3, <2>1, <2>6 DEF SlotInv, WithoutSlot
  <2> QED BY <1>3, <2>5, <2>7, <2>8 DEF SlotInv
<1> QED BY <1>1, <1>2, <1>3 DEF Freed

\* Nobody holds a slot at the start.
LEMMA SlotInit == PipelineInit => SlotInv
<1> SUFFICES ASSUME PipelineInit PROVE SlotInv
  OBVIOUS
<1>1. Holders = {}
  BY DEF Holders, PipelineInit
<1>2. HoldersCounted
  BY <1>1, FS_EmptySet DEF HoldersCounted, PipelineInit
<1> QED BY <1>2 DEF PipelineInit, SlotInv, Stages, WithoutSlot

\* Every step changes the holders and the count alike.
LEMMA SlotNext == SlotInv /\ [PipelineNext]_pipelineVars => SlotInv'
<1> SUFFICES ASSUME SlotInv, [PipelineNext]_pipelineVars PROVE SlotInv'
  OBVIOUS
<1>0. \A r \in Requests : stage[r] \in WithoutSlot => ~acquired[r]
  BY DEF SlotInv
<1>1. ASSUME NEW r \in Requests, Receive(r) PROVE SlotInv'
  BY <1>0, <1>1, MovesOn, ReplyMoves DEF Receive, WithoutSlot, Stages
<1>2. ASSUME NEW r \in Requests, Intercept(r) PROVE SlotInv'
  BY <1>0, <1>2, MovesOn, ReplyMoves DEF Intercept, WithoutSlot, Stages
<1>3. ASSUME NEW r \in Requests, Guard(r) PROVE SlotInv'
  BY <1>0, <1>3, MovesOn, ReplyMoves DEF Guard, WithoutSlot, Stages
<1>4. ASSUME NEW r \in Requests, AskSlot(r) PROVE SlotInv'
  <2>1. CASE HasRoom
    BY <1>4, <2>1, SlotTaken DEF AskSlot
  <2>2. CASE ~HasRoom
    BY <1>0, <1>4, <2>2, MovesOn, ReplyMoves DEF AskSlot, Refused, WithoutSlot, Stages
  <2> QED BY <2>1, <2>2
<1>5. ASSUME NEW r \in Requests, WaitExpired(r) PROVE SlotInv'
  BY <1>5, ReplyMoves DEF WaitExpired, Refused, WithoutSlot, Stages
<1>6. ASSUME NEW r \in Requests, NEW s \in Stages \ WithoutSlot, Go(r, s), UNCHANGED slotVars
      PROVE  SlotInv'
  BY <1>6, MovesOn
<1>7. ASSUME NEW r \in Requests, NEW k, NEW s \in Stages \ WithoutSlot, 
             NEW t \in Stages \ WithoutSlot, Reply(r, k, s, t), UNCHANGED slotVars
      PROVE  SlotInv'
  BY <1>7, ReplyMoves
<1>8. ASSUME NEW r \in Requests, OpenSession(r) PROVE SlotInv'
  BY <1>6, <1>8 DEF OpenSession, WithoutSlot, Stages
<1>9. ASSUME NEW r \in Requests, SaveQuestion(r) PROVE SlotInv'
  BY <1>6, <1>9 DEF SaveQuestion, WithoutSlot, Stages
<1>10. ASSUME NEW r \in Requests, CheckMemory(r) PROVE SlotInv'
  BY <1>6, <1>10 DEF CheckMemory, WithoutSlot, Stages
<1>11. ASSUME NEW r \in Requests, Recover(r) PROVE SlotInv'
  BY <1>6, <1>11 DEF Recover, WithoutSlot, Stages
<1>12. ASSUME NEW r \in Requests, Assemble(r) PROVE SlotInv'
  BY <1>6, <1>12 DEF Assemble, WithoutSlot, Stages
<1>13. ASSUME NEW r \in Requests, Run(r) PROVE SlotInv'
  BY <1>6, <1>7, <1>13 DEF Run, WithoutSlot, Stages, Replied
<1>14. ASSUME NEW r \in Requests, Return(r) PROVE SlotInv'
  BY <1>6, <1>14 DEF Return, WithoutSlot, Stages, Replied
<1>15. ASSUME NEW r \in Requests, Respond(r) PROVE SlotInv'
  <2>1. (IF V2 THEN "closing" ELSE "saveAnswer") \in Stages \ WithoutSlot
    BY DEF Stages, WithoutSlot, Replied
  <2> QED BY <1>7, <1>15, <2>1 DEF Respond, WithoutSlot, Stages
<1>16. ASSUME NEW r \in Requests, SaveAnswer(r) PROVE SlotInv'
  BY <1>6, <1>16 DEF SaveAnswer, WithoutSlot, Stages, Replied
<1>17. ASSUME NEW r \in Requests, Close(r) PROVE SlotInv'
  BY <1>17, SlotFreed DEF Close
<1>18. ASSUME NEW r \in Requests, Fail(r) PROVE SlotInv'
  BY <1>7, <1>18, SlotFreed DEF Fail, Stages, WithoutSlot, Replied
<1>19. ASSUME NEW r \in Requests, Apologise(r) PROVE SlotInv'
  BY <1>0, <1>19, ReplyMoves DEF Apologise, WithoutSlot, Stages
<1>20. CASE \/ \E e \in Entries : SaveDone(e)
            \/ Idle \/ Indexed \/ UNCHANGED pipelineVars
  BY <1>20, SlotsStay DEF SaveDone, Idle, Indexed, pipelineVars, requestVars, slotVars
<1>21. CASE Restart
  <2>1. Holders' = {}
    BY <1>21 DEF Restart, Holders
  <2>2. HoldersCounted'
    BY <1>21, <2>1, FS_EmptySet DEF HoldersCounted, Holders, Restart
  <2> QED BY <1>21, <2>2 DEF SlotInv, Restart, Stages, WithoutSlot
<1> QED BY <1>1, <1>2, <1>3, <1>4, <1>5, <1>8, <1>9, <1>10, <1>11, <1>12, <1>13, <1>14,
           <1>15, <1>16, <1>17, <1>18, <1>19, <1>20, <1>21
        DEF PipelineNext, Proceed

\* Whatever fails, is turned away, times out or restarts: a handler that is over
\* holds no slot, and the slots taken in the governor are those that are held.
THEOREM SlotsCounted == PipelineSpec => []SlotsTrue
<1>1. PipelineSpec => []SlotInv
  BY SlotInit, SlotNext, PTL DEF PipelineSpec
<1>2. SlotInv => SlotsTrue
  BY DEF SlotInv, HoldersCounted, Holders, SlotsTrue, WithoutSlot
<1> QED BY <1>1, <1>2, PTL

-----------------------------------------------------------------------------
\* A handler that moves without a reply keeps the invariant of the replies,
\* provided it does not come back from a stage after them.
LEMMA MovesSilently ==
  ASSUME ReplyInv, NEW r \in Requests, NEW s \in Stages, Go(r, s), UNCHANGED replies,
         s \notin Replied => stage[r] \notin Replied
  PROVE  ReplyInv'
BY DEF ReplyInv, OneReply, Silent, Go

\* One reply to a request that had none but a greeting is one reply, and a
\* greeting is none.
LEMMA RepliesOnce ==
  ASSUME ReplyInv, NEW r \in Requests, stage[r] \notin Replied,
         NEW k \in Kinds, NEW s \in Stages, NEW t \in Stages, Reply(r, k, s, t),
         k = "greeting" \/ s \in Replied
  PROVE  ReplyInv'
<1>1. CASE replies' = [replies EXCEPT ![r] = Append(@, k)] /\ Go(r, s)
  <2>1. replies[r] \in Seq(Kinds) /\ Silent(r)
    BY DEF ReplyInv
  <2>2. /\ replies'[r] \in Seq(Kinds)
        /\ \A i \in DOMAIN replies'[r] :
             replies'[r][i] = "greeting" \/ (replies'[r][i] = k /\ i = Len(replies[r]) + 1)
    BY <1>1, <2>1 DEF ReplyInv, Silent
  <2>3. \A q \in Requests : q # r => replies'[q] = replies[q] /\ stage'[q] = stage[q]
    BY <1>1 DEF ReplyInv, Go
  <2>4. stage' \in [Requests -> Stages] /\ replies' \in [Requests -> Seq(Kinds)]
    BY <1>1, <2>2 DEF ReplyInv, Go
  <2>5. \A q \in Requests : stage'[q] \notin Replied => Silent(q)'
    BY <1>1, <2>2, <2>3 DEF ReplyInv, Silent, Go
  <2>6. OneReply'
    BY <2>2, <2>3 DEF OneReply, ReplyInv
  <2> QED BY <2>4, <2>5, <2>6 DEF ReplyInv
<1>2. CASE Go(r, t) /\ UNCHANGED replies
  BY <1>2, MovesSilently
<1> QED BY <1>1, <1>2 DEF Reply

\* A slot that changes hands moves two handlers, both without a reply.
LEMMA FreedSilently ==
  ASSUME ReplyInv, NEW r \in Requests, NEW s \in Stages, Freed(r, s), UNCHANGED replies,
         s \notin Replied => stage[r] \notin Replied
  PROVE  ReplyInv'
<1> DEFINE queue == {w \in Requests : stage[w] = "waiting" /\ ~acquired[w]}
           left == [stage EXCEPT ![r] = s]
<1>1. CASE stage' = left
  BY <1>1, MovesSilently DEF Go
<1>2. ASSUME NEW w \in queue, stage' = Granted(left, w) PROVE ReplyInv'
  <2>1. stage' = [left EXCEPT ![w] = "session"]
    BY <1>2 DEF Granted
  <2>2. stage' \in [Requests -> Stages]
    BY <2>1 DEF ReplyInv, Stages
  <2>3. \A q \in Requests : stage'[q] \notin Replied => stage[q] \notin Replied
    BY <1>2, <2>1 DEF ReplyInv, Replied
  <2> QED BY <2>2, <2>3 DEF ReplyInv, OneReply, Silent
<1> QED BY <1>1, <1>2 DEF Freed, Go

\* Nobody has been replied to at the start.
LEMMA ReplyInit == PipelineInit => ReplyInv
BY DEF PipelineInit, ReplyInv, Stages, WithoutSlot, Replied, Silent, OneReply

\* A step that replies starts where nothing but a greeting was sent.
LEMMA ReplyNext == ReplyInv /\ [PipelineNext]_pipelineVars => ReplyInv'
<1> SUFFICES ASSUME ReplyInv, [PipelineNext]_pipelineVars PROVE ReplyInv'
  OBVIOUS
<1>1. ASSUME NEW r \in Requests, Receive(r) PROVE ReplyInv'
  BY <1>1, MovesSilently, RepliesOnce DEF Kinds, Receive, WithoutSlot, Stages, Replied
<1>2. ASSUME NEW r \in Requests, Intercept(r) PROVE ReplyInv'
  BY <1>2, MovesSilently, RepliesOnce DEF Kinds, Intercept, WithoutSlot, Stages, Replied
<1>3. ASSUME NEW r \in Requests, Guard(r) PROVE ReplyInv'
  BY <1>3, MovesSilently, RepliesOnce DEF Kinds, Guard, WithoutSlot, Stages, Replied
<1>4. ASSUME NEW r \in Requests, AskSlot(r) PROVE ReplyInv'
  BY <1>4, MovesSilently, RepliesOnce DEF Kinds, AskSlot, Refused, WithoutSlot, Stages, Replied
<1>5. ASSUME NEW r \in Requests, WaitExpired(r) PROVE ReplyInv'
  BY <1>5, RepliesOnce DEF Kinds, WaitExpired, Refused, WithoutSlot, Stages, Replied
<1>6. ASSUME NEW r \in Requests, OpenSession(r) PROVE ReplyInv'
  BY <1>6, MovesSilently DEF OpenSession, WithoutSlot, Stages, Replied
<1>7. ASSUME NEW r \in Requests, SaveQuestion(r) PROVE ReplyInv'
  BY <1>7, MovesSilently DEF SaveQuestion, WithoutSlot, Stages, Replied
<1>8. ASSUME NEW r \in Requests, CheckMemory(r) PROVE ReplyInv'
  BY <1>8, MovesSilently DEF CheckMemory, WithoutSlot, Stages, Replied
<1>9. ASSUME NEW r \in Requests, Recover(r) PROVE ReplyInv'
  BY <1>9, MovesSilently DEF Recover, WithoutSlot, Stages, Replied
<1>10. ASSUME NEW r \in Requests, Assemble(r) PROVE ReplyInv'
  BY <1>10, MovesSilently DEF Assemble, WithoutSlot, Stages, Replied
<1>11. ASSUME NEW r \in Requests, Run(r) PROVE ReplyInv'
  BY <1>11, MovesSilently, RepliesOnce DEF Kinds, Run, WithoutSlot, Stages, Replied
<1>12. ASSUME NEW r \in Requests, Return(r) PROVE ReplyInv'
  BY <1>12, MovesSilently DEF Return, WithoutSlot, Stages, Replied
<1>13. ASSUME NEW r \in Requests, Respond(r) PROVE ReplyInv'
  <2>1. (IF V2 THEN "closing" ELSE "saveAnswer") \in Stages \cap Replied
    BY DEF Stages, Replied
  <2> QED BY <1>13, <2>1, RepliesOnce DEF Kinds, Respond, Stages, Replied
<1>14. ASSUME NEW r \in Requests, SaveAnswer(r) PROVE ReplyInv'
  BY <1>14, MovesSilently DEF SaveAnswer, WithoutSlot, Stages, Replied
<1>15. ASSUME NEW r \in Requests, Close(r) PROVE ReplyInv'
  BY <1>15, FreedSilently DEF Close, WithoutSlot, Stages, Replied
<1>16. ASSUME NEW r \in Requests, Fail(r) PROVE ReplyInv'
  BY <1>16, FreedSilently, RepliesOnce DEF Kinds, Fail, WithoutSlot, Stages, Replied
<1>17. ASSUME NEW r \in Requests, Apologise(r) PROVE ReplyInv'
  BY <1>17, RepliesOnce DEF Kinds, Apologise, WithoutSlot, Stages, Replied
<1>18. CASE \/ \E e \in Entries : SaveDone(e)
            \/ Idle \/ Indexed \/ UNCHANGED pipelineVars
  <2>1. UNCHANGED <<stage, replies>>
    BY <1>18 DEF SaveDone, Idle, Indexed, pipelineVars, requestVars
  <2> QED BY <2>1 DEF ReplyInv, OneReply, Silent
<1>19. CASE Restart
  BY <1>19 DEF Restart, ReplyInv, OneReply, Silent, Stages, WithoutSlot, Replied
<1> QED BY <1>1, <1>2, <1>3, <1>4, <1>5, <1>6, <1>7, <1>8, <1>9, <1>10, <1>11, <1>12,
           <1>13, <1>14, <1>15, <1>16, <1>17, <1>18, <1>19
        DEF PipelineNext, Proceed

\* A message is replied to once, the greeting apart: every stage after a reply
\* leads to the end of the handler without another.
THEOREM RepliedOnce == PipelineSpec => []OneReply
<1>1. PipelineSpec => []ReplyInv
  BY ReplyInit, ReplyNext, PTL DEF PipelineSpec
<1> QED BY <1>1, PTL DEF ReplyInv

-----------------------------------------------------------------------------
(* The conversation, in V1, where every save is awaited, when no save fails *)
(* and no two messages are of one text.  Where its handler is says what may *)
(* be found of a message: nothing before it has come to the session, no     *)
(* answer before it was sent, and its question in the history as soon as    *)
(* the save has been awaited.  Then a recovery can put into the working     *)
(* memory nothing that its handler is still to put there.                   *)

BeforeSession == {"new", "intercept", "guard", "slot", "waiting", "session"}
QuestionSaved == {"recovery", "recovering", "context", "agent", "running", "respond", "saveAnswer"}

\* What is said and kept of r when its handler is at s, with what it has sent and
\* what its agent was given.
Fits(r, s, said, kept, sent, given) ==
  /\ Question(r) \in said => s \notin BeforeSession
  /\ Answer(r) \in said => s \in Replied
  /\ s \in QuestionSaved => Question(r) \in kept
  /\ given # << >> => Question(r) \in kept
  /\ "answer" \in Held(sent) => s \in {"saveAnswer", "lost"} \/ Answer(r) \in kept

\* Every entry once and no answer before its question; and, in the history,
\* every answer after its question.
Ordered(m) ==
  \A i, j \in DOMAIN m : i < j =>
    m[i] # m[j] /\ ~ (m[i].role = "assistant" /\ m[j] = Question(m[i].of))
Once(h) == \A i, j \in DOMAIN h : h[i] = h[j] => i = j
Follows(h) ==
  \A i \in DOMAIN h : h[i].role = "assistant" => \E j \in 1 .. i : h[j] = Question(h[i].of)

\* What is said and kept fits every handler.
AllFit ==
  \A r \in Requests : Fits(r, stage[r], Held(memory) \cup Held(history), Held(history), replies[r], heard[r])

TalkInv ==
  /\ ReplyInv
  /\ version = "V1" /\ saving = {}
  /\ heard = [r \in Requests |-> heard[r]]
  /\ memory \in Seq(Entries) /\ Ordered(memory)
  /\ history \in Seq(Entries) /\ Once(history) /\ Follows(history)
  /\ AllFit

\* Saves are awaited and succeed, and no text is said twice.
Awaited == Versions = {"V1"} /\ "save" \notin Faulty /\ \A q, r \in Requests : TextOf[q] = TextOf[r] => q = r

\* A handler may move from x to s without a change of what is said.
Leads(x, s) ==
  /\ s \in BeforeSession => x \in BeforeSession
  /\ x \in Replied => s \in Replied
  /\ s \in QuestionSaved => x \in QuestionSaved
  /\ x \in {"saveAnswer", "lost"} => s \in {"saveAnswer", "lost"}

\* What a sequence holds with one entry more.
LEMMA HeldAppend ==
  ASSUME NEW A, NEW s \in Seq(A), NEW e
  PROVE  Held(Append(s, e)) = Held(s) \cup {e}
<1>1. /\ Len(Append(s, e)) = Len(s) + 1 /\ Append(s, e)[Len(s) + 1] = e
      /\ \A i \in 1 .. Len(s) : Append(s, e)[i] = s[i]
      /\ DOMAIN Append(s, e) = 1 .. Len(s) + 1 /\ DOMAIN s = 1 .. Len(s) /\ Len(s) \in Nat
  OBVIOUS
<1>2. \A i \in 1 .. Len(s) + 1 : i \in 1 .. Len(s) \/ i = Len(s) + 1
  BY <1>1
<1>3. Len(s) + 1 \in 1 .. Len(s) + 1 /\ \A i \in 1 .. Len(s) : i \in 1 .. Len(s) + 1
  BY <1>1
<1> QED BY <1>1, <1>2, <1>3 DEF Held

\* An entry is the question or the answer of one message.
LEMMA EntryFacts ==
  /\ \A r \in Requests : Question(r) \in Entries /\ Answer(r) \in Entries
  /\ \A q, r : Question(q) # Answer(r)
  /\ \A q, r : Question(q) = Question(r) => q = r
  /\ \A q, r : Answer(q) = Answer(r) => q = r
  /\ \A e \in Entries : e.of \in Requests /\ (e = Question(e.of) \/ e = Answer(e.of))
  /\ \A e \in Entries : e.role = "assistant" => e = Answer(e.of)
  /\ \A r : /\ Question(r).role = "user" /\ Question(r).of = r
            /\ Answer(r).role = "assistant" /\ Answer(r).of = r
BY DEF Question, Answer, Entries

\* An entry that is new, a question before its answer, leaves the order.
LEMMA OrderedAppend ==
  ASSUME NEW m \in Seq(Entries), Ordered(m), NEW e \in Entries, e \notin Held(m),
         e.role = "user" => Answer(e.of) \notin Held(m)
  PROVE  Append(m, e) \in Seq(Entries) /\ Ordered(Append(m, e))
<1>1. PICK n \in Nat : n = Len(m)
  OBVIOUS
<1>2. /\ Append(m, e)[n + 1] = e /\ \A i \in 1 .. n : Append(m, e)[i] = m[i]
      /\ DOMAIN Append(m, e) = 1 .. n + 1 /\ DOMAIN m = 1 .. n
  BY <1>1
<1>3. \A i \in 1 .. n : m[i] \in Held(m) /\ m[i] \in Entries
  BY <1>1, <1>2 DEF Held
<1>4. Ordered(Append(m, e))
  <2> SUFFICES ASSUME NEW i \in 1 .. n + 1, NEW j \in 1 .. n + 1, i < j
               PROVE  /\ Append(m, e)[i] # Append(m, e)[j]
                      /\ ~ (Append(m, e)[i].role = "assistant" /\ Append(m, e)[j] = Question(Append(m, e)[i].of))
    BY <1>2 DEF Ordered
  <2>1. i \in 1 .. n /\ (j \in 1 .. n \/ j = n + 1)
    BY <1>1
  <2>2. CASE j \in 1 .. n
    BY <1>2, <2>1, <2>2 DEF Ordered
  <2>3. CASE j = n + 1
    <3>1. Append(m, e)[i] = m[i] /\ Append(m, e)[j] = e /\ m[i] \in Held(m) /\ m[i] \in Entries
      BY <1>2, <1>3, <2>1, <2>3
    <3>2. ASSUME m[i].role = "assistant", e = Question(m[i].of) PROVE FALSE
      <4>1. m[i] = Answer(m[i].of) /\ e.role = "user" /\ e.of = m[i].of
        BY <3>1, <3>2, EntryFacts
      <4> QED BY <3>1, <4>1
    <3> QED BY <3>1, <3>2
  <2> QED BY <2>1, <2>2, <2>3
<1>5. Append(m, e) \in Seq(Entries)
  OBVIOUS
<1> QED BY <1>4, <1>5

\* A history of answers after their questions is in order as a memory.
LEMMA HistoryOrdered ==
  ASSUME NEW h \in Seq(Entries), Once(h), Follows(h)
  PROVE  Ordered(h)
<1> SUFFICES ASSUME NEW i \in 1 .. Len(h), NEW j \in 1 .. Len(h), i < j
             PROVE  h[i] # h[j] /\ ~ (h[i].role = "assistant" /\ h[j] = Question(h[i].of))
  BY DEF Ordered
<1>1. h[i] # h[j]
  BY DEF Once
<1>2. ASSUME h[i].role = "assistant", h[j] = Question(h[i].of) PROVE FALSE
  <2>1. PICK k \in 1 .. i : h[k] = Question(h[i].of)
    BY <1>2 DEF Follows
  <2>2. k \in 1 .. Len(h) /\ k # j
    BY <2>1
  <2> QED BY <1>2, <2>1, <2>2 DEF Once
<1> QED BY <1>1, <1>2

\* Rows of one content are one entry.
LEMMA ContentApart ==
  ASSUME Awaited, NEW d \in Entries, NEW e \in Entries, Content(d) = Content(e)
  PROVE  d = e
<1>1. d.role \in {"user", "assistant"} /\ e.role \in {"user", "assistant"} /\ d.of \in Requests /\ e.of \in Requests
  BY DEF Entries
<1>2. d.role = e.role /\ d.of = e.of
  BY <1>1 DEF Content, Awaited
<1> QED BY <1>2 DEF Entries

\* A row is in the history once it was inserted, whether it was there before or not.
LEMMA InsertedFacts ==
  ASSUME Awaited, NEW h \in Seq(Entries), Once(h), Follows(h), NEW e \in Entries,
         e.role = "assistant" => Question(e.of) \in Held(h)
  PROVE  /\ Inserted(h, e) \in Seq(Entries) /\ Once(Inserted(h, e)) /\ Follows(Inserted(h, e))
         /\ Held(Inserted(h, e)) = Held(h) \cup {e}
<1>1. CASE \E d \in Held(h) : Content(d) = Content(e)
  <2>1. PICK d \in Held(h) : Content(d) = Content(e)
    BY <1>1
  <2>2. d \in Entries
    BY DEF Held
  <2>3. d = e
    BY <2>1, <2>2, ContentApart
  <2> QED BY <1>1, <2>1, <2>3 DEF Inserted
<1>2. CASE ~\E d \in Held(h) : Content(d) = Content(e)
  <2>1. Inserted(h, e) = Append(h, e) /\ e \notin Held(h)
    BY <1>2 DEF Inserted
  <2>2. PICK n \in Nat : n = Len(h)
    OBVIOUS
  <2>3. /\ Append(h, e)[n + 1] = e /\ \A i \in 1 .. n : Append(h, e)[i] = h[i]
        /\ DOMAIN Append(h, e) = 1 .. n + 1 /\ DOMAIN h = 1 .. n
    BY <2>2
  <2>4. \A i \in 1 .. n + 1 : i \in 1 .. n \/ i = n + 1
    BY <2>2
  <2>5. \A i \in 1 .. n : h[i] # e
    BY <2>1, <2>3 DEF Held
  <2>6. Once(Append(h, e))
    <3> SUFFICES ASSUME NEW i \in 1 .. n + 1, NEW j \in 1 .. n + 1, Append(h, e)[i] = Append(h, e)[j]
                 PROVE  i = j
      BY <2>3 DEF Once
    <3> QED BY <2>3, <2>4, <2>5 DEF Once
  <2>7. Follows(Append(h, e))
    <3> SUFFICES ASSUME NEW i \in 1 .. n + 1, Append(h, e)[i].role = "assistant"
                 PROVE  \E j \in 1 .. i : Append(h, e)[j] = Question(Append(h, e)[i].of)
      BY <2>3 DEF Follows
    <3>1. CASE i \in 1 .. n
      <4>1. PICK j \in 1 .. i : h[j] = Question(h[i].of)
        BY <2>3, <3>1 DEF Follows
      <4>2. j \in 1 .. n
        BY <2>2, <3>1, <4>1
      <4> QED BY <2>3, <3>1, <4>1, <4>2
    <3>2. CASE i = n + 1
      <4>1. PICK j \in 1 .. n : h[j] = Question(e.of)
        BY <2>3, <3>2 DEF Held
      <4>2. j \in 1 .. i
        BY <2>2, <3>2, <4>1
      <4> QED BY <2>3, <3>2, <4>1, <4>2
    <3> QED BY <2>4, <3>1, <3>2
  <2>8. Append(h, e) \in Seq(Entries)
    OBVIOUS
  <2> QED BY <2>1, <2>6, <2>7, <2>8, HeldAppend
<1> QED BY <1>1, <1>2

\* What fits a handler fits it where it may move to,
LEMMA FitsLeads ==
  ASSUME NEW r, NEW x, NEW s, NEW said, NEW kept, NEW sent, NEW given, NEW more,
         Fits(r, x, said, kept, sent, given), Leads(x, s), "answer" \in Held(more) => "answer" \in Held(sent)
  PROVE  Fits(r, s, said, kept, more, given)
BY Zenon DEF Fits, Leads

\* and fits when more is kept, and nothing more is said of its message.
LEMMA FitsGrows ==
  ASSUME NEW r, NEW s, NEW said, NEW kept, NEW sent, NEW given,
         Fits(r, s, said, kept, sent, given),
         NEW more, NEW longer, kept \subseteq longer,
         Question(r) \in more => Question(r) \in said, Answer(r) \in more => Answer(r) \in said
  PROVE  Fits(r, s, more, longer, sent, given)
BY Zenon DEF Fits

\* The memory, the history and what the agent was given stay.
TalkStays == UNCHANGED <<memory, history, saving, heard, version>>

\* No answer is sent.
NoNewAnswer == \A r \in Requests : "answer" \in Held(replies'[r]) => "answer" \in Held(replies[r])

\* Handlers that move as they may, and say nothing, keep the invariant;
LEMMA HandlersMove ==
  ASSUME TalkInv, ReplyInv', TalkStays, NoNewAnswer, \A r \in Requests : Leads(stage[r], stage'[r])
  PROVE  TalkInv'
<1>1. UNCHANGED <<memory, history, saving, heard, version>>
  BY DEF TalkStays
<1>2. AllFit'
  <2> SUFFICES ASSUME NEW r \in Requests
               PROVE  Fits(r, stage'[r], Held(memory) \cup Held(history), Held(history), replies'[r], heard[r])
    BY <1>1 DEF AllFit
  <2>1. Fits(r, stage[r], Held(memory) \cup Held(history), Held(history), replies[r], heard[r])
    BY DEF TalkInv, AllFit
  <2>2. Leads(stage[r], stage'[r]) /\ ("answer" \in Held(replies'[r]) => "answer" \in Held(replies[r]))
    BY DEF NoNewAnswer
  <2> QED BY <2>1, <2>2, FitsLeads
<1>3. /\ (version = "V1")' /\ (saving = {})' /\ (heard = [r \in Requests |-> heard[r]])'
      /\ (memory \in Seq(Entries))' /\ Ordered(memory)'
      /\ (history \in Seq(Entries))' /\ Once(history)' /\ Follows(history)'
  BY <1>1 DEF TalkInv
<1> QED BY <1>2, <1>3 DEF TalkInv

\* a handler may stay where it is,
LEMMA LeadsBack == \A x : Leads(x, x)
BY DEF Leads

\* and one of them may move alone.
LEMMA OneMoves ==
  ASSUME TalkInv, ReplyInv', TalkStays, NoNewAnswer, NEW r \in Requests, NEW s, Go(r, s), Leads(stage[r], s)
  PROVE  TalkInv'
<1>1. \A q \in Requests : Leads(stage[q], stage'[q])
  BY LeadsBack DEF Go, TalkInv, ReplyInv
<1> QED BY <1>1, HandlersMove

\* Without a reply there is no answer,
LEMMA NoReply == ASSUME UNCHANGED replies PROVE NoNewAnswer
BY DEF NoNewAnswer

\* nor with a reply of another kind.
LEMMA OtherReply ==
  ASSUME ReplyInv, NEW r \in Requests, NEW k \in Kinds \ {"answer"}, replies' = [replies EXCEPT ![r] = Append(@, k)]
  PROVE  NoNewAnswer
<1>1. replies[r] \in Seq(Kinds)
  BY DEF ReplyInv
<1>2. Held(Append(replies[r], k)) = Held(replies[r]) \cup {k}
  BY <1>1, HeldAppend
<1>3. replies'[r] = Append(replies[r], k) /\ \A q \in Requests : q # r => replies'[q] = replies[q]
  BY DEF ReplyInv
<1> QED BY <1>2, <1>3 DEF NoNewAnswer

\* A reply that is not the answer, sent or thrown, is such a move.
LEMMA ReplyMovesOn ==
  ASSUME TalkInv, ReplyInv', TalkStays, NEW r \in Requests, NEW k \in Kinds \ {"answer"}, NEW s, NEW t,
         Reply(r, k, s, t), Leads(stage[r], s), Leads(stage[r], t)
  PROVE  TalkInv'
<1>0. ReplyInv
  BY DEF TalkInv
<1>1. CASE replies' = [replies EXCEPT ![r] = Append(@, k)] /\ Go(r, s)
  BY <1>0, <1>1, OtherReply, OneMoves
<1>2. CASE Go(r, t) /\ UNCHANGED replies
  BY <1>2, NoReply, OneMoves
<1> QED BY <1>1, <1>2 DEF Reply

\* A message enters the session.
LEMMA QuestionSaid ==
  ASSUME TalkInv, ReplyInv', NEW r \in Requests, OpenSession(r)
  PROVE  TalkInv'
<1>1. /\ stage[r] = "session" /\ memory' = Append(memory, Question(r)) /\ Go(r, "saveQuestion")
      /\ UNCHANGED <<replies, history, saving, heard, version>> /\ version = "V1"
  BY DEF OpenSession, TalkInv, V2
<1>2. memory \in Seq(Entries) /\ Ordered(memory) /\ AllFit
  BY DEF TalkInv
<1>3. stage' = [stage EXCEPT ![r] = "saveQuestion"] /\ stage \in [Requests -> Stages]
  BY <1>1 DEF Go, TalkInv, ReplyInv
<1>4. Fits(r, "session", Held(memory) \cup Held(history), Held(history), replies[r], heard[r])
  BY <1>1, <1>2 DEF AllFit
<1>5. Question(r) \notin Held(memory) \cup Held(history) /\ Answer(r) \notin Held(memory) \cup Held(history)
  BY <1>4 DEF Fits, BeforeSession, Replied
<1>6. memory' \in Seq(Entries) /\ Ordered(memory')
  BY <1>1, <1>2, <1>5, OrderedAppend, EntryFacts
<1>7. Held(memory') = Held(memory) \cup {Question(r)}
  BY <1>1, <1>2, HeldAppend
<1>8. ASSUME NEW q \in Requests
      PROVE  Fits(q, stage'[q], Held(memory') \cup Held(history), Held(history), replies[q], heard[q])
  <2>1. CASE q = r
    <3>1. stage'[q] = "saveQuestion"
      BY <1>3, <2>1
    <3>2. Answer(r) \notin Held(memory') \cup Held(history)
      BY <1>5, <1>7, EntryFacts
    <3>3. heard[r] = << >> /\ "answer" \notin Held(replies[r])
      BY <1>4, <1>5 DEF Fits
    <3> QED BY <2>1, <3>1, <3>2, <3>3 DEF Fits, BeforeSession, QuestionSaved
  <2>2. CASE q # r
    <3>1. stage'[q] = stage[q]
      BY <1>3, <2>2
    <3>2. Fits(q, stage[q], Held(memory) \cup Held(history), Held(history), replies[q], heard[q])
      BY <1>2 DEF AllFit
    <3>3. /\ Question(q) \in Held(memory') \cup Held(history) => Question(q) \in Held(memory) \cup Held(history)
          /\ Answer(q) \in Held(memory') \cup Held(history) => Answer(q) \in Held(memory) \cup Held(history)
      BY <1>7, <2>2, EntryFacts
    <3> QED BY <3>1, <3>2, <3>3, FitsGrows
  <2> QED BY <2>1, <2>2
<1>9. AllFit'
  BY <1>1, <1>8 DEF AllFit
<1> QED BY <1>1, <1>6, <1>9 DEF TalkInv

\* An entry is saved: an answer after its question.
LEMMA EntrySaved ==
  ASSUME TalkInv, ReplyInv', Awaited, NEW r \in Requests, NEW e \in {Question(r), Answer(r)}, NEW s,
         Save(e), Go(r, s), UNCHANGED <<replies, memory, saving, heard, version>>,
         e = Question(r) => stage[r] = "saveQuestion" /\ s = "recovery",
         e = Answer(r) => stage[r] = "saveAnswer" /\ s = "closing"
  PROVE  TalkInv'
<1>1. history' = Inserted(history, e)
  BY DEF Save, Fault, Awaited
<1>2. history \in Seq(Entries) /\ Once(history) /\ Follows(history) /\ AllFit
  BY DEF TalkInv
<1>3. stage' = [stage EXCEPT ![r] = s] /\ stage \in [Requests -> Stages]
  BY DEF Go, TalkInv, ReplyInv
<1>4. Fits(r, stage[r], Held(memory) \cup Held(history), Held(history), replies[r], heard[r])
  BY <1>2 DEF AllFit
<1>5. e \in Entries
  BY EntryFacts
<1>6. e.role = "assistant" => Question(e.of) \in Held(history)
  <2>1. CASE e = Question(r)
    BY <2>1, EntryFacts
  <2>2. CASE e = Answer(r)
    <3>1. Question(r) \in Held(history)
      BY <1>4, <2>2 DEF Fits, QuestionSaved
    <3> QED BY <2>2, <3>1, EntryFacts
  <2> QED BY <2>1, <2>2
<1>7. /\ history' \in Seq(Entries) /\ Once(history') /\ Follows(history')
      /\ Held(history') = Held(history) \cup {e}
  BY <1>1, <1>2, <1>5, <1>6, InsertedFacts
<1>8. ASSUME NEW q \in Requests
      PROVE  Fits(q, stage'[q], Held(memory) \cup Held(history'), Held(history'), replies[q], heard[q])
  <2>1. CASE q = r /\ e = Question(r)
    <3>1. stage'[q] = "recovery" /\ stage[r] = "saveQuestion"
      BY <1>3, <2>1
    <3>2. Answer(r) \notin Held(memory) \cup Held(history')
      BY <1>4, <1>7, <2>1, <3>1, EntryFacts DEF Fits, Replied
    <3>3. "answer" \notin Held(replies[r])
      BY <1>4, <1>7, <3>1, <3>2 DEF Fits
    <3>4. Question(r) \in Held(history')
      BY <1>7, <2>1
    <3> QED BY <2>1, <3>1, <3>2, <3>3, <3>4 DEF Fits, BeforeSession
  <2>2. CASE q = r /\ e = Answer(r)
    <3>1. stage'[q] = "closing"
      BY <1>3, <2>2
    <3>2. Question(r) \in Held(history') /\ Answer(r) \in Held(history')
      BY <1>4, <1>7, <2>2 DEF Fits, QuestionSaved
    <3> QED BY <2>2, <3>1, <3>2 DEF Fits, BeforeSession, Replied
  <2>3. CASE q # r
    <3>1. stage'[q] = stage[q]
      BY <1>3, <2>3
    <3>2. Fits(q, stage[q], Held(memory) \cup Held(history), Held(history), replies[q], heard[q])
      BY <1>2 DEF AllFit
    <3>3. /\ Question(q) \in Held(memory) \cup Held(history') => Question(q) \in Held(memory) \cup Held(history)
          /\ Answer(q) \in Held(memory) \cup Held(history') => Answer(q) \in Held(memory) \cup Held(history)
      BY <1>7, <2>3, EntryFacts
    <3>4. Held(history) \subseteq Held(history')
      BY <1>7
    <3> QED BY <3>1, <3>2, <3>3, <3>4, FitsGrows
  <2> QED BY <2>1, <2>2, <2>3
<1>9. AllFit'
  BY <1>8 DEF AllFit
<1> QED BY <1>7, <1>9 DEF TalkInv

\* An answer is sent, and said with that.
LEMMA AnswerSaid ==
  ASSUME TalkInv, ReplyInv', NEW r \in Requests, stage[r] = "respond", Go(r, "saveAnswer"),
         replies' = [replies EXCEPT ![r] = Append(@, "answer")], memory' = Append(memory, Answer(r)),
         UNCHANGED <<history, saving, heard, version>>
  PROVE  TalkInv'
<1>1. memory \in Seq(Entries) /\ Ordered(memory) /\ AllFit
  BY DEF TalkInv
<1>2. /\ stage' = [stage EXCEPT ![r] = "saveAnswer"] /\ stage \in [Requests -> Stages]
      /\ \A q \in Requests : q # r => replies'[q] = replies[q]
  BY DEF Go, TalkInv, ReplyInv
<1>3. Fits(r, stage[r], Held(memory) \cup Held(history), Held(history), replies[r], heard[r])
  BY <1>1 DEF AllFit
<1>4. Answer(r) \notin Held(memory) \cup Held(history)
  BY <1>3 DEF Fits, Replied
<1>5. memory' \in Seq(Entries) /\ Ordered(memory')
  BY <1>1, <1>4, OrderedAppend, EntryFacts
<1>6. Held(memory') = Held(memory) \cup {Answer(r)}
  BY <1>1, HeldAppend
<1>7. ASSUME NEW q \in Requests
      PROVE  Fits(q, stage'[q], Held(memory') \cup Held(history), Held(history), replies'[q], heard[q])
  <2>1. CASE q = r
    <3>1. stage'[q] = "saveAnswer"
      BY <1>2, <2>1
    <3>2. Question(r) \in Held(history)
      BY <1>3 DEF Fits, QuestionSaved
    <3> QED BY <2>1, <3>1, <3>2 DEF Fits, BeforeSession, Replied
  <2>2. CASE q # r
    <3>1. stage'[q] = stage[q] /\ replies'[q] = replies[q]
      BY <1>2, <2>2
    <3>2. Fits(q, stage[q], Held(memory) \cup Held(history), Held(history), replies[q], heard[q])
      BY <1>1 DEF AllFit
    <3>3. /\ Question(q) \in Held(memory') \cup Held(history) => Question(q) \in Held(memory) \cup Held(history)
          /\ Answer(q) \in Held(memory') \cup Held(history) => Answer(q) \in Held(memory) \cup Held(history)
      BY <1>6, <2>2, EntryFacts
    <3> QED BY <3>1, <3>2, <3>3, FitsGrows
  <2> QED BY <2>1, <2>2
<1>8. AllFit'
  BY <1>7 DEF AllFit
<1> QED BY <1>5, <1>8 DEF TalkInv

\* The agent is given what is in the memory, by a handler whose question is saved.
LEMMA AgentGiven ==
  ASSUME TalkInv, ReplyInv', NEW r \in Requests, stage[r] = "agent", Go(r, "running"),
         heard' = [heard EXCEPT ![r] = memory], UNCHANGED <<replies, memory, history, saving, version>>
  PROVE  TalkInv'
<1>1. AllFit /\ stage' = [stage EXCEPT ![r] = "running"] /\ stage \in [Requests -> Stages]
  BY DEF Go, TalkInv, ReplyInv
<1>2. ASSUME NEW q \in Requests
      PROVE  Fits(q, stage'[q], Held(memory) \cup Held(history), Held(history), replies[q], heard'[q])
  <2>1. Fits(q, stage[q], Held(memory) \cup Held(history), Held(history), replies[q], heard[q])
    BY <1>1 DEF AllFit
  <2>2. CASE q = r
    <3>1. stage'[q] = "running" /\ stage[q] = "agent"
      BY <1>1, <2>2
    <3> QED BY <2>1, <3>1 DEF Fits, QuestionSaved, BeforeSession, Replied
  <2>3. CASE q # r
    <3>1. stage'[q] = stage[q] /\ heard'[q] = heard[q]
      BY <1>1, <2>3 DEF TalkInv
    <3> QED BY <2>1, <3>1
  <2> QED BY <2>2, <2>3
<1>3. AllFit'
  BY <1>2 DEF AllFit
<1>4. heard' = [q \in Requests |-> heard'[q]]
  BY DEF TalkInv
<1> QED BY <1>3, <1>4 DEF TalkInv

\* The memory is cleared, or holds the history from now on.
LEMMA MemorySet ==
  ASSUME TalkInv, ReplyInv', memory' \in {<< >>, history}, UNCHANGED <<replies, history, saving, heard, version>>,
         \A r \in Requests : Leads(stage[r], stage'[r])
  PROVE  TalkInv'
<1>1. AllFit
  BY DEF TalkInv
<1>2. << >> \in Seq(Entries) /\ Held(<< >>) = {} /\ Ordered(<< >>)
  BY DEF Held, Ordered
<1>3. memory' \in Seq(Entries) /\ Ordered(memory') /\ Held(memory') \subseteq Held(history)
  <2>1. history \in Seq(Entries) /\ Ordered(history)
    BY HistoryOrdered DEF TalkInv
  <2> QED BY <1>2, <2>1
<1>4. ASSUME NEW r \in Requests
      PROVE  Fits(r, stage'[r], Held(memory') \cup Held(history), Held(history), replies[r], heard[r])
  <2>1. Fits(r, stage[r], Held(memory) \cup Held(history), Held(history), replies[r], heard[r])
    BY <1>1 DEF AllFit
  <2>2. Fits(r, stage'[r], Held(memory) \cup Held(history), Held(history), replies[r], heard[r])
    BY <2>1, FitsLeads
  <2>3. /\ Question(r) \in Held(memory') \cup Held(history) => Question(r) \in Held(memory) \cup Held(history)
        /\ Answer(r) \in Held(memory') \cup Held(history) => Answer(r) \in Held(memory) \cup Held(history)
    BY <1>3
  <2> QED BY <2>2, <2>3, FitsGrows
<1>5. AllFit'
  BY <1>4 DEF AllFit
<1> QED BY <1>3, <1>5 DEF TalkInv

\* The process restarts: nothing but the history is left.
LEMMA TalkRestarts == ASSUME TalkInv, ReplyInv', Restart PROVE TalkInv'
<1>1. /\ stage' = [r \in Requests |-> IF stage[r] \in {"new", "done"} THEN stage[r] ELSE "lost"]
      /\ memory' = << >> /\ saving' = {} /\ heard' = [r \in Requests |-> << >>]
      /\ replies' = replies /\ history' = history /\ version' = version
  BY DEF Restart
<1>2. << >> \in Seq(Entries) /\ Held(<< >>) = {} /\ Ordered(<< >>)
  BY DEF Held, Ordered
<1>3. ASSUME NEW r \in Requests
      PROVE  Fits(r, stage'[r], {} \cup Held(history), Held(history), replies[r], << >>)
  <2>1. Fits(r, stage[r], Held(memory) \cup Held(history), Held(history), replies[r], heard[r])
    BY DEF TalkInv, AllFit
  <2>2. CASE stage[r] = "new" /\ stage'[r] = "new"
    BY <2>1, <2>2 DEF Fits, BeforeSession, Replied, QuestionSaved
  <2>3. CASE stage[r] = "done" /\ stage'[r] = "done"
    BY <2>1, <2>3 DEF Fits, BeforeSession, Replied, QuestionSaved
  <2>4. CASE stage'[r] = "lost"
    BY <2>1, <2>4 DEF Fits, BeforeSession, Replied, QuestionSaved
  <2> QED BY <1>1, <2>2, <2>3, <2>4
<1>4. AllFit'
  BY <1>1, <1>2, <1>3 DEF AllFit
<1>5. heard' = [r \in Requests |-> heard'[r]]
  BY <1>1
<1> QED BY <1>1, <1>2, <1>4, <1>5 DEF TalkInv

\* A slot that is given back moves its holder and one that waits.
LEMMA FreedMoves ==
  ASSUME TalkInv, ReplyInv', TalkStays, NoNewAnswer, NEW r \in Requests, NEW s, Freed(r, s), Leads(stage[r], s)
  PROVE  TalkInv'
<1> DEFINE queue == {w \in Requests : stage[w] = "waiting" /\ ~acquired[w]}
           left == [stage EXCEPT ![r] = s]
<1>0. stage \in [Requests -> Stages]
  BY DEF TalkInv, ReplyInv
<1>1. CASE stage' = left
  <2>1. Go(r, s)
    BY <1>1 DEF Go
  <2> QED BY <2>1, OneMoves
<1>2. ASSUME NEW w \in queue, stage' = Granted(left, w) PROVE TalkInv'
  <2>1. stage' = [left EXCEPT ![w] = "session"] /\ stage[w] = "waiting"
    BY <1>2 DEF Granted
  <2>2. Leads("waiting", "session")
    BY DEF Leads, BeforeSession, Replied, QuestionSaved
  <2>3. \A q \in Requests : Leads(stage[q], stage'[q])
    BY <1>0, <2>1, <2>2, LeadsBack
  <2> QED BY <2>3, HandlersMove
<1> QED BY <1>1, <1>2 DEF Freed, Go

\* At the start nothing is said.
LEMMA TalkInit == ASSUME Awaited, PipelineInit PROVE TalkInv
<1>1. ReplyInv
  BY ReplyInit
<1>2. << >> \in Seq(Entries) /\ Held(<< >>) = {} /\ Ordered(<< >>) /\ Once(<< >>) /\ Follows(<< >>)
  BY DEF Held, Ordered, Once, Follows
<1>3. AllFit
  BY <1>2 DEF PipelineInit, AllFit, Fits, QuestionSaved
<1> QED BY <1>1, <1>2, <1>3 DEF PipelineInit, TalkInv, Awaited

\* Every step keeps the invariant.
LEMMA TalkNext == ASSUME Awaited, TalkInv, [PipelineNext]_pipelineVars PROVE TalkInv'
<1>0. /\ ReplyInv' /\ version = "V1" /\ saving = {} /\ stage \in [Requests -> Stages]
  <2>1. ReplyInv
    BY DEF TalkInv
  <2> QED BY <2>1, ReplyNext DEF TalkInv, ReplyInv
<1>2. ASSUME NEW r \in Requests, NEW s, Go(r, s), Leads(stage[r], s), TalkStays, UNCHANGED replies
      PROVE  TalkInv'
  BY <1>0, <1>2, OneMoves, NoReply
<1>3. ASSUME NEW r \in Requests, Receive(r) PROVE TalkInv'
  <2>1. stage[r] = "new" /\ TalkStays
    BY <1>3 DEF Receive, memoryVars, TalkStays
  <2>2. Leads("new", "intercept") /\ Leads("new", "done") /\ Leads("new", "failed")
    BY DEF Leads, BeforeSession, Replied, QuestionSaved
  <2>3. "limited" \in Kinds \ {"answer"}
    BY DEF Kinds
  <2> QED BY <1>0, <1>2, <1>3, <2>1, <2>2, <2>3, ReplyMovesOn DEF Receive
<1>4. ASSUME NEW r \in Requests, Intercept(r) PROVE TalkInv'
  <2>1. stage[r] = "intercept" /\ TalkStays
    BY <1>4 DEF Intercept, memoryVars, TalkStays
  <2>2. Leads("intercept", "guard") /\ Leads("intercept", "done")
    BY DEF Leads, BeforeSession, Replied, QuestionSaved
  <2>3. "greeting" \in Kinds \ {"answer"} /\ "intercepted" \in Kinds \ {"answer"}
    BY DEF Kinds
  <2> QED BY <1>0, <1>2, <1>4, <2>1, <2>2, <2>3, ReplyMovesOn DEF Intercept
<1>5. ASSUME NEW r \in Requests, Guard(r) PROVE TalkInv'
  <2>1. stage[r] = "guard" /\ TalkStays
    BY <1>5 DEF Guard, memoryVars, TalkStays
  <2>2. Leads("guard", "slot") /\ Leads("guard", "done") /\ Leads("guard", "failed")
    BY DEF Leads, BeforeSession, Replied, QuestionSaved
  <2>3. "disabled" \in Kinds \ {"answer"}
    BY DEF Kinds
  <2> QED BY <1>0, <1>2, <1>5, <2>1, <2>2, <2>3, ReplyMovesOn DEF Guard
<1>6. ASSUME NEW r \in Requests, AskSlot(r) \/ WaitExpired(r) PROVE TalkInv'
  <2>1. stage[r] \in {"slot", "waiting"} /\ TalkStays
    BY <1>6 DEF AskSlot, WaitExpired, memoryVars, TalkStays
  <2>2. \A x \in {"slot", "waiting"} : Leads(x, "session") /\ Leads(x, "waiting") /\ Leads(x, "done") /\ Leads(x, "failed")
    BY DEF Leads, BeforeSession, Replied, QuestionSaved
  <2>3. "busy" \in Kinds \ {"answer"}
    BY DEF Kinds
  <2>4. CASE Reply(r, "busy", "done", "failed")
    BY <1>0, <2>1, <2>2, <2>3, <2>4, ReplyMovesOn
  <2>5. CASE (Go(r, "session") \/ Go(r, "waiting")) /\ UNCHANGED replies
    BY <1>2, <2>1, <2>2, <2>5
  <2> QED BY <1>6, <2>4, <2>5 DEF AskSlot, WaitExpired, Refused
<1>7. ASSUME NEW r \in Requests, OpenSession(r) PROVE TalkInv'
  BY <1>0, <1>7, QuestionSaid
<1>8. ASSUME NEW r \in Requests, SaveQuestion(r) PROVE TalkInv'
  <2>1. /\ stage[r] = "saveQuestion" /\ Save(Question(r)) /\ Go(r, "recovery")
        /\ UNCHANGED <<replies, memory, saving, heard, version>>
    BY <1>8 DEF SaveQuestion
  <2>2. Question(r) # Answer(r) /\ Question(r) \in {Question(r), Answer(r)}
    BY EntryFacts
  <2> QED BY <1>0, <2>1, <2>2, EntrySaved
<1>9. ASSUME NEW r \in Requests, CheckMemory(r) PROVE TalkInv'
  <2>1. stage[r] = "recovery" /\ TalkStays /\ UNCHANGED replies
    BY <1>9 DEF CheckMemory, memoryVars, TalkStays
  <2>2. Leads("recovery", "recovering") /\ Leads("recovery", "context")
    BY DEF Leads, BeforeSession, Replied, QuestionSaved
  <2>3. Go(r, "recovering") \/ Go(r, "context")
    BY <1>9 DEF CheckMemory
  <2> QED BY <1>2, <2>1, <2>2, <2>3
<1>10. ASSUME NEW r \in Requests, Recover(r) PROVE TalkInv'
  <2>1. stage[r] = "recovering" /\ Go(r, "context") /\ UNCHANGED <<replies, history, saving, heard, version>>
    BY <1>10 DEF Recover
  <2>2. Leads("recovering", "context")
    BY DEF Leads, BeforeSession, Replied, QuestionSaved
  <2>3. CASE memory' = memory
    <3>1. TalkStays
      BY <2>1, <2>3 DEF TalkStays
    <3> QED BY <1>2, <2>1, <2>2, <3>1
  <2>4. CASE memory' = history
    <3>1. \A q \in Requests : Leads(stage[q], stage'[q])
      BY <1>0, <2>1, <2>2, LeadsBack DEF Go
    <3> QED BY <1>0, <2>1, <2>4, <3>1, MemorySet
  <2> QED BY <1>10, <2>3, <2>4 DEF Recover, Recovered
<1>11. ASSUME NEW r \in Requests, Assemble(r) PROVE TalkInv'
  <2>1. stage[r] = "context" /\ TalkStays /\ UNCHANGED replies /\ (Go(r, "agent") \/ Go(r, "failed"))
    BY <1>11 DEF Assemble, memoryVars, TalkStays
  <2>2. Leads("context", "agent") /\ Leads("context", "failed")
    BY DEF Leads, BeforeSession, Replied, QuestionSaved
  <2> QED BY <1>2, <2>1, <2>2
<1>12. ASSUME NEW r \in Requests, Run(r) PROVE TalkInv'
  <2>1. stage[r] = "agent" /\ UNCHANGED <<memory, history, saving, version>>
    BY <1>12 DEF Run
  <2>2. CASE memory = << >>
    <3>1. Reply(r, "noHistory", "closing", "failed") /\ TalkStays
      BY <1>12, <2>1, <2>2 DEF Run, TalkStays
    <3>2. Leads("agent", "closing") /\ Leads("agent", "failed") /\ "noHistory" \in Kinds \ {"answer"}
      BY DEF Leads, BeforeSession, Replied, QuestionSaved, Kinds
    <3> QED BY <1>0, <2>1, <3>1, <3>2, ReplyMovesOn
  <2>3. CASE memory # << >>
    <3>1. heard' = [heard EXCEPT ![r] = memory] /\ Go(r, "running") /\ UNCHANGED replies
      BY <1>12, <2>3 DEF Run
    <3> QED BY <1>0, <2>1, <3>1, AgentGiven
  <2> QED BY <2>2, <2>3
<1>13. ASSUME NEW r \in Requests, Return(r) PROVE TalkInv'
  <2>1. stage[r] = "running" /\ TalkStays /\ UNCHANGED replies /\ (Go(r, "respond") \/ Go(r, "closing") \/ Go(r, "failed"))
    BY <1>0, <1>13 DEF Return, V2, TalkStays
  <2>2. Leads("running", "respond") /\ Leads("running", "closing") /\ Leads("running", "failed")
    BY DEF Leads, BeforeSession, Replied, QuestionSaved
  <2> QED BY <1>2, <2>1, <2>2
<1>14. ASSUME NEW r \in Requests, Respond(r) PROVE TalkInv'
  <2>1. /\ stage[r] = "respond" /\ UNCHANGED <<history, heard, version>> /\ Reply(r, "answer", "saveAnswer", "failed")
        /\ replies' = replies => UNCHANGED <<memory, saving>>
        /\ replies' # replies => memory' = Append(memory, Answer(r)) /\ saving' = saving
    BY <1>0, <1>14 DEF Respond, V2
  <2>2. CASE replies' = [replies EXCEPT ![r] = Append(@, "answer")] /\ Go(r, "saveAnswer")
    <3>1. replies[r] \in Seq(Kinds) /\ replies'[r] = Append(replies[r], "answer")
      BY <2>2 DEF TalkInv, ReplyInv
    <3>2. Len(Append(replies[r], "answer")) = Len(replies[r]) + 1 /\ Len(replies[r]) \in Nat
      BY <3>1
    <3>3. replies' # replies
      BY <3>1, <3>2
    <3> QED BY <1>0, <2>1, <2>2, <3>3, AnswerSaid
  <2>3. CASE Go(r, "failed") /\ UNCHANGED replies
    <3>1. TalkStays
      BY <2>1, <2>3 DEF TalkStays
    <3>2. Leads("respond", "failed")
      BY DEF Leads, BeforeSession, Replied, QuestionSaved
    <3> QED BY <1>2, <2>1, <2>3, <3>1, <3>2
  <2> QED BY <2>1, <2>2, <2>3 DEF Reply
<1>15. ASSUME NEW r \in Requests, SaveAnswer(r) PROVE TalkInv'
  <2>1. /\ stage[r] = "saveAnswer" /\ Save(Answer(r)) /\ Go(r, "closing")
        /\ UNCHANGED <<replies, memory, saving, heard, version>>
    BY <1>15 DEF SaveAnswer
  <2>2. Question(r) # Answer(r) /\ Answer(r) \in {Question(r), Answer(r)}
    BY EntryFacts
  <2> QED BY <1>0, <2>1, <2>2, EntrySaved
<1>16. ASSUME NEW r \in Requests, Close(r) PROVE TalkInv'
  <2>1. stage[r] = "closing" /\ Freed(r, "done") /\ TalkStays /\ UNCHANGED replies
    BY <1>16 DEF Close, memoryVars, TalkStays
  <2>2. Leads("closing", "done")
    BY DEF Leads, BeforeSession, Replied, QuestionSaved
  <2> QED BY <1>0, <2>1, <2>2, FreedMoves, NoReply
<1>17. ASSUME NEW r \in Requests, Fail(r) \/ Apologise(r) PROVE TalkInv'
  <2>1. stage[r] \in {"failed", "apology"} /\ TalkStays
    BY <1>17 DEF Fail, Apologise, memoryVars, TalkStays
  <2>2. Leads("failed", "closing") /\ Leads("apology", "done") /\ "error" \in Kinds \ {"answer"}
    BY DEF Leads, BeforeSession, Replied, QuestionSaved, Kinds
  <2>3. \/ stage[r] = "failed" /\ Reply(r, "error", "closing", "closing")
        \/ stage[r] = "apology" /\ Reply(r, "error", "done", "done")
    BY <1>0, <1>17 DEF Fail, Apologise, V2
  <2> QED BY <1>0, <2>1, <2>2, <2>3, ReplyMovesOn
<1>18. ASSUME NEW e \in Entries, SaveDone(e) PROVE TalkInv'
  BY <1>0, <1>18 DEF SaveDone
<1>19. CASE Idle \/ UNCHANGED pipelineVars
  <2>1. UNCHANGED stage /\ TalkStays /\ UNCHANGED replies
    BY <1>19 DEF Idle, pipelineVars, requestVars, TalkStays
  <2>2. \A q \in Requests : Leads(stage[q], stage'[q])
    BY <2>1, LeadsBack
  <2> QED BY <1>0, <2>1, <2>2, HandlersMove, NoReply
<1>20. CASE Indexed
  <2>1. memory' = << >> /\ UNCHANGED <<stage, replies, history, saving, heard, version>>
    BY <1>20 DEF Indexed, requestVars
  <2>2. \A q \in Requests : Leads(stage[q], stage'[q])
    BY <2>1, LeadsBack
  <2> QED BY <1>0, <2>1, <2>2, MemorySet
<1>21. CASE Restart
  BY <1>0, <1>21, TalkRestarts
<1> QED BY <1>3, <1>4, <1>5, <1>6, <1>7, <1>8, <1>9, <1>10, <1>11, <1>12, <1>13, <1>14, <1>15,
           <1>16, <1>17, <1>18, <1>19, <1>20, <1>21
        DEF PipelineNext, Proceed

\* When a handler is done, what it owes the history is there.
LEMMA TalkSuffices == TalkInv => ConversationFaithful
<1> SUFFICES ASSUME TalkInv PROVE ConversationFaithful
  OBVIOUS
<1>1. ConversationInOrder /\ HistoryInOrder
  BY DEF TalkInv, ConversationInOrder, HistoryInOrder, Ordered, Follows
<1>2. ASSUME NEW r \in Requests, stage[r] = "done", heard[r] # << >>
      PROVE  /\ Question(r) \in Held(history)
             /\ "answer" \in Held(replies[r]) => Answer(r) \in Held(history)
  <2>1. Fits(r, "done", Held(memory) \cup Held(history), Held(history), replies[r], heard[r])
    BY <1>2 DEF TalkInv, AllFit
  <2> QED BY <1>2, <2>1 DEF Fits
<1>3. AllSaved
  BY <1>2 DEF AllSaved
<1> QED BY <1>1, <1>3 DEF ConversationFaithful

\* With awaited saves that do not fail, and texts that differ, the conversation is
\* kept in both places, completely and in order, whatever else fails, is cleared,
\* recovered or restarted meanwhile.
THEOREM ConversationKeptFaithfully ==
  ASSUME Versions = {"V1"}, "save" \notin Faulty, \A q, r \in Requests : TextOf[q] = TextOf[r] => q = r
  PROVE  PipelineSpec => []ConversationFaithful
<1>1. Awaited
  BY DEF Awaited
<1>2. PipelineInit => TalkInv
  BY <1>1, TalkInit
<1>3. TalkInv /\ [PipelineNext]_pipelineVars => TalkInv'
  BY <1>1, TalkNext
<1> QED BY <1>2, <1>3, TalkSuffices, PTL DEF PipelineSpec

-----------------------------------------------------------------------------
(* The types: what is said, and the counts of the slots and the faults.     *)

\* What is said is said by the sender of a request or by the agent that answers it.
TalkTypes ==
  /\ memory \in Seq(Entries) /\ history \in Seq(Entries) /\ indexing.messages \in Seq(Entries)
  /\ saving \subseteq Entries /\ session \in BOOLEAN

\* No more slots are taken, and no more fails and restarts, than there may.
CountsInBounds ==
  /\ slots <= MaxSlots
  /\ faults \in 0 .. MaxFaults /\ restarts \in 0 .. MaxRestarts

\* With the slots as they are counted, these are the types of the pipelines.
PipelineTypes == SlotInv /\ TalkTypes /\ CountsInBounds

\* Nothing is said, taken or failed at the start.
LEMMA PipelineTypesStart == PipelineInit => PipelineTypes
<1> SUFFICES ASSUME PipelineInit PROVE PipelineTypes
  OBVIOUS
<1>1. TalkTypes
  <2>1. << >> \in Seq(Entries) /\ NotIndexing.messages = << >>
    BY DEF NotIndexing
  <2> QED BY <2>1 DEF PipelineInit, TalkTypes
<1>2. CountsInBounds
  BY PipelineAssumption DEF PipelineInit, CountsInBounds
<1> QED BY <1>1, <1>2, SlotInit DEF PipelineTypes

\* A reply is sent or a fault.
LEMMA ReplyFaults ==
  ASSUME NEW r, NEW k, NEW s, NEW t, Reply(r, k, s, t), faults \in 0 .. MaxFaults
  PROVE  faults' \in 0 .. MaxFaults
BY PipelineAssumption DEF Reply, Fault

\* The saves of a handler that goes on are of its own entries.
LEMMA EntriesOf ==
  ASSUME NEW r \in Requests
  PROVE  Question(r) \in Entries /\ Answer(r) \in Entries
BY DEF Question, Answer, Entries

\* The conversation stays one.
LEMMA TalkTyped == TalkTypes /\ [PipelineNext]_pipelineVars => TalkTypes'
<1> SUFFICES ASSUME TalkTypes, [PipelineNext]_pipelineVars PROVE TalkTypes'
  OBVIOUS
<1>0. /\ memory \in Seq(Entries) /\ history \in Seq(Entries) /\ indexing.messages \in Seq(Entries)
      /\ saving \subseteq Entries /\ session \in BOOLEAN /\ << >> \in Seq(Entries)
  BY DEF TalkTypes
<1>1. CASE UNCHANGED memoryVars
  BY <1>0, <1>1 DEF TalkTypes, memoryVars
<1>2. ASSUME NEW e \in Entries, Save(e) PROVE history' \in Seq(Entries)
  <2>1. Append(history, e) \in Seq(Entries)
    BY <1>0
  <2> QED BY <1>0, <1>2, <2>1 DEF Save, Inserted
<1>3. ASSUME NEW e \in Entries PROVE Append(memory, e) \in Seq(Entries)
  BY <1>0
<1>4. ASSUME NEW r \in Requests,
             \/ Receive(r) \/ Intercept(r) \/ Guard(r) \/ AskSlot(r) \/ WaitExpired(r)
             \/ CheckMemory(r) \/ Assemble(r) \/ Close(r) \/ Fail(r) \/ Apologise(r)
      PROVE  TalkTypes'
  BY <1>1, <1>4 DEF Receive, Intercept, Guard, AskSlot, WaitExpired, CheckMemory, Assemble, Close,
                    Fail, Apologise
<1>5. ASSUME NEW r \in Requests, OpenSession(r) PROVE TalkTypes'
  BY <1>0, <1>3, <1>5, EntriesOf DEF OpenSession, TalkTypes
<1>6. ASSUME NEW r \in Requests, SaveQuestion(r) \/ SaveAnswer(r) PROVE TalkTypes'
  <2>1. UNCHANGED <<memory, session, indexing, saving>> /\ (Save(Question(r)) \/ Save(Answer(r)))
    BY <1>6 DEF SaveQuestion, SaveAnswer
  <2>2. history' \in Seq(Entries)
    BY <1>2, <2>1, EntriesOf
  <2> QED BY <1>0, <2>1, <2>2 DEF TalkTypes
<1>7. ASSUME NEW r \in Requests, Recover(r) PROVE TalkTypes'
  BY <1>0, <1>7 DEF Recover, Recovered, TalkTypes
<1>8. ASSUME NEW r \in Requests, Run(r) PROVE TalkTypes'
  BY <1>0, <1>8 DEF Run, TalkTypes
<1>9. ASSUME NEW r \in Requests, Return(r) PROVE TalkTypes'
  <2>1. UNCHANGED <<memory, session, indexing, history>>
        /\ saving' \in {saving, saving \cup {Question(r)}}
    BY <1>9 DEF Return
  <2> QED BY <1>0, <2>1, EntriesOf DEF TalkTypes
<1>10. ASSUME NEW r \in Requests, Respond(r) PROVE TalkTypes'
  <2>1. /\ UNCHANGED <<session, indexing, history>> /\ memory' \in {memory, Append(memory, Answer(r))}
        /\ saving' \in {saving, saving \cup {Answer(r), Question(r)}}
    BY <1>10 DEF Respond
  <2>2. memory' \in Seq(Entries)
    BY <1>0, <1>3, <2>1, EntriesOf
  <2>3. saving' \subseteq Entries
    BY <1>0, <2>1, EntriesOf
  <2> QED BY <1>0, <2>1, <2>2, <2>3 DEF TalkTypes
<1>11. ASSUME NEW e \in Entries, SaveDone(e) PROVE TalkTypes'
  <2>1. UNCHANGED <<memory, session, indexing>> /\ saving' = saving \ {e} /\ Save(e)
    BY <1>11 DEF SaveDone
  <2> QED BY <1>0, <1>2, <2>1 DEF TalkTypes
<1>12. CASE Idle
  <2>1. /\ UNCHANGED <<memory, history, saving>> /\ session' = FALSE
        /\ indexing' \in {indexing, [on |-> TRUE, messages |-> memory]}
    BY <1>12 DEF Idle
  <2>2. indexing'.messages \in {indexing.messages, memory}
    BY <2>1
  <2> QED BY <1>0, <2>1, <2>2 DEF TalkTypes
<1>13. CASE Indexed
  BY <1>0, <1>13 DEF Indexed, NotIndexing, TalkTypes
<1>14. CASE Restart
  BY <1>0, <1>14 DEF Restart, NotIndexing, TalkTypes
<1>15. CASE UNCHANGED pipelineVars
  BY <1>1, <1>15 DEF pipelineVars, memoryVars
<1> QED BY <1>4, <1>5, <1>6, <1>7, <1>8, <1>9, <1>10, <1>11, <1>12, <1>13, <1>14, <1>15
        DEF PipelineNext, Proceed

\* The counts stay in their bounds.
LEMMA CountsStay == SlotInv /\ CountsInBounds /\ [PipelineNext]_pipelineVars => CountsInBounds'
<1> SUFFICES ASSUME SlotInv, CountsInBounds, [PipelineNext]_pipelineVars PROVE CountsInBounds'
  OBVIOUS
<1>0. /\ faults \in 0 .. MaxFaults /\ restarts \in 0 .. MaxRestarts /\ slots \in Nat /\ slots <= MaxSlots
      /\ MaxSlots \in Nat /\ MaxFaults \in Nat /\ MaxRestarts \in Nat
  BY PipelineAssumption DEF CountsInBounds, SlotInv
<1>1. ASSUME faults' \in 0 .. MaxFaults, UNCHANGED <<slots, restarts>> PROVE CountsInBounds'
  BY <1>0, <1>1 DEF CountsInBounds
<1>2. ASSUME NEW what, Fault(what) PROVE faults' \in 0 .. MaxFaults
  BY <1>0, <1>2 DEF Fault
<1>3. ASSUME NEW r \in Requests,
             \/ Receive(r) \/ Intercept(r) \/ Guard(r) \/ WaitExpired(r) \/ Run(r) \/ Respond(r)
             \/ Apologise(r)
      PROVE  CountsInBounds'
  <2>1. UNCHANGED <<slots, restarts>>
    BY <1>3 DEF Receive, Intercept, Guard, WaitExpired, Run, Respond, Apologise, slotVars
  <2>2. UNCHANGED faults \/ \E k, s, t : Reply(r, k, s, t)
    <3>1. CASE Receive(r) \/ Intercept(r) \/ Guard(r)
      BY <3>1 DEF Receive, Intercept, Guard
    <3>2. CASE WaitExpired(r) \/ Run(r) \/ Respond(r) \/ Apologise(r)
      BY <3>2 DEF WaitExpired, Refused, Run, Respond, Apologise
    <3> QED BY <1>3, <3>1, <3>2
  <2>3. faults' \in 0 .. MaxFaults
    BY <1>0, <2>2, ReplyFaults
  <2> QED BY <1>1, <2>1, <2>3
<1>4. ASSUME NEW r \in Requests, AskSlot(r) PROVE CountsInBounds'
  <2>1. CASE HasRoom
    <3>1. slots' = slots + 1 /\ slots < MaxSlots /\ UNCHANGED <<faults, restarts>>
      BY <1>4, <2>1 DEF AskSlot, HasRoom
    <3> QED BY <1>0, <3>1 DEF CountsInBounds
  <2>2. CASE ~HasRoom
    <3>1. UNCHANGED <<slots, restarts>> /\ (UNCHANGED faults \/ Reply(r, "busy", "done", "failed"))
      BY <1>4, <2>2 DEF AskSlot, Refused, slotVars
    <3>2. faults' \in 0 .. MaxFaults
      BY <1>0, <3>1, ReplyFaults
    <3> QED BY <1>1, <3>1, <3>2
  <2> QED BY <2>1, <2>2
<1>5. ASSUME NEW r \in Requests, OpenSession(r) \/ CheckMemory(r) \/ Recover(r) PROVE CountsInBounds'
  BY <1>0, <1>1, <1>5 DEF OpenSession, CheckMemory, Recover, slotVars
<1>6. ASSUME NEW e, Save(e), UNCHANGED <<slots, restarts>> PROVE CountsInBounds'
  BY <1>0, <1>1, <1>2, <1>6 DEF Save
<1>7. ASSUME NEW r \in Requests, SaveQuestion(r) \/ SaveAnswer(r) PROVE CountsInBounds'
  <2>1. UNCHANGED <<slots, restarts>> /\ (Save(Question(r)) \/ Save(Answer(r)))
    BY <1>7 DEF SaveQuestion, SaveAnswer, slotVars
  <2> QED BY <1>6, <2>1
<1>8. ASSUME NEW r \in Requests, Assemble(r) \/ Return(r) PROVE CountsInBounds'
  <2>1. UNCHANGED <<slots, restarts>> /\ (UNCHANGED faults \/ \E what : Fault(what))
    BY <1>8 DEF Assemble, Return, slotVars
  <2> QED BY <1>0, <1>1, <1>2, <2>1
<1>9. ASSUME NEW e \in Entries, SaveDone(e) PROVE CountsInBounds'
  BY <1>6, <1>9 DEF SaveDone, slotVars
<1>10. ASSUME NEW r \in Requests, NEW s, Freed(r, s) PROVE slots' <= MaxSlots
  <2>1. slots' = slots \/ slots' = slots - 1
    BY <1>10 DEF Freed, slotVars
  <2> QED BY <1>0, <2>1
<1>11. ASSUME NEW r \in Requests, Close(r) PROVE CountsInBounds'
  <2>1. UNCHANGED <<faults, restarts>> /\ slots' <= MaxSlots
    BY <1>10, <1>11 DEF Close
  <2> QED BY <1>0, <2>1 DEF CountsInBounds
<1>12. ASSUME NEW r \in Requests, Fail(r) PROVE CountsInBounds'
  <2>1. CASE V2
    <3>1. UNCHANGED <<faults, restarts>> /\ slots' <= MaxSlots
      BY <1>10, <1>12, <2>1 DEF Fail
    <3> QED BY <1>0, <3>1 DEF CountsInBounds
  <2>2. CASE ~V2
    <3>1. UNCHANGED <<slots, restarts>> /\ Reply(r, "error", "closing", "closing")
      BY <1>12, <2>2 DEF Fail, slotVars
    <3>2. faults' \in 0 .. MaxFaults
      BY <1>0, <3>1, ReplyFaults
    <3> QED BY <1>1, <3>1, <3>2
  <2> QED BY <2>1, <2>2
<1>13. CASE Idle \/ Indexed \/ UNCHANGED pipelineVars
  BY <1>0, <1>1, <1>13 DEF Idle, Indexed, pipelineVars, slotVars
<1>14. CASE Restart
  <2>1. restarts < MaxRestarts /\ restarts' = restarts + 1 /\ slots' = 0 /\ faults' = faults
    BY <1>14 DEF Restart
  <2> QED BY <1>0, <2>1 DEF CountsInBounds
<1> QED BY <1>3, <1>4, <1>5, <1>7, <1>8, <1>9, <1>11, <1>12, <1>13, <1>14 DEF PipelineNext, Proceed

\* Every step keeps all three.
LEMMA PipelineTypesSteps == PipelineTypes /\ [PipelineNext]_pipelineVars => PipelineTypes'
BY SlotNext, TalkTyped, CountsStay DEF PipelineTypes

\* Which makes the types of the pipelines.
LEMMA PipelineTyped == PipelineTypes => PipelineTypeOK
<1> SUFFICES ASSUME PipelineTypes PROVE PipelineTypeOK
  OBVIOUS
<1>1. Held(memory) \subseteq Entries /\ Held(history) \subseteq Entries
  BY DEF PipelineTypes, TalkTypes, Held
<1>2. slots \in 0 .. MaxSlots
  BY PipelineAssumption DEF PipelineTypes, SlotInv, CountsInBounds
<1>3. Stages = {"new", "intercept", "guard", "slot", "waiting", "session",
                "saveQuestion", "recovery", "recovering", "context", "agent",
                "running", "respond", "saveAnswer", "failed", "apology",
                "closing", "done", "lost"}
  BY DEF Stages, WithoutSlot, Replied
<1> QED BY <1>1, <1>2, <1>3 DEF PipelineTypes, SlotInv, TalkTypes, CountsInBounds, PipelineTypeOK
==============================================================================
