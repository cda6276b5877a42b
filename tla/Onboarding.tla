------------------------------ MODULE Onboarding ------------------------------
(***************************************************************************)
(* organization/onboarding.js: the dialogue in which an administrator      *)
(* describes the organization, and the one in which a user without a role  *)
(* gives it; and the step of the gateway (gateway/gateway.js, the same in  *)
(* gateway/gateway-steps.js) that starts and feeds them.  Messages of one  *)
(* user are handled at the same time, and their replies are awaited.       *)
(*                                                                         *)
(* A dialogue is an object that outlives its place in the map: who awaits  *)
(* a reply still holds it.  Of a text only its keyword is kept; whether    *)
(* an answer is good enough for the next step, and which call fails, is    *)
(* chosen.  A question is longer than two characters.                      *)
(*                                                                         *)
(* An operator named Bug... is a plausible wrong version of the definition *)
(* that follows it and is used nowhere in the specification.               *)
(***************************************************************************)
EXTENDS Integers, FiniteSets

CONSTANTS ObMessages,  \* messages
          SenderOf,    \* message |-> user
          Keyword,     \* message |-> "none", "setup" or "profile"
          Admins,      \* users with the role of administrator
          Named,       \* messages that carry the sender's name
          MaxDepts,    \* departments an administrator lists at most
          MaxDialogues,\* bound on the dialogues of a behaviour
          NoQuestion

ASSUME OnboardingAssumption ==
  {MaxDepts, MaxDialogues} \subseteq Nat /\ NoQuestion \notin ObMessages

VARIABLES sessions,   \* user |-> dialogue in the map, 0 for none
          dialogue,   \* dialogue |-> [type, step, pending, depts]
          dialogues,  \* number of dialogues
          orgDone,    \* _orgOnboardingDone
          onboarded,  \* _onboardedUsers
          roles,      \* users whose row has a role (external)
          saves,      \* users whose row is being saved, not awaited
          obAt,       \* message |-> where its handling is
          held,       \* message |-> dialogue it answered, 0 for none
          text,       \* message |-> the message whose text it carries
          cutOff,     \* messages whose reply failed (history)
          finisher    \* dialogue |-> message that finished it (history)

obVars == <<sessions, dialogue, dialogues, orgDone, onboarded, roles, saves, obAt,
            held, text, cutOff, finisher>>
dialogueVars == <<sessions, dialogue, dialogues, finisher>>

ObUsers == {SenderOf[m] : m \in ObMessages}
Dialogues == 1 .. MaxDialogues
Blank == [type |-> "none", step |-> "none", pending |-> NoQuestion, depts |-> 0]

OnboardingInit ==
  /\ sessions = [u \in ObUsers |-> 0]
  /\ dialogue = [d \in Dialogues |-> Blank] /\ dialogues = 0
  /\ orgDone \in BOOLEAN
  /\ onboarded = {} /\ roles \in SUBSET ObUsers /\ saves = {}
  /\ obAt = [m \in ObMessages |-> "new"]
  /\ held = [m \in ObMessages |-> 0]
  /\ text = [m \in ObMessages |-> m]
  /\ cutOff = {}
  /\ finisher = [d \in Dialogues |-> NoQuestion]

ObGoes(m, pc) == obAt' = [obAt EXCEPT ![m] = pc]
IsOnboarding(u) == sessions[u] # 0 /\ dialogue[sessions[u]].step # "done"

-----------------------------------------------------------------------------
(* The dialogues. *)

\* startOrgOnboarding, startPersonalOnboarding: a new dialogue takes the place of
\* the user's old one, and the reply is awaited.
StartDialogue(m, type, step, question) ==
  /\ dialogues < MaxDialogues
  /\ dialogues' = dialogues + 1
  /\ sessions' = [sessions EXCEPT ![SenderOf[m]] = dialogues + 1]
  /\ dialogue' = [dialogue EXCEPT ![dialogues + 1] =
                    [type |-> type, step |-> step, pending |-> question, depts |-> 0]]
  /\ ObGoes(m, "asking")
  /\ UNCHANGED finisher

\* The dialogue d after the answer, as processInput leaves it: an answer may be
\* refused, and each listed department but the last asks for the next.
After(d) ==
  CASE d.step = "company" -> {[d EXCEPT !.step = "departments"]}
    [] d.step = "departments" ->
         {d, [d EXCEPT !.step = "projects"]}
           \cup {[d EXCEPT !.step = "details", !.depts = n] : n \in 1 .. MaxDepts}
    [] d.step = "details" ->
         {IF d.depts > 1 THEN [d EXCEPT !.depts = @ - 1]
          ELSE [d EXCEPT !.step = "projects", !.depts = 0]}
    [] d.step = "projects" -> {d, [d EXCEPT !.step = "done"]}
    [] d.step = "role" -> {d, [d EXCEPT !.step = "expertise"]}
    [] d.step = "expertise" -> {[d EXCEPT !.step = "done"]}

\* A finished dialogue marks the organization or the user; the user's row is
\* saved without waiting for it.
ProcessInput(m) ==
  LET u == SenderOf[m]  d == sessions[u]
  IN /\ IsOnboarding(u)
     /\ \E next \in After(dialogue[d]) :
          LET ends == next.step = "done"
          IN /\ dialogue' = [dialogue EXCEPT ![d] = next]
             /\ finisher' = IF ends THEN [finisher EXCEPT ![d] = m] ELSE finisher
             /\ orgDone' = (orgDone \/ (ends /\ next.type = "org"))
             /\ IF ends /\ next.type = "personal"
                THEN onboarded' = onboarded \cup {u} /\ saves' = saves \cup {u}
                ELSE UNCHANGED <<onboarded, saves>>
     /\ held' = [held EXCEPT ![m] = d]
     /\ ObGoes(m, "answering")
     /\ UNCHANGED <<sessions, dialogues, roles, text, cutOff>>

RowSaved(u) ==
  /\ u \in saves
  /\ saves' = saves \ {u}
  /\ roles' \in {roles, roles \cup {u}}
  /\ UNCHANGED <<dialogueVars, orgDone, onboarded, obAt, held, text, cutOff>>

-----------------------------------------------------------------------------
(* The step of the gateway. *)

\* The last check: the user wants to correct the profile.
AskedForProfile(m, txt) ==
  IF Keyword[txt] = "profile"
  THEN StartDialogue(m, "personal", "role", NoQuestion)
  ELSE ObGoes(m, "passed") /\ UNCHANGED dialogueVars

\* The checks after the user's own dialogue, for a message with the text txt.
Checks(m, txt) ==
  LET u == SenderOf[m]
  IN IF u \in Admins /\ (Keyword[txt] = "setup" \/ ~orgDone)
     THEN StartDialogue(m, "org", "company", NoQuestion)
     ELSE IF u \in onboarded THEN AskedForProfile(m, txt)
     ELSE ObGoes(m, "looking") /\ UNCHANGED dialogueVars

Arrive(m) ==
  /\ obAt[m] = "new"
  /\ \/ ProcessInput(m)
     \/ /\ ~IsOnboarding(SenderOf[m])
        /\ Checks(m, m)
        /\ UNCHANGED <<orgDone, onboarded, roles, saves, held, text, cutOff>>

BugAnswered(m) ==
  /\ obAt[m] = "answering"
  /\ LET d == dialogue[held[m]]
     IN IF d.pending # NoQuestion
        THEN /\ text' = [text EXCEPT ![m] = d.pending]
             /\ Checks(m, d.pending)
        ELSE /\ ObGoes(m, "ended")
             /\ UNCHANGED <<text, dialogueVars>>
  /\ UNCHANGED <<orgDone, onboarded, roles, saves, held, cutOff>>

\* The reply to an answer has gone out.  If the dialogue is over by now, by this
\* answer or another, the message goes on with the question that began it.
Answered(m) ==
  /\ obAt[m] = "answering"
  /\ LET d == dialogue[held[m]]
     IN IF d.step = "done" /\ d.pending # NoQuestion
        THEN /\ text' = [text EXCEPT ![m] = d.pending]
             /\ Checks(m, d.pending)
        ELSE /\ ObGoes(m, "ended")
             /\ UNCHANGED <<text, dialogueVars>>
  /\ UNCHANGED <<orgDone, onboarded, roles, saves, held, cutOff>>

\* entity.get has returned.  Without a role, who is named is registered and goes
\* on, and who is not begins a dialogue with the question.
LookedUp(m) ==
  /\ obAt[m] = "looking"
  /\ IF SenderOf[m] \in roles
     THEN onboarded' = onboarded \cup {SenderOf[m]} /\ AskedForProfile(m, text[m])
     ELSE /\ UNCHANGED onboarded
          /\ IF m \in Named
             THEN ObGoes(m, "registering") /\ UNCHANGED dialogueVars
             ELSE StartDialogue(m, "personal", "role", text[m])
  /\ UNCHANGED <<orgDone, roles, saves, held, text, cutOff>>

Registered(m) ==
  /\ obAt[m] = "registering"
  /\ roles' = roles \cup {SenderOf[m]}
  /\ onboarded' = onboarded \cup {SenderOf[m]}
  /\ AskedForProfile(m, text[m])
  /\ UNCHANGED <<orgDone, saves, held, text, cutOff>>

\* The first question of a dialogue is asked: the message ends here.
DialogueAsked(m) ==
  /\ obAt[m] = "asking"
  /\ ObGoes(m, "ended")
  /\ UNCHANGED <<dialogueVars, orgDone, onboarded, roles, saves, held, text, cutOff>>

\* Any call of the step fails: the catch around it lets the message go on as it
\* is, also one that was an answer.
ObFails(m) ==
  /\ obAt[m] \in {"answering", "asking", "looking", "registering"}
  /\ ObGoes(m, "passed")
  /\ cutOff' = cutOff \cup {m}
  /\ UNCHANGED <<dialogueVars, orgDone, onboarded, roles, saves, held, text>>

OnboardingNext ==
  \/ \E m \in ObMessages : \/ Arrive(m) \/ Answered(m) \/ LookedUp(m)
                           \/ Registered(m) \/ DialogueAsked(m) \/ ObFails(m)
  \/ \E u \in ObUsers : RowSaved(u)

OnboardingSpec == OnboardingInit /\ [][OnboardingNext]_obVars

-----------------------------------------------------------------------------
OnboardingTypeOK ==
  /\ sessions \in [ObUsers -> 0 .. dialogues]
  /\ onboarded \subseteq ObUsers /\ roles \subseteq ObUsers /\ saves \subseteq ObUsers
  /\ obAt \in [ObMessages -> {"new", "answering", "asking", "looking", "registering",
                              "passed", "ended"}]
  /\ held \in [ObMessages -> 0 .. dialogues]
  /\ text \in [ObMessages -> ObMessages] /\ cutOff \subseteq ObMessages

\* The question that began a dialogue is not lost and not asked too early: the
\* answer that finishes the dialogue takes it on, unless the reply fails, and
\* who carries it comes from a dialogue that is over.  An answer is not taken
\* for a question, unless the reply to it failed.
QuestionHandedOn ==
  /\ \A d \in Dialogues :
       dialogue[d].step = "done" /\ dialogue[d].pending # NoQuestion =>
         \/ obAt[finisher[d]] = "answering"
         \/ text[finisher[d]] = dialogue[d].pending
         \/ finisher[d] \in cutOff
  /\ \A m \in ObMessages :
       /\ text[m] # m => held[m] # 0 /\ dialogue[held[m]].step = "done"
       /\ held[m] # 0 /\ obAt[m] = "passed" /\ text[m] = m => m \in cutOff
=============================================================================
