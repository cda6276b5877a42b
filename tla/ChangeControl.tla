----------------------------- MODULE ChangeControl -----------------------------
(***************************************************************************)
(* What the observer listens to and how that is changed:                   *)
(* observer/change-control.js, the /effy command of                        *)
(* gateway/adapters/slack.js (which applies a change when an administrator *)
(* approves it), the channels and buffers of observer/passive-listener.js, *)
(* the levels of observer/proactive-engine.js, and the patterns that       *)
(* observer/feedback-loop.js disables after repeated dismissals.  Every    *)
(* type of change here is HIGH and waits for approval.  Only               *)
(* administrators get past the command's first line, and whoever is not    *)
(* one changes nothing.  Texts are left out, and there is one pattern per  *)
(* channel.                                                                *)
(*                                                                         *)
(* What is observed leaves three traces beside the listener's buffer: a    *)
(* row of the episodic memory for each message, the topics of the channel  *)
(* and the insights that observer/pattern-detector.js draws from a batch.  *)
(* A removal of the channel forgets the buffer and none of these.  How     *)
(* insights are kept, posted and expire is the module Insights; channels   *)
(* are too few here for the detector to drop the topics of one.            *)
(*                                                                         *)
(* An operator named Bug... is a plausible wrong version of the definition *)
(* that follows it and is used nowhere in the specification.               *)
(***************************************************************************)
EXTENDS Naturals, FiniteSets

CONSTANTS ChangeIds,        \* identifiers of change requests
          CcChannels,       \* channels
          ObserveAll,       \* whether config.channels has "*"
          BatchSize,        \* messages that make a batch
          DismissThreshold, \* FeedbackLoop.dismissThreshold
          ChangeExpiry,     \* EXPIRY_MS in ticks
          NoChange          \* the value of an identifier not used yet

ASSUME ChangeControlAssumption ==
  /\ ObserveAll \in BOOLEAN
  /\ BatchSize \in Nat \ {0} /\ DismissThreshold \in Nat \ {0}
  /\ ChangeExpiry \in Nat

VARIABLES change,      \* identifier |-> the request
          pendingIds,  \* identifiers in pendingChanges
          included,    \* PassiveListener.includeChannels
          excluded,    \* PassiveListener.excludeChannels
          buffered,    \* channel |-> messages in its buffer
          sinceRemoval, \* channel |-> messages observed since its last removal,
                       \* counted up to BatchSize (history)
          remembered,  \* channels with rows "observed:..." in the episodic memory
          topics,      \* channels in PatternDetector.channelTopics
          insightful,  \* channels for which an insight has been stored
          proactive,   \* channels whose level lets the engine speak
          dismissals,  \* channel |-> dismissals in a row
          disabled     \* channels whose pattern is disabled

ccRequestVars == <<change, pendingIds>>
listenerVars == <<included, excluded, buffered, sinceRemoval>>
traceVars == <<remembered, topics, insightful>>
feedbackVars == <<dismissals, disabled>>
ccVars == <<ccRequestVars, listenerVars, traceVars, proactive, feedbackVars>>

Types == {"observe on", "observe off", "level on", "level off", "disable pattern"}
ChangeRequests == [type : Types, channel : CcChannels, age : 0 .. ChangeExpiry + 1,
             status : {"pending", "approved", "rejected", "expired"}]

Observed(c) == c \notin excluded /\ (ObserveAll \/ c \in included)
Late(id) == change[id].age > ChangeExpiry

ChangeControlInit ==
  /\ change = [id \in ChangeIds |-> NoChange] /\ pendingIds = {}
  /\ \E S \in SUBSET CcChannels : included = IF ObserveAll THEN {} ELSE S
  /\ excluded \in SUBSET CcChannels
  /\ buffered = [c \in CcChannels |-> 0] /\ sinceRemoval = [c \in CcChannels |-> 0]
  /\ remembered = {} /\ topics = {} /\ insightful = {}
  /\ proactive = {}
  /\ dismissals = [c \in CcChannels |-> 0] /\ disabled = {}

-----------------------------------------------------------------------------
\* requestChange
Requested(type, c) ==
  \E id \in ChangeIds :
    /\ change[id] = NoChange
    /\ change' = [change EXCEPT ![id] = [type |-> type, channel |-> c, age |-> 0,
                                         status |-> "pending"]]
    /\ pendingIds' = pendingIds \cup {id}

\* /effy observe and /effy level
Command(type, c) ==
  /\ type # "disable pattern"
  /\ Requested(type, c)
  /\ UNCHANGED <<listenerVars, traceVars, proactive, feedbackVars>>

\* addChannel, removeChannel
Listen(c) ==
  /\ excluded' = excluded \ {c}
  /\ included' = IF ObserveAll THEN included ELSE included \cup {c}
  /\ UNCHANGED <<buffered, sinceRemoval>>

BugIgnore(c) ==
  /\ excluded' = excluded \cup {c}
  /\ included' = included \ {c}
  /\ sinceRemoval' = [sinceRemoval EXCEPT ![c] = 0]
  /\ UNCHANGED buffered

Ignore(c) ==
  /\ excluded' = excluded \cup {c}
  /\ included' = included \ {c}
  /\ buffered' = [buffered EXCEPT ![c] = 0]
  /\ sinceRemoval' = [sinceRemoval EXCEPT ![c] = 0]

\* What the command does with an approved change; a pattern is not enabled or
\* disabled here.
Apply(ch) ==
  /\ CASE ch.type = "observe on" -> Listen(ch.channel)
       [] ch.type = "observe off" -> Ignore(ch.channel)
       [] OTHER -> UNCHANGED listenerVars
  /\ proactive' = CASE ch.type = "level on" -> proactive \cup {ch.channel}
                    [] ch.type = "level off" -> proactive \ {ch.channel}
                    [] OTHER -> proactive

\* approveChange: a late approval marks the request, which stays in the map
\* until the next cleanup, and a marked one is refused.
Approve(id) ==
  /\ id \in pendingIds /\ change[id].status = "pending"
  /\ IF Late(id)
     THEN /\ change' = [change EXCEPT ![id].status = "expired"]
          /\ UNCHANGED <<pendingIds, listenerVars, proactive>>
     ELSE /\ change' = [change EXCEPT ![id].status = "approved"]
          /\ pendingIds' = pendingIds \ {id}
          /\ Apply(change[id])
  /\ UNCHANGED <<traceVars, feedbackVars>>

\* rejectChange, of an expired request as well
Reject(id) ==
  /\ id \in pendingIds
  /\ change' = [change EXCEPT ![id].status = "rejected"]
  /\ pendingIds' = pendingIds \ {id}
  /\ UNCHANGED <<listenerVars, traceVars, proactive, feedbackVars>>

\* The cleanup timer, and listPending
CleanupChanges ==
  /\ \E id \in pendingIds : Late(id)
  /\ change' = [id \in ChangeIds |-> IF id \in pendingIds /\ Late(id)
                                     THEN [change[id] EXCEPT !.status = "expired"]
                                     ELSE change[id]]
  /\ pendingIds' = {id \in pendingIds : ~Late(id)}
  /\ UNCHANGED <<listenerVars, traceVars, proactive, feedbackVars>>

ChangeTick ==
  /\ \E id \in pendingIds : ~Late(id)
  /\ change' = [id \in ChangeIds |-> IF id \in pendingIds /\ ~Late(id)
                                     THEN [change[id] EXCEPT !.age = @ + 1]
                                     ELSE change[id]]
  /\ UNCHANGED <<pendingIds, listenerVars, traceVars, proactive, feedbackVars>>

-----------------------------------------------------------------------------
\* PatternDetector.analyze of a batch, unless the analyses of the day are used up:
\* the topics of the channel are set; an insight comes of its pattern, unless that
\* is disabled, or of topics it has in common with another channel.
Analyze(c) ==
  \/ UNCHANGED <<topics, insightful>>
  \/ /\ topics' = topics \cup {c}
     /\ \/ UNCHANGED insightful
        \/ /\ c \notin disabled \/ topics \ {c} # {}
           /\ insightful' = insightful \cup {c}

\* PassiveListener.onMessage: the message is saved, which nobody awaits and which
\* may fail, and buffered; a full buffer is handed to the detector.
ObserveMessage(c) ==
  LET full == buffered[c] + 1 >= BatchSize
  IN  /\ Observed(c)
      /\ remembered' \in {remembered, remembered \cup {c}}
      /\ buffered' = [buffered EXCEPT ![c] = IF full THEN 0 ELSE @ + 1]
      /\ sinceRemoval' = [sinceRemoval EXCEPT ![c] = IF @ < BatchSize THEN @ + 1 ELSE @]
      /\ IF full THEN Analyze(c) ELSE UNCHANGED <<topics, insightful>>
      /\ UNCHANGED <<ccRequestVars, included, excluded, proactive, feedbackVars>>

\* A thumbs up for an insight of the channel
Accept(c) ==
  /\ c \in insightful /\ dismissals[c] > 0
  /\ dismissals' = [dismissals EXCEPT ![c] = 0]
  /\ UNCHANGED <<ccRequestVars, listenerVars, traceVars, proactive, disabled>>

\* A thumbs down for one: the last of a row disables the pattern at once, and records a
\* change that nobody waits for.  The count stops at the threshold.
Dismiss(c) ==
  /\ c \in insightful
  /\ dismissals' = [dismissals EXCEPT ![c] = IF @ < DismissThreshold THEN @ + 1 ELSE @]
  /\ IF dismissals[c] + 1 >= DismissThreshold
     THEN disabled' = disabled \cup {c} /\ Requested("disable pattern", c)
     ELSE UNCHANGED <<disabled, ccRequestVars>>
  /\ UNCHANGED <<listenerVars, traceVars, proactive>>

ChangeControlNext ==
  \/ \E c \in CcChannels : \/ \E type \in Types : Command(type, c)
                           \/ ObserveMessage(c) \/ Accept(c) \/ Dismiss(c)
  \/ \E id \in ChangeIds : Approve(id) \/ Reject(id)
  \/ CleanupChanges \/ ChangeTick

ChangeControlSpec == ChangeControlInit /\ [][ChangeControlNext]_ccVars

-----------------------------------------------------------------------------
ChangeControlTypeOK ==
  /\ change \in [ChangeIds -> ChangeRequests \cup {NoChange}]
  /\ pendingIds \subseteq ChangeIds
  /\ included \subseteq CcChannels /\ excluded \subseteq CcChannels
  /\ buffered \in [CcChannels -> 0 .. BatchSize - 1]
  /\ sinceRemoval \in [CcChannels -> 0 .. BatchSize]
  /\ remembered \subseteq CcChannels /\ topics \subseteq CcChannels
  /\ insightful \subseteq CcChannels
  /\ proactive \subseteq CcChannels
  /\ dismissals \in [CcChannels -> 0 .. DismissThreshold]
  /\ disabled \subseteq CcChannels

\* No batch mixes what was said before a removal of the channel with what is said
\* after it, however requests to listen and to ignore are approved, refused and
\* overtaken by each other: the buffer holds nothing of a channel that is not
\* observed, and nothing older than its last removal (removeChannel).  It is a claim
\* about the buffer only: rows, topics and insights outlive the removal.
BatchesFresh ==
  \A c \in CcChannels : (buffered[c] > 0 => Observed(c)) /\ buffered[c] <= sinceRemoval[c]
=============================================================================
