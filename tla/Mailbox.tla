------------------------------- MODULE Mailbox -------------------------------
(***************************************************************************)
(* AgentMailbox of src/agents/mailbox.js: queues of messages between       *)
(* agents in memory (L1), and rows of the table agent_messages (L2) for    *)
(* the messages sent with persist.                                         *)
(*                                                                         *)
(* receivedAt grows with every push, so the queues of all agents together  *)
(* are one line, oldest first; the queue of an agent is its part of it.    *)
(* INSERT and UPDATE are answered in a step of their own, or fail in one.  *)
(* The restore is called by a process that has just started; messages are  *)
(* sent and received while it awaits its UPDATEs.                          *)
(*                                                                         *)
(* An operator named Bug... is a plausible wrong version of the definition *)
(* that follows it and is used nowhere in the specification.               *)
(***************************************************************************)
EXTENDS Naturals, FiniteSets, SeqFilters, SequencesExt

CONSTANTS
  MbMessages, MbTo,   \* every message is sent once, to the agent MbTo[m]
  MbMaxPerAgent,      \* MAX_PER_AGENT
  MbMaxQueue,         \* MAX_QUEUE_SIZE
  MbMaxRetry,         \* MAX_RETRY: restores of a message
  MbMaxPersists,      \* maxRetries of the retry loop
  MbMaxWriting,       \* bound: INSERTs of one message under way at a time
  MbMaxLives,         \* bound: restarts and clears
  NotPending          \* the message has no entry in _pendingPersist

ASSUME MailboxAssumption ==
  /\ MbMaxPerAgent \in Nat \ {0} /\ MbMaxQueue \in Nat \ {0}
  /\ MbMaxRetry \in Nat /\ MbMaxPersists \in Nat \ {0} /\ MbMaxLives \in Nat
  /\ MbMaxWriting \in Nat \ {0}
  /\ NotPending \notin Nat

VARIABLES
  mbSent,       \* messages sent so far
  mbLine,       \* _queues
  mbTable,      \* the rows, by created_at
  mbStatus,     \* their status
  mbRetryCount, \* their retry_count
  mbWriting,    \* how many INSERTs of each message are under way
  mbMarking,    \* batches of _markDelivered under way
  mbPersist,    \* _pendingPersist: the message's retries, or NotPending
  mbRestoring,  \* rows the restore has still to treat
  mbQueueRef,   \* the queue it holds across its await: "none", "live", "detached"
  mbRestored,   \* restores of each message into L1 (history)
  mbRetried,    \* times the timer wrote each message again in this life, counted
                \* up to one beyond MbMaxPersists (history)
  mbLife        \* restarts and clears so far

mailboxVars == <<mbSent, mbLine, mbTable, mbStatus, mbRetryCount, mbWriting,
                 mbMarking, mbPersist, mbRestoring, mbQueueRef, mbRestored, mbRetried, mbLife>>
mbRows == <<mbTable, mbStatus, mbRetryCount>>

QueueIn(line, a) == Only(line, {m \in MbMessages : MbTo[m] = a})
Queued(a) == QueueIn(mbLine, a)

MailboxInit ==
  /\ mbSent = {} /\ mbLine = <<>> /\ mbTable = <<>>
  /\ mbStatus = [m \in MbMessages |-> "none"]
  /\ mbRetryCount = [m \in MbMessages |-> 0]
  /\ mbWriting = [m \in MbMessages |-> 0] /\ mbMarking = {}
  /\ mbPersist = [m \in MbMessages |-> NotPending]
  /\ mbRestoring = <<>> /\ mbQueueRef = "none"
  /\ mbRestored = [m \in MbMessages |-> 0]
  /\ mbRetried = [m \in MbMessages |-> 0]
  /\ mbLife = 0

----------------------------------------------------------------------------
\* Deleting the queue of agent a from the map detaches the restore's queue.
RefAfterDelete(a) ==
  IF mbQueueRef = "live" /\ MbTo[Head(mbRestoring)] = a THEN "detached" ELSE mbQueueRef

(***************************************************************************)
(* send: the oldest message of the agent gives way at MAX_PER_AGENT, the   *)
(* oldest of all at MAX_QUEUE_SIZE.  If the latter was the only message of *)
(* the same agent, its queue is deleted, and the new message is pushed to  *)
(* an array that is no longer in the map.                                  *)
(***************************************************************************)
Send(m, persist) ==
  LET a == MbTo[m]
      roomy == IF Len(Queued(a)) >= MbMaxPerAgent
                 THEN Only(mbLine, MbMessages \ {Head(Queued(a))}) ELSE mbLine
      drops == Len(roomy) >= MbMaxQueue
      victim == MbTo[Head(roomy)]
      deletes == drops /\ Len(QueueIn(roomy, victim)) = 1
      kept == IF drops THEN Tail(roomy) ELSE roomy
  IN  /\ m \notin mbSent
      /\ mbSent' = mbSent \cup {m}
      /\ mbLine' = IF deletes /\ victim = a THEN kept ELSE Append(kept, m)
      /\ mbQueueRef' = IF deletes THEN RefAfterDelete(victim) ELSE mbQueueRef
      /\ mbWriting' = [mbWriting EXCEPT ![m] = IF persist THEN 1 ELSE 0]
      /\ UNCHANGED <<mbRows, mbMarking, mbPersist, mbRestoring, mbRestored, mbRetried, mbLife>>

MailboxReceive(a) ==
  \E n \in 1 .. Len(Queued(a)) :
    LET batch == SubSeq(Queued(a), 1, n)
    IN  /\ mbLine' = Only(mbLine, MbMessages \ ToSet(batch))
        /\ mbQueueRef' = IF n = Len(Queued(a)) THEN RefAfterDelete(a) ELSE mbQueueRef
        /\ mbMarking' = mbMarking \cup {batch}
        /\ UNCHANGED <<mbSent, mbRows, mbWriting, mbPersist, mbRestoring,
                       mbRestored, mbRetried, mbLife>>

----------------------------------------------------------------------------
\* The answer of an INSERT.  A second one of the same row violates its key.
RowInserted(m) ==
  /\ mbWriting[m] > 0 /\ mbStatus[m] = "none"
  /\ mbTable' = Append(mbTable, m)
  /\ mbStatus' = [mbStatus EXCEPT ![m] = "pending"]
  /\ mbWriting' = [mbWriting EXCEPT ![m] = @ - 1]
  /\ mbPersist' = [mbPersist EXCEPT ![m] = NotPending]
  /\ UNCHANGED <<mbSent, mbLine, mbRetryCount, mbMarking, mbRestoring, mbQueueRef,
                 mbRestored, mbRetried, mbLife>>

BugInsertFailed(m) ==
  /\ mbWriting[m] > 0
  /\ mbWriting' = [mbWriting EXCEPT ![m] = @ - 1]
  /\ UNCHANGED <<mbSent, mbLine, mbRows, mbMarking, mbPersist, mbRestoring, mbQueueRef,
                 mbRestored, mbRetried, mbLife>>

InsertFailed(m) ==
  /\ mbWriting[m] > 0
  /\ mbWriting' = [mbWriting EXCEPT ![m] = @ - 1]
  /\ mbPersist' = [mbPersist EXCEPT ![m] = 0]
  /\ UNCHANGED <<mbSent, mbLine, mbRows, mbMarking, mbRestoring, mbQueueRef,
                 mbRestored, mbRetried, mbLife>>

(***************************************************************************)
(* The timer writes again what is due: entries that were not retried since *)
(* they failed, and some of the others.  An entry reaches the limit only   *)
(* while one INSERT hangs, since a failure starts its count anew.          *)
(***************************************************************************)
RetryPendingPersists ==
  LET Waiting == {m \in MbMessages : mbPersist[m] # NotPending}
  IN  \E due \in SUBSET Waiting :
        /\ due # {} /\ {m \in Waiting : mbPersist[m] = 0} \subseteq due
        /\ mbPersist' = [m \in MbMessages |->
             IF m \notin due THEN mbPersist[m]
             ELSE IF mbPersist[m] >= MbMaxPersists THEN NotPending ELSE mbPersist[m] + 1]
        /\ mbWriting' = [m \in MbMessages |->
             IF m \in due /\ mbPersist[m] < MbMaxPersists THEN mbWriting[m] + 1 ELSE mbWriting[m]]
        /\ \A m \in MbMessages : mbWriting'[m] <= MbMaxWriting
        /\ mbRetried' = [m \in MbMessages |->
             IF mbWriting'[m] > mbWriting[m] /\ mbRetried[m] <= MbMaxPersists
               THEN mbRetried[m] + 1 ELSE mbRetried[m]]
        /\ UNCHANGED <<mbSent, mbLine, mbRows, mbMarking, mbRestoring, mbQueueRef,
                       mbRestored, mbLife>>

\* The UPDATEs of a batch follow one another; a failing one ends the batch.
MarkDelivered ==
  \E batch \in mbMarking :
    /\ \/ /\ mbStatus' = [mbStatus EXCEPT ![Head(batch)] = IF @ = "none" THEN @ ELSE "delivered"]
          /\ mbMarking' = (mbMarking \ {batch}) \cup
                            (IF Len(batch) > 1 THEN {Tail(batch)} ELSE {})
       \/ mbMarking' = mbMarking \ {batch} /\ UNCHANGED mbStatus
    /\ UNCHANGED <<mbSent, mbLine, mbTable, mbRetryCount, mbWriting, mbPersist,
                   mbRestoring, mbQueueRef, mbRestored, mbRetried, mbLife>>

----------------------------------------------------------------------------
\* Restored too often without being received.
DeadLetters == {m \in MbMessages : mbStatus[m] = "pending" /\ mbRetryCount[m] >= MbMaxRetry}

(***************************************************************************)
(* A new process: nothing in memory, no answer comes any more.  The        *)
(* restore marks the dead letters and selects the oldest pending rows,     *)
(* unless the first or the second query fails.                             *)
(***************************************************************************)
MailboxRestart ==
  /\ mbLife < MbMaxLives /\ mbLife' = mbLife + 1
  /\ mbLine' = <<>> /\ mbMarking' = {} /\ mbQueueRef' = "none"
  /\ mbWriting' = [m \in MbMessages |-> 0]
  /\ mbPersist' = [m \in MbMessages |-> NotPending]
  /\ \/ UNCHANGED mbStatus /\ mbRestoring' = <<>>
     \/ /\ mbStatus' = [m \in MbMessages |-> IF m \in DeadLetters THEN "dead_letter"
                                                                  ELSE mbStatus[m]]
        /\ LET rows == Only(mbTable, {m \in MbMessages : mbStatus'[m] = "pending"})
           IN  mbRestoring' \in {<<>>, IF Len(rows) > MbMaxQueue
                                         THEN SubSeq(rows, 1, MbMaxQueue) ELSE rows}
  /\ mbRetried' = [m \in MbMessages |-> 0]
  /\ UNCHANGED <<mbSent, mbTable, mbRetryCount, mbRestored>>

Clear ==
  /\ mbLife < MbMaxLives /\ mbLife' = mbLife + 1
  /\ mbLine' = <<>>
  /\ mbPersist' = [m \in MbMessages |-> NotPending]
  /\ mbQueueRef' = IF mbQueueRef = "live" THEN "detached" ELSE mbQueueRef
  /\ mbRetried' = [m \in MbMessages |-> 0]
  /\ UNCHANGED <<mbSent, mbRows, mbWriting, mbMarking, mbRestoring, mbRestored>>

\* The restore looks up the queue of the next row and awaits the UPDATE.
RestoreRow ==
  /\ mbRestoring # <<>> /\ mbQueueRef = "none"
  /\ Len(Queued(MbTo[Head(mbRestoring)])) < MbMaxPerAgent
  /\ mbQueueRef' = "live"
  /\ UNCHANGED <<mbSent, mbLine, mbRows, mbWriting, mbMarking, mbPersist, mbRestoring,
                 mbRestored, mbRetried, mbLife>>

\* Its answer: the message is pushed only if the restore was counted.
Restored(counted) ==
  LET m == Head(mbRestoring)
  IN  /\ mbRestoring # <<>> /\ mbQueueRef # "none"
      /\ mbRetryCount' = IF counted THEN [mbRetryCount EXCEPT ![m] = @ + 1] ELSE mbRetryCount
      /\ mbLine' = IF counted /\ mbQueueRef = "live" THEN Append(mbLine, m) ELSE mbLine
      /\ mbRestored' = [mbRestored EXCEPT ![m] = @ + (IF counted THEN 1 ELSE 0)]
      /\ mbRestoring' = Tail(mbRestoring) /\ mbQueueRef' = "none"
      /\ UNCHANGED <<mbSent, mbTable, mbStatus, mbWriting, mbMarking, mbPersist, mbRetried,
                     mbLife>>

\* A full queue takes no more; the row's count grows all the same.
RestoreSkips(counted) ==
  LET m == Head(mbRestoring)
  IN  /\ mbRestoring # <<>> /\ mbQueueRef = "none"
      /\ Len(Queued(MbTo[m])) >= MbMaxPerAgent
      /\ mbRetryCount' = IF counted THEN [mbRetryCount EXCEPT ![m] = @ + 1] ELSE mbRetryCount
      /\ mbRestoring' = Tail(mbRestoring)
      /\ UNCHANGED <<mbSent, mbLine, mbTable, mbStatus, mbWriting, mbMarking, mbPersist,
                     mbQueueRef, mbRestored, mbRetried, mbLife>>

MailboxNext ==
  \/ \E m \in MbMessages : \/ \E persist \in BOOLEAN : Send(m, persist)
                           \/ RowInserted(m) \/ InsertFailed(m)
  \/ \E m \in MbMessages : MailboxReceive(MbTo[m])
  \/ RetryPendingPersists \/ MarkDelivered
  \/ MailboxRestart \/ Clear \/ RestoreRow
  \/ \E counted \in BOOLEAN : Restored(counted) \/ RestoreSkips(counted)

----------------------------------------------------------------------------
(* Properties                                                               *)

\* Types; a queue holds one message more than MAX_PER_AGENT at most, which
\* happens when messages are sent while the restore awaits its UPDATE.
MailboxTypeOK ==
  /\ \A m \in MbMessages : Len(Queued(MbTo[m])) <= MbMaxPerAgent + 1
  /\ ToSet(mbLine) \subseteq mbSent
  /\ mbStatus \in [MbMessages -> {"none", "pending", "delivered", "dead_letter"}]
  /\ ToSet(mbTable) = {m \in MbMessages : mbStatus[m] # "none"}
  /\ mbPersist \in [MbMessages -> 0 .. MbMaxPersists \cup {NotPending}]
  /\ mbQueueRef # "none" => mbRestoring # <<>>

\* A message whose receiver never confirms it is not restored for ever: at most
\* MAX_RETRY times over all restarts, whichever UPDATE fails.
RestoresBounded == \A m \in MbMessages : mbRestored[m] <= MbMaxRetry

\* A message that is to be persisted is written or written again as long as
\* the process lives: no failure of an INSERT, nor the receiving of the message
\* meanwhile, makes the mailbox forget the write.  So it is because a failure puts
\* the entry back with its retries at 0: what the code says of giving up, GivesUp,
\* does not hold.
Unwritten(m) == mbWriting[m] > 0 \/ mbPersist[m] # NotPending
WriteNotForgotten ==
  [][\A m \in MbMessages : Unwritten(m) /\ ~ Unwritten(m)' =>
       mbStatus'[m] # "none" \/ mbLife' # mbLife]_mailboxVars

\* What the retry loop says of itself, "Give up after max retries": a message is
\* written again at most MbMaxPersists times.
GivesUp == \A m \in MbMessages : mbRetried[m] <= MbMaxPersists
=============================================================================
