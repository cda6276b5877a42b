------------------------------ MODULE Committee ------------------------------
(***************************************************************************)
(* reflection/committee.js: a proposal is voted on by agents, all asked at *)
(* once, and then by people, each asked by a message with buttons and      *)
(* given until a timer fires; the weights of the votes decide.  Proposals  *)
(* come from reflection/distiller.js, one after the other.  People join    *)
(* and leave meanwhile by the /committee command of gateway/adapters/      *)
(* slack.js, and press the buttons of reflection/vote-notifier.js whenever *)
(* they like, also of old proposals.  What an agent or a person votes, and *)
(* which message cannot be sent, is chosen; texts are left out.            *)
(*                                                                         *)
(* An operator named Bug... is a plausible wrong version of the definition *)
(* that follows it and is used nowhere in the specification.               *)
(***************************************************************************)
EXTENDS Integers, FiniteSets, FiniteSetsExt

CONSTANTS AiMembers,       \* aiMembers, of weight 1
          People,          \* platform users who may become members
          Configured,      \* those whom the configuration names, under ids of their own
          HumanWeight,     \* weight of a human member
          MaxPending,      \* MAX_PENDING_PROPOSALS
          CmtMaxProposals, \* bound on the proposals of a behaviour
          CmtMaxJoins      \* bound on the joins of a behaviour

ASSUME CommitteeAssumption == CmtMaxProposals \in Nat /\ Configured \subseteq People

VARIABLES seat,       \* member of humanMembers |-> the id of the member
          standing,     \* proposal in _pendingProposals |-> its status
          votes,      \* proposal |-> id |-> [vote, how, weight]
          current,    \* the proposal being collected, 0 for none
          phase,      \* what collectVotes awaits: "ai", "sends", "people", "announced"
          sends,      \* ids of members whose sendVoteRequest is awaited
          asked,      \* proposal |-> those to whom its message has gone
          proposed,   \* number of proposals (bounds the runs)
          joins,      \* number of joins (bounds the runs)
          given,      \* proposal |-> votes that were accepted, by member (history)
          unsent,     \* proposal |-> ids whose message was said to have failed (history)
          counted     \* proposal |-> the votes it was decided on (history)

cmtVars == <<seat, standing, votes, current, phase, sends, asked, proposed, joins,
             given, unsent, counted>>
memberVars == <<seat, joins>>

CmtProposals == 1 .. CmtMaxProposals
VoteOptions == {"approve", "reject", "defer"}  \* VOTE_OPTIONS
Members == DOMAIN seat
CmtIds == {"config", "human"} \X People
Empty == [z \in {} |-> z]
Without(f, S) == [z \in DOMAIN f \ S |-> f[z]]
With(f, z, v) == [y \in DOMAIN f \cup {z} |-> IF y = z THEN v ELSE f[y]]
Cast(v, how, w) == [vote |-> v, how |-> how, weight |-> w]

CommitteeInit ==
  /\ seat = [u \in Configured |-> <<"config", u>>]
  /\ standing = Empty
  /\ votes = [p \in CmtProposals |-> Empty]
  /\ current = 0 /\ phase = "none" /\ sends = {}
  /\ asked = [p \in CmtProposals |-> {}]
  /\ proposed = 0 /\ joins = 0
  /\ given = [p \in CmtProposals |-> Empty]
  /\ unsent = [p \in CmtProposals |-> {}]
  /\ counted = [p \in CmtProposals |-> Empty]

-----------------------------------------------------------------------------
(* The verdict. *)

WeightOf(vs, S) == MapThenSumSet(LAMBDA i : vs[i].weight, S)
Successful(vs) == {i \in DOMAIN vs : vs[i].how # "failed"}
For(vs, v) == WeightOf(vs, {i \in Successful(vs) : vs[i].vote = v})
\* More than half of the members of this moment.
Quorum == (Cardinality(AiMembers) + HumanWeight * Cardinality(Members)) \div 2 + 1

Verdict(vs) ==
  IF 2 * For(vs, "reject") > WeightOf(vs, Successful(vs)) THEN "rejected"
  ELSE IF For(vs, "approve") >= Quorum THEN "approved"
  ELSE "deferred"

\* The votes decide.  Without a single successful vote the proposal is
\* deferred and nobody is told.
Adjudicate(p, vs) ==
  /\ votes' = [votes EXCEPT ![p] = vs]
  /\ counted' = [counted EXCEPT ![p] = vs]
  /\ IF Successful(vs) = {}
     THEN /\ standing' = [standing EXCEPT ![p] = "deferred"]
          /\ phase' = "none" /\ current' = 0
     ELSE /\ standing' = [standing EXCEPT ![p] = Verdict(vs)]
          /\ phase' = "announced" /\ UNCHANGED current

\* The members who have not voted are awaited, if there are any.
AwaitPeople(p, vs) ==
  IF \A u \in Members : seat[u] \in DOMAIN vs
  THEN Adjudicate(p, vs)
  ELSE /\ votes' = [votes EXCEPT ![p] = vs]
       /\ phase' = "people"
       /\ UNCHANGED <<standing, current, counted>>

-----------------------------------------------------------------------------
(* A proposal and its votes. *)

\* proposeAndVote: at the cap of stored proposals it is refused.
Propose ==
  /\ current = 0 /\ proposed < CmtMaxProposals
  /\ Cardinality(DOMAIN standing) < MaxPending
  /\ proposed' = proposed + 1
  /\ standing' = With(standing, proposed + 1, "pending")
  /\ current' = proposed + 1
  /\ phase' = "ai"
  /\ UNCHANGED <<votes, sends, asked, given, unsent, counted, memberVars>>

BugAiVotesIn ==
  /\ phase = "ai"
  /\ \E vs \in [AiMembers -> {Cast(v, "given", 1) : v \in VoteOptions}
                                 \cup {Cast("defer", "failed", 1)}] :
       IF Successful(vs) # AiMembers
       THEN /\ phase' = "none" /\ current' = 0
            /\ UNCHANGED <<standing, votes, counted, sends, asked>>
       ELSE /\ Adjudicate(current, vs)
            /\ UNCHANGED <<sends, asked>>
  /\ UNCHANGED <<given, unsent, proposed, memberVars>>

\* All agents have answered or failed; every member of now is written to.
AiVotesIn ==
  /\ phase = "ai"
  /\ \E vs \in [AiMembers -> {Cast(v, "given", 1) : v \in VoteOptions}
                                 \cup {Cast("defer", "failed", 1)}] :
       IF Members # {}
       THEN /\ votes' = [votes EXCEPT ![current] = vs]
            /\ phase' = "sends"
            /\ sends' = {seat[u] : u \in Members}
            /\ asked' = [asked EXCEPT ![current] = Members]
            /\ UNCHANGED <<standing, current, counted>>
       ELSE Adjudicate(current, vs) /\ UNCHANGED <<sends, asked>>
  /\ UNCHANGED <<given, unsent, proposed, memberVars>>

\* A message was sent, or the call failed, perhaps after the message went out:
\* then the vote of the member with id i is a failed one, whatever it was.
SendEnds(i) ==
  /\ phase = "sends" /\ i \in sends
  /\ sends' = sends \ {i}
  /\ \E failed \in BOOLEAN :
       LET vs == IF failed THEN With(votes[current], i, Cast("defer", "failed", HumanWeight))
                 ELSE votes[current]
       IN /\ unsent' = [unsent EXCEPT ![current] = IF failed THEN @ \cup {i} ELSE @]
          /\ IF sends' = {}
             THEN AwaitPeople(current, vs)
             ELSE /\ votes' = [votes EXCEPT ![current] = vs]
                  /\ UNCHANGED <<standing, current, phase, counted>>
  /\ UNCHANGED <<asked, given, proposed, memberVars>>

BugVote(u, p, v) ==
  /\ u \in asked[p] /\ u \in Members
  /\ p \in DOMAIN standing
  /\ seat[u] \notin DOMAIN votes[p]
  /\ given' = [given EXCEPT ![p] = With(@, seat[u], v)]
  /\ LET vs == With(votes[p], seat[u], Cast(v, "given", HumanWeight))
     IN IF p = current /\ phase = "people"
        THEN AwaitPeople(p, vs)
        ELSE /\ votes' = [votes EXCEPT ![p] = vs]
             /\ UNCHANGED <<standing, current, phase, counted>>
  /\ UNCHANGED <<sends, asked, unsent, proposed, memberVars>>

\* u presses a button of proposal p.  Nobody votes twice under one id, nor on
\* what is decided.  The last vote ends the wait, if it has begun.
Vote(u, p, v) ==
  /\ u \in asked[p] /\ u \in Members
  /\ p \in DOMAIN standing /\ standing[p] = "pending"
  /\ seat[u] \notin DOMAIN votes[p]
  /\ given' = [given EXCEPT ![p] = With(@, seat[u], v)]
  /\ LET vs == With(votes[p], seat[u], Cast(v, "given", HumanWeight))
     IN IF phase = "people"
        THEN AwaitPeople(p, vs)
        ELSE /\ votes' = [votes EXCEPT ![p] = vs]
             /\ UNCHANGED <<standing, current, phase, counted>>
  /\ UNCHANGED <<sends, asked, unsent, proposed, memberVars>>

\* The time of the people is over: who has not voted defers.
VoteTimeout ==
  /\ phase = "people"
  /\ LET late == {seat[u] : u \in Members} \ DOMAIN votes[current]
     IN Adjudicate(current,
                   [i \in DOMAIN votes[current] \cup late |->
                      IF i \in late THEN Cast("defer", "timedOut", HumanWeight)
                      ELSE votes[current][i]])
  /\ UNCHANGED <<sends, asked, given, unsent, proposed, memberVars>>

\* The decision was broadcast; a timer will forget the proposal.
Announced ==
  /\ phase = "announced"
  /\ phase' = "none" /\ current' = 0
  /\ UNCHANGED <<standing, votes, sends, asked, given, unsent, counted, proposed, memberVars>>

\* The timer that _scheduleProposalCleanup started.  It was not started for a
\* proposal without successful votes, which stays for good.
ForgetProposal(p) ==
  /\ p \in DOMAIN standing /\ standing[p] # "pending" /\ p # current
  /\ Successful(counted[p]) # {}
  /\ standing' = Without(standing, {p})
  /\ votes' = [votes EXCEPT ![p] = Empty]
  /\ asked' = [asked EXCEPT ![p] = {}]
  /\ given' = [given EXCEPT ![p] = Empty]
  /\ unsent' = [unsent EXCEPT ![p] = {}]
  /\ counted' = [counted EXCEPT ![p] = Empty]
  /\ UNCHANGED <<current, phase, sends, proposed, memberVars>>

-----------------------------------------------------------------------------
(* Members. *)

\* Who joins gets an id made of the platform's, also one who had another.
AddHumanMember(u) ==
  /\ u \notin Members /\ joins < CmtMaxJoins
  /\ joins' = joins + 1
  /\ seat' = With(seat, u, <<"human", u>>)
  /\ UNCHANGED <<standing, votes, current, phase, sends, asked, given, unsent, counted, proposed>>

\* Who leaves is not awaited less: only a vote or the timer looks again.
RemoveHumanMember(u) ==
  /\ u \in Members
  /\ seat' = Without(seat, {u})
  /\ UNCHANGED <<standing, votes, current, phase, sends, asked, given, unsent, counted,
                 proposed, joins>>

CommitteeNext ==
  \/ Propose \/ AiVotesIn \/ VoteTimeout \/ Announced
  \/ \E i \in CmtIds : SendEnds(i)
  \/ \E u \in People, p \in CmtProposals, v \in VoteOptions : Vote(u, p, v)
  \/ \E p \in CmtProposals : ForgetProposal(p)
  \/ \E u \in People : AddHumanMember(u) \/ RemoveHumanMember(u)

CommitteeSpec == CommitteeInit /\ [][CommitteeNext]_cmtVars

\* Agents answer or fail, calls of the platform return, and timers fire.
CommitteeFairness ==
  /\ WF_cmtVars(AiVotesIn) /\ WF_cmtVars(VoteTimeout) /\ WF_cmtVars(Announced)
  /\ \A i \in CmtIds : WF_cmtVars(SendEnds(i))

CommitteeTypeOK ==
  /\ Members \subseteq People /\ \A u \in Members : seat[u] \in {<<"config", u>>, <<"human", u>>}
  /\ DOMAIN standing \subseteq 1 .. proposed
  /\ \A p \in DOMAIN standing : standing[p] \in {"pending", "approved", "rejected", "deferred"}
  /\ phase \in {"none", "ai", "sends", "people", "announced"}
  /\ (phase = "none") = (current = 0)
  /\ sends \subseteq CmtIds /\ (sends # {} => phase = "sends")
  /\ \A p \in CmtProposals : DOMAIN votes[p] \subseteq AiMembers \cup CmtIds

\* A verdict stands, and rests on every vote that was accepted, unless the
\* member's own message was reported as failed: no vote is lost to the ones
\* that come in while messages are still being sent, to the timer or to a
\* member who leaves, and no vote enters after the verdict.
AcceptedVotesCount ==
  \A p \in DOMAIN standing : standing[p] # "pending" =>
    /\ votes[p] = counted[p]
    /\ \A i \in DOMAIN given[p] \ unsent[p] :
         i \in DOMAIN counted[p] /\ counted[p][i].vote = given[p][i]

\* Every proposal is decided in the end, whoever fails to answer, joins or
\* leaves while it is voted on.
VotesSettle ==
  \A p \in CmtProposals :
    (p \in DOMAIN standing /\ standing[p] = "pending")
      ~> ~(p \in DOMAIN standing /\ standing[p] = "pending")
=============================================================================
