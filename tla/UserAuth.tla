------------------------------- MODULE UserAuth -------------------------------
(***************************************************************************)
(* How one user's Microsoft login is kept: auth/ms-oauth.js and            *)
(* auth/routes.js (the login link and the callback that saves the login),  *)
(* auth/portal-auth.js (the token of the portal, got with the login), the  *)
(* delegation of agents/runtime.js to an external agent (token injection,  *)
(* refresh, one retry), and the profile update after each message, all of  *)
(* which write the user's entity by entity.upsert of memory/manager.js: it *)
(* reads the row, merges, and writes the merged row back, in two awaited   *)
(* steps.                                                                  *)
(*                                                                         *)
(* A login is a number, in the order in which the provider granted them;   *)
(* a refreshed token belongs to the login it refreshes, and a portal token *)
(* to the login it was got with.  Whether a token that is read is near its *)
(* expiry, and whether the provider, the portal and the external agent     *)
(* answer, is chosen.                                                      *)
(*                                                                         *)
(* An operator named Bug... is a plausible wrong version of the definition *)
(* that follows it and is used nowhere in the specification.               *)
(***************************************************************************)
EXTENDS Naturals, FiniteSets

CONSTANTS UaJobs,       \* the callbacks, requests and profile updates
          UaKind,       \* job |-> "callback", "profile", "ms" or "portal"
          OAuthStates,  \* the random states of login links
          StateTtl,     \* ticks a login link is good for
          NoRow         \* the value of a row that does not exist

ASSUME UserAuthAssumption ==
  /\ UaKind \in [UaJobs -> {"callback", "profile", "ms", "portal"}]
  /\ StateTtl \in Nat /\ IsFiniteSet(OAuthStates)

VARIABLES row,          \* the properties of the user's entity, or NoRow
          pendingStates,\* pending state |-> its age in ticks
          usedStates,   \* state |-> number of exchanges with it (history)
          logins,       \* number of logins granted (external)
          job           \* job |-> where it is, the entity it got (auth), the row
                        \* its upsert read (seen), what it writes and goes to

uaVars == <<row, pendingStates, usedStates, logins, job>>
linkVars == <<pendingStates, usedStates>>

NoProps == [p \in {} |-> 0]
Prop(p, v) == [q \in {p} |-> v]
\* { ...old, ...new } of upsert
Merged(old, new) ==
  [p \in DOMAIN old \cup DOMAIN new |-> IF p \in DOMAIN new THEN new[p] ELSE old[p]]
Logins == 0 .. Cardinality(OAuthStates)

UserAuthInit ==
  /\ row \in {NoRow, NoProps}
  /\ pendingStates = NoProps
  /\ usedStates = [s \in OAuthStates |-> 0]
  /\ logins = 0
  /\ job = [j \in UaJobs |-> [pc |-> "idle", auth |-> NoProps, seen |-> NoProps,
                              props |-> NoProps, then |-> "done"]]

At(j, pc) == job[j].pc = pc
GoesTo(j, pc) == job' = [job EXCEPT ![j].pc = pc]
\* j upserts props and goes on at pc.
Upsert(j, props, pc) ==
  job' = [job EXCEPT ![j].pc = "reading", ![j].props = props, ![j].then = pc]
Login(r) == IF r # NoRow /\ "ms" \in DOMAIN r THEN r["ms"] ELSE 0
Portal(r) == IF r # NoRow /\ "portal" \in DOMAIN r THEN r["portal"] ELSE 0

-----------------------------------------------------------------------------
\* entity.upsert: the row as it is now
UpsertReads(j) ==
  /\ At(j, "reading")
  /\ job' = [job EXCEPT ![j].pc = "writing", ![j].seen = row]
  /\ UNCHANGED <<row, linkVars, logins>>

\* ... and the row as it was merged with the properties.  An insert fails
\* when the row has come to exist meanwhile; the profile update tries again.
UpsertWrites(j) ==
  /\ At(j, "writing")
  /\ IF job[j].seen = NoRow /\ row # NoRow
     THEN /\ GoesTo(j, IF UaKind[j] = "profile" THEN "reading" ELSE "done")
          /\ UNCHANGED row
     ELSE /\ row' = IF job[j].seen = NoRow THEN job[j].props
                    ELSE Merged(job[j].seen, job[j].props)
          /\ GoesTo(j, job[j].then)
  /\ UNCHANGED <<linkVars, logins>>

-----------------------------------------------------------------------------
\* generateLoginUrl
NewLink(s) ==
  /\ s \notin DOMAIN pendingStates /\ usedStates[s] = 0
  /\ pendingStates' = Merged(pendingStates, Prop(s, 0))
  /\ UNCHANGED usedStates

\* The command that asks for a login link.
AskForLink ==
  /\ \E s \in OAuthStates : NewLink(s)
  /\ UNCHANGED <<row, logins, job>>

Forget(s) == pendingStates' = [t \in DOMAIN pendingStates \ {s} |-> pendingStates[t]]

\* exchangeCodeForToken up to the request: a state is good once, and only
\* for its time.
Callback(j, s) ==
  /\ UaKind[j] = "callback" /\ At(j, "idle")
  /\ IF s \notin DOMAIN pendingStates
     THEN GoesTo(j, "done") /\ UNCHANGED linkVars
     ELSE /\ Forget(s)
          /\ IF pendingStates[s] > StateTtl
             THEN GoesTo(j, "done") /\ UNCHANGED usedStates
             ELSE /\ usedStates' = [usedStates EXCEPT ![s] = @ + 1]
                  /\ GoesTo(j, "exchanging")
  /\ UNCHANGED <<row, logins>>

\* The provider grants the login, which is saved.
Exchanged(j) ==
  /\ At(j, "exchanging") /\ logins < Cardinality(OAuthStates)
  /\ logins' = logins + 1
  /\ Upsert(j, Prop("ms", logins + 1), "done")
  /\ UNCHANGED <<row, linkVars>>

ExchangeFails(j) ==
  /\ At(j, "exchanging")
  /\ GoesTo(j, "done")
  /\ UNCHANGED <<row, linkVars, logins>>

\* entityUpdatePost: the profile has been fetched; none of the properties
\* it writes is a login.
UpdateProfile(j) ==
  /\ UaKind[j] = "profile" /\ At(j, "idle")
  /\ Upsert(j, NoProps, "done")
  /\ UNCHANGED <<row, linkVars, logins>>

-----------------------------------------------------------------------------
\* buildReauthResult: the answer is a new login link.
Reauth(j) ==
  /\ GoesTo(j, "done")
  /\ \/ \E s \in OAuthStates : NewLink(s)
     \/ /\ \A s \in OAuthStates : s \in DOMAIN pendingStates \/ usedStates[s] > 0
        /\ UNCHANGED linkVars  \* the model has no further link

\* entity.get at the start of a request to an external agent; for the portal,
\* ensurePortalAuth.  A token read may be near its expiry or not.
StartRequest(j) ==
  /\ UaKind[j] \in {"ms", "portal"} /\ At(j, "idle")
  /\ \/ /\ UaKind[j] = "portal" /\ Portal(row) > 0
        /\ \E pc \in {"calling", "refreshing portal"} :
             job' = [job EXCEPT ![j].pc = pc, ![j].auth = row]
        /\ UNCHANGED linkVars
     \/ /\ Login(row) > 0
        /\ \E pc \in {"refreshing", IF UaKind[j] = "ms" THEN "calling"
                                                        ELSE "exchanging portal"} :
             job' = [job EXCEPT ![j].pc = pc, ![j].auth = row]
        /\ UNCHANGED linkVars
     \/ /\ Login(row) = 0
        /\ Reauth(j)
  /\ UNCHANGED <<row, logins>>

\* The refresh token of the login that was read gets a new access token, which
\* is written over the login in the row.
Refreshed(j) ==
  /\ At(j, "refreshing")
  /\ Upsert(j, Prop("ms", Login(job[j].auth)),
            IF UaKind[j] = "ms" THEN "calling" ELSE "exchanging portal")
  /\ UNCHANGED <<row, linkVars, logins>>

RefreshFails(j) ==
  /\ At(j, "refreshing")
  /\ Reauth(j)
  /\ UNCHANGED <<row, logins>>

\* refreshPortalToken; when it fails the Microsoft token is tried.
PortalRefreshed(j) ==
  /\ At(j, "refreshing portal")
  /\ Upsert(j, Prop("portal", Portal(job[j].auth)), "calling")
  /\ UNCHANGED <<row, linkVars, logins>>

PortalRefreshFails(j) ==
  /\ At(j, "refreshing portal")
  /\ IF Login(job[j].auth) = 0
     THEN Reauth(j)
     ELSE /\ \E pc \in {"refreshing", "exchanging portal"} : GoesTo(j, pc)
          /\ UNCHANGED linkVars
  /\ UNCHANGED <<row, logins>>

\* exchangeForPortalToken
PortalExchanged(j) ==
  /\ At(j, "exchanging portal")
  /\ Upsert(j, Prop("portal", Login(job[j].auth)), "calling")
  /\ UNCHANGED <<row, linkVars, logins>>

PortalExchangeFails(j) ==
  /\ At(j, "exchanging portal")
  /\ Reauth(j)
  /\ UNCHANGED <<row, logins>>

\* callOpenClaw: an answer that speaks of an expired token makes the request
\* refresh the Microsoft login, if there is one, and ask once more.
AgentAnswered(j) ==
  /\ At(j, "calling")
  /\ GoesTo(j, "done")
  /\ UNCHANGED <<row, linkVars, logins>>

AgentAnsweredExpired(j) ==
  /\ At(j, "calling")
  /\ job' = [job EXCEPT ![j].pc = IF Login(row) > 0 THEN "refreshing again"
                                                    ELSE "done",
                        ![j].auth = row]
  /\ UNCHANGED <<row, linkVars, logins>>

RefreshedAgain(j) ==
  /\ At(j, "refreshing again")
  /\ \/ Upsert(j, Prop("ms", Login(job[j].auth)), "calling again")
     \/ GoesTo(j, "done")
  /\ UNCHANGED <<row, linkVars, logins>>

AgentAnsweredAgain(j) ==
  /\ At(j, "calling again")
  /\ GoesTo(j, "done")
  /\ UNCHANGED <<row, linkVars, logins>>

-----------------------------------------------------------------------------
AuthTick ==
  /\ \E s \in DOMAIN pendingStates : pendingStates[s] <= StateTtl
  /\ pendingStates' = [s \in DOMAIN pendingStates |->
                         IF pendingStates[s] <= StateTtl THEN pendingStates[s] + 1
                         ELSE pendingStates[s]]
  /\ UNCHANGED <<row, usedStates, logins, job>>

\* The cleanup timer.
CleanupStates ==
  /\ \E s \in DOMAIN pendingStates : pendingStates[s] > StateTtl
  /\ pendingStates' =
       [s \in {t \in DOMAIN pendingStates : pendingStates[t] <= StateTtl}
          |-> pendingStates[s]]
  /\ UNCHANGED <<row, usedStates, logins, job>>

UserAuthNext ==
  \/ AskForLink \/ AuthTick \/ CleanupStates
  \/ \E j \in UaJobs :
       \/ UpsertReads(j) \/ UpsertWrites(j)
       \/ \E s \in OAuthStates : Callback(j, s)
       \/ Exchanged(j) \/ ExchangeFails(j) \/ UpdateProfile(j)
       \/ StartRequest(j) \/ Refreshed(j) \/ RefreshFails(j)
       \/ PortalRefreshed(j) \/ PortalRefreshFails(j)
       \/ PortalExchanged(j) \/ PortalExchangeFails(j)
       \/ AgentAnswered(j) \/ AgentAnsweredExpired(j) \/ RefreshedAgain(j)
       \/ AgentAnsweredAgain(j)

-----------------------------------------------------------------------------
Rows == {NoRow} \cup UNION {[D -> Logins] : D \in SUBSET {"ms", "portal"}}

UserAuthTypeOK ==
  /\ row \in Rows
  /\ DOMAIN pendingStates \subseteq OAuthStates
  /\ \A s \in DOMAIN pendingStates : pendingStates[s] \in 0 .. StateTtl + 1
  /\ usedStates \in [OAuthStates -> Nat]
  /\ logins \in Logins
  /\ \A j \in UaJobs : {job[j].auth, job[j].seen, job[j].props} \subseteq Rows

\* A login that was saved stays until a later one replaces it: the upsert says
\* that it merges with what is there, so as not to overwrite it.
LoginKept == [][Login(row') >= Login(row)]_uaVars
=============================================================================
