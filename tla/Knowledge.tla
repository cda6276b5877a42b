------------------------------ MODULE Knowledge ------------------------------
(***************************************************************************)
(* Long-term memory: the save_knowledge tool of agents/runtime.js, the     *)
(* indexing of idle sessions (memory/indexer.js) and the nightly           *)
(* distillation (reflection/distiller.js) write it, through semantic of    *)
(* memory/manager.js and memory/graph.js; memory/user-profile.js and       *)
(* memory/bulletin.js read it into prompts and cache what they read.       *)
(*                                                                         *)
(* Every query is awaited: a step is the query at the database, and what   *)
(* the code does with its answer belongs to the next step.  Queries, votes *)
(* and the similarity of texts have chosen outcomes.  A content is one     *)
(* text; both tables hold a text once, whoever saved it first.  The two    *)
(* caches are one function of views, since they work alike; an entry       *)
(* leaves it when it expires or is evicted.  Contents are fewer than the   *)
(* limits of the readers' queries.  Memories that other modules put into   *)
(* the graph without refreshing anybody's profile are left out.            *)
(***************************************************************************)
EXTENDS Naturals, Sequences, FiniteSets

CONSTANTS KnJobs,       \* calls of save_knowledge, indexed sessions, nights
          KnKind,       \* job |-> "tool", "index" or "distil"
          KnContents,   \* job |-> the contents it saves, in order
          KnUserOf,     \* job |-> its user
          KnChannelOf,  \* job |-> the channel of the session or candidate
          KnPoolOf,     \* job |-> the pool it asks for
          Writable,     \* job |-> pools its agent may write
          KnType,       \* content |-> type of the memory
          KnTypes,      \* MEMORY_TYPES, in the order the profile reads them
          Decided,      \* contents classified as decisions
          KnReaders,    \* messages whose prompts are built
          KnViews,      \* profiles and bulletins they may ask for
          ChannelLimit, \* antiBloat.channelLimit
          UserLimit,    \* antiBloat.userLimit
          TotalLimit,   \* maxSemanticEntries
          Nowhere       \* no channel

\* Every job has something to save, a session is one of a channel, and a bulletin
\* is asked for in one.
ASSUME KnowledgeAssumption ==
  /\ KnKind \in [KnJobs -> {"tool", "index", "distil"}]
  /\ KnContents \in [KnJobs -> Seq(DOMAIN KnType)] /\ \A j \in KnJobs : KnContents[j] # <<>>
  /\ \A j \in KnJobs : KnKind[j] = "index" => KnChannelOf[j] # Nowhere
  /\ \A v \in KnViews : IF v.of = "profile" THEN v = [of |-> "profile", user |-> v.user, channel |-> Nowhere]
                                             ELSE v.of = "bulletin" /\ v.channel # Nowhere
  /\ KnTypes \in Seq({KnTypes[i] : i \in DOMAIN KnTypes})
  /\ ChannelLimit \in Nat /\ UserLimit \in Nat /\ TotalLimit \in Nat

VARIABLES rows,      \* semantic_memory: content |-> row
          graph,     \* memories: content |-> user who is its source
          step,      \* job |-> where it is
          left,      \* job |-> contents it has not saved
          excess,    \* job |-> number of rows its enforcement will archive
          cache,     \* view |-> what is shown of it
          building,  \* reader |-> the view being built, or none
          spared     \* an enforcement failed (history)

knVars == <<rows, graph, step, left, excess, cache, building, spared>>
tableVars == <<rows, graph>>
jobVars == <<step, left, excess, spared>>
readVars == <<cache, building>>

Profile(u) == [of |-> "profile", user |-> u, channel |-> Nowhere]
BulletinsOf(ch) == {v \in KnViews : v.of = "bulletin" /\ v.channel = ch}
NoBuild == [view |-> Profile(Nowhere), queries |-> <<>>, seen |-> {}, flawed |-> FALSE]

With(f, k, v) == [x \in DOMAIN f \cup {k} |-> IF x = k THEN v ELSE f[x]]
Sans(f, S) == [x \in DOMAIN f \ S |-> f[x]]
Elements(s) == {s[i] : i \in DOMAIN s}
FirstStep(j) == IF KnKind[j] = "index" THEN "save" ELSE "search"

KnowledgeInit ==
  /\ rows = [c \in {} |-> Nowhere] /\ graph = [c \in {} |-> Nowhere]
  /\ \E J \in SUBSET KnJobs :  \* any of them may take place
       step = [j \in KnJobs |-> IF j \notin J THEN "done"
                               ELSE IF KnKind[j] = "distil" THEN "new" ELSE FirstStep(j)]
  /\ left = KnContents /\ excess = [j \in KnJobs |-> 0]
  /\ cache = [v \in {} |-> NoBuild] /\ building = [r \in KnReaders |-> NoBuild]
  /\ spared = FALSE

-----------------------------------------------------------------------------
BugForgotten(V, query) == cache' = cache /\ building' = building

\* A cached view is forgotten.  A build that has already read what changed will
\* cache it without the change.
Forgotten(V, query) ==
  /\ cache' = Sans(cache, V)
  /\ building' = [r \in KnReaders |->
       IF building[r] # NoBuild /\ building[r].view \in V /\ query \notin Elements(building[r].queries)
       THEN [building[r] EXCEPT !.flawed = TRUE] ELSE building[r]]

\* refreshProfile
RefreshProfile(u, type) == Forgotten({Profile(u)}, type)

\* What a view is made of: the profile queries the graph type by type, the
\* bulletin the decisions of its channel.
Queries(v) == IF v.of = "profile" THEN KnTypes ELSE <<"decisions">>
Found(v, query) ==
  IF v.of = "profile"
  THEN {c \in DOMAIN graph : graph[c] = v.user /\ KnType[c] = query}
  ELSE {c \in DOMAIN rows : rows[c].channel = v.channel /\ rows[c].decision /\ rows[c].live}

\* getProfile and get: what is not cached is built.
StartView(r, v) ==
  /\ building[r] = NoBuild /\ v \notin DOMAIN cache
  /\ building' = [building EXCEPT ![r] =
       [view |-> v, queries |-> Queries(v), seen |-> {}, flawed |-> FALSE]]
  /\ UNCHANGED <<tableVars, jobVars, cache>>

ReadView(r) ==
  LET b == building[r] IN
  /\ b.queries # <<>>
  /\ building' = [building EXCEPT ![r].queries = Tail(@),
                                  ![r].seen = @ \cup Found(b.view, Head(b.queries))]
  /\ UNCHANGED <<tableVars, jobVars, cache>>

\* A type that cannot be read is passed over; without its decisions there is no
\* bulletin.
ReadFails(r) ==
  LET b == building[r] IN
  /\ b.queries # <<>>
  /\ building' = [building EXCEPT ![r] =
       IF b.view.of = "profile" THEN [b EXCEPT !.queries = Tail(@), !.flawed = TRUE]
                                ELSE NoBuild]
  /\ UNCHANGED <<tableVars, jobVars, cache>>

\* What was built is cached, also when it was forgotten while it was built.
ShowView(r) ==
  LET b == building[r] IN
  /\ b # NoBuild /\ b.queries = <<>>
  /\ cache' = With(cache, b.view, [seen |-> b.seen, flawed |-> b.flawed])
  /\ building' = [building EXCEPT ![r] = NoBuild]
  /\ UNCHANGED <<tableVars, jobVars>>

ViewExpires(v) ==
  /\ v \in DOMAIN cache
  /\ cache' = Sans(cache, {v})
  /\ UNCHANGED <<tableVars, jobVars, building>>

-----------------------------------------------------------------------------
\* Where a job goes when it is done with its first content.
NextContent(j) ==
  /\ left' = [left EXCEPT ![j] = Tail(@)]
  /\ step' = [step EXCEPT ![j] = IF Len(left[j]) > 1 THEN FirstStep(j)
                                 ELSE IF KnKind[j] = "index" THEN "indexed" ELSE "count"]

\* runDaily: one night at a time.
Distil(j) ==
  /\ KnKind[j] = "distil" /\ step[j] = "new"
  /\ \A i \in KnJobs : KnKind[i] = "distil" => step[i] \in {"new", "done"}
  /\ step' = [step EXCEPT ![j] = "search"]
  /\ UNCHANGED <<tableVars, readVars, left, excess, spared>>

\* The search for similar knowledge and, at night, the vote of the committee; a
\* tool may only write where its agent may.
Accepted(j) ==
  /\ step[j] = "search"
  /\ KnKind[j] = "tool" => KnPoolOf[j] \in Writable[j]
  /\ step' = [step EXCEPT ![j] = "save"]
  /\ UNCHANGED <<tableVars, readVars, left, excess, spared>>

Declined(j) ==
  /\ step[j] = "search"
  /\ IF KnKind[j] = "tool"
     THEN step' = [step EXCEPT ![j] = "done"] /\ UNCHANGED left
     ELSE NextContent(j)
  /\ UNCHANGED <<tableVars, readVars, excess, spared>>

\* The row of a content.  The tool names no channel and no user, and calls a
\* decision one in source_type, the distiller in memory_type, the indexer in both.
Row(j, c) ==
  [channel |-> IF KnKind[j] = "tool" THEN Nowhere ELSE KnChannelOf[j],
   user |-> IF KnKind[j] = "tool" THEN Nowhere ELSE KnUserOf[j],
   pool |-> KnPoolOf[j], by |-> KnKind[j], live |-> TRUE,
   decision |-> KnKind[j] # "distil" /\ c \in Decided,
   lasting |-> KnKind[j] # "tool" /\ c \in Decided]

\* semantic.save: a content that is there already stays as it is, archived or not.
SaveRow(j) ==
  LET c == Head(left[j]) IN
  /\ step[j] = "save"
  /\ rows' = IF c \in DOMAIN rows THEN rows ELSE With(rows, c, Row(j, c))
  /\ IF KnKind[j] = "tool"
     THEN step' = [step EXCEPT ![j] = "graph"] /\ UNCHANGED left
     ELSE NextContent(j)
  /\ UNCHANGED <<graph, readVars, excess, spared>>

SaveFails(j) ==
  /\ step[j] = "save"
  /\ IF KnKind[j] = "tool"
     THEN step' = [step EXCEPT ![j] = "done"] /\ UNCHANGED left
     ELSE NextContent(j)
  /\ UNCHANGED <<tableVars, readVars, excess, spared>>

\* graph.create: a content that is there already is an error of the database.
CreateMemory(j) ==
  LET c == Head(left[j]) IN
  /\ step[j] = "graph"
  /\ \/ /\ c \notin DOMAIN graph
        /\ graph' = With(graph, c, KnUserOf[j])
        /\ step' = [step EXCEPT ![j] = "created"]
     \/ step' = [step EXCEPT ![j] = "done"] /\ UNCHANGED graph
  /\ UNCHANGED <<rows, readVars, left, excess, spared>>

\* The tool ends with its memory created.
Saved(j) ==
  /\ step[j] = "created"
  /\ RefreshProfile(KnUserOf[j], KnType[Head(left[j])])
  /\ step' = [step EXCEPT ![j] = "done"]
  /\ UNCHANGED <<tableVars, left, excess, spared>>

\* indexSession ends: the enforcement is started and not awaited, and decisions,
\* saved or not, make the bulletins of the channel obsolete.
SessionIndexed(j) ==
  /\ step[j] = "indexed"
  /\ step' = [step EXCEPT ![j] = "count"]
  /\ IF Elements(KnContents[j]) \cap Decided # {}
     THEN Forgotten(BulletinsOf(KnChannelOf[j]), "decisions") ELSE UNCHANGED readVars
  /\ UNCHANGED <<tableVars, left, excess, spared>>

-----------------------------------------------------------------------------
\* enforceAntiBloat of the channel, then of the user, and at night of all: rows
\* are counted, then that many are archived, decisions never.
Live(ch) == {c \in DOMAIN rows : rows[c].live /\ rows[c].channel = ch}
Counted(j) ==
  {c \in DOMAIN rows :
     /\ rows[c].live
     /\ KnKind[j] = "index" => IF step[j] \in {"count", "archive"}
                               THEN rows[c].channel = KnChannelOf[j]
                               ELSE rows[c].user = KnUserOf[j]}
Limit(j) == CASE KnKind[j] = "distil" -> TotalLimit
              [] step[j] = "count" -> ChannelLimit
              [] OTHER -> UserLimit
Archivable(j) ==
  {c \in Counted(j) : IF KnKind[j] = "index" THEN ~rows[c].decision ELSE ~rows[c].lasting}
Enforced(j) ==
  IF KnKind[j] = "index" /\ step[j] \in {"count", "archive"} THEN "recount" ELSE "done"

CountRows(j) ==
  LET n == Cardinality(Counted(j)) IN
  /\ step[j] \in {"count", "recount"}
  /\ excess' = [excess EXCEPT ![j] = IF n > Limit(j) THEN n - Limit(j) ELSE 0]
  /\ step' = [step EXCEPT ![j] =
       IF n <= Limit(j) /\ KnKind[j] = "index" THEN Enforced(j)
       ELSE IF step[j] = "count" THEN "archive" ELSE "rearchive"]
  /\ UNCHANGED <<tableVars, readVars, left, spared>>

\* Which rows were not used longest, and which too long, is left open.
ArchiveRows(j) ==
  /\ step[j] \in {"archive", "rearchive"}
  /\ \E S \in SUBSET Archivable(j) :
       /\ \/ Cardinality(S) = excess[j]
          \/ S = Archivable(j) /\ Cardinality(S) < excess[j]
          \/ KnKind[j] = "distil" /\ Cardinality(S) > excess[j]
       /\ rows' = [c \in DOMAIN rows |-> [rows[c] EXCEPT !.live = @ /\ c \notin S]]
  /\ step' = [step EXCEPT ![j] = Enforced(j)]
  /\ UNCHANGED <<graph, readVars, left, excess, spared>>

EnforcementFails(j) ==
  /\ step[j] \in {"count", "archive", "recount", "rearchive"}
  /\ step' = [step EXCEPT ![j] = "done"]
  /\ spared' = TRUE
  /\ UNCHANGED <<tableVars, readVars, left, excess>>

KnowledgeNext ==
  \/ \E r \in KnReaders : \/ \E v \in KnViews : StartView(r, v)
                          \/ ReadView(r) \/ ReadFails(r) \/ ShowView(r)
  \/ \E v \in KnViews : ViewExpires(v)
  \/ \E j \in KnJobs : \/ Distil(j) \/ Accepted(j) \/ Declined(j) \/ SaveRow(j)
                       \/ SaveFails(j) \/ CreateMemory(j) \/ Saved(j) \/ SessionIndexed(j)
                       \/ CountRows(j) \/ ArchiveRows(j) \/ EnforcementFails(j)

-----------------------------------------------------------------------------
KnowledgeTypeOK ==
  /\ \A c \in DOMAIN rows : rows[c].live \in BOOLEAN
  /\ DOMAIN cache \subseteq KnViews /\ spared \in BOOLEAN
  /\ \A j \in KnJobs :
       /\ step[j] \in {"new", "search", "save", "graph", "created", "indexed",
                       "count", "archive", "recount", "rearchive", "done"}
       /\ Len(left[j]) <= Len(KnContents[j]) /\ excess[j] \in Nat
  /\ \A r \in KnReaders : building[r].view \in KnViews \/ building[r] = NoBuild

\* A writer has changed what a view shows and not forgotten the view yet.
Unannounced(v, c) ==
  \E j \in KnJobs : /\ c \in Elements(KnContents[j])
                    /\ IF v.of = "profile" THEN step[j] = "created"
                                             ELSE step[j] \in {"save", "indexed"}

\* What is cached for the prompts shows every memory of the user and every
\* decision of the channel, unless its writer is about to have it forgotten, or it
\* was built while that happened or without all its queries.
MemoriesShown ==
  \A v \in DOMAIN cache :
    ~cache[v].flawed =>
      \A q \in Elements(Queries(v)) : \A c \in Found(v, q) :
        c \in cache[v].seen \/ Unannounced(v, c)

\* The sessions of a channel that are indexed.
Indexing(ch) == {j \in KnJobs : KnKind[j] = "index" /\ KnChannelOf[j] = ch}

\* When a channel's sessions are indexed, its enforcements have left no more than
\* the limit, or decisions only, whatever they counted while others were writing.
BloatBounded ==
  \A ch \in {KnChannelOf[j] : j \in {i \in KnJobs : KnKind[i] = "index"}} :
    (/\ ~spared
     /\ \A j \in Indexing(ch) : \/ step[j] \in {"recount", "rearchive", "done"}
                            \/ left[j] = KnContents[j]
     /\ \A c \in DOMAIN rows : rows[c].by # "distil")
    => \/ Cardinality(Live(ch)) <= ChannelLimit
       \/ \A c \in Live(ch) : rows[c].decision

\* What is remembered is bounded and shown.
KnowledgeKept == MemoriesShown /\ BloatBounded
=============================================================================
