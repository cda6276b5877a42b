------------------------------ MODULE McpClient ------------------------------
(***************************************************************************)
(* mcp/client.js, mcp/transport.js and mcp/registry.js: connecting to the  *)
(* servers that offer tools, over HTTP with a stream of events or over the *)
(* standard streams of a child process, listing their tools, calling them, *)
(* and closing the connections.  A request waits under its number for the  *)
(* response, for its timer, for an error of the transport or for the end   *)
(* of the connection.                                                      *)
(*                                                                         *)
(* The servers are external: a server that got a request may answer it,    *)
(* late or never, and may send requests of its own, numbered as it likes.  *)
(* Timers fire at any time.  The application initializes the client once   *)
(* and neither calls a tool nor shuts the client down; both are modelled   *)
(* as mcp/README.md describes them.  What happens to the process after an  *)
(* exception that nobody catches is the module Shutdown's.                 *)
(*                                                                         *)
(* An operator named Bug... is a plausible wrong version of the definition *)
(* that follows it and is used nowhere in the specification.               *)
(***************************************************************************)
EXTENDS Naturals, Sequences, FiniteSets, SequencesExt

CONSTANTS Servers,     \* the configured servers
          Stdio,       \* those that are child processes
          McpTools,    \* names of tools
          Offers,      \* server |-> the tools it offers
          McpCalls,    \* calls of tools
          ToolOf,      \* call |-> its tool
          McpList,     \* the request for the list of tools
          MaxStrays    \* bound on the requests of a server

ASSUME McpAssumption ==
  /\ Stdio \subseteq Servers
  /\ Offers \in [Servers -> SUBSET McpTools] /\ ToolOf \in [McpCalls -> McpTools]
  /\ McpList \notin McpCalls /\ MaxStrays \in Nat

VARIABLES conn,      \* server |-> what initialize has come to with it
          linked,    \* server |-> isConnected of its transport
          usable,    \* server |-> isConnected of its connection
          messageId, \* server |-> number of its last request
          waits,     \* pendingRequests: server |-> number |-> what waits
          received,  \* server |-> requests it may answer
          servers,   \* servers of the registry, in the order of its map
          tools,     \* server |-> its tools there
          route,     \* toolToServer
          outcome,   \* call |-> what has become of it
          unready,   \* shut down since it was initialized
          strays,    \* server |-> number of its requests (history)
          crashed    \* an exception was thrown that nobody catches

mcpVars == <<conn, linked, usable, messageId, waits, received, servers, tools, route,
             outcome, unready, strays, crashed>>
linkVars == <<linked, usable>>
sendVars == <<messageId, waits, received>>
registryVars == <<servers, tools, route>>
restVars == <<unready, strays, crashed>>

Ended == {"own", "other", "error"}

McpInit ==
  /\ conn = [s \in Servers |-> "connecting"]
  /\ linked = [s \in Servers |-> FALSE] /\ usable = [s \in Servers |-> FALSE]
  /\ messageId = [s \in Servers |-> 0]
  /\ waits = [s \in Servers |-> [n \in {} |-> McpList]]
  /\ received = [s \in Servers |-> {}]
  /\ servers = <<>> /\ tools = [s \in Servers |-> {}] /\ route = [t \in {} |-> McpList]
  /\ outcome = [c \in McpCalls |-> "new"]
  /\ unready = FALSE /\ strays = [s \in Servers |-> 0] /\ crashed = FALSE

\* isInitialized
Initialized == (\A s \in Servers : conn[s] \in {"ready", "failed", "closed"}) /\ ~unready

Unless(f, S) == [n \in DOMAIN f \ S |-> f[n]]

-----------------------------------------------------------------------------
BugSend(s, w) ==
  LET n == Cardinality(DOMAIN waits[s]) + 1 IN
  /\ messageId' = [messageId EXCEPT ![s] = n]
  /\ waits' = [waits EXCEPT ![s] = [m \in DOMAIN @ \cup {n} |-> IF m = n THEN w ELSE @[m]]]
  /\ received' = [received EXCEPT ![s] = @ \cup {[id |-> n, what |-> w]}]

\* send: the request is registered with its timer and goes on its way.
Send(s, w) ==
  LET n == messageId[s] + 1 IN
  /\ messageId' = [messageId EXCEPT ![s] = n]
  /\ waits' = [waits EXCEPT ![s] = [m \in DOMAIN @ \cup {n} |-> IF m = n THEN w ELSE @[m]]]
  /\ received' = [received EXCEPT ![s] = @ \cup {[id |-> n, what |-> w]}]

\* connect succeeds, which for a child process it always does, and listTools
\* follows at once.
Connects(s) ==
  /\ ~crashed /\ conn[s] = "connecting"
  /\ conn' = [conn EXCEPT ![s] = "listing"]
  /\ linked' = [linked EXCEPT ![s] = TRUE] /\ usable' = [usable EXCEPT ![s] = TRUE]
  /\ Send(s, McpList)
  /\ UNCHANGED <<registryVars, outcome, restVars>>

\* A refusal, an error or the timer of the connection.
ConnectFails(s) ==
  /\ ~crashed /\ conn[s] = "connecting" /\ s \notin Stdio
  /\ conn' = [conn EXCEPT ![s] = "failed"]
  /\ UNCHANGED <<linkVars, sendVars, registryVars, outcome, restVars>>

\* callTool, through the registry and the connection.
CallTool(c) ==
  LET t == ToolOf[c] s == route[t] IN
  /\ ~crashed /\ outcome[c] = "new" /\ Initialized
  /\ IF t \in DOMAIN route /\ usable[s] /\ linked[s]
     THEN Send(s, c) /\ outcome' = [outcome EXCEPT ![c] = "waiting"]
     ELSE outcome' = [outcome EXCEPT ![c] = "error"] /\ UNCHANGED sendVars
  /\ UNCHANGED <<conn, linkVars, registryVars, restVars>>

-----------------------------------------------------------------------------
\* registerServer, and the connection is put with the others: a tool of the same
\* name is now another server's.
RegisterServer(s, T) ==
  /\ servers' = IF Contains(servers, s) THEN servers ELSE Append(servers, s)
  /\ tools' = [tools EXCEPT ![s] = T]
  /\ route' = [t \in DOMAIN route \cup T |-> IF t \in T THEN s ELSE route[t]]
  /\ conn' = [conn EXCEPT ![s] = "ready"]

\* What waits under n gets a response.  Any response ends the listing; without a
\* list in it there are no tools.
Resolve(s, n, own) ==
  LET w == waits[s][n] IN
  /\ waits' = [waits EXCEPT ![s] = Unless(@, {n})]
  /\ IF w = McpList
     THEN /\ \E T \in {{}} \cup (IF own THEN {Offers[s]} ELSE {}) : RegisterServer(s, T)
          /\ UNCHANGED outcome
     ELSE /\ outcome' = [outcome EXCEPT ![w] = IF own THEN "own" ELSE "other"]
          /\ UNCHANGED <<conn, registryVars>>

\* What waits under the numbers of S gets an error.  A listing that fails leaves
\* its connection as it is, out of the map that shutdown knows.
Reject(s, S) ==
  LET W == {waits[s][n] : n \in S} IN
  /\ outcome' = [c \in McpCalls |-> IF c \in W THEN "error" ELSE outcome[c]]
  /\ conn' = [conn EXCEPT ![s] = IF McpList \in W THEN "failed" ELSE @]

\* _handleSSEMessage and _handleMessage of a response; one that comes too late is
\* a message nobody listens to.
Response(s, q) ==
  /\ ~crashed /\ linked[s] /\ q \in received[s]
  /\ received' = [received EXCEPT ![s] = @ \ {q}]
  /\ IF q.id \in DOMAIN waits[s]
     THEN Resolve(s, q.id, q.what = waits[s][q.id])
     ELSE UNCHANGED <<waits, conn, registryVars, outcome>>
  /\ UNCHANGED <<linkVars, messageId, restVars>>

\* The same of a request of the server, which is not told from a response.
Stray(s, n) ==
  /\ ~crashed /\ linked[s] /\ strays[s] < MaxStrays
  /\ strays' = [strays EXCEPT ![s] = @ + 1]
  /\ IF n \in DOMAIN waits[s]
     THEN Resolve(s, n, FALSE)
     ELSE UNCHANGED <<waits, conn, registryVars, outcome>>
  /\ UNCHANGED <<linkVars, messageId, received, unready, crashed>>

\* The timer of a request, the error of its POST, or a status that is not good;
\* the server may have got it all the same.  A child that does not read its input
\* is an error of that stream as well, to which nobody listens.
RequestFails(s, n) ==
  /\ ~crashed /\ n \in DOMAIN waits[s]
  /\ Reject(s, {n})
  /\ waits' = [waits EXCEPT ![s] = Unless(@, {n})]
  /\ crashed' \in {FALSE, (s \in Stdio)}
  /\ UNCHANGED <<linkVars, messageId, received, registryVars, unready, strays>>

\* The stream ends, the child exits: what waits is left to its timers.
LinkEnds(s) ==
  /\ ~crashed /\ linked[s]
  /\ linked' = [linked EXCEPT ![s] = FALSE]
  /\ received' = [received EXCEPT ![s] = {}]
  /\ UNCHANGED <<conn, usable, messageId, waits, registryVars, outcome, restVars>>

\* The stream breaks, the command of the child does not exist: the transport
\* emits an error, to which nobody listens.
LinkBreaks(s) ==
  /\ ~crashed /\ linked[s]
  /\ linked' = [linked EXCEPT ![s] = FALSE]
  /\ received' = [received EXCEPT ![s] = {}]
  /\ crashed' = TRUE
  /\ UNCHANGED <<conn, usable, messageId, waits, registryVars, outcome, unready, strays>>

-----------------------------------------------------------------------------
\* close of the connections to S: whatever waits gets an error.
Closed(S) ==
  /\ linked' = [s \in Servers |-> linked[s] /\ s \notin S]
  /\ usable' = [s \in Servers |-> usable[s] /\ s \notin S]
  /\ waits' = [s \in Servers |-> IF s \in S THEN Unless(waits[s], DOMAIN waits[s])
                                             ELSE waits[s]]
  /\ received' = [s \in Servers |-> IF s \in S THEN {} ELSE received[s]]
  /\ outcome' = [c \in McpCalls |->
       IF \E s \in S : \E n \in DOMAIN waits[s] : waits[s][n] = c THEN "error"
       ELSE outcome[c]]

\* shutdown closes the connections it knows; while initialize is at work, that
\* one has the last word.
McpShutdown ==
  LET S == {s \in Servers : conn[s] = "ready"} IN
  /\ ~crashed /\ ~unready
  /\ Closed(S)
  /\ conn' = [s \in Servers |-> IF s \in S THEN "closed" ELSE conn[s]]
  /\ servers' = <<>> /\ tools' = [s \in Servers |-> {}] /\ route' = [t \in {} |-> McpList]
  /\ unready' = Initialized
  /\ UNCHANGED <<messageId, strays, crashed>>

Numbers == 1 .. Cardinality(McpCalls) + 1

McpNext ==
  \/ \E s \in Servers :
       \/ Connects(s) \/ ConnectFails(s) \/ LinkEnds(s) \/ LinkBreaks(s)
       \/ \E q \in received[s] : Response(s, q)
       \/ \E n \in Numbers : Stray(s, n) \/ RequestFails(s, n)
  \/ \E c \in McpCalls : CallTool(c)
  \/ McpShutdown

McpSpec == McpInit /\ [][McpNext]_mcpVars

-----------------------------------------------------------------------------
McpTypeOK ==
  /\ conn \in [Servers -> {"connecting", "listing", "ready", "failed", "closed"}]
  /\ linked \in [Servers -> BOOLEAN] /\ usable \in [Servers -> BOOLEAN]
  /\ messageId \in [Servers -> Nat] /\ strays \in [Servers -> 0 .. MaxStrays]
  /\ \A s \in Servers :
       /\ DOMAIN waits[s] \subseteq 1 .. messageId[s]
       /\ \A q \in received[s] : q.id \in 1 .. messageId[s]
  /\ DOMAIN route \subseteq McpTools /\ \A i \in DOMAIN servers : servers[i] \in Servers
  /\ tools \in [Servers -> SUBSET McpTools]
  /\ outcome \in [McpCalls -> {"new", "waiting"} \cup Ended]
  /\ unready \in BOOLEAN /\ crashed \in BOOLEAN

\* However late answers come and whatever timed out before, a call is answered by
\* its own response, as long as the servers send no requests of their own.
OwnAnswers ==
  (\A s \in Servers : strays[s] = 0) => \A c \in McpCalls : outcome[c] # "other"

\* A tool that two servers offer is called at the server whose definition
\* getAllTools shows, the last of the map that has it.
ShownIsCalled ==
  \A t \in McpTools :
    LET I == {i \in DOMAIN servers : t \in tools[servers[i]]} IN
    /\ t \in DOMAIN route <=> I # {}
    /\ t \in DOMAIN route => route[t] = servers[Max(I)]

\* A model calls what it is shown and gets what it received for.
AnswersRight == OwnAnswers /\ ShownIsCalled

\* A call ends, and initialize has its answer from every server, unless the
\* process goes down: nothing that waits is forgotten when a server does not answer,
\* a stream ends or the client is shut down.
CallsSettle ==
  /\ \A c \in McpCalls : outcome[c] = "waiting" ~> (outcome[c] \in Ended \/ crashed)
  /\ \A s \in Servers : conn[s] = "listing" ~> (conn[s] # "listing" \/ crashed)
=============================================================================
