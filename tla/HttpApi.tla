------------------------------- MODULE HttpApi -------------------------------
(***************************************************************************)
(* The HTTP API (rmqtt-http-api).  A request is answered from this node,   *)
(* from one other node, from all of them at once (join_all), from the      *)
(* first that knows (select_ok), or node after node until enough rows are  *)
(* there.  The other nodes answer in their gRPC hook; a node whose hook is *)
(* not there answers Success.  Meanwhile clients come, go and move.        *)
(***************************************************************************)
EXTENDS Integers, FiniteSets, FiniteSetsExt, Sequences

CONSTANTS
    ApNodes,     \* the nodes of the cluster
    ApMe,        \* the node that gets the request
    ApClients,   \* clients; each has one session and one subscription
    ApAway,      \* no node
    ApPlans      \* the request, limit, first places of the clients, whether
                 \* the named one is connected, plugin states, nodes with the
                 \* hook, and bounds: moves and faults

VARIABLES
    apPlan,
    apAt,        \* the node of each client's session
    apUp,        \* the client the request names is connected to its session
    apPlugin,    \* per node, the plugin the request names
    apReq,       \* the request: stage, replies, rows, limit left
    apMail,      \* gRPC messages and replies on their way
    apDone,      \* nodes that carried the request's operation out
    apStayed,    \* clients that did not move since the request came
    apMoves, apFaults

apVars == <<apPlan, apAt, apUp, apPlugin, apReq, apMail, apDone, apStayed, apMoves,
            apFaults>>

Peers == ApNodes \ {ApMe}
ApInit ==
    /\ apPlan \in ApPlans
    /\ apAt = apPlan.at /\ apUp = apPlan.up
    /\ apPlugin = apPlan.plugin
    /\ apReq = [stage |-> "new", code |-> 0, rows |-> {}, left |-> apPlan.limit,
                value |-> [n \in ApNodes |-> "none"], sum |-> 0, asked |-> {}]
    /\ apMail = {} /\ apDone = {}
    /\ apStayed = ApClients
    /\ apMoves = 0 /\ apFaults = 0

------------------------------------------------------------------------------
(* The endpoints: how the nodes are asked, the message, where it goes, and *)
(* whether a node's failure is a value of the answer (soft) or its end.    *)

OneSoft(msg, node) == [mode |-> "one", msg |-> msg, to |-> node, soft |-> TRUE]
OneHard(msg, node) == [mode |-> "one", msg |-> msg, to |-> node, soft |-> FALSE]
Every(msg) == [mode |-> "all", msg |-> msg, to |-> ApMe, soft |-> TRUE]

GetBroker(node) == OneSoft("BrokerInfo", node)
GetBrokers == Every("BrokerInfo")
GetNode(node) == OneSoft("NodeInfo", node)
GetNodes == Every("NodeInfo")
GetStatsOne(node) == OneSoft("StatsInfo", node)
GetStatsAll == Every("StatsInfo")
GetMetricsOne(node) == OneSoft("MetricsInfo", node)
GetMetricsAll == Every("MetricsInfo")
AllPlugins == Every("GetPlugins")
GetStatsSum == [Every("StatsInfo") EXCEPT !.mode = "sum"]
GetMetricsSum == [Every("MetricsInfo") EXCEPT !.mode = "sum"]
NodePlugins(node) == OneHard("GetPlugins", node)
NodePluginInfo(node) == OneHard("GetPlugin", node)
NodePluginConfig(node) == OneHard("GetPluginConfig", node)
NodePluginReload(node) == OneHard("ReloadPluginConfig", node)
NodePluginLoad(node) == OneHard("LoadPlugin", node)
NodePluginUnload(node) == OneHard("UnloadPlugin", node)
GetClient == [mode |-> "first", msg |-> "ClientGet", to |-> ApMe, soft |-> FALSE]
SearchClients == [mode |-> "rows", msg |-> "ClientSearch", to |-> ApMe, soft |-> TRUE]
QuerySubscriptions ==
    [mode |-> "rows", msg |-> "SubscriptionsSearch", to |-> ApMe, soft |-> TRUE]
\* The node is the one session_status gives when the request comes.
SubscribeClient == [OneHard("Subscribe", ApMe) EXCEPT !.mode = "session"]
UnsubscribeClient == [OneHard("Unsubscribe", ApMe) EXCEPT !.mode = "session"]

------------------------------------------------------------------------------
(* What a node answers, itself asked or through its hook.                  *)

On(n) == {c \in ApClients : apAt[c] = n}

\* A reply: what kind, a number (of an operation: 1 when the reply says it
\* is done, 0 when it says it is not), rows, a plugin state.
Re(kind, n, rows, p) == [kind |-> kind, n |-> n, rows |-> rows, plugin |-> p]
Data(n) == Re("data", n, {}, "none")
Error == Re("error", 0, {}, "none")
Success == Re("Success", 0, {}, "none")

\* plugins.start on a plugin of state p: made when it is not ("broken" when
\* that fails), inited, started; each of them may fail.
StartPlugin(p) ==
    CASE p = "on" -> {Re("data", 1, {}, "on")}
      [] p = "off" -> {Re("data", 1, {}, "on"), Re("error", 0, {}, "off")}
      [] p \in {"fresh", "made"} ->
           {Re("data", 1, {}, "on"), Re("error", 0, {}, "made"), Re("error", 0, {}, "off")}
             \union (IF p = "fresh" THEN {Re("error", 0, {}, "broken")} ELSE {})
      [] p = "broken" -> {Re("error", 0, {}, "broken")}

\* plugins.stop: the plugin may decline (false) or fail.
StopPlugin(p) ==
    IF p = "on" THEN {Re("data", 1, {}, "off"), Re("data", 0, {}, "on"), Re("error", 0, {}, "on")}
    ELSE {Re("error", 0, {}, p)}

\* plugins.load_config
ReloadPlugin(p) ==
    {Re("error", 0, {}, p)} \union (IF p \in {"off", "on"} THEN {Re("data", 1, {}, p)} ELSE {})

\* get_mut refuses what is not there and what is immutable.
PluginAfter(msg, p) ==
    CASE p \in {"absent", "immutable"} -> {Re("error", 0, {}, p)}
      [] msg = "LoadPlugin" -> StartPlugin(p)
      [] msg = "UnloadPlugin" -> StopPlugin(p)
      [] msg = "ReloadPluginConfig" -> ReloadPlugin(p)

PluginOps == {"LoadPlugin", "UnloadPlugin", "ReloadPluginConfig"}
ClientOps == {"Subscribe", "Unsubscribe"}

\* search takes the first matching sessions up to the limit.
Searched(n, limit) ==
    {rows \in SUBSET On(n) : Cardinality(rows) = Min({limit, Cardinality(On(n))})}

Infos == {"BrokerInfo", "NodeInfo", "MetricsInfo", "GetPlugins"}

\* Only the loop of a connected session takes the request from its channel;
\* it may refuse a filter, or fail, before or after it is subscribed.  That
\* is an entry of the map subscribe answers (which answers an error for a
\* malformed request); unsubscribe answers an error.
ClientReplies(n, msg) ==
    IF apAt[apPlan.client] # n THEN {Error}
    ELSE {Error} \union (IF msg = "Subscribe" THEN {Data(0)} ELSE {})
                 \union (IF apUp THEN {Data(1)} ELSE {})

\* The replies node n may give.
Replies(n, msg, limit) ==
    CASE msg \in Infos -> {Data(1)}
      [] msg = "StatsInfo" -> {Data(Cardinality(On(n)))}
      [] msg = "GetPlugin" -> {Re("data", 1, {}, apPlugin[n])}
      [] msg = "GetPluginConfig" ->
           {Error} \union (IF apPlugin[n] \in {"absent", "fresh", "broken"} THEN {} ELSE {Data(1)})
      [] msg = "ClientGet" -> {Data(IF apAt[apPlan.client] = n THEN 1 ELSE 0)}
      [] msg \in {"ClientSearch", "SubscriptionsSearch"} ->
           {Re("data", 0, rows, "none") : rows \in Searched(n, limit)}
      [] msg \in ClientOps -> ClientReplies(n, msg)
      [] msg \in PluginOps -> PluginAfter(msg, apPlugin[n])

\* Carrying it out at node n with reply r.  A subscription, or its removal,
\* may be in place although the reply says it is not.
Carry(n, msg, r) ==
    /\ apPlugin' = IF msg \in PluginOps THEN [apPlugin EXCEPT ![n] = r.plugin] ELSE apPlugin
    /\ LET done == r.n = 1 /\ msg \in PluginOps \union ClientOps
           maybe == msg \in ClientOps /\ apUp /\ apAt[apPlan.client] = n IN
       \/ (done \/ maybe) /\ apDone' = apDone \union {n}
       \/ ~done /\ UNCHANGED apDone

\* What the answer says of a node: its data, that it is refused, an error.
Says(msg, r) ==
    IF r.kind = "data" /\ r.n = 0 /\ msg \in PluginOps \union ClientOps THEN "refused" ELSE r.kind

------------------------------------------------------------------------------
(* The request.                                                            *)

Answer(code) == [apReq EXCEPT !.stage = "answered", !.code = code]

Request(n) == [kind |-> "ask", node |-> n, limit |-> apReq.left]

\* One node: this one, another one, or one there is no gRPC client for.
StartOne(e, to) ==
    IF to = ApMe
    THEN /\ \E r \in Replies(ApMe, e.msg, 0) :
              /\ Carry(ApMe, e.msg, r)
              /\ apReq' = IF r.kind = "data" THEN [Answer(200) EXCEPT !.value[ApMe] = Says(e.msg, r)]
                          ELSE Answer(503)
         /\ UNCHANGED apMail
    ELSE IF to \in ApNodes
         THEN /\ apReq' = [apReq EXCEPT !.stage = "waiting", !.asked = {to}]
              /\ apMail' = {Request(to)}
              /\ UNCHANGED <<apPlugin, apDone>>
         ELSE /\ apReq' = Answer(IF e.soft THEN 404 ELSE 503)
              /\ UNCHANGED <<apPlugin, apDone, apMail>>

\* This node's value first, then the others at once.
StartAll(e) ==
    /\ \E r \in Replies(ApMe, e.msg, 0) :
         apReq' = [apReq EXCEPT !.stage = "waiting", !.asked = Peers,
                                !.value[ApMe] = "data", !.sum = r.n]
    /\ apMail' = {Request(n) : n \in Peers}
    /\ UNCHANGED <<apPlugin, apDone>>

StartFirst ==
    /\ IF apAt[apPlan.client] = ApMe
       THEN apReq' = Answer(200) /\ UNCHANGED apMail
       ELSE /\ apReq' = [apReq EXCEPT !.stage = "waiting", !.asked = Peers]
            /\ apMail' = {Request(n) : n \in Peers}
    /\ UNCHANGED <<apPlugin, apDone>>

StartRows ==
    /\ \E rows \in Searched(ApMe, apPlan.limit) :
         apReq' = [apReq EXCEPT !.stage = "rows", !.rows = {<<ApMe, c>> : c \in rows}]
    /\ UNCHANGED <<apPlugin, apDone, apMail>>

ApStart ==
    LET e == apPlan.endpoint IN
    /\ apReq.stage = "new"
    /\ CASE e.mode = "one" -> StartOne(e, e.to)
         [] e.mode = "session" ->
              IF apAt[apPlan.client] = ApAway \/ ~apUp
              THEN /\ apReq' = Answer(IF apAt[apPlan.client] = ApAway THEN 404 ELSE 503)
                   /\ UNCHANGED <<apPlugin, apDone, apMail>>
              ELSE StartOne(e, apAt[apPlan.client])
         [] e.mode \in {"all", "sum"} -> StartAll(e)
         [] e.mode = "first" -> StartFirst
         [] e.mode = "rows" -> StartRows
    /\ apStayed' = ApClients
    /\ UNCHANGED <<apPlan, apAt, apUp, apMoves, apFaults>>

\* _search_clients takes the rows there are off the limit it took them off
\* before; query_subscriptions takes them off the first limit.
LimitLeft(msg, had, left) ==
    IF msg = "ClientSearch" THEN left - had ELSE apPlan.limit - had

\* The next node is asked while there are fewer rows than the limit.
RowsMissing(msg, had, left) ==
    had < (IF msg = "ClientSearch" THEN left ELSE apPlan.limit)

ApNextNode ==
    LET msg == apPlan.endpoint.msg
        had == Cardinality(apReq.rows)
        left == Peers \ apReq.asked IN
    /\ apReq.stage = "rows"
    /\ IF left # {} /\ RowsMissing(msg, had, apReq.left)
       THEN \E n \in left :
              LET now == LimitLeft(msg, had, apReq.left) IN
              /\ apReq' = [apReq EXCEPT !.stage = "waiting", !.left = now,
                                        !.asked = @ \union {n}]
              /\ apMail' = {[Request(n) EXCEPT !.limit = now]}
       ELSE apReq' = Answer(200) /\ UNCHANGED apMail
    /\ UNCHANGED <<apPlan, apAt, apUp, apPlugin, apDone, apStayed, apMoves, apFaults>>

------------------------------------------------------------------------------
(* gRPC.                                                                   *)

Reply(m, r) == [kind |-> "reply", node |-> m.node, r |-> r]

\* The hook of the node; without it the hook manager answers Success.
ApServe(m) ==
    /\ m \in apMail /\ m.kind = "ask"
    /\ IF m.node \in apPlan.hooked
       THEN \E r \in Replies(m.node, apPlan.endpoint.msg, m.limit) :
              /\ Carry(m.node, apPlan.endpoint.msg, r)
              /\ apMail' = (apMail \ {m}) \union {Reply(m, r)}
       ELSE /\ apMail' = (apMail \ {m}) \union
                           {Reply(m, Success)}
            /\ UNCHANGED <<apPlugin, apDone>>
    /\ UNCHANGED <<apPlan, apAt, apUp, apReq, apStayed, apMoves, apFaults>>

\* The message, or the reply, does not come through.
ApLost(m) ==
    /\ m \in apMail /\ apFaults < apPlan.faults
    /\ apMail' = (apMail \ {m}) \union {Reply(m, Error)}
    /\ m.kind = "reply" => m.r.kind # "error"
    /\ apFaults' = apFaults + 1
    /\ UNCHANGED <<apPlan, apAt, apUp, apPlugin, apReq, apDone, apStayed, apMoves>>

\* mutant: an error is answered as a success
GotOne_ok(e, m) == apReq' = [Answer(200) EXCEPT !.value[m.node] = Says(e.msg, m.r)]

\* An error is a value of the answer where the endpoint is soft.
GotOne(e, m) ==
    apReq' = IF m.r.kind = "error" /\ ~e.soft THEN Answer(503)
             ELSE [Answer(200) EXCEPT !.value[m.node] = Says(e.msg, m.r)]

\* join_all; a sum leaves a failed node out.
GotAll(m) ==
    LET v == [apReq.value EXCEPT ![m.node] = m.r.kind]
        all == \A n \in ApNodes : v[n] # "none" IN
    apReq' = [apReq EXCEPT !.value = v, !.sum = @ + m.r.n,
                           !.stage = IF all THEN "answered" ELSE @,
                           !.code = IF all THEN 200 ELSE 0]

\* mutant: the first reply decides, a failed one too
GotFirst_any(m) ==
    apReq' = Answer(IF m.r.n = 1 THEN 200 ELSE IF m.r.kind = "data" THEN 404 ELSE 503)

\* select_ok: the first success, or the last error.
GotFirst(m) ==
    apReq' = IF m.r.n = 1 THEN Answer(200)
             ELSE IF apReq.asked = {m.node}
                  THEN Answer(IF m.r.kind = "data" THEN 404 ELSE 503)
                  ELSE [apReq EXCEPT !.asked = @ \ {m.node}]

GotRows(m) ==
    apReq' = [apReq EXCEPT !.stage = "rows",
                           !.rows = @ \union {<<m.node, c>> : c \in m.r.rows}]

\* A reply; one of a type the endpoint does not expect is unreachable!().
ApGot(m) ==
    LET e == apPlan.endpoint IN
    /\ m \in apMail /\ m.kind = "reply" /\ apReq.stage = "waiting"
    /\ apMail' = apMail \ {m}
    /\ IF m.r.kind = "Success"
       THEN apReq' = [apReq EXCEPT !.stage = "unreachable"]
       ELSE CASE e.mode \in {"one", "session"} -> GotOne(e, m)
              [] e.mode \in {"all", "sum"} -> GotAll(m)
              [] e.mode = "first" -> GotFirst(m)
              [] e.mode = "rows" -> GotRows(m)
    /\ UNCHANGED <<apPlan, apAt, apUp, apPlugin, apDone, apStayed, apMoves, apFaults>>

\* A client connects elsewhere, goes with its session, or comes.
ApMove(c) ==
    /\ apMoves < apPlan.moves /\ apReq.stage # "answered"
    /\ \E n \in (ApNodes \union {ApAway}) \ {apAt[c]} :
         apAt' = [apAt EXCEPT ![c] = n]
    /\ apUp' = (apUp \/ c = apPlan.client)
    /\ apStayed' = apStayed \ {c}
    /\ apMoves' = apMoves + 1
    /\ UNCHANGED <<apPlan, apPlugin, apReq, apMail, apDone, apFaults>>

\* The connection of the client goes; its session stays, offline.
ApOffline ==
    /\ apMoves < apPlan.moves /\ apReq.stage # "answered"
    /\ apUp /\ apAt[apPlan.client] # ApAway
    /\ apUp' = FALSE
    /\ apMoves' = apMoves + 1
    /\ UNCHANGED <<apPlan, apAt, apPlugin, apReq, apMail, apDone, apStayed, apFaults>>

ApNext ==
    \/ ApStart \/ ApNextNode
    \/ \E m \in apMail : ApServe(m) \/ ApLost(m) \/ ApGot(m)
    \/ ApOffline \/ \E c \in ApClients : ApMove(c)

ApSpec == ApInit /\ [][ApNext]_apVars

------------------------------------------------------------------------------
Answered == apReq.stage = "answered"
Staying == {c \in apStayed : apAt[c] \in ApNodes}
Found == {row[2] : row \in apReq.rows}

(***************************************************************************)
(* What stays put is found: without failures get_client finds a client     *)
(* that does not move while it asks (select_ok takes the first success,    *)
(* not the first reply), and a subscription query over the cluster returns *)
(* every row that stays, unless it stops at the limit; no search returns   *)
(* more rows than its limit; a sum over the nodes counts each session.     *)
(***************************************************************************)
StayingFound ==
    LET e == apPlan.endpoint IN
    /\ Answered /\ apFaults = 0 /\ e.mode = "first" /\ apPlan.client \in Staying
         => apReq.code = 200
    /\ Answered /\ apFaults = 0 /\ e.msg = "SubscriptionsSearch"
         => Staying \subseteq Found \/ Cardinality(apReq.rows) = apPlan.limit
    /\ Cardinality(apReq.rows) <= apPlan.limit
    /\ Answered /\ apFaults = 0 /\ apMoves = 0 /\ e = GetStatsSum
         => apReq.sum = Cardinality(Staying)

(***************************************************************************)
(* What is answered as done was done, on the one node asked: a plugin      *)
(* operation or a subscription that a node fails, or whose reply is lost,  *)
(* is not answered with 200, nor tried again; one it declines is answered  *)
(* with 200 and told as declined in the body, and a plugin that declined   *)
(* to stop goes on.                                                        *)
(***************************************************************************)
OkMeansDone ==
    LET told(v) == {n \in ApNodes : apReq.value[n] = v} IN
    apPlan.endpoint.msg \in PluginOps \union ClientOps =>
       /\ Cardinality(apDone) <= 1
       /\ Answered /\ apReq.code = 200 =>
            /\ Cardinality(told("data") \union told("refused")) = 1
            /\ told("data") \subseteq apDone
            /\ \A n \in told("refused") :
                 apPlan.endpoint.msg = "UnloadPlugin" => apPlugin[n] = "on"

(***************************************************************************)
(* GET /clients returns all clients under the cluster: every client that   *)
(* stays where it is, when no node fails and no more than the limit match. *)
(***************************************************************************)
AllClientsReturned ==
    Answered /\ apFaults = 0 /\ apPlan.endpoint.msg = "ClientSearch"
      /\ Cardinality(ApClients) <= apPlan.limit
      => Staying \subseteq Found
==============================================================================
