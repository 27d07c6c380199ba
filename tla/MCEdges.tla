------------------------------ MODULE MCEdges ------------------------------
(***************************************************************************)
(* The parts around the broker's core, checked side by side: the hook      *)
(* manager and the plugins' life (Hooks), authentication and access        *)
(* control (Authorize), the web hook (WebHook), what a connection          *)
(* negotiates (Connection5), the subscription counters (Subscriptions) and *)
(* the HTTP API (HttpApi).  They share no state: a behaviour belongs to    *)
(* one of them, named by edge, and the state spaces add up.                *)
(***************************************************************************)
EXTENDS Hooks, Authorize, WebHook, Connection5, Subscriptions, HttpApi

CONSTANTS p1, p2, e1, e2, ta, tb, a1, a2, a3, h1, h2, h3

VARIABLE edge

Edges == {"hooks", "auth", "webhook", "connection", "subscriptions", "api"}

edgeVars == <<edge, hkVars, auVars, whVars, cnVars, sbVars, apVars>>
-----------------------------------------------------------------------------
MCPriority == p1 :> 1 @@ p2 :> 2
MCSlot == p1 :> 1 @@ p2 :> 2
MCEventTypes == {e1 :> ta @@ e2 :> tb, e1 :> tb @@ e2 :> tb}
MCWorkers == [session |-> 1, rpc |-> 1, api |-> 1]

\* Rule files: the own topic for everybody, a superuser, one that does not parse
Raw(access, user, control, topics) ==
    [access |-> access, user |-> user, control |-> control, topics |-> topics]
All == [kind |-> "all", name |-> "", pass |-> "", super |-> FALSE]
User(pass, super) == [kind |-> "user", name |-> "u", pass |-> pass, super |-> super]
MCUser ==
    a1 :> [name |-> "u", pass |-> "p"] @@ a2 :> [name |-> "", pass |-> ""]
    @@ a3 :> [name |-> "", pass |-> ""]
MCFiles ==
    {<<Raw("allow", All, "pubsub", {"%c"}), Raw("allow", All, "connect", {})>>,
     <<Raw("allow", User("p", TRUE), "", {"*"}), Raw("deny", All, "pubsub", {"*"}),
       Raw("allow", All, "", {"*"})>>,
     <<Raw("deny", User("p", FALSE), "", {"*"})>>, <<Raw("allow", All, "", {BadTopic})>>}
MCScenes ==
    {[who |-> {a1}, http |-> TRUE, time |-> 3, loads |-> 0, changes |-> 1],
     [who |-> {a1, a2}, http |-> FALSE, time |-> 0, loads |-> 1, changes |-> 0],
     [who |-> {a3}, http |-> FALSE, time |-> 0, loads |-> 1, changes |-> 0],
     [who |-> {a2}, http |-> TRUE, time |-> 0, loads |-> 1, changes |-> 1]}

WhEv(type, topic, parses, system) ==
    [type |-> type, topic |-> topic, parses |-> parses, system |-> system]
MCWhEvent ==
    (h1 :> WhEv("client_subscribe", "ta", TRUE, FALSE))
    @@ (h2 :> WhEv("message_delivered", "tb", TRUE, FALSE))
    @@ (h3 :> WhEv("client_unsubscribe", "t#", FALSE, FALSE))
WhRule(type, action, urls, topics) ==
    [type |-> type, action |-> action, urls |-> urls, topics |-> topics]
WhRules ==
    {WhRule("client_subscribe", "s", {}, {"ta"}), WhRule("client_unsubscribe", "u", {}, {}),
     WhRule("message_delivered", "d", {"web"}, {})}
WhFileOf(n, http) ==
    [capacity |-> n, limit |-> n, urls |-> {"log"}, http_urls |-> http, rules |-> WhRules]
MCWhConfigs == {WhFileOf(1, {"web"}), WhFileOf(1, {}), WhFileOf(2, {})}

\* Keep alive values below the minimum and above the maximum; a message whose
\* interval in milliseconds wraps around (5 * 4 of 16)
CnPacket(keepalive, aliases) ==
    [keepalive |-> keepalive, aliases |-> aliases, long_id |-> FALSE, auth_method |-> FALSE]
MCCnPackets ==
    {CnPacket(0, 0), CnPacket(1, 1), CnPacket(65535, 2), CnPacket(60, 2),
     [CnPacket(7, 0) EXCEPT !.long_id = TRUE]}
MCCnListener ==
    [min |-> 5, max |-> 65000, backoff |-> <<3, 4>>, aliases |-> 1, expiry |-> 3,
     allow_zero |-> TRUE]
CnMessage(id, topic, interval, at, stored, origin) ==
    [id |-> id, topic |-> topic, interval |-> interval, at |-> at, stored |-> stored,
     origin |-> origin]
\* Without an interval from listeners that keep messages longer and shorter
\* than the client's, with one, and with one that wraps around
MCCnMessages ==
    {CnMessage(1, "ta", 0, 0, 1, 3), CnMessage(2, "ta", 1, 0, 2, 0),
     CnMessage(3, "tb", 5, 0, 1, 3), CnMessage(4, "tb", 0, 0, 0, 1),
     CnMessage(5, "ta", 2, 0, 0, 3)}
MCCnPlans ==
    {[messages |-> {m \in MCCnMessages : m.id \in {1, 2, 3}},
      packets |-> {CnPacket(0, 0), CnPacket(60, 2)},
      conns |-> 2, publishes |-> 0, time |-> 3, faults |-> 1],
     [messages |-> {m \in MCCnMessages : m.id \in {4, 5}},
      packets |-> {CnPacket(60, 2)},
      conns |-> 1, publishes |-> 0, time |-> 8, faults |-> 0],
     [messages |-> {}, packets |-> MCCnPackets, conns |-> 2, publishes |-> 3, time |-> 0, faults |-> 0]}

SbOp(add, f, shared) == [add |-> add, filter |-> f, shared |-> shared]
MCSbPackets ==
    {<<SbOp(TRUE, "fa", FALSE)>>, <<SbOp(TRUE, "fa", TRUE), SbOp(TRUE, "fb", FALSE)>>,
     <<SbOp(TRUE, "deep", FALSE)>>, <<SbOp(FALSE, "fa", FALSE)>>}

\* Where the clients are at first; one of them may be nowhere
ApPlaces ==
    {[c1 |-> "n1", c2 |-> "n2", c3 |-> "n3", c4 |-> "n2"],
     [c1 |-> "n2", c2 |-> "n2", c3 |-> "away", c4 |-> "n1"]}
ApPlan(e, limit, at, p, hooked, moves) ==
    [endpoint |-> e, limit |-> limit, at |-> at, plugin |-> [n \in ApNodes |-> p],
     hooked |-> hooked, client |-> "c2", up |-> TRUE, moves |-> moves, faults |-> 1]
MCApPlans ==
    {ApPlan(e, limit, at, "on", ApNodes, 1) :
       e \in {SearchClients, QuerySubscriptions}, limit \in {2, 3, 4}, at \in ApPlaces}
    \union
    {ApPlan(e, 1, at, "on", ApNodes, 1) :
       e \in {GetBrokers, GetNodes, GetStatsAll, GetMetricsAll, AllPlugins, GetStatsSum,
              GetMetricsSum, GetClient, SubscribeClient, UnsubscribeClient},
       at \in ApPlaces}
    \union
    {[ApPlan(e, 1, at, "on", ApNodes, 1) EXCEPT !.up = FALSE] :
       e \in {SubscribeClient, UnsubscribeClient}, at \in ApPlaces}
    \union
    {ApPlan(e, 1, [c1 |-> "n1", c2 |-> "n2", c3 |-> "n3", c4 |-> "n2"], p, hooked, 0) :
       e \in UNION {{GetBroker(n), GetNode(n), GetStatsOne(n), GetMetricsOne(n),
                     NodePlugins(n), NodePluginInfo(n), NodePluginConfig(n),
                     NodePluginReload(n), NodePluginLoad(n), NodePluginUnload(n)} :
                      n \in {"n1", "n2", "n4"}},
       p \in {"absent", "immutable", "fresh", "made", "off", "on"}, hooked \in {ApNodes, {"n1"}}}
-----------------------------------------------------------------------------
EdgesInit ==
    /\ edge \in Edges
    /\ HkInit /\ (edge # "hooks" => \A e \in HkEvents : event[e].type = tb)
    /\ AuInit /\ (auScene.http => Len(auRules) = 2)
    /\ edge # "auth" => /\ auScene = CHOOSE s \in AuScenes : TRUE
                        /\ auPolicy = "allow" /\ Len(auRules) = 2
    /\ WhInit /\ whCfg[1] = MergeUrls(WhFileOf(1, {"web"}))
    /\ CnInit
    /\ edge # "connection" => cnPlan = (CHOOSE p \in CnPlans : TRUE) /\ cnOld = "none"
    /\ SbInit
    /\ ApInit /\ (edge # "api" => apPlan = CHOOSE p \in ApPlans : TRUE)

EdgesNext ==
    /\ UNCHANGED edge
    /\ \/ /\ edge = "hooks" /\ HkNext
          /\ UNCHANGED <<auVars, whVars, cnVars, sbVars, apVars>>
       \/ /\ edge = "auth" /\ AuNext
          /\ UNCHANGED <<hkVars, whVars, cnVars, sbVars, apVars>>
       \/ /\ edge = "webhook" /\ WhNext
          /\ UNCHANGED <<hkVars, auVars, cnVars, sbVars, apVars>>
       \/ /\ edge = "connection" /\ CnNext
          /\ UNCHANGED <<hkVars, auVars, whVars, sbVars, apVars>>
       \/ /\ edge = "subscriptions" /\ SbNext
          /\ UNCHANGED <<hkVars, auVars, whVars, cnVars, apVars>>
       \/ /\ edge = "api" /\ ApNext
          /\ UNCHANGED <<hkVars, auVars, whVars, cnVars, sbVars>>

EdgesSpec == EdgesInit /\ [][EdgesNext]_edgeVars
=============================================================================
