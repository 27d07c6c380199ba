------------------------------- MODULE WebHook -------------------------------
(***************************************************************************)
(* The web-hook plugin: hook handlers turn broker events into messages on  *)
(* a bounded channel; a worker thread with its own runtime takes them,     *)
(* and a task queue of bounded width writes each one to the files and      *)
(* HTTP services its rules name.  Reloading the configuration with another *)
(* width or capacity starts a second worker beside the first, which drains *)
(* its channel and then exits, taking its runtime down with it.            *)
(***************************************************************************)
EXTENDS Naturals, Integers, FiniteSets, Sequences, SequencesExt

CONSTANTS
    WhEvents,     \* the hook events of a behaviour
    WhEvent,      \* what each one is: its type, topic (parses: whether
                  \* Topic::from_str takes it) and sender
    WhConfigs,    \* the configuration files a reload may find
    WhHttp,       \* the http locations; the other ones are files
    WhTries,      \* bound: requests made for one message and location
    WhFaults,     \* bound: failures of files and services
    WhReloads     \* bound: configuration reloads

VARIABLES
    whStage,      \* where the handler of each event is
    whVia,        \* the generation whose sender it cloned
    whGen,        \* workers started so far; the last one is current
    whCfg,        \* per generation, the configuration it reads
    whChan,       \* per generation, the channel
    whLoop,       \* per generation, the messages taken and not yet spawned
    whWaiting,    \* per generation, the tasks that wait for a slot
    whStarted,    \* the messages whose task has run
    whTask,       \* the writes each of these tasks has still to do
    whCount,      \* chan_queue_count
    whOut,        \* per location, the messages it received
    whTried,      \* requests made per message and location
    whFailed,     \* writes given up: counted by fails() or logged
    whCut,        \* messages dropped with the runtime that had their task
    whUnparsed,   \* messages whose topic did not parse, logged and dropped
    whFaults,
    whDown        \* the workers that exited

callVars == <<whStage, whVia>>
workVars == <<whChan, whLoop, whWaiting, whCount>>
confVars == <<whGen, whCfg, whDown>>
writeVars == <<whStarted, whTask, whOut, whTried, whFailed, whCut, whUnparsed, whFaults>>
whVars == <<callVars, workVars, confVars, writeVars>>

WhGens == 1 .. WhReloads + 1

\* The hook types init registers a handler for.
WhTypes ==
    {"session_created", "session_terminated", "session_subscribed",
     "session_unsubscribed", "client_connect", "client_connack",
     "client_connected", "client_disconnected", "client_subscribe",
     "client_unsubscribe", "message_publish", "message_delivered",
     "message_acked", "message_dropped"}

\* The bodies of client events: the ones about a filter carry it.
ClientBody(v) ==
    IF v.type \in {"client_subscribe", "client_unsubscribe"}
    THEN {v.topic}
    ELSE {"no_topic"}

SessionBody(v) ==
    IF v.type \in {"session_subscribed", "session_unsubscribed"}
    THEN {v.topic}
    ELSE {"no_topic"}

\* A system message is not reported when it is delivered, acknowledged or
\* dropped; a dropped message is reported without its topic.
MessageBody(v) ==
    IF v.type = "message_publish"
    THEN {v.topic}
    ELSE IF v.system
         THEN {}
         ELSE IF v.type = "message_dropped" THEN {"no_topic"} ELSE {v.topic}

\* The message of an event, as the topic its rules are matched with.
Bodies(v) ==
    IF v.type \in {"message_publish", "message_delivered", "message_acked",
                   "message_dropped"}
    THEN MessageBody(v)
    ELSE IF v.type \in {"session_created", "session_terminated",
                        "session_subscribed", "session_unsubscribed"}
         THEN SessionBody(v)
         ELSE ClientBody(v)

\* A configuration as the plugin holds it: the deprecated http_urls are
\* appended to urls.
MergeUrls(f) == [f EXCEPT !.urls = @ \union f.http_urls]

\* The rules of the event's type; a rule without topics takes every topic,
\* and an event without a topic passes every rule.
Allowed(r, topic) ==
    \/ topic = "no_topic"
    \/ r.topics = {}
    \/ topic \in r.topics

RuleUrls(cfg, r) == IF r.urls = {} THEN cfg.urls ELSE r.urls

\* The writes a message asks for: one per rule that takes it and location.
Writes(cfg, v) ==
    UNION {{<<r.action, u>> : u \in RuleUrls(cfg, r)} :
             r \in {q \in cfg.rules : /\ q.type = v.type
                                      /\ \E t \in Bodies(v) : Allowed(q, t)}}

ASSUME WebHookAssumption ==
    /\ \A e \in WhEvents : WhEvent[e].type \in WhTypes
    /\ WhTries \in Nat \ {0} /\ WhFaults \in Nat /\ WhReloads \in Nat

WhInit ==
    /\ whStage = [e \in WhEvents |-> "idle"]
    /\ whVia = [e \in WhEvents |-> 0]
    /\ whGen = 1
    /\ \E f \in WhConfigs : whCfg = [g \in WhGens |-> MergeUrls(f)]
    /\ whChan = [g \in WhGens |-> <<>>]
    /\ whLoop = [g \in WhGens |-> <<>>]
    /\ whWaiting = [g \in WhGens |-> <<>>]
    /\ whStarted = {}
    /\ whTask = [e \in WhEvents |-> {}]
    /\ whCount = 0
    /\ whOut = [e \in WhEvents |-> {}]
    /\ whTried = [e \in WhEvents |-> [w \in {} |-> 0]]
    /\ whFailed = [e \in WhEvents |-> {}]
    /\ whCut = {}
    /\ whUnparsed = {}
    /\ whFaults = 0
    /\ whDown = {}

\* hook: the body is built and the sender cloned out of its lock.
WhHook(e) ==
    /\ whStage[e] = "idle"
    /\ IF Bodies(WhEvent[e]) = {}
       THEN /\ whStage' = [whStage EXCEPT ![e] = "silent"]
            /\ UNCHANGED whVia
       ELSE /\ whStage' = [whStage EXCEPT ![e] = "sending"]
            /\ whVia' = [whVia EXCEPT ![e] = whGen]
    /\ UNCHANGED <<workVars, confVars, writeVars>>

\* The send waits for room in the channel; the broker's task waits with it.
WhSend(e) ==
    /\ whStage[e] = "sending"
    /\ LET g == whVia[e] IN
       /\ Len(whChan[g]) < whCfg[g].capacity
       /\ whChan' = [whChan EXCEPT ![g] = Append(@, e)]
    /\ whStage' = [whStage EXCEPT ![e] = "sent"]
    /\ UNCHANGED <<whVia, whLoop, whWaiting, whCount, confVars, writeVars>>

WhCounted(e) ==
    /\ whStage[e] = "sent"
    /\ whStage' = [whStage EXCEPT ![e] = "back"]
    /\ whCount' = whCount + 1
    /\ UNCHANGED <<whVia, whChan, whLoop, whWaiting, confVars, writeVars>>

\* The worker takes the next message; it waits while the task queue is full.
WhRecv(g) ==
    /\ g <= whGen /\ g \notin whDown
    /\ whLoop[g] = <<>> /\ whChan[g] # <<>>
    /\ whLoop' = [whLoop EXCEPT ![g] = <<Head(whChan[g])>>]
    /\ whChan' = [whChan EXCEPT ![g] = Tail(@)]
    /\ whCount' = whCount - 1
    /\ UNCHANGED <<callVars, whWaiting, confVars, writeVars>>

\* mutant: a full queue drops the message
WhSpawn_dropped(g) ==
    /\ whLoop[g] # <<>> /\ g \notin whDown
    /\ whWaiting' = IF Len(whWaiting[g]) < whCfg[g].capacity
                    THEN [whWaiting EXCEPT ![g] = @ \o whLoop[g]] ELSE whWaiting
    /\ whLoop' = [whLoop EXCEPT ![g] = <<>>]
    /\ UNCHANGED <<callVars, whChan, whCount, confVars, writeVars>>

\* handle_msg: the task is queued once the queue is not full.
WhSpawn(g) ==
    /\ whLoop[g] # <<>> /\ g \notin whDown
    /\ Len(whWaiting[g]) < whCfg[g].capacity
    /\ whWaiting' = [whWaiting EXCEPT ![g] = @ \o whLoop[g]]
    /\ whLoop' = [whLoop EXCEPT ![g] = <<>>]
    /\ UNCHANGED <<callVars, whChan, whCount, confVars, writeVars>>

Running(g) == {e \in whStarted \ whCut : whVia[e] = g /\ whTask[e] # {}}

\* A topic that the body carries and Topic::from_str refuses; the filters of
\* client_subscribe and client_unsubscribe are not validated before the hook.
Unparsable(v) == ~ v.parses /\ Bodies(v) # {"no_topic"}

\* handle: a slot is free; the writes are those of the configuration as it
\* is now.  A topic that does not parse is an error, which the task logs.
WhHandle(g) ==
    /\ whWaiting[g] # <<>> /\ g \notin whDown
    /\ Cardinality(Running(g)) < whCfg[g].limit
    /\ LET e == Head(whWaiting[g])
           bad == Unparsable(WhEvent[e])
           ws == IF bad THEN {} ELSE Writes(whCfg[g], WhEvent[e]) IN
       /\ whStarted' = whStarted \union {e}
       /\ whUnparsed' = IF bad THEN whUnparsed \union {e} ELSE whUnparsed
       /\ whTask' = [whTask EXCEPT ![e] = ws]
       /\ whTried' = [whTried EXCEPT ![e] = [w \in ws |-> 0]]
    /\ whWaiting' = [whWaiting EXCEPT ![g] = Tail(@)]
    /\ UNCHANGED <<callVars, whChan, whLoop, whCount, confVars, whOut, whFailed,
                   whCut, whFaults>>

Written(e, w) ==
    /\ whOut' = [whOut EXCEPT ![e] = @ \union {w}]
    /\ whTask' = [whTask EXCEPT ![e] = @ \ {w}]

\* write, of a file: HookWriter::log opens the file when it has none.
WhFile(e, w) ==
    /\ w[2] \notin WhHttp
    /\ Written(e, w)
    /\ UNCHANGED <<whTried, whFailed, whFaults>>

\* An open or a write that fails is logged; the message is not kept.
WhFileFails(e, w) ==
    /\ w[2] \notin WhHttp
    /\ whFaults < WhFaults
    /\ whFaults' = whFaults + 1
    /\ whTask' = [whTask EXCEPT ![e] = @ \ {w}]
    /\ whFailed' = [whFailed EXCEPT ![e] = @ \union {w}]
    /\ UNCHANGED <<whOut, whTried>>

\* http_request: an answer with a success status.
WhHttpOk(e, w) ==
    /\ w[2] \in WhHttp
    /\ Written(e, w)
    /\ UNCHANGED <<whTried, whFailed, whFaults>>

\* Any error is retried until the backoff's time has run out; the service
\* may have handled the request whose answer is lost.
WhHttpFails(e, w) ==
    /\ w[2] \in WhHttp
    /\ whFaults < WhFaults
    /\ whFaults' = whFaults + 1
    /\ whOut' \in {whOut, [whOut EXCEPT ![e] = @ \union {w}]}
    /\ whTried' = [whTried EXCEPT ![e][w] = @ + 1]
    /\ IF whTried[e][w] + 1 < WhTries
       THEN UNCHANGED <<whTask, whFailed>>
       ELSE /\ whTask' = [whTask EXCEPT ![e] = @ \ {w}]
            /\ whFailed' = [whFailed EXCEPT ![e] = @ \union {w}]

WhWrite(e) ==
    /\ whVia[e] \notin whDown
    /\ \E w \in whTask[e] :
         \/ WhFile(e, w) \/ WhFileFails(e, w)
         \/ WhHttpOk(e, w) \/ WhHttpFails(e, w)
    /\ UNCHANGED <<callVars, workVars, confVars, whStarted, whCut, whUnparsed>>

\* load_config: another width or capacity starts a new worker, whose sender
\* replaces the old one; anything else is written where the worker reads it.
WhLoadConfig ==
    /\ whGen <= WhReloads
    /\ \E f \in WhConfigs :
         LET new == MergeUrls(f)
             cur == whCfg[whGen] IN
         IF new.capacity # cur.capacity \/ new.limit # cur.limit
         THEN /\ whGen' = whGen + 1
              /\ whCfg' = [whCfg EXCEPT ![whGen + 1] = new]
         ELSE /\ new # cur
              /\ whCfg' = [whCfg EXCEPT ![whGen] = new]
              /\ UNCHANGED whGen
    /\ UNCHANGED <<callVars, workVars, whDown, writeVars>>

\* A worker whose channel has no sender left leaves its loop, and its
\* runtime goes with it: the tasks still waiting or retrying are dropped.
WhExit(g) ==
    /\ g < whGen /\ g \notin whDown
    /\ \A e \in WhEvents : whVia[e] = g => whStage[e] \notin {"sending", "sent"}
    /\ whChan[g] = <<>> /\ whLoop[g] = <<>>
    /\ whDown' = whDown \union {g}
    /\ whCut' = whCut \union Range(whWaiting[g]) \union Running(g)
    /\ whWaiting' = [whWaiting EXCEPT ![g] = <<>>]
    /\ UNCHANGED <<callVars, whChan, whLoop, whCount, whGen, whCfg, whStarted,
                   whTask, whOut, whTried, whFailed, whUnparsed, whFaults>>

WhNext ==
    \/ \E e \in WhEvents : WhHook(e) \/ WhSend(e) \/ WhCounted(e) \/ WhWrite(e)
    \/ \E g \in WhGens :
         WhRecv(g) \/ WhSpawn(g) \/ WhHandle(g) \/ WhExit(g)
    \/ WhLoadConfig

WhSpec == WhInit /\ [][WhNext]_whVars

------------------------------------------------------------------------------
\* The places a message can be in between the handler and its task.
WhPlaces(e) ==
    {<<s, whVia[e]>> : s \in {whStage[e]} \intersect {"sending"}}
      \union {<<"chan", g>> : g \in {h \in WhGens : Contains(whChan[h], e)}}
      \union {<<"loop", g>> : g \in {h \in WhGens : Contains(whLoop[h], e)}}
      \union {<<"wait", g>> : g \in {h \in WhGens : Contains(whWaiting[h], e)}}
      \union {<<"task", whVia[d]>> : d \in {e} \intersect (whStarted \union whCut)}

(***************************************************************************)
(* An event that a handler passed on is in exactly one place from then on, *)
(* and once its task is over, every write the rules of its type ask for    *)
(* was made or was given up after the retries (or a file error).  Two ways *)
(* lead to a message that is neither: a runtime that a reload replaced     *)
(* drops the messages it had, and a filter that does not parse is logged.  *)
(* A full channel, a full task queue, a reload under the handlers' feet    *)
(* and a lost answer drop nothing (hook, start, handle, http_request,      *)
(* load_config).                                                           *)
(***************************************************************************)
NotifiedOrCut ==
    \A e \in WhEvents :
      /\ whStage[e] \in {"sending", "sent", "back"} =>
           WhPlaces(e) \in {{<<p, whVia[e]>>} :
                            p \in {"sending", "chan", "loop", "wait", "task"}}
      /\ e \in whStarted \ whCut /\ whTask[e] = {} =>
           \/ e \in whUnparsed /\ ~ WhEvent[e].parses
           \/ \E f \in WhConfigs :
                whOut[e] \union whFailed[e] = Writes(MergeUrls(f), WhEvent[e])
      /\ e \in whCut => whVia[e] < whGen

(***************************************************************************)
(* chan_queue_count, raised after the send and lowered at the receipt, is  *)
(* off by exactly the handlers between their send and their count: it may  *)
(* be below zero for a moment and is exact when no handler is in between.  *)
(***************************************************************************)
QueueCounted ==
    whCount + Cardinality({e \in WhEvents : whStage[e] = "sent"}) =
      Cardinality({e \in WhEvents : \E g \in WhGens : Contains(whChan[g], e)})

(***************************************************************************)
(* Every event is accounted for, in its place and in the queue's counter.  *)
(***************************************************************************)
HookAccounts == NotifiedOrCut /\ QueueCounted
==============================================================================
