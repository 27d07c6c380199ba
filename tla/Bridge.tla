------------------------------- MODULE Bridge -------------------------------
(***************************************************************************)
(* The ingress bridge (rmqtt-bridge-ingress-mqtt).  The plugin sends its   *)
(* manager thread Connect and Close; Connect starts one client per entry   *)
(* of every enabled bridge (several for a shared subscription), each a     *)
(* task that connects to the remote broker, subscribes and reconnects,     *)
(* and a task that waits for its Close.  A message of the remote broker is *)
(* acknowledged at once and forwarded by a task of its own.                *)
(***************************************************************************)
EXTENDS Integers, Sequences, FiniteSets, SequencesExt

CONSTANTS
    BrPlans,      \* configured bridges, with the bounds of a behaviour: times
                  \* the plugin is started, failures outside the broker
    BrMessages    \* the messages of the remote broker

VARIABLES
    brPlan,
    brActive,     \* the plugin is started
    brQueue,      \* the manager's command channel
    brGen,        \* times the manager started the clients
    brSources,    \* the manager's mailboxes: client -> told to close or not
    brClient,     \* the clients there have been
    brTasks,      \* messages received and not yet forwarded
    brLocal,      \* messages forwarded into the broker
    brMissed,     \* clients whose Close did not find them connected
    brFaults

brVars == <<brPlan, brActive, brQueue, brGen, brSources, brClient, brTasks, brLocal,
            brMissed, brFaults>>

------------------------------------------------------------------------------
(* The clients the configuration asks for, in the manager's order.         *)

\* A shared subscription is read by concurrent_client_limit clients.
ClientNos(b, e) == IF b.entries[e].shared THEN 1 .. b.limit ELSE {1}

\* Connections to MQTT 3.1 brokers are not implemented.
BridgeKeys(b) ==
    IF ~b.enable \/ b.ver \notin {"v4", "v5"} THEN <<>>
    ELSE FlattenSeq([e \in DOMAIN b.entries |->
                       [n \in ClientNos(b, e) |-> <<b.name, e, n>>]])

KeysOf(bs) == FlattenSeq([k \in DOMAIN bs |-> BridgeKeys(bs[k])])
Keys == KeysOf(brPlan.bridges)

Clients == UNION {Range(KeysOf(p.bridges)) \X (1 .. p.starts) : p \in BrPlans}
NewClient == [task |-> "connecting", sink |-> "none", closed |-> FALSE,
              cmd |-> "wait", sub |-> "no"]
NoClient == [NewClient EXCEPT !.task = "none"]

BrInit ==
    /\ brPlan \in BrPlans
    /\ brActive = FALSE
    /\ brQueue = <<>> /\ brGen = 0
    /\ brSources = {}
    /\ brClient = [c \in Clients |-> NoClient]
    /\ brTasks = {} /\ brLocal = {} /\ brMissed = {}
    /\ brFaults = 0

Fault == /\ brFaults < brPlan.faults
         /\ brFaults' = brFaults + 1

------------------------------------------------------------------------------
(* The plugin and its manager.                                             *)

BrStart ==
    /\ ~brActive
    /\ brGen + Len(SelectSeq(brQueue, LAMBDA q : q = "connect")) < brPlan.starts
    /\ brActive' = TRUE
    /\ brQueue' = Append(brQueue, "connect")
    /\ UNCHANGED <<brPlan, brGen, brSources, brClient, brTasks, brLocal, brMissed, brFaults>>

BrStop ==
    /\ brActive
    /\ brActive' = FALSE
    /\ brQueue' = Append(brQueue, "close")
    /\ UNCHANGED <<brPlan, brGen, brSources, brClient, brTasks, brLocal, brMissed, brFaults>>

\* start: a server whose address does not resolve ends the loop over the
\* clients; the ones before it run.
BrManagerConnect ==
    /\ brQueue # <<>> /\ Head(brQueue) = "connect"
    /\ \E n \in 0 .. Len(Keys) :
         LET started == {<<Keys[k], brGen + 1>> : k \in 1 .. n} IN
         /\ IF n < Len(Keys) THEN Fault ELSE UNCHANGED brFaults
         /\ brClient' = [c \in Clients |->
                           IF c \in started THEN NewClient ELSE brClient[c]]
         /\ brSources' = {c \in brSources : \A s \in started : s[1] # c[1]}
                           \union started
    /\ brGen' = brGen + 1
    /\ brQueue' = Tail(brQueue)
    /\ UNCHANGED <<brPlan, brActive, brTasks, brLocal, brMissed>>

\* stop: every mailbox gets Close and is forgotten.
BrManagerClose ==
    /\ brQueue # <<>> /\ Head(brQueue) = "close"
    /\ brClient' = [c \in Clients |->
                      IF c \in brSources /\ brClient[c].cmd = "wait"
                      THEN [brClient[c] EXCEPT !.cmd = "close"] ELSE brClient[c]]
    /\ brSources' = {}
    /\ brQueue' = Tail(brQueue)
    /\ UNCHANGED <<brPlan, brActive, brGen, brTasks, brLocal, brMissed, brFaults>>

------------------------------------------------------------------------------
(* A client.                                                               *)

Set(c, r) == brClient' = [brClient EXCEPT ![c] = r]

\* After the event loop, and after a failed connect.
Ended(r) == [r EXCEPT !.task = IF r.closed THEN "exit" ELSE "sleeping"]

\* connect: the sink is kept and a task subscribes the entry's filter.
BrConnected(c) ==
    /\ brClient[c].task = "connecting"
    /\ Set(c, [brClient[c] EXCEPT !.task = "up", !.sink = "open", !.sub = "asking"])
    /\ UNCHANGED <<brPlan, brActive, brQueue, brGen, brSources, brTasks, brLocal, brMissed,
                   brFaults>>

BrConnectFails(c) ==
    /\ brClient[c].task = "connecting"
    /\ Fault
    /\ Set(c, Ended(brClient[c]))
    /\ UNCHANGED <<brPlan, brActive, brQueue, brGen, brSources, brTasks, brLocal, brMissed>>

BrWake(c) ==
    /\ brClient[c].task = "sleeping"
    /\ Set(c, [brClient[c] EXCEPT !.task = "connecting"])
    /\ UNCHANGED <<brPlan, brActive, brQueue, brGen, brSources, brTasks, brLocal, brMissed,
                   brFaults>>

\* subscribe: a refusal is retried after a while, any other error is not.
BrSubscribe(c) ==
    /\ brClient[c].task = "up" /\ brClient[c].sink = "open"
    /\ brClient[c].sub = "asking"
    /\ \/ Set(c, [brClient[c] EXCEPT !.sub = "yes"]) /\ UNCHANGED brFaults
       \/ \E s \in {"wait", "gave up"} :
            Set(c, [brClient[c] EXCEPT !.sub = s]) /\ Fault
    /\ UNCHANGED <<brPlan, brActive, brQueue, brGen, brSources, brTasks, brLocal, brMissed>>

\* mutant: a failed subscribe is not tried again
BrSubscribeAgain_never(c) == FALSE /\ c \in Clients /\ UNCHANGED brVars

BrSubscribeAgain(c) ==
    /\ brClient[c].sub = "wait"
    /\ Set(c, [brClient[c] EXCEPT !.sub = "asking"])
    /\ UNCHANGED <<brPlan, brActive, brQueue, brGen, brSources, brTasks, brLocal, brMissed,
                   brFaults>>

\* The event loop ends: the remote broker or the network went, or the sink
\* was closed.  The subscribe task of this connection ends with an error.
BrDown(c) ==
    /\ brClient[c].task = "up"
    /\ IF brClient[c].sink = "open" THEN Fault ELSE UNCHANGED brFaults
    /\ Set(c, [Ended(brClient[c]) EXCEPT !.sink = "closed", !.sub = "no"])
    /\ UNCHANGED <<brPlan, brActive, brQueue, brGen, brSources, brTasks, brLocal, brMissed>>

\* mutant: the sink is closed, the client not marked closed
BrClose_sinkOnly(c) ==
    /\ brClient[c].cmd = "close"
    /\ Set(c, IF brClient[c].sink = "none"
              THEN [brClient[c] EXCEPT !.cmd = "ended"]
              ELSE [brClient[c] EXCEPT !.cmd = "ended", !.sink = "closed"])
    /\ brMissed' = IF brClient[c].task = "up" THEN brMissed
                   ELSE brMissed \union {c}
    /\ UNCHANGED <<brPlan, brActive, brQueue, brGen, brSources, brTasks, brLocal, brFaults>>

\* cmd_loop takes Close: a client that never had a sink does not notice.
BrClose(c) ==
    /\ brClient[c].cmd = "close"
    /\ Set(c, IF brClient[c].sink = "none"
              THEN [brClient[c] EXCEPT !.cmd = "ended"]
              ELSE [brClient[c] EXCEPT !.cmd = "ended", !.sink = "closed",
                                       !.closed = TRUE])
    /\ brMissed' = IF brClient[c].task = "up" THEN brMissed
                   ELSE brMissed \union {c}
    /\ UNCHANGED <<brPlan, brActive, brQueue, brGen, brSources, brTasks, brLocal, brFaults>>

------------------------------------------------------------------------------
(* Messages.                                                               *)

\* ControlMessage::Publish: fire starts the task, then the message is
\* acknowledged.  The remote broker gives a message to one client of an
\* entry.
BrPublish(c, m) ==
    /\ brClient[c].task = "up" /\ brClient[c].sink = "open"
    /\ brClient[c].sub = "yes"
    /\ \A t \in brTasks \union brLocal :
         ~(t.from[1][1] = c[1][1] /\ t.from[1][2] = c[1][2] /\ t.msg = m)
    /\ brTasks' = brTasks \union {[from |-> c, msg |-> m]}
    /\ UNCHANGED <<brPlan, brActive, brQueue, brGen, brSources, brClient, brLocal, brMissed,
                   brFaults>>

\* send_publish: the message, with the topic, qos and retain of its entry, enters
\* the broker.
BrForward(t) ==
    /\ t \in brTasks
    /\ brTasks' = brTasks \ {t}
    /\ brLocal' = brLocal \union {t}
    /\ UNCHANGED <<brPlan, brActive, brQueue, brGen, brSources, brClient, brMissed, brFaults>>

BrNext ==
    \/ BrStart \/ BrStop \/ BrManagerConnect \/ BrManagerClose
    \/ \E c \in Clients :
         \/ BrConnected(c) \/ BrConnectFails(c) \/ BrWake(c) \/ BrSubscribe(c)
         \/ BrSubscribeAgain(c) \/ BrDown(c) \/ BrClose(c)
         \/ \E m \in BrMessages : BrPublish(c, m)
    \/ \E t \in brTasks : BrForward(t)

BrSpec == BrInit /\ [][BrNext]_brVars

\* The manager thread runs its commands and the tasks of a client: the one
\* that connects, the one that subscribes and cmd_loop.  The remote broker
\* answers as long as nothing fails.
BrManagerStep == BrManagerConnect \/ BrManagerClose
BrStartStep(c) ==
    \/ BrConnected(c) \/ BrConnectFails(c) \/ BrWake(c)
    \/ BrDown(c) /\ brClient[c].sink = "closed"
BrSubscribeStep(c) == BrSubscribe(c) \/ BrSubscribeAgain(c)

BrFairness ==
    /\ WF_brVars(BrManagerStep)
    /\ \A c \in Clients : /\ WF_brVars(BrStartStep(c)) /\ WF_brVars(BrClose(c))
                          /\ WF_brVars(BrSubscribeStep(c))

BrFairSpec == BrSpec /\ BrFairness

------------------------------------------------------------------------------
Connected(c) == brClient[c].task = "up" /\ brClient[c].sink = "open"

(***************************************************************************)
(* A stopped bridge is silent: a client that has taken its Close holds an  *)
(* open connection only if Close came while it was between two of them     *)
(* (start does not look at closed after its sleep or a connect), and two   *)
(* clients of one client id are connected only in that case.               *)
(***************************************************************************)
StoppedBridgeSilent ==
    \A c \in Clients :
       /\ Connected(c) /\ brClient[c].cmd = "ended" => c \in brMissed
       /\ \A d \in Clients :
            Connected(c) /\ Connected(d) /\ c[1] = d[1] /\ c[2] < d[2]
              => c \in brMissed \/ brClient[c].cmd = "close"

(***************************************************************************)
(* A client that the manager started is in the end subscribed at the       *)
(* remote broker, told to close, or left without a subscription by an      *)
(* error other than a refusal: connecting and subscribing are retried.     *)
(***************************************************************************)
BridgeSubscribes ==
    \A c \in Clients :
       brClient[c].task = "connecting"
         ~> (brClient[c].sub \in {"yes", "gave up"} \/ brClient[c].cmd # "wait")
==============================================================================
