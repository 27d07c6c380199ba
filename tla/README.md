# A TLA+ verification of RMQTT

RMQTT is an MQTT broker written in Rust. This directory holds TLA+ models of
its parts, translated from the source, the TLC configurations that check them
on small instances, and proofs, checked by TLAPS, of results that hold for all
values of the constants. `PROJECT.json` lists every run, the source lines each
definition stands for, the hazards the properties aim at and the findings.

## 1. The system

### Parts and state

| part | source | state | operations |
| --- | --- | --- | --- |
| in-flight window | `broker/inflight.rs` | deque map packet id -> message with status, 16-bit counter | `push_back`, `remove`, `update_status`, `pop_front_timeout`, `next_id`, `has_credit` |
| deliver queue | `broker/queue.rs` | bounded queue, channel of wake-up tokens, rate limiter | `send` with drop policy, `poll_next` |
| session task | `broker/session.rs` | control channel, flags, timers, window, queue | `start`, `offline_start`, `deliver`, `reforward`, `clean`, `transfer_session_state` |
| connection task | `broker/v3.rs`, `v5.rs` | alias tables (MQTT 5) | handshake, control messages, publish and acknowledgements |
| fitter | `broker/fitter.rs`, `default.rs` | none | keep alive, window, alias and expiry limits of a session |
| registry | `broker/default.rs` (`DefaultShared`, `LockEntry`) | peers by client id, lock by client id | `try_lock`, `kick`, `set`, `remove_with`, `subscribe`, `unsubscribe`, `forwards` |
| router | `broker/default.rs` (`DefaultRouter`) | topic tree, relations, two counters | `add`, `remove`, `matches` |
| topic tree | `broker/topic.rs` | tree of filters | `insert`, `remove`, `matches` |
| retained messages | `broker/retain.rs`, `default.rs`, plugin `rmqtt-retainer` | tree of topics and a counter, or a database | `set`, `get`, sweep of expired messages |
| session subscriptions, statistics | `broker/types.rs`, `session.rs`, `stats.rs` | filters of a session, counters | add, remove, drain, extend, clear |
| hooks, plugins | `broker/hook.rs`, `default.rs`, `plugin.rs` | handlers by type and priority, plugins by name | register, start, stop, run |
| clusters | plugins `rmqtt-cluster-raft`, `rmqtt-cluster-broadcast` | replicated routes and client states, or none | forward, kick, handshake lock on other nodes |
| gRPC transport | `grpc/*.rs` | mailbox, connection, running requests | queue, batch, send, distribute replies |
| storage | plugins `rmqtt-session-storage`, `rmqtt-message-storage` | sessions and messages in a database | save, restore, expire |
| access | plugins `rmqtt-acl`, `rmqtt-auth-http` | rules, placeholders, cached answers | authenticate, check publish and subscribe, reload |
| edges | plugins `rmqtt-web-hook`, `rmqtt-http-api`, `rmqtt-bridge-ingress-mqtt` | queues, connections, requests | notify, query, connect and forward |

### Interactions

A CONNECT runs the handshake: it takes the client's lock, kicks the session
that is registered (a message to its task and an answer), collects it, starts
the task of the new session, registers it, and spawns a task that transfers
subscriptions and messages. A PUBLISH is checked by the hooks, matched by the
router and put into the channel of every subscriber's session task, which moves
it to its deliver queue, delivers it when the window has credit, and keeps it in
the window until the connection task handles the acknowledgement. When a
connection ends the session task publishes the will, now or later, and goes on
as an offline session until it is kicked or expires. Plugins see all of this
through hooks; those that keep state do so in tasks of their own, batched and
out of step with the broker. In a cluster the registry's lock, kick and forwards
and the router's add and remove go to other nodes through the gRPC mailboxes.

### What makes it hard

Two tasks share the window and a lock; a kick is a message with a timeout; the
registry is changed by handshakes (locked), by ending sessions and by the HTTP
API (not locked); the router changes a tree, a map and two counters in steps;
limits are tested before the write they guard; messages move between channel,
queue, limiter and window, and between sessions; what the plugins save is
written by tasks that overlap each other, a crash and the session they are
about; configurations are reloaded under running work. The list `hazards` of
`PROJECT.json` names each of these at its line.

## 2. Modules

Operators named `X_suffix` next to an operator `X` are mutants: plausible wrong
versions, each of which makes one property of one run fail. No specification
uses them.

The core of a node:

| module | models | how |
| --- | --- | --- |
| `Inflight` | the window | operators on a sequence of entries; `late` stands for the outcome of the wall-clock comparison |
| `DeliverQueue` | the queue's `send` | operators: queue, tokens and dropped message after a send |
| `Delivery` | one online session and its client | event loop and connection task as actions; the sends of `deliver` and `reforward` may fail (`DeliverFails`, `RereleaseFails`: only logged, the message is then in `failed`); `loop = "relock"` is the task waiting for the lock it holds |
| `Takeover` | the messages of a persistent session over several connections | going offline, kick, collection, transfer, new messages meanwhile |
| `SessionLife` | the sessions of one client id | handshake, kick, registration, transfer, subscribe and unsubscribe, exit, offline loop, will, clean, HTTP kick, one step per await |
| `Connection5` | one MQTT 5 client over its connections | the handshake with its refusals, the fitter's arithmetic (u16 and u32 widths as constants), the alias tables of both sides with packets on the wire; the expiry of a message by the publisher's fitter (the stores) and by `message_expiry_check` with the receiver's listener (delivery) |
| `Subscriptions` | the subscriptions of a client id and the counters | SUBSCRIBE and UNSUBSCRIBE packet by packet, filter by filter, the API's in the session loop, drain and extend of a takeover, the drop of a session; a map changes under its lock, the counters one by one after it (`sbOwed` is what a task has still to count) |
| `Mutex`, `ClientLock` | the lock of a client id | `ClientLock` is the map of mutexes as `try_lock` and `drop` use it, `Mutex` what it promises |
| `Router` | routes of a node | `add` and `remove` in the steps between which their locks are released, by any number of tasks: a relation is counted after its insertion (`AddRelation`, `CountRelation`), a key counted off after its removal (`RemoveEntry`, `UncountTopic`); `overlapped` remembers whether two calls ever were in progress together |
| `Topics` | topic names, filters, the MQTT matching rule | reference for the two trees |
| `TopicTree` | the tree of filters | a tree is a function from paths to value sets; the iterator is a recursive operator |
| `RetainTree`, `Retainer` | retained messages in memory | tree, limit test, write, expiry, sweep, lookup |
| `PublishFlow` | one topic from PUBLISH to the subscribers' channels | `forwards`, `_matches` filter by filter, `choice`, the collector, `_subscribe`, and the RAM message store, its workers and cleanup, one step per lock |
| `Hooks` | hook manager and plugin manager | events run handlers by priority under the type's lock; start, stop, load_config and look-up of plugins are calls of the HTTP API or of a gRPC event's handler that keep the plugin's entry over their awaits, take the shard of the handler map and the type's lock; a guard of a map that is taken blocks the thread, of which each of the three pools (sessions, gRPC, HTTP API) has a number |

Plugins and clusters:

| module | models | how |
| --- | --- | --- |
| `RaftCluster` | a client's connections in a raft cluster | the committed proposals each node has yet to apply, the replicated client state and route of each node, and per connection the handshake (`try_lock`, `kick`, `set`), subscribe, disconnect, the end of the session and the spawned removals; any proposal may fail, committed or not (`HandshakeFails`, `SubscribeFails`), or be given up after its retries (`GiveUp`); one step per await |
| `BroadcastCluster` | a client's connections and one publish in a broadcast cluster | the per-node lock and registry, the `Kick` calls to all nodes of which the first answer counts, `Forwards` to all nodes, the choice among group members of all nodes, `ForwardsTo` |
| `GrpcMailbox` | a node's gRPC client for another node and the service it calls | callers, the channel, the merging loop, the `_send` tasks through connect, request, replies; callers may be gone |
| `SessionStorage` | what a node keeps on disk about a client's sessions | a map and a list per session id with their expiry; the session with its deliver queue and window, the task that saves it, the handshake that transfers, the task that empties, interleaved at their store operations (`disconnected_set` is four: `BeginSet`, twice `SetList`, `SetDisc`); crash, load, rebuild |
| `RetainStore` | retained messages in a database | `set` into a channel (a full one takes the message too, as every clone of the sender has a slot of its own), the collector, the batch tasks side by side, the cached count, time-outs |
| `MessageStore` | stored messages in a database | the id generator and its saved copy, batches, the entry per client a message was forwarded to, `_get` by clients and groups, for SUBSCRIBE and for a transferred session at the same time, expiry, restart |
| `Authorize` | `rmqtt-acl` and `rmqtt-auth-http` | parsing and evaluation of rules, placeholders filled in by a spawned task, reload, the HTTP answers with the time they take and their cache |
| `WebHook` | the web hook | handlers, bounded channel, worker, task queue, files and services with retries, a reload that starts a second worker; the topic of an unsubscription may not parse, and its message is then only logged |
| `Bridge` | the ingress bridge | manager thread, a task per client that connects, subscribes and reconnects, one that waits for its close, messages handed to the broker by tasks (what they carry is left out) |
| `HttpApi` | the HTTP API | the ways a request is spread over nodes (one, all, first that knows, one after the other until enough rows), while clients move or go offline and calls fail; what a node declines (a filter refused, a plugin that does not stop) is an answer of its own beside done and failed |

`MC*` are the instances for TLC, `*_proofs` hold the theorems (section 6).

## 3. Runs

Components with no state in common may share a run: the `MC` module extends
them all, and a variable (`part`, `kind`, `edge`), fixed in the initial state,
says which one a behaviour exercises. The state spaces add up and nothing is
left out. A property of a run may be a conjunction of promises about one
component, each defined and explained by itself in the component's module.

| run | shows |
| --- | --- |
| `delivery` | one online session: window, queue and tokens within bounds (`WithinLimits`), nothing lost but by the queue's policy or a failed send and no second copy (`KeptOnce`), first sends in order, over every interleaving of loop, acknowledgements, retries, failed sends and expiry; with fairness every message ends acknowledged, reported or failed, or the loop has stopped on its own lock (`Settles`) |
| `session` | the sessions of a client id: one serves and it is registered (`OneSessionFound`), a session that lost its registration was replaced, its subscription is routed, the will goes out at most once; `OneSessionFound` is about behaviours in which no kick went unanswered and no HTTP kick ran |
| `messages` | messages across reconnects are accounted for and in one place (`Carried`), carry dup when sent before and are not sent again after PUBREC (`ResentHonestly`); PUBLISH, SUBSCRIBE, store workers and cleanup on one topic: retained or live, a subscriber never misses the retained message, routed subscriptions are served, a stored message goes once to a client and once to a group |
| `tables` | both trees find exactly what the MQTT rule says, after any inserts and removals, and the retained count is exact; routes: counters against maps, under any interleaving and up to what calls in progress have still to count, and exact, with tree against relations, as long as no two calls have overlapped (`RoutesKept`); client locks: the map of mutexes implements a mutex and keeps no key behind (`LockPromise`) |
| `cluster` | raft: at most one session of the client in the cluster, the replicated state names its node and the replicated route exists exactly while it is subscribed (`TablesFollow`), nodes that have applied the same proposals agree, also after a snapshot; broadcast: one session across the nodes, a publish reaches each subscriber once whichever node it is on, and one member of a group (`ServedAsOne`) |
| `stores` | retained messages in a database are the last ones set (`LastSetServed`); stored messages are given once, by each of two loads that overlap at most once, a mark means given, ids are not used again (`StoreTruthful`); a restart gives a client its session, subscriptions, offline and in-flight messages back, wherever between two store operations the crash fell (`RestoresSession`), and raises none that had ended nor lengthens one's life (`NothingRaised`) |
| `edges` | once a plugin is stopped none of its handlers runs, no event runs one twice, and events and calls stop for good in three ways only (`HooksServe`): a handler is added beside a running event and a thread waits for the map's shard, a call's thread waits for the entry or the shard another call keeps, or a call from another node switches a handler of the type its own event runs; access decisions are no older than the cache time and the request's time-out and an own topic is open once it was built (`DecidedAfresh`); a web hook's message is in one place, or was written or given up, or its topic did not parse (`HookAccounts`); both ends of a connection agree on topic aliases (`AliasesAgree`); a client is not timed out early, a message expires in delivery when its lifetime is over, is told no longer one, and is held by the stores as long as it is delivered (`NegotiatedKept`); counters equal what they count once it is counted (`StatsFollow`); the API finds clients that stay (`StayingFound`), and what it answers as done was done, on one node and once, and what was declined is told as declined (`OkMeansDone`) |
| `fair` | under fairness handshakes end, wills go out, bridge clients get subscribed, gRPC callers are answered; and a bridge client that took its Close while it was connected does not connect again (`StoppedBridgeSilent`; one that its Close found between two connections does), replies go to their callers (`RepliesPaired`) |

The properties of `cluster` and `stores` are about behaviours in which nothing
happened that the code leaves undefended. History variables (`upset`, `amiss`,
`stUpset`) collect what did, by kind, and each property names the kinds that can
break it, no more; the runs reach all of them.

| kind | what happened |
| --- | --- |
| `timeout` | raft: a handshake lock was granted because the earlier one had run out (`try_lock_timeout`) |
| `gap` | a lock was granted between the application of `Connected`, which frees it, and the registration of the session |
| `reply`, `set` | a proposal of a handshake failed, committed or not: before the kick, or when the old session is gone already |
| `stale`, `unrouted`, `status` | a SUBSCRIBE failed whose route may be committed or a removal was given up; the route of a transferred subscription failed; a report of a session was given up |
| `kick` | the kick of a session on another node failed; it is only logged |
| `overlap` | a transfer, or a removal proposed by a spawned task, ran beside a newer operation on the same route |
| `ending` | a session registered while its predecessor on the node was ending |
| `busy`, `late` | broadcast: a node refused a `Kick` because its own lock was taken; a `Kick` arrived after `select_ok` had its answer |
| `lost`, `crossed` | a `Kick` was lost; two handshakes looked for a session before either had registered |
| `failed`, `unanswered` | a subscriber that could not be sent to made a node's reply an error, and its group members were left out; a `Forwards` or `ForwardsTo` call was lost |
| `mid takeover`, `unsaved`, `undeleted`, `stale time` | session storage: the crash hit a takeover (the old session's keys are emptied before the new one's are written), a session whose BASIC was not yet saved, keys not yet deleted, a LAST_TIME older than the last activity |
| `late save`, `late transfer`, `short ttl`, `tie` | the save task or the transfer outlived the session; a DISCONNECT raised the expiry interval above what the keys live for; two sessions with the same time |
| retainer: overlapping batches, refusal, error, dropped batch, restart | what may come between the last `set` of a topic and the database |
| message store: `unmarked`, `raced`, `unanswered`, `crossed`, `reused` | an entry that was not written or read; two loads of a client or a group that both looked first; an answer nobody waited for; two batches that saved the id generator in the wrong order, and the ids given out twice after that |

Runs that refute something a document or a comment of the repository says
(`findings` quotes the line):

| run | shows |
| --- | --- |
| `delivery_retry_returns` | re-sending a PUBREL stops the session task on the lock it holds |
| `tables_replace` | at its limit the retainer refuses replacements too |
| `publish_stored` | a subscription made after the PUBLISH was answered misses a message that the store still holds unexpired |
| `api_rows` | a search for clients whose limit all of them fit into leaves out clients of the last node |

Seen while modelling and left without a run of their own:

* `next_id` can fail for a window of nearly 65535 entries; a deliver queue holds
  one message more than its limit; a kick that times out leaves two session
  tasks; clearing the window on going offline hands its messages to a hook that
  may have no handler; a message transferred to a new session may take the
  packet id, and so the place in the window, of another one.
* A subscription whose calls overlap a removal may have a relation and no filter
  in the tree; `relations_count` stays too high after interleaved calls.
* The cleanup of the RAM message store evicts a whole batch, of `cleanup_count`
  plus one, when it is one message over its limit; a forwarding error drops the
  record of all who did get the message; a client with both a group and a plain
  subscription erases the group's record; publishers that pass the retainer's
  limit test together go over the limit. Two loads of a client, for a SUBSCRIBE and
  for a transferred session, may each give it a stored message.
* Raft: two sessions of a client stay when a handshake on another node is granted
  the lock in the `gap` above, and a route is lost or left behind in the cases
  `overlap` and `ending`; a SUBSCRIBE that fails may leave a route without a
  subscription. Broadcast: two sessions stay after `crossed` handshakes.
* An MQTT 5 message expiry interval of more than 4294967 seconds wraps in delivery
  (u32 milliseconds) and not in the stores; a PUBLISH that the sink refuses leaves
  its alias in the broker's table only.
* A failed creation of a session leaves the session counter one too high.
* A handler registered while events run can block every worker thread; so can calls
  of the plugin manager, which keep the guard of a plugin's entry over their awaits
  (the HTTP API has one worker by default); starting a plugin of the gRPC type from
  another node waits for the lock of the event it runs in. A plugin whose `init`
  failed half-way has its handlers registered twice when it is started again.
* A PUBLISH or PUBREL whose send fails is neither in the window nor reported.
* What waits in the deliver queue of a session when it goes offline is not saved.
* A rule file that is loaded again forgets the own topics of connected clients.
* A reload of the web hook that changes its limits cuts the tasks of the old worker.
* A bridge client whose Close finds it between two connections connects again and
  stays.
* Two batches of the database retainer that run side by side may leave the older
  message of a topic.

## 4. Bounds

`Delivery`: three messages, a window of two and a queue that keeps one are
enough for a full window, a full queue, both drop policies and a retry racing
an acknowledgement; the id space is larger than the ids of a behaviour in
flight, as in the code. `SessionLife`: `Casts` lists the sets of connections
that meet: two show every race between an old and a new session, three the
competition for the lock; the connections differ in clean start, expiry, will
delay and how they leave, and `Polite` ones disconnect and do nothing else. One
topic filter stands for all since every operation treats filters one by one.
`Takeover`: three messages and two takeovers, so that a transfer is itself
interrupted. `Router`: one filter suffices for the races (no step touches two
filters); `relations_count` is unbounded in the code when it drifts, `MaxCount`
stops it. `TopicTree` and `Retainer`: paths of up to three levels, a plain
level, a `$` level and both wildcards. `PublishFlow`: `Casts` again: one
subscriber and two retained messages (sets and forwards in both orders, two
loads), an MQTT 5 client with two filters, two members of a group, and a
subscriber beside one whose session is removed; the store's limit is one
message and its batch two, so that eviction and expiry both happen.
`RaftCluster`: `Scenarios` lists what meets: two or three connections on two
nodes, with a clean start, a lost call, a lock that runs out, a repeated
proposal or a second SUBSCRIBE, each with bounds on the clock, on repeats and on
how far a node may be behind; two nodes are enough because a handshake talks to
the leader and to the one node the state names. `BroadcastCluster`:
`Gatherings` puts three connections, of one to three clients, on three nodes; the
publish is one message, as messages do not meet each other here.

`SessionStorage`: `Shapes` lists histories: a takeover with a subscription, keep
alives over two crashes, a DISCONNECT that changes the expiry interval, a clean
start, offline and in-flight messages over two crashes; an interval of two ticks
and a refresh of one make every order of expiry, save and crash possible.
`RetainStore`: two batches at a time of two messages each, two topics and a limit
of one; `KeepScripts` are the calls of `set`: replaced, deleted, mortal and too
large messages in the orders that can disagree; one fault. `MessageStore`: up to
three messages, two clients, alone or as a group, two batches, up to two faults.
`Hooks`: two plugins of different priority, two hook types, two events and one
worker thread, so that a blocked thread is all of them. `Authorize`: two clients,
three rule files (own topic, superuser, one that does not parse), a cache time of
one tick on a clock of two. `WebHook`: three events of three kinds, a reload, two
tries. `Connection5`: keep alives of 0, below the minimum, above the maximum and
in between with the true 65535; milliseconds and u32 are scaled (4 to a second,
width 16) so that one of three messages wraps; one alias on the broker's side with
two topics makes the table full. `Subscriptions`: two sessions, three filters, one
too deep, a limit of one. `HttpApi`: three nodes, one of them asked, an unknown
fourth, four clients of which one moves, limits of two to four. `Bridge`: a shared
entry with two clients, a bridge started twice, two entries. `GrpcMailbox`: three
calls, batches of two, one request at a time, one caller that gives up, one fault.

Deadlock is not checked where the environment may stop (clients owe nothing) or
a bound ends the run.

## 5. Fairness

`Delivery!FairSpec`: the session task, the connection task and the client that
answers are weakly fair: the runtime polls a woken task, and a connected client
acknowledges. Timers that make an entry late are not. `SessionLife`: handshakes
and session tasks, once started, and the timers of the offline loop are weakly
fair; clients may stop at any point. `Bridge`: the manager thread and the tasks
of a client run; the remote broker may refuse or drop a connection only a bounded
number of times. `GrpcMailbox`: the loop and the send tasks run, the service
handles what it got, and a request ends at the latest with its timeout. `MCFair`
states these for the part a behaviour is about.

## 6. Proofs

All constants are arbitrary, under the named assumptions of the modules, which
TLC evaluates in the runs.

* `Inflight_proofs`: what removal, update and insertion keep of a window with
  distinct ids, that the id `next_id` returns is not in the window, and which
  messages a window holds after each.
* `Delivery_proofs`: `DeliveryInvariant`, the inductive invariant. The bound of the
  window is not inductive by itself: an entry in the retry loop's hand is outside
  the window and returns to it, so the invariant says that hand and window together
  fit and that ids stay distinct, and that the queue has one token per message.
  From it `LimitsKept` (`WithinLimits` of the run) and `IdsStayDistinct`.
  `FirstSendsKeepOrder` (`FirstSendsInOrder`) adds `OrderInv`: what has not been
  sent yet rises along limiter, queue and channel and lies above everything sent.
* `DeliveryKept_proofs`: `MessagesKeptOnce`, the property `KeptOnce`. It is proved
  under `NoWrap`, that fewer messages were forwarded than there are packet ids. A
  message that is retried waits in the queues under its old id; once the counter
  has gone round that id may be given to another message, and `push_back` of the
  first then replaces the second in the window. `KeepInv` says which ids and
  messages are in channel, queue, limiter, hand and window (`ApartInv`, `IdInv`),
  that the packets on the wire are of messages the broker holds or that are settled
  (`ReceivedInv`), and that every message is accounted for (`AccountInv`); each
  part needs the others.
* `SessionRegistry_proofs`: `SessionSafe`, the invariant `SafeInv` of lock, registry,
  kicks and session tasks: who holds the lock, which phase of the handshake has
  which session in its hand, and what a session's flags and phase say of each other.
  From it `OrphansWereReplaced` and `WillPublishedOnce`.
* `SessionLife_proofs`: `SessionInvariant` adds who may serve in each phase of a
  handshake and where the subscription is while it moves from one session to the
  next. From it `ClientHasOneSession` and `SubscriptionKeepsRoute`. The latter is
  about behaviours in which no request and no transfer outlived the registration
  of its session (`late`): the relation in the router is kept by client id, so a
  late step of an old session removes or replaces the relation of its successor.
* `Takeover_proofs`: `TakeoverInvariant`: every message is in one of channel, queue,
  limiter, window and the two vectors handed over, or settled; what the window of a
  live connection says was sent; and which of them may have been received. From it
  `TakeoverCarries` (`Carried`) and `TakeoverResendsHonestly` (`ResentHonestly`).
* `Tables_proofs`, on `Router`: `TopicsStayCounted` under any interleaving, since the
  count changes exactly when the set of keys does, under the map's lock;
  `RoutesNeverUndercounted` likewise: every step that adds a relation counts it,
  and the count falls only with a relation; `SerializedConsistent` and
  `SerializedRoutesCounted` are about behaviours without overlapping calls, as
  in the raft cluster where the log applies them one by one; they need the state
  between the steps of the one call that is in progress, described by the
  invariant `SInv`. `RouterKeepsRoutes` puts them together to `RoutesKept`.
  On `ClientLock`: the invariant ties the key in the map to the mutex of the
  one task inside; `LockImplementsMutex` maps `holder` to that task and shows
  that every step is a step or a stutter of `Mutex`; with the keys left behind
  this is `LockPromise` (`LockKeepsPromise`).
* `Edges_proofs`, on `Connection5`: `ConnectionKeepsAgreement`, for every listener,
  packet and message. `TimerTolerates` is the arithmetic of the keep alive (the
  quotient of the back-off is at least the keep alive if the factor is at least one
  half, and the saturating cast keeps it so), `CheckAgrees` that of the expiry check
  (what is divided and multiplied again is no more than before; below the width the
  product does not wrap), `ExpiredStays` carries a verdict through the clock. The
  assumption on the back-off is what `rmqtt.toml` asks for ("> 0.5", 0.75 by
  default); the code does not test it.
  On `GrpcMailbox`: `MailboxPairsReplies`. The promise is about callers; the
  invariant `GmInvariant` is about the batches on their way to them: batch and
  replies have the same length and agree place by place, what the service answered
  it has handled, and removing the first of both keeps this.

Only model-checked: liveness and everything under fairness, results about
recursive operators (`TopicTree`, `RetainTree`), and the modules no `_proofs`
module extends.

## 7. Not modelled

* Transport, settings, logging, macros and program entry: no control worth a
  model. The counter and sys-topic plugins count and publish numbers.
* The handshake executor and the busy state: rates and loads measured by an
  external executor decide whether a handshake is refused; a refusal is modelled
  as possible at any time where it matters.
* Codecs, wording, peak values of counters, and listings that only read.
* In `PublishFlow` hooks and limits have already let the packet pass (`Authorize`
  and `Subscriptions` model them), retained messages do not expire (`Retainer` and
  `RetainStore` do), and there is one node.
* In `RaftCluster` raft is external: proposals reach the nodes in one order and a
  node that restarts gets a snapshot (`Restore`) and the rest of the log;
  elections, the start of the raft node, the forwarding of publishes and the kick
  by an administrator are left out. Calls between nodes in `BroadcastCluster` may
  be delayed or lost, nodes do not restart.
* In `Authorize` rules by IP address, which are evaluated like those by client id,
  and the placeholders of HTTP requests; in `HttpApi` publish and the listing of
  routes; in `GrpcMailbox` the counters that are only reported.

The modules share no variables where the code's parts meet only through calls
(a session and its plugins): each models the calls it gets as possible at any
time, so what it shows holds for whatever the others do.
