----------------------------- MODULE RaftCluster -----------------------------
(***************************************************************************)
(* The connections of one client id in a cluster of rmqtt-cluster-raft.    *)
(* A handshake takes a lock in the replicated client state, kicks the      *)
(* session on the node that state names, records itself there and only     *)
(* then registers on its own node; every node applies the committed        *)
(* proposals with its own clock.  Raft itself is external: proposals reach *)
(* every node in one order, and the leader's apply gives the reply.        *)
(* One topic filter stands for the subscriptions of a session.             *)
(***************************************************************************)
EXTENDS Naturals, Sequences, FiniteSets

CONSTANTS
    Nodes, Leader,
    LockTimeout,  \* try_lock_timeout, in ticks
    Scenarios,    \* what meets in a behaviour, and its bounds:
                  \*   node        where each connection goes; they are numbered in the
                  \*               order of their create_time
                  \*   clean       the connections that ask for a clean start
                  \*   unlucky     those whose proposals, and calls to another node, may fail
                  \*   time        bound on the clock
                  \*   resends     bound on proposals sent again after a lost reply
                  \*   subscribes  bound on SUBSCRIBE packets
                  \*   lag         bound on how far a node is behind
    None

VARIABLES
    scene,      \* the scenario
    unapplied,  \* the committed proposals each node has yet to apply
    states,     \* client_states of each node: the status of the client
    routes,     \* the relation of the filter on each node
    now,        \* the clock
    pc,         \* the handshake and the life of each connection
    prev,       \* prev_node_id, as the connection it belongs to
    reply,      \* the reply to each connection's proposal, once there is one
    locks,      \* LockEntry: the local lock of each node
    peers,      \* DefaultShared.peers of each node
    subs,       \* connections whose session has the subscription
    carry,      \* connections whose kick returned an offline info with it
    outbox,     \* proposals of spawned tasks not yet committed
    sent,       \* counters: proposals sent again, SUBSCRIBE packets
    upset       \* history: what has happened that the code does not defend against

vars == <<scene, unapplied, states, routes, now, pc, prev, reply, locks, peers, subs, carry,
          outbox, sent, upset>>

Conns == DOMAIN scene.node
Op(op, c) == [op |-> op, c |-> c]
Ok(p) == <<p>>
Refusal == <<None, None>>
Waiting == << >>

RaftInit ==
    /\ scene \in Scenarios
    /\ unapplied = [n \in Nodes |-> << >>]
    /\ states = [n \in Nodes |-> None]
    /\ routes = [n \in Nodes |-> None]
    /\ now = 0
    /\ pc = [c \in Conns |-> "new"]
    /\ prev = [c \in Conns |-> None]
    /\ reply = [c \in Conns |-> Waiting]
    /\ locks = [n \in Nodes |-> None]
    /\ peers = [n \in Nodes |-> None]
    /\ subs = {} /\ carry = {} /\ outbox = {}
    /\ sent = [again |-> 0, subscribe |-> 0]
    /\ upset = {}

Committed(m) ==
    /\ \A n \in Nodes : Len(unapplied[n]) < scene.lag
    /\ unapplied' = [n \in Nodes |-> Append(unapplied[n], m)]

-----------------------------------------------------------------------------
(***************************************************************************)
(* ClusterRouter as the Store of raft: apply, and snapshot with restore.   *)
(***************************************************************************)
ClientStatus(c, online, handshaking) ==
    [id |-> c, online |-> online, handshaking |-> handshaking, at |-> now]

\* handshaking(try_lock_timeout): a lock is void once it is older than that.
Locked(s) == s # None /\ s.handshaking /\ now < s.at + LockTimeout

\* mutant: a late report is taken for the current session
Names_any(s, c) == s # None
Names(s, c) == s # None /\ s.id = c

\* The lock was taken over by a younger connection.
Outdated(s, c) == s # None /\ s.id # c /\ c < s.id

StatusAfter(s, m) ==
    CASE m.op = "TryLock" -> IF Locked(s) THEN s ELSE ClientStatus(m.c, FALSE, TRUE)
      [] m.op = "Connected" ->
           IF s = None THEN ClientStatus(m.c, TRUE, FALSE)
           ELSE IF Outdated(s, m.c) THEN s
           ELSE [s EXCEPT !.id = m.c, !.online = TRUE, !.handshaking = FALSE]
      [] m.op = "Disconnected" -> IF Names(s, m.c) THEN [s EXCEPT !.online = FALSE] ELSE s
      [] m.op = "Terminated" -> IF Names(s, m.c) THEN None ELSE s
      [] OTHER -> s

\* mutant: the removal does not look at the id
RouteAfter_blind(r, m) ==
    CASE m.op = "Add" -> m.c [] m.op = "Remove" -> None [] OTHER -> r
RouteAfter(r, m) ==
    CASE m.op = "Add" -> m.c
      [] m.op = "Remove" -> IF r = m.c THEN None ELSE r
      [] OTHER -> r

ReplyTo(s, m) ==
    IF m.op = "TryLock"
    THEN IF Locked(s) THEN Refusal ELSE Ok(IF s = None THEN None ELSE s.id)
    ELSE IF Outdated(s, m.c) THEN Refusal ELSE Ok(None)

\* A lock is granted after its timeout, or between the holder's Connected being
\* applied and its session being registered.
Overtakes(n, m) ==
    /\ m.op = "TryLock" /\ ~Locked(states[n])
    /\ states[n] # None /\ states[n].handshaking
SlipsIn(n, m) ==
    /\ m.op = "TryLock" /\ ~Locked(states[n])
    /\ n = Leader /\ \E c \in Conns : pc[c] = "connecting" /\ reply[c] # Waiting

Apply(n) ==
    LET m == Head(unapplied[n])
        s == states[n]
    IN  /\ unapplied[n] # << >>
        /\ unapplied' = [unapplied EXCEPT ![n] = Tail(@)]
        /\ states' = [states EXCEPT ![n] = StatusAfter(s, m)]
        /\ routes' = [routes EXCEPT ![n] = RouteAfter(@, m)]
        /\ reply' = IF n = Leader /\ m.op \in {"TryLock", "Connected"}
                    THEN [reply EXCEPT ![m.c] = ReplyTo(s, m)] ELSE reply
        /\ upset' = upset \cup {w \in {"timeout"} : Overtakes(n, m)}
                          \cup {w \in {"gap"} : SlipsIn(n, m)}
        /\ UNCHANGED <<now, pc, prev, locks, peers, subs, carry, outbox, sent>>

\* mutant: the client states are not in the snapshot
Restore_routesOnly(n) ==
    /\ Len(unapplied[n]) > Len(unapplied[Leader])
    /\ unapplied' = [unapplied EXCEPT ![n] = unapplied[Leader]]
    /\ routes' = [routes EXCEPT ![n] = routes[Leader]]
    /\ UNCHANGED <<states, now, pc, prev, reply, locks, peers, subs, carry, outbox, sent, upset>>

\* A node that lags behind is given the leader's snapshot.
Restore(n) ==
    /\ Len(unapplied[n]) > Len(unapplied[Leader])
    /\ unapplied' = [unapplied EXCEPT ![n] = unapplied[Leader]]
    /\ states' = [states EXCEPT ![n] = states[Leader]]
    /\ routes' = [routes EXCEPT ![n] = routes[Leader]]
    /\ UNCHANGED <<now, pc, prev, reply, locks, peers, subs, carry, outbox, sent, upset>>

Tick ==
    /\ now < scene.time
    /\ now' = now + 1
    /\ UNCHANGED <<unapplied, states, routes, pc, prev, reply, locks, peers, subs, carry, outbox,
                   sent, upset>>

-----------------------------------------------------------------------------
(***************************************************************************)
(* The handshake: ClusterLockEntry's try_lock, kick and set.               *)
(***************************************************************************)
\* transfer_session_state is still adding the routes of what c took over.
Transferring(c) == Op("Add", c) \in outbox

Propose(c, op, at) ==
    /\ Committed(Op(op, c))
    /\ reply' = [reply EXCEPT ![c] = Waiting]
    /\ pc' = [pc EXCEPT ![c] = at]
    /\ UNCHANGED <<states, routes, now, prev, locks, peers, subs, carry, outbox, sent, upset>>

AskLock(c) == pc[c] = "new" /\ Propose(c, "TryLock", "asked")

\* With the replicated lock granted the node's own lock is tried.
GotLock(c) ==
    LET n == scene.node[c]
        ok == reply[c] # Refusal /\ locks[n] = None
    IN  /\ pc[c] = "asked" /\ reply[c] # Waiting
        /\ prev' = [prev EXCEPT ![c] = reply[c][1]]
        /\ locks' = IF ok THEN [locks EXCEPT ![n] = c] ELSE locks
        /\ pc' = [pc EXCEPT ![c] = IF ok THEN "locked" ELSE "refused"]
        /\ UNCHANGED <<unapplied, states, routes, now, reply, peers, subs, carry, outbox, sent, upset>>

\* mutant: the own node is where the session is looked for
PrevNode_own(c) == scene.node[c]
PrevNode(c) == IF prev[c] = None THEN scene.node[c] ELSE scene.node[prev[c]]

\* A proposal of the handshake fails, be it committed or not, or the node to kick
\* from has no gRPC client: the handshake is refused and the local lock dropped, but
\* what is committed stays, and what was kicked is gone.
HandshakeFails(c) ==
    LET n == scene.node[c]
    IN  /\ c \in scene.unlucky /\ pc[c] \in {"asked", "locked", "kicked", "connecting"}
        /\ pc[c] = "locked" => PrevNode(c) # n
        /\ pc' = [pc EXCEPT ![c] = "refused"]
        /\ locks' = IF locks[n] = c THEN [locks EXCEPT ![n] = None] ELSE locks
        /\ carry' = carry \ {c}
        /\ upset' = upset \cup {IF pc[c] \in {"asked", "locked"} THEN "reply" ELSE "set"}
        /\ UNCHANGED <<unapplied, states, routes, now, prev, reply, peers, subs, outbox, sent>>

\* Kicked from another node, a session's routes are always removed: Message::Kick
\* goes out with clear_subscriptions set.
Clears(c) == c \in scene.clean \/ PrevNode(c) # scene.node[c]

\* LockEntry::kick on the previous node.  The subscription comes back with the reply.
Kick(c) ==
    LET n == PrevNode(c)
        old == peers[n]
    IN  /\ pc[c] = "locked"
        /\ IF old = None
           THEN /\ pc' = [pc EXCEPT ![c] = "kicked"]
                /\ UNCHANGED <<peers, subs, carry, outbox>>
           ELSE /\ pc' = [pc EXCEPT ![c] = "kicked", ![old] = "gone"]
                /\ peers' = [peers EXCEPT ![n] = None]
                /\ subs' = subs \ {old}
                /\ carry' = carry \cup {d \in {c} : old \in subs /\ c \notin scene.clean}
                /\ outbox' = outbox \cup {Op("Remove", d) : d \in {x \in {old} \cap subs : Clears(c)}}
                                    \cup {Op("Terminated", d) : d \in {x \in {old} : c \in scene.clean}}
        /\ upset' = upset \cup {w \in {"overlap"} : old # None /\ Transferring(old)}
        /\ UNCHANGED <<unapplied, states, routes, now, prev, reply, locks, sent>>

\* The call to the other node fails: it is logged, and the handshake goes on.
KickLost(c) ==
    /\ pc[c] = "locked" /\ c \in scene.unlucky /\ PrevNode(c) # scene.node[c]
    /\ pc' = [pc EXCEPT ![c] = "kicked"]
    /\ upset' = upset \cup {"kick"}
    /\ UNCHANGED <<unapplied, states, routes, now, prev, reply, locks, peers, subs, carry, outbox,
                   sent>>

AskConnected(c) == pc[c] = "kicked" /\ Propose(c, "Connected", "connecting")

\* The session is registered and the lock dropped; a task adds the routes of the
\* subscriptions the session took over.
GotConnected(c) ==
    LET n == scene.node[c]
    IN  /\ pc[c] = "connecting" /\ reply[c] # Waiting
        /\ locks' = [locks EXCEPT ![n] = None]
        /\ IF reply[c] = Refusal
           THEN /\ pc' = [pc EXCEPT ![c] = "refused"]
                /\ UNCHANGED <<peers, outbox>>
           ELSE /\ pc' = [pc EXCEPT ![c] = "online"]
                /\ peers' = [peers EXCEPT ![n] = c]
                /\ outbox' = outbox \cup {Op("Add", d) : d \in {c} \cap carry}
        /\ carry' = carry \ {c}
        /\ upset' = upset \cup {w \in {"ending"} : peers[n] # None}
        /\ UNCHANGED <<unapplied, states, routes, now, prev, reply, subs, sent>>

-----------------------------------------------------------------------------
(***************************************************************************)
(* The session, and the hooks that report it.                              *)
(***************************************************************************)
\* Router::add waits for its proposal; a removal of the same route that is still
\* on its way would undo it.
Subscribe(c) ==
    /\ pc[c] = "online" /\ c \notin subs /\ sent.subscribe < scene.subscribes
    /\ Committed(Op("Add", c))
    /\ subs' = subs \cup {c}
    /\ sent' = [sent EXCEPT !.subscribe = @ + 1]
    /\ upset' = upset \cup {w \in {"overlap"} : Transferring(c) \/ Op("Remove", c) \in outbox}
    /\ UNCHANGED <<states, routes, now, pc, prev, reply, locks, peers, carry, outbox>>

\* The proposal fails, be it committed or not: the filter is refused, and not among
\* the session's subscriptions, though its route may be there.
SubscribeFails(c) ==
    /\ pc[c] = "online" /\ c \notin subs /\ sent.subscribe < scene.subscribes
    /\ c \in scene.unlucky
    /\ Committed(Op("Add", c)) \/ UNCHANGED unapplied
    /\ sent' = [sent EXCEPT !.subscribe = @ + 1]
    /\ upset' = upset \cup {"stale"}
    /\ UNCHANGED <<states, routes, now, pc, prev, reply, locks, peers, subs, carry, outbox>>

\* Router::remove returns at once and sends its proposal from a task.
Unsubscribe(c) ==
    /\ pc[c] = "online" /\ (c \in subs \/ Transferring(c))
    /\ subs' = subs \ {c}
    /\ outbox' = outbox \cup {Op("Remove", c)}
    /\ upset' = upset \cup {w \in {"overlap"} : Transferring(c)}
    /\ UNCHANGED <<unapplied, states, routes, now, pc, prev, reply, locks, peers, carry, sent>>

Disconnect(c) ==
    /\ pc[c] = "online"
    /\ pc' = [pc EXCEPT ![c] = "offline"]
    /\ outbox' = outbox \cup {Op("Disconnected", c)}
    /\ UNCHANGED <<unapplied, states, routes, now, prev, reply, locks, peers, subs, carry, sent, upset>>

\* SessionState::clean: the end is reported, then the session removed if it is
\* still the one registered.
Terminate(c) ==
    /\ pc[c] = "offline"
    /\ pc' = [pc EXCEPT ![c] = "ending"]
    /\ outbox' = outbox \cup {Op("Terminated", c)}
    /\ UNCHANGED <<unapplied, states, routes, now, prev, reply, locks, peers, subs, carry, sent, upset>>

Remove(c) ==
    LET n == scene.node[c]
    IN  /\ pc[c] = "ending"
        /\ pc' = [pc EXCEPT ![c] = "gone"]
        /\ subs' = subs \ {c}
        /\ IF peers[n] = c
           THEN /\ peers' = [peers EXCEPT ![n] = None]
                /\ outbox' = outbox \cup {Op("Remove", d) : d \in {c} \cap subs}
           ELSE UNCHANGED <<peers, outbox>>
        /\ upset' = upset \cup {w \in {"overlap"} : Transferring(c)}
        /\ UNCHANGED <<unapplied, states, routes, now, prev, reply, locks, carry, sent>>

\* The proposal of a spawned task is committed, whenever the task gets to it.  A
\* transferred subscription joins the session's own with its route.
Commit(m) ==
    /\ Committed(m)
    /\ outbox' = outbox \ {m}
    /\ subs' = subs \cup {c \in {m.c} : m.op = "Add"}
    /\ UNCHANGED <<states, routes, now, pc, prev, reply, locks, peers, carry, sent, upset>>

\* ... and its result lost: retry sends it again.
CommitAgain(m) ==
    /\ m.op # "Add" /\ sent.again < scene.resends
    /\ Committed(m)
    /\ sent' = [sent EXCEPT !.again = @ + 1]
    /\ UNCHANGED <<states, routes, now, pc, prev, reply, locks, peers, subs, carry, outbox, upset>>

\* The task gives up: a removal or a report after the last of its retries, the route
\* of a transferred subscription at once (it is the session's all the same).
GiveUp(m) ==
    /\ m.c \in scene.unlucky
    /\ outbox' = outbox \ {m}
    /\ subs' = subs \cup {c \in {m.c} : m.op = "Add"}
    /\ upset' = upset \cup {CASE m.op = "Add" -> "unrouted"
                             [] m.op = "Remove" -> "stale"
                             [] OTHER -> "status"}
    /\ UNCHANGED <<unapplied, states, routes, now, pc, prev, reply, locks, peers, carry, sent>>

Handshake(c) ==
    \/ AskLock(c) \/ HandshakeFails(c) \/ GotLock(c) \/ Kick(c) \/ KickLost(c)
    \/ AskConnected(c) \/ GotConnected(c)

Life(c) ==
    \/ Subscribe(c) \/ SubscribeFails(c) \/ Unsubscribe(c) \/ Disconnect(c) \/ Terminate(c) \/ Remove(c)

RaftNext ==
    /\ \/ \E n \in Nodes : Apply(n) \/ Restore(n)
       \/ \E c \in Conns : Handshake(c) \/ Life(c)
       \/ \E m \in outbox : Commit(m) \/ CommitAgain(m) \/ GiveUp(m)
       \/ Tick
    /\ UNCHANGED scene

RaftSpec == RaftInit /\ [][RaftNext]_vars

-----------------------------------------------------------------------------
Sessions == {c \in Conns : pc[c] \in {"online", "offline"}}
Quiet ==
    /\ outbox = {} /\ \A n \in Nodes : unapplied[n] = << >>
    /\ \A c \in Conns : pc[c] \in {"new", "refused", "online", "offline", "gone"}

\* ClusterLockEntry: at most one session of the client is alive in the cluster,
\* wherever its connections go and whatever order their proposals are applied in,
\* and whichever of them fail, unless a kick was lost, or a lock granted after its
\* timeout or in the gap.
OneClusterSession ==
    upset \cap {"kick", "timeout", "gap"} = {} => Cardinality(Sessions) <= 1

\* ClusterRouter.client_states: with nothing on its way every node knows the
\* session and whether it is online, and knows no session when there is none,
\* unless the lock was upset, a handshake failed or a report was given up.
StatusFollows ==
    (Quiet /\ upset \subseteq {"overlap", "ending", "stale", "unrouted"}) => \A n \in Nodes :
        IF Sessions = {} THEN states[n] = None
        ELSE /\ states[n] # None /\ states[n].id \in Sessions
             /\ states[n].online <=> pc[states[n].id] = "online"

\* ClusterRouter add and remove: with nothing on its way every node routes the
\* filter to the session that is subscribed to it, unless a session was changed
\* while its routes were on their way, or ended while two more came and went, or
\* the route of a transferred subscription failed; and to nobody when no session is
\* subscribed, unless also a handshake or a SUBSCRIBE failed, or a removal was given
\* up, each of which leaves a route to nobody.
RouteFollows ==
    /\ (Quiet /\ upset \subseteq {"reply", "status", "set", "stale"} /\ subs # {}) =>
         \A n \in Nodes : routes[n] \in subs
    /\ (Quiet /\ upset \subseteq {"reply", "status"} /\ subs = {}) =>
         \A n \in Nodes : routes[n] = None

\* Store::apply and restore: nodes that have applied the same proposals have the
\* same routes, and, while no lock was granted after its timeout, name the same
\* session.
View(s) == IF s = None THEN None ELSE <<s.id, s.online, s.handshaking>>
ReplicasAgree ==
    \A m, n \in Nodes : Len(unapplied[m]) = Len(unapplied[n]) =>
        /\ routes[m] = routes[n]
        /\ "timeout" \in upset \/ View(states[m]) = View(states[n])

\* What every node's tables say of the client comes true again once nothing is on its
\* way: its session, whether it is online, and who its publishes are routed to.
TablesFollow == StatusFollows /\ RouteFollows
=============================================================================
