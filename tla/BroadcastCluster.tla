--------------------------- MODULE BroadcastCluster ---------------------------
(***************************************************************************)
(* A cluster of rmqtt-cluster-broadcast: nodes keep nothing in common and  *)
(* ask each other.  A handshake locks its own node, kicks the client's     *)
(* session there or, finding none to take over, asks every other node to   *)
(* kick it.  A publish goes to the own subscribers, then to every other    *)
(* node, whose replies carry the members of shared groups; one member of   *)
(* the group is chosen from all of them.  One message is published.  A     *)
(* client is routed to, on a node, while it has a session there.           *)
(***************************************************************************)
EXTENDS Naturals, FiniteSets

CONSTANTS
    Brokers,
    Clients,
    Gatherings,  \* what meets in a behaviour:
                 \*   node, client  of each connection
                 \*   clean         the connections that ask for a clean start
                 \*   group         the clients that are members of the shared group;
                 \*                 the others have a plain subscription
                 \*   publisher     the node the message is published on
                 \*   lossy         calls to other nodes may be lost
    Nobody

VARIABLES
    cast,     \* the gathering
    stage,    \* the handshake and life of each connection
    held,     \* LockEntry: the lock of each client on each node
    entries,  \* DefaultShared.peers: the connection each client has on each node
    asked,    \* the nodes with a Kick of each connection still to come
    pub,      \* the publish: its stage, the nodes with a Forwards still to come, the
              \* shared relations collected, the one chosen
    got,      \* copies each client has been sent
    moved,    \* history: clients whose sessions changed during the publish
    amiss     \* history: what has happened that the code does not defend against

bvars == <<cast, stage, held, entries, asked, pub, got, moved, amiss>>

Links == DOMAIN cast.node
NodeOf(c) == cast.node[c]
ClientOf(c) == cast.client[c]

BroadcastInit ==
    /\ cast \in Gatherings
    /\ stage = [c \in Links |-> "new"]
    /\ held = [n \in Brokers |-> [x \in Clients |-> Nobody]]
    /\ entries = [n \in Brokers |-> [x \in Clients |-> Nobody]]
    /\ asked = [c \in Links |-> {}]
    /\ pub = [stage |-> "idle", asked |-> {}, shareds |-> {}]
    /\ got = [x \in Clients |-> 0]
    /\ moved = {} /\ amiss = {}

Moves(x) == moved' = moved \cup {y \in {x} : pub.stage # "idle"}

-----------------------------------------------------------------------------
(***************************************************************************)
(* The handshake: ClusterLockEntry and, on the other nodes, Message::Kick. *)
(***************************************************************************)
TryLock(c) ==
    LET free == held[NodeOf(c)][ClientOf(c)] = Nobody
    IN  /\ stage[c] = "new"
        /\ stage' = [stage EXCEPT ![c] = IF free THEN "locked" ELSE "refused"]
        /\ held' = IF free THEN [held EXCEPT ![NodeOf(c)][ClientOf(c)] = c] ELSE held
        /\ UNCHANGED <<cast, entries, asked, pub, got, moved, amiss>>

\* LockEntry::kick on node n for connection c; to is c's stage after it.
Kicked(c, n, to) ==
    LET old == entries[n][ClientOf(c)]
    IN  /\ entries' = [entries EXCEPT ![n][ClientOf(c)] = Nobody]
        /\ stage' = [d \in Links |-> IF d = c THEN to ELSE IF d = old THEN "gone" ELSE stage[d]]
        /\ Moves(ClientOf(c))

\* kick returns the offline info of the session it ended, unless the start is clean.
TakesOver(c, n) == entries[n][ClientOf(c)] # Nobody /\ c \notin cast.clean

\* mutant: the other nodes are not asked
KickLocal_only(c) ==
    /\ stage[c] = "locked"
    /\ Kicked(c, NodeOf(c), "ready")
    /\ UNCHANGED <<cast, held, asked, pub, got, amiss>>

\* The own node first; the others when nothing was taken over here.
KickLocal(c) ==
    LET n == NodeOf(c)
    IN  /\ stage[c] = "locked"
        /\ Kicked(c, n, IF TakesOver(c, n) THEN "ready" ELSE "asking")
        /\ asked' = [asked EXCEPT ![c] = IF TakesOver(c, n) THEN {} ELSE Brokers \ {n}]
        /\ UNCHANGED <<cast, held, pub, got, amiss>>

Busy(c, n) == held[n][ClientOf(c)] # Nobody

\* Message::Kick arrives.  select_ok has returned with the first session found, and a
\* Kick already on its way to another node still arrives there.
KickRemote(c, n) ==
    /\ n \in asked[c]
    /\ asked' = [asked EXCEPT ![c] = @ \ {n}]
    /\ IF Busy(c, n)
       THEN /\ amiss' = amiss \cup {"busy"}
            /\ UNCHANGED <<stage, entries, moved>>
       ELSE /\ Kicked(c, n, IF stage[c] = "asking" /\ TakesOver(c, n) THEN "ready" ELSE stage[c])
            /\ amiss' = amiss \cup {w \in {"late"} : stage[c] # "asking"}
    /\ UNCHANGED <<cast, held, pub, got>>

\* A call fails, or is dropped when select_ok returns.
KickCallLost(c, n) ==
    /\ n \in asked[c] /\ (cast.lossy \/ stage[c] # "asking")
    /\ asked' = [asked EXCEPT ![c] = @ \ {n}]
    /\ amiss' = amiss \cup {w \in {"lost"} : entries[n][ClientOf(c)] # Nobody}
    /\ UNCHANGED <<cast, stage, held, entries, pub, got, moved>>

AllAnswered(c) ==
    /\ stage[c] = "asking" /\ asked[c] = {}
    /\ stage' = [stage EXCEPT ![c] = "ready"]
    /\ UNCHANGED <<cast, held, entries, asked, pub, got, moved, amiss>>

\* Another handshake of the client has already looked for a session on c's node.
Crossed(c) ==
    \E d \in Links \ {c} :
        /\ ClientOf(d) = ClientOf(c)
        /\ stage[d] = "ready" \/ (stage[d] = "asking" /\ NodeOf(c) \notin asked[d])

\* Entry::set; the lock is dropped with the handshake.
Register(c) ==
    /\ stage[c] = "ready"
    /\ stage' = [stage EXCEPT ![c] = "online"]
    /\ entries' = [entries EXCEPT ![NodeOf(c)][ClientOf(c)] = c]
    /\ held' = [held EXCEPT ![NodeOf(c)][ClientOf(c)] = Nobody]
    /\ Moves(ClientOf(c))
    /\ amiss' = amiss \cup {w \in {"crossed"} : Crossed(c)}
    /\ UNCHANGED <<cast, asked, pub, got>>

GoOffline(c) ==
    /\ stage[c] = "online"
    /\ stage' = [stage EXCEPT ![c] = "offline"]
    /\ Moves(ClientOf(c))
    /\ UNCHANGED <<cast, held, entries, asked, pub, got, amiss>>

\* The session's task is over; its entry is removed after that.
EndTask(c) ==
    /\ stage[c] = "offline"
    /\ stage' = [stage EXCEPT ![c] = "ended"]
    /\ Moves(ClientOf(c))
    /\ UNCHANGED <<cast, held, entries, asked, pub, got, amiss>>

RemoveEntry(c) ==
    LET n == NodeOf(c)
        x == ClientOf(c)
    IN  /\ stage[c] = "ended"
        /\ stage' = [stage EXCEPT ![c] = "gone"]
        /\ entries' = IF entries[n][x] = c THEN [entries EXCEPT ![n][x] = Nobody] ELSE entries
        /\ Moves(x)
        /\ UNCHANGED <<cast, held, asked, pub, got, amiss>>

-----------------------------------------------------------------------------
(***************************************************************************)
(* A publish: ClusterShared::forwards, and Message::Forwards and           *)
(* Message::ForwardsTo on the other nodes.                                 *)
(***************************************************************************)
RoutedOn(n) == {x \in Clients : entries[n][x] # Nobody}
Plain(n) == RoutedOn(n) \ cast.group
Reachable(n) == {x \in RoutedOn(n) : stage[entries[n][x]] # "ended"}

\* mutant: the first member that comes along is taken
Preferred_any(rels) == rels
\* choice: an online member, or any when none is.
Preferred(rels) ==
    IF \E r \in rels : r.online THEN {r \in rels : r.online} ELSE rels

\* matches on node n leaves one member of the group.
SharedOn(n) ==
    LET rels == {[node |-> n, client |-> x, online |-> stage[entries[n][x]] = "online"] :
                    x \in RoutedOn(n) \cap cast.group}
    IN  IF rels = {} THEN {{}} ELSE {{r} : r \in Preferred(rels)}

Sent(xs) == got' = [x \in Clients |-> IF x \in xs THEN got[x] + 1 ELSE got[x]]

\* mutant: the own node is among those that are asked
Forwards_self ==
    LET p == cast.publisher
    IN  /\ pub.stage = "idle"
        /\ Sent(Plain(p) \cap Reachable(p))
        /\ \E rels \in SharedOn(p) :
              pub' = [stage |-> "asking", asked |-> Brokers, shareds |-> rels]
        /\ UNCHANGED <<cast, stage, held, entries, asked, moved, amiss>>

\* The subscribers of this node, then Message::Forwards to every other.
Forwards ==
    LET p == cast.publisher
    IN  /\ pub.stage = "idle"
        /\ Sent(Plain(p) \cap Reachable(p))
        /\ \E rels \in SharedOn(p) :
              pub' = [stage |-> "asking", asked |-> Brokers \ {p}, shareds |-> rels]
        /\ UNCHANGED <<cast, stage, held, entries, asked, moved, amiss>>

\* forwards_and_get_shareds: a subscriber that cannot be sent to costs the node's
\* shared relations.
ForwardsAt(n) ==
    LET failed == Plain(n) \ Reachable(n)
    IN  /\ n \in pub.asked
        /\ Sent(Plain(n) \cap Reachable(n))
        /\ \E rels \in SharedOn(n) :
              pub' = [pub EXCEPT !.asked = @ \ {n},
                                 !.shareds = IF failed = {} THEN @ \cup rels ELSE @]
        /\ amiss' = amiss \cup {w \in {"failed"} : failed # {}}
        /\ UNCHANGED <<cast, stage, held, entries, asked, moved>>

ForwardsLost(n) ==
    /\ n \in pub.asked /\ cast.lossy
    /\ pub' = [pub EXCEPT !.asked = @ \ {n}]
    /\ amiss' = amiss \cup {"unanswered"}
    /\ UNCHANGED <<cast, stage, held, entries, asked, got, moved>>

\* One member from all the nodes' replies: sent to here, or with ForwardsTo.
ChooseShared ==
    /\ pub.stage = "asking" /\ pub.asked = {}
    /\ \/ /\ pub.shareds = {}
          /\ pub' = [pub EXCEPT !.stage = "done"]
          /\ UNCHANGED got
       \/ \E r \in Preferred(pub.shareds) :
             IF r.node = cast.publisher
             THEN /\ pub' = [pub EXCEPT !.stage = "done", !.shareds = {r}]
                  /\ Sent({r.client} \cap Reachable(r.node))
             ELSE /\ pub' = [pub EXCEPT !.stage = "sending", !.shareds = {r}]
                  /\ UNCHANGED got
    /\ UNCHANGED <<cast, stage, held, entries, asked, moved, amiss>>

ForwardsTo ==
    /\ pub.stage = "sending"
    /\ pub' = [pub EXCEPT !.stage = "done"]
    /\ Sent({r.client : r \in {s \in pub.shareds : s.client \in Reachable(s.node)}})
    /\ UNCHANGED <<cast, stage, held, entries, asked, moved, amiss>>

ForwardsToLost ==
    /\ pub.stage = "sending" /\ cast.lossy
    /\ pub' = [pub EXCEPT !.stage = "done"]
    /\ amiss' = amiss \cup {"unanswered"}
    /\ UNCHANGED <<cast, stage, held, entries, asked, got, moved>>

BroadcastNext ==
    \/ \E c \in Links :
          \/ TryLock(c) \/ KickLocal(c) \/ AllAnswered(c) \/ Register(c)
          \/ GoOffline(c) \/ EndTask(c) \/ RemoveEntry(c)
          \/ \E n \in asked[c] : KickRemote(c, n) \/ KickCallLost(c, n)
    \/ Forwards \/ ChooseShared \/ ForwardsTo \/ ForwardsToLost
    \/ \E n \in pub.asked : ForwardsAt(n) \/ ForwardsLost(n)

BroadcastSpec == BroadcastInit /\ [][BroadcastNext]_bvars

-----------------------------------------------------------------------------
\* ClusterLockEntry::kick: a client has at most one session in the cluster, whatever
\* nodes its connections go to, unless two handshakes crossed or a Kick was lost or
\* refused.
OneSessionAcross ==
    amiss \cap {"busy", "lost", "crossed"} = {} => \A x \in Clients :
        Cardinality({c \in Links : ClientOf(c) = x /\ stage[c] \in {"online", "offline"}}) <= 1

\* ClusterShared::forwards: once the publish is over, a client with a plain
\* subscription whose sessions stayed as they were has been sent one copy for each of
\* them, here or on another node, unless a call to another node failed.
ForwardedOnce ==
    (pub.stage = "done" /\ "unanswered" \notin amiss) =>
        \A x \in Clients \ (cast.group \cup moved) :
            got[x] = Cardinality({n \in Brokers : x \in Reachable(n)})

\* The choice in ClusterShared::forwards: the group's members together are never sent
\* more than one copy; and when their sessions stayed as they were and one of them is
\* online, an online one has been sent it, unless a node's reply failed.
GroupServedOnce ==
    LET served == {x \in cast.group : got[x] > 0}
        online == {x \in cast.group : \E n \in Brokers :
                      x \in RoutedOn(n) /\ stage[entries[n][x]] = "online"}
    IN  /\ Cardinality(served) <= 1 /\ \A x \in served : got[x] = 1
        /\ (/\ pub.stage = "done" /\ amiss \cap {"unanswered", "failed"} = {}
            /\ cast.group \cap moved = {} /\ online # {}) => served \cap online # {}

\* Across the nodes a client is served as on one: by one session, with one copy of a
\* publish, and a shared group with one copy in all.
ServedAsOne == OneSessionAcross /\ ForwardedOnce /\ GroupServedOnce
=============================================================================
