---------------------------- MODULE SessionStorage ----------------------------
(***************************************************************************)
(* The rmqtt-session-storage plugin: what a node keeps on disk about the   *)
(* sessions of one client id, and what a restarted node rebuilds from it.  *)
(*                                                                         *)
(* A session id is one connection (`Id` carries its creation time); every  *)
(* id has a map (LAST_TIME, BASIC, SESSION_SUB_MAP, DISCONNECT_INFO,       *)
(* INFLIGHT_MESSAGES) and a list of offline messages in the store.  The    *)
(* session task, the task that saves a new session, the handshake and its  *)
(* state transfer, and the task that empties the store of a dropped        *)
(* session interleave at their store operations, and the node may crash    *)
(* between any two of them.                                                *)
(*                                                                         *)
(* Times are ticks of `clock`, 0 is "absent"; a message is its number, 0   *)
(* is the None that disconnected_set pushes to create the list.            *)
(***************************************************************************)
EXTENDS Naturals, Sequences, SequencesExt, FiniteSets

CONSTANTS
    MaxIds,      \* connections of the client
    Interval,    \* session expiry interval of CONNECT, in ticks
    Refresh,     \* the 60 s after which an operation saves LAST_TIME, in ticks
    QueueLen,    \* max_mqueue_len
    Filters,     \* topic filters
    Shapes       \* what one history may hold: how many connections (ids), ticks
                 \* (time), crashes, subscribe calls (ops) and messages (msgs),
                 \* whether clean starts and keepalives happen (clean, idle), whether
                 \* a session may be replaced before it is saved (race), and the
                 \* expiry intervals a DISCONNECT may leave in force (exps)

ASSUME StorageAssumption ==
    /\ MaxIds \in Nat \ {0} /\ Interval \in Nat \ {0} /\ Refresh \in Nat
    /\ QueueLen \in Nat \ {0}
    /\ \A s \in Shapes : s.ids <= MaxIds /\ s.exps \subseteq Nat

VARIABLES
    shape,    \* the bounds of this history
    clock,    \* the wall clock
    node,     \* "up" | "down" | "loaded": the broker process
    maps,     \* maps[i]: the stored map of session i
    lists,    \* lists[i]: the stored offline message list of session i
    sess,     \* sess[i]: session i in memory
    saver,    \* saver[i]: the task spawned by StorageSessionManager::create
    peer,     \* the registered session id, 0 when there is none
    routes,   \* the filters the router holds for the client
    shake,    \* the handshake under the client's lock: "idle" | "keep" | "clean"
    info,     \* info[i]: the SessionOfflineInfo on its way to session i
    made,     \* connections so far
    spent,    \* [crashes, ops, msgs] used of the bounds
    chosen,   \* the stored session a restart found and kept, 0 when none
    owed,     \* history: what the client's session amounts to
    amiss     \* history: events the store has no defence against

storageVars == <<shape, clock, node, maps, lists, sess, saver, peer, routes, shake, info,
                 made, spent, chosen, owed, amiss>>

\* What bounds a history.
bounds == <<shape, made, spent>>

SIds == 1..MaxIds

\* DisconnectInfo: when, and the expiry interval its Disconnect leaves in force.
NoDisc == [at |-> 0, exp |-> Interval]

NoMap == [last |-> 0, basic |-> 0, subs |-> {}, disc |-> NoDisc,
          inflight |-> {}, ttl |-> 0]

NoList == [items |-> <<>>, ttl |-> 0]

\* A running disconnected_set: its next store operation ("push", "list" or
\* "save"), its interval and when it began.
NoSet == [step |-> "none", exp |-> 0, began |-> 0]

NoSession == [state |-> "none", stored |-> FALSE, subs |-> {}, queue |-> <<>>,
              inflight |-> {}, last |-> 0, since |-> 0, disc |-> NoDisc,
              set |-> NoSet, until |-> 0]

\* What the save task and on_drop still see of a session that was let go.
LetGo(s, state) ==
    [NoSession EXCEPT !.state = state, !.stored = s.stored, !.subs = s.subs,
                      !.since = s.since, !.disc = s.disc]

NoSaver == [pc |-> "done", clear |-> 0]

NoInfo == [from |-> 0, subs |-> {}, queue |-> <<>>, inflight |-> {}]

\* What the client is owed: whether it has a session to come back to, its
\* acknowledged subscriptions, the messages that reached it while it was away
\* and those in flight when it left, until when the session must be there (0:
\* not yet known) and from when it must be over.
NothingOwed == [alive |-> FALSE, subs |-> {}, away |-> <<>>, inflight |-> {},
                until |-> 0, over |-> 0]

StorageInit ==
    /\ shape \in Shapes
    /\ clock = 1
    /\ node = "up"
    /\ maps = [i \in SIds |-> NoMap]
    /\ lists = [i \in SIds |-> NoList]
    /\ sess = [i \in SIds |-> NoSession]
    /\ saver = [i \in SIds |-> NoSaver]
    /\ peer = 0
    /\ routes = {}
    /\ shake = "idle"
    /\ info = [i \in SIds |-> NoInfo]
    /\ made = 0
    /\ spent = [crashes |-> 0, ops |-> 0, msgs |-> 0]
    /\ chosen = 0
    /\ owed = NothingOwed
    /\ amiss = {}

-------------------------------------------------------------------------------
(* Store operations. *)

\* StorageMap::expire: a key that was never written takes no time to live.
Expiring(m, t) == IF m = NoMap THEN m ELSE [m EXCEPT !.ttl = t]

\* push_limit(.., max_mqueue_len, true): the oldest entry makes room.
PushLimit(items, m) ==
    Append(IF Len(items) >= QueueLen THEN Tail(items) ELSE items, m)

\* Sender::send on the deliver queue, whose push takes one message more than
\* its capacity; the messages are QoS 1 or 2, so the earliest makes room.
Queued(queue, m) ==
    Append(IF Len(queue) > QueueLen THEN Tail(queue) ELSE queue, m)

LastTime(m) == IF m.last > m.basic THEN m.last ELSE m.basic

\* mutant: the interval runs from now on
LapsesAt_lastUse(m) == m.disc.exp + clock

\* session_expiry_interval of a stored session: it lapses this long after it
\* was disconnected, or after the last time it is known to have been used.
LapsesAt(m) == m.disc.exp + (IF m.disc.at = 0 THEN LastTime(m) ELSE m.disc.at)

\* mutant: the change is not saved
SaveSubs_lost(i, subs) == maps

\* save_subscriptions, for a session that is stored.
SaveSubs(i, subs) ==
    IF sess[i].stored THEN [maps EXCEPT ![i].subs = subs] ELSE maps

\* mutant: the information is kept in memory only
SaveDisc_lost(i, disc) == maps

\* save_disconnect_info, for a session that is stored.
SaveDisc(i, disc) ==
    IF sess[i].stored THEN [maps EXCEPT ![i].disc = disc] ELSE maps

-------------------------------------------------------------------------------
(* A connection: the kick of the client's present session, the new session, *)
(* the spawned save, and the spawned transfer.                              *)

\* Entry::kick and Session::to_offline_info: the old session leaves the table;
\* unless the client asks for a clean start it is drained, which saves its now
\* empty subscriptions.
StoreKick(clean) ==
    /\ node = "up" /\ shake = "idle" /\ made < shape.ids /\ (clean => shape.clean)
    /\ peer # 0 => sess[peer].state \in {"online", "offline"} /\ sess[peer].set = NoSet
                  /\ (saver[peer] = NoSaver \/ shape.race)
    /\ shake' = IF clean THEN "clean" ELSE "keep"
    /\ owed' = IF clean THEN NothingOwed ELSE owed
    /\ routes' = IF clean THEN {} ELSE routes
    /\ IF peer = 0 THEN UNCHANGED <<sess, maps, info>>
       ELSE LET old == sess[peer]
                next == IF old.state = "offline" THEN "dropped" ELSE "kicked" IN
            IF clean
            THEN /\ sess' = [sess EXCEPT ![peer] = LetGo(old, next)]
                 /\ UNCHANGED <<maps, info>>
            ELSE /\ sess' = [sess EXCEPT ![peer] = [LetGo(old, next) EXCEPT !.subs = {}]]
                 /\ maps' = SaveSubs(peer, {})
                 /\ info' = [info EXCEPT ![made + 1] = [from |-> peer, subs |-> old.subs,
                                queue |-> old.queue, inflight |-> old.inflight]]
    /\ peer' = 0
    /\ UNCHANGED <<bounds, clock, node, lists, saver, chosen, amiss>>

\* Session::new and StorageSessionManager::create: a session that the client
\* keeps is stored, by a task spawned with the id of the one it replaces; a
\* clean one is a plain DefaultSession.
StoreCreate ==
    /\ node = "up" /\ shake # "idle"
    /\ LET i == made + 1
           keep == shake = "keep" IN
         /\ sess' = [sess EXCEPT ![i] = [NoSession EXCEPT !.state = "online",
                        !.stored = keep, !.last = clock, !.since = clock]]
         /\ saver' = IF keep THEN [saver EXCEPT ![i] = [pc |-> "last", clear |-> info[i].from]]
                             ELSE saver
         /\ owed' = IF keep THEN [NothingOwed EXCEPT !.alive = TRUE, !.subs = owed.subs]
                            ELSE owed
         /\ peer' = i
         /\ made' = i
    /\ shake' = "idle"
    /\ UNCHANGED <<shape, spent, clock, node, maps, lists, info, routes, chosen, amiss>>

\* save_to_db: update_last_time(true), save_basic_info, save_subscriptions.  The
\* task holds the inner session, so it may run after the session was dropped.
SaveStep(i) ==
    /\ node = "up"
    /\ \/ /\ saver[i].pc = "last"
          /\ maps' = [maps EXCEPT ![i].last = clock]
          /\ sess' = [sess EXCEPT ![i].last = clock]
          /\ saver' = [saver EXCEPT ![i].pc = "basic"]
       \/ /\ saver[i].pc = "basic"
          /\ maps' = [maps EXCEPT ![i].basic = sess[i].since]
          /\ saver' = [saver EXCEPT ![i].pc = "subs"]
          /\ UNCHANGED sess
       \/ /\ saver[i].pc = "subs"
          /\ maps' = [maps EXCEPT ![i].subs = sess[i].subs]
          /\ saver' = IF saver[i].clear = 0 THEN [saver EXCEPT ![i] = NoSaver]
                                            ELSE [saver EXCEPT ![i].pc = "map"]
          /\ UNCHANGED sess
    /\ amiss' = IF sess[i].state = "online" /\ sess[i].disc = NoDisc THEN amiss
              ELSE amiss \cup {"late save"}
    /\ UNCHANGED <<bounds, clock, node, lists, peer, shake, info, routes, chosen, owed>>

\* "Remove last offline session info from db": the map, then the list.
ClearLast(i) ==
    /\ node = "up"
    /\ \/ /\ saver[i].pc = "map"
          /\ maps' = [maps EXCEPT ![saver[i].clear] = NoMap]
          /\ saver' = [saver EXCEPT ![i].pc = "list"]
          /\ UNCHANGED lists
       \/ /\ saver[i].pc = "list"
          /\ lists' = [lists EXCEPT ![saver[i].clear] = NoList]
          /\ saver' = [saver EXCEPT ![i] = NoSaver]
          /\ UNCHANGED maps
    /\ UNCHANGED <<bounds, clock, node, sess, peer, shake, info, routes, chosen, owed, amiss>>

\* transfer_session_state: subscriptions_extend, then reforward and forward, which
\* pops the last message first.  The task may find its session offline again, or
\* itself replaced.
StoreTransfer(i) ==
    /\ node = "up" /\ info[i] # NoInfo /\ sess[i].state # "none"
    /\ LET subs == sess[i].subs \cup info[i].subs
           msgs == Reverse(info[i].queue) IN
         /\ maps' = SaveSubs(i, subs)
         /\ sess' = [sess EXCEPT ![i].subs = subs,
                        ![i].inflight = @ \cup info[i].inflight,
                        ![i].queue = FoldLeft(Queued, @, msgs)]
         /\ lists' = IF sess[i].state # "offline" THEN lists
                     ELSE [lists EXCEPT ![i].items = FoldLeft(PushLimit, @, msgs)]
    /\ info' = [info EXCEPT ![i] = NoInfo]
    /\ routes' = routes \cup info[i].subs
    /\ amiss' = IF sess[i].state = "online" THEN amiss ELSE amiss \cup {"late transfer"}
    /\ UNCHANGED <<bounds, clock, node, saver, peer, shake, chosen, owed>>

-------------------------------------------------------------------------------
(* An online session. *)

Serving(i) == node = "up" /\ peer = i /\ sess[i].state = "online"

\* subscriptions_add and subscriptions_remove: the change, then the save.
StoreSubscribe(i, f) ==
    /\ Serving(i) /\ spent.ops < shape.ops
    /\ LET subs == IF f \in sess[i].subs THEN sess[i].subs \ {f} ELSE sess[i].subs \cup {f} IN
         /\ sess' = [sess EXCEPT ![i].subs = subs]
         /\ maps' = SaveSubs(i, subs)
         /\ routes' = IF f \in subs THEN routes \cup {f} ELSE routes \ {f}
         /\ owed' = [owed EXCEPT !.subs = IF f \in subs THEN @ \cup {f} ELSE @ \ {f}]
    /\ spent' = [spent EXCEPT !.ops = @ + 1]
    /\ UNCHANGED <<shape, made, clock, node, lists, saver, peer, shake, info, chosen, amiss>>

\* keepalive(true) on a ping; keepalive(false) at every other turn of the loop,
\* saved only when the previous turn is longer ago than a minute.
StoreKeepalive(i, ping) ==
    /\ Serving(i) /\ sess[i].set = NoSet /\ shape.idle /\ sess[i].last # clock
    /\ sess' = [sess EXCEPT ![i].last = clock]
    /\ maps' = IF sess[i].stored /\ (ping \/ clock - sess[i].last > Refresh)
               THEN [maps EXCEPT ![i].last = clock] ELSE maps
    /\ UNCHANGED <<bounds, clock, node, lists, saver, peer, shake, info, routes, chosen, owed, amiss>>

\* Message::Forward: a message of a subscription goes into the deliver queue.
StoreForward(i) ==
    /\ Serving(i) /\ sess[i].set = NoSet /\ routes # {} /\ spent.msgs < shape.msgs
    /\ spent' = [spent EXCEPT !.msgs = @ + 1]
    /\ sess' = [sess EXCEPT ![i].queue = Queued(@, spent.msgs + 1)]
    /\ UNCHANGED <<shape, made, clock, node, maps, lists, saver, peer, shake, info,
                   routes, chosen, owed, amiss>>

\* It is sent to the client, if the window has room, and waits for its
\* acknowledgement, or gets it.
StoreInflight(i) ==
    /\ Serving(i)
    /\ \/ /\ sess[i].set = NoSet /\ sess[i].queue # <<>>
          /\ sess' = [sess EXCEPT ![i].inflight = @ \cup {Head(sess[i].queue)},
                                  ![i].queue = Tail(@)]
       \/ \E m \in sess[i].inflight : sess' = [sess EXCEPT ![i].inflight = @ \ {m}]
    /\ UNCHANGED <<bounds, clock, node, maps, lists, saver, peer, shake, info,
                   routes, chosen, owed, amiss>>

-------------------------------------------------------------------------------
(* The end of a connection, and the offline session. *)

\* disconnected_set begins with the time to live of the map.
BeginSet(i, exp) ==
    maps' = IF sess[i].stored THEN [maps EXCEPT ![i] = Expiring(@, clock + exp)] ELSE maps

\* Message::Disconnect(d) and its disconnected_set(Some(d)), exp being the
\* interval d leaves in force.
StoreDisconnect(i, exp) ==
    /\ Serving(i) /\ sess[i].stored /\ sess[i].disc = NoDisc /\ sess[i].set = NoSet
    /\ BeginSet(i, exp)
    /\ sess' = [sess EXCEPT ![i].set = [step |-> "push", exp |-> exp, began |-> clock]]
    /\ UNCHANGED <<bounds, clock, node, lists, saver, peer, shake, info, routes, chosen, owed, amiss>>

\* The loop ends: disconnected_set(None), with the interval of CONNECT.  A plain
\* DefaultSession has nothing in the store.
StoreClose(i) ==
    /\ node = "up" /\ sess[i].state \in {"online", "kicked"} /\ sess[i].set = NoSet
    /\ BeginSet(i, Interval)
    /\ sess' = [sess EXCEPT
                   ![i].set = [step |-> IF sess[i].stored THEN "push" ELSE "save",
                               exp |-> Interval, began |-> clock],
                   ![i].state = IF @ = "kicked" THEN "kicked off" ELSE "closing"]
    /\ amiss' = IF sess[i].disc.exp > Interval THEN amiss \cup {"short ttl"} ELSE amiss
    /\ UNCHANGED <<bounds, clock, node, lists, saver, peer, shake, info, routes, chosen, owed>>

\* disconnected_set goes on: the None that creates the list, and its time to live.
SetList(i) ==
    /\ node = "up" /\ sess[i].set.step \in {"push", "list"}
    /\ IF sess[i].set.step = "push"
       THEN /\ lists' = [lists EXCEPT ![i].items = Append(@, 0)]
            /\ sess' = [sess EXCEPT ![i].set.step = "list"]
       ELSE /\ lists' = [lists EXCEPT ![i].ttl = clock + sess[i].set.exp]
            /\ sess' = [sess EXCEPT ![i].set.step = "save"]
    /\ UNCHANGED <<bounds, clock, node, maps, saver, peer, shake, info, routes, chosen, owed, amiss>>

\* disconnected_set ends with the inner session, which keeps the time of the
\* disconnection once set, and save_disconnect_info.
SetDisc(i) ==
    /\ node = "up" /\ sess[i].set.step = "save"
    /\ LET s == sess[i]
           disc == [at |-> IF s.disc.at = 0 THEN clock ELSE s.disc.at,
                    exp |-> IF s.state = "online" THEN s.set.exp ELSE s.disc.exp] IN
         /\ sess' = [sess EXCEPT ![i].disc = disc, ![i].set = NoSet]
         /\ maps' = SaveDisc(i, disc)
         /\ owed' = IF peer # i \/ owed.until # 0 THEN owed
                    ELSE [owed EXCEPT !.until = s.set.began + disc.exp, !.over = disc.at + disc.exp]
    /\ UNCHANGED <<bounds, clock, node, lists, saver, peer, shake, info, routes, chosen, amiss>>

\* A kicked session is then let go, one that ends with its connection is
\* cleaned, any other hands its window to the hook that saves it and waits
\* offline; what is left in the deliver queue is in memory only.
StoreCloseEnd(i) ==
    /\ node = "up" /\ sess[i].state \in {"closing", "kicked off"} /\ sess[i].set = NoSet
    /\ LET s == sess[i]
           ends == ~s.stored \/ s.disc.exp = 0 IN
       \/ /\ s.state = "kicked off" \/ ends
          /\ sess' = [sess EXCEPT ![i] = LetGo(s, "dropped")]
          /\ peer' = IF peer = i THEN 0 ELSE peer
          /\ owed' = IF peer = i THEN NothingOwed ELSE owed
          /\ routes' = IF peer = i THEN routes \ s.subs ELSE routes
          /\ UNCHANGED maps
       \/ /\ s.state = "closing" /\ ~ends
          /\ maps' = IF s.inflight = {} THEN maps ELSE [maps EXCEPT ![i].inflight = s.inflight]
          /\ sess' = [sess EXCEPT ![i].state = "offline", ![i].inflight = {},
                                  ![i].until = clock + s.disc.exp]
          /\ owed' = [owed EXCEPT !.inflight = s.inflight]
          /\ UNCHANGED <<peer, routes>>
    /\ UNCHANGED <<bounds, clock, node, lists, saver, shake, info, chosen, amiss>>

\* A message for the offline session: the OfflineMessage hook, then the queue.
StoreOffline(i) ==
    /\ node = "up" /\ sess[i].state = "offline" /\ peer = i
    /\ routes # {} /\ spent.msgs < shape.msgs
    /\ LET m == spent.msgs + 1 IN
         /\ spent' = [spent EXCEPT !.msgs = m]
         /\ lists' = [lists EXCEPT ![i].items = PushLimit(@, m)]
         /\ sess' = [sess EXCEPT ![i].queue = Queued(@, m)]
         /\ owed' = [owed EXCEPT !.away = PushLimit(@, m)]
    /\ UNCHANGED <<shape, made, clock, node, maps, saver, peer, shake, info, routes, chosen, amiss>>

\* The session expires: SessionState::clean.
StoreExpire(i) ==
    /\ node = "up" /\ sess[i].state = "offline" /\ peer = i /\ clock >= sess[i].until
    /\ sess' = [sess EXCEPT ![i] = LetGo(sess[i], "dropped")]
    /\ peer' = 0
    /\ routes' = routes \ sess[i].subs
    /\ owed' = NothingOwed
    /\ UNCHANGED <<bounds, clock, node, maps, lists, saver, shake, info, chosen, amiss>>

\* The last reference is gone: Drop spawns on_drop, and delete_from_db clears
\* the map and then the list.
StoreDrop(i) ==
    /\ node = "up" /\ info[i] = NoInfo
    /\ \/ /\ sess[i].state = "dropped"
          /\ sess' = [sess EXCEPT ![i].subs = {},
                         ![i].state = IF sess[i].stored THEN "dropping" ELSE "gone"]
          /\ maps' = IF sess[i].stored THEN [maps EXCEPT ![i] = NoMap] ELSE maps
          /\ UNCHANGED lists
       \/ /\ sess[i].state = "dropping"
          /\ sess' = [sess EXCEPT ![i].state = "gone"]
          /\ lists' = [lists EXCEPT ![i] = NoList]
          /\ UNCHANGED maps
    /\ UNCHANGED <<bounds, clock, node, saver, peer, shake, info, routes, chosen, owed, amiss>>

-------------------------------------------------------------------------------
(* Time, the store's own expiry, a crash, and the restart. *)

Live(m, none) == IF m.ttl # 0 /\ m.ttl <= clock THEN none ELSE m

StoreTick ==
    /\ clock < shape.time
    /\ clock' = clock + 1
    /\ UNCHANGED <<bounds, node, maps, lists, sess, saver, peer, shake, info, routes, chosen, owed, amiss>>

\* The store drops what has outlived its time to live.
StoreTtl ==
    /\ \E i \in SIds : Live(maps[i], NoMap) # maps[i] \/ Live(lists[i], NoList) # lists[i]
    /\ maps' = [i \in SIds |-> Live(maps[i], NoMap)]
    /\ lists' = [i \in SIds |-> Live(lists[i], NoList)]
    /\ UNCHANGED <<bounds, clock, node, sess, saver, peer, shake, info, routes, chosen, owed, amiss>>

\* What a crash at this moment may cost.
CrashCosts ==
    (IF owed.alive /\ (shake = "keep" \/ \E i \in SIds : info[i] # NoInfo)
       THEN {"mid takeover"} ELSE {})
    \cup (IF \E i \in SIds : saver[i].pc \in {"last", "basic"} THEN {"unsaved"} ELSE {})
    \cup (IF \E i \in SIds : sess[i].state \in {"kicked", "kicked off", "dropped", "dropping"}
          THEN {"undeleted"} ELSE {})
    \cup (IF peer # 0 /\ maps[peer].disc.at = 0 /\ maps[peer].last < sess[peer].last
          THEN {"stale time"} ELSE {})

\* A session that no disconnected_set has completed for lasts for the interval of
\* CONNECT; one whose disconnected_set was cut off may end with its interval.
OwedAtCrash ==
    LET s == sess[peer]
        whole == Interval + s.last
        cut == s.set.began + s.set.exp
    IN  [owed EXCEPT !.over = whole,
                     !.until = IF s.set # NoSet /\ cut < whole THEN cut ELSE whole]

StoreCrash ==
    /\ node # "down" /\ spent.crashes < shape.crashes
    /\ spent' = [spent EXCEPT !.crashes = @ + 1]
    /\ node' = "down"
    /\ amiss' = amiss \cup CrashCosts
    /\ owed' = IF owed.alive /\ owed.until = 0 /\ peer # 0 THEN OwedAtCrash ELSE owed
    /\ sess' = [i \in SIds |-> NoSession]
    /\ saver' = [i \in SIds |-> NoSaver]
    /\ info' = [i \in SIds |-> NoInfo]
    /\ peer' = 0 /\ routes' = {} /\ shake' = "idle" /\ chosen' = 0
    /\ UNCHANGED <<shape, made, clock, maps, lists>>

\* StoredSessionInfos::retain_latests: one of the sessions used last.
Latests(known) == {i \in known : \A j \in known : LastTime(maps[j]) <= LastTime(maps[i])}

\* set_offline_messages: the known sessions whose list holds a message.
WithMessages(known) == {i \in known : ToSet(Live(lists[i], NoList).items) \ {0} # {}}

\* load_offline_session_infos: maps without BASIC go, lists without a message
\* of a known session go, and retain_latests keeps the latest session.
StoreLoad ==
    /\ node = "down"
    /\ node' = "loaded"
    /\ LET known == {i \in SIds : Live(maps[i], NoMap).basic # 0} IN
         /\ chosen' \in IF known = {} THEN {0} ELSE Latests(known)
         /\ maps' = [i \in SIds |-> IF i = chosen' THEN maps[i] ELSE NoMap]
         /\ lists' = [i \in SIds |-> IF i = chosen' /\ i \in WithMessages(known)
                                     THEN lists[i] ELSE NoList]
         /\ amiss' = IF Cardinality(Latests(known)) > 1 THEN amiss \cup {"tie"} ELSE amiss
    /\ UNCHANGED <<bounds, clock, sess, saver, peer, shake, info, routes, owed>>

\* offline_restart: the session waits offline, with what the store had (a list is
\* never longer than the deliver queue), for what is left of its interval.
OfflineRestart(m, items) ==
    [NoSession EXCEPT !.state = "offline", !.stored = TRUE,
        !.subs = m.subs, !.inflight = m.inflight,
        !.queue = SelectSeq(items, LAMBDA x : x # 0),
        !.last = clock, !.since = m.basic, !.until = LapsesAt(m),
        !.disc = [m.disc EXCEPT !.at = IF @ = 0 THEN LastTime(m) ELSE @]]

\* The local runtime restarts a session and registers it; its routes are not
\* added.
RebuildSession(i) ==
    /\ sess' = [sess EXCEPT ![i] = OfflineRestart(maps[i], lists[i].items)]
    /\ peer' = i
    /\ UNCHANGED <<maps, lists, owed>>

\* rebuild_offline_sessions, before the listeners open: a lapsed session is
\* removed, any other rebuilt.
StoreRebuild ==
    /\ node = "loaded"
    /\ node' = "up"
    /\ \/ /\ chosen = 0
          /\ owed' = NothingOwed
          /\ UNCHANGED <<maps, lists, sess, peer>>
       \/ /\ chosen # 0 /\ LapsesAt(maps[chosen]) <= clock
          /\ maps' = [maps EXCEPT ![chosen] = NoMap]
          /\ lists' = [lists EXCEPT ![chosen] = NoList]
          /\ owed' = NothingOwed
          /\ UNCHANGED <<sess, peer>>
       \/ /\ chosen # 0 /\ LapsesAt(maps[chosen]) > clock
          /\ RebuildSession(chosen)
    /\ UNCHANGED <<bounds, clock, saver, shake, info, routes, chosen, amiss>>

StorageNext ==
    \/ \E clean \in BOOLEAN : StoreKick(clean)
    \/ StoreCreate
    \/ \E i \in SIds :
         \/ SaveStep(i) \/ ClearLast(i) \/ StoreTransfer(i)
         \/ \E f \in Filters : StoreSubscribe(i, f)
         \/ \E ping \in BOOLEAN : StoreKeepalive(i, ping)
         \/ StoreForward(i) \/ StoreInflight(i)
         \/ \E exp \in shape.exps : StoreDisconnect(i, exp)
         \/ SetList(i) \/ SetDisc(i)
         \/ StoreClose(i) \/ StoreCloseEnd(i) \/ StoreOffline(i)
         \/ StoreExpire(i) \/ StoreDrop(i)
    \/ StoreTick \/ StoreTtl \/ StoreCrash \/ StoreLoad \/ StoreRebuild

StorageSpec == StorageInit /\ [][StorageNext]_storageVars

-------------------------------------------------------------------------------
Restarts == node = "loaded" /\ node' = "up"

\* What a restart gives back, wherever the crash fell between two operations on
\* the store: the session the client still has (not lapsed) is rebuilt with its
\* acknowledged subscriptions, the messages that reached it while it was away
\* and those in flight when it left.  The crash must not hit a takeover (the old
\* session is drained in the store before the new one is saved), a session whose
\* BASIC is not yet saved, or a LAST_TIME that lags; and the save task must not
\* have outlived its session.
RestoresSession ==
    [][ Restarts /\ owed.alive /\ clock < owed.until
        /\ amiss \cap {"mid takeover", "late transfer", "unsaved", "stale time",
                       "short ttl", "tie", "late save"} = {}
        => /\ peer' # 0
           /\ sess'[peer'].subs = owed.subs
           /\ sess'[peer'].queue = owed.away
           /\ sess'[peer'].inflight = owed.inflight ]_storageVars

\* A restart raises no session that ended or lapsed before the crash, nor gives
\* one a longer life than it had, unless the crash left its keys undeleted or
\* its save task wrote them after they were deleted.  This holds for a crash in
\* the middle of disconnected_set too.
NothingRaised ==
    [][ Restarts /\ peer' # 0 /\ amiss \cap {"late save", "undeleted", "tie"} = {}
        => owed.alive /\ clock < owed.over /\ sess'[peer'].until <= owed.over ]_storageVars
==============================================================================
