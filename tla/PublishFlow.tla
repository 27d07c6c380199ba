----------------------------- MODULE PublishFlow -----------------------------
(***************************************************************************)
(* One topic from PUBLISH to the subscribers' channels: the publisher's    *)
(* Session::forwards (retain, match, forward, store), a subscriber's       *)
(* Session::_subscribe (route, retained message, stored messages) and the  *)
(* RAM message store with its worker tasks and its cleanup loop.  All      *)
(* filters in Filters match the topic; which topics match which filters    *)
(* is TopicTree's and Retainer's business, how a route is kept is Router's.*)
(***************************************************************************)
EXTENDS Integers, FiniteSets, FiniteSetsExt, Functions

CONSTANTS
    Msgs,           \* the PUBLISHes, each with its msg_id
    Clients,        \* the subscribing sessions
    Filters,        \* topic filters that match the topic
    Subs,           \* <<filter, client>>: the SUBSCRIBEs that are made
    GroupOf,        \* the shared group of each, or NoGroup
    V5,             \* clients that speak MQTT 5
    NewOnly,        \* clients whose retain handling is AtSubscribeNew
    NoLocal,        \* subscriptions with the no_local option
    Publisher,      \* who publishes each message
    Retained,       \* messages published with the retain flag
    Encode,         \* storage.ram.encode
    CacheMaxCount,  \* storage.ram.cache_max_count
    MaxLimit,       \* cleanup_count
    MaxSubscribes,  \* bound: the SUBSCRIBEs of each client
    Mortal,         \* bound: the messages that may expire
    Leavers,        \* clients that may unsubscribe, drop or be terminated
    Casts,          \* bound: the clients and messages that may meet
    NoGroup, NoMsg

VARIABLES
    cast,       \* the clients and messages of this behaviour
    relations,  \* DefaultRouter.relations
    peers,      \* DefaultShared.peers: sessions that have a tx
    online,     \* sessions whose connected flag is set
    retained,   \* the topic's retained message
    pub,        \* the forwards() call of each message
    sub,        \* the _subscribe() call of each client
    messages, tree, expiries, forwardeds,   \* RamMessageManagerInner
    expired,    \* messages whose expiry_time_at has passed
    sweep,      \* remove_expired_messages
    got         \* history: copies sent to each client's tx, by origin

route == <<relations, peers, online>>
store == <<messages, tree, expiries, forwardeds>>
vars == <<cast, route, retained, pub, sub, store, expired, sweep, got>>

NoCids == << >>
None == [g |-> NoGroup]
Tag(f, g) == [f |-> f, g |-> g]
Tags == {None} \cup {Tag(f, g) : f \in Filters, g \in Range(GroupOf)}

Idle == [pc |-> "idle", f |-> "", excludeds |-> {}, todo |-> {}, cur |-> NoMsg,
         found |-> {}, settled |-> {}, made |-> 0]

Init ==
    /\ cast \in Casts
    /\ relations = {} /\ peers = Clients /\ online = Clients
    /\ retained = NoMsg
    /\ pub = [m \in Msgs |-> [pc |-> "new", todo |-> {}, rels |-> {},
                              cids |-> NoCids, stable |-> {}, fit |-> {}]]
    /\ sub = [c \in Clients |-> Idle]
    /\ messages = {} /\ tree = {} /\ expiries = {} /\ forwardeds = << >>
    /\ expired = {}
    /\ sweep = [pc |-> "idle", todo |-> {}, cur |-> NoMsg]
    /\ got = [c \in Clients |-> [m \in Msgs |-> [live |-> 0, retain |-> 0, stored |-> 0]]]

Send(c, ms, how) ==
    [got EXCEPT ![c] = [m \in Msgs |->
        IF m \in ms /\ c \in peers THEN [@[m] EXCEPT ![how] = @ + 1] ELSE @[m]]]

-----------------------------------------------------------------------------
(***************************************************************************)
(* PUBLISH: Session::forwards.                                             *)
(***************************************************************************)
\* The retained message is set before anything is matched.
SetRetain(m) ==
    /\ m \in cast /\ pub[m].pc = "new"
    /\ retained' = IF m \in Retained THEN m ELSE retained
    /\ pub' = [pub EXCEPT ![m].pc = "begin"]
    /\ UNCHANGED <<cast, route, sub, store, expired, sweep, got>>

\* DefaultRouter::_matches takes the matching filters from the topic tree ...
BeginMatch(m) ==
    /\ pub[m].pc = "begin"
    /\ pub' = [pub EXCEPT ![m].pc = "match",
                          ![m].stable = {s \in relations : s[2] \in peers}, ![m].fit = online,
                          ![m].todo = {f \in Filters : \E c \in Clients : <<f, c>> \in relations}]
    /\ UNCHANGED <<cast, route, retained, sub, store, expired, sweep, got>>

\* mutant: any member, online or not
Choice_any(cs) ==
    cs
\* SharedSubscription::choice: a random online member, else a random member.
Choice(cs) ==
    IF cs \cap online # {} THEN cs \cap online ELSE cs

MatchedOf(m, f) ==
    {c \in Clients : /\ <<f, c>> \in relations
                     /\ ~(<<f, c>> \in NoLocal /\ Publisher[m] = c)}

\* SubscriptioRelationsCollector::add: v3 keeps every relation, v5 one per client.
\* mutant: an MQTT 5 client gets a copy per filter
Collect_all(rels, new) ==
    rels \cup new

Collect(rels, new) ==
    rels \cup {h \in new : h.c \in V5 => \A r \in rels : r.c # h.c}

\* ... and visits them one at a time, each filter's relations under one guard.
MatchFilter(m, f) ==
    LET matched == MatchedOf(m, f)
        members(g) == {c \in matched : GroupOf[<<f, c>>] = g}
        groups == {GroupOf[<<f, c>>] : c \in matched} \ {NoGroup}
        plain == {[f |-> f, c |-> c, g |-> NoGroup, cids |-> {}] : c \in members(NoGroup)}
    IN  /\ pub[m].pc = "match" /\ f \in pub[m].todo
        /\ \E pick \in [groups -> Clients] :
             /\ \A g \in groups : pick[g] \in Choice(members(g))
             /\ pub' = [pub EXCEPT
                  ![m].todo = @ \ {f},
                  ![m].rels = Collect(@, plain \cup
                      {[f |-> f, c |-> pick[g], g |-> g, cids |-> members(g)] : g \in groups})]
        /\ UNCHANGED <<cast, route, retained, sub, store, expired, sweep, got>>

\* _collect_subscription_client_ids: what set_forwardeds leaves of the pairs it is
\* given, a later pair of a client replacing an earlier one.
Cids(rels) ==
    LET pairs == {<<r.c, IF r.g = NoGroup THEN None ELSE Tag(r.f, r.g)>> : r \in rels}
                   \cup UNION {{<<c, None>> : c \in r.cids \ {r.c}} : r \in rels}
        cs == {p[1] : p \in pairs}
    IN  {t \in [cs -> Tags] : \A c \in cs : <<c, t[c]>> \in pairs}

\* forwards_to sends one copy per relation; one missing tx makes the whole call an
\* error, and the ids of those who did get the message are then not stored.
Forward(m) ==
    LET rels == pub[m].rels
        copies(c) == Cardinality({r \in rels : r.c = c})
        failed == \E r \in rels : r.c \notin peers
    IN  /\ pub[m].pc = "match" /\ pub[m].todo = {}
        /\ got' = [c \in Clients |-> [got[c] EXCEPT ![m].live =
                      @ + IF c \in peers THEN copies(c) ELSE 0]]
        /\ \E cids \in Cids(rels) :
             pub' = [pub EXCEPT ![m].pc = "queued",
                         ![m].cids = IF failed \/ rels = {} THEN NoCids ELSE cids]
        /\ UNCHANGED <<cast, route, retained, sub, store, expired, sweep>>

\* RamMessageManager::_set on a worker of the executor, after forwards() returned.
InsertMessage(m) ==
    /\ pub[m].pc = "queued"
    /\ messages' = messages \cup {m}
    /\ pub' = [pub EXCEPT ![m].pc = "tree"]
    /\ UNCHANGED <<cast, route, retained, sub, tree, expiries, forwardeds, expired, sweep, got>>

InsertTree(m) ==
    /\ pub[m].pc = "tree"
    /\ tree' = tree \cup {m}
    /\ pub' = [pub EXCEPT ![m].pc = "expiry"]
    /\ UNCHANGED <<cast, route, retained, sub, messages, expiries, forwardeds, expired, sweep, got>>

PushExpiry(m) ==
    /\ pub[m].pc = "expiry"
    /\ expiries' = expiries \cup {m}
    /\ pub' = [pub EXCEPT ![m].pc = "forwardeds"]
    /\ UNCHANGED <<cast, route, retained, sub, messages, tree, forwardeds, expired, sweep, got>>

\* BTreeMap::insert of each pair over what the entry already holds.
Merged(old, new) ==
    [c \in DOMAIN old \cup DOMAIN new |-> IF c \in DOMAIN new THEN new[c] ELSE old[c]]

Entry(m) ==
    IF m \in DOMAIN forwardeds THEN forwardeds[m] ELSE << >>

WithEntry(m, e) ==
    [k \in DOMAIN forwardeds \cup {m} |-> IF k = m THEN e ELSE forwardeds[k]]

\* mutant: who got the message live is not recorded
SetForwardeds_skipped(m) ==
    /\ pub[m].pc = "forwardeds"
    /\ UNCHANGED forwardeds
    /\ pub' = [pub EXCEPT ![m].pc = "done"]
    /\ UNCHANGED <<cast, route, retained, sub, messages, tree, expiries, expired, sweep, got>>

SetForwardeds(m) ==
    /\ pub[m].pc = "forwardeds"
    /\ forwardeds' = IF pub[m].cids = NoCids THEN forwardeds
                     ELSE WithEntry(m, Merged(Entry(m), pub[m].cids))
    /\ pub' = [pub EXCEPT ![m].pc = "done"]
    /\ UNCHANGED <<cast, route, retained, sub, messages, tree, expiries, expired, sweep, got>>

-----------------------------------------------------------------------------
(***************************************************************************)
(* SUBSCRIBE: Session::_subscribe, the checks passed.                      *)
(***************************************************************************)
\* mutant: AtSubscribeNew never sends retained messages
AddRoute_never(c, f) ==
    /\ c \in cast \cap online /\ <<f, c>> \in Subs
    /\ sub[c].pc = "idle" /\ sub[c].made < MaxSubscribes[c]
    /\ relations' = relations \cup {<<f, c>>}
    /\ sub' = [sub EXCEPT ![c] = [Idle EXCEPT !.f = f, !.made = sub[c].made + 1,
                  !.pc = IF c \in NewOnly THEN "load" ELSE "retain"]]
    /\ UNCHANGED <<cast, peers, online, retained, pub, store, expired, sweep, got>>

\* The route is added first; retain handling decides from the previous options.
AddRoute(c, f) ==
    /\ c \in cast \cap online /\ <<f, c>> \in Subs
    /\ sub[c].pc = "idle" /\ sub[c].made < MaxSubscribes[c]
    /\ relations' = relations \cup {<<f, c>>}
    /\ sub' = [sub EXCEPT ![c] = [Idle EXCEPT !.f = f, !.made = sub[c].made + 1,
                  !.pc = IF c \in NewOnly /\ <<f, c>> \in relations THEN "load" ELSE "retain"]]
    /\ UNCHANGED <<cast, peers, online, retained, pub, store, expired, sweep, got>>

\* send_retain_messages; what was sent is excluded from the stored messages.
SendRetained(c) ==
    LET ms == {retained} \ {NoMsg}
    IN  /\ sub[c].pc = "retain"
        /\ got' = Send(c, ms, "retain")
        /\ sub' = [sub EXCEPT ![c].pc = "load", ![c].excludeds = ms]
        /\ UNCHANGED <<cast, route, retained, pub, store, expired, sweep>>

\* RamMessageManager::_get: the ids are collected under the tree's read lock ...
LoadMatches(c) ==
    /\ sub[c].pc = "load"
    /\ sub' = [sub EXCEPT ![c].pc = "get", ![c].todo = tree,
                  ![c].settled = {m \in Msgs : pub[m].pc = "done"}]
    /\ UNCHANGED <<cast, route, retained, pub, store, expired, sweep, got>>

\* mutant: the group is not looked at
IsForwarded_self(c, f, e) ==
    c \in DOMAIN e

IsForwarded(c, f, e) ==
    \/ c \in DOMAIN e
    \/ /\ GroupOf[<<f, c>>] # NoGroup
       /\ \E d \in DOMAIN e : e[d] = Tag(f, GroupOf[<<f, c>>])

\* mutant: a loaded message is not marked
MarkForwarded_unmarked(c, m) ==
    LET f == sub[c].f
        take == ~IsForwarded(c, f, Entry(m)) /\ m \notin expired
    IN  /\ forwardeds' = WithEntry(m, Entry(m))
        /\ sub' = [sub EXCEPT ![c].cur = NoMsg, ![c].todo = @ \ {m},
                              ![c].found = IF take THEN @ \cup {m} ELSE @]

\* ... then each is checked and marked under its forwardeds entry, which
\* or_default() creates whatever the outcome.
MarkForwarded(c, m) ==
    LET f == sub[c].f
        tag == IF GroupOf[<<f, c>>] = NoGroup THEN None ELSE Tag(f, GroupOf[<<f, c>>])
        take == ~IsForwarded(c, f, Entry(m)) /\ m \notin expired
    IN  /\ forwardeds' = WithEntry(m, IF take THEN Merged(Entry(m), [d \in {c} |-> tag])
                                      ELSE Entry(m))
        /\ sub' = [sub EXCEPT ![c].cur = NoMsg, ![c].todo = @ \ {m},
                              ![c].found = IF take THEN @ \cup {m} ELSE @]

\* messages_get: an encoded message is copied out, an unencoded one stays locked
\* until it has been marked.
Unlocked(m) == Encode \/ \A c \in Clients : sub[c].cur # m

LoadOne(c, m) ==
    /\ sub[c].pc = "get" /\ m \in sub[c].todo /\ sub[c].cur = NoMsg /\ Unlocked(m)
    /\ sub' = IF m \in messages THEN [sub EXCEPT ![c].cur = m]
              ELSE [sub EXCEPT ![c].todo = @ \ {m}]
    /\ UNCHANGED <<cast, route, retained, pub, store, expired, sweep, got>>

Mark(c) ==
    /\ sub[c].cur # NoMsg
    /\ MarkForwarded(c, sub[c].cur)
    /\ UNCHANGED <<cast, route, retained, pub, messages, tree, expiries, expired, sweep, got>>

\* _send_storaged_messages.
SendStored(c) ==
    /\ sub[c].pc = "get" /\ sub[c].todo = {}
    /\ got' = Send(c, sub[c].found \ sub[c].excludeds, "stored")
    /\ sub' = [sub EXCEPT ![c] = [Idle EXCEPT !.made = sub[c].made]]
    /\ UNCHANGED <<cast, route, retained, pub, store, expired, sweep>>

-----------------------------------------------------------------------------
(***************************************************************************)
(* Sessions that go away, and the store's cleanup loop.                    *)
(***************************************************************************)
\* A route that goes is no longer one every running match is sure to see.
Unrouted(gone) ==
    [m \in Msgs |-> [pub[m] EXCEPT !.stable = @ \ gone]]

Unsubscribe(c, f) ==
    /\ c \in Leavers \cap online /\ sub[c].pc = "idle" /\ <<f, c>> \in relations
    /\ relations' = relations \ {<<f, c>>}
    /\ pub' = Unrouted({<<f, c>>})
    /\ UNCHANGED <<cast, peers, online, retained, sub, store, expired, sweep, got>>

\* The connection drops: the session stays registered, its tx stays.
Offline(c) ==
    /\ c \in Leavers \cap online \cap cast /\ sub[c].pc = "idle"
    /\ online' = online \ {c}
    /\ UNCHANGED <<cast, relations, peers, retained, pub, sub, store, expired, sweep, got>>

\* LockEntry::_remove_with takes the session out of peers, then removes its routes.
RemovePeer(c) ==
    /\ c \in (Leavers \cap peers \cap cast) \ online
    /\ peers' = peers \ {c}
    /\ pub' = Unrouted({s \in Subs : s[2] = c})
    /\ UNCHANGED <<cast, relations, online, retained, sub, store, expired, sweep, got>>

RemoveRoute(c, f) ==
    /\ c \notin peers /\ <<f, c>> \in relations
    /\ relations' = relations \ {<<f, c>>}
    /\ UNCHANGED <<cast, peers, online, retained, pub, sub, store, expired, sweep, got>>

Expire(m) ==
    /\ m \in Mortal \ expired /\ pub[m].pc # "new"
    /\ expired' = expired \cup {m}
    /\ UNCHANGED <<cast, route, retained, pub, sub, store, sweep, got>>

\* The ids popped from the heap in one cycle: the expired ones first, and more
\* while the count, which popping does not change, exceeds its limit; the
\* loop stops once MORE than max_limit are popped.
Popped ==
    LET due == expiries \cap expired
        avail == IF Cardinality(messages) > CacheMaxCount THEN expiries ELSE due
        n == Min({Cardinality(avail), MaxLimit + 1})
    IN  {s \in kSubset(n, avail) : s \subseteq due \/ due \subseteq s}

SweepPop ==
    /\ sweep.pc = "idle"
    /\ \E s \in Popped \ {{}} :
         /\ expiries' = expiries \ s
         /\ sweep' = [sweep EXCEPT !.pc = "message", !.todo = s]
    /\ UNCHANGED <<cast, route, retained, pub, sub, messages, tree, forwardeds, expired, got>>

SweepMessage(m) ==
    /\ sweep.pc = "message" /\ m \in sweep.todo /\ Unlocked(m)
    /\ messages' = messages \ {m}
    /\ sweep' = [pc |-> "tree", todo |-> sweep.todo \ {m}, cur |-> m]
    /\ UNCHANGED <<cast, route, retained, pub, sub, tree, expiries, forwardeds, expired, got>>

\* mutant: the id stays in the tree
SweepTree_kept ==
    /\ sweep.pc = "tree"
    /\ UNCHANGED tree
    /\ sweep' = [sweep EXCEPT !.pc = "forwardeds"]
    /\ UNCHANGED <<cast, route, retained, pub, sub, messages, expiries, forwardeds, expired, got>>

SweepTree ==
    /\ sweep.pc = "tree"
    /\ tree' = tree \ {sweep.cur}
    /\ sweep' = [sweep EXCEPT !.pc = "forwardeds"]
    /\ UNCHANGED <<cast, route, retained, pub, sub, messages, expiries, forwardeds, expired, got>>

SweepForwardeds ==
    /\ sweep.pc = "forwardeds"
    /\ forwardeds' = [k \in DOMAIN forwardeds \ {sweep.cur} |-> forwardeds[k]]
    /\ sweep' = [sweep EXCEPT !.cur = NoMsg,
                              !.pc = IF sweep.todo = {} THEN "idle" ELSE "message"]
    /\ UNCHANGED <<cast, route, retained, pub, sub, messages, tree, expiries, expired, got>>

-----------------------------------------------------------------------------
Publish(m) ==
    \/ SetRetain(m) \/ BeginMatch(m) \/ Forward(m)
    \/ InsertMessage(m) \/ InsertTree(m) \/ PushExpiry(m) \/ SetForwardeds(m)
    \/ \E f \in Filters : MatchFilter(m, f)

Subscribe(c) ==
    \/ SendRetained(c) \/ LoadMatches(c) \/ Mark(c) \/ SendStored(c)
    \/ \E f \in Filters : AddRoute(c, f)
    \/ \E m \in Msgs : LoadOne(c, m)

Leave(c) ==
    \/ Offline(c) \/ RemovePeer(c)
    \/ \E f \in Filters : Unsubscribe(c, f) \/ RemoveRoute(c, f)

Sweep ==
    \/ SweepPop \/ SweepTree \/ SweepForwardeds
    \/ \E m \in Msgs : SweepMessage(m)

Next ==
    \/ \E m \in Msgs : Publish(m) \/ Expire(m)
    \/ \E c \in Clients : Subscribe(c) \/ Leave(c)
    \/ Sweep

Spec == Init /\ [][Next]_vars
-----------------------------------------------------------------------------
Forwarded(m) == pub[m].pc \notin {"new", "begin", "match"}
Plain(s) == GroupOf[s] = NoGroup /\ s \notin NoLocal

\* No gap between the retained message and the live stream: forwards() sets the
\* retained message before it matches and _subscribe() adds the route before it
\* reads it, so a subscriber that is through SUBSCRIBE has the topic's retained
\* message from one or the other, however the two calls interleave.
RetainedReaches ==
    \A s \in relations :
        (/\ Plain(s) /\ s[2] \in online /\ sub[s[2]].pc = "idle"
         /\ retained # NoMsg /\ Forwarded(retained))
            => got[s[2]][retained].live + got[s[2]][retained].retain > 0

\* A subscription that is routed from before the match until the forwarding gets
\* the message live, and an MQTT 5 client gets it once however many of its
\* filters match.
LiveDelivered ==
    \A m \in Msgs : Forwarded(m) =>
        /\ \A s \in pub[m].stable : Plain(s) => got[s[2]][m].live > 0
        /\ \A c \in V5 : got[c][m].live <= 1

\* A shared group with a member that is online and routed throughout gets the
\* message live, and not through a member that was offline before the match.
SharedToOnline ==
    \A m \in Msgs, s \in Subs : 
        (Forwarded(m) /\ s \in pub[m].stable /\ s[2] \in online /\ GroupOf[s] # NoGroup)
            => \E c \in pub[m].fit : \E r \in pub[m].rels :
                 /\ r.f = s[1] /\ r.g = GroupOf[s] /\ r.c = c
                 /\ c \in online => got[c][m].live > 0

\* A message in the store is given to a client from the store at most once, over
\* all its SUBSCRIBEs: _get tests and marks under the message's forwardeds entry.
StoredOnce ==
    \A c \in Clients, m \in messages : got[c][m].stored <= 1

\* A message that was recorded as forwarded before the load began is not loaded by
\* a client that got it live.
NotLiveAgain ==
    \A c \in Clients : \A m \in sub[c].found \cap sub[c].settled \cap messages :
        pub[m].cids # NoCids => got[c][m].live = 0

\* Of a shared group at most one member is given a stored message from the store,
\* and none if one got it live and that was recorded before the load began.
GroupStoredOnce ==
    \A m \in messages, f \in Filters, g \in Range(GroupOf) \ {NoGroup} :
        LET members == {c \in Clients : <<f, c>> \in Subs /\ GroupOf[<<f, c>>] = g}
        IN  /\ Cardinality({c \in members : got[c][m].stored > 0}) <= 1
            /\ \A c \in members :
                 (m \in sub[c].found \cap sub[c].settled /\ pub[m].cids # NoCids)
                     => \A d \in members : got[d][m].live = 0

\* With no store and no cleanup in progress the three indexes of the store hold the
\* same messages: nothing stays that no cleanup would ever find.
StoreConsistent ==
    (sweep.pc = "idle" /\ \A m \in Msgs : pub[m].pc \in {"new", "queued", "done"})
        => tree = messages /\ expiries = messages

\* Who is subscribed when a message is matched gets it live: every plain subscription,
\* and of every shared group one member.
LiveReaches == LiveDelivered /\ SharedToOnline

\* A stored message is given once: to a client or a group, and not after the live copy.
StoredNeverTwice == StoredOnce /\ NotLiveAgain /\ GroupStoredOnce

\* docs/en_US/store-message.md: "As long as a message remains unexpired, any
\* subscriptions made to the corresponding topic after the message is published
\* will be forwarded."  Here for a plain subscription made after forwards() has
\* returned.
StoredReaches ==
    \A s \in relations, m \in Msgs :
        (/\ Plain(s) /\ s[2] \in online /\ sub[s[2]].pc = "idle"
         /\ Forwarded(m) /\ m \notin expired)
            => \E how \in {"live", "retain", "stored"} : got[s[2]][m][how] > 0
=============================================================================
