---------------------------- MODULE Subscriptions ----------------------------
(***************************************************************************)
(* The subscriptions of one client id and the counters that follow them.   *)
(* SUBSCRIBE and UNSUBSCRIBE packets run in the connection's dispatcher;   *)
(* the ones of the HTTP API run in the session loop, between the same      *)
(* awaits; a takeover drains the old session's map, one filter at a time,  *)
(* and fills the new one's; the last reference to a session empties it.    *)
(* Who changed a map counts it after the map's lock is free again.         *)
(***************************************************************************)
EXTENDS Integers, Sequences, FiniteSets, FiniteSetsExt, Functions, TLC

CONSTANTS
    SbFilters,    \* topic filters
    SbDeep,       \* the ones with more levels than max_topic_levels
    SbMax,        \* max_subscriptions, 0 is unlimited
    SbSessions,   \* bound: sessions of the client
    SbPackets,    \* the operation lists of the packets and API calls
    SbCalls       \* bound: packets and API calls

ASSUME SubscriptionsAssumption ==
    /\ SbMax \in Nat /\ SbSessions \in Nat \ {0} /\ SbCalls \in Nat
    /\ \A ops \in SbPackets : \A k \in DOMAIN ops : ops[k].filter \in SbFilters

VARIABLES
    sbState,     \* per session: "new" | "alive" | "dropped" | "counted" | "gone"
    sbSubs,      \* per session, its SessionSubs: filter -> shared or not
    sbLoop,      \* the sessions whose loop runs
    sbPeer,      \* the registered session, 0 if there is none
    sbCall,      \* the operations in progress, per task
    sbOwner,     \* the session each task belongs to
    sbDrain,     \* the takeover: from, filters to drain, drained, to
    sbOwed,      \* per actor, what it has not yet added to the counters
    sbStats,     \* subscriptions, subscriptions_shared, sessions
    sbFailed,    \* sessions whose creation failed
    sbSpent

sbVars == <<sbState, sbSubs, sbLoop, sbPeer, sbCall, sbOwner, sbDrain, sbOwed, sbStats,
            sbFailed, sbSpent>>

SbIds == 1 .. SbSessions
Tasks == {"control", "loop"}
NoCall == [ops |-> <<>>, at |-> "next", sess |-> 0]
NoDrain == [step |-> "none", from |-> 0, left |-> {}, held |-> [f \in {} |-> FALSE],
            to |-> 0]
NoSubs == [f \in {} |-> FALSE]
\* The tasks of a session, the one that takes it over or fills it, the one that
\* clears it
Actors == {"control", "loop", "takeover", "clear"} \X SbIds
Paid == [subs |-> 0, shared |-> 0]

SbInit ==
    /\ sbState = [i \in SbIds |-> IF i = 1 THEN "alive" ELSE "new"]
    /\ sbSubs = [i \in SbIds |-> NoSubs]
    /\ sbLoop = {1} /\ sbPeer = 1
    /\ sbCall = [t \in Tasks |-> NoCall]
    /\ sbOwner = [t \in Tasks |-> 1]
    /\ sbDrain = NoDrain
    /\ sbOwed = [a \in Actors |-> Paid]
    /\ sbStats = [subs |-> 0, shared |-> 0, sessions |-> 1]
    /\ sbFailed = 0
    /\ sbSpent = 0

------------------------------------------------------------------------------
(* SessionSubs and the counters of Stats.                                  *)

Shared(subs) == Cardinality({f \in DOMAIN subs : subs[f]})

One(b) == IF b THEN 1 ELSE 0

\* mutant: a replaced shared subscription is counted again
SubsAdd_counted(a, i, f, shared) ==
    LET had == f \in DOMAIN sbSubs[i] IN
    /\ sbSubs' = [sbSubs EXCEPT ![i] = (f :> shared) @@ @]
    /\ sbOwed' = [sbOwed EXCEPT ![a] = [subs |-> One(~had), shared |-> One(shared)]]

\* _add by a: a filter that was there only changes the shared count.
SubsAdd(a, i, f, shared) ==
    LET subs == sbSubs[i]
        had == f \in DOMAIN subs IN
    /\ sbSubs' = [sbSubs EXCEPT ![i] = (f :> shared) @@ @]
    /\ sbOwed' = [sbOwed EXCEPT ![a] =
                    [subs |-> One(~had), shared |-> One(shared) - One(had /\ subs[f])]]

\* _remove by a.
SubsRemove(a, i, f) ==
    LET subs == sbSubs[i]
        had == f \in DOMAIN subs IN
    /\ sbSubs' = [sbSubs EXCEPT ![i] = Restrict(@, DOMAIN subs \ {f})]
    /\ sbOwed' = [sbOwed EXCEPT ![a] = [subs |-> -One(had), shared |-> -One(had /\ subs[f])]]

\* One inc or dec of a counter, after the lock of the map.
SbCount(a) ==
    \E k \in {"subs", "shared"} :
       /\ sbOwed[a][k] # 0
       /\ LET d == IF sbOwed[a][k] > 0 THEN 1 ELSE -1
          IN  /\ sbStats' = [sbStats EXCEPT ![k] = @ + d]
              /\ sbOwed' = [sbOwed EXCEPT ![a][k] = @ - d]
       /\ UNCHANGED <<sbState, sbSubs, sbLoop, sbPeer, sbCall, sbOwner, sbDrain, sbFailed,
                      sbSpent>>

------------------------------------------------------------------------------
(* SUBSCRIBE and UNSUBSCRIBE.                                              *)

\* A packet reaches the dispatcher of the registered session, or the API
\* sends the session loop one message per filter.
SbRequest(t) ==
    /\ sbPeer # 0 /\ sbPeer \in sbLoop /\ sbSpent < SbCalls
    /\ sbCall[t] = NoCall /\ sbOwed[<<t, sbPeer>>] = Paid
    /\ \E ops \in SbPackets : sbCall' = [sbCall EXCEPT ![t].ops = ops]
    /\ sbOwner' = [sbOwner EXCEPT ![t] = sbPeer]
    /\ sbSpent' = sbSpent + 1
    /\ UNCHANGED <<sbState, sbSubs, sbLoop, sbPeer, sbDrain, sbOwed, sbStats, sbFailed>>

\* The call goes on with the packet's next filter.
NextOp(t) ==
    sbCall' = [sbCall EXCEPT
                 ![t] = IF Len(@.ops) = 1 THEN NoCall
                        ELSE [NoCall EXCEPT !.ops = Tail(sbCall[t].ops)]]

\* An error in a packet leaves the rest of it and closes the connection;
\* the API gets it as the answer for this filter.
OpFails(t) ==
    IF t = "control"
    THEN /\ sbCall' = [sbCall EXCEPT ![t] = NoCall]
         /\ sbLoop' = sbLoop \ {sbOwner[t]}
    ELSE NextOp(t) /\ UNCHANGED sbLoop

TooMany(i) == SbMax > 0 /\ Cardinality(DOMAIN sbSubs[i]) >= SbMax

\* _subscribe: the limits are checked against the session's own map.
SbCheck(t) ==
    LET op == Head(sbCall[t].ops) IN
    /\ sbCall[t].ops # <<>> /\ sbCall[t].at = "next" /\ op.add
    /\ sbOwed[<<t, sbOwner[t]>>] = Paid
    /\ IF TooMany(sbOwner[t]) \/ op.filter \in SbDeep
       THEN OpFails(t)
       ELSE /\ sbCall' = [sbCall EXCEPT ![t].at = "acl"]
            /\ UNCHANGED sbLoop
    /\ UNCHANGED <<sbState, sbSubs, sbPeer, sbOwner, sbDrain, sbOwed, sbStats, sbFailed,
                   sbSpent>>

\* The hooks and the access check; a refusal is the answer for this filter.
SbAcl(t) ==
    /\ sbCall[t].at = "acl"
    /\ \/ sbCall' = [sbCall EXCEPT ![t].at = "entry"]
       \/ NextOp(t)
    /\ UNCHANGED <<sbState, sbSubs, sbLoop, sbPeer, sbOwner, sbDrain, sbOwed, sbStats,
                   sbFailed, sbSpent>>

\* unsubscribe starts with its hook.
SbUnsub(t) ==
    /\ sbCall[t].ops # <<>> /\ sbCall[t].at = "next" /\ ~Head(sbCall[t].ops).add
    /\ sbOwed[<<t, sbOwner[t]>>] = Paid
    /\ sbCall' = [sbCall EXCEPT ![t].at = "entry"]
    /\ UNCHANGED <<sbState, sbSubs, sbLoop, sbPeer, sbOwner, sbDrain, sbOwed, sbStats,
                   sbFailed, sbSpent>>

\* LockEntry::subscribe and unsubscribe take the registered session, which
\* need not be the caller's own; then the router is awaited.
SbEntry(t) ==
    /\ sbCall[t].at = "entry"
    /\ IF sbPeer = 0
       THEN OpFails(t)
       ELSE /\ sbCall' = [sbCall EXCEPT ![t].at = "routed", ![t].sess = sbPeer]
            /\ UNCHANGED sbLoop
    /\ UNCHANGED <<sbState, sbSubs, sbPeer, sbOwner, sbDrain, sbOwed, sbStats, sbFailed,
                   sbSpent>>

SbApply(t) ==
    LET op == Head(sbCall[t].ops)
        a == <<t, sbOwner[t]>>
        i == sbCall[t].sess IN
    /\ sbCall[t].at = "routed"
    /\ IF op.add THEN SubsAdd(a, i, op.filter, op.shared) ELSE SubsRemove(a, i, op.filter)
    /\ NextOp(t)
    /\ UNCHANGED <<sbState, sbLoop, sbPeer, sbOwner, sbDrain, sbStats, sbFailed, sbSpent>>

------------------------------------------------------------------------------
(* Takeover and the end of a session.                                      *)

\* A new connection kicks the registered session out, if there is one.  With
\* a clean start the map goes down with the session; otherwise
\* to_offline_info takes the filters it sees now and removes them.
SbKick ==
    /\ sbDrain.step = "none"
    /\ \E i \in SbIds : sbState[i] = "new"
    /\ sbPeer' = 0
    /\ sbLoop' = sbLoop \ {sbPeer}
    /\ sbCall' = [sbCall EXCEPT !["loop"] =
                    IF sbOwner["loop"] = sbPeer THEN NoCall ELSE @]
    /\ \E clean \in BOOLEAN :
         sbDrain' = IF clean \/ sbPeer = 0
                    THEN [NoDrain EXCEPT !.step = "create"]
                    ELSE [NoDrain EXCEPT !.step = "drain", !.from = sbPeer,
                                         !.left = DOMAIN sbSubs[sbPeer]]
    /\ UNCHANGED <<sbState, sbSubs, sbOwner, sbOwed, sbStats, sbFailed, sbSpent>>

\* _drain, one filter.
SbDrainOne ==
    LET i == sbDrain.from IN
    /\ sbDrain.step = "drain" /\ sbOwed[<<"takeover", i>>] = Paid
    /\ IF sbDrain.left = {}
       THEN /\ sbDrain' = [sbDrain EXCEPT !.step = "create", !.from = 0]
            /\ UNCHANGED <<sbSubs, sbOwed>>
       ELSE \E f \in sbDrain.left :
              /\ SubsRemove(<<"takeover", i>>, i, f)
              /\ sbDrain' = [sbDrain EXCEPT
                               !.left = @ \ {f},
                               !.held = IF f \in DOMAIN sbSubs[i]
                                        THEN (f :> sbSubs[i][f]) @@ @ ELSE @]
    /\ UNCHANGED <<sbState, sbLoop, sbPeer, sbCall, sbOwner, sbStats, sbFailed, sbSpent>>

\* Session::new counts the session before the session manager creates it;
\* when that fails the handshake is refused.
SbCreate ==
    /\ sbDrain.step = "create"
    /\ \E i \in SbIds :
         /\ sbState[i] = "new" /\ \A j \in SbIds : j < i => sbState[j] # "new"
         /\ sbStats' = [sbStats EXCEPT !.sessions = @ + 1]
         /\ \/ /\ sbState' = [sbState EXCEPT ![i] = "alive"]
               /\ sbPeer' = i
               /\ sbLoop' = sbLoop \union {i}
               /\ sbDrain' = [sbDrain EXCEPT !.step = "extend", !.to = i]
               /\ UNCHANGED sbFailed
            \/ /\ sbState' = [sbState EXCEPT ![i] = "gone"]
               /\ sbFailed' = sbFailed + 1
               /\ sbDrain' = NoDrain
               /\ UNCHANGED <<sbPeer, sbLoop>>
    /\ UNCHANGED <<sbSubs, sbCall, sbOwner, sbOwed, sbSpent>>

\* transfer_session_state: _extend, one filter.
SbExtendOne ==
    /\ sbDrain.step = "extend" /\ sbOwed[<<"takeover", sbDrain.to>>] = Paid
    /\ IF DOMAIN sbDrain.held = {}
       THEN sbDrain' = NoDrain /\ UNCHANGED <<sbSubs, sbOwed>>
       ELSE \E f \in DOMAIN sbDrain.held :
              /\ SubsAdd(<<"takeover", sbDrain.to>>, sbDrain.to, f, sbDrain.held[f])
              /\ sbDrain' = [sbDrain EXCEPT
                               !.held = Restrict(@, DOMAIN @ \ {f})]
    /\ UNCHANGED <<sbState, sbLoop, sbPeer, sbCall, sbOwner, sbStats, sbFailed, sbSpent>>

\* The connection ends for good and clean removes the registered session.
SbEnd ==
    /\ sbPeer # 0 /\ sbDrain.step = "none"
    /\ sbPeer' = 0
    /\ sbLoop' = sbLoop \ {sbPeer}
    /\ sbCall' = [sbCall EXCEPT !["loop"] =
                    IF sbOwner["loop"] = sbPeer THEN NoCall ELSE @]
    /\ UNCHANGED <<sbState, sbSubs, sbOwner, sbDrain, sbOwed, sbStats, sbFailed, sbSpent>>

Referenced(i) ==
    \/ i = sbPeer \/ i \in sbLoop \/ i \in {sbDrain.from, sbDrain.to}
    \/ \E t \in Tasks : sbCall[t] # NoCall /\ i \in {sbOwner[t], sbCall[t].sess}
    \/ \E a \in Actors : a[2] = i /\ sbOwed[a] # Paid

\* The last reference goes: drop, then in a task of its own _clear, which
\* counts under a read lock and empties under a write lock.
SbDrop(i) ==
    /\ sbState[i] = "alive" /\ ~Referenced(i)
    /\ sbState' = [sbState EXCEPT ![i] = "dropped"]
    /\ sbStats' = [sbStats EXCEPT !.sessions = @ - 1]
    /\ UNCHANGED <<sbSubs, sbLoop, sbPeer, sbCall, sbOwner, sbDrain, sbOwed, sbFailed,
                   sbSpent>>

SbClearCount(i) ==
    /\ sbState[i] = "dropped"
    /\ sbState' = [sbState EXCEPT ![i] = "counted"]
    /\ sbOwed' = [sbOwed EXCEPT ![<<"clear", i>>] =
                    [subs |-> -Cardinality(DOMAIN sbSubs[i]), shared |-> -Shared(sbSubs[i])]]
    /\ UNCHANGED <<sbSubs, sbLoop, sbPeer, sbCall, sbOwner, sbDrain, sbStats, sbFailed,
                   sbSpent>>

SbClear(i) ==
    /\ sbState[i] = "counted" /\ sbOwed[<<"clear", i>>] = Paid
    /\ sbState' = [sbState EXCEPT ![i] = "gone"]
    /\ sbSubs' = [sbSubs EXCEPT ![i] = NoSubs]
    /\ UNCHANGED <<sbLoop, sbPeer, sbCall, sbOwner, sbDrain, sbOwed, sbStats, sbFailed,
                   sbSpent>>

SbNext ==
    \/ \E t \in Tasks : \/ SbRequest(t) \/ SbCheck(t) \/ SbAcl(t) \/ SbUnsub(t)
                        \/ SbEntry(t) \/ SbApply(t)
    \/ SbKick \/ SbDrainOne \/ SbCreate \/ SbExtendOne \/ SbEnd
    \/ \E a \in Actors : SbCount(a)
    \/ \E i \in SbIds : SbDrop(i) \/ SbClearCount(i) \/ SbClear(i)

SbSpec == SbInit /\ [][SbNext]_sbVars

------------------------------------------------------------------------------
Held == {i \in SbIds : sbState[i] \in {"alive", "dropped"}}

\* What the actors still have to add to counter k
Debts(k) == MapThenSumSet(LAMBDA a : sbOwed[a][k], Actors)

(***************************************************************************)
(* The counters follow the maps: subscriptions and subscriptions_shared    *)
(* are the sums over the sessions there are, whatever a takeover, a late   *)
(* SUBSCRIBE on the session it replaced and the drop of a session do in    *)
(* between (SessionSubs::_add, _remove, _drain, _extend, _clear), once     *)
(* those who changed a map have counted it; sessions counts the live ones  *)
(* and those whose creation failed, which nothing takes back               *)
(* (Session::new).                                                         *)
(***************************************************************************)
StatsFollow ==
    /\ sbStats.subs + Debts("subs")
         = MapThenSumSet(LAMBDA i : Cardinality(DOMAIN sbSubs[i]), Held)
    /\ sbStats.shared + Debts("shared")
         = MapThenSumSet(LAMBDA i : Shared(sbSubs[i]), Held)
    /\ sbStats.sessions =
         Cardinality({i \in SbIds : sbState[i] = "alive"}) + sbFailed
==============================================================================
