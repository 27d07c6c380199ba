------------------------------- MODULE Router -------------------------------
(***************************************************************************)
(* The subscription routes of a node, DefaultRouter of                     *)
(* rmqtt/src/broker/default.rs: a tree of topic filters behind a lock, a   *)
(* concurrent map from filter to the relations of its subscribers, and a   *)
(* counter for each.  add and remove take the locks one after the other,   *)
(* so each of them is several steps.  On a single node the tasks of all    *)
(* connections call them at the same time; under the raft cluster they are *)
(* called one at a time, when a log entry is applied, which are the        *)
(* behaviours in which overlapped stays FALSE.                             *)
(*                                                                         *)
(* The tree is the set of the filters in it (see TopicTree), a relation is *)
(* the Id of its subscriber: client and connection.                        *)
(***************************************************************************)
EXTENDS Integers, FiniteSets

CONSTANTS
    Filters,
    Clients,
    Conns,          \* connections a client makes, old and new
    MaxCount        \* bound: add is not called once relations_count is this high

ASSUME RouterAssumption ==
    /\ IsFiniteSet(Filters)
    /\ MaxCount \in Nat

Ids == [client : Clients, conn : Conns]

VARIABLES
    topics,         \* DefaultRouter.topics
    entries,        \* the keys of DefaultRouter.relations
    rels,           \* rels[f]: the relations under key f
    topicsCount,    \* DefaultRouter.topics_count
    relationsCount, \* DefaultRouter.relations_count
    call,           \* call[i]: the call connection i is in, and how far
    overlapped      \* history: a call began while another one was in progress

vars == <<topics, entries, rels, topicsCount, relationsCount, call, overlapped>>

Idle == [at |-> "idle"]
At(label, f) == [at |-> label, filter |-> f]

Init ==
    /\ topics = {}
    /\ entries = {}
    /\ rels = [f \in Filters |-> {}]
    /\ topicsCount = 0
    /\ relationsCount = 0
    /\ call = [i \in Ids |-> Idle]
    /\ overlapped = FALSE

Begin(i) ==
    /\ call[i] = Idle
    /\ overlapped' = (overlapped \/ \E j \in Ids : call[j] # Idle)

OfClient(f, i) == {r \in rels[f] : r.client = i.client}

\* add: the filter goes into the tree, under the write lock
AddTopic(i, f) ==
    /\ Begin(i)
    /\ relationsCount < MaxCount
    /\ topics' = topics \cup {f}
    /\ call' = [call EXCEPT ![i] = At("add", f)]
    /\ UNCHANGED <<entries, rels, topicsCount, relationsCount>>

\* mutant: every insert is counted
AfterInsert_always(f, i) == At("added", f)

\* mutant: only the first relation under a key is counted
AfterInsert_newKey(f, i) == IF f \in entries THEN Idle ELSE At("added", f)

\* insert returns None, and is counted, when the client had no relation under the filter
AfterInsert(f, i) == IF OfClient(f, i) = {} THEN At("added", f) ELSE Idle

\* mutant: a new key is not counted
AddRelation_keyUncounted(i) ==
    /\ call[i].at = "add"
    /\ LET f == call[i].filter
       IN  /\ entries' = entries \cup {f}
           /\ topicsCount' = topicsCount
           /\ rels' = [rels EXCEPT ![f] = (@ \ OfClient(f, i)) \cup {i}]
           /\ call' = [call EXCEPT ![i] = AfterInsert(f, i)]
    /\ UNCHANGED <<topics, relationsCount, overlapped>>

\* add: entry().or_insert_with().insert(), under the lock of the map
AddRelation(i) ==
    /\ call[i].at = "add"
    /\ LET f == call[i].filter
       IN  /\ entries' = entries \cup {f}
           /\ topicsCount' = IF f \in entries THEN topicsCount ELSE topicsCount + 1
           /\ rels' = [rels EXCEPT ![f] = (@ \ OfClient(f, i)) \cup {i}]
           /\ call' = [call EXCEPT ![i] = AfterInsert(f, i)]
    /\ UNCHANGED <<topics, relationsCount, overlapped>>

\* add: relations_count.inc(), when the lock of the map is released
CountRelation(i) ==
    /\ call[i].at = "added"
    /\ relationsCount' = relationsCount + 1
    /\ call' = [call EXCEPT ![i] = Idle]
    /\ UNCHANGED <<topics, entries, rels, topicsCount, overlapped>>

\* remove takes the relation only of the very same Id
Removable(i, f) == rels[f] \cap {i}

\* is_empty of the relations decides whether remove goes on
AfterRemove(left, f) == IF left = {} THEN At("emptied", f) ELSE Idle

\* remove: get_mut, compare the Id, remove, all under the lock of the map
RemoveRelation(i, f) ==
    /\ Begin(i)
    /\ Removable(i, f) # {}
    /\ rels' = [rels EXCEPT ![f] = @ \ Removable(i, f)]
    /\ relationsCount' = relationsCount - 1
    /\ call' = [call EXCEPT ![i] = AfterRemove(rels'[f], f)]
    /\ UNCHANGED <<topics, entries, topicsCount>>

\* mutant: a key that is gone already is counted again
AfterEntry_twice(f) == At("uncounted", f)

\* relations.remove returns None for a key that is gone, and nothing is counted
AfterEntry(f) == At(IF f \in entries THEN "uncounted" ELSE "dropped", f)

\* remove: the key goes, whatever is under it by now
RemoveEntry(i) ==
    /\ call[i].at = "emptied"
    /\ LET f == call[i].filter
       IN  /\ entries' = entries \ {f}
           /\ rels' = [rels EXCEPT ![f] = {}]
           /\ call' = [call EXCEPT ![i] = AfterEntry(f)]
    /\ UNCHANGED <<topics, topicsCount, relationsCount, overlapped>>

\* remove: topics_count.dec(), when the lock of the map is released
UncountTopic(i) ==
    /\ call[i].at = "uncounted"
    /\ topicsCount' = topicsCount - 1
    /\ call' = [call EXCEPT ![i] = At("dropped", call[i].filter)]
    /\ UNCHANGED <<topics, entries, rels, relationsCount, overlapped>>

\* mutant: the filter stays in the tree
RemoveTopic_keep(i) ==
    /\ call[i].at = "dropped"
    /\ call' = [call EXCEPT ![i] = Idle]
    /\ UNCHANGED <<topics, entries, rels, topicsCount, relationsCount, overlapped>>

\* remove: the filter leaves the tree, under the write lock
RemoveTopic(i) ==
    /\ call[i].at = "dropped"
    /\ topics' = topics \ {call[i].filter}
    /\ call' = [call EXCEPT ![i] = Idle]
    /\ UNCHANGED <<entries, rels, topicsCount, relationsCount, overlapped>>

Next ==
    \E i \in Ids :
        \/ \E f \in Filters : AddTopic(i, f) \/ RemoveRelation(i, f)
        \/ AddRelation(i) \/ CountRelation(i)
        \/ RemoveEntry(i) \/ UncountTopic(i) \/ RemoveTopic(i)

Spec == Init /\ [][Next]_vars

-----------------------------------------------------------------------------
Labels == {"add", "added", "emptied", "uncounted", "dropped"}

Calls == {Idle} \cup {At(l, f) : l \in Labels, f \in Filters}

\* The variables keep to their types; the counters are signed, an AtomicIsize each.
TypeOK ==
    /\ topics \subseteq Filters
    /\ entries \subseteq Filters
    /\ rels \in [Filters -> SUBSET Ids]
    /\ topicsCount \in Int
    /\ relationsCount \in Int
    /\ call \in [Ids -> Calls]
    /\ overlapped \in BOOLEAN

Quiet == \A i \in Ids : call[i] = Idle

Routes == {r \in Filters \X Ids : r[2] \in rels[r[1]]}

\* The connections whose call has changed the map and has yet to change a counter
Owing(label) == {i \in Ids : call[i].at = label}

(***************************************************************************)
(* topics_count goes up inside or_insert_with and down after the key is    *)
(* really taken out: at any moment, under any interleaving of add and      *)
(* remove, it is the number of keys of relations and of the removals that  *)
(* have still to count, so it is exact when none is in between.            *)
(***************************************************************************)
TopicsCounted == topicsCount = Cardinality(entries) + Cardinality(Owing("uncounted"))

(***************************************************************************)
(* relations_count may stay too high, after a key is dropped with a        *)
(* relation under it, but is below the number of relations only by the     *)
(* adds that have inserted one and have still to count it.                 *)
(***************************************************************************)
NeverUndercounted ==
    relationsCount + Cardinality(Owing("added")) >= Cardinality(Routes)

(***************************************************************************)
(* As long as calls came one at a time, the tree, the map and the          *)
(* relations agree whenever no call is in progress: the filters publishes  *)
(* are matched with are the ones that have subscribers.                    *)
(***************************************************************************)
Consistent ==
    (Quiet /\ ~overlapped) =>
        topics = entries /\ entries = {f \in Filters : rels[f] # {}}

(***************************************************************************)
(* As long as calls came one at a time, relations_count, reported as       *)
(* routes.count, is the number of relations, but for the one an add has    *)
(* just inserted.                                                          *)
(***************************************************************************)
RoutesCounted ==
    ~overlapped => relationsCount + Cardinality(Owing("added")) = Cardinality(Routes)

(***************************************************************************)
(* What the router keeps beside the relations can be relied on: the two    *)
(* counters under any interleaving of add and remove, up to what the calls *)
(* in progress owe them, and the tree and the exact count too when calls   *)
(* do not overlap.                                                         *)
(***************************************************************************)
RoutesKept == TopicsCounted /\ NeverUndercounted /\ Consistent /\ RoutesCounted
=============================================================================
