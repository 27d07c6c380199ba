----------------------------- MODULE TopicTree ------------------------------
(***************************************************************************)
(* The tree of topic filters the router matches publishes against,         *)
(* rmqtt/src/broker/topic.rs.  A tree is a function from the paths of its  *)
(* nodes to their value sets; << >> is the root, and the branches of a     *)
(* node are the nodes one level longer.                                    *)
(***************************************************************************)
EXTENDS Topics, FiniteSets

CONSTANTS
    Inserted,   \* bound: the filters inserted and removed
    Values,     \* what is stored under a filter: () on a single node
    MaxHeld     \* bound on the number of (filter, value) pairs in the tree

ASSUME TopicTreeAssumption == Inserted \subseteq TopicFilters

VARIABLES
    filters,    \* the Node structure
    held        \* history: the pairs inserted and not removed since

treeVars == <<filters, held>>

\* Node::_insert: every level is entry(..).or_default()
InsertFilter(t, f, v) ==
    [p \in DOMAIN t \cup Prefixes(f) |->
        (IF p \in DOMAIN t THEN t[p] ELSE {}) \cup (IF p = f THEN {v} ELSE {})]

Without(t, p) == [q \in DOMAIN t \ {p} |-> t[q]]

\* The test each level of Node::_remove makes of its child on the way back
Useless(t, p) == p \in DOMAIN t /\ t[p] = {} /\ Children(t, p) = {}

RECURSIVE Prune(_, _)
Prune(t, p) ==
    IF p = << >> THEN t
    ELSE Prune(IF Useless(t, p) THEN Without(t, p) ELSE t, Front(p))

\* Node::_remove
RemoveFilter(t, f, v) ==
    Prune(IF f \in DOMAIN t THEN [t EXCEPT ![f] = @ \ {v}] ELSE t, f)

\* MatchedIter::add_to_items, for a node that may not exist
Items(t, p) == IF p \in DOMAIN t /\ t[p] # {} THEN << <<p, t[p]>> >> ELSE << >>

\* mutant: "a/#" does not match "a"
AtEnd_noParent(t, node) == Items(t, node)

\* The items of a node whose path is used up: its own and those of its "#"
AtEnd(t, node) == Items(t, node) \o Items(t, Append(node, MultiWildcard))

\* Wildcards at the root are skipped for a topic that starts with $
Hidden(node, path) == node = << >> /\ path[1] \in Metadata

(***************************************************************************)
(* MatchedIter: prepare collects the items of "#" and one iterator each    *)
(* for "+" and for the level itself; next drains them in this order.       *)
(***************************************************************************)
RECURSIVE Matched(_, _, _)
Matched(t, node, path) ==
    IF node \notin DOMAIN t THEN << >>
    ELSE IF path = << >> THEN AtEnd(t, node)
    ELSE (IF Hidden(node, path) THEN << >>
          ELSE Items(t, Append(node, MultiWildcard))
               \o Matched(t, Append(node, SingleWildcard), Tail(path)))
         \o Matched(t, Append(node, path[1]), Tail(path))

\* Node::matches and Node::is_match
TreeMatches(t, topic) == Matched(t, << >>, topic)
IsMatch(t, topic) == TreeMatches(t, topic) # << >>

TreeInit == filters = (<< >> :> {}) /\ held = {}

\* Node::insert
NodeInsert(f, v) ==
    /\ Cardinality(held \cup {<<f, v>>}) <= MaxHeld
    /\ filters' = InsertFilter(filters, f, v)
    /\ held' = held \cup {<<f, v>>}

\* Node::remove, of a pair that may not be there
NodeRemove(f, v) ==
    /\ filters' = RemoveFilter(filters, f, v)
    /\ held' = held \ {<<f, v>>}

TreeNext == \E f \in Inserted, v \in Values : NodeInsert(f, v) \/ NodeRemove(f, v)

TreeSpec == TreeInit /\ [][TreeNext]_treeVars

-----------------------------------------------------------------------------
ValuesOf(f) == {v \in Values : <<f, v>> \in held}

(***************************************************************************)
(* Walking the tree (MatchedIter) finds, for every topic, exactly the      *)
(* filters MQTT says match it, each once and with all of its values,       *)
(* whatever was inserted and removed before.                               *)
(***************************************************************************)
MatchesExactly ==
    \A topic \in TopicNames :
        LET found == TreeMatches(filters, topic)
        IN  /\ \A i, j \in DOMAIN found : found[i][1] = found[j][1] => i = j
            /\ ToSet(found) = {<<f, ValuesOf(f)>> :
                                   f \in {h[1] : h \in {g \in held : FilterMatches(g[1], topic)}}}
=============================================================================
