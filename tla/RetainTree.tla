----------------------------- MODULE RetainTree -----------------------------
(***************************************************************************)
(* The tree of retained messages, rmqtt/src/broker/retain.rs: topic names  *)
(* with one optional value each, looked up by topic filter.  A tree is a   *)
(* function from the paths of its nodes to a value or to Empty.            *)
(***************************************************************************)
EXTENDS Topics, FiniteSets

CONSTANT Empty      \* value: None

EmptyTree == << >> :> Empty

ValueAt(t, p) == IF p \in DOMAIN t THEN t[p] ELSE Empty

\* Node::_insert
InsertInto(t, p, v) ==
    [q \in DOMAIN t \cup Prefixes(p) |-> IF q = p THEN v ELSE ValueAt(t, q)]

(***************************************************************************)
(* Both Node::_remove and Node::_retain drop a child that has neither a    *)
(* value nor branches left, the deepest first: what stays is the root and  *)
(* the nodes above a value.  _remove looks along one path only, but a      *)
(* useless node can only be there.                                         *)
(***************************************************************************)
Pruned(t) ==
    [q \in {p \in DOMAIN t : p = << >> \/ \E r \in DOMAIN t : p \in Prefixes(r) /\ t[r] # Empty}
        |-> t[q]]

\* Node::_remove
RemoveFrom(t, p) == Pruned(IF p \in DOMAIN t THEN [t EXCEPT ![p] = Empty] ELSE t)

\* Node::retain with max_limit = usize::MAX; gone are the values f refuses
Retain(t, gone) == Pruned([p \in DOMAIN t |-> IF t[p] \in gone THEN Empty ELSE t[p]])

Item(t, p) == IF t[p] # Empty THEN {<<p, t[p]>>} ELSE {}

\* mutant: the $ rule is left out
Visible_all(t, node) == Children(t, node)

\* A wildcard at the first level does not see the branches that start with $
Visible(t, node) ==
    {c \in Children(t, node) : ~(node = << >> /\ c[1] \in Metadata)}

\* "# Match parent": the child's own value when the next level is a final "#"
ParentItem(t, child, path) ==
    IF Len(path) > 1 /\ path[2] = MultiWildcard THEN Item(t, child) ELSE {}

(***************************************************************************)
(* Node::_matches(path) at node.  The code pushes to a vector; no topic is *)
(* pushed twice, as one child is visited once and a "#" that has already   *)
(* reported a node goes on with its branches.                              *)
(***************************************************************************)
RECURSIVE Found(_, _, _)
Found(t, node, path) ==
    IF path = << >> THEN Item(t, node)
    ELSE LET exact == Append(node, path[1])
         IN  IF exact \in DOMAIN t
             THEN ParentItem(t, exact, path) \cup Found(t, exact, Tail(path))
             ELSE IF path[1] = SingleWildcard
             THEN UNION {ParentItem(t, c, path) \cup Found(t, c, Tail(path)) :
                             c \in Visible(t, node)}
             ELSE IF path[1] = MultiWildcard
             THEN UNION {Item(t, c) \cup Found(t, c, path) : c \in Visible(t, node)}
             ELSE {}

\* Node::matches
Matches(t, filter) == Found(t, << >>, filter)
=============================================================================
