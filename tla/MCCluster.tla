------------------------------ MODULE MCCluster ------------------------------
(***************************************************************************)
(* Instances of RaftCluster and BroadcastCluster for TLC.  A cluster is of *)
(* one kind or the other, and so is a behaviour.                           *)
(***************************************************************************)
EXTENDS RaftCluster, BroadcastCluster, TLC

CONSTANTS n1, n2, n3, u1, u2, u3, c1, c2, c3

VARIABLE kind   \* the kind of cluster

\* The other kind's variables stay as they are, in one of its initial states
ClusterInit ==
    /\ kind \in {"raft", "broadcast"} /\ RaftInit /\ BroadcastInit
    /\ kind = "raft" => cast = CHOOSE g \in Gatherings : TRUE
    /\ kind = "broadcast" => scene = CHOOSE s \in Scenarios : TRUE

ClusterNext ==
    /\ \/ kind = "raft" /\ RaftNext /\ UNCHANGED bvars
       \/ kind = "broadcast" /\ BroadcastNext /\ UNCHANGED vars
    /\ UNCHANGED kind

ClusterSpec == ClusterInit /\ [][ClusterNext]_<<kind, vars, bvars>>

Scene(node, clean, unlucky, time, resends, subscribes, lag) ==
    [node |-> node, clean |-> clean, unlucky |-> unlucky, time |-> time,
     resends |-> resends, subscribes |-> subscribes, lag |-> lag]

\* Raft: a client that moves and returns, with a failing handshake; subscriptions
\* carried to another node, with proposals sent twice and with a node far behind;
\* carried to the same one; a clean start; lost calls and locks past their timeout;
\* subscriptions, removals and reports that fail, on two nodes and on one
TheScenarios ==
    {Scene(<<n1, n2, n1>>, {}, {2}, 0, 0, 0, 1),
     Scene(<<n1, n2>>, {}, {}, 0, 1, 1, 1),
     Scene(<<n1, n2>>, {}, {}, 0, 0, 1, 2),
     Scene(<<n1, n1>>, {}, {}, 0, 0, 2, 1),
     Scene(<<n1, n2>>, {2}, {}, 0, 0, 1, 1),
     Scene(<<n1, n2>>, {}, {2}, 1, 0, 0, 1),
     Scene(<<n1, n2>>, {}, {2}, 0, 0, 1, 1),
     Scene(<<n1, n1>>, {}, {1}, 0, 0, 1, 1)}

At3(a, b, c) == c1 :> a @@ c2 :> b @@ c3 :> c

Gathering(node, client, clean, group, lossy) ==
    [node |-> node, client |-> client, clean |-> clean, group |-> group,
     publisher |-> n1, lossy |-> lossy]

\* Broadcast: a client that moves, with lost calls and with a clean start; a group on
\* two nodes beside a plain subscriber; a group whose member moves
TheGatherings ==
    {Gathering(At3(n1, n2, n3), At3(u1, u1, u1), {}, {}, TRUE),
     Gathering(At3(n1, n2, n3), At3(u1, u1, u1), {c2}, {}, FALSE),
     Gathering(At3(n2, n2, n3), At3(u1, u2, u3), {}, {u1, u3}, FALSE),
     Gathering(At3(n1, n2, n2), At3(u1, u2, u1), {}, {u1, u2}, TRUE)}
=============================================================================
