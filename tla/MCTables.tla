------------------------------ MODULE MCTables ------------------------------
(***************************************************************************)
(* Instances of TopicTree, Retainer, Router and ClientLock for TLC.  The   *)
(* four tables of a node share no state here, so a behaviour exercises one *)
(* of them and leaves the others in their initial states.                  *)
(***************************************************************************)
EXTENDS TopicTree, Retainer, Router, ClientLock

CONSTANT Parts  \* the tables to exercise
VARIABLE part   \* the one this behaviour is about

TablesInit == part \in Parts /\ TreeInit /\ RetainInit /\ Init /\ LockInit

TablesNext ==
    /\ \/ part = "filters" /\ TreeNext /\ UNCHANGED <<retainVars, vars, lockVars>>
       \/ part = "retained" /\ RetainNext /\ UNCHANGED <<treeVars, vars, lockVars>>
       \/ part = "routes" /\ Next /\ UNCHANGED <<treeVars, retainVars, lockVars>>
       \/ part = "locks" /\ LockNext /\ UNCHANGED <<treeVars, retainVars, vars>>
    /\ UNCHANGED part

TablesSpec == TablesInit /\ [][TablesNext]_<<part, treeVars, retainVars, vars, lockVars>>

\* A topic, one two levels below, and one no leading wildcard may see
SomeTopics == {<<"a">>, <<"a", "b", "a">>, <<"$s", "b">>}

\* All filters but those with the level "b", or "$s" below the first
SomeFilters ==
    {f \in TopicFilters : \A i \in DOMAIN f : f[i] # "b" /\ (i > 1 => f[i] # "$s")}

\* Routes treat filters, clients and connections alike
Symmetry == Permutations(Filters) \cup Permutations(Clients) \cup Permutations(Conns)
=============================================================================
