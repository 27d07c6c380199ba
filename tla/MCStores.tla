------------------------------ MODULE MCStores ------------------------------
(***************************************************************************)
(* Instances of SessionStorage, RetainStore and MessageStore for TLC.  The *)
(* three plugins keep their keys apart in the database, so a behaviour     *)
(* exercises one of them and leaves the others in an initial state.        *)
(***************************************************************************)
EXTENDS SessionStorage, RetainStore, MessageStore, TLC

CONSTANTS t1, t2, c1, c2

VARIABLE part   \* the plugin this behaviour is about

StoresInit ==
    /\ part \in {"sessions", "retained", "messages"}
    /\ StorageInit /\ KeepInit /\ StInit
    /\ part # "sessions" => shape = CHOOSE s \in Shapes : TRUE
    /\ part # "retained" => calls = CHOOSE s \in KeepScripts : TRUE
    /\ part # "messages" => stCast = CHOOSE s \in StCasts : TRUE

StoresNext ==
    /\ \/ part = "sessions" /\ StorageNext /\ UNCHANGED <<keepVars, stVars>>
       \/ part = "retained" /\ KeepNext /\ UNCHANGED <<storageVars, stVars>>
       \/ part = "messages" /\ StNext /\ UNCHANGED <<storageVars, keepVars>>
    /\ UNCHANGED part

StoresSpec == StoresInit /\ [][StoresNext]_<<part, storageVars, keepVars, stVars>>

Shape(ids, time, crashes, ops, msgs, clean, idle, race, exps) ==
    [ids |-> ids, time |-> time, crashes |-> crashes, ops |-> ops, msgs |-> msgs,
     clean |-> clean, idle |-> idle, race |-> race, exps |-> exps]

\* A takeover with a subscription; keepalives and two crashes; a DISCONNECT that
\* changes the expiry interval; a clean start; offline and in-flight messages over
\* two crashes
TheShapes ==
    {Shape(2, 2, 1, 1, 0, FALSE, FALSE, FALSE, {}),
     Shape(1, 4, 2, 1, 0, FALSE, TRUE, FALSE, {}),
     Shape(1, 4, 1, 0, 0, FALSE, FALSE, FALSE, {0, 1, 3}),
     Shape(2, 1, 1, 1, 0, TRUE, FALSE, TRUE, {}),
     Shape(1, 3, 2, 1, 3, FALSE, FALSE, FALSE, {})}

PlainMsg(n, t) == KeepMsg(n, t, "plain", FALSE)
MortalMsg(n, t) == KeepMsg(n, t, "plain", TRUE)
EmptyMsg(n, t) == KeepMsg(n, t, "empty", FALSE)

\* Deletions, replacements, expiry intervals and a payload that is too large
TheScripts ==
    {<<PlainMsg(1, t1), EmptyMsg(2, t1), PlainMsg(3, t1)>>,
     <<MortalMsg(1, t1), PlainMsg(2, t1), EmptyMsg(3, t1)>>,
     <<PlainMsg(1, t1), PlainMsg(2, t2), PlainMsg(3, t1)>>,
     <<PlainMsg(1, t1), KeepMsg(2, t1, "large", FALSE), PlainMsg(3, t2)>>,
     <<MortalMsg(1, t1), MortalMsg(2, t1), PlainMsg(3, t2)>>,
     <<PlainMsg(1, t1), EmptyMsg(2, t1), PlainMsg(3, t2)>>}

StCast(live, group, mortal, gets, fails) ==
    [live |-> live, group |-> c1 :> group @@ c2 :> group, mortal |-> mortal,
     gets |-> gets, faults |-> fails]

\* Two messages and a load with two faults; a client that loads three times; a group
\* that loads twice; a group with a member online; three messages and a restart
TheStCasts ==
    {StCast(1 :> {c1} @@ 2 :> {}, "", FALSE, 1, 2),
     StCast(1 :> {}, "", FALSE, 3, 0),
     StCast(1 :> {}, "g", TRUE, 2, 1),
     StCast(1 :> {c1} @@ 2 :> {}, "g", TRUE, 1, 1),
     StCast(1 :> {} @@ 2 :> {c1} @@ 3 :> {}, "", FALSE, 0, 1)}
=============================================================================
