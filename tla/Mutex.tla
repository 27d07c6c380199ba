------------------------------- MODULE Mutex --------------------------------
(***************************************************************************)
(* What try_lock of a client's entry promises to the handshakes: at most   *)
(* one caller holds the client, and a caller is turned away only while     *)
(* another one holds it.                                                   *)
(***************************************************************************)
CONSTANTS Threads, None

VARIABLES
    holder,     \* the caller that holds the client, or None
    outcome     \* outcome[t]: what t's last try_lock gave

vars == <<holder, outcome>>

Init == holder = None /\ outcome = [t \in Threads |-> "none"]

Acquire(t) ==
    /\ holder = None
    /\ holder' = t
    /\ outcome' = [outcome EXCEPT ![t] = "ok"]

TurnAway(t) ==
    /\ holder \notin {None, t}
    /\ outcome' = [outcome EXCEPT ![t] = "refused"]
    /\ UNCHANGED holder

Release(t) ==
    /\ holder = t
    /\ holder' = None
    /\ UNCHANGED outcome

Next == \E t \in Threads : Acquire(t) \/ TurnAway(t) \/ Release(t)

Spec == Init /\ [][Next]_vars
=============================================================================
