----------------------------- MODULE MCMessages -----------------------------
(***************************************************************************)
(* Instances of PublishFlow and Takeover for TLC: the way of a message to  *)
(* the sessions' channels, and from one session of a client to the next.   *)
(* A behaviour is about one of them and leaves the other as it began.      *)
(***************************************************************************)
EXTENDS MCPublish, Takeover

VARIABLE leg   \* the part of the way this behaviour is about

MessagesInit ==
    /\ leg \in {"publish", "takeover"} /\ Init /\ TakeoverInit
    /\ leg = "takeover" => cast = CHOOSE k \in Casts : TRUE

MessagesNext ==
    /\ \/ leg = "publish" /\ Next /\ UNCHANGED takeoverVars
       \/ leg = "takeover" /\ TakeoverNext /\ UNCHANGED vars
    /\ UNCHANGED leg

MessagesSpec == MessagesInit /\ [][MessagesNext]_<<leg, vars, takeoverVars>>
=============================================================================
