------------------------------- MODULE MCFair -------------------------------
(***************************************************************************)
(* What must happen in the end: the handshakes and wills of SessionLife,   *)
(* the subscriptions of the ingress bridge (Bridge) and the answers of the *)
(* gRPC client (GrpcMailbox).  They share no state: a behaviour belongs to *)
(* one of them, named by part, and fairness is that of its part only.      *)
(***************************************************************************)
EXTENDS MCSessionLife, Bridge, GrpcMailbox

VARIABLE part

fairVars == <<part, vars, brVars, gmVars>>

\* Bridges: two clients of a shared subscription beside a bridge of a protocol
\* version that is not implemented; one that is started twice; two entries
Configured(name, ver, limit, entries) ==
    [name |-> name, enable |-> TRUE, ver |-> ver, limit |-> limit, entries |-> entries]
MCBrPlans ==
    {[bridges |-> <<Configured("b1", "v4", 2, <<[shared |-> TRUE]>>),
                    Configured("b2", "v3", 1, <<[shared |-> FALSE]>>)>>,
      starts |-> 1, faults |-> 2],
     [bridges |-> <<Configured("b1", "v5", 2, <<[shared |-> FALSE]>>)>>,
      starts |-> 2, faults |-> 2],
     [bridges |-> <<Configured("b1", "v4", 1, <<[shared |-> FALSE], [shared |-> TRUE]>>)>>,
      starts |-> 1, faults |-> 2]}
-----------------------------------------------------------------------------
PartsInit ==
    /\ part \in {"session", "bridge", "grpc"}
    /\ Init
    /\ BrInit /\ (part # "bridge" => brPlan = CHOOSE p \in BrPlans : TRUE)
    /\ GmInit

PartsNext ==
    /\ UNCHANGED part
    /\ \/ part = "session" /\ Next /\ UNCHANGED <<brVars, gmVars>>
       \/ part = "bridge" /\ BrNext /\ UNCHANGED <<vars, gmVars>>
       \/ part = "grpc" /\ GmNext /\ UNCHANGED <<vars, brVars>>

\* The fairness of FairSpec, BrFairness and GmFairness, each for its part
PartsFairness ==
    /\ \A a \in Actors : WF_vars(part = "session" /\ KickStep(a))
    /\ \A c \in Conns : /\ WF_vars(part = "session" /\ HandshakeStep(c))
                        /\ WF_vars(part = "session" /\ TaskStep(c))
                        /\ WF_vars(part = "session" /\ WillDelay(c))
                        /\ WF_vars(part = "session" /\ SessionExpiry(c))
    /\ WF_brVars(part = "bridge" /\ BrManagerStep)
    /\ \A c \in Clients : /\ WF_brVars(part = "bridge" /\ BrStartStep(c))
                          /\ WF_brVars(part = "bridge" /\ BrSubscribeStep(c))
                          /\ WF_brVars(part = "bridge" /\ BrClose(c))
    /\ WF_gmVars(part = "grpc" /\ GmMerge)
    /\ WF_gmVars(part = "grpc" /\ \E s \in gmSends : GmConnect(s))
    /\ WF_gmVars(part = "grpc" /\ \E s \in gmSends : \E c \in GmCalls : GmHandle(s, c))
    /\ WF_gmVars(part = "grpc" /\ \E s \in gmSends : GmReturn(s))
    /\ WF_gmVars(part = "grpc" /\ \E s \in gmSends : GmDistribute(s))

PartsSpec == PartsInit /\ [][PartsNext]_fairVars /\ PartsFairness
=============================================================================
