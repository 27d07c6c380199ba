----------------------------- MODULE GrpcMailbox -----------------------------
(***************************************************************************)
(* A node's gRPC client for another node (NodeGrpcClient) and the service  *)
(* it calls.  Callers queue a message with a one-shot channel for the      *)
(* reply; one task takes what is queued as a batch and sends it, in a task *)
(* of its own while fewer than client_concurrency_limit are active, and    *)
(* hands the replies out in the order of the batch.                        *)
(***************************************************************************)
EXTENDS Integers, Sequences, FiniteSets, SequencesExt

CONSTANTS
    GmCalls,      \* the calls; each has one message
    GmImpatient,  \* bound: the calls whose task may end while it waits
    GmBatch,      \* batch_size
    GmLimit,      \* client_concurrency_limit
    GmChannel,    \* capacity of the channel (100,000)
    GmFaults      \* bound: connects, requests and replies that fail

ASSUME MailboxAssumption ==
    /\ GmImpatient \subseteq GmCalls
    /\ GmBatch \in Nat \ {0} /\ GmChannel \in Nat \ {0}
    /\ GmLimit \in Nat /\ GmFaults \in Nat

VARIABLES
    gmCall,       \* per call: "new" | "waiting" | "gone" | "reply" | "error"
    gmReply,      \* per call: the call whose message the reply is for
    gmChan,       \* the channel
    gmLoop,       \* the batch the loop sends itself, <<>> if it receives
    gmSends,      \* running _send tasks: batch, stage, replies
    gmConnected,  \* the shared connection is there
    gmActive,     \* active_tasks
    gmServed,     \* messages the service handled
    gmFaults

gmVars == <<gmCall, gmReply, gmChan, gmLoop, gmSends, gmConnected, gmActive,
            gmServed, gmFaults>>

NoOne == "no one"

GmInit ==
    /\ gmCall = [c \in GmCalls |-> "new"]
    /\ gmReply = [c \in GmCalls |-> NoOne]
    /\ gmChan = <<>> /\ gmLoop = <<>>
    /\ gmSends = {}
    /\ gmConnected = FALSE
    /\ gmActive = 0 /\ gmServed = {} /\ gmFaults = 0

GmFault == gmFaults < GmFaults /\ gmFaults' = gmFaults + 1

\* batch_send_message.
GmSend(c) ==
    /\ gmCall[c] = "new" /\ Len(gmChan) < GmChannel
    /\ gmCall' = [gmCall EXCEPT ![c] = "waiting"]
    /\ gmChan' = Append(gmChan, c)
    /\ UNCHANGED <<gmReply, gmLoop, gmSends, gmConnected, gmActive, gmServed, gmFaults>>

\* The caller's task ends while it waits; its message stays.
GmGiveUp(c) ==
    /\ gmCall[c] = "waiting" /\ c \in GmImpatient
    /\ gmCall' = [gmCall EXCEPT ![c] = "gone"]
    /\ UNCHANGED <<gmReply, gmChan, gmLoop, gmSends, gmConnected, gmActive, gmServed,
                   gmFaults>>

\* A _send task: the batch, how far it is, the messages the service handled and
\* those it failed on, the replies.
SendTask(batch, at, got, bad, replies) ==
    [batch |-> batch, at |-> at, got |-> got, bad |-> bad, replies |-> replies]

\* start: the first message and the ones queued behind it; the batch is
\* sent by a task of its own, or by the loop once too many are active.
GmMerge ==
    /\ gmLoop = <<>> /\ gmChan # <<>>
    /\ LET n == IF Len(gmChan) < GmBatch THEN Len(gmChan) ELSE GmBatch
           batch == SubSeq(gmChan, 1, n) IN
       /\ gmChan' = SubSeq(gmChan, n + 1, Len(gmChan))
       /\ gmSends' = gmSends \union {SendTask(batch, "connect", <<>>, {}, <<>>)}
       /\ gmLoop' = IF gmActive < GmLimit THEN <<>> ELSE batch
    /\ UNCHANGED <<gmCall, gmReply, gmConnected, gmActive, gmServed, gmFaults>>

Step(s, t) == gmSends' = (gmSends \ {s}) \union {t}

\* connect, and then the task counts as active.
GmConnect(s) ==
    /\ s \in gmSends /\ s.at = "connect"
    /\ \/ /\ gmConnected' = TRUE
          /\ gmActive' = gmActive + 1
          /\ Step(s, SendTask(s.batch, "request", <<>>, {}, <<>>))
          /\ UNCHANGED gmFaults
       \/ /\ ~gmConnected /\ GmFault
          /\ Step(s, SendTask(s.batch, "failed", <<>>, {}, <<>>))
          /\ UNCHANGED <<gmConnected, gmActive>>
    /\ UNCHANGED <<gmCall, gmReply, gmChan, gmLoop, gmServed>>

\* The service handles one message of the request; its failure is the
\* request's when there is only one, and that message's in a batch.
GmHandle(s, c) ==
    /\ s \in gmSends /\ s.at = "request" /\ c \in Range(s.batch) \ Range(s.got)
    /\ gmServed' = gmServed \union {c}
    /\ \/ /\ Step(s, SendTask(s.batch, "request", Append(s.got, c), s.bad, <<>>))
          /\ UNCHANGED gmFaults
       \/ /\ GmFault
          /\ Step(s, SendTask(s.batch, "request", Append(s.got, c), s.bad \union {c}, <<>>))
    /\ UNCHANGED <<gmCall, gmReply, gmChan, gmLoop, gmConnected, gmActive>>

\* mutant: replies in the order the handlers ended
InOrder_ended(s) == [i \in DOMAIN s.got |-> IF s.got[i] \in s.bad THEN NoOne ELSE s.got[i]]

\* join_all keeps the order of the messages, whatever order they end in.
InOrder(s) == [i \in DOMAIN s.batch |-> IF s.batch[i] \in s.bad THEN NoOne ELSE s.batch[i]]

\* The response is there, or the request failed or timed out.
GmReturn(s) ==
    /\ s \in gmSends /\ s.at = "request"
    /\ gmActive' = gmActive - 1
    /\ \/ /\ Range(s.batch) \subseteq Range(s.got)
          /\ Step(s, SendTask(s.batch, "replies", <<>>, {}, InOrder(s)))
          /\ UNCHANGED gmFaults
       \/ GmFault /\ Step(s, SendTask(s.batch, "failed", <<>>, {}, <<>>))
    /\ UNCHANGED <<gmCall, gmReply, gmChan, gmLoop, gmConnected, gmServed>>

Give(c, r) ==
    IF gmCall[c] = "waiting"
    THEN /\ gmCall' = [gmCall EXCEPT ![c] = IF r = NoOne THEN "error" ELSE "reply"]
         /\ gmReply' = [gmReply EXCEPT ![c] = r]
    ELSE UNCHANGED <<gmCall, gmReply>>

\* mutant: one caller of a failed batch is told
GmDistribute_lost(s) ==
    /\ s \in gmSends /\ s.at \in {"replies", "failed"}
    /\ Give(Head(s.batch), IF s.at = "failed" THEN NoOne ELSE Head(s.replies))
    /\ IF Len(s.batch) = 1 \/ s.at = "failed"
       THEN /\ gmSends' = gmSends \ {s}
            /\ gmLoop' = IF gmLoop # <<>> /\ Last(gmLoop) = Last(s.batch)
                         THEN <<>> ELSE gmLoop
       ELSE /\ Step(s, SendTask(Tail(s.batch), s.at, <<>>, {}, Tail(s.replies)))
            /\ UNCHANGED gmLoop
    /\ UNCHANGED <<gmChan, gmConnected, gmActive, gmServed, gmFaults>>

\* Each reply goes to the next one-shot channel, an error reply as an error;
\* when the request failed every channel gets an error.
GmDistribute(s) ==
    /\ s \in gmSends /\ s.at \in {"replies", "failed"}
    /\ Give(Head(s.batch), IF s.at = "failed" THEN NoOne ELSE Head(s.replies))
    /\ IF Len(s.batch) = 1
       THEN /\ gmSends' = gmSends \ {s}
            /\ gmLoop' = IF gmLoop # <<>> /\ Last(gmLoop) = Last(s.batch)
                         THEN <<>> ELSE gmLoop
       ELSE /\ Step(s, SendTask(Tail(s.batch), s.at, <<>>, {},
                               IF s.at = "failed" THEN <<>> ELSE Tail(s.replies)))
            /\ UNCHANGED gmLoop
    /\ UNCHANGED <<gmChan, gmConnected, gmActive, gmServed, gmFaults>>

GmNext ==
    \/ \E c \in GmCalls : GmSend(c) \/ GmGiveUp(c)
    \/ GmMerge
    \/ \E s \in gmSends : \/ GmConnect(s) \/ GmReturn(s) \/ GmDistribute(s)
                          \/ \E c \in GmCalls : GmHandle(s, c)

GmSpec == GmInit /\ [][GmNext]_gmVars

\* The loop and the tasks run; the service and the client's timeout end
\* every request.
GmFairness ==
    /\ WF_gmVars(GmMerge)
    /\ WF_gmVars(\E s \in gmSends : GmConnect(s))
    /\ WF_gmVars(\E s \in gmSends : \E c \in GmCalls : GmHandle(s, c))
    /\ WF_gmVars(\E s \in gmSends : GmReturn(s))
    /\ WF_gmVars(\E s \in gmSends : GmDistribute(s))

GmFairSpec == GmSpec /\ GmFairness

------------------------------------------------------------------------------
(***************************************************************************)
(* A caller gets the reply to its own message, whatever was batched with   *)
(* it, failed in the batch or gave up waiting (_send pairs replies and     *)
(* one-shot channels by position), and only after the service handled it.  *)
(***************************************************************************)
RepliesPaired ==
    \A c \in GmCalls :
       gmCall[c] = "reply" => gmReply[c] = c /\ c \in gmServed

(***************************************************************************)
(* Every call that was queued is answered, with a reply or an error, or    *)
(* its caller is gone.                                                     *)
(***************************************************************************)
CallsAnswered ==
    \A c \in GmCalls : gmCall[c] = "waiting" ~> gmCall[c] # "waiting"
==============================================================================
