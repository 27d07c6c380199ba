---------------------------- MODULE DeliverQueue ----------------------------
(***************************************************************************)
(* The deliver queue of a session, rmqtt/src/broker/queue.rs: a queue that *)
(* refuses when longer than its cap, a sender that then drops by a policy, *)
(* and a channel of wake-up tokens read by a rate-limited receiver.        *)
(***************************************************************************)
EXTENDS Integers, Sequences

CONSTANT MaxMQueueLen   \* cap of the queue (max_mqueue_len)

ASSUME DeliverQueueAssumption == MaxMQueueLen \in Nat

\* Queue::push refuses
Full(q) == Len(q) > MaxMQueueLen

\* The policy of SessionState::deliver_queue_channel
Policy(p) == IF p.qos = 0 THEN "Current" ELSE "Early"

\* The queue after Sender::send(p)
SendQueue(q, p) ==
    IF ~Full(q) THEN Append(q, p)
    ELSE IF Policy(p) = "Early" THEN Append(Tail(q), p) ELSE q

\* mutant: a token for every message, the dropped ones included
SendTokens_always(q, t) == t + 1

(***************************************************************************)
(* The tokens after Sender::send(p): one more when the first push worked.  *)
(* try_send goes through a fresh clone of the channel's sender, and such a *)
(* clone owns a slot of its own, so it does not meet a full channel.       *)
(***************************************************************************)
SendTokens(q, t) == IF ~Full(q) THEN t + 1 ELSE t

\* mutant: the message that pushed out an early one is reported
SendDropped_current(q, p) == IF ~Full(q) THEN {} ELSE {p.msg}

\* What Sender::send(p) gives back to its caller, who reports it dropped
SendDropped(q, p) ==
    IF ~Full(q) THEN {}
    ELSE IF Policy(p) = "Early" THEN {Head(q).msg} ELSE {p.msg}
=============================================================================
