------------------------------ MODULE Delivery ------------------------------
(***************************************************************************)
(* One online session of the broker and the client at the other end of its *)
(* connection: the event loop of SessionState::start                       *)
(* (rmqtt/src/broker/session.rs), with deliver and reforward, and the      *)
(* acknowledgement handler publish of rmqtt/src/broker/v3.rs.              *)
(*                                                                         *)
(* Two tasks touch the in-flight window: the event loop and the connection *)
(* task that handles acknowledgements.  Both take the window's RwLock.     *)
(* The retry branch of the loop is                                         *)
(*     while let Some(m) = window.write().await.pop_front_timeout() { .. } *)
(* whose write guard is a temporary of the loop condition: it lives until  *)
(* the end of the body, and the body asks for the same lock again when it  *)
(* re-sends a PUBREL.  loop = "relock" is the task waiting at that call.   *)
(***************************************************************************)
EXTENDS Inflight, DeliverQueue

CONSTANTS
    QosLevels,  \* the QoS values messages are forwarded with
    Retry,      \* message_retry_interval or message_expiry_interval is not 0
    MayExpire,  \* message_expiry_check may find a message expired
    MayFail,    \* Sink::send may return an error
    MaxMsgs,    \* bound: messages forwarded to the session
    MaxLate     \* bound: times an entry's retry interval passes

ASSUME DeliveryAssumption ==
    /\ QosLevels \subseteq 0 .. 2
    /\ Retry \in BOOLEAN
    /\ MayExpire \in BOOLEAN
    /\ MayFail \in BOOLEAN
    /\ MaxMsgs \in Nat
    /\ MaxLate \in Nat

VARIABLES
    rx,         \* Message::Forward waiting in the session's channel
    dq,         \* deliver queue
    tokens,     \* wake-up tokens in the deliver queue's channel
    buf,        \* message held by the rate limiter of the receiver
    win,        \* in-flight window
    next,       \* packet id counter
    loop,       \* where the event loop is: "select", "retry" or "relock"
    hand,       \* the popped entry a task at "relock" wants to push back
    toClient,   \* packets on the connection, broker to client
    toBroker,   \* packets on the connection, client to broker
    unreleased, \* client: QoS 2 packet ids it has received, not yet released
    got,        \* client: how often each message reached the application
    forwarded,  \* history: QoS of each message forwarded so far
    dropped,    \* history: messages reported through hook message_dropped
    acked,      \* history: messages reported through hook message_acked
    failed,     \* history: messages of which a send returned an error
    sent,       \* history: messages in the order they were first sent
    lates       \* number of times a retry interval passed

brokerVars == <<rx, dq, tokens, buf, win, next, loop, hand>>
clientVars == <<unreleased, got>>
vars == <<rx, dq, tokens, buf, win, next, loop, hand, toClient, toBroker,
          unreleased, got, forwarded, dropped, acked, failed, sent, lates>>

Msgs == 1 .. MaxMsgs
Publishes == [msg : Msgs, qos : QosLevels, dup : BOOLEAN, pid : 0 .. IdSpan - 1]
Entries == [publish : Publishes, status : MomentStatus, late : BOOLEAN]

PublishPacket(p) == [type |-> "PUBLISH", publish |-> p]
Ack(type, id) == [type |-> type, pid |-> id]
ToClientPackets ==
    [type : {"PUBLISH"}, publish : Publishes] \cup [type : {"PUBREL"}, pid : PacketIds]
ToBrokerPackets == [type : {"PUBACK", "PUBREC", "PUBCOMP"}, pid : PacketIds]

Init ==
    /\ rx = << >> /\ dq = << >> /\ tokens = 0 /\ buf = << >>
    /\ win = << >> /\ next = 1 % IdSpan
    /\ loop = "select" /\ hand = << >>
    /\ toClient = << >> /\ toBroker = << >>
    /\ unreleased = {} /\ got = [m \in Msgs |-> 0]
    /\ forwarded = << >> /\ dropped = {} /\ acked = {} /\ failed = {} /\ sent = << >>
    /\ lates = 0

-----------------------------------------------------------------------------
(* Another session publishes: DefaultShared::forwards_to puts a fresh copy *)
(* in the channel.                                                         *)
Forward(q) ==
    /\ Len(forwarded) < MaxMsgs
    /\ forwarded' = Append(forwarded, q)
    /\ rx' = Append(rx, [msg |-> Len(forwarded) + 1, qos |-> q,
                         dup |-> FALSE, pid |-> NoId])
    /\ UNCHANGED <<dq, tokens, buf, win, next, loop, hand, toClient, toBroker,
                   unreleased, got, dropped, acked, failed, sent, lates>>

\* mutant: newest first
RecvForward_lifo ==
    /\ loop = "select"
    /\ rx # << >>
    /\ rx' = SubSeq(rx, 1, Len(rx) - 1)
    /\ dq' = SendQueue(dq, rx[Len(rx)])
    /\ tokens' = SendTokens(dq, tokens)
    /\ dropped' = dropped \cup SendDropped(dq, rx[Len(rx)])
    /\ UNCHANGED <<buf, win, next, loop, hand, toClient, toBroker,
                   unreleased, got, forwarded, acked, failed, sent, lates>>

(* Event loop, branch msg_rx: Message::Forward. *)
RecvForward ==
    /\ loop = "select"
    /\ rx # << >>
    /\ rx' = Tail(rx)
    /\ dq' = SendQueue(dq, Head(rx))
    /\ tokens' = SendTokens(dq, tokens)
    /\ dropped' = dropped \cup SendDropped(dq, Head(rx))
    /\ UNCHANGED <<buf, win, next, loop, hand, toClient, toBroker,
                   unreleased, got, forwarded, acked, failed, sent, lates>>

(* Event loop, branch deliver_queue_rx, polled when the window has credit: *)
(* the receiver takes a token and pops the queue; the rate limiter holds   *)
(* the item until the quota allows it.                                     *)
Pull ==
    /\ loop = "select"
    /\ HasCredit(win)
    /\ buf = << >>
    /\ tokens > 0
    /\ tokens' = tokens - 1
    /\ buf' = IF dq = << >> THEN << >> ELSE <<Head(dq)>>
    /\ dq' = IF dq = << >> THEN << >> ELSE Tail(dq)
    /\ UNCHANGED <<rx, win, next, loop, hand, toClient, toBroker,
                   unreleased, got, forwarded, dropped, acked, failed, sent, lates>>

(* deliver: the message is expired *)
DeliverExpired ==
    /\ loop = "select"
    /\ HasCredit(win)
    /\ buf # << >>
    /\ MayExpire
    /\ buf' = << >>
    /\ dropped' = dropped \cup {Head(buf).msg}
    /\ UNCHANGED <<rx, dq, tokens, win, next, loop, hand, toClient, toBroker,
                   unreleased, got, forwarded, acked, failed, sent, lates>>

NeedsId(p) == p.qos > 0 /\ (~p.dup \/ p.pid = NoId)

StatusOf(p) == IF p.qos = 1 THEN "UnAck" ELSE "UnReceived"

(* deliver: draw a packet id, send the PUBLISH, keep a QoS 1/2 message in  *)
(* the window.  When no id is found the error is logged and the message is *)
(* gone.                                                                   *)
Deliver ==
    /\ loop = "select"
    /\ HasCredit(win)
    /\ buf # << >>
    /\ buf' = << >>
    /\ LET p == Head(buf)
           id == IF NeedsId(p) THEN NextId(win, next) ELSE p.pid
           out == [p EXCEPT !.pid = id]
       IN  /\ next' = IF NeedsId(p) THEN NextCounter(win, next) ELSE next
           /\ IF NeedsId(p) /\ id = NoId
              THEN UNCHANGED <<toClient, win, sent>>
              ELSE /\ toClient' = Append(toClient, PublishPacket(out))
                   /\ sent' = IF p.dup THEN sent ELSE Append(sent, p.msg)
                   /\ IF p.qos = 0
                      THEN win' = win
                      ELSE win' \in PushBack(win, InflightMessage(StatusOf(p), out))
    /\ UNCHANGED <<rx, dq, tokens, loop, hand, toBroker,
                   unreleased, got, forwarded, dropped, acked, failed, lates>>

(* deliver: sink.publish returns an error, because the connection is gone  *)
(* or the packet cannot be encoded.  The id is drawn; the loop logs the    *)
(* error, and the message is in no buffer and reported by no hook.         *)
DeliverFails ==
    /\ loop = "select"
    /\ HasCredit(win)
    /\ buf # << >>
    /\ MayFail
    /\ buf' = << >>
    /\ next' = IF NeedsId(Head(buf)) THEN NextCounter(win, next) ELSE next
    /\ failed' = failed \cup {Head(buf).msg}
    /\ UNCHANGED <<rx, dq, tokens, win, loop, hand, toClient, toBroker,
                   unreleased, got, forwarded, dropped, acked, sent, lates>>

-----------------------------------------------------------------------------
(* The retry interval of entry i passes. *)
BecomeLate(i) ==
    /\ Retry
    /\ lates < MaxLate
    /\ lates' = lates + 1
    /\ ~win[i].late
    /\ win' = [win EXCEPT ![i].late = TRUE]
    /\ UNCHANGED <<rx, dq, tokens, buf, next, loop, hand, toClient, toBroker,
                   unreleased, got, forwarded, dropped, acked, failed, sent>>

(* Event loop, branch deliver_timeout_delay *)
DeliverTimeout ==
    /\ loop = "select"
    /\ FrontTimeout(win)
    /\ loop' = "retry"
    /\ UNCHANGED <<rx, dq, tokens, buf, win, next, hand, toClient, toBroker,
                   unreleased, got, forwarded, dropped, acked, failed, sent, lates>>

\* mutant: the entry stays in the window
Reforward_keep ==
    /\ loop = "retry"
    /\ FrontTimeout(win)
    /\ Head(win).status # "UnComplete"
    /\ win' = [win EXCEPT ![1].late = FALSE]
    /\ rx' = Append(rx, [Head(win).publish EXCEPT !.dup = TRUE])
    /\ UNCHANGED <<dq, tokens, buf, next, loop, hand, toClient, toBroker,
                   unreleased, got, forwarded, dropped, acked, failed, sent, lates>>

(* reforward, UnAck and UnReceived: back into the own channel, marked dup. *)
Reforward ==
    /\ loop = "retry"
    /\ FrontTimeout(win)
    /\ Head(win).status # "UnComplete"
    /\ win' = Tail(win)
    /\ rx' = Append(rx, [Head(win).publish EXCEPT !.dup = TRUE])
    /\ UNCHANGED <<dq, tokens, buf, next, loop, hand, toClient, toBroker,
                   unreleased, got, forwarded, dropped, acked, failed, sent, lates>>

(* reforward, UnComplete and expired: the entry is forgotten. *)
ReforwardExpired ==
    /\ loop = "retry"
    /\ FrontTimeout(win)
    /\ Head(win).status = "UnComplete"
    /\ MayExpire
    /\ win' = Tail(win)
    /\ UNCHANGED <<rx, dq, tokens, buf, next, loop, hand, toClient, toBroker,
                   unreleased, got, forwarded, dropped, acked, failed, sent, lates>>

(* reforward, UnComplete: PUBREL again, then write() on the window whose   *)
(* write guard this task already holds.  No step leaves "relock".          *)
Rerelease ==
    /\ loop = "retry"
    /\ FrontTimeout(win)
    /\ Head(win).status = "UnComplete"
    /\ win' = Tail(win)
    /\ toClient' = Append(toClient, Ack("PUBREL", Head(win).publish.pid))
    /\ hand' = <<InflightMessage("UnComplete", Head(win).publish)>>
    /\ loop' = "relock"
    /\ UNCHANGED <<rx, dq, tokens, buf, next, toBroker,
                   unreleased, got, forwarded, dropped, acked, failed, sent, lates>>

(* reforward, UnComplete: the sink refuses the PUBREL, and the entry is    *)
(* not put back.  The loop goes on with the next one.                      *)
RereleaseFails ==
    /\ loop = "retry"
    /\ FrontTimeout(win)
    /\ Head(win).status = "UnComplete"
    /\ MayFail
    /\ win' = Tail(win)
    /\ failed' = failed \cup {Head(win).publish.msg}
    /\ UNCHANGED <<rx, dq, tokens, buf, next, loop, hand, toClient, toBroker,
                   unreleased, got, forwarded, dropped, acked, sent, lates>>

RetryDone ==
    /\ loop = "retry"
    /\ ~FrontTimeout(win)
    /\ loop' = "select"
    /\ UNCHANGED <<rx, dq, tokens, buf, win, next, hand, toClient, toBroker,
                   unreleased, got, forwarded, dropped, acked, failed, sent, lates>>

-----------------------------------------------------------------------------
(* The connection task can take the window's write lock. *)
WindowFree == loop # "relock"

\* mutant: the acknowledged entry is not removed
RecvFinalAck_keep ==
    /\ WindowFree
    /\ toBroker # << >>
    /\ Head(toBroker).type \in {"PUBACK", "PUBCOMP"}
    /\ toBroker' = Tail(toBroker)
    /\ acked' = acked \cup {win[i].publish.msg :
                  i \in {j \in DOMAIN win : win[j].publish.pid = Head(toBroker).pid}}
    /\ UNCHANGED <<rx, dq, tokens, buf, win, next, loop, hand, toClient,
                   unreleased, got, forwarded, dropped, failed, sent, lates>>

\* v3 publish: PublishAck and PublishComplete
RecvFinalAck ==
    /\ WindowFree
    /\ toBroker # << >>
    /\ Head(toBroker).type \in {"PUBACK", "PUBCOMP"}
    /\ toBroker' = Tail(toBroker)
    /\ LET id == Head(toBroker).pid
       IN  /\ win' = Remove(win, id)
           /\ acked' = acked \cup {win[i].publish.msg :
                                     i \in {j \in DOMAIN win : win[j].publish.pid = id}}
    /\ UNCHANGED <<rx, dq, tokens, buf, next, loop, hand, toClient,
                   unreleased, got, forwarded, dropped, failed, sent, lates>>

\* v3 publish: PublishReceived; the protocol library answers with PUBREL
RecvPubRec ==
    /\ WindowFree
    /\ toBroker # << >>
    /\ Head(toBroker).type = "PUBREC"
    /\ toBroker' = Tail(toBroker)
    /\ win' = UpdateStatus(win, Head(toBroker).pid, "UnComplete")
    /\ toClient' = Append(toClient, Ack("PUBREL", Head(toBroker).pid))
    /\ UNCHANGED <<rx, dq, tokens, buf, next, loop, hand,
                   unreleased, got, forwarded, dropped, acked, failed, sent, lates>>

-----------------------------------------------------------------------------
(* The client follows MQTT: it acknowledges what it receives, and takes a  *)
(* QoS 2 PUBLISH whose packet id it has not released as a repetition.      *)
ClientPublish ==
    /\ toClient # << >>
    /\ Head(toClient).type = "PUBLISH"
    /\ toClient' = Tail(toClient)
    /\ LET p == Head(toClient).publish
           new == ~(p.qos = 2 /\ p.pid \in unreleased)
       IN  /\ got' = IF new THEN [got EXCEPT ![p.msg] = @ + 1] ELSE got
           /\ unreleased' = IF p.qos = 2 THEN unreleased \cup {p.pid} ELSE unreleased
           /\ toBroker' = IF p.qos = 0 THEN toBroker
                          ELSE Append(toBroker, Ack(IF p.qos = 1 THEN "PUBACK" ELSE "PUBREC", p.pid))
    /\ UNCHANGED <<brokerVars, forwarded, dropped, acked, failed, sent, lates>>

ClientPubRel ==
    /\ toClient # << >>
    /\ Head(toClient).type = "PUBREL"
    /\ toClient' = Tail(toClient)
    /\ unreleased' = unreleased \ {Head(toClient).pid}
    /\ toBroker' = Append(toBroker, Ack("PUBCOMP", Head(toClient).pid))
    /\ UNCHANGED <<brokerVars, got, forwarded, dropped, acked, failed, sent, lates>>

-----------------------------------------------------------------------------
LoopStep ==
    \/ RecvForward \/ Pull \/ DeliverExpired \/ Deliver \/ DeliverFails
    \/ DeliverTimeout \/ Reforward \/ ReforwardExpired \/ Rerelease
    \/ RereleaseFails \/ RetryDone

AckStep == RecvFinalAck \/ RecvPubRec
ClientStep == ClientPublish \/ ClientPubRel

Next ==
    \/ \E q \in QosLevels : Forward(q)
    \/ \E i \in DOMAIN win : BecomeLate(i)
    \/ LoopStep \/ AckStep \/ ClientStep

Spec == Init /\ [][Next]_vars

(* tokio::select! polls its ready branches in random order, so a branch    *)
(* that stays ready is taken; the connection task and a live client keep   *)
(* running.  Nothing says when messages are published or time passes.      *)
FairSpec ==
    /\ Spec
    /\ WF_vars(RecvForward) /\ WF_vars(Pull) /\ WF_vars(Deliver)
    /\ WF_vars(DeliverTimeout) /\ WF_vars(Reforward \/ Rerelease) /\ WF_vars(RetryDone)
    /\ WF_vars(AckStep) /\ WF_vars(ClientStep)

-----------------------------------------------------------------------------
(* Type invariant *)
TypeOK ==
    /\ rx \in Seq(Publishes)
    /\ dq \in Seq(Publishes)
    /\ tokens \in Nat
    /\ buf \in Seq(Publishes)
    /\ win \in Seq(Entries)
    /\ next \in 0 .. IdSpan - 1
    /\ loop \in {"select", "retry", "relock"}
    /\ hand \in Seq(Entries)
    /\ toClient \in Seq(ToClientPackets)
    /\ toBroker \in Seq(ToBrokerPackets)
    /\ unreleased \subseteq PacketIds
    /\ got \in [Msgs -> Nat]
    /\ forwarded \in Seq(QosLevels) /\ Len(forwarded) <= MaxMsgs
    /\ dropped \subseteq Msgs
    /\ acked \subseteq Msgs
    /\ failed \subseteq Msgs
    /\ sent \in Seq(Msgs)
    /\ lates \in Nat

(* The window never outgrows max_inflight, even while the loop re-inserts  *)
(* entries after a timeout and acknowledgements arrive in between.  If it  *)
(* did, cap - len in has_credit would wrap and give unlimited credit.      *)
WindowBounded == Len(win) + Len(hand) <= MaxInflight

(* No packet id names two unanswered messages, and none is 0: an ack of    *)
(* the client settles exactly one of them (next_id, push_back).            *)
DistinctIds ==
    /\ \A i \in DOMAIN win : win[i].publish.pid # NoId
    /\ \A i, j \in DOMAIN win : win[i].publish.pid = win[j].publish.pid => i = j

(* Every message in the deliver queue has a wake-up token, so none is left *)
(* behind when the loop waits, whatever the dropping policy did to the     *)
(* queue while it was full (Sender::send, ReceiverStream::poll_next).      *)
TokenPerMessage == tokens = Len(dq)

(* Both counters the loop steers by are right: the credit left in the      *)
(* window and the wake-ups left in the queue.                              *)
WithinLimits == WindowBounded /\ TokenPerMessage

InSeq(s, m) == \E i \in DOMAIN s : s[i].msg = m
InWindow(w, m) == \E i \in DOMAIN w : w[i].publish.msg = m
OnWire(m) == \E i \in DOMAIN toClient : /\ toClient[i].type = "PUBLISH"
                                       /\ toClient[i].publish.msg = m
InBroker(m) ==
    \/ InSeq(rx, m) \/ InSeq(dq, m) \/ InSeq(buf, m)
    \/ InWindow(win, m) \/ InWindow(hand, m)

(* At least once: the session keeps a QoS 1/2 message in one of its        *)
(* buffers until it is acknowledged or reported dropped, and a QoS 0       *)
(* message until it is sent.  Full queues, retries and repeated acks lose  *)
(* nothing; a message ends early only with a send that returned an error   *)
(* (deliver and reforward do not keep it) or a PUBREL found expired.       *)
NothingLost ==
    \A m \in 1 .. Len(forwarded) :
        \/ InBroker(m) \/ m \in dropped \/ m \in failed
        \/ IF forwarded[m] = 0 THEN OnWire(m) \/ got[m] > 0
                               ELSE m \in acked \/ (MayExpire /\ got[m] > 0)

Places(m) ==
    LET In(name, s) == {<<name, i>> : i \in {j \in DOMAIN s : s[j].msg = m}}
        InWin(name, w) == {<<name, i>> : i \in {j \in DOMAIN w : w[j].publish.msg = m}}
    IN  In("rx", rx) \cup In("dq", dq) \cup In("buf", buf)
        \cup InWin("win", win) \cup InWin("hand", hand)

(* A message is at one place at a time: re-forwarding moves it out of the  *)
(* window, so a QoS 2 message whose PUBREC was taken into account is never *)
(* also queued to be published again.                                      *)
OneCopy == \A m \in 1 .. Len(forwarded) : \A a, b \in Places(m) : a = b

(* Neither lost nor doubled, whatever timeouts, full queues and late acks  *)
(* do between the channel, the queue, the limiter and the window.          *)
KeptOnce == NothingLost /\ OneCopy

(* First transmissions keep the order in which messages were forwarded to  *)
(* the session, whatever is retried or dropped in between.                 *)
FirstSendsInOrder == \A i, j \in DOMAIN sent : i < j => sent[i] < sent[j]

Settled(m) ==
    \/ m \in dropped \/ m \in failed
    \/ IF forwarded[m] = 0 THEN got[m] > 0 ELSE m \in acked \/ (MayExpire /\ got[m] > 0)

(* A forwarded message is settled in the end: acknowledged, received if it *)
(* has QoS 0, reported dropped, or ended by an error of its send.  The     *)
(* window gets its credit back and the loop starves no branch, unless it   *)
(* waits for itself (RetryReturns).                                        *)
Settles ==
    \A m \in Msgs :
        (m <= Len(forwarded)) ~> (loop = "relock" \/ (m <= Len(forwarded) /\ Settled(m)))

(* Retrying a QoS 2 message ("QoS 1/2 message retry interval",             *)
(* rmqtt.toml:147) ends: the event loop comes back to its select.          *)
RetryReturns == (loop # "select") ~> (loop = "select")
=============================================================================
