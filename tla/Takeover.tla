------------------------------ MODULE Takeover ------------------------------
(***************************************************************************)
(* The QoS 1/2 messages of a persistent session while its client loses the *)
(* connection and comes back: the exit path of the event loop and the      *)
(* offline loop (rmqtt/src/broker/session.rs), the collection of the old   *)
(* session by to_offline_info, and the task transfer_session_state that    *)
(* feeds it to the new session, in which new messages arrive meanwhile.    *)
(*                                                                         *)
(* The variables rx .. next are those of the session that is registered;   *)
(* retries and expiry are in Delivery, the lock, the kick and its failures *)
(* in SessionLife.  wire is what the client has and has not answered; an   *)
(* answer that reaches the broker after the loop has closed the sink is    *)
(* not handled.  No plugin takes what is handed to the hook                *)
(* offline_inflight_messages (default_startups has no storage plugin).     *)
(***************************************************************************)
EXTENDS Inflight

CONSTANTS
    MaxMsgs,        \* bound: messages published to the client
    MaxTakeovers    \* bound: times the client comes back

VARIABLES
    rx,         \* channel into the session's loop, Closed and Kick among the messages
    dq,         \* its deliver queue (unlimited here)
    buf,        \* the item its rate limiter holds
    win,        \* its in-flight window
    next,       \* its packet id counter
    phase,      \* which loop runs: "online" or "offline"
    link,       \* the connection is up
    hs,         \* handshake of the new connection: "none", "asked", "kicked", "collected"
    info,       \* SessionOfflineInfo not yet transferred
    wire,       \* PUBLISH packets the client has and has not answered
    forwarded,  \* number of messages published so far
    takeovers,  \* number of takeovers so far
    seen,       \* history: messages the client has been sent
    acked,      \* history: messages the client has answered (PUBACK, PUBREC)
    dropped,    \* history: messages reported to the hook message_dropped
    hooked,     \* history: messages handed to offline_inflight_messages
    lost,       \* history: messages gone with a channel or a failed send
    collided    \* history: messages on the wire with the packet id of another

takeoverVars == <<rx, dq, buf, win, next, phase, link, hs, info, wire,
          forwarded, takeovers, seen, acked, dropped, hooked, lost, collided>>

Qos == {1, 2}
Marker(name) == [msg |-> 0, mark |-> name]
IsMessage(item) == item.msg # 0
NoInfo == [offline |-> << >>, inflight |-> << >>]

TakenMsgs(items) == {items[i].msg : i \in {j \in DOMAIN items : IsMessage(items[j])}}
WinMsgs(w) == {w[i].publish.msg : i \in DOMAIN w}
StatusOf(p) == IF p.qos = 1 THEN "UnAck" ELSE "UnReceived"

NewSession ==
    /\ rx' = << >> /\ dq' = << >> /\ buf' = << >> /\ win' = << >> /\ next' = 1
    /\ phase' = "online" /\ link' = TRUE /\ wire' = {}

TakeoverInit ==
    /\ rx = << >> /\ dq = << >> /\ buf = << >> /\ win = << >> /\ next = 1
    /\ phase = "online" /\ link = TRUE /\ wire = {}
    /\ hs = "none" /\ info = NoInfo /\ forwarded = 0 /\ takeovers = 0
    /\ seen = {} /\ acked = {} /\ dropped = {} /\ hooked = {} /\ lost = {} /\ collided = {}

histories == <<seen, acked, dropped, hooked, lost, collided>>

(***************************************************************************)
(* DefaultShared::forwards_to.  Once the old loop has ended its channel    *)
(* takes messages nobody will read or gives an error; once the peer is     *)
(* removed "Tx is None" is reported.                                       *)
(***************************************************************************)
ForwardMsg(q) ==
    LET p == [msg |-> forwarded + 1, qos |-> q, dup |-> FALSE, pid |-> NoId]
    IN  /\ forwarded < MaxMsgs
        /\ forwarded' = forwarded + 1
        /\ \/ /\ hs \in {"none", "asked"}
              /\ rx' = Append(rx, p)
              /\ UNCHANGED <<dropped, lost>>
           \/ /\ hs = "kicked"
              /\ lost' = lost \cup {p.msg}
              /\ UNCHANGED <<rx, dropped>>
           \/ /\ hs \in {"kicked", "collected"}
              /\ dropped' = dropped \cup {p.msg}
              /\ UNCHANGED <<rx, lost>>
        /\ UNCHANGED <<dq, buf, win, next, phase, link, hs, info, wire, takeovers,
                       seen, acked, hooked, collided>>

Running == hs \in {"none", "asked"}

\* Message::Forward, online and offline
RecvForward ==
    /\ Running
    /\ rx # << >> /\ IsMessage(Head(rx))
    /\ rx' = Tail(rx)
    /\ dq' = Append(dq, Head(rx))
    /\ UNCHANGED <<buf, win, next, phase, link, hs, info, wire, forwarded, takeovers, histories>>

\* deliver_queue_rx takes the next message; the limiter may hold it
Pull ==
    /\ Running /\ phase = "online" /\ HasCredit(win)
    /\ buf = << >> /\ dq # << >>
    /\ buf' = <<Head(dq)>>
    /\ dq' = Tail(dq)
    /\ UNCHANGED <<rx, win, next, phase, link, hs, info, wire, forwarded, takeovers, histories>>

(***************************************************************************)
(* deliver.  A message that comes back with dup keeps the packet id of the *)
(* session it was first sent in; no free packet id and a send on a closed  *)
(* connection are errors that are logged, and the message is gone.         *)
(***************************************************************************)
Deliver ==
    /\ Running /\ phase = "online" /\ HasCredit(win)
    /\ buf # << >>
    /\ buf' = << >>
    /\ LET p == Head(buf)
           fresh == ~p.dup \/ p.pid = NoId
           out == [p EXCEPT !.pid = IF fresh THEN NextId(win, next) ELSE @]
       IN  /\ next' = IF fresh THEN NextCounter(win, next) ELSE next
           /\ IF link /\ out.pid # NoId
              THEN /\ wire' = wire \cup {out}
                   /\ win' \in PushBack(win, InflightMessage(StatusOf(p), out))
                   /\ seen' = seen \cup {p.msg}
                   /\ LET others == {o \in wire : o.pid = out.pid}
                      IN  collided' = collided \cup {o.msg : o \in others}
                                      \cup {m \in {p.msg} : others # {}}
                   /\ lost' = lost
              ELSE lost' = lost \cup {p.msg} /\ UNCHANGED <<wire, win, seen, collided>>
    /\ UNCHANGED <<rx, dq, phase, link, hs, info, forwarded, takeovers, acked, dropped, hooked>>

\* PUBACK, or PUBREC and the window entry waits for PUBCOMP
ClientAnswers(p) ==
    /\ link
    /\ acked' = acked \cup {p.msg}
    /\ IF p.qos = 1
       THEN wire' = wire \ {p} /\ win' = Remove(win, p.pid)
       ELSE /\ p \in wire /\ p.msg \notin acked
            /\ wire' = wire /\ win' = UpdateStatus(win, p.pid, "UnComplete")
    /\ UNCHANGED <<rx, dq, buf, next, phase, link, hs, info, forwarded, takeovers,
                   seen, dropped, hooked, lost, collided>>

\* PUBCOMP
ClientCompletes(p) ==
    /\ link /\ p.qos = 2 /\ p.msg \in acked
    /\ wire' = wire \ {p}
    /\ win' = Remove(win, p.pid)
    /\ UNCHANGED <<rx, dq, buf, next, phase, link, hs, info, forwarded, takeovers, histories>>

\* The connection breaks; control_message puts Closed behind what is queued
ConnLost ==
    /\ link /\ phase = "online" /\ Running
    /\ link' = FALSE
    /\ wire' = {}
    /\ rx' = Append(rx, Marker("Closed"))
    /\ UNCHANGED <<dq, buf, win, next, phase, hs, info, forwarded, takeovers, histories>>

(***************************************************************************)
(* Message::Closed or the keep-alive timer ends the online loop: the sink  *)
(* is closed, to_inflight_messages empties the window for the hook, and    *)
(* the offline loop starts.                                                *)
(***************************************************************************)
GoOffline ==
    /\ Running /\ phase = "online"
    /\ \/ rx # << >> /\ Head(rx) = Marker("Closed") /\ rx' = Tail(rx)
       \/ UNCHANGED rx
    /\ link' = FALSE /\ wire' = {}
    /\ hooked' = hooked \cup (WinMsgs(win) \ acked)
    /\ win' = << >>
    /\ phase' = "offline"
    /\ UNCHANGED <<dq, buf, next, hs, info, forwarded, takeovers,
                   seen, acked, dropped, lost, collided>>

\* offline_start takes any other message and does nothing with it
OfflineOther ==
    /\ Running /\ phase = "offline"
    /\ rx # << >> /\ Head(rx) = Marker("Closed")
    /\ rx' = Tail(rx)
    /\ UNCHANGED <<dq, buf, win, next, phase, link, hs, info, wire, forwarded, takeovers,
                   histories>>

-----------------------------------------------------------------------------
\* A new connection of the client locks it and sends Kick
AskKick ==
    /\ hs = "none"
    /\ takeovers < MaxTakeovers
    /\ takeovers' = takeovers + 1
    /\ hs' = "asked"
    /\ rx' = Append(rx, Marker("Kick"))
    /\ UNCHANGED <<dq, buf, win, next, phase, link, info, wire, forwarded, histories>>

(***************************************************************************)
(* Message::Kick: the loop answers and ends.  What is behind it in the     *)
(* channel, in the limiter, and in a transfer into this session is gone.   *)
(***************************************************************************)
OnKick ==
    /\ hs = "asked"
    /\ rx # << >> /\ Head(rx) = Marker("Kick")
    /\ hs' = "kicked"
    /\ lost' = lost \cup ((TakenMsgs(rx) \cup TakenMsgs(buf) \cup TakenMsgs(info.offline)
                           \cup WinMsgs(info.inflight)) \ acked)
    /\ rx' = << >> /\ buf' = << >> /\ info' = NoInfo
    /\ link' = FALSE /\ wire' = {}
    /\ UNCHANGED <<dq, win, next, phase, forwarded, takeovers, seen, acked, dropped, hooked,
                   collided>>

\* mutant: the in-flight messages are left behind
ToOfflineInfo_queueOnly == [offline |-> dq, inflight |-> << >>]

\* Session::to_offline_info: both are popped front first into vectors
ToOfflineInfo == [offline |-> dq, inflight |-> win]

\* LockEntry::kick after the answer: the peer is removed and collected
CollectInfo ==
    /\ hs = "kicked"
    /\ hs' = "collected"
    /\ info' = ToOfflineInfo
    /\ dq' = << >> /\ win' = << >>
    /\ UNCHANGED <<rx, buf, next, phase, link, wire, forwarded, takeovers, histories>>

\* The handshake starts and registers the new session and spawns the transfer
StartSession ==
    /\ hs = "collected"
    /\ hs' = "none"
    /\ NewSession
    /\ UNCHANGED <<info, forwarded, takeovers, histories>>

\* mutant: a QoS 2 message the client has taken over is sent again
Resend_all(m) == <<[m.publish EXCEPT !.dup = TRUE]>>

\* mutant: reforward forgets the dup flag
Resend_noDup(m) == IF m.status = "UnComplete" THEN << >> ELSE <<m.publish>>

\* What transfer_session_state forwards for an unacknowledged message
Resend(m) ==
    IF m.status = "UnComplete" THEN << >> ELSE <<[m.publish EXCEPT !.dup = TRUE]>>

\* Vec::pop: what it returns and what it leaves
PopItem(v) == v[Len(v)]
AfterPop(v) == SubSeq(v, 1, Len(v) - 1)

\* transfer_session_state: in-flight messages, taken from the end
TransferInflight ==
    /\ Running /\ info.inflight # << >>
    /\ rx' = rx \o Resend(PopItem(info.inflight))
    /\ info' = [info EXCEPT !.inflight = AfterPop(@)]
    /\ UNCHANGED <<dq, buf, win, next, phase, link, hs, wire, forwarded, takeovers, histories>>

\* mutant: the vector is read without being emptied
TransferOffline_peek ==
    /\ Running /\ info.inflight = << >> /\ info.offline # << >>
    /\ Len(rx) < MaxMsgs
    /\ rx' = Append(rx, PopItem(info.offline))
    /\ UNCHANGED <<dq, buf, win, next, phase, link, hs, info, wire, forwarded, takeovers, histories>>

\* transfer_session_state: then the queued messages, taken from the end
TransferOffline ==
    /\ Running /\ info.inflight = << >> /\ info.offline # << >>
    /\ rx' = Append(rx, PopItem(info.offline))
    /\ info' = [info EXCEPT !.offline = AfterPop(@)]
    /\ UNCHANGED <<dq, buf, win, next, phase, link, hs, wire, forwarded, takeovers, histories>>

TakeoverNext ==
    \/ \E q \in Qos : ForwardMsg(q)
    \/ RecvForward \/ Pull \/ Deliver \/ ConnLost \/ GoOffline \/ OfflineOther
    \/ \E p \in wire : ClientAnswers(p) \/ ClientCompletes(p)
    \/ AskKick \/ OnKick \/ CollectInfo \/ StartSession
    \/ TransferInflight \/ TransferOffline

TakeoverSpec == TakeoverInit /\ [][TakeoverNext]_takeoverVars

-----------------------------------------------------------------------------

InBroker ==
    TakenMsgs(rx) \cup TakenMsgs(dq) \cup TakenMsgs(buf) \cup TakenMsgs(info.offline)
    \cup WinMsgs(win) \cup WinMsgs(info.inflight)

(***************************************************************************)
(* A published message is answered by the client or still in the broker,   *)
(* unless it went one of the ways the code has for losing one: reported    *)
(* dropped, handed to offline_inflight_messages, left in a channel, in the *)
(* limiter or in a failed send, or it was on the wire with the packet id   *)
(* of another message.                                                     *)
(***************************************************************************)
Accounted ==
    (1 .. forwarded) \subseteq
        InBroker \cup acked \cup dropped \cup hooked \cup lost \cup collided

Places(m) ==
    LET In(name, s) == {<<name, i>> : i \in {j \in DOMAIN s : s[j].msg = m}}
        InWin(name, w) == {<<name, i>> : i \in {j \in DOMAIN w : w[j].publish.msg = m}}
    IN  In("rx", rx) \cup In("dq", dq) \cup In("buf", buf) \cup In("offline", info.offline)
        \cup InWin("win", win) \cup InWin("inflight", info.inflight)

\* A takeover moves a message: the broker never has a message in two places.
OnePlace == \A m \in 1 .. forwarded : \A a, b \in Places(m) : a = b

(***************************************************************************)
(* A PUBLISH the client may have seen before carries dup: what comes out   *)
(* of the deliver queue without dup was never sent, in any session.        *)
(***************************************************************************)
DupMarked ==
    \A queue \in {rx, dq, buf, info.offline} : \A i \in DOMAIN queue :
        IsMessage(queue[i]) /\ queue[i].msg \in seen => queue[i].dup

(***************************************************************************)
(* A QoS 2 message the client has answered with PUBREC is never queued     *)
(* again, by a takeover in whatever state of the exchange.                 *)
(***************************************************************************)
NotResent ==
    TakenMsgs(rx) \cup TakenMsgs(dq) \cup TakenMsgs(buf) \cup TakenMsgs(info.offline) \subseteq
        (1 .. forwarded) \ acked

(***************************************************************************)
(* A takeover moves every message: none vanishes unaccounted, and none is  *)
(* left in the old session as well as carried into the new one.            *)
(***************************************************************************)
Carried == Accounted /\ OnePlace

(***************************************************************************)
(* What the new session sends of the old one's is honest: marked dup when  *)
(* the client may have it, and never a QoS 2 message it has taken over.    *)
(***************************************************************************)
ResentHonestly == DupMarked /\ NotResent
=============================================================================
