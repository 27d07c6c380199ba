------------------------- MODULE DeliveryKept_proofs -------------------------
(***************************************************************************)
(* Every message of an online session is kept, in one place, for every     *)
(* size of window and queue: KeptOnce follows from KeepInv for as long as  *)
(* the packet id counter has not come round.  A message that is retried    *)
(* waits in the queues under its old id, which next_id does not see there; *)
(* after 2^16 messages the counter may give that id away, and push_back    *)
(* would then replace one of the two by the other.                         *)
(***************************************************************************)
EXTENDS Delivery_proofs

\* The counter does not come round before the last message is sent.
NoWrap == MaxMsgs + 1 < IdSpan

Queue == ItemsOf(rx) \cup ItemsOf(dq) \cup ItemsOf(buf)
Kept == PublishesOf(win) \cup PublishesOf(hand)
Wire == {x.publish : x \in {y \in ItemsOf(toClient) : y.type = "PUBLISH"}}

\* Every copy of a message, in the broker and on its way to the client.
Known == Queue \cup Kept \cup Wire

\* The packet ids by which the client has said it has a QoS 2 message.
Received == unreleased
            \cup {x.pid : x \in {y \in ItemsOf(toBroker) : y.type = "PUBREC"}}

Held == MsgsOf(rx) \cup MsgsOf(dq) \cup MsgsOf(buf) \cup WindowMsgs(win) \cup WindowMsgs(hand)

\* Five places, no message twice in one of them and none in two of them.
ApartInv ==
    /\ Once(rx) /\ Once(dq) /\ Once(buf) /\ OnceInWindow(win) /\ OnceInWindow(hand)
    /\ MsgsOf(rx) \cap (MsgsOf(dq) \cup MsgsOf(buf) \cup WindowMsgs(win) \cup WindowMsgs(hand)) = {}
    /\ MsgsOf(dq) \cap (MsgsOf(buf) \cup WindowMsgs(win) \cup WindowMsgs(hand)) = {}
    /\ MsgsOf(buf) \cap (WindowMsgs(win) \cup WindowMsgs(hand)) = {}
    /\ WindowMsgs(win) \cap WindowMsgs(hand) = {}
    /\ Held \subseteq 1 .. Len(forwarded)

\* A packet id belongs to one message, and the counter is above all of them.
IdInv ==
    /\ next \in 1 .. Len(forwarded) + 1
    /\ \A p \in Queue : IF p.dup THEN p.qos # 0 /\ p.pid # NoId
                                 ELSE p.pid = NoId /\ next <= p.msg
    /\ \A p \in Kept : p.qos # 0
    /\ \A p \in Known : /\ p.pid < next
                        /\ p.msg \in 1 .. Len(forwarded)
                        /\ p.qos = forwarded[p.msg]
    /\ \A p, q \in Known : p.pid = q.pid /\ p.pid # NoId => p.msg = q.msg

\* What the client has said it has, it has.
ReceivedInv ==
    /\ \A x \in Received : x < next
    /\ \A p \in Known : p.pid \in Received => got[p.msg] > 0
    /\ \A e \in ItemsOf(win) : e.status = "UnComplete" => got[e.publish.msg] > 0

\* The messages a hook reported dropped, and those of which a send failed.
Gone == dropped \cup failed

\* NothingLost, with the messages on the connection as a set.
AccountInv ==
    \A m \in 1 .. Len(forwarded) :
        \/ m \in Held \/ m \in Gone
        \/ forwarded[m] = 0 /\ (got[m] > 0 \/ \E p \in Wire : p.msg = m)
        \/ forwarded[m] # 0 /\ (m \in acked \/ (MayExpire /\ got[m] > 0))

KeepInv == ApartInv /\ IdInv /\ ReceivedInv /\ AccountInv

-----------------------------------------------------------------------------
(* The sets of copies hold publishes, with messages that were numbered. *)
LEMMA KnownTypes ==
    ASSUME IInv
    PROVE  /\ Known \subseteq Publishes
           /\ \A p \in Publishes : p.msg \in Msgs /\ p.msg \in Nat \ {0} /\ p.pid \in Nat
           /\ \A e \in Entries : e.publish \in Publishes
           /\ got \in [Msgs -> Nat] /\ next \in Nat /\ Len(forwarded) \in Nat
           /\ Received \subseteq PacketIds /\ NoId \notin PacketIds
<1>1. \A p \in Publishes : p.msg \in Msgs /\ p.msg \in Nat \ {0} /\ p.pid \in Nat
  BY DeliveryAssumption, InflightAssumption DEF Publishes, Msgs
<1>2. \A e \in Entries : e.publish \in Publishes
  BY DEF Entries
<1>3. Queue \subseteq Publishes
  BY DEF IInv, TypeOK, Queue, ItemsOf
<1>4. Kept \subseteq Publishes
  BY <1>2 DEF IInv, TypeOK, Kept, PublishesOf, ItemsOf
<1>5. Wire \subseteq Publishes
  <2>1. \A x \in ToClientPackets : x.type = "PUBLISH" => x.publish \in Publishes
    BY DEF ToClientPackets
  <2> QED
    BY <2>1 DEF IInv, TypeOK, Wire, ItemsOf
<1>6. got \in [Msgs -> Nat] /\ next \in Nat /\ Len(forwarded) \in Nat
  BY InflightAssumption DEF IInv, TypeOK
<1>7. Received \subseteq PacketIds /\ NoId \notin PacketIds
  <2>1. \A x \in ToBrokerPackets : x.pid \in PacketIds
    BY DEF ToBrokerPackets
  <2>2. Received \subseteq PacketIds
    BY <2>1 DEF IInv, TypeOK, Received, ItemsOf
  <2> QED
    BY <2>2, InflightAssumption DEF PacketIds, NoId
<1> QED
  BY <1>1, <1>2, <1>3, <1>4, <1>5, <1>6, <1>7 DEF Known

SameCopy(p, q) == p.msg = q.msg /\ p.pid = q.pid /\ p.qos = q.qos

(* A step that gives no packet id away and marks what it queues again      *)
(* keeps the ids apart.                                                    *)
LEMMA CopiesMove ==
    ASSUME IdInv, UNCHANGED <<next, forwarded>>,
           \A p \in Queue' : p \in Queue \/ (p.dup /\ p.qos # 0 /\ p.pid # NoId),
           \A p \in Kept' : p.qos # 0,
           \A p \in Known' : \E q \in Known : SameCopy(p, q)
    PROVE  IdInv'
<1>1. \A p \in Queue' : IF p.dup THEN p.qos # 0 /\ p.pid # NoId
                                 ELSE p.pid = NoId /\ next <= p.msg
  BY DEF IdInv
<1>2. \A p \in Known' : p.pid < next /\ p.msg \in 1 .. Len(forwarded) /\ p.qos = forwarded[p.msg]
  BY DEF IdInv, SameCopy
<1>3. \A p, q \in Known' : p.pid = q.pid /\ p.pid # NoId => p.msg = q.msg
  BY DEF IdInv, SameCopy
<1> QED
  BY <1>1, <1>2, <1>3 DEF IdInv

(* A step after which the client has said no more than before. *)
LEMMA ReceivedMove ==
    ASSUME IInv, ReceivedInv, next' = next, Received' \subseteq Received,
           \A m \in Msgs : got[m] > 0 => got'[m] > 0,
           \A p \in Known' : \E q \in Known : SameCopy(p, q),
           \A e \in ItemsOf(win') : e.status = "UnComplete" => got'[e.publish.msg] > 0
    PROVE  ReceivedInv'
<1>1. \A x \in Received' : x < next'
  BY DEF ReceivedInv
<1>2. ASSUME NEW p \in Known', p.pid \in Received' PROVE got'[p.msg] > 0
  <2>1. PICK q \in Known : SameCopy(p, q)
    OBVIOUS
  <2>2. got[q.msg] > 0 /\ q.msg \in Msgs
    BY <1>2, <2>1, KnownTypes DEF ReceivedInv, SameCopy
  <2> QED
    BY <2>1, <2>2 DEF SameCopy
<1> QED
  BY <1>1, <1>2 DEF ReceivedInv

(* A step after which no message is held no longer, unless it is accounted *)
(* for.                                                                    *)
LEMMA AccountMove ==
    ASSUME IInv, AccountInv, forwarded' = forwarded,
           Gone \subseteq Gone', acked \subseteq acked',
           \A m \in Msgs : got[m] > 0 => got'[m] > 0,
           \A p \in Wire : forwarded[p.msg] = 0 => p \in Wire' \/ got'[p.msg] > 0,
           \A m \in Held : \/ m \in Held' \/ m \in Gone'
                           \/ forwarded[m] = 0 /\ \E p \in Wire' : p.msg = m
                           \/ forwarded[m] # 0 /\ (m \in acked' \/ (MayExpire /\ got'[m] > 0))
    PROVE  AccountInv'
<1> SUFFICES ASSUME NEW m \in 1 .. Len(forwarded)
             PROVE  \/ m \in Held' \/ m \in Gone'
                    \/ forwarded[m] = 0 /\ (got'[m] > 0 \/ \E p \in Wire' : p.msg = m)
                    \/ forwarded[m] # 0 /\ (m \in acked' \/ (MayExpire /\ got'[m] > 0))
  BY DEF AccountInv
<1>1. m \in Msgs
  BY DeliveryAssumption DEF IInv, TypeOK, Msgs
<1>2. CASE m \in Held \/ m \in Gone
  BY <1>2
<1>3. CASE forwarded[m] = 0 /\ (got[m] > 0 \/ \E p \in Wire : p.msg = m)
  BY <1>1, <1>3
<1>4. CASE forwarded[m] # 0 /\ (m \in acked \/ (MayExpire /\ got[m] > 0))
  BY <1>1, <1>4
<1> QED
  BY <1>2, <1>3, <1>4 DEF AccountInv

(* Sender::send holds the message, and what it drops it reports. *)
LEMMA SendKeeps ==
    ASSUME NEW q \in Seq(Publishes), Once(q), NEW x \in Publishes, x.msg # 0, x.msg \notin MsgsOf(q)
    PROVE  /\ ItemsOf(SendQueue(q, x)) \subseteq ItemsOf(q) \cup {x}
           /\ Once(SendQueue(q, x))
           /\ MsgsOf(SendQueue(q, x)) \subseteq MsgsOf(q) \cup {x.msg}
           /\ MsgsOf(q) \cup {x.msg} \subseteq MsgsOf(SendQueue(q, x)) \cup SendDropped(q, x)
<1>1. CASE ~Full(q)
  BY <1>1, AppendAdds DEF SendQueue
<1>2. CASE Full(q) /\ Policy(x) = "Early"
  <2>1. q # << >>
    <3>1. Len(q) # 0
      BY <1>2, DeliverQueueAssumption DEF Full
    <3> QED
      BY <3>1
  <2>2. /\ Tail(q) \in Seq(Publishes) /\ Once(Tail(q)) /\ ItemsOf(Tail(q)) \subseteq ItemsOf(q)
        /\ MsgsOf(Tail(q)) = MsgsOf(q) \ {Head(q).msg}
    BY <2>1, TailTakes
  <2>3. SendQueue(q, x) = Append(Tail(q), x) /\ SendDropped(q, x) = {Head(q).msg}
    BY <1>2 DEF SendQueue, SendDropped
  <2>4. /\ ItemsOf(Append(Tail(q), x)) = ItemsOf(Tail(q)) \cup {x}
        /\ MsgsOf(Append(Tail(q), x)) = MsgsOf(Tail(q)) \cup {x.msg} /\ Once(Append(Tail(q), x))
    <3> DEFINE t == Tail(q)
    <3>1. x.msg \notin MsgsOf(t) /\ t \in Seq(Publishes) /\ Once(t)
      BY <2>2
    <3> HIDE DEF t
    <3>2. /\ ItemsOf(Append(t, x)) = ItemsOf(t) \cup {x} /\ Once(Append(t, x))
          /\ MsgsOf(Append(t, x)) = MsgsOf(t) \cup {x.msg}
      BY <3>1, AppendAdds
    <3> QED
      BY <3>2 DEF t
  <2> QED
    BY <2>2, <2>3, <2>4
<1>3. CASE Full(q) /\ Policy(x) # "Early"
  BY <1>3 DEF SendQueue, SendDropped
<1> QED
  BY <1>1, <1>2, <1>3

-----------------------------------------------------------------------------
(* A forwarded message enters the channel, without a packet id. *)
LEMMA KeepForward ==
    ASSUME IInv, KeepInv, NEW q \in QosLevels, Forward(q)
    PROVE  KeepInv'
<1> DEFINE x == [msg |-> Len(forwarded) + 1, qos |-> q, dup |-> FALSE, pid |-> NoId]
           m == Len(forwarded) + 1
<1>1. /\ rx' = Append(rx, x) /\ UNCHANGED <<dq, buf, win, hand, next, toClient>>
      /\ UNCHANGED <<unreleased, toBroker, got, Gone, acked>>
      /\ forwarded' = Append(forwarded, q) /\ Len(forwarded) < MaxMsgs
  BY DEF Gone, Forward
<1>2. /\ forwarded \in Seq(QosLevels) /\ rx \in Seq(Publishes) /\ Len(forwarded) \in Nat
      /\ Len(forwarded') = m /\ m \in Nat \ {0} /\ forwarded'[m] = q
      /\ \A k \in 1 .. Len(forwarded) : forwarded'[k] = forwarded[k] /\ k # m /\ k \in 1 .. m
      /\ \A k \in 1 .. m : k \in 1 .. Len(forwarded) \/ k = m
      /\ m \in 1 .. m
  <2>1. forwarded \in Seq(QosLevels) /\ rx \in Seq(Publishes) /\ Len(forwarded) \in Nat
    BY DEF IInv, TypeOK
  <2>2. /\ Len(forwarded') = m /\ forwarded'[m] = q
        /\ \A k \in 1 .. Len(forwarded) : forwarded'[k] = forwarded[k]
    BY <1>1, <2>1
  <2>3. /\ \A k \in 1 .. Len(forwarded) : k # m /\ k \in 1 .. m
        /\ \A k \in 1 .. m : k \in 1 .. Len(forwarded) \/ k = m
        /\ m \in 1 .. m /\ m \in Nat \ {0}
    BY <2>1
  <2> QED
    BY <2>1, <2>2, <2>3
<1>3. x \in Publishes /\ x.msg = m /\ ~x.dup /\ x.pid = NoId /\ x.qos = q
  BY <1>1, <1>2, InflightAssumption, DeliveryAssumption DEF Publishes, Msgs, NoId
<1>4. m \notin Held
  BY <1>2 DEF KeepInv, ApartInv
<1> HIDE DEF x
<1>5. ItemsOf(rx') = ItemsOf(rx) \cup {x} /\ MsgsOf(rx') = MsgsOf(rx) \cup {m} /\ Once(rx')
  <2>1. x.msg \notin MsgsOf(rx) /\ {m} \ {0} = {m}
    BY <1>2, <1>3, <1>4 DEF Held
  <2> QED
    BY <1>1, <1>2, <1>3, <2>1, AppendAdds DEF KeepInv, ApartInv
<1>6. Queue' = Queue \cup {x} /\ Kept' = Kept /\ Wire' = Wire /\ Known' = Known \cup {x}
  <2>1. Queue' = Queue \cup {x} /\ Kept' = Kept /\ Wire' = Wire
    BY <1>1, <1>5 DEF Queue, Kept, Wire
  <2> QED
    BY <2>1 DEF Known
<1>7. Held' = Held \cup {m}
  BY <1>1, <1>5 DEF Held
<1>8. ApartInv'
  <2>1. Held' \subseteq 1 .. Len(forwarded')
    <3>1. \A k \in Held : k \in 1 .. Len(forwarded)
      BY DEF KeepInv, ApartInv
    <3> QED
      BY <1>2, <1>7, <3>1
  <2> QED
    BY <1>1, <1>4, <1>5, <2>1 DEF KeepInv, ApartInv, Held
<1>9. IdInv'
  <2>1. next \in 1 .. m /\ next \in 1 .. Len(forwarded') + 1 /\ NoId < next
    BY <1>2 DEF KeepInv, IdInv, NoId
  <2>2. \A p \in Known' : /\ p.pid < next /\ p.msg \in 1 .. Len(forwarded')
                          /\ p.qos = forwarded'[p.msg]
    BY <1>2, <1>3, <1>6, <2>1 DEF KeepInv, IdInv
  <2>3. \A p, r \in Known' : p.pid = r.pid /\ p.pid # NoId => p.msg = r.msg
    BY <1>3, <1>6 DEF KeepInv, IdInv
  <2>4. \A p \in Queue' : IF p.dup THEN p.qos # 0 /\ p.pid # NoId
                                   ELSE p.pid = NoId /\ next <= p.msg
    BY <1>3, <1>6, <2>1 DEF KeepInv, IdInv
  <2> QED
    BY <1>1, <1>6, <2>1, <2>2, <2>3, <2>4 DEF KeepInv, IdInv
<1>10. ReceivedInv'
  <2>1. Received' = Received /\ NoId \notin Received
    BY <1>1, KnownTypes DEF Received
  <2> QED
    BY <1>1, <1>3, <1>6, <2>1 DEF KeepInv, ReceivedInv
<1>11. AccountInv'
  <2> SUFFICES ASSUME NEW k \in 1 .. m, k # m
               PROVE  \/ k \in Held \/ k \in Gone
                      \/ forwarded'[k] = 0 /\ (got[k] > 0 \/ \E p \in Wire : p.msg = k)
                      \/ forwarded'[k] # 0 /\ (k \in acked \/ (MayExpire /\ got[k] > 0))
    BY <1>1, <1>2, <1>6, <1>7 DEF AccountInv
  <2>1. k \in 1 .. Len(forwarded) /\ forwarded'[k] = forwarded[k]
    BY <1>2
  <2> QED
    BY <2>1 DEF KeepInv, AccountInv
<1> QED
  BY <1>8, <1>9, <1>10, <1>11 DEF KeepInv

(* A step of the queues that puts no message twice and loses none.  The    *)
(* window, the connection and the client are as before.                    *)
LEMMA QueueMove ==
    ASSUME IInv, KeepInv, Queue' \subseteq Queue,
           \A m \in Held : m \in Held' \/ m \in Gone', Gone \subseteq Gone',
           UNCHANGED <<win, hand, next, toClient, toBroker, unreleased, got, forwarded, acked>>
    PROVE  IdInv' /\ ReceivedInv' /\ AccountInv'
<1>1. Kept' = Kept /\ Wire' = Wire /\ Received' = Received /\ ItemsOf(win') = ItemsOf(win)
  BY DEF Kept, Wire, Received
<1>2. \A p \in Known' : \E q \in Known : SameCopy(p, q)
  BY <1>1 DEF Known, SameCopy
<1>3. IdInv'
  <2>1. \A p \in Kept' : p.qos # 0
    BY <1>1 DEF KeepInv, IdInv
  <2> QED
    BY <1>2, <2>1, CopiesMove DEF KeepInv
<1>4. ReceivedInv'
  <2>1. \A e \in ItemsOf(win') : e.status = "UnComplete" => got'[e.publish.msg] > 0
    BY <1>1 DEF KeepInv, ReceivedInv
  <2> QED
    BY <1>1, <1>2, <2>1, ReceivedMove DEF KeepInv
<1>5. AccountInv'
  BY <1>1, AccountMove DEF KeepInv
<1> QED
  BY <1>3, <1>4, <1>5

(* A message moves from the channel to the deliver queue, which may drop   *)
(* it or an earlier one.                                                   *)
LEMMA KeepRecv ==
    ASSUME IInv, KeepInv, RecvForward
    PROVE  KeepInv'
<1> DEFINE x == Head(rx)
<1>1. /\ rx' = Tail(rx) /\ dq' = SendQueue(dq, x) /\ rx # << >>
      /\ Gone' = Gone \cup SendDropped(dq, x)
      /\ UNCHANGED <<buf, win, hand, next, toClient, toBroker, unreleased, got, forwarded, acked>>
      /\ rx \in Seq(Publishes) /\ dq \in Seq(Publishes)
  BY DEF Gone, RecvForward, IInv, TypeOK
<1>2. x \in Publishes /\ x.msg # 0
  BY <1>1, FirstItem, KnownTypes
<1>3. /\ ItemsOf(rx) = ItemsOf(rx') \cup {x} /\ Once(rx')
      /\ MsgsOf(rx') = MsgsOf(rx) \ {x.msg} /\ x.msg \in MsgsOf(rx)
  BY <1>1, <1>2, TailTakes DEF KeepInv, ApartInv
<1> HIDE DEF x
<1>4. x.msg \notin MsgsOf(dq)
  BY <1>3 DEF KeepInv, ApartInv
<1>5. /\ ItemsOf(dq') \subseteq ItemsOf(dq) \cup {x} /\ Once(dq')
      /\ MsgsOf(dq') \subseteq MsgsOf(dq) \cup {x.msg}
      /\ MsgsOf(dq) \cup {x.msg} \subseteq MsgsOf(dq') \cup SendDropped(dq, x)
  BY <1>1, <1>2, <1>4, SendKeeps DEF KeepInv, ApartInv
<1>6. Queue' \subseteq Queue
  BY <1>1, <1>3, <1>5 DEF Queue
<1>7. /\ \A m \in Held : m \in Held' \/ m \in Gone'
      /\ Held' \subseteq Held
  BY <1>1, <1>3, <1>5 DEF Held
<1>8. ApartInv'
  BY <1>1, <1>3, <1>5, <1>7 DEF KeepInv, ApartInv
<1> QED
  BY <1>1, <1>6, <1>7, <1>8, QueueMove DEF KeepInv

(* A message moves from the deliver queue to the limiter. *)
LEMMA KeepPull ==
    ASSUME IInv, KeepInv, Pull
    PROVE  KeepInv'
<1> DEFINE x == Head(dq)
<1>1. /\ dq # << >> /\ dq' = Tail(dq) /\ buf = << >> /\ buf' = <<x>> /\ dq \in Seq(Publishes)
      /\ UNCHANGED <<rx, win, hand, next, toClient, toBroker, unreleased, got, forwarded, acked>>
      /\ Gone' = Gone
  BY DEF Gone, Pull, IInv, TypeOK, TokenPerMessage
<1>2. x \in Publishes /\ x.msg # 0
  BY <1>1, FirstItem, KnownTypes
<1>3. /\ ItemsOf(dq) = ItemsOf(dq') \cup {x} /\ Once(dq')
      /\ MsgsOf(dq') = MsgsOf(dq) \ {x.msg} /\ x.msg \in MsgsOf(dq)
  BY <1>1, <1>2, TailTakes DEF KeepInv, ApartInv
<1>4. /\ ItemsOf(buf') = {x} /\ MsgsOf(buf') = {x.msg} /\ Once(buf')
      /\ ItemsOf(buf) = {} /\ MsgsOf(buf) = {}
  <2>1. DOMAIN buf' = {1} /\ buf'[1] = x
    BY <1>1
  <2> HIDE DEF x
  <2> QED
    BY <1>1, <1>2, <2>1 DEF ItemsOf, MsgsOf, Once
<1> HIDE DEF x
<1>5. Queue' \subseteq Queue /\ Held' = Held
  BY <1>1, <1>3, <1>4 DEF Queue, Held
<1>6. ApartInv'
  BY <1>1, <1>3, <1>4, <1>5 DEF KeepInv, ApartInv
<1> QED
  BY <1>1, <1>5, <1>6, QueueMove DEF KeepInv

(* The limiter holds one message at most. *)
LEMMA LimiterHolds ==
    ASSUME IInv, OrderInv, buf # << >>
    PROVE  /\ ItemsOf(buf) = {Head(buf)} /\ MsgsOf(buf) = {Head(buf).msg}
           /\ Head(buf) \in Publishes /\ Head(buf).msg # 0
<1>1. DOMAIN buf = {1} /\ buf[1] = Head(buf) /\ Head(buf) \in Publishes
  BY FirstItem DEF IInv, TypeOK, OrderInv
<1>2. Head(buf).msg # 0
  BY <1>1, KnownTypes
<1> QED
  BY <1>1, <1>2 DEF ItemsOf, MsgsOf

(* An expired message is reported dropped. *)
LEMMA KeepExpired ==
    ASSUME IInv, OrderInv, KeepInv, DeliverExpired
    PROVE  KeepInv'
<1>1. /\ buf # << >> /\ buf' = << >> /\ Gone' = Gone \cup {Head(buf).msg}
      /\ UNCHANGED <<rx, dq, win, hand, next, toClient, toBroker, unreleased, got, forwarded, acked>>
  BY DEF Gone, DeliverExpired
<1>2. ItemsOf(buf') = {} /\ MsgsOf(buf') = {} /\ Once(buf')
  BY <1>1, NothingHeld
<1>3. Queue' \subseteq Queue /\ Held' \subseteq Held /\ \A m \in Held : m \in Held' \/ m \in Gone'
  BY <1>1, <1>2, LimiterHolds DEF Queue, Held
<1>4. ApartInv'
  BY <1>1, <1>2, <1>3 DEF KeepInv, ApartInv
<1> QED
  BY <1>1, <1>3, <1>4, QueueMove DEF KeepInv

-----------------------------------------------------------------------------
(* What a packet sent to the client adds to the copies on the way. *)
LEMMA WireAppend ==
    ASSUME IInv
    PROVE  /\ \A o \in Publishes : toClient' = Append(toClient, PublishPacket(o)) => Wire' = Wire \cup {o}
           /\ \A id \in PacketIds : toClient' = Append(toClient, Ack("PUBREL", id)) => Wire' = Wire
<1>1. toClient \in Seq(ToClientPackets)
  BY DEF IInv, TypeOK
<1>2. ASSUME NEW o \in Publishes, toClient' = Append(toClient, PublishPacket(o))
      PROVE  Wire' = Wire \cup {o}
  <2> DEFINE x == PublishPacket(o)
  <2>1. x \in ToClientPackets /\ x.type = "PUBLISH" /\ x.publish = o
    BY DEF PublishPacket, ToClientPackets
  <2> HIDE DEF x
  <2>2. ItemsOf(toClient') = ItemsOf(toClient) \cup {x}
    BY <1>1, <1>2, <2>1, AppendAdds DEF x
  <2> QED
    BY <2>1, <2>2 DEF Wire
<1>3. ASSUME NEW id \in PacketIds, toClient' = Append(toClient, Ack("PUBREL", id))
      PROVE  Wire' = Wire
  <2> DEFINE x == Ack("PUBREL", id)
  <2>1. x \in ToClientPackets /\ x.type # "PUBLISH"
    BY DEF Ack, ToClientPackets
  <2> HIDE DEF x
  <2>2. ItemsOf(toClient') = ItemsOf(toClient) \cup {x}
    BY <1>1, <1>3, <2>1, AppendAdds DEF x
  <2> QED
    BY <2>1, <2>2 DEF Wire
<1> QED
  BY <1>2, <1>3

(* A step of the window and the connection that gives no id away: what is  *)
(* left of KeepInv is where the messages are.                              *)
LEMMA WindowMove ==
    ASSUME IInv, KeepInv, UNCHANGED <<next, got, forwarded>>,
           Gone \subseteq Gone', acked \subseteq acked',
           Wire' = Wire, Kept' \subseteq Kept, Received' \subseteq Received,
           \A p \in Queue' : p \in Queue \/ (p.dup /\ p.pid # NoId /\ \E q \in Kept : SameCopy(p, q)),
           \A e \in ItemsOf(win') : e.status = "UnComplete" => got[e.publish.msg] > 0,
           \A m \in Held : \/ m \in Held' \/ m \in Gone' \/ (forwarded[m] # 0 /\ m \in acked')
                           \/ forwarded[m] # 0 /\ MayExpire /\ got[m] > 0
    PROVE  IdInv' /\ ReceivedInv' /\ AccountInv'
<1>1. \A p \in Known' : \E q \in Known : SameCopy(p, q)
  <2>1. \A p \in Kept' \cup Wire' : p \in Known
    BY DEF Known
  <2>2. \A p \in Queue' : \E q \in Known : SameCopy(p, q)
    BY DEF Known, SameCopy
  <2>3. \A p : SameCopy(p, p)
    BY DEF SameCopy
  <2> QED
    BY <2>1, <2>2, <2>3 DEF Known
<1>2. IdInv'
  <2>1. \A p \in Kept' : p.qos # 0
    BY DEF KeepInv, IdInv
  <2>2. \A p \in Queue' : p \in Queue \/ (p.dup /\ p.qos # 0 /\ p.pid # NoId)
    BY DEF KeepInv, IdInv, SameCopy
  <2> QED
    BY <1>1, <2>1, <2>2, CopiesMove DEF KeepInv
<1>3. ReceivedInv'
  BY <1>1, ReceivedMove DEF KeepInv
<1>4. AccountInv'
  BY AccountMove DEF KeepInv
<1> QED
  BY <1>2, <1>3, <1>4

(* An unanswered message goes back to the channel under its packet id. *)
LEMMA KeepReforward ==
    ASSUME IInv, KeepInv, Reforward
    PROVE  KeepInv'
<1> DEFINE e == Head(win)
           x == [Head(win).publish EXCEPT !.dup = TRUE]
<1>1. /\ win # << >> /\ win' = Tail(win) /\ rx' = Append(rx, x)
      /\ UNCHANGED <<dq, buf, next, hand, toClient, toBroker, unreleased, got, forwarded, Gone, acked>>
      /\ win \in Seq(Entries) /\ rx \in Seq(Publishes)
  BY DEF Gone, Reforward, FrontTimeout, IInv, TypeOK
<1>2. /\ e \in Entries /\ e.publish \in PublishesOf(win) /\ OnceInWindow(win')
      /\ PublishesOf(win') \subseteq PublishesOf(win) /\ ItemsOf(win') \subseteq ItemsOf(win)
      /\ e.publish.msg \in WindowMsgs(win) /\ WindowMsgs(win') = WindowMsgs(win) \ {e.publish.msg}
  BY <1>1, WindowTail DEF KeepInv, ApartInv
<1>3. e.publish.pid # NoId
  BY <1>1, FirstItem DEF IInv, DistinctIds
<1>4. x \in Publishes /\ x.dup /\ SameCopy(x, e.publish) /\ x.msg = e.publish.msg
  BY <1>2, Zenon DEF Entries, Publishes, SameCopy
<1>5. x.msg # 0 /\ x.pid # NoId
  BY <1>3, <1>4, KnownTypes, Zenon DEF SameCopy
<1> HIDE DEF e, x
<1>6. ItemsOf(rx') = ItemsOf(rx) \cup {x} /\ MsgsOf(rx') = MsgsOf(rx) \cup {x.msg} /\ Once(rx')
  <2>1. x.msg \notin MsgsOf(rx) /\ {x.msg} \ {0} = {x.msg} /\ Once(rx)
    BY <1>2, <1>4, <1>5 DEF KeepInv, ApartInv
  <2>2. x \in Publishes /\ rx \in Seq(Publishes)
    BY <1>1, <1>4
  <2>3. /\ ItemsOf(Append(rx, x)) = ItemsOf(rx) \cup {x} /\ Once(Append(rx, x))
        /\ MsgsOf(Append(rx, x)) = MsgsOf(rx) \cup ({x.msg} \ {0})
    BY <2>1, <2>2, AppendAdds
  <2> QED
    BY <1>1, <2>1, <2>3, Zenon
<1>7. Held' = Held
  BY <1>1, <1>2, <1>4, <1>6 DEF Held
<1>8. ApartInv'
  BY <1>1, <1>2, <1>4, <1>6, <1>7, SMTT(30) DEF KeepInv, ApartInv
<1>9. /\ Wire' = Wire /\ Received' = Received /\ Kept' \subseteq Kept
      /\ \A p \in Queue' : p \in Queue \/ p = x
      /\ e.publish \in Kept
  BY <1>1, <1>2, <1>6 DEF Wire, Received, Kept, Queue
<1>10. \A d \in ItemsOf(win') : d.status = "UnComplete" => got[d.publish.msg] > 0
  BY <1>2 DEF KeepInv, ReceivedInv
<1>11. \A p \in Queue' : p \in Queue \/ (p.dup /\ p.pid # NoId /\ \E q \in Kept : SameCopy(p, q))
  BY <1>4, <1>5, <1>9
<1>12. \A m \in Held : \/ m \in Held' \/ (forwarded[m] # 0 /\ m \in acked')
                       \/ forwarded[m] # 0 /\ MayExpire /\ got[m] > 0
  BY <1>7
<1>13. IdInv' /\ ReceivedInv' /\ AccountInv'
  BY <1>1, <1>9, <1>10, <1>11, <1>12, WindowMove
<1> QED
  BY <1>8, <1>13 DEF KeepInv

(* A step that only takes out the first entry of the window, whose message *)
(* the client has.                                                         *)
LEMMA KeepForgotten ==
    ASSUME IInv, KeepInv, ReforwardExpired
    PROVE  KeepInv'
<1> DEFINE e == Head(win)
<1>1. /\ win # << >> /\ win' = Tail(win) /\ e.status = "UnComplete" /\ MayExpire
      /\ UNCHANGED <<rx, dq, buf, next, hand, toClient, toBroker, unreleased, got, forwarded, Gone, acked>>
      /\ win \in Seq(Entries)
  BY DEF Gone, ReforwardExpired, FrontTimeout, IInv, TypeOK
<1>2. /\ e \in Entries /\ e.publish \in PublishesOf(win) /\ OnceInWindow(win')
      /\ PublishesOf(win') \subseteq PublishesOf(win) /\ ItemsOf(win') \subseteq ItemsOf(win)
      /\ e \in ItemsOf(win)
      /\ e.publish.msg \in WindowMsgs(win) /\ WindowMsgs(win') = WindowMsgs(win) \ {e.publish.msg}
  BY <1>1, WindowTail DEF KeepInv, ApartInv
<1> HIDE DEF e
<1>3. /\ Wire' = Wire /\ Received' = Received /\ Kept' \subseteq Kept /\ Queue' = Queue
      /\ e.publish \in Kept /\ Held = Held' \cup {e.publish.msg}
  BY <1>1, <1>2 DEF Wire, Received, Kept, Queue, Held
<1>4. ApartInv'
  BY <1>1, <1>2, <1>3 DEF KeepInv, ApartInv
<1>5. got[e.publish.msg] > 0 /\ forwarded[e.publish.msg] # 0
  BY <1>1, <1>2, <1>3 DEF KeepInv, ReceivedInv, IdInv, Known
<1>6. \A d \in ItemsOf(win') : d.status = "UnComplete" => got[d.publish.msg] > 0
  BY <1>2 DEF KeepInv, ReceivedInv
<1>7. \A m \in Held : \/ m \in Held' \/ (forwarded[m] # 0 /\ m \in acked')
                      \/ forwarded[m] # 0 /\ MayExpire /\ got[m] > 0
  BY <1>1, <1>3, <1>5
<1>8. IdInv' /\ ReceivedInv' /\ AccountInv'
  BY <1>1, <1>3, <1>6, <1>7, WindowMove
<1> QED
  BY <1>4, <1>8 DEF KeepInv

(* The entry of a PUBREL that could not be sent is given up. *)
LEMMA KeepGivenUp ==
    ASSUME IInv, KeepInv, RereleaseFails
    PROVE  KeepInv'
<1> DEFINE e == Head(win)
<1>1. /\ win # << >> /\ win' = Tail(win) /\ Gone' = Gone \cup {e.publish.msg}
      /\ UNCHANGED <<rx, dq, buf, next, hand, toClient, toBroker, unreleased, got, forwarded, acked>>
      /\ win \in Seq(Entries)
  BY DEF Gone, RereleaseFails, FrontTimeout, IInv, TypeOK
<1>2. /\ e \in Entries /\ OnceInWindow(win')
      /\ PublishesOf(win') \subseteq PublishesOf(win) /\ ItemsOf(win') \subseteq ItemsOf(win)
      /\ e.publish.msg \in WindowMsgs(win) /\ WindowMsgs(win') = WindowMsgs(win) \ {e.publish.msg}
  BY <1>1, WindowTail DEF KeepInv, ApartInv
<1> HIDE DEF e
<1>3. /\ Wire' = Wire /\ Received' = Received /\ Kept' \subseteq Kept /\ Queue' = Queue
      /\ Held = Held' \cup {e.publish.msg}
  BY <1>1, <1>2 DEF Wire, Received, Kept, Queue, Held
<1>4. ApartInv'
  BY <1>1, <1>2, <1>3 DEF KeepInv, ApartInv
<1>5. \A d \in ItemsOf(win') : d.status = "UnComplete" => got[d.publish.msg] > 0
  BY <1>2 DEF KeepInv, ReceivedInv
<1>6. \A m \in Held : m \in Held' \/ m \in Gone'
  BY <1>1, <1>3
<1>7. IdInv' /\ ReceivedInv' /\ AccountInv'
  BY <1>1, <1>3, <1>5, <1>6, WindowMove
<1> QED
  BY <1>4, <1>7 DEF KeepInv

(* A PUBREL is sent again: the entry is in the hand of the task. *)
LEMMA KeepRerelease ==
    ASSUME IInv, KeepInv, Rerelease
    PROVE  KeepInv'
<1> DEFINE e == Head(win)
           h == InflightMessage("UnComplete", e.publish)
<1>1. /\ win # << >> /\ win' = Tail(win) /\ hand' = <<h>>
      /\ toClient' = Append(toClient, Ack("PUBREL", e.publish.pid))
      /\ UNCHANGED <<rx, dq, buf, next, toBroker, unreleased, got, forwarded, Gone, acked>>
      /\ win \in Seq(Entries) /\ hand = << >>
  BY DEF Gone, Rerelease, FrontTimeout, IInv, TypeOK, HandInRelock
<1>2. /\ e \in Entries /\ e.publish \in PublishesOf(win) /\ OnceInWindow(win')
      /\ PublishesOf(win') \subseteq PublishesOf(win) /\ ItemsOf(win') \subseteq ItemsOf(win)
      /\ e.publish.msg \in WindowMsgs(win) /\ WindowMsgs(win') = WindowMsgs(win) \ {e.publish.msg}
  BY <1>1, WindowTail DEF KeepInv, ApartInv
<1>3. e.publish.pid \in PacketIds
  <2>1. e.publish.pid # NoId
    BY <1>1, FirstItem DEF IInv, DistinctIds
  <2> QED
    BY <1>2, <2>1, InflightAssumption DEF Entries, Publishes, PacketIds, NoId
<1>4. /\ WindowMsgs(hand') = {e.publish.msg} /\ OnceInWindow(hand')
      /\ PublishesOf(hand') = {e.publish}
  <2>1. DOMAIN hand' = {1} /\ hand'[1] = h /\ h.publish = e.publish
    BY <1>1, SMTT(20) DEF InflightMessage
  <2> HIDE DEF e, h
  <2> QED
    BY <2>1 DEF WindowMsgs, OnceInWindow, PublishesOf, ItemsOf
<1> HIDE DEF e, h
<1>5. Wire' = Wire
  BY <1>1, <1>3, WireAppend
<1>6. /\ Received' = Received /\ Kept' \subseteq Kept /\ Queue' = Queue /\ Held' = Held
  BY <1>1, <1>2, <1>4, NothingHeld DEF Received, Kept, Queue, Held
<1>7. ApartInv'
  BY <1>1, <1>2, <1>4, <1>6 DEF KeepInv, ApartInv
<1>8. \A d \in ItemsOf(win') : d.status = "UnComplete" => got[d.publish.msg] > 0
  BY <1>2 DEF KeepInv, ReceivedInv
<1>9. IdInv' /\ ReceivedInv' /\ AccountInv'
  BY <1>1, <1>5, <1>6, <1>8, WindowMove
<1> QED
  BY <1>7, <1>9 DEF KeepInv

-----------------------------------------------------------------------------
(* The retry interval of an entry passes. *)
LEMMA KeepLate ==
    ASSUME IInv, KeepInv, NEW i \in DOMAIN win, BecomeLate(i)
    PROVE  KeepInv'
<1>1. /\ win' = [win EXCEPT ![i].late = TRUE] /\ win \in Seq(Entries)
      /\ UNCHANGED <<rx, dq, buf, next, hand, toClient, toBroker, unreleased, got, forwarded, Gone, acked>>
  BY DEF Gone, BecomeLate, IInv, TypeOK
<1>2. DOMAIN win' = DOMAIN win /\ \A j \in DOMAIN win : /\ win'[j].publish = win[j].publish
                                                        /\ win'[j].status = win[j].status
  BY <1>1 DEF Entries
<1>3. /\ WindowMsgs(win') = WindowMsgs(win) /\ (OnceInWindow(win) => OnceInWindow(win'))
      /\ PublishesOf(win') = PublishesOf(win)
      /\ \A e \in ItemsOf(win') : \E d \in ItemsOf(win) : e.publish = d.publish /\ e.status = d.status
  <2>1. WindowMsgs(win') = WindowMsgs(win)
    BY <1>2 DEF WindowMsgs
  <2>2. OnceInWindow(win) => OnceInWindow(win')
    BY <1>2 DEF OnceInWindow
  <2>3. ASSUME NEW e \in ItemsOf(win')
        PROVE  \E d \in ItemsOf(win) : e.publish = d.publish /\ e.status = d.status
    <3>1. PICK j \in DOMAIN win' : e = win'[j]
      BY <2>3, Zenon DEF ItemsOf
    <3>2. /\ j \in DOMAIN win /\ win[j] \in ItemsOf(win)
          /\ e.publish = win[j].publish /\ e.status = win[j].status
      BY <1>2, <3>1, Zenon DEF ItemsOf
    <3> QED
      BY <3>2, Zenon
  <2>4. ASSUME NEW d \in ItemsOf(win) PROVE \E e \in ItemsOf(win') : e.publish = d.publish
    <3>1. PICK j \in DOMAIN win : d = win[j]
      BY <2>4, Zenon DEF ItemsOf
    <3>2. win'[j] \in ItemsOf(win') /\ win'[j].publish = d.publish
      BY <1>2, <3>1, Zenon DEF ItemsOf
    <3> QED
      BY <3>2, Zenon
  <2> QED
    BY <2>1, <2>2, <2>3, <2>4 DEF PublishesOf
<1>4. Wire' = Wire /\ Received' = Received /\ Kept' = Kept /\ Queue' = Queue /\ Held' = Held
  BY <1>1, <1>3, Zenon DEF Wire, Received, Kept, Queue, Held
<1>5. ApartInv'
  BY <1>1, <1>3, <1>4, Zenon DEF KeepInv, ApartInv
<1>6. \A e \in ItemsOf(win') : e.status = "UnComplete" => got[e.publish.msg] > 0
  BY <1>3 DEF KeepInv, ReceivedInv
<1>7. IdInv' /\ ReceivedInv' /\ AccountInv'
  BY <1>1, <1>4, <1>6, WindowMove, Zenon
<1> QED
  BY <1>5, <1>7 DEF KeepInv

(* Taking an acknowledgement from the connection. *)
LEMMA AckTaken ==
    ASSUME IInv, toBroker # << >>, toBroker' = Tail(toBroker), unreleased' = unreleased
    PROVE  /\ Received' \subseteq Received /\ Head(toBroker).pid \in PacketIds
           /\ Head(toBroker).type = "PUBREC" => Head(toBroker).pid \in Received
<1>1. toBroker \in Seq(ToBrokerPackets)
  BY DEF IInv, TypeOK
<1>2. ItemsOf(toBroker) = ItemsOf(toBroker') \cup {Head(toBroker)} /\ Head(toBroker) \in ToBrokerPackets
  BY <1>1, TailTakes
<1> QED
  BY <1>2 DEF Received, ToBrokerPackets

(* PUBACK and PUBCOMP settle the message with the packet id. *)
LEMMA KeepFinalAck ==
    ASSUME IInv, KeepInv, RecvFinalAck
    PROVE  KeepInv'
<1> DEFINE id == Head(toBroker).pid
<1>1. /\ toBroker # << >> /\ toBroker' = Tail(toBroker) /\ win' = Remove(win, id)
      /\ acked' = acked \cup {win[i].publish.msg : i \in {j \in DOMAIN win : win[j].publish.pid = id}}
      /\ UNCHANGED <<rx, dq, buf, next, hand, toClient, unreleased, got, forwarded, Gone>>
      /\ win \in Seq(Entries) /\ UniqueIds(win)
  BY DistinctIsUnique DEF Gone, RecvFinalAck, IInv, TypeOK
<1> HIDE DEF id
<1>2. ItemsOf(win') = {e \in ItemsOf(win) : e.publish.pid # id} /\ OnceInWindow(win')
  <2>1. /\ ItemsOf(Remove(win, id)) = {e \in ItemsOf(win) : e.publish.pid # id}
        /\ OnceInWindow(win) => OnceInWindow(Remove(win, id))
    BY <1>1, RemoveTakes, Zenon
  <2> QED
    BY <1>1, <2>1 DEF KeepInv, ApartInv
<1>3. /\ PublishesOf(win') \subseteq PublishesOf(win) /\ WindowMsgs(win') \subseteq WindowMsgs(win)
      /\ \A m \in WindowMsgs(win) : m \in WindowMsgs(win') \/ m \in acked'
  <2>1. PublishesOf(win') \subseteq PublishesOf(win)
    BY <1>2 DEF PublishesOf
  <2>2. \A e \in ItemsOf(win) : e \in ItemsOf(win') \/ e.publish.msg \in acked'
    BY <1>1, <1>2 DEF ItemsOf
  <2>3. \A w : WindowMsgs(w) = {e.publish.msg : e \in ItemsOf(w)}
    BY DEF WindowMsgs, ItemsOf
  <2> QED
    BY <1>2, <2>1, <2>2, <2>3
<1>4. \A m \in WindowMsgs(win) : forwarded[m] # 0
  BY WindowMsgsOf DEF KeepInv, IdInv, Known, Kept
<1>5. Received' \subseteq Received
  BY <1>1, AckTaken
<1>6. Wire' = Wire /\ Kept' \subseteq Kept /\ Queue' = Queue /\ Held' \subseteq Held
  BY <1>1, <1>3 DEF Wire, Kept, Queue, Held
<1>7. ApartInv'
  BY <1>1, <1>2, <1>3, <1>6, Zenon DEF KeepInv, ApartInv
<1>8. \A e \in ItemsOf(win') : e.status = "UnComplete" => got[e.publish.msg] > 0
  BY <1>2 DEF KeepInv, ReceivedInv
<1>9. \A m \in Held : m \in Held' \/ (forwarded[m] # 0 /\ m \in acked')
  BY <1>1, <1>3, <1>4, Zenon DEF Held
<1>10. IdInv' /\ ReceivedInv' /\ AccountInv'
  BY <1>1, <1>5, <1>6, <1>8, <1>9, WindowMove
<1> QED
  BY <1>7, <1>10 DEF KeepInv

(* PUBREC: the client has the message. *)
LEMMA KeepPubRec ==
    ASSUME IInv, KeepInv, RecvPubRec
    PROVE  KeepInv'
<1> DEFINE id == Head(toBroker).pid
<1>1. /\ toBroker # << >> /\ toBroker' = Tail(toBroker) /\ win' = UpdateStatus(win, id, "UnComplete")
      /\ toClient' = Append(toClient, Ack("PUBREL", id)) /\ Head(toBroker).type = "PUBREC"
      /\ UNCHANGED <<rx, dq, buf, next, hand, unreleased, got, forwarded, Gone, acked>>
      /\ win \in Seq(WindowOver(Publishes))
  BY EntriesAreWindow DEF Gone, RecvPubRec, IInv, TypeOK
<1>2. Received' \subseteq Received /\ id \in PacketIds /\ id \in Received
  BY <1>1, AckTaken
<1> HIDE DEF id
<1>3. /\ \A e \in ItemsOf(win') : \E d \in ItemsOf(win) :
            /\ e.publish = d.publish
            /\ e.status = IF d.publish.pid = id THEN "UnComplete" ELSE d.status
      /\ WindowMsgs(win') = WindowMsgs(win) /\ (OnceInWindow(win) => OnceInWindow(win'))
  BY <1>1, UpdateStatusSets
<1>4. PublishesOf(win') \subseteq PublishesOf(win)
  BY <1>3 DEF PublishesOf
<1>5. Wire' = Wire
  BY <1>1, <1>2, WireAppend
<1>6. Kept' \subseteq Kept /\ Queue' = Queue /\ Held' = Held
  BY <1>1, <1>3, <1>4 DEF Kept, Queue, Held
<1>7. ApartInv'
  BY <1>1, <1>3, <1>6 DEF KeepInv, ApartInv
<1>8. ASSUME NEW e \in ItemsOf(win'), e.status = "UnComplete"
      PROVE  got[e.publish.msg] > 0
  <2>1. PICK d \in ItemsOf(win) : /\ e.publish = d.publish
                                  /\ e.status = IF d.publish.pid = id THEN "UnComplete" ELSE d.status
    BY <1>3
  <2>2. d.publish \in Known
    BY DEF Known, Kept, PublishesOf
  <2> QED
    BY <1>2, <1>8, <2>1, <2>2 DEF KeepInv, ReceivedInv
<1>9. IdInv' /\ ReceivedInv' /\ AccountInv'
  BY <1>1, <1>2, <1>5, <1>6, <1>8, WindowMove
<1> QED
  BY <1>7, <1>9 DEF KeepInv

(* The client takes a packet from the connection. *)
LEMMA PacketTaken ==
    ASSUME IInv, toClient # << >>, toClient' = Tail(toClient)
    PROVE  /\ Wire' \subseteq Wire /\ Head(toClient) \in ToClientPackets
           /\ Head(toClient).type = "PUBLISH" =>
                 /\ Head(toClient).publish \in Wire
                 /\ \A p \in Wire : p \in Wire' \/ p = Head(toClient).publish
           /\ Head(toClient).type # "PUBLISH" => Wire' = Wire
<1>1. toClient \in Seq(ToClientPackets)
  BY DEF IInv, TypeOK
<1>2. ItemsOf(toClient) = ItemsOf(toClient') \cup {Head(toClient)} /\ Head(toClient) \in ToClientPackets
  BY <1>1, TailTakes
<1> QED
  BY <1>2 DEF Wire

(* The client releases a packet id. *)
LEMMA KeepClientPubRel ==
    ASSUME IInv, KeepInv, ClientPubRel
    PROVE  KeepInv'
<1> DEFINE id == Head(toClient).pid
<1>1. /\ toClient # << >> /\ toClient' = Tail(toClient) /\ Head(toClient).type = "PUBREL"
      /\ unreleased' = unreleased \ {id} /\ toBroker' = Append(toBroker, Ack("PUBCOMP", id))
      /\ UNCHANGED <<rx, dq, buf, win, hand, next, got, forwarded, Gone, acked>>
      /\ toBroker \in Seq(ToBrokerPackets)
  BY DEF Gone, ClientPubRel, brokerVars, IInv, TypeOK
<1>2. Wire' = Wire /\ id \in PacketIds
  <2>1. Head(toClient) \in ToClientPackets /\ Wire' = Wire
    BY <1>1, PacketTaken
  <2> QED
    BY <1>1, <2>1 DEF ToClientPackets
<1>3. Received' \subseteq Received
  <2> DEFINE x == Ack("PUBCOMP", id)
  <2>1. x \in ToBrokerPackets /\ x.type # "PUBREC"
    BY <1>2 DEF Ack, ToBrokerPackets
  <2> HIDE DEF x
  <2>2. ItemsOf(toBroker') = ItemsOf(toBroker) \cup {x}
    BY <1>1, <2>1, AppendAdds DEF x
  <2> QED
    BY <1>1, <2>1, <2>2 DEF Received
<1>4. Kept' = Kept /\ Queue' = Queue /\ Held' = Held
  BY <1>1 DEF Kept, Queue, Held
<1>5. ApartInv'
  BY <1>1, <1>4 DEF KeepInv, ApartInv
<1>6. \A e \in ItemsOf(win') : e.status = "UnComplete" => got[e.publish.msg] > 0
  BY <1>1, Zenon DEF KeepInv, ReceivedInv
<1>7. IdInv' /\ ReceivedInv' /\ AccountInv'
  BY <1>1, <1>2, <1>3, <1>4, <1>6, WindowMove
<1> QED
  BY <1>5, <1>7 DEF KeepInv

(* The client takes a message, or a repetition of one it has. *)
LEMMA KeepClientPublish ==
    ASSUME IInv, KeepInv, ClientPublish
    PROVE  KeepInv'
<1> DEFINE p == Head(toClient).publish
           new == ~(p.qos = 2 /\ p.pid \in unreleased)
           x == Ack(IF p.qos = 1 THEN "PUBACK" ELSE "PUBREC", p.pid)
<1>1. /\ toClient # << >> /\ toClient' = Tail(toClient) /\ Head(toClient).type = "PUBLISH"
      /\ got' = IF new THEN [got EXCEPT ![p.msg] = @ + 1] ELSE got
      /\ unreleased' = IF p.qos = 2 THEN unreleased \cup {p.pid} ELSE unreleased
      /\ toBroker' = IF p.qos = 0 THEN toBroker ELSE Append(toBroker, x)
      /\ UNCHANGED <<rx, dq, buf, win, hand, next, forwarded, Gone, acked>>
      /\ toBroker \in Seq(ToBrokerPackets)
  BY DEF Gone, ClientPublish, brokerVars, IInv, TypeOK
<1>2. /\ Wire' \subseteq Wire /\ p \in Wire /\ \A q \in Wire : q \in Wire' \/ q = p
  BY <1>1, PacketTaken
<1>3. p \in Known /\ p \in Publishes /\ (p.qos # 0 => p.pid # NoId)
  <2>1. p.qos # 0 => p.pid # NoId
    <3>1. toClient \in Seq(ToClientPackets)
      BY DEF IInv, TypeOK
    <3>2. 1 \in DOMAIN toClient /\ toClient[1] = Head(toClient)
      BY <1>1, <3>1, FirstItem
    <3> QED
      BY <1>1, <3>2 DEF IInv, WireIds
  <2> QED
    BY <1>2, <2>1, KnownTypes DEF Known
<1> HIDE DEF p
<1>4. Kept' = Kept /\ Queue' = Queue /\ Held' = Held /\ Known' \subseteq Known
  BY <1>1, <1>2 DEF Kept, Queue, Held, Known
<1>5. ApartInv'
  BY <1>1, <1>4 DEF KeepInv, ApartInv
<1>6. /\ \A m \in Msgs : got[m] > 0 => got'[m] > 0
      /\ new => got'[p.msg] > 0
  <2>1. got \in [Msgs -> Nat] /\ p.msg \in Msgs
    BY <1>3, KnownTypes
  <2>2. got' = [got EXCEPT ![p.msg] = @ + 1] \/ (~new /\ got' = got)
    BY <1>1
  <2> HIDE DEF new
  <2> QED
    BY <2>1, <2>2
<1>7. \A q \in Known' : \E r \in Known : SameCopy(q, r)
  BY <1>4 DEF SameCopy
<1>8. IdInv'
  <2>1. \A q \in Kept' : q.qos # 0
    BY <1>4 DEF KeepInv, IdInv
  <2> QED
    BY <1>1, <1>4, <1>7, <2>1, CopiesMove DEF KeepInv
<1>9. ReceivedInv'
  <2>1. Received' \subseteq Received \cup (IF p.qos = 2 THEN {p.pid} ELSE {})
    <3>1. CASE p.qos = 0
      BY <1>1, <3>1 DEF Received
    <3>2. CASE p.qos # 0
      <4>1. p.qos \in {1, 2} /\ p.pid \in PacketIds
        <5>1. p.qos \in 0 .. 2 /\ p.pid \in 0 .. IdSpan - 1 /\ p.pid # 0
          BY <1>3, <3>2, DeliveryAssumption, Zenon DEF Publishes, NoId
        <5> QED
          BY <3>2, <5>1, InflightAssumption DEF PacketIds
      <4>2. /\ x \in ToBrokerPackets /\ x.pid = p.pid
            /\ x.type = IF p.qos = 1 THEN "PUBACK" ELSE "PUBREC"
        BY <4>1 DEF Ack, ToBrokerPackets
      <4> HIDE DEF x
      <4>3. ItemsOf(toBroker') = ItemsOf(toBroker) \cup {x}
        BY <1>1, <3>2, <4>2, AppendAdds
      <4> QED
        BY <1>1, <4>1, <4>2, <4>3 DEF Received
    <3> QED
      BY <3>1, <3>2
  <2>2. p.qos = 2 => got'[p.msg] > 0
    <3>1. CASE new
      BY <1>6, <3>1
    <3>2. CASE ~new
      <4>1. p.pid \in Received
        BY <3>2 DEF Received
      <4>2. got[p.msg] > 0 /\ p.msg \in Msgs
        BY <1>3, <4>1, KnownTypes DEF KeepInv, ReceivedInv
      <4> QED
        BY <1>6, <4>2
    <3> QED
      BY <3>1, <3>2
  <2>3. \A id \in Received' : id < next'
    BY <1>1, <1>3, <2>1 DEF KeepInv, ReceivedInv, IdInv
  <2>4. ASSUME NEW q \in Known', q.pid \in Received' PROVE got'[q.msg] > 0
    <3>1. q \in Known /\ q.msg \in Msgs
      BY <1>4, KnownTypes
    <3>2. CASE q.pid \in Received
      BY <1>6, <3>1, <3>2 DEF KeepInv, ReceivedInv
    <3>3. CASE q.pid \notin Received
      <4>1. p.qos = 2 /\ q.pid = p.pid /\ p.pid # NoId
        BY <1>3, <2>1, <2>4, <3>3
      <4>2. q.msg = p.msg
        BY <1>3, <3>1, <4>1 DEF KeepInv, IdInv
      <4> QED
        BY <2>2, <4>1, <4>2
    <3> QED
      BY <3>2, <3>3
  <2>5. ASSUME NEW e \in ItemsOf(win'), e.status = "UnComplete" PROVE got'[e.publish.msg] > 0
    <3>1. e \in ItemsOf(win) /\ got[e.publish.msg] > 0
      BY <1>1, <2>5 DEF KeepInv, ReceivedInv
    <3>2. e.publish \in Known
      BY <3>1 DEF Known, Kept, PublishesOf
    <3> QED
      BY <1>6, <3>1, <3>2, KnownTypes
  <2> QED
    BY <2>3, <2>4, <2>5 DEF ReceivedInv
<1>10. AccountInv'
  <2>1. \A q \in Wire : forwarded[q.msg] = 0 => q \in Wire' \/ got'[q.msg] > 0
    <3>1. forwarded[p.msg] = 0 => got'[p.msg] > 0
      BY <1>3, <1>6 DEF KeepInv, IdInv
    <3> QED
      BY <1>2, <3>1
  <2> HIDE DEF new, x
  <2> QED
    BY <1>1, <1>4, <1>6, <2>1, AccountMove, Zenon DEF KeepInv
<1> QED
  BY <1>5, <1>8, <1>9, <1>10 DEF KeepInv

-----------------------------------------------------------------------------
(* A counter that has not come round gives its own value. *)
LEMMA NextIdIsNext ==
    ASSUME NEW w, NEW n \in 1 .. IdSpan - 2, n \notin Ids(w)
    PROVE  NextId(w, n) = n /\ NextCounter(w, n) = n + 1
<1>1. n % IdSpan = n /\ (n + 1) % IdSpan = n + 1 /\ n + 0 = n /\ 0 \in 0 .. IdSpan - 2
  BY InflightAssumption
<1>2. 0 \in Tries(w, n) /\ Tries(w, n) \subseteq Nat
  BY <1>1, InflightAssumption DEF Tries
<1>3. FirstTry(w, n) = 0
  <2>1. \A j \in Tries(w, n) : 0 <= j
    BY <1>2
  <2>2. FirstTry(w, n) \in Tries(w, n) /\ FirstTry(w, n) <= 0
    BY <1>2, <2>1 DEF FirstTry
  <2> QED
    BY <1>2, <2>2
<1> QED
  BY <1>1, <1>2, <1>3 DEF NextId, NextCounter

(* The id drawn for a message is the counter's value, which is none of the *)
(* window's.                                                               *)
LEMMA DrawnId ==
    ASSUME IInv, OrderInv, KeepInv, NoWrap, buf # << >>, NeedsId(Head(buf))
    PROVE  NextCounter(win, next) = next + 1 /\ ~Head(buf).dup /\ next <= Head(buf).msg
<1> DEFINE p == Head(buf)
<1>1. p \in Queue /\ p \in Publishes
  BY LimiterHolds DEF Queue
<1>2. ~p.dup /\ next <= p.msg
  BY <1>1 DEF KeepInv, IdInv, NeedsId
<1>3. next \in 1 .. IdSpan - 2
  <2>1. p.msg \in Msgs /\ next \in Nat /\ 1 <= next
    BY <1>1, KnownTypes DEF KeepInv, IdInv
  <2> QED
    BY <1>2, <2>1, DeliveryAssumption, InflightAssumption DEF Msgs, NoWrap
<1>4. \A i \in Ids(win) : i < next
  <2>1. \A i \in Ids(win) : \E r \in Kept : r.pid = i
    BY DEF Ids, Kept, PublishesOf, ItemsOf
  <2> QED
    BY <2>1 DEF KeepInv, IdInv, Known
<1>5. next \notin Ids(win)
  BY <1>3, <1>4
<1> QED
  BY <1>2, <1>3, <1>5, NextIdIsNext

(* A message whose send fails leaves the limiter for no other place. *)
LEMMA KeepUnsent ==
    ASSUME IInv, OrderInv, KeepInv, NoWrap, DeliverFails
    PROVE  KeepInv'
<1> DEFINE p == Head(buf)
<1>1. /\ buf # << >> /\ buf' = << >> /\ Gone' = Gone \cup {p.msg}
      /\ next' = IF NeedsId(p) THEN NextCounter(win, next) ELSE next
      /\ UNCHANGED <<rx, dq, win, hand, toClient, toBroker, unreleased, got, forwarded, acked>>
  BY DEF Gone, DeliverFails
<1>2. /\ ItemsOf(buf) = {p} /\ MsgsOf(buf) = {p.msg} /\ p \in Publishes
      /\ ItemsOf(buf') = {} /\ MsgsOf(buf') = {} /\ Once(buf')
  BY <1>1, LimiterHolds, NothingHeld
<1>3. /\ Queue' \subseteq Queue /\ p \in Queue /\ Held' \subseteq Held
      /\ \A m \in Held : m \in Held' \/ m \in Gone'
  BY <1>1, <1>2 DEF Queue, Held
<1>4. ApartInv'
  BY <1>1, <1>2, <1>3 DEF KeepInv, ApartInv
<1>5. CASE ~NeedsId(p)
  BY <1>1, <1>3, <1>4, <1>5, QueueMove DEF KeepInv
<1>6. CASE NeedsId(p)
  <2>1. next' = next + 1 /\ ~p.dup /\ next <= p.msg
    BY <1>1, <1>6, DrawnId
  <2> HIDE DEF p
  <2>2. /\ Kept' = Kept /\ Wire' = Wire /\ Received' = Received
        /\ ItemsOf(win') = ItemsOf(win)
    BY <1>1 DEF Kept, Wire, Received
  <2>3. Known' \subseteq Known /\ p \in Known
    BY <1>3, <2>2 DEF Known
  <2>4. /\ next \in Nat /\ Len(forwarded) \in Nat /\ 1 <= next
        /\ p.msg \in 1 .. Len(forwarded)
        /\ \A q \in Known : q.pid < next /\ q.pid \in Nat /\ q.msg \in Nat
    BY <2>3, KnownTypes DEF KeepInv, IdInv
  <2>5. \A q \in Queue' : IF q.dup THEN q.qos # 0 /\ q.pid # NoId
                                   ELSE q.pid = NoId /\ next' <= q.msg
    <3>1. ASSUME NEW q \in Queue', ~q.dup PROVE next' <= q.msg
      <4>1. q \in ItemsOf(rx) \cup ItemsOf(dq)
        BY <1>1, <1>2 DEF Queue
      <4>2. q.msg \in Fresh(dq) \cup Fresh(rx) /\ p.msg \in Fresh(buf)
        BY <1>2, <2>1, <3>1, <4>1 DEF Fresh
      <4>3. p.msg < q.msg /\ q.msg \in Nat
        BY <1>3, <2>4, <4>2 DEF OrderInv, Below, Known
      <4> QED
        BY <2>1, <2>4, <4>3
    <3> QED
      BY <1>3, <3>1 DEF KeepInv, IdInv
  <2>6. \A q \in Known' : q.pid < next'
    BY <2>1, <2>3, <2>4
  <2>7. next' \in 1 .. Len(forwarded) + 1
    BY <2>1, <2>4
  <2>8. IdInv'
    BY <1>1, <2>2, <2>3, <2>5, <2>6, <2>7 DEF KeepInv, IdInv
  <2>9. ReceivedInv'
    <3>1. \A i \in Received : i < next'
      BY <2>1, <2>4, KnownTypes DEF KeepInv, ReceivedInv, PacketIds
    <3> QED
      BY <1>1, <2>2, <2>3, <3>1 DEF KeepInv, ReceivedInv
  <2>10. AccountInv'
    BY <1>1, <1>3, <2>2, AccountMove DEF KeepInv
  <2> QED
    BY <1>4, <2>8, <2>9, <2>10 DEF KeepInv
<1> QED
  BY <1>5, <1>6

(* What deliver does: a QoS 0 message is sent, a retried one sent under    *)
(* its id and kept, and any other sent under a new id and kept.            *)
LEMMA DeliverEffect ==
    ASSUME IInv, OrderInv, KeepInv, NoWrap, Deliver
    PROVE  LET p == Head(buf) IN
           \/ p.qos = 0 /\ next' = next /\ win' = win /\ toClient' = Append(toClient, PublishPacket(p))
           \/ \E out \in Publishes :
                 /\ toClient' = Append(toClient, PublishPacket(out))
                 /\ win' = Append(win, InflightMessage(StatusOf(p), out))
                 /\ p.qos # 0 /\ out.msg = p.msg /\ out.qos = p.qos
                 /\ \/ p.dup /\ next' = next /\ out = p
                    \/ ~p.dup /\ next' = next + 1 /\ out.pid = next
<1> DEFINE p == Head(buf)
           id == IF NeedsId(p) THEN NextId(win, next) ELSE p.pid
           out == [p EXCEPT !.pid = id]
<1>1. /\ next' = IF NeedsId(p) THEN NextCounter(win, next) ELSE next
      /\ IF NeedsId(p) /\ id = NoId
         THEN UNCHANGED <<toClient, win, sent>>
         ELSE /\ toClient' = Append(toClient, PublishPacket(out))
              /\ IF p.qos = 0 THEN win' = win
                              ELSE win' \in PushBack(win, InflightMessage(StatusOf(p), out))
      /\ buf # << >>
  BY DEF Deliver
<1>2. p \in Queue /\ p \in Known /\ p \in Publishes /\ MsgsOf(buf) = {p.msg} /\ p.qos \in 0 .. 2
  BY <1>1, LimiterHolds, DeliveryAssumption DEF Queue, Known, Publishes
<1>3. \A r \in Kept : r.pid # NoId => r.pid # p.pid
  <2> SUFFICES ASSUME NEW r \in Kept, r.pid = p.pid, r.pid # NoId PROVE FALSE
    OBVIOUS
  <2>1. r.msg = p.msg
    BY <1>2 DEF KeepInv, IdInv, Known
  <2>2. r.msg \in WindowMsgs(win) \cup WindowMsgs(hand)
    BY WindowMsgsOf DEF Kept
  <2> QED
    BY <1>2, <2>1, <2>2, Zenon DEF KeepInv, ApartInv
<1>4. \A i \in Ids(win) : i # NoId /\ i < next /\ i # p.pid
  <2>1. \A i \in Ids(win) : i # NoId /\ \E r \in Kept : r.pid = i
    BY DEF Ids, Kept, PublishesOf, ItemsOf, IInv, DistinctIds
  <2> QED
    BY <1>3, <2>1 DEF KeepInv, IdInv, Known
<1>5. p = [p EXCEPT !.pid = p.pid]
  BY <1>2 DEF Publishes
<1>6. CASE p.qos = 0
  <2>1. ~NeedsId(p) /\ out = p
    BY <1>5, <1>6 DEF NeedsId
  <2> QED
    BY <1>1, <1>6, <2>1
<1>7. CASE p.qos # 0 /\ p.dup
  <2>1. p.pid # NoId
    BY <1>2, <1>7 DEF KeepInv, IdInv
  <2>2. ~NeedsId(p) /\ out = p
    BY <1>5, <1>7, <2>1 DEF NeedsId
  <2>3. win' \in PushBack(win, InflightMessage(StatusOf(p), p))
    BY <1>1, <1>7, <2>2
  <2>4. InflightMessage(StatusOf(p), p).publish = p /\ p.pid \notin Ids(win)
    BY <1>4 DEF InflightMessage
  <2>5. win' = Append(win, InflightMessage(StatusOf(p), p))
    BY <2>1, <2>3, <2>4 DEF PushBack
  <2> QED
    BY <1>1, <1>2, <1>7, <2>2, <2>5
<1>8. CASE p.qos # 0 /\ ~p.dup
  <2>1. NeedsId(p)
    BY <1>2, <1>8 DEF NeedsId
  <2>2. next \in 1 .. IdSpan - 2
    <3>1. next <= p.msg /\ p.msg \in Msgs /\ next \in Nat /\ 1 <= next
      BY <1>2, <1>8, KnownTypes DEF KeepInv, IdInv
    <3> QED
      BY <3>1, DeliveryAssumption, InflightAssumption DEF Msgs, NoWrap
  <2>3. next \notin Ids(win)
    BY <1>4, <2>2
  <2>4. NextId(win, next) = next /\ NextCounter(win, next) = next + 1
    BY <2>2, <2>3, NextIdIsNext
  <2>5. id = next /\ next # NoId /\ next \in 0 .. IdSpan - 1
    <3>1. id = next
      BY <2>1, <2>4
    <3> HIDE DEF id
    <3> QED
      BY <2>2, <3>1, InflightAssumption DEF NoId
  <2> HIDE DEF id
  <2>6. out \in Publishes /\ out.msg = p.msg /\ out.qos = p.qos /\ out.pid = next
    BY <1>2, <2>5 DEF Publishes
  <2> HIDE DEF out
  <2>7. win' \in PushBack(win, InflightMessage(StatusOf(p), out)) /\ next' = next + 1
        /\ toClient' = Append(toClient, PublishPacket(out))
    BY <1>1, <1>8, <2>1, <2>4, <2>5 DEF id, out
  <2>8. InflightMessage(StatusOf(p), out).publish = out
    BY DEF InflightMessage
  <2>9. win' = Append(win, InflightMessage(StatusOf(p), out))
    BY <2>3, <2>5, <2>6, <2>7, <2>8 DEF PushBack
  <2> HIDE DEF p
  <2> QED
    BY <1>8, <2>6, <2>7, <2>9 DEF p
<1> QED
  BY <1>6, <1>7, <1>8

(* deliver moves the message from the limiter to the connection and, for   *)
(* QoS 1 and 2, to the window.                                             *)
LEMMA KeepDeliver ==
    ASSUME IInv, OrderInv, KeepInv, NoWrap, Deliver
    PROVE  KeepInv'
<1> DEFINE p == Head(buf)
<1>1. /\ buf # << >> /\ buf' = << >>
      /\ UNCHANGED <<rx, dq, hand, toBroker, unreleased, got, forwarded, Gone, acked>>
      /\ win \in Seq(Entries)
  BY DEF Gone, Deliver, IInv, TypeOK
<1>2. /\ ItemsOf(buf) = {p} /\ MsgsOf(buf) = {p.msg} /\ p \in Publishes
      /\ ItemsOf(buf') = {} /\ MsgsOf(buf') = {} /\ Once(buf')
  BY <1>1, LimiterHolds, NothingHeld
<1>3. p \in Queue /\ p \in Known /\ Received' = Received
  BY <1>1, <1>2 DEF Queue, Known, Received
<1>4. \/ p.qos = 0 /\ next' = next /\ win' = win /\ toClient' = Append(toClient, PublishPacket(p))
      \/ \E out \in Publishes :
            /\ toClient' = Append(toClient, PublishPacket(out))
            /\ win' = Append(win, InflightMessage(StatusOf(p), out))
            /\ p.qos # 0 /\ out.msg = p.msg /\ out.qos = p.qos
            /\ \/ p.dup /\ next' = next /\ out = p
               \/ ~p.dup /\ next' = next + 1 /\ out.pid = next
  BY DeliverEffect
<1>5. Queue = Queue' \cup {p}
  BY <1>1, <1>2 DEF Queue
<1> HIDE DEF p
<1>6. CASE p.qos = 0 /\ next' = next /\ win' = win /\ toClient' = Append(toClient, PublishPacket(p))
  <2>1. Wire' = Wire \cup {p}
    BY <1>2, <1>6, WireAppend
  <2>2. Kept' = Kept /\ Held = Held' \cup {p.msg} /\ ItemsOf(win') = ItemsOf(win)
    BY <1>1, <1>2, <1>6 DEF Kept, Held
  <2>3. ApartInv'
    BY <1>1, <1>2, <1>6, <2>2 DEF KeepInv, ApartInv
  <2>4. \A q \in Known' : \E r \in Known : SameCopy(q, r)
    BY <1>3, <1>5, <2>1, <2>2 DEF Known, SameCopy
  <2>5. IdInv'
    <3>1. \A q \in Kept' : q.qos # 0
      BY <2>2 DEF KeepInv, IdInv
    <3> QED
      BY <1>1, <1>5, <1>6, <2>4, <3>1, CopiesMove DEF KeepInv
  <2>6. ReceivedInv'
    <3>1. \A e \in ItemsOf(win') : e.status = "UnComplete" => got'[e.publish.msg] > 0
      BY <1>1, <2>2 DEF KeepInv, ReceivedInv
    <3> QED
      BY <1>1, <1>3, <1>6, <2>4, <3>1, ReceivedMove DEF KeepInv
  <2>7. AccountInv'
    <3>1. forwarded[p.msg] = 0
      BY <1>3, <1>6 DEF KeepInv, IdInv
    <3>2. \A m \in Held : m \in Held' \/ (forwarded[m] = 0 /\ \E q \in Wire' : q.msg = m)
      BY <2>1, <2>2, <3>1
    <3>3. \A q \in Wire : forwarded[q.msg] = 0 => q \in Wire' \/ got'[q.msg] > 0
      BY <2>1
    <3> QED
      BY <1>1, <3>2, <3>3, AccountMove DEF KeepInv
  <2> QED
    BY <2>3, <2>5, <2>6, <2>7 DEF KeepInv
<1>7. ASSUME NEW out \in Publishes,
             toClient' = Append(toClient, PublishPacket(out)),
             win' = Append(win, InflightMessage(StatusOf(p), out)),
             p.qos # 0, out.msg = p.msg, out.qos = p.qos,
             \/ p.dup /\ next' = next /\ out = p
             \/ ~p.dup /\ next' = next + 1 /\ out.pid = next
      PROVE  KeepInv'
  <2> DEFINE e == InflightMessage(StatusOf(p), out)
  <2>1. Wire' = Wire \cup {out}
    BY <1>7, WireAppend
  <2>2. e \in Entries /\ e.publish = out /\ e.status # "UnComplete"
    BY <1>7 DEF InflightMessage, Entries, StatusOf, MomentStatus
  <2>3. win' = Append(win, e)
    BY <1>7
  <2> HIDE DEF e
  <2>4. ItemsOf(win') = ItemsOf(win) \cup {e}
    BY <1>1, <2>2, <2>3, AppendAdds
  <2>5. PublishesOf(win') = PublishesOf(win) \cup {out}
    BY <2>2, <2>4 DEF PublishesOf
  <2>6. WindowMsgs(win') = WindowMsgs(win) \cup {p.msg}
    BY <1>7, <2>5, WindowMsgsOf
  <2>7. p.msg \notin WindowMsgs(win)
    BY <1>2 DEF KeepInv, ApartInv
  <2>8. OnceInWindow(win')
    <3>1. \A i \in DOMAIN win' : (i \in DOMAIN win /\ win'[i] = win[i]) \/ (i = Len(win) + 1 /\ win'[i] = e)
      BY <1>1, <2>2, <2>3
    <3>2. \A i \in DOMAIN win : win[i].publish.msg # e.publish.msg
      BY <1>7, <2>2, <2>7 DEF WindowMsgs
    <3> QED
      BY <3>1, <3>2, Zenon DEF KeepInv, ApartInv, OnceInWindow
  <2>9. Kept' = Kept \cup {out} /\ Held' = Held
    BY <1>1, <1>2, <2>5, <2>6 DEF Kept, Held
  <2>10. ApartInv'
    BY <1>1, <1>2, <2>6, <2>8, <2>9 DEF KeepInv, ApartInv
  <2>11. AccountInv'
    BY <1>1, <2>1, <2>9, AccountMove, Zenon DEF KeepInv
  <2>12. Known' \subseteq Known \cup {out}
    BY <1>5, <2>1, <2>9 DEF Known
  <2>13. CASE p.dup /\ next' = next /\ out = p
    <3>1. \A q \in Known' : \E r \in Known : SameCopy(q, r)
      BY <1>3, <2>12, <2>13 DEF SameCopy
    <3>2. IdInv'
      <4>1. \A q \in Kept' : q.qos # 0
        BY <1>7, <2>9 DEF KeepInv, IdInv
      <4> QED
        BY <1>1, <1>5, <2>13, <3>1, <4>1, CopiesMove DEF KeepInv
    <3>3. ReceivedInv'
      <4>1. \A d \in ItemsOf(win') : d.status = "UnComplete" => got'[d.publish.msg] > 0
        BY <1>1, <2>2, <2>4 DEF KeepInv, ReceivedInv
      <4> QED
        BY <1>1, <1>3, <2>13, <3>1, <4>1, ReceivedMove DEF KeepInv
    <3> QED
      BY <2>10, <2>11, <3>2, <3>3 DEF KeepInv
  <2>14. CASE ~p.dup /\ next' = next + 1 /\ out.pid = next
    <3>1. /\ next \in Nat /\ Len(forwarded) \in Nat /\ next <= p.msg /\ 1 <= next
          /\ p.msg \in 1 .. Len(forwarded) /\ p.qos = forwarded[p.msg]
      BY <1>3, <2>14, KnownTypes DEF KeepInv, IdInv
    <3>2. \A q \in Known : q.pid < next /\ q.pid \in Nat /\ q.msg \in Nat
      BY KnownTypes DEF KeepInv, IdInv
    <3>3. \A q \in Queue' : IF q.dup THEN q.qos # 0 /\ q.pid # NoId
                                     ELSE q.pid = NoId /\ next' <= q.msg
      <4>1. ASSUME NEW q \in Queue', ~q.dup PROVE next' <= q.msg
        <5>1. q \in ItemsOf(rx) \cup ItemsOf(dq)
          BY <1>1, <1>2 DEF Queue
        <5>2. q.msg \in Fresh(dq) \cup Fresh(rx) /\ p.msg \in Fresh(buf)
          BY <1>2, <2>14, <4>1, <5>1 DEF Fresh
        <5>3. p.msg < q.msg /\ q.msg \in Nat
          BY <1>5, <3>2, <5>2 DEF OrderInv, Below, Known
        <5> QED
          BY <2>14, <3>1, <5>3
      <4> QED
        BY <1>5, <4>1 DEF KeepInv, IdInv
    <3>4. \A q \in Known' : /\ q.pid < next' /\ q.msg \in 1 .. Len(forwarded)
                            /\ q.qos = forwarded[q.msg]
      <4>1. \A q \in Known : q.pid < next'
        BY <2>14, <3>1, <3>2
      <4>2. out.pid < next'
        BY <2>14, <3>1
      <4> QED
        BY <1>7, <2>12, <3>1, <4>1, <4>2 DEF KeepInv, IdInv
    <3>5. \A q, r \in Known' : q.pid = r.pid /\ q.pid # NoId => q.msg = r.msg
      <4>1. \A q \in Known : q.pid # out.pid
        BY <2>14, <3>1, <3>2
      <4> QED
        BY <2>12, <4>1 DEF KeepInv, IdInv
    <3>6. IdInv'
      <4>1. next' \in 1 .. Len(forwarded) + 1
        BY <2>14, <3>1
      <4>2. \A q \in Kept' : q.qos # 0
        BY <1>7, <2>9 DEF KeepInv, IdInv
      <4> QED
        BY <1>1, <3>3, <3>4, <3>5, <4>1, <4>2, Zenon DEF IdInv
    <3>7. ReceivedInv'
      <4>1. \A i \in Received : i < next' /\ i # out.pid
        BY <2>14, <3>1, KnownTypes DEF KeepInv, ReceivedInv, PacketIds
      <4>2. \A q \in Known' : q.pid \in Received => got[q.msg] > 0
        BY <2>12, <4>1 DEF KeepInv, ReceivedInv
      <4>3. \A d \in ItemsOf(win') : d.status = "UnComplete" => got[d.publish.msg] > 0
        BY <2>2, <2>4 DEF KeepInv, ReceivedInv
      <4> QED
        BY <1>1, <1>3, <4>1, <4>2, <4>3 DEF ReceivedInv
    <3> QED
      BY <2>10, <2>11, <3>6, <3>7 DEF KeepInv
  <2> QED
    BY <1>7, <2>13, <2>14
<1> QED
  BY <1>4, <1>6, <1>7

(* The steps that change none of the places. *)
LEMMA KeepSame ==
    ASSUME KeepInv, UNCHANGED <<rx, dq, buf, win, hand, next, toClient, toBroker, unreleased, got,
                                forwarded, Gone, acked>>
    PROVE  KeepInv'
<1>1. Queue' = Queue /\ Kept' = Kept /\ Wire' = Wire /\ Received' = Received /\ Held' = Held
  BY Zenon DEF Queue, Kept, Wire, Received, Held
<1>2. Known' = Known
  BY <1>1 DEF Known
<1>3. ApartInv' /\ AccountInv'
  BY <1>1 DEF KeepInv, ApartInv, AccountInv
<1>4. IdInv' /\ ReceivedInv'
  BY <1>1, <1>2 DEF KeepInv, IdInv, ReceivedInv
<1> QED
  BY <1>3, <1>4 DEF KeepInv

(* Every step keeps every message, while the counter does not come round. *)
LEMMA NextKeep == NoWrap /\ IInv /\ OrderInv /\ KeepInv /\ [Next]_vars => KeepInv'
<1> SUFFICES ASSUME NoWrap, IInv, OrderInv, KeepInv, [Next]_vars PROVE KeepInv'
  OBVIOUS
<1>1. CASE \E q \in QosLevels : Forward(q)
  BY <1>1, KeepForward
<1>2. CASE RecvForward \/ Pull \/ DeliverExpired \/ Deliver \/ DeliverFails
  BY <1>2, KeepRecv, KeepPull, KeepExpired, KeepDeliver, KeepUnsent
<1>3. CASE Reforward \/ ReforwardExpired \/ Rerelease \/ RereleaseFails
  BY <1>3, KeepReforward, KeepForgotten, KeepRerelease, KeepGivenUp
<1>4. CASE \E i \in DOMAIN win : BecomeLate(i)
  BY <1>4, KeepLate
<1>5. CASE AckStep \/ ClientStep
  BY <1>5, KeepFinalAck, KeepPubRec, KeepClientPublish, KeepClientPubRel DEF AckStep, ClientStep
<1>6. CASE DeliverTimeout \/ RetryDone \/ UNCHANGED vars
  BY <1>6, KeepSame DEF DeliverTimeout, RetryDone, vars, Gone
<1> QED
  BY <1>1, <1>2, <1>3, <1>4, <1>5, <1>6 DEF Next, LoopStep

(* KeepInv says that nothing is lost and nothing doubled. *)
LEMMA KeepMeansKept == IInv /\ KeepInv => KeptOnce
<1> SUFFICES ASSUME IInv, KeepInv PROVE KeptOnce
  OBVIOUS
<1>1. NothingLost
  <2> SUFFICES ASSUME NEW m \in 1 .. Len(forwarded)
               PROVE  \/ InBroker(m) \/ m \in dropped \/ m \in failed
                      \/ IF forwarded[m] = 0 THEN OnWire(m) \/ got[m] > 0
                                             ELSE m \in acked \/ (MayExpire /\ got[m] > 0)
    BY DEF NothingLost
  <2>1. m \in Held => InBroker(m)
    BY Zenon DEF Held, MsgsOf, WindowMsgs, InBroker, InSeq, InWindow
  <2>2. (\E p \in Wire : p.msg = m) => OnWire(m)
    BY Zenon DEF Wire, ItemsOf, OnWire
  <2> QED
    BY <2>1, <2>2 DEF KeepInv, AccountInv, Gone
<1>2. OneCopy
  <2> SUFFICES ASSUME NEW m \in 1 .. Len(forwarded), NEW a \in Places(m), NEW b \in Places(m)
               PROVE  a = b
    BY DEF OneCopy
  <2> DEFINE In(name, s) == {<<name, i>> : i \in {j \in DOMAIN s : s[j].msg = m}}
             InWin(name, w) == {<<name, i>> : i \in {j \in DOMAIN w : w[j].publish.msg = m}}
  <2>1. m # 0
    OBVIOUS
  <2>2. ASSUME NEW name, NEW s, NEW c \in In(name, s), NEW d \in In(name, s), Once(s)
        PROVE  c = d /\ m \in MsgsOf(s)
    BY <2>1, <2>2 DEF Once, MsgsOf
  <2>3. ASSUME NEW name, NEW w, NEW c \in InWin(name, w), NEW d \in InWin(name, w), OnceInWindow(w)
        PROVE  c = d /\ m \in WindowMsgs(w)
    BY <2>3 DEF OnceInWindow, WindowMsgs
  <2>4. Places(m) = In("rx", rx) \cup In("dq", dq) \cup In("buf", buf)
                    \cup InWin("win", win) \cup InWin("hand", hand)
    BY Zenon DEF Places
  <2> HIDE DEF In, InWin
  <2>5. m \in MsgsOf(rx) => /\ m \notin MsgsOf(dq) /\ m \notin MsgsOf(buf)
                            /\ m \notin WindowMsgs(win) /\ m \notin WindowMsgs(hand)
    BY DEF KeepInv, ApartInv
  <2>6. m \in MsgsOf(dq) => /\ m \notin MsgsOf(buf)
                            /\ m \notin WindowMsgs(win) /\ m \notin WindowMsgs(hand)
    BY DEF KeepInv, ApartInv
  <2>7. /\ m \in MsgsOf(buf) => m \notin WindowMsgs(win) /\ m \notin WindowMsgs(hand)
        /\ m \in WindowMsgs(win) => m \notin WindowMsgs(hand)
    BY DEF KeepInv, ApartInv
  <2>8. Once(rx) /\ Once(dq) /\ Once(buf) /\ OnceInWindow(win) /\ OnceInWindow(hand)
    BY DEF KeepInv, ApartInv
  <2> QED
    BY <2>2, <2>3, <2>4, <2>5, <2>6, <2>7, <2>8
<1> QED
  BY <1>1, <1>2 DEF KeptOnce

(* At least once, in one place: for every size of window and queue and     *)
(* every number of messages below the range of packet ids, the session     *)
(* keeps each message in one of its buffers until it is acknowledged, sent *)
(* (QoS 0) or reported dropped, or a send of it returns an error.          *)
THEOREM MessagesKeptOnce == NoWrap => (Spec => []KeptOnce)
<1> SUFFICES ASSUME NoWrap PROVE Spec => []KeptOnce
  OBVIOUS
<1>1. Init => KeepInv
  <2> SUFFICES ASSUME Init PROVE KeepInv
    OBVIOUS
  <2>1. /\ rx = << >> /\ dq = << >> /\ buf = << >> /\ win = << >> /\ hand = << >> /\ Len(forwarded) = 0
        /\ ItemsOf(toClient) = {} /\ ItemsOf(toBroker) = {} /\ unreleased = {}
    BY NothingHeld DEF Init
  <2>2. next = 1
    <3>1. 1 % IdSpan = 1
      BY DeliveryAssumption, InflightAssumption DEF NoWrap
    <3> QED
      BY <3>1 DEF Init
  <2>3. Queue = {} /\ Kept = {} /\ Wire = {} /\ Received = {} /\ Held = {} /\ Known = {} /\ ItemsOf(win) = {}
    BY <2>1, NothingHeld DEF Queue, Kept, Wire, Received, Held, Known
  <2>4. ApartInv
    BY <2>1, <2>3, NothingHeld DEF ApartInv
  <2>5. IdInv /\ ReceivedInv /\ AccountInv
    BY <2>1, <2>2, <2>3 DEF IdInv, ReceivedInv, AccountInv
  <2> QED
    BY <2>4, <2>5 DEF KeepInv
<1>2. Spec => []IInv
  BY DeliveryInvariant
<1>3. Spec => []OrderInv
  BY InitOrder, NextOrder, <1>2, PTL DEF Spec
<1>4. IInv /\ OrderInv /\ KeepInv /\ [Next]_vars => KeepInv'
  BY NextKeep
<1>5. Spec => []KeepInv
  BY <1>1, <1>2, <1>3, <1>4, PTL DEF Spec
<1> QED
  BY <1>2, <1>5, KeepMeansKept, PTL
=============================================================================
