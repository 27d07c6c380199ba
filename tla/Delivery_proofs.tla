--------------------------- MODULE Delivery_proofs --------------------------
(***************************************************************************)
(* Safety of one online session for every window size, queue length, range *)
(* of packet ids and number of messages: the inductive invariant IInv and  *)
(* what follows from it.                                                   *)
(***************************************************************************)
EXTENDS Delivery, Inflight_proofs, TLAPS

\* Only a task waiting at "relock" has an entry in hand.
HandInRelock == loop # "relock" => hand = << >>

\* A QoS 1/2 PUBLISH on the connection carries a packet id.
WireIds ==
    \A i \in DOMAIN toClient :
        (toClient[i].type = "PUBLISH" /\ toClient[i].publish.qos # 0)
            => toClient[i].publish.pid # NoId

IInv == /\ TypeOK /\ WindowBounded /\ DistinctIds /\ TokenPerMessage
        /\ HandInRelock /\ WireIds

(* DistinctIds is UniqueIds of the window, the form the lemmas use. *)
LEMMA DistinctIsUnique == DistinctIds <=> UniqueIds(win)
BY DEF DistinctIds, UniqueIds

(* The same for the next state. *)
LEMMA DistinctIsUniquePrime == DistinctIds' <=> UniqueIds(win')
BY DEF DistinctIds, UniqueIds

(* Entries are windows over Publishes, the form UpdateStatusKeeps uses. *)
LEMMA EntriesAreWindow == Entries = WindowOver(Publishes)
BY DEF Entries, WindowOver

(* The initial state satisfies the invariant. *)
LEMMA InitIInv == Init => IInv
<1> SUFFICES ASSUME Init PROVE IInv
  OBVIOUS
<1> USE InflightAssumption, DeliverQueueAssumption, DeliveryAssumption
<1>1. TypeOK
  <2>1. 1 % IdSpan \in 0 .. IdSpan - 1
    OBVIOUS
  <2> QED
    BY <2>1 DEF Init, TypeOK, Msgs
<1>2. WindowBounded /\ DistinctIds /\ TokenPerMessage /\ HandInRelock /\ WireIds
  BY DEF Init, WindowBounded, DistinctIds, TokenPerMessage, HandInRelock, WireIds
<1> QED
  BY <1>1, <1>2 DEF IInv

(* Appending a packet to the connection keeps WireIds when the packet      *)
(* satisfies it.                                                           *)
LEMMA AppendWire ==
    ASSUME NEW S, toClient \in Seq(S), NEW p \in S, WireIds,
           toClient' = Append(toClient, p),
           p.type = "PUBLISH" /\ p.publish.qos # 0 => p.publish.pid # NoId
    PROVE  WireIds'
<1>1. \A i \in DOMAIN toClient' :
         \/ i \in DOMAIN toClient /\ toClient'[i] = toClient[i]
         \/ toClient'[i] = p
  OBVIOUS
<1> QED
  BY <1>1 DEF WireIds

(* Taking the first packet off the connection keeps WireIds. *)
LEMMA TailWire ==
    ASSUME NEW S, toClient \in Seq(S), toClient # << >>, WireIds,
           toClient' = Tail(toClient)
    PROVE  WireIds'
<1>1. \A i \in DOMAIN toClient' : i + 1 \in DOMAIN toClient /\ toClient'[i] = toClient[i + 1]
  OBVIOUS
<1> QED
  BY <1>1 DEF WireIds

(* Messages arriving in the channel and in the deliver queue. *)
LEMMA QueueSteps ==
    ASSUME IInv, \/ \E q \in QosLevels : Forward(q)
                 \/ RecvForward \/ Pull \/ DeliverExpired \/ DeliverFails
    PROVE  IInv'
<1> USE InflightAssumption, DeliverQueueAssumption, DeliveryAssumption DEF IInv
<1>1. ASSUME NEW q \in QosLevels, Forward(q) PROVE IInv'
  <2>1. [msg |-> Len(forwarded) + 1, qos |-> q, dup |-> FALSE, pid |-> NoId] \in Publishes
    <3>1. Len(forwarded) + 1 \in Msgs
      <4>1. Len(forwarded) < MaxMsgs
        BY <1>1 DEF Forward
      <4>2. Len(forwarded) \in Nat
        BY DEF TypeOK
      <4> QED
        BY <4>1, <4>2 DEF Msgs
    <3>2. NoId \in 0 .. IdSpan - 1
      BY DEF NoId
    <3> QED
      BY <3>1, <3>2 DEF Publishes
  <2>2. TypeOK'
    BY <1>1, <2>1 DEF Forward, TypeOK
  <2>3. (WindowBounded /\ DistinctIds /\ TokenPerMessage /\ HandInRelock /\ WireIds)'
    BY <1>1 DEF Forward, WindowBounded, DistinctIds, TokenPerMessage, HandInRelock, WireIds
  <2> QED
    BY <2>2, <2>3
<1>2. ASSUME RecvForward PROVE IInv'
  <2>1. Head(rx) \in Publishes /\ Tail(rx) \in Seq(Publishes)
    BY <1>2 DEF RecvForward, TypeOK
  <2>2. Full(dq) => dq # << >> /\ Head(dq) \in Publishes /\ Tail(dq) \in Seq(Publishes)
                    /\ Len(Tail(dq)) = Len(dq) - 1
    BY DEF Full, TypeOK
  <2>3. /\ SendQueue(dq, Head(rx)) \in Seq(Publishes)
        /\ SendTokens(dq, tokens) = Len(SendQueue(dq, Head(rx)))
        /\ SendTokens(dq, tokens) \in Nat
        /\ SendDropped(dq, Head(rx)) \subseteq Msgs
    <3>1. \A p \in Publishes : p.msg \in Msgs
      BY DEF Publishes
    <3>2. SendDropped(dq, Head(rx)) \subseteq Msgs
      BY <2>1, <2>2, <3>1 DEF SendDropped
    <3>3. /\ SendQueue(dq, Head(rx)) \in Seq(Publishes)
          /\ Len(SendQueue(dq, Head(rx))) = IF Full(dq) THEN Len(dq) ELSE Len(dq) + 1
      BY <2>1, <2>2 DEF SendQueue, TypeOK
    <3> QED
      BY <3>2, <3>3 DEF SendTokens, TypeOK, TokenPerMessage
  <2>4. TypeOK'
    BY <1>2, <2>1, <2>3 DEF RecvForward, TypeOK
  <2>5. TokenPerMessage'
    BY <1>2, <2>3 DEF RecvForward, TokenPerMessage
  <2>6. (WindowBounded /\ DistinctIds /\ HandInRelock /\ WireIds)'
    BY <1>2 DEF RecvForward, WindowBounded, DistinctIds, HandInRelock, WireIds
  <2> QED
    BY <2>4, <2>5, <2>6
<1>3. ASSUME Pull PROVE IInv'
  <2>1. dq # << >> /\ Head(dq) \in Publishes /\ Tail(dq) \in Seq(Publishes)
        /\ Len(Tail(dq)) = Len(dq) - 1
    BY <1>3 DEF Pull, TypeOK, TokenPerMessage
  <2>2. TypeOK'
    BY <1>3, <2>1 DEF Pull, TypeOK
  <2>3. TokenPerMessage'
    BY <1>3, <2>1 DEF Pull, TokenPerMessage
  <2>4. (WindowBounded /\ DistinctIds /\ HandInRelock /\ WireIds)'
    BY <1>3 DEF Pull, WindowBounded, DistinctIds, HandInRelock, WireIds
  <2> QED
    BY <2>2, <2>3, <2>4
<1>4. ASSUME DeliverExpired PROVE IInv'
  <2>1. Head(buf).msg \in Msgs
    <3>1. Head(buf) \in Publishes
      BY <1>4 DEF DeliverExpired, TypeOK
    <3> QED
      BY <3>1 DEF Publishes
  <2>2. TypeOK'
    BY <1>4, <2>1 DEF DeliverExpired, TypeOK
  <2>3. (WindowBounded /\ DistinctIds /\ TokenPerMessage /\ HandInRelock /\ WireIds)'
    BY <1>4 DEF DeliverExpired, WindowBounded, DistinctIds, TokenPerMessage, HandInRelock, WireIds
  <2> QED
    BY <2>2, <2>3
<1>5. ASSUME DeliverFails PROVE IInv'
  <2>1. Head(buf).msg \in Msgs
    <3>1. Head(buf) \in Publishes
      BY <1>5 DEF DeliverFails, TypeOK
    <3> QED
      BY <3>1 DEF Publishes
  <2>2. next' \in 0 .. IdSpan - 1
    <3>1. NextCounter(win, next) \in 0 .. IdSpan - 1
      BY NextIdFresh DEF TypeOK
    <3> QED
      BY <1>5, <3>1, Zenon DEF DeliverFails, TypeOK
  <2>3. /\ buf' = << >> /\ failed' \subseteq Msgs
        /\ UNCHANGED <<rx, dq, tokens, win, loop, hand, toClient, toBroker,
                       unreleased, got, forwarded, dropped, acked, sent, lates>>
    BY <1>5, <2>1 DEF DeliverFails, TypeOK
  <2>4. TypeOK'
    BY <2>2, <2>3 DEF TypeOK
  <2>5. (WindowBounded /\ DistinctIds /\ TokenPerMessage /\ HandInRelock /\ WireIds)'
    BY <2>3 DEF WindowBounded, DistinctIds, TokenPerMessage, HandInRelock, WireIds
  <2> QED
    BY <2>4, <2>5
<1> QED
  BY <1>1, <1>2, <1>3, <1>4, <1>5

(* deliver: a fresh id, the PUBLISH on the connection, the entry in the    *)
(* window.  Credit and the bound say there is room for one more.           *)
LEMMA DeliverStep == ASSUME IInv, Deliver PROVE IInv'
<1> USE InflightAssumption, DeliveryAssumption DEF IInv
<1> DEFINE p == Head(buf)
           id == IF NeedsId(p) THEN NextId(win, next) ELSE p.pid
           out == [p EXCEPT !.pid = id]
           m == InflightMessage(StatusOf(p), out)
<1>1. p \in Publishes
  <2>1. buf # << >>
    BY DEF Deliver
  <2>2. buf \in Seq(Publishes)
    BY DEF TypeOK
  <2> QED
    BY <2>1, <2>2
<1>2. /\ NextId(win, next) \in 0 .. IdSpan - 1
      /\ NextCounter(win, next) \in 0 .. IdSpan - 1
  BY NextIdFresh DEF TypeOK
<1>3. id \in 0 .. IdSpan - 1
  BY <1>1, <1>2 DEF Publishes
<1>4. /\ out \in Publishes /\ out.pid = id /\ out.qos = p.qos
      /\ p.msg \in Msgs
  <2> HIDE DEF id
  <2> QED
    BY <1>1, <1>3 DEF Publishes
<1>5. m \in Entries
  <2> HIDE DEF out
  <2> QED
    BY <1>4 DEF Entries, InflightMessage, StatusOf, MomentStatus
<1>6. next' \in 0 .. IdSpan - 1
  BY <1>2, Zenon DEF Deliver, TypeOK
<1>7. UniqueIds(win) /\ win \in Seq(Entries) /\ hand = << >>
  BY DistinctIsUnique DEF TypeOK, Deliver, HandInRelock
<1>8. Len(win) + 1 <= MaxInflight
  BY <1>7 DEF Deliver, HasCredit, WindowBounded
<1>frame. /\ buf' = << >>
          /\ UNCHANGED <<rx, dq, tokens, loop, hand, toBroker,
                         unreleased, got, forwarded, dropped, acked, failed, lates>>
  BY DEF Deliver
<1>9. CASE NeedsId(p) /\ id = NoId
  <2>1. UNCHANGED <<toClient, win, sent>>
    BY <1>9 DEF Deliver
  <2>2. TypeOK'
    BY <1>6, <1>frame, <2>1 DEF TypeOK
  <2>3. (WindowBounded /\ DistinctIds /\ TokenPerMessage /\ HandInRelock /\ WireIds)'
    BY <2>1 DEF Deliver, WindowBounded, DistinctIds, TokenPerMessage, HandInRelock, WireIds
  <2> QED
    BY <2>2, <2>3
<1>10. CASE ~(NeedsId(p) /\ id = NoId)
  <2>1. /\ toClient' = Append(toClient, PublishPacket(out))
        /\ sent' = IF p.dup THEN sent ELSE Append(sent, p.msg)
        /\ IF p.qos = 0 THEN win' = win ELSE win' \in PushBack(win, m)
    BY <1>10 DEF Deliver
  <2>2. win' \in Seq(Entries) /\ Len(win') <= Len(win) + 1 /\ UniqueIds(win')
    <3>1. CASE p.qos = 0
      BY <3>1, <2>1, <1>7
    <3>2. CASE p.qos # 0
      <4> HIDE DEF m
      <4> QED
        BY <3>2, <2>1, <1>5, <1>7, PushBackKeeps
    <3> QED
      BY <3>1, <3>2
  <2>3. PublishPacket(out) \in ToClientPackets
    <3> HIDE DEF out
    <3> QED
      BY <1>4 DEF PublishPacket, ToClientPackets
  <2>4. TypeOK'
    <3>1. toClient' \in Seq(ToClientPackets) /\ sent' \in Seq(Msgs)
      BY <1>4, <2>1, <2>3 DEF TypeOK
    <3> QED
      BY SMTT(30), <1>6, <1>frame, <2>2, <3>1 DEF TypeOK
  <2>5. WindowBounded'
    BY <1>7, <1>8, <2>2 DEF Deliver, WindowBounded, TypeOK
  <2>6. DistinctIds'
    BY <2>2, DistinctIsUniquePrime
  <2>7. WireIds'
    <3>1. p.qos # 0 => id # NoId
      <4>1. p.qos \in 0 .. 2
        BY <1>1, Zenon DEF Publishes
      <4> QED
        BY <4>1, <1>10 DEF NeedsId
    <3>2. PublishPacket(out).publish = out
      BY DEF PublishPacket
    <3>3. /\ toClient \in Seq(ToClientPackets) /\ WireIds
          /\ toClient' = Append(toClient, PublishPacket(out))
      BY <2>1 DEF TypeOK
    <3>4. PublishPacket(out).publish.qos # 0 => PublishPacket(out).publish.pid # NoId
      BY <1>4, <3>1, <3>2, Zenon
    <3> HIDE DEF out
    <3> QED
      BY <2>3, <3>3, <3>4, AppendWire
  <2>8. (TokenPerMessage /\ HandInRelock)'
    BY DEF Deliver, TokenPerMessage, HandInRelock
  <2> QED
    BY <2>4, <2>5, <2>6, <2>7, <2>8
<1> QED
  BY <1>9, <1>10

(* Time passes for an entry; the loop retries the entries that are late.   *)
LEMMA RetrySteps ==
    ASSUME IInv,
           \/ \E i \in DOMAIN win : BecomeLate(i)
           \/ DeliverTimeout \/ Reforward \/ ReforwardExpired \/ Rerelease
           \/ RereleaseFails \/ RetryDone
    PROVE  IInv'
<1> USE InflightAssumption, DeliveryAssumption DEF IInv
<1>u. UniqueIds(win) /\ win \in Seq(Entries) /\ Len(win) \in Nat
  BY DistinctIsUnique DEF TypeOK
<1>p. \A e \in Entries : e.publish \in Publishes
  BY DEF Entries
<1>h. FrontTimeout(win) =>
         /\ win # << >> /\ Head(win) \in Entries /\ Head(win).publish \in Publishes
         /\ Head(win).publish.pid \in PacketIds
  <2> SUFFICES ASSUME FrontTimeout(win)
               PROVE  /\ win # << >> /\ Head(win) \in Entries
                      /\ Head(win).publish \in Publishes
                      /\ Head(win).publish.pid \in PacketIds
    OBVIOUS
  <2>1. win # << >> /\ Head(win) \in Entries /\ Head(win) = win[1] /\ 1 \in DOMAIN win
    BY <1>u DEF FrontTimeout
  <2>2. Head(win).publish.pid # NoId
    BY <2>1, <1>u DEF UniqueIds
  <2>3. Head(win).publish.pid \in 0 .. IdSpan - 1
    BY <2>1, <1>p DEF Publishes
  <2> QED
    BY <2>1, <2>2, <2>3, <1>p DEF PacketIds, NoId
<1>t. FrontTimeout(win) => /\ Tail(win) \in Seq(Entries) /\ Len(Tail(win)) = Len(win) - 1
                           /\ UniqueIds(Tail(win))
  BY <1>u, <1>h, TailKeeps
<1>1. ASSUME NEW i \in DOMAIN win, BecomeLate(i) PROVE IInv'
  <2>1. win' = [win EXCEPT ![i].late = TRUE]
    BY <1>1 DEF BecomeLate
  <2>2. [win[i] EXCEPT !.late = TRUE] \in Entries
        /\ [win[i] EXCEPT !.late = TRUE].publish = win[i].publish
    <3>1. win[i] \in Entries
      BY <1>u
    <3> QED
      BY <3>1, Zenon DEF Entries
  <2>3. win' \in Seq(Entries) /\ Len(win') = Len(win) /\ DOMAIN win' = DOMAIN win
    BY <1>u, <2>1, <2>2
  <2>4. \A j \in DOMAIN win : win'[j].publish.pid = win[j].publish.pid
    BY <1>u, <2>1, <2>2
  <2>5. DistinctIds'
    BY <1>u, <2>3, <2>4, SameIdsKeep, DistinctIsUniquePrime
  <2>6. TypeOK'
    <3>1. /\ lates' = lates + 1
          /\ UNCHANGED <<rx, dq, tokens, buf, next, loop, hand, toClient, toBroker,
                         unreleased, got, forwarded, dropped, acked, failed, sent>>
      BY <1>1 DEF BecomeLate
    <3>2. TypeOK /\ lates' \in Nat
      BY <3>1 DEF TypeOK
    <3>3. win' \in Seq(Entries)
      BY <2>3
    <3> HIDE DEF IInv
    <3> QED
      BY <3>1, <3>2, <3>3 DEF TypeOK
  <2>7. (WindowBounded /\ TokenPerMessage /\ HandInRelock /\ WireIds)'
    BY <1>1, <2>3 DEF BecomeLate, WindowBounded, TokenPerMessage, HandInRelock, WireIds
  <2> QED
    BY <2>5, <2>6, <2>7
<1>2. ASSUME DeliverTimeout \/ RetryDone PROVE IInv'
  <2>1. TypeOK'
    BY <1>2, Zenon DEF DeliverTimeout, RetryDone, TypeOK
  <2>2. (WindowBounded /\ DistinctIds /\ TokenPerMessage /\ HandInRelock /\ WireIds)'
    BY <1>2 DEF DeliverTimeout, RetryDone, WindowBounded, DistinctIds, TokenPerMessage,
                HandInRelock, WireIds
  <2> QED
    BY <2>1, <2>2
<1>3. ASSUME Reforward PROVE IInv'
  <2>1. [Head(win).publish EXCEPT !.dup = TRUE] \in Publishes
    BY <1>3, <1>h, Zenon DEF Reforward, Publishes
  <2>2. TypeOK'
    <3>1. win' = Tail(win) /\ win' \in Seq(Entries)
      BY <1>3, <1>t DEF Reforward
    <3>2. rx' \in Seq(Publishes)
      BY <1>3, <2>1 DEF Reforward, TypeOK
    <3>3. UNCHANGED <<dq, tokens, buf, next, loop, hand, toClient, toBroker,
                      unreleased, got, forwarded, dropped, acked, failed, sent, lates>>
      BY <1>3 DEF Reforward
    <3> QED
      BY <3>1, <3>2, <3>3 DEF TypeOK
  <2>3. WindowBounded' /\ DistinctIds'
    BY <1>3, <1>t, DistinctIsUniquePrime DEF Reforward, WindowBounded, TypeOK
  <2>4. (TokenPerMessage /\ HandInRelock /\ WireIds)'
    BY <1>3 DEF Reforward, TokenPerMessage, HandInRelock, WireIds
  <2> QED
    BY <2>2, <2>3, <2>4
<1>4. ASSUME ReforwardExpired PROVE IInv'
  <2>1. TypeOK'
    BY <1>4, <1>t DEF ReforwardExpired, TypeOK
  <2>2. WindowBounded' /\ DistinctIds'
    BY <1>4, <1>t, DistinctIsUniquePrime DEF ReforwardExpired, WindowBounded, TypeOK
  <2>3. (TokenPerMessage /\ HandInRelock /\ WireIds)'
    BY <1>4 DEF ReforwardExpired, TokenPerMessage, HandInRelock, WireIds
  <2> QED
    BY <2>1, <2>2, <2>3
<1>5. ASSUME Rerelease PROVE IInv'
  <2>1. hand = << >> /\ loop' = "relock"
    BY <1>5 DEF Rerelease, HandInRelock
  <2>2. InflightMessage("UnComplete", Head(win).publish) \in Entries
    BY <1>5, <1>h DEF Rerelease, InflightMessage, Entries, MomentStatus
  <2>3. Ack("PUBREL", Head(win).publish.pid) \in ToClientPackets
    BY <1>5, <1>h DEF Rerelease, Ack, ToClientPackets
  <2>4. hand' \in Seq(Entries) /\ Len(hand') = 1
    BY <1>5, <2>2 DEF Rerelease
  <2>5. TypeOK'
    <3>1. win' = Tail(win) /\ win' \in Seq(Entries)
      BY <1>5, <1>t DEF Rerelease
    <3>2. toClient' \in Seq(ToClientPackets)
      BY <1>5, <2>3 DEF Rerelease, TypeOK
    <3>3. UNCHANGED <<rx, dq, tokens, buf, next, toBroker,
                      unreleased, got, forwarded, dropped, acked, failed, sent, lates>>
      BY <1>5 DEF Rerelease
    <3> QED
      BY <2>1, <2>4, <3>1, <3>2, <3>3 DEF TypeOK
  <2>6. WindowBounded' /\ DistinctIds'
    <3>1. FrontTimeout(win) /\ win' = Tail(win)
      BY <1>5 DEF Rerelease
    <3>2. DistinctIds'
      BY <1>t, <3>1, DistinctIsUniquePrime
    <3>3. WindowBounded'
      BY <1>t, <2>1, <2>4, <3>1 DEF WindowBounded, TypeOK
    <3> QED
      BY <3>2, <3>3
  <2>7. WireIds'
    <3>1. /\ toClient \in Seq(ToClientPackets) /\ WireIds
          /\ toClient' = Append(toClient, Ack("PUBREL", Head(win).publish.pid))
          /\ Ack("PUBREL", Head(win).publish.pid).type # "PUBLISH"
      BY <1>5 DEF Rerelease, TypeOK, Ack
    <3> QED
      BY <2>3, <3>1, AppendWire
  <2>8. TokenPerMessage' /\ HandInRelock'
    BY <1>5, <2>1 DEF Rerelease, TokenPerMessage, HandInRelock
  <2> QED
    BY <2>5, <2>6, <2>7, <2>8
<1>6. ASSUME RereleaseFails PROVE IInv'
  <2>1. Head(win).publish.msg \in Msgs /\ FrontTimeout(win)
    BY <1>6, <1>h DEF RereleaseFails, Publishes
  <2>2. /\ win' = Tail(win) /\ failed' \subseteq Msgs
        /\ UNCHANGED <<rx, dq, tokens, buf, next, loop, hand, toClient, toBroker,
                       unreleased, got, forwarded, dropped, acked, sent, lates>>
    BY <1>6, <2>1 DEF RereleaseFails, TypeOK
  <2>3. TypeOK'
    BY <1>t, <2>1, <2>2 DEF TypeOK
  <2>4. WindowBounded' /\ DistinctIds'
    BY <1>t, <2>1, <2>2, DistinctIsUniquePrime DEF WindowBounded, TypeOK
  <2>5. (TokenPerMessage /\ HandInRelock /\ WireIds)'
    BY <2>2 DEF TokenPerMessage, HandInRelock, WireIds
  <2> QED
    BY <2>3, <2>4, <2>5
<1> QED
  BY <1>1, <1>2, <1>3, <1>4, <1>5, <1>6

(* The acknowledgement handler, and the client. *)
LEMMA AckSteps == ASSUME IInv, AckStep \/ ClientStep PROVE IInv'
<1> USE InflightAssumption, DeliveryAssumption DEF IInv
<1>u. UniqueIds(win) /\ win \in Seq(Entries) /\ Len(win) \in Nat
  BY DistinctIsUnique DEF TypeOK
<1>b. toBroker # << >> => /\ Head(toBroker).pid \in PacketIds
                          /\ Tail(toBroker) \in Seq(ToBrokerPackets)
  <2>1. toBroker # << >> => /\ Head(toBroker) \in ToBrokerPackets
                            /\ Tail(toBroker) \in Seq(ToBrokerPackets)
    BY DEF TypeOK
  <2> QED
    BY <2>1 DEF ToBrokerPackets
<1>c. toClient # << >> => /\ Head(toClient) \in ToClientPackets
                          /\ Tail(toClient) \in Seq(ToClientPackets)
                          /\ Head(toClient) = toClient[1] /\ 1 \in DOMAIN toClient
  BY DEF TypeOK
<1>1. ASSUME RecvFinalAck PROVE IInv'
  <2> DEFINE id == Head(toBroker).pid
             settled == {win[i].publish.msg : i \in {j \in DOMAIN win : win[j].publish.pid = id}}
  <2>1. /\ win' = Remove(win, id) /\ acked' = acked \cup settled
        /\ toBroker' = Tail(toBroker) /\ toBroker # << >> /\ loop # "relock"
        /\ UNCHANGED <<rx, dq, tokens, buf, next, loop, hand, toClient,
                       unreleased, got, forwarded, dropped, failed, sent, lates>>
    BY <1>1 DEF RecvFinalAck, WindowFree
  <2>2. win' \in Seq(Entries) /\ Len(win') <= Len(win) /\ UniqueIds(win')
    BY <1>u, <2>1, RemoveKeeps
  <2>3. settled \subseteq Msgs
    <3>1. \A i \in DOMAIN win : win[i] \in Entries
      BY <1>u
    <3>2. \A e \in Entries : e.publish.msg \in Msgs
      BY DEF Entries, Publishes
    <3> QED
      BY <3>1, <3>2
  <2> HIDE DEF settled, id
  <2>4. TypeOK'
    BY <1>b, <2>1, <2>2, <2>3 DEF TypeOK
  <2>5. WindowBounded' /\ DistinctIds'
    BY <1>u, <2>1, <2>2, DistinctIsUniquePrime DEF WindowBounded, TypeOK
  <2>6. (TokenPerMessage /\ HandInRelock /\ WireIds)'
    BY <2>1 DEF TokenPerMessage, HandInRelock, WireIds
  <2> QED
    BY <2>4, <2>5, <2>6
<1>2. ASSUME RecvPubRec PROVE IInv'
  <2> DEFINE id == Head(toBroker).pid
  <2>1. /\ win' = UpdateStatus(win, id, "UnComplete")
        /\ toClient' = Append(toClient, Ack("PUBREL", id))
        /\ toBroker' = Tail(toBroker) /\ toBroker # << >>
        /\ UNCHANGED <<rx, dq, tokens, buf, next, loop, hand,
                       unreleased, got, forwarded, dropped, acked, failed, sent, lates>>
    BY <1>2 DEF RecvPubRec
  <2>2. win' \in Seq(Entries) /\ Len(win') = Len(win) /\ UniqueIds(win')
    BY <1>u, <2>1, EntriesAreWindow, UpdateStatusKeeps DEF MomentStatus
  <2>3. Ack("PUBREL", id) \in ToClientPackets /\ Ack("PUBREL", id).type # "PUBLISH"
    BY <1>b, <2>1 DEF Ack, ToClientPackets
  <2>4. toClient' \in Seq(ToClientPackets)
    BY <2>1, <2>3 DEF TypeOK
  <2>5. TypeOK'
    BY <1>b, <2>1, <2>2, <2>4 DEF TypeOK
  <2>6. WindowBounded' /\ DistinctIds'
    BY <2>1, <2>2, DistinctIsUniquePrime DEF WindowBounded
  <2>7. WireIds'
    BY <2>1, <2>3, AppendWire, Zenon DEF TypeOK
  <2>8. (TokenPerMessage /\ HandInRelock)'
    BY <2>1 DEF TokenPerMessage, HandInRelock
  <2> QED
    BY <2>5, <2>6, <2>7, <2>8
<1>3. ASSUME ClientPublish PROVE IInv'
  <2> DEFINE p == Head(toClient).publish
  <2>1. /\ toClient # << >> /\ Head(toClient).type = "PUBLISH" /\ toClient' = Tail(toClient)
        /\ got' \in {got, [got EXCEPT ![p.msg] = @ + 1]}
        /\ unreleased' = IF p.qos = 2 THEN unreleased \cup {p.pid} ELSE unreleased
        /\ toBroker' = IF p.qos = 0 THEN toBroker
                       ELSE Append(toBroker, Ack(IF p.qos = 1 THEN "PUBACK" ELSE "PUBREC", p.pid))
        /\ UNCHANGED <<brokerVars, forwarded, dropped, acked, failed, sent, lates>>
    BY <1>3 DEF ClientPublish
  <2>2. p \in Publishes
    BY <1>c, <2>1 DEF ToClientPackets
  <2>3. p.qos # 0 => p.pid \in PacketIds
    <3>1. p.qos # 0 => p.pid # NoId
      BY <1>c, <2>1 DEF WireIds
    <3> QED
      BY <2>2, <3>1 DEF Publishes, PacketIds, NoId
  <2>4. got' \in [Msgs -> Nat]
    <3>1. p.msg \in Msgs
      BY <2>2 DEF Publishes
    <3>2. got \in [Msgs -> Nat]
      BY DEF TypeOK
    <3> HIDE DEF p
    <3>3. got[p.msg] + 1 \in Nat
      BY <3>1, <3>2
    <3> QED
      BY <2>1, <3>1, <3>2, <3>3
  <2>5. unreleased' \subseteq PacketIds
    <3>1. unreleased \subseteq PacketIds
      BY DEF TypeOK
    <3>2. unreleased' = IF p.qos = 2 THEN unreleased \cup {p.pid} ELSE unreleased
      BY <2>1
    <3> HIDE DEF p, IInv
    <3> QED
      BY <2>3, <3>1, <3>2
  <2>6. toBroker' \in Seq(ToBrokerPackets)
    <3> DEFINE a == Ack(IF p.qos = 1 THEN "PUBACK" ELSE "PUBREC", p.pid)
    <3>1. p.qos # 0 => a \in ToBrokerPackets
      BY <2>3 DEF Ack, ToBrokerPackets
    <3>2. toBroker \in Seq(ToBrokerPackets)
      BY DEF TypeOK
    <3>3. toBroker' = IF p.qos = 0 THEN toBroker ELSE Append(toBroker, a)
      BY <2>1
    <3> HIDE DEF p, a, IInv
    <3> QED
      BY <3>1, <3>2, <3>3
  <2> HIDE DEF p
  <2>7. TypeOK'
    BY <1>c, <2>1, <2>4, <2>5, <2>6 DEF TypeOK, brokerVars
  <2>8. WireIds'
    BY <2>1, TailWire DEF TypeOK
  <2>9. (WindowBounded /\ DistinctIds /\ TokenPerMessage /\ HandInRelock)'
    BY <2>1 DEF brokerVars, WindowBounded, DistinctIds, TokenPerMessage, HandInRelock
  <2> QED
    BY <2>7, <2>8, <2>9
<1>4. ASSUME ClientPubRel PROVE IInv'
  <2>1. /\ toClient # << >> /\ Head(toClient).type = "PUBREL" /\ toClient' = Tail(toClient)
        /\ unreleased' = unreleased \ {Head(toClient).pid}
        /\ toBroker' = Append(toBroker, Ack("PUBCOMP", Head(toClient).pid))
        /\ UNCHANGED <<brokerVars, got, forwarded, dropped, acked, failed, sent, lates>>
    BY <1>4 DEF ClientPubRel
  <2>2. Head(toClient).pid \in PacketIds
    BY <1>c, <2>1 DEF ToClientPackets
  <2>3. toBroker' \in Seq(ToBrokerPackets)
    <3>1. Ack("PUBCOMP", Head(toClient).pid) \in ToBrokerPackets
      BY <2>2 DEF Ack, ToBrokerPackets
    <3> QED
      BY <2>1, <3>1 DEF TypeOK
  <2>4. TypeOK'
    BY <1>c, <2>1, <2>3 DEF TypeOK, brokerVars
  <2>5. WireIds'
    BY <2>1, TailWire DEF TypeOK
  <2>6. (WindowBounded /\ DistinctIds /\ TokenPerMessage /\ HandInRelock)'
    BY <2>1 DEF brokerVars, WindowBounded, DistinctIds, TokenPerMessage, HandInRelock
  <2> QED
    BY <2>4, <2>5, <2>6
<1> QED
  BY <1>1, <1>2, <1>3, <1>4 DEF AckStep, ClientStep

-----------------------------------------------------------------------------
(* Every step of the session, its connection task and its client keeps the *)
(* invariant.                                                              *)
LEMMA NextIInv == IInv /\ [Next]_vars => IInv'
<1> SUFFICES ASSUME IInv, [Next]_vars PROVE IInv'
  OBVIOUS
<1>1. CASE UNCHANGED vars
  <2>1. TypeOK'
    BY <1>1 DEF vars, IInv, TypeOK
  <2>2. (WindowBounded /\ DistinctIds /\ TokenPerMessage /\ HandInRelock /\ WireIds)'
    BY <1>1 DEF vars, IInv, WindowBounded, DistinctIds, TokenPerMessage, HandInRelock, WireIds
  <2> QED
    BY <2>1, <2>2 DEF IInv
<1>2. CASE Next
  BY <1>2, QueueSteps, DeliverStep, RetrySteps, AckSteps DEF Next, LoopStep
<1> QED
  BY <1>1, <1>2

(* IInv holds throughout. *)
THEOREM DeliveryInvariant == Spec => []IInv
BY InitIInv, NextIInv, PTL DEF Spec

(* The types hold for every instance: in particular every packet the       *)
(* broker sends or the client acknowledges carries an id of the counter's  *)
(* range other than 0.                                                     *)
THEOREM DeliveryTypeOK == Spec => []TypeOK
<1>1. IInv => TypeOK
  BY DEF IInv
<1> QED
  BY <1>1, DeliveryInvariant, PTL

(* The window never outgrows max_inflight, so the subtraction of           *)
(* has_credit never wraps.                                                 *)
THEOREM WindowStaysBounded == Spec => []WindowBounded
<1>1. IInv => WindowBounded
  BY DEF IInv
<1> QED
  BY <1>1, DeliveryInvariant, PTL

(* Two unanswered messages never share a packet id, for every range of the *)
(* counter: next_id skips the ids in use, however often it wraps, and a    *)
(* retried message that comes back under its old id adds no second entry.  *)
THEOREM IdsStayDistinct == Spec => []DistinctIds
<1>1. IInv => DistinctIds
  BY DEF IInv
<1> QED
  BY <1>1, DeliveryInvariant, PTL

(* The wake-up tokens and the messages of the deliver queue stay in step,  *)
(* for every cap of the queue: no message waits without a token.           *)
THEOREM TokensMatchQueue == Spec => []TokenPerMessage
<1>1. IInv => TokenPerMessage
  BY DEF IInv
<1> QED
  BY <1>1, DeliveryInvariant, PTL

(* Credit and wake-ups are right together in every instance: the loop      *)
(* neither overfills the window nor sleeps on a queued message.            *)
THEOREM LimitsKept == Spec => []WithinLimits
<1>1. IInv => WithinLimits
  BY DEF IInv, WithinLimits
<1> QED
  BY <1>1, DeliveryInvariant, PTL

-----------------------------------------------------------------------------
(***************************************************************************)
(* The order of first transmissions.  FirstSendsInOrder follows from       *)
(* OrderInv, by which the messages not yet sent stand in order in the      *)
(* limiter, the deliver queue and the channel, and above all that were     *)
(* sent.                                                                   *)
(***************************************************************************)
\* The messages of a queue that are still to be sent for the first time.
Fresh(s) == {p.msg : p \in {q \in ItemsOf(s) : ~q.dup}}

Rising(s) == \A i, j \in DOMAIN s : i < j /\ ~s[i].dup /\ ~s[j].dup => s[i].msg < s[j].msg

Below(A, B) == \A a \in A, b \in B : a < b

OrderInv ==
    /\ FirstSendsInOrder
    /\ Rising(dq) /\ Rising(rx) /\ Len(buf) <= 1
    /\ Below(ItemsOf(sent), Fresh(buf) \cup Fresh(dq) \cup Fresh(rx))
    /\ Below(Fresh(buf), Fresh(dq) \cup Fresh(rx))
    /\ Below(Fresh(dq), Fresh(rx))
    /\ \A m \in ItemsOf(sent) \cup Fresh(buf) \cup Fresh(dq) \cup Fresh(rx) : m <= Len(forwarded)

(* Popping the front of a rising queue. *)
LEMMA RisingTail ==
    ASSUME NEW s \in Seq(Publishes), s # << >>, Rising(s)
    PROVE  /\ Rising(Tail(s)) /\ Fresh(Tail(s)) \subseteq Fresh(s)
           /\ ~Head(s).dup => Head(s).msg \in Fresh(s) /\ Below({Head(s).msg}, Fresh(Tail(s)))
<1>1. /\ 1 \in DOMAIN s /\ s[1] = Head(s) /\ DOMAIN s = 1 .. Len(s) /\ Len(s) \in Nat
      /\ ItemsOf(s) = ItemsOf(Tail(s)) \cup {Head(s)}
  BY FirstItem, TailTakes
<1>2. \A i \in DOMAIN Tail(s) : i \in Nat /\ i # 0 /\ i + 1 \in DOMAIN s /\ Tail(s)[i] = s[i + 1]
  OBVIOUS
<1>3. Rising(Tail(s))
  BY <1>2 DEF Rising
<1>4. Fresh(Tail(s)) \subseteq Fresh(s) /\ (~Head(s).dup => Head(s).msg \in Fresh(s))
  BY <1>1 DEF Fresh
<1>5. ASSUME ~Head(s).dup, NEW b \in Fresh(Tail(s)) PROVE Head(s).msg < b
  <2>1. PICK i \in DOMAIN Tail(s) : ~Tail(s)[i].dup /\ Tail(s)[i].msg = b
    BY DEF Fresh, ItemsOf
  <2>2. 1 < i + 1 /\ i + 1 \in DOMAIN s /\ s[i + 1] = Tail(s)[i]
    BY <1>2
  <2> QED
    BY <1>1, <1>5, <2>1, <2>2 DEF Rising
<1> QED
  BY <1>3, <1>4, <1>5 DEF Below

(* Sending to the back of a rising queue. *)
LEMMA RisingAppend ==
    ASSUME NEW s \in Seq(Publishes), Rising(s), NEW x \in Publishes,
           ~x.dup => Below(Fresh(s), {x.msg})
    PROVE  /\ Rising(Append(s, x))
           /\ Fresh(Append(s, x)) \subseteq Fresh(s) \cup {x.msg}
           /\ x.dup => Fresh(Append(s, x)) = Fresh(s)
<1>1. ItemsOf(Append(s, x)) = ItemsOf(s) \cup {x}
  BY AppendAdds
<1>2. /\ Fresh(Append(s, x)) \subseteq Fresh(s) \cup {x.msg}
      /\ x.dup => Fresh(Append(s, x)) = Fresh(s)
  BY <1>1 DEF Fresh
<1>3. /\ DOMAIN s = 1 .. Len(s) /\ Len(s) \in Nat
      /\ \A i \in DOMAIN Append(s, x) :
            (i \in DOMAIN s /\ Append(s, x)[i] = s[i]) \/ (i = Len(s) + 1 /\ Append(s, x)[i] = x)
  OBVIOUS
<1>4. \A i \in DOMAIN s : ~s[i].dup => s[i].msg \in Fresh(s)
  BY DEF Fresh, ItemsOf
<1>5. Rising(Append(s, x))
  <2> SUFFICES ASSUME NEW i \in DOMAIN Append(s, x), NEW j \in DOMAIN Append(s, x), i < j,
                      ~Append(s, x)[i].dup, ~Append(s, x)[j].dup
               PROVE  Append(s, x)[i].msg < Append(s, x)[j].msg
    BY DEF Rising
  <2>1. i \in DOMAIN s /\ Append(s, x)[i] = s[i]
    BY <1>3
  <2>2. CASE j \in DOMAIN s /\ Append(s, x)[j] = s[j]
    BY <2>1, <2>2 DEF Rising
  <2>3. CASE Append(s, x)[j] = x
    BY <2>1, <2>3, <1>4 DEF Below
  <2> QED
    BY <1>3, <2>2, <2>3
<1> QED
  BY <1>2, <1>5

(* Sender::send keeps the deliver queue rising. *)
LEMMA SendRising ==
    ASSUME NEW q \in Seq(Publishes), Rising(q), NEW x \in Publishes,
           ~x.dup => Below(Fresh(q), {x.msg})
    PROVE  /\ Rising(SendQueue(q, x))
           /\ Fresh(SendQueue(q, x)) \subseteq Fresh(q) \cup {x.msg}
           /\ x.dup => Fresh(SendQueue(q, x)) \subseteq Fresh(q)
<1>1. CASE ~Full(q)
  BY <1>1, RisingAppend, Zenon DEF SendQueue
<1>2. CASE Full(q) /\ Policy(x) = "Early"
  <2>1. q # << >>
    <3>1. Len(q) # 0
      BY <1>2, DeliverQueueAssumption DEF Full
    <3> QED
      BY <3>1
  <2>2. Rising(Tail(q)) /\ Fresh(Tail(q)) \subseteq Fresh(q) /\ Tail(q) \in Seq(Publishes)
    BY <2>1, RisingTail, TailTakes, Zenon
  <2>3. ~x.dup => Below(Fresh(Tail(q)), {x.msg})
    BY <2>2 DEF Below
  <2>4. SendQueue(q, x) = Append(Tail(q), x)
    BY <1>2 DEF SendQueue
  <2> QED
    BY <2>2, <2>3, <2>4, RisingAppend, Zenon
<1>3. CASE Full(q) /\ Policy(x) # "Early"
  BY <1>3 DEF SendQueue
<1> QED
  BY <1>1, <1>2, <1>3

(* A single publish in the limiter. *)
LEMMA FreshOne ==
    ASSUME NEW s \in Seq(Publishes), s # << >>, Len(s) <= 1
    PROVE  /\ ItemsOf(s) = {Head(s)} /\ Head(s) \in Publishes
           /\ Fresh(s) = IF Head(s).dup THEN {} ELSE {Head(s).msg}
<1>1. DOMAIN s = {1} /\ s[1] = Head(s) /\ Head(s) \in Publishes
  BY FirstItem
<1>2. ItemsOf(s) = {Head(s)}
  BY <1>1 DEF ItemsOf
<1> QED
  BY <1>1, <1>2 DEF Fresh

(* An empty queue has nothing to send. *)
LEMMA FreshNone == Fresh(<< >>) = {} /\ ItemsOf(<< >>) = {} /\ Rising(<< >>)
BY DEF Fresh, ItemsOf, Rising

(* A message forwarded to the session is above all before it. *)
LEMMA OrderForward ==
    ASSUME IInv, OrderInv, NEW q \in QosLevels, Forward(q)
    PROVE  OrderInv'
<1> DEFINE x == [msg |-> Len(forwarded) + 1, qos |-> q, dup |-> FALSE, pid |-> NoId]
<1>1. /\ rx' = Append(rx, x) /\ UNCHANGED <<dq, buf, sent>> /\ x.msg = Len(forwarded) + 1
      /\ forwarded' = Append(forwarded, q) /\ Len(forwarded) < MaxMsgs /\ ~x.dup
  BY DEF Forward
<1>2. /\ forwarded \in Seq(QosLevels) /\ rx \in Seq(Publishes) /\ Len(forwarded) \in Nat
      /\ Len(forwarded') = Len(forwarded) + 1
  BY <1>1 DEF IInv, TypeOK
<1>3. x \in Publishes
  BY <1>1, <1>2, InflightAssumption, DeliveryAssumption DEF Publishes, Msgs, NoId
<1>4. \A m \in ItemsOf(sent) \cup Fresh(buf) \cup Fresh(dq) \cup Fresh(rx) : m \in Int /\ m < x.msg
  <2>1. \A m \in ItemsOf(sent) \cup Fresh(buf) \cup Fresh(dq) \cup Fresh(rx) : m \in Nat
    <3>1. \A p \in Publishes : p.msg \in Nat
      BY DeliveryAssumption DEF Publishes, Msgs
    <3>2. \A m \in ItemsOf(sent) : m \in Nat
      <4>1. sent \in Seq(Msgs)
        BY DEF IInv, TypeOK
      <4>2. \A m \in ItemsOf(sent) : m \in Msgs
        BY <4>1 DEF ItemsOf
      <4> QED
        BY <4>2, DeliveryAssumption DEF Msgs
    <3>3. \A m \in Fresh(buf) \cup Fresh(dq) \cup Fresh(rx) : m \in Nat
      BY <3>1 DEF IInv, TypeOK, ItemsOf, Fresh
    <3> QED
      BY <3>2, <3>3
  <2> QED
    BY <1>1, <1>2, <2>1 DEF OrderInv
<1> HIDE DEF x
<1>5. Rising(rx') /\ Fresh(rx') \subseteq Fresh(rx) \cup {x.msg}
  <2>1. Below(Fresh(rx), {x.msg})
    BY <1>4 DEF Below
  <2> QED
    BY <1>1, <1>2, <1>3, <2>1, RisingAppend DEF OrderInv
<1>6. \A m \in ItemsOf(sent) \cup Fresh(buf) \cup Fresh(dq) \cup Fresh(rx') : m <= Len(forwarded')
  <2>1. x.msg = Len(forwarded') /\ x.msg \in Nat
    BY <1>1, <1>2
  <2>2. \A m \in ItemsOf(sent) \cup Fresh(buf) \cup Fresh(dq) \cup Fresh(rx') :
           m = x.msg \/ (m \in Int /\ m < x.msg)
    BY <1>4, <1>5
  <2> QED
    BY <2>1, <2>2
<1>7. \A m \in ItemsOf(sent) \cup Fresh(buf) \cup Fresh(dq), b \in Fresh(rx') :
         b \in Fresh(rx) \/ m < b
  BY <1>4, <1>5
<1> QED
  BY <1>1, <1>5, <1>6, <1>7, Zenon DEF OrderInv, Below, FirstSendsInOrder

(* A message moves from the channel to the deliver queue. *)
LEMMA OrderRecv ==
    ASSUME IInv, OrderInv, RecvForward
    PROVE  OrderInv'
<1> DEFINE x == Head(rx)
<1>1. /\ rx' = Tail(rx) /\ dq' = SendQueue(dq, x) /\ rx # << >>
      /\ UNCHANGED <<buf, sent, forwarded>>
      /\ rx \in Seq(Publishes) /\ dq \in Seq(Publishes)
  BY DEF RecvForward, IInv, TypeOK
<1>2. /\ Rising(rx') /\ Fresh(rx') \subseteq Fresh(rx)
      /\ ~x.dup => x.msg \in Fresh(rx) /\ Below({x.msg}, Fresh(rx'))
  BY <1>1, RisingTail DEF OrderInv
<1>3. x \in Publishes
  BY <1>1, FirstItem
<1> HIDE DEF x
<1>4. /\ Rising(dq') /\ Fresh(dq') \subseteq Fresh(dq) \cup {x.msg}
      /\ x.dup => Fresh(dq') \subseteq Fresh(dq)
  <2>1. ~x.dup => Below(Fresh(dq), {x.msg})
    BY <1>2 DEF OrderInv, Below
  <2> QED
    BY <1>1, <1>3, <2>1, SendRising, Zenon DEF OrderInv
<1>5. Below(Fresh(dq'), Fresh(rx'))
  BY <1>2, <1>4 DEF OrderInv, Below
<1>6. \A m \in Fresh(dq') \cup Fresh(rx') : m \in Fresh(dq) \cup Fresh(rx)
  BY <1>2, <1>4
<1> QED
  BY <1>1, <1>2, <1>4, <1>5, <1>6, Zenon DEF OrderInv, Below, FirstSendsInOrder

(* A message moves from the deliver queue to the limiter. *)
LEMMA OrderPull ==
    ASSUME IInv, OrderInv, Pull
    PROVE  OrderInv'
<1>1. /\ dq # << >> /\ dq' = Tail(dq) /\ buf = << >> /\ buf' = <<Head(dq)>>
      /\ UNCHANGED <<rx, sent, forwarded>> /\ dq \in Seq(Publishes)
  BY DEF Pull, IInv, TypeOK, TokenPerMessage
<1>2. /\ Rising(dq') /\ Fresh(dq') \subseteq Fresh(dq)
      /\ ~Head(dq).dup => Head(dq).msg \in Fresh(dq) /\ Below({Head(dq).msg}, Fresh(dq'))
  BY <1>1, RisingTail, Zenon DEF OrderInv
<1>3. Head(dq) \in Publishes
  BY <1>1, FirstItem
<1>4. Len(buf') <= 1 /\ Fresh(buf') \subseteq Fresh(dq) /\ Below(Fresh(buf'), Fresh(dq'))
  <2>1. buf' \in Seq(Publishes) /\ buf' # << >> /\ Len(buf') <= 1 /\ Head(buf') = Head(dq)
    BY <1>1, <1>3
  <2>2. Fresh(buf') = IF Head(dq).dup THEN {} ELSE {Head(dq).msg}
    BY <2>1, FreshOne
  <2> QED
    BY <1>2, <2>1, <2>2 DEF Below
<1> QED
  BY <1>1, <1>2, <1>4, Zenon DEF OrderInv, Below, FirstSendsInOrder

(* A message that is expired or refused leaves the limiter unsent. *)
LEMMA OrderExpired ==
    ASSUME IInv, OrderInv, buf' = << >>, UNCHANGED <<rx, dq, sent, forwarded>>
    PROVE  OrderInv'
<1>1. Fresh(buf') = {} /\ Len(buf') <= 1
  BY FreshNone
<1> QED
  BY <1>1, Zenon DEF OrderInv, Below, FirstSendsInOrder

(* A message sent for the first time is above all sent before and below    *)
(* all still to be sent.                                                   *)
LEMMA OrderSent ==
    ASSUME IInv, OrderInv, buf # << >>, ~Head(buf).dup, buf' = << >>,
           sent' = Append(sent, Head(buf).msg), UNCHANGED <<rx, dq, forwarded>>
    PROVE  OrderInv'
<1> DEFINE m == Head(buf).msg
<1>1. Fresh(buf) = {m} /\ m \in Msgs /\ sent \in Seq(Msgs)
  <2>1. buf \in Seq(Publishes) /\ Len(buf) <= 1 /\ sent \in Seq(Msgs)
    BY DEF IInv, TypeOK, OrderInv
  <2>2. Head(buf) \in Publishes /\ Fresh(buf) = {m}
    BY <2>1, FreshOne
  <2> QED
    BY <2>1, <2>2 DEF Publishes
<1>2. Fresh(buf') = {} /\ Len(buf') <= 1
  BY FreshNone
<1> HIDE DEF m
<1>3. ItemsOf(sent') = ItemsOf(sent) \cup {m}
  BY <1>1, AppendAdds DEF m
<1>4. \A a \in ItemsOf(sent) : a < m
  BY <1>1 DEF OrderInv, Below
<1>5. FirstSendsInOrder'
  <2>1. \A i \in DOMAIN sent' : \/ i \in DOMAIN sent /\ sent'[i] = sent[i] /\ sent[i] < m
                                \/ i = Len(sent) + 1 /\ sent'[i] = m
    <3>1. \A i \in DOMAIN sent : sent[i] < m
      BY <1>4 DEF ItemsOf
    <3>2. sent' = Append(sent, m)
      BY DEF m
    <3> QED
      BY <1>1, <3>1, <3>2
  <2>2. DOMAIN sent = 1 .. Len(sent) /\ Len(sent) \in Nat
    BY <1>1
  <2> QED
    BY <2>1, <2>2 DEF OrderInv, FirstSendsInOrder
<1>6. Below(ItemsOf(sent'), Fresh(dq) \cup Fresh(rx))
  BY <1>1, <1>3, Zenon DEF OrderInv, Below
<1>7. \A a \in ItemsOf(sent') : a <= Len(forwarded)
  BY <1>1, <1>3, Zenon DEF OrderInv
<1> QED
  BY <1>2, <1>5, <1>6, <1>7, Zenon DEF OrderInv, Below

(* A message put back for a retry is not fresh. *)
LEMMA OrderReforward ==
    ASSUME IInv, OrderInv, Reforward
    PROVE  OrderInv'
<1> DEFINE x == [Head(win).publish EXCEPT !.dup = TRUE]
<1>1. /\ rx' = Append(rx, x) /\ UNCHANGED <<dq, buf, sent, forwarded>> /\ win # << >>
      /\ rx \in Seq(Publishes) /\ win \in Seq(Entries)
  BY DEF Reforward, FrontTimeout, IInv, TypeOK
<1>2. Head(win) \in Entries
  BY <1>1, FirstItem
<1>3. x \in Publishes /\ x.dup
  BY <1>2, Zenon DEF Entries, Publishes
<1> HIDE DEF x
<1>4. Rising(rx') /\ Fresh(rx') = Fresh(rx)
  BY <1>1, <1>3, RisingAppend, Zenon DEF OrderInv
<1> QED
  BY <1>1, <1>4, Zenon DEF OrderInv, Below, FirstSendsInOrder

(* The steps that send nothing and touch no queue. *)
LEMMA OtherSteps ==
    ASSUME \/ \E i \in DOMAIN win : BecomeLate(i)
           \/ DeliverTimeout \/ ReforwardExpired \/ Rerelease
           \/ RereleaseFails \/ RetryDone
           \/ AckStep \/ ClientStep \/ UNCHANGED vars
    PROVE  UNCHANGED <<rx, dq, buf, sent, forwarded>>
<1>1. CASE \E i \in DOMAIN win : BecomeLate(i)
  BY <1>1 DEF BecomeLate
<1>2. CASE DeliverTimeout \/ ReforwardExpired \/ Rerelease \/ RereleaseFails \/ RetryDone
  BY <1>2 DEF DeliverTimeout, ReforwardExpired, Rerelease, RereleaseFails, RetryDone
<1>3. CASE AckStep
  BY <1>3, Zenon DEF AckStep, RecvFinalAck, RecvPubRec
<1>4. CASE ClientStep
  BY <1>4, Zenon DEF ClientStep, ClientPublish, ClientPubRel, brokerVars
<1>5. CASE UNCHANGED vars
  BY <1>5 DEF vars
<1> QED
  BY <1>1, <1>2, <1>3, <1>4, <1>5

(* Every step keeps the order. *)
LEMMA NextOrder == IInv /\ OrderInv /\ [Next]_vars => OrderInv'
<1> SUFFICES ASSUME IInv, OrderInv, [Next]_vars PROVE OrderInv'
  OBVIOUS
<1>1. CASE \E q \in QosLevels : Forward(q)
  BY <1>1, OrderForward
<1>2. CASE RecvForward \/ Pull \/ Reforward
  BY <1>2, OrderRecv, OrderPull, OrderReforward
<1>3. CASE DeliverExpired \/ DeliverFails
  BY <1>3, OrderExpired DEF DeliverExpired, DeliverFails
<1>4. CASE Deliver
  <2>1. /\ buf # << >> /\ buf' = << >> /\ UNCHANGED <<rx, dq, forwarded>>
        /\ sent' = sent \/ (~Head(buf).dup /\ sent' = Append(sent, Head(buf).msg))
    BY <1>4 DEF Deliver
  <2> QED
    BY <2>1, OrderExpired, OrderSent
<1>5. CASE \/ \E i \in DOMAIN win : BecomeLate(i)
           \/ DeliverTimeout \/ ReforwardExpired \/ Rerelease
           \/ RereleaseFails \/ RetryDone
           \/ AckStep \/ ClientStep \/ UNCHANGED vars
  <2>1. UNCHANGED <<rx, dq, buf, sent, forwarded>>
    BY <1>5, OtherSteps
  <2> QED
    BY <2>1 DEF OrderInv, FirstSendsInOrder
<1> QED
  BY <1>1, <1>2, <1>3, <1>4, <1>5 DEF Next, LoopStep

(* Nothing is queued initially. *)
LEMMA InitOrder == Init => OrderInv
<1> SUFFICES ASSUME Init PROVE OrderInv
  OBVIOUS
<1>1. rx = << >> /\ dq = << >> /\ buf = << >> /\ sent = << >>
  BY DEF Init
<1>2. Len(buf) <= 1
  BY <1>1
<1> QED
  BY <1>1, <1>2, FreshNone DEF OrderInv, Below, FirstSendsInOrder

(* First transmissions keep the order in which the messages were           *)
(* forwarded, for every size of queue and window and range of ids, however *)
(* retries and dropped messages fall in between.                           *)
THEOREM FirstSendsKeepOrder == Spec => []FirstSendsInOrder
<1>1. OrderInv => FirstSendsInOrder
  BY DEF OrderInv
<1>2. Spec => []OrderInv
  BY InitOrder, NextOrder, DeliveryInvariant, PTL DEF Spec
<1> QED
  BY <1>1, <1>2, PTL
=============================================================================
