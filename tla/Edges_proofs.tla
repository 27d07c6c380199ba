---------------------------- MODULE Edges_proofs ----------------------------
(***************************************************************************)
(* Proofs about the edges of the broker.  GrpcMailbox: the replies of a    *)
(* batch go to the callers they are for, for any set of calls, any size of *)
(* a batch and any number of requests at a time.  Connection5: the keep    *)
(* alive and the message expiry that a connection was told hold for every  *)
(* listener, packet, message and clock.                                    *)
(***************************************************************************)
EXTENDS Connection5, GrpcMailbox, TLAPS

Stages == {"connect", "request", "replies", "failed"}

Sends == [batch : Seq(GmCalls), at : Stages,
          got : Seq(GmCalls), bad : SUBSET GmCalls, replies : Seq(GmCalls \union {NoOne})]

\* The replies of a send are those of its batch, place by place, and a reply
\* that is not an error is one the service made.
Paired(s, served) ==
    /\ Len(s.replies) = Len(s.batch)
    /\ \A i \in 1 .. Len(s.batch) :
         s.replies[i] # NoOne => s.replies[i] = s.batch[i] /\ s.batch[i] \in served

\* A _send task: what it has left to answer, and what the service did for it.
Good(s, served) ==
    /\ s \in Sends
    /\ s.batch # <<>>
    /\ Range(s.got) \subseteq served
    /\ s.at = "replies" => Paired(s, served)

(***************************************************************************)
(* The inductive invariant: RepliesPaired is about the callers, this about *)
(* the batches on their way to them.                                       *)
(***************************************************************************)
GmInvariant ==
    /\ DOMAIN gmCall = GmCalls /\ DOMAIN gmReply = GmCalls
    /\ gmChan \in Seq(GmCalls)
    /\ \A s \in gmSends : Good(s, gmServed)
    /\ RepliesPaired

\* The fields of a task, and the tasks a step may make of it.
LEMMA Fields ==
    ASSUME NEW s \in Sends
    PROVE  /\ s.batch \in Seq(GmCalls) /\ s.at \in Stages /\ s.got \in Seq(GmCalls)
           /\ s.bad \in SUBSET GmCalls /\ s.replies \in Seq(GmCalls \union {NoOne})
  BY DEF Sends

LEMMA NewTask ==
    ASSUME NEW batch \in Seq(GmCalls), NEW at \in Stages, NEW got \in Seq(GmCalls),
           NEW bad \in SUBSET GmCalls, NEW replies \in Seq(GmCalls \union {NoOne}),
           NEW served, batch # <<>>, Range(got) \subseteq served,
           at = "replies" => Paired(SendTask(batch, at, got, bad, replies), served)
    PROVE  Good(SendTask(batch, at, got, bad, replies), served)
<1>1. SendTask(batch, at, got, bad, replies) \in Sends
  BY DEF SendTask, Sends
<1> QED BY <1>1 DEF Good, SendTask

\* A task that has nothing of its request in hand.
LEMMA BareTask ==
    ASSUME NEW batch \in Seq(GmCalls), NEW at \in Stages, NEW served,
           batch # <<>>, at # "replies"
    PROVE  Good(SendTask(batch, at, <<>>, {}, <<>>), served)
<1>1. Range(<<>>) = {}
  BY DEF Range
<1>2. <<>> \in Seq(GmCalls) /\ <<>> \in Seq(GmCalls \union {NoOne}) /\ {} \in SUBSET GmCalls
  OBVIOUS
<1>3. Range(<<>>) \subseteq served
  BY <1>1
<1> QED BY <1>2, <1>3, NewTask, Zenon

\* Nothing changes for a task when the service handles another message.
LEMMA GoodStays ==
    ASSUME NEW s, NEW served, NEW more, Good(s, served), served \subseteq more
    PROVE  Good(s, more)
  BY DEF Good, Paired

\* A step of one task that leaves the callers alone.
LEMMA TaskStep ==
    ASSUME GmInvariant, NEW s \in gmSends, NEW t, Step(s, t), Good(t, gmServed'),
           gmServed \subseteq gmServed', UNCHANGED <<gmCall, gmReply, gmChan>>
    PROVE  GmInvariant'
<1>1. \A r \in gmSends' : Good(r, gmServed')
  BY GoodStays DEF GmInvariant, Step
<1>2. RepliesPaired'
  BY DEF GmInvariant, RepliesPaired
<1> QED BY <1>1, <1>2 DEF GmInvariant

\* Nothing is queued, sent or answered at first (NodeGrpcClient::new).
LEMMA MailboxInit == GmInit => GmInvariant
  BY DEF GmInit, GmInvariant, RepliesPaired

\* start: a batch is a part of the channel.
LEMMA MergeKeeps == GmInvariant /\ GmMerge => GmInvariant'
<1> SUFFICES ASSUME GmInvariant, GmMerge PROVE GmInvariant'
  OBVIOUS
<1> DEFINE n == IF Len(gmChan) < GmBatch THEN Len(gmChan) ELSE GmBatch
           batch == SubSeq(gmChan, 1, n)
           new == SendTask(batch, "connect", <<>>, {}, <<>>)
<1>1. gmChan \in Seq(GmCalls) /\ gmChan # <<>> /\ n \in 1 .. Len(gmChan)
  BY MailboxAssumption DEF GmInvariant, GmMerge
<1>2. batch \in Seq(GmCalls) /\ batch # <<>>
  <2> HIDE DEF n
  <2>1. batch \in Seq(GmCalls) /\ Len(batch) = n
    BY <1>1
  <2> QED BY <1>1, <2>1
<1>3. gmChan' \in Seq(GmCalls)
  <2>1. gmChan' = SubSeq(gmChan, n + 1, Len(gmChan))
    BY DEF GmMerge
  <2> HIDE DEF n
  <2> QED BY <1>1, <2>1
<1>4. gmSends' = gmSends \union {new} /\ UNCHANGED <<gmCall, gmReply, gmServed>>
  BY DEF GmMerge
<1>5. Good(new, gmServed)
  <2> HIDE DEF batch
  <2>1. "connect" \in Stages /\ "connect" # "replies"
    BY DEF Stages
  <2> QED BY <1>2, <2>1, BareTask, Zenon
<1> HIDE DEF new
<1>6. RepliesPaired'
  BY <1>4 DEF GmInvariant, RepliesPaired
<1> QED BY <1>3, <1>4, <1>5, <1>6 DEF GmInvariant

\* connect succeeds or fails; nobody is answered yet.
LEMMA ConnectKeeps ==
    ASSUME GmInvariant, NEW s \in gmSends, GmConnect(s)
    PROVE  GmInvariant'
<1>1. Good(s, gmServed) /\ s \in Sends
  BY DEF GmInvariant, Good
<1>2. UNCHANGED <<gmCall, gmReply, gmChan, gmServed>>
  BY DEF GmConnect
<1>3. PICK a \in {"request", "failed"} : Step(s, SendTask(s.batch, a, <<>>, {}, <<>>))
  BY DEF GmConnect
<1>4. Good(SendTask(s.batch, a, <<>>, {}, <<>>), gmServed)
  <2>1. s.batch \in Seq(GmCalls) /\ s.batch # <<>>
    BY <1>1, Fields DEF Good
  <2>2. a \in Stages /\ a # "replies"
    BY DEF Stages
  <2> QED BY <2>1, <2>2, BareTask, Zenon
<1> QED BY <1>2, <1>3, <1>4, TaskStep

\* The service handles a message, well or not; it counts as handled.
LEMMA HandleKeeps ==
    ASSUME GmInvariant, NEW s \in gmSends, NEW c \in GmCalls, GmHandle(s, c)
    PROVE  GmInvariant'
<1>1. Good(s, gmServed) /\ s \in Sends
  BY DEF GmInvariant, Good
<1>2. gmServed' = gmServed \union {c} /\ UNCHANGED <<gmCall, gmReply, gmChan>>
  BY DEF GmHandle
<1> DEFINE got == Append(s.got, c)
<1>3. got \in Seq(GmCalls) /\ Range(got) \subseteq gmServed'
  <2>1. s.got \in Seq(GmCalls) /\ \A i \in DOMAIN s.got : s.got[i] \in gmServed
    BY <1>1, Fields DEF Good, Range
  <2>2. got \in Seq(GmCalls) /\ \A i \in DOMAIN got : got[i] \in gmServed \union {c}
    BY <2>1
  <2> HIDE DEF got
  <2> QED BY <1>2, <2>2 DEF Range
<1>4. PICK b \in SUBSET GmCalls : Step(s, SendTask(s.batch, "request", got, b, <<>>))
  <2>1. s.bad \in SUBSET GmCalls /\ s.bad \union {c} \in SUBSET GmCalls
    BY <1>1, Fields
  <2> QED BY <2>1 DEF GmHandle
<1> HIDE DEF got
<1>5. Good(SendTask(s.batch, "request", got, b, <<>>), gmServed')
  <2>1. s.batch \in Seq(GmCalls) /\ s.batch # <<>>
    BY <1>1, Fields DEF Good
  <2>2. "request" \in Stages /\ "request" # "replies"
        /\ <<>> \in Seq(GmCalls \union {NoOne})
    BY DEF Stages
  <2> QED BY <1>3, <2>1, <2>2, NewTask, Zenon
<1> QED BY <1>2, <1>4, <1>5, TaskStep

\* join_all: as many replies as messages, each the reply of its place.
LEMMA OrderKept ==
    ASSUME NEW s \in Sends
    PROVE  /\ InOrder(s) \in Seq(GmCalls \union {NoOne})
           /\ Len(InOrder(s)) = Len(s.batch)
           /\ \A i \in 1 .. Len(s.batch) :
                InOrder(s)[i] # NoOne => InOrder(s)[i] = s.batch[i]
<1>1. s.batch \in Seq(GmCalls)
  BY Fields
<1>2. DOMAIN s.batch = 1 .. Len(s.batch) /\ Len(s.batch) \in Nat
  BY <1>1
<1>3. InOrder(s) \in [1 .. Len(s.batch) -> GmCalls \union {NoOne}]
  BY <1>1, <1>2 DEF InOrder
<1>4. \A i \in 1 .. Len(s.batch) : InOrder(s)[i] # NoOne => InOrder(s)[i] = s.batch[i]
  BY <1>2 DEF InOrder
<1> HIDE DEF InOrder
<1> QED BY <1>2, <1>3, <1>4

\* The replies come in the order of the batch, all of it handled by then; or the
\* request failed.
LEMMA ReturnKeeps ==
    ASSUME GmInvariant, NEW s \in gmSends, GmReturn(s)
    PROVE  GmInvariant'
<1>1. Good(s, gmServed) /\ s \in Sends
  BY DEF GmInvariant, Good
<1>2. UNCHANGED <<gmCall, gmReply, gmChan, gmServed>>
  BY DEF GmReturn
<1>3. Range(<<>>) = {} /\ s.batch \in Seq(GmCalls) /\ s.batch # <<>>
  BY <1>1, Fields DEF Range, Good
<1>4. CASE /\ Range(s.batch) \subseteq Range(s.got)
           /\ Step(s, SendTask(s.batch, "replies", <<>>, {}, InOrder(s)))
  <2> DEFINE t == SendTask(s.batch, "replies", <<>>, {}, InOrder(s))
  <2>1. \A i \in 1 .. Len(s.batch) : s.batch[i] \in gmServed
    <3>1. Range(s.got) \subseteq gmServed
      BY <1>1, Zenon DEF Good
    <3>2. \A i \in 1 .. Len(s.batch) : s.batch[i] \in Range(s.batch)
      BY <1>3 DEF Range
    <3> QED
      BY <1>4, <3>1, <3>2, Zenon
  <2>2. t.batch = s.batch /\ t.replies = InOrder(s)
    BY DEF SendTask
  <2> HIDE DEF t
  <2>3. Paired(t, gmServed)
    BY <1>1, <2>1, <2>2, OrderKept DEF Paired
  <2>4. InOrder(s) \in Seq(GmCalls \union {NoOne})
    BY <1>1, OrderKept
  <2>5. Good(t, gmServed)
    <3>1. "replies" \in Stages /\ <<>> \in Seq(GmCalls) /\ {} \in SUBSET GmCalls
          /\ Range(<<>>) \subseteq gmServed
      BY <1>3 DEF Stages
    <3> QED BY <1>3, <2>3, <2>4, <3>1, NewTask, Zenon DEF t
  <2> QED BY <1>2, <1>4, <2>5, TaskStep DEF t
<1>5. CASE Step(s, SendTask(s.batch, "failed", <<>>, {}, <<>>))
  <2>1. Good(SendTask(s.batch, "failed", <<>>, {}, <<>>), gmServed)
    <3>1. "failed" \in Stages /\ "failed" # "replies"
      BY DEF Stages
    <3> QED BY <1>3, <3>1, BareTask, Zenon
  <2> QED BY <1>2, <1>5, <2>1, TaskStep
<1> QED BY <1>4, <1>5 DEF GmReturn

\* What is left of a task once the first of its callers has its reply.
LEMMA RestIsGood ==
    ASSUME NEW s, NEW served, Good(s, served), s.at \in {"replies", "failed"},
           Len(s.batch) # 1
    PROVE  Good(SendTask(Tail(s.batch), s.at, <<>>, {},
                         IF s.at = "failed" THEN <<>> ELSE Tail(s.replies)), served)
<1>1. s \in Sends /\ s.batch # <<>>
  BY DEF Good
<1>2. s.batch \in Seq(GmCalls) /\ s.replies \in Seq(GmCalls \union {NoOne})
  BY <1>1, Fields
<1> DEFINE rest == Tail(s.batch)
           left == Tail(s.replies)
<1>3. rest \in Seq(GmCalls) /\ rest # <<>> /\ Len(rest) = Len(s.batch) - 1
      /\ \A i \in 1 .. Len(rest) : i + 1 \in 1 .. Len(s.batch) /\ rest[i] = s.batch[i + 1]
  <2>1. Len(s.batch) \in Nat /\ Len(s.batch) > 1
    <3> DEFINE n == Len(s.batch)
    <3>1. n \in Nat /\ 1 \in 1 .. n
      BY <1>1, <1>2
    <3>2. n # 1
      OBVIOUS
    <3> HIDE DEF n
    <3>3. n \in Nat /\ n > 1
      BY <3>1, <3>2
    <3> QED BY <3>3 DEF n
  <2>2. rest \in Seq(GmCalls) /\ Len(rest) = Len(s.batch) - 1
    BY <1>1, <1>2
  <2>3. \A i \in 1 .. Len(rest) : i + 1 \in 1 .. Len(s.batch)
    BY <2>1, <2>2
  <2>4. \A i \in 1 .. Len(rest) : rest[i] = s.batch[i + 1]
    BY <1>1, <1>2, <2>2
  <2> HIDE DEF rest
  <2>5. rest # <<>>
    BY <2>1, <2>2
  <2> QED BY <2>2, <2>3, <2>4, <2>5
<1>4. CASE s.at = "failed"
  <2>1. s.at \in Stages /\ s.at # "replies"
    BY <1>4 DEF Stages
  <2> HIDE DEF rest
  <2>2. Good(SendTask(rest, s.at, <<>>, {}, <<>>), served)
    BY <1>3, <2>1, BareTask, Zenon
  <2> QED BY <1>4, <2>2 DEF rest
<1>5. CASE s.at = "replies"
  <2>1. Paired(s, served)
    BY <1>5 DEF Good
  <2>2. left \in Seq(GmCalls \union {NoOne}) /\ Len(left) = Len(rest)
        /\ \A i \in 1 .. Len(rest) : left[i] = s.replies[i + 1]
    <3>1. Len(s.replies) = Len(s.batch) /\ s.replies # <<>>
      BY <1>1, <1>2, <2>1 DEF Paired
    <3> QED BY <1>2, <1>3, <3>1
  <2> DEFINE t == SendTask(rest, "replies", <<>>, {}, left)
  <2>3. t.batch = rest /\ t.replies = left
    BY DEF SendTask
  <2> HIDE DEF rest, left, t
  <2>4. Paired(t, served)
    BY <1>3, <2>1, <2>2, <2>3 DEF Paired
  <2>5. "replies" \in Stages /\ <<>> \in Seq(GmCalls) /\ {} \in SUBSET GmCalls
        /\ Range(<<>>) \subseteq served
    BY DEF Stages, Range
  <2>6. Good(t, served)
    BY <1>3, <2>2, <2>4, <2>5, NewTask, Zenon DEF t
  <2> QED BY <1>5, <2>6 DEF t, rest, left
<1> QED BY <1>4, <1>5

\* A reply goes to the caller of the message in its place, or an error does.
LEMMA DistributeKeeps ==
    ASSUME GmInvariant, NEW s \in gmSends, GmDistribute(s)
    PROVE  GmInvariant'
<1> DEFINE c == Head(s.batch)
           r == IF s.at = "failed" THEN NoOne ELSE Head(s.replies)
<1>1. Good(s, gmServed) /\ s \in Sends /\ s.at \in {"replies", "failed"}
  BY DEF GmInvariant, Good, GmDistribute
<1>2. Give(c, r) /\ UNCHANGED <<gmChan, gmServed>>
  BY DEF GmDistribute
<1>3. c \in GmCalls /\ (r # NoOne => r = c /\ c \in gmServed)
  <2>1. s.batch \in Seq(GmCalls) /\ s.batch # <<>>
        /\ s.replies \in Seq(GmCalls \union {NoOne})
    BY <1>1, Fields DEF Good
  <2>2. c = s.batch[1] /\ 1 \in 1 .. Len(s.batch) /\ c \in GmCalls
    BY <2>1
  <2>3. CASE s.at = "failed"
    BY <2>2, <2>3
  <2>4. CASE s.at = "replies"
    <3>1. Paired(s, gmServed)
      BY <1>1, <2>4 DEF Good
    <3>2. Head(s.replies) = s.replies[1]
      BY <2>1
    <3> QED BY <2>2, <2>4, <3>1, <3>2 DEF Paired
  <2> QED BY <1>1, <2>3, <2>4
<1>4. \A t \in gmSends' : Good(t, gmServed')
  <2>1. CASE Len(s.batch) = 1
    BY <1>2, <2>1 DEF GmDistribute, GmInvariant
  <2>2. CASE Len(s.batch) # 1
    <3> DEFINE t == SendTask(Tail(s.batch), s.at, <<>>, {},
                             IF s.at = "failed" THEN <<>> ELSE Tail(s.replies))
    <3>1. Good(t, gmServed)
      BY <1>1, <2>2, RestIsGood
    <3>2. Step(s, t)
      BY <2>2 DEF GmDistribute
    <3> HIDE DEF t
    <3> QED BY <1>2, <3>1, <3>2 DEF Step, GmInvariant
  <2> QED BY <2>1, <2>2
<1> HIDE DEF c, r
<1>5. /\ DOMAIN gmCall' = GmCalls /\ DOMAIN gmReply' = GmCalls
      /\ RepliesPaired'
  <2>1. CASE gmCall[c] = "waiting"
    <3>1. /\ gmCall' = [gmCall EXCEPT ![c] = IF r = NoOne THEN "error" ELSE "reply"]
          /\ gmReply' = [gmReply EXCEPT ![c] = r]
      BY <1>2, <2>1 DEF Give
    <3> QED BY <1>2, <1>3, <3>1 DEF GmInvariant, RepliesPaired
  <2>2. CASE gmCall[c] # "waiting"
    BY <1>2, <2>2 DEF Give, GmInvariant, RepliesPaired
  <2> QED BY <2>1, <2>2
<1> QED BY <1>2, <1>4, <1>5 DEF GmInvariant

\* Every step keeps the invariant.
LEMMA MailboxNext == GmInvariant /\ [GmNext]_gmVars => GmInvariant'
<1> SUFFICES ASSUME GmInvariant, [GmNext]_gmVars PROVE GmInvariant'
  OBVIOUS
<1>1. ASSUME NEW c \in GmCalls, GmSend(c) PROVE GmInvariant'
  BY <1>1 DEF GmSend, GmInvariant, RepliesPaired
<1>2. ASSUME NEW c \in GmCalls, GmGiveUp(c) PROVE GmInvariant'
  BY <1>2 DEF GmGiveUp, GmInvariant, RepliesPaired
<1>3. CASE UNCHANGED gmVars
  BY <1>3 DEF gmVars, GmInvariant, RepliesPaired
<1> QED BY <1>1, <1>2, <1>3, MergeKeeps, ConnectKeeps, HandleKeeps, ReturnKeeps,
           DistributeKeeps DEF GmNext

(***************************************************************************)
(* A caller of batch_send_message gets the reply to its own message, once  *)
(* the service has handled it, however calls are batched, whatever fails   *)
(* in a batch and whoever gives up: _send pairs replies and channels by    *)
(* position, and join_all keeps the positions.                             *)
(***************************************************************************)
THEOREM MailboxPairsReplies == GmSpec => []RepliesPaired
<1>1. GmInvariant => RepliesPaired
  BY DEF GmInvariant
<1> QED BY <1>1, MailboxInit, MailboxNext, PTL DEF GmSpec

-----------------------------------------------------------------------------
Limits == 0 .. CnU16
Packets == [keepalive : Limits, aliases : Limits, long_id : BOOLEAN,
            auth_method : BOOLEAN]

(***************************************************************************)
(* DefaultFitter::keep_alive only answers values of a u16.                 *)
(***************************************************************************)
LEMMA FitWithinLimits ==
    ASSUME NEW k \in Limits
    PROVE  FitKeepAlive(CnListener, k) \in Limits
  BY ConnectionAssumption DEF FitKeepAlive, Limits

(***************************************************************************)
(* Rounding down loses nothing of a product that is large enough: the      *)
(* division of the back-off's numerator by its denominator.                *)
(***************************************************************************)
LEMMA QuotientAtLeast ==
    ASSUME NEW a \in Nat, NEW b \in Nat \ {0}, NEW k \in Nat, k * b <= a
    PROVE  a \div b \in Nat /\ k <= a \div b
<1> DEFINE q == a \div b
<1>1. q \in Int /\ q * b <= a /\ a < (q + 1) * b
  BY Z3
<1>2. 0 <= q
  <2>1. SUFFICES ASSUME q + 1 <= 0 PROVE FALSE
    BY <1>1
  <2>2. (q + 1) * b <= 0
    BY <1>1, <2>1, Z3
  <2> QED BY <1>1, <2>2
<1>3. k <= q
  <2>1. SUFFICES ASSUME q + 1 <= k PROVE FALSE
    BY <1>1
  <2>2. (q + 1) * b <= k * b
    BY <1>1, <2>1, Z3
  <2> QED BY <1>1, <2>2
<1> QED BY <1>1, <1>2, <1>3

(***************************************************************************)
(* The time the session loop waits is at least the keep alive, a u16, and  *)
(* unlimited only for an unlimited keep alive (DefaultFitter::keep_alive). *)
(***************************************************************************)
LEMMA TimerTolerates ==
    ASSUME NEW k \in Limits
    PROVE  LET t == KeepAliveTimer(CnListener, k)
           IN  t \in Limits /\ t >= k /\ (t = 0 <=> k = 0)
<1> DEFINE b1 == CnListener.backoff[1]
           b2 == CnListener.backoff[2]
           t == (k * b1 * 2) \div b2
<1>1. k \in Nat /\ b1 \in Nat /\ b2 \in Nat \ {0} /\ b2 <= 2 * b1 /\ CnU16 \in Nat
  BY ConnectionAssumption DEF Limits
<1>2. k * b1 * 2 \in Nat /\ k * b2 <= k * b1 * 2
  <2> HIDE DEF b1, b2
  <2>1. k * b2 <= k * (2 * b1)
    BY <1>1, Z3
  <2>2. k * (2 * b1) = k * b1 * 2 /\ k * b1 * 2 \in Nat
    BY <1>1, Z3
  <2> QED BY <2>1, <2>2
<1>3. t \in Nat /\ k <= t
  <2> HIDE DEF b1, b2
  <2> QED BY <1>1, <1>2, QuotientAtLeast
<1>4. KeepAliveTimer(CnListener, k) =
        IF k = 0 THEN 0 ELSE IF k < 6 THEN k + 3 ELSE IF t > CnU16 THEN CnU16 ELSE t
  BY DEF KeepAliveTimer
<1> HIDE DEF t
<1> QED BY <1>1, <1>3, <1>4, ConnectionAssumption DEF Limits

(***************************************************************************)
(* What message_expiry_check goes by for an interval whose milliseconds    *)
(* fit its u32: the lifetime of the message.                               *)
(***************************************************************************)
LEMMA CheckIsLifetime ==
    ASSUME NEW m \in CnMessages, m.interval * CnMilli < CnWidth
    PROVE  CheckExpiry(CnListener, m) = Lifetime(m) /\ Lifetime(m) \in Nat
<1>1. m.interval \in Nat /\ CnMilli \in Nat \ {0} /\ CnWidth \in Nat /\ CnListener.expiry \in Nat
  BY ConnectionAssumption
<1>2. m.interval * CnMilli \in Nat
  BY <1>1, Z3
<1>3. (m.interval * CnMilli) % CnWidth = m.interval * CnMilli
  <2> DEFINE product == m.interval * CnMilli
  <2>1. product \in Nat /\ product < CnWidth
    BY <1>2
  <2> HIDE DEF product
  <2>2. product % CnWidth = product
    BY <1>1, <2>1, Z3
  <2> QED BY <2>2 DEF product
<1> QED BY <1>1, <1>2, <1>3 DEF CheckExpiry, Lifetime

\* Whole seconds that fit in n milliseconds
LEMMA WholeSeconds ==
    ASSUME NEW n \in Nat
    PROVE  /\ n \div CnMilli \in Nat /\ (n \div CnMilli) * CnMilli <= n
           /\ n \div CnMilli = 0 => n < CnMilli
<1>1. CnMilli \in Nat \ {0}
  BY ConnectionAssumption
<1> DEFINE q == n \div CnMilli
<1>2. q \in Int /\ q * CnMilli <= n /\ n < (q + 1) * CnMilli
  BY <1>1, Z3
<1>3. q \in Nat
  BY <1>1, QuotientAtLeast
<1>4. q = 0 => n < CnMilli
  BY <1>1, <1>2
<1> QED BY <1>2, <1>3, <1>4

\* What delivery may have decided on message m: f, a value of cnFate
Fits(m, f) ==
    LET left == Lifetime(m) - (f.at - m.at) IN
    m.interval * CnMilli < CnWidth =>
      /\ f.verdict = "expired" => Lifetime(m) # 0 /\ left <= 0
      /\ f.verdict = "sent" =>
           /\ Lifetime(m) # 0 => left > 0
           /\ f.told # 0 => f.told * CnMilli <= left
           /\ f.told = 0 => Lifetime(m) = 0 \/ left < CnMilli
           /\ Comparable(m) /\ m.at <= m.stored => f.at < StoredUntil(m)

\* A message dropped as expired has used up its lifetime.
LEMMA ExpiredFits ==
    ASSUME NEW m \in CnMessages, NEW now \in Nat, IsExpiry(CnListener, m, now)
    PROVE  Fits(m, [verdict |-> "expired", at |-> now, told |-> 0])
<1> SUFFICES ASSUME m.interval * CnMilli < CnWidth
             PROVE  Lifetime(m) # 0 /\ Lifetime(m) - (now - m.at) <= 0
  BY DEF Fits
<1>1. CheckExpiry(CnListener, m) = Lifetime(m) /\ Lifetime(m) \in Nat
  BY CheckIsLifetime
<1>2. m.at \in Nat
  BY ConnectionAssumption
<1> QED BY <1>1, <1>2 DEF IsExpiry

(***************************************************************************)
(* A message that is sent has time left, the client is told no more than   *)
(* that, and the stores, which took it after it was made, still hold it.   *)
(***************************************************************************)
LEMMA SentFits ==
    ASSUME NEW m \in CnMessages, NEW now \in Nat, m.at <= now,
           ~ IsExpiry(CnListener, m, now)
    PROVE  Fits(m, [verdict |-> "sent", at |-> now,
                    told |-> MessageExpiryInterval(CnListener, m, now)])
<1> DEFINE life == Lifetime(m)
           left == life - (now - m.at)
           told == MessageExpiryInterval(CnListener, m, now)
<1> SUFFICES ASSUME m.interval * CnMilli < CnWidth
             PROVE  /\ life # 0 => left > 0
                    /\ told # 0 => told * CnMilli <= left
                    /\ told = 0 => life = 0 \/ left < CnMilli
                    /\ Comparable(m) /\ m.at <= m.stored => now < StoredUntil(m)
  BY DEF Fits
<1>1. CheckExpiry(CnListener, m) = life /\ life \in Nat
  BY CheckIsLifetime
<1>2. m.at \in Nat /\ m.stored \in Nat /\ m.origin \in Nat /\ m.interval \in Nat
      /\ CnMilli \in Nat \ {0} /\ CnListener.expiry \in Nat
  BY ConnectionAssumption
<1>3. told = IF life = 0 THEN 0 ELSE left \div CnMilli
  BY <1>1 DEF MessageExpiryInterval, SecondsLeft
<1>4. life # 0 => left > 0
  BY <1>1, <1>2 DEF IsExpiry
<1>5. life # 0 => left \in Nat
  BY <1>1, <1>2, <1>4
<1>6. Comparable(m) => life # 0 /\ life <= FitExpiry(m) /\ FitExpiry(m) \in Nat
  <2>1. CASE m.interval # 0
    <3>1. FitExpiry(m) = life /\ life = m.interval * CnMilli
      BY <2>1 DEF FitExpiry, Lifetime
    <3>2. m.interval * CnMilli # 0
      BY <1>2, <2>1, Z3
    <3> QED BY <1>1, <3>1, <3>2
  <2>2. CASE m.interval = 0
    BY <1>2, <2>2 DEF FitExpiry, Lifetime, Comparable
  <2> QED BY <2>1, <2>2
<1> HIDE DEF life, told
<1>7. Comparable(m) /\ m.at <= m.stored => now < StoredUntil(m)
  BY <1>1, <1>2, <1>4, <1>6 DEF StoredUntil
<1> HIDE DEF left
<1>8. life # 0 => told * CnMilli <= left /\ (told = 0 => left < CnMilli)
  BY <1>3, <1>5, WholeSeconds
<1> QED BY <1>3, <1>4, <1>7, <1>8

-----------------------------------------------------------------------------
(***************************************************************************)
(* The inductive invariant.  The packet of a connection is one the client  *)
(* may send, with a keep alive in its limits, until the fitter has set the *)
(* timer; what delivery decided on a message fits its lifetime and stores. *)
(***************************************************************************)
CnInvariant ==
    /\ cnClock \in Nat /\ cnPlan \in CnPlans
    /\ cnPhase # "none" => cnPkt \in Packets
    /\ KeepAliveTolerated
    /\ DOMAIN cnFate = CnMessages
    /\ \A m \in CnMessages : Fits(m, cnFate[m])

\* There is no connection, and nothing was dropped, at first.
LEMMA InitCnInvariant == CnInit => CnInvariant
<1> SUFFICES ASSUME CnInit PROVE CnInvariant
  OBVIOUS
<1>1. \A m \in CnMessages : Fits(m, Waits)
  BY DEF Fits, Waits
<1> QED BY <1>1 DEF CnInit, CnInvariant, KeepAliveTolerated

\* Every step keeps the invariant; only CnCreate sets the timer (keep_alive).
LEMMA NextCnInvariant == CnInvariant /\ [CnNext]_cnVars => CnInvariant'
<1> SUFFICES ASSUME CnInvariant, [CnNext]_cnVars PROVE CnInvariant'
  OBVIOUS
<1> USE DEF CnInvariant
<1>1. CASE CnConnect
  <2>1. cnPkt' \in Packets
    BY <1>1, ConnectionAssumption DEF CnConnect, Packets, Limits
  <2> QED BY <1>1, <2>1 DEF CnConnect, KeepAliveTolerated, trafficVars
<1>2. CASE CnRefuse
  BY <1>2 DEF CnRefuse, KeepAliveTolerated
<1>3. CASE CnCheck
  BY <1>2, <1>3 DEF CnCheck, KeepAliveTolerated, trafficVars
<1>4. CASE CnKick
  BY <1>2, <1>4 DEF CnKick, KeepAliveTolerated, trafficVars
<1>5. CASE CnCreate
  <2> DEFINE k == FitKeepAlive(CnListener, cnPkt.keepalive)
  <2>1. cnPkt \in Packets
    BY <1>5 DEF CnCreate
  <2>2. k \in Limits
    BY <2>1, FitWithinLimits DEF Packets
  <2>3. CASE cnPhase' = "started"
    <3>1. cnPkt' = [cnPkt EXCEPT !.keepalive = k] /\ cnTimer' = KeepAliveTimer(CnListener, k)
          /\ UNCHANGED <<cnPlan, cnClock, cnFate>>
      BY <1>5, <2>3 DEF CnCreate, CnRefuse, trafficVars
    <3> HIDE DEF k
    <3>2. cnPkt' \in Packets /\ cnPkt'.keepalive = k
      BY <2>1, <2>2, <3>1 DEF Packets
    <3>3. KeepAliveTolerated'
      BY <2>2, <3>1, <3>2, TimerTolerates DEF KeepAliveTolerated, Limits
    <3> QED BY <3>1, <3>2, <3>3
  <2>4. CASE cnPhase' # "started"
    BY <1>2, <1>5, <2>4 DEF CnCreate
  <2> QED BY <2>3, <2>4
<1>6. CASE CnAck
  BY <1>2, <1>6 DEF CnAck, KeepAliveTolerated, trafficVars
<1>7. CASE CnClose
  BY <1>7 DEF CnClose, KeepAliveTolerated
<1>8. ASSUME NEW m \in CnMessages, CnDeliver(m) PROVE CnInvariant'
  <2> DEFINE told == MessageExpiryInterval(CnListener, m, cnClock)
             gone == [verdict |-> "expired", at |-> cnClock, told |-> 0]
             sent == [verdict |-> "sent", at |-> cnClock, told |-> told]
  <2>1. UNCHANGED <<cnPlan, shakeVars, cnClock>> /\ m.at <= cnClock
    BY <1>8 DEF CnDeliver
  <2>2. \/ IsExpiry(CnListener, m, cnClock) /\ cnFate' = [cnFate EXCEPT ![m] = gone]
        \/ ~ IsExpiry(CnListener, m, cnClock) /\ cnFate' = [cnFate EXCEPT ![m] = sent]
    BY <1>8 DEF CnDeliver
  <2>3. IsExpiry(CnListener, m, cnClock) => Fits(m, gone)
    BY ExpiredFits
  <2>4. ~ IsExpiry(CnListener, m, cnClock) => Fits(m, sent)
    BY <2>1, SentFits
  <2> HIDE DEF told, gone, sent
  <2>5. DOMAIN cnFate' = CnMessages /\ \A n \in CnMessages : Fits(n, cnFate'[n])
    BY <2>2, <2>3, <2>4
  <2> QED BY <2>1, <2>5 DEF KeepAliveTolerated, shakeVars
<1>9. CASE CnRead
  BY <1>9 DEF CnRead, KeepAliveTolerated, shakeVars
<1>10. ASSUME NEW t \in CnTopics, CnPublish(t) PROVE CnInvariant'
  BY <1>10 DEF CnPublish, KeepAliveTolerated
<1>11. CASE CnTick
  <2>1. cnClock' = cnClock + 1 /\ UNCHANGED <<cnPlan, shakeVars, cnFate>>
    BY <1>11 DEF CnTick, trafficVars
  <2> QED BY <2>1 DEF KeepAliveTolerated, shakeVars
<1>12. CASE UNCHANGED cnVars
  BY <1>12 DEF cnVars, shakeVars, trafficVars, KeepAliveTolerated
<1> QED BY <1>1, <1>3, <1>4, <1>5, <1>6, <1>7, <1>8, <1>9, <1>10, <1>11, <1>12 DEF CnNext

\* Such a state keeps to what was agreed on.
LEMMA InvariantKeepsAgreement == CnInvariant => NegotiatedKept
  BY DEF CnInvariant, NegotiatedKept, ExpiryAgrees, Fits

(***************************************************************************)
(* What a connection was told is kept, for every listener whose back-off   *)
(* is at least one half, every packet, every message and every clock: the  *)
(* session loop never times a client out before the keep alive of its      *)
(* CONNACK; a message is dropped as expired only when its lifetime has     *)
(* passed, sent only before, with no more than what is left of it, and     *)
(* sent only while the stores, which go by the publisher's listener, still *)
(* hold it (DefaultFitter, message_expiry_check), up to the intervals that *)
(* overflow the u32 and the listeners that are not comparable.             *)
(***************************************************************************)
THEOREM ConnectionKeepsAgreement == CnSpec => []NegotiatedKept
<1>1. CnSpec => []CnInvariant
  BY InitCnInvariant, NextCnInvariant, PTL DEF CnSpec
<1> QED BY <1>1, InvariantKeepsAgreement, PTL
=============================================================================
