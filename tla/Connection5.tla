----------------------------- MODULE Connection5 -----------------------------
(***************************************************************************)
(* One MQTT 5 client and its connections: the handshake with the values    *)
(* the fitter negotiates, the topic aliases of both directions, and the    *)
(* expiry of the messages sent.  The broker's side is v5.rs, DefaultFitter *)
(* and the alias tables of types.rs; the client keeps the aliases it was   *)
(* told and the ones it set.  A connection that ends takes its aliases     *)
(* with it.                                                                *)
(*                                                                         *)
(* Seconds and milliseconds are scaled: CnMilli milliseconds make one      *)
(* second, CnWidth stands for 2^32.                                        *)
(***************************************************************************)
EXTENDS Integers, Sequences, FiniteSets, FiniteSetsExt, Functions, TLC

CONSTANTS
    CnTopics,      \* topic names
    CnPackets,     \* the CONNECT packets of the client
    CnListener,    \* the settings of the client's listener
    CnMessages,    \* messages for the client: topic, Message Expiry Interval or
                   \* 0, when it was made (at) and when it was stored (stored),
                   \* and the expiry setting of its publisher's listener
    CnU16,         \* 65535
    CnWidth,       \* 2^32
    CnMilli,       \* 1000
    CnPlans        \* what one history holds: CONNECT packets, the messages for
                   \* the client, how
                   \* many connections, messages of the client, milliseconds
                   \* and packets the sink cannot encode (conns, publishes,
                   \* time, faults)

ASSUME ConnectionAssumption ==
    /\ CnU16 \in Nat /\ 8 <= CnU16
    /\ CnWidth \in Nat \ {0} /\ CnMilli \in Nat \ {0}
    /\ CnListener.backoff[1] \in Nat /\ CnListener.backoff[2] \in Nat \ {0}
    /\ CnListener.backoff[2] <= 2 * CnListener.backoff[1]
    /\ CnListener.min \in 0 .. CnU16 /\ CnListener.max \in 1 .. CnU16
    /\ CnListener.expiry \in Nat
    /\ CnPackets \subseteq [keepalive : 0 .. CnU16, aliases : 0 .. CnU16,
                            long_id : BOOLEAN, auth_method : BOOLEAN]
    /\ \A p \in CnPlans : p.packets \subseteq CnPackets
    /\ \A m \in CnMessages :
         m.interval \in Nat /\ m.at \in Nat /\ m.stored \in Nat /\ m.origin \in Nat

VARIABLES
    cnPlan,      \* the bounds of this history
    cnPhase,     \* how far the connection is
    cnPkt,       \* its CONNECT packet, keep_alive as the fitter left it
    cnTimer,     \* the keep alive time the session loop runs with
    cnOld,       \* a session of the client exists: "none" | "live" | "kicked"
    cnMaxSrv,    \* aliases the broker may set
    cnMaxCli,    \* aliases the client may set
    cnServer,    \* ServerTopicAliases: topic -> alias
    cnClient,    \* ClientTopicAliases: alias -> topic
    cnTold,      \* the client's table of the broker's aliases
    cnSet,       \* the aliases the client set
    cnWire,      \* packets sent and not yet read
    cnQueue,     \* messages not yet delivered
    cnGot,       \* what the client read: <<topic meant, topic resolved>>
    cnTaken,     \* what the broker took: <<topic meant, topic resolved>>
    cnUnsent,    \* topics a packet of which failed to be sent
    cnFate,      \* delivery's verdict on each message, when, and the interval told
    cnClock,
    cnSpent      \* bounds used: connections, publishes, faults

tableVars == <<cnServer, cnClient, cnTold, cnSet>>
trafficVars == <<cnWire, cnQueue, cnGot, cnTaken, cnUnsent, cnFate>>
shakeVars == <<cnPhase, cnPkt, cnTimer, cnOld, cnMaxSrv, cnMaxCli>>
cnVars == <<cnPlan, shakeVars, tableVars, trafficVars, cnClock, cnSpent>>

NoPacket == [keepalive |-> 0]
NoTable == [x \in {} |-> x]
Waits == [verdict |-> "waits", at |-> 0, told |-> 0]

------------------------------------------------------------------------------
(* DefaultFitter.                                                          *)

\* The keep alive of a V5 client is brought within the listener's limits.
FitKeepAlive(l, k) ==
    IF k = 0
    THEN k
    ELSE IF k < l.min THEN l.min ELSE IF k > l.max THEN l.max ELSE k

\* mutant: the backoff is not doubled
KeepAliveTimer_once(l, k) ==
    IF k = 0
    THEN 0
    ELSE IF k < 6
         THEN k + 3
         ELSE LET t == (k * l.backoff[1]) \div l.backoff[2]
              IN IF t > CnU16 THEN CnU16 ELSE t

\* The time the session loop waits for a packet; the cast to u16 saturates.
KeepAliveTimer(l, k) ==
    IF k = 0
    THEN 0
    ELSE IF k < 6
         THEN k + 3
         ELSE LET t == (k * l.backoff[1] * 2) \div l.backoff[2]
              IN IF t > CnU16 THEN CnU16 ELSE t

MaxServerAliases(l, p) == IF p.aliases < l.aliases THEN p.aliases ELSE l.aliases
MaxClientAliases(l, p) == l.aliases

\* mutant: the seconds are taken for milliseconds
FitExpiry_millis(m) == IF m.interval # 0 THEN m.interval ELSE m.origin

\* The fitter of the publisher's session, in seconds as u64: how long the
\* retainer and the message store keep the message.
FitExpiry(m) == IF m.interval # 0 THEN m.interval * CnMilli ELSE m.origin

\* The stores count from when they take the message.
StoredUntil(m) == m.stored + FitExpiry(m)

\* In delivery the product is a u32, and the default the receiver's listener's.
CheckExpiry(l, m) ==
    IF m.interval # 0 THEN (m.interval * CnMilli) % CnWidth ELSE l.expiry

\* mutant: what remains is rounded up
SecondsLeft_up(l, m, now) ==
    (CheckExpiry(l, m) - (now - m.at) + CnMilli - 1) \div CnMilli

\* The seconds that remain; NonZeroU32::new makes None of 0.
SecondsLeft(l, m, now) == (CheckExpiry(l, m) - (now - m.at)) \div CnMilli

\* message_expiry_check: a message of expiry 0 never expires.
IsExpiry(l, m, now) ==
    /\ CheckExpiry(l, m) # 0
    /\ now - m.at >= CheckExpiry(l, m)

MessageExpiryInterval(l, m, now) ==
    IF CheckExpiry(l, m) = 0 THEN 0 ELSE SecondsLeft(l, m, now)
------------------------------------------------------------------------------
CnInit ==
    /\ cnPlan \in CnPlans
    /\ cnPhase = "none"
    /\ cnPkt = NoPacket
    /\ cnTimer = 0
    /\ cnOld \in {"none", "live"}
    /\ cnMaxSrv = 0 /\ cnMaxCli = 0
    /\ cnServer = NoTable /\ cnClient = NoTable
    /\ cnTold = NoTable /\ cnSet = NoTable
    /\ cnWire = <<>> /\ cnGot = {} /\ cnTaken = {} /\ cnUnsent = {}
    /\ cnQueue = cnPlan.messages
    /\ cnFate = [m \in CnMessages |-> Waits]
    /\ cnClock = 0
    /\ cnSpent = [conns |-> 0, publishes |-> 0, faults |-> 0]

\* handshake: the packet is read; an empty client id is replaced by a new one.
CnConnect ==
    /\ cnPhase = "none" /\ cnSpent.conns < cnPlan.conns
    /\ cnPkt' \in cnPlan.packets
    /\ cnPhase' = "connect"
    /\ cnSpent' = [cnSpent EXCEPT !.conns = @ + 1]
    /\ UNCHANGED <<cnPlan, cnTimer, cnOld, cnMaxSrv, cnMaxCli, tableVars, trafficVars,
                   cnClock>>

\* refused_ack.
CnRefuse ==
    /\ cnPhase' = "none" /\ cnPkt' = NoPacket
    /\ cnWire' = <<>>
    /\ UNCHANGED <<cnPlan, cnTimer, cnMaxSrv, cnMaxCli, tableVars, cnQueue, cnGot,
                   cnTaken, cnUnsent, cnFate, cnClock, cnSpent>>

\* The refusals before the client's lock is taken: a client id that is too
\* long, extended authentication, the authentication itself.
CnCheck ==
    /\ cnPhase = "connect"
    /\ IF cnPkt.long_id \/ cnPkt.auth_method
       THEN CnRefuse /\ UNCHANGED cnOld
       ELSE \/ CnRefuse /\ UNCHANGED cnOld
            \/ /\ cnPhase' = "authenticated"
               /\ UNCHANGED <<cnPlan, cnPkt, cnTimer, cnOld, cnMaxSrv, cnMaxCli,
                              tableVars, trafficVars, cnClock, cnSpent>>

\* try_lock and kick: either may fail; a session that was there is gone
\* after the kick.
CnKick ==
    /\ cnPhase = "authenticated"
    /\ \/ CnRefuse /\ UNCHANGED cnOld
       \/ /\ cnPhase' = "kicked"
          /\ cnOld' = IF cnOld = "live" THEN "kicked" ELSE "none"
          /\ UNCHANGED <<cnPlan, cnPkt, cnTimer, cnMaxSrv, cnMaxCli, tableVars,
                         trafficVars, cnClock, cnSpent>>

\* Session::new and the fitter's keep alive: a refusal here comes after the
\* kick.  Then the session starts with empty alias tables.
CnCreate ==
    LET l == CnListener
        k == FitKeepAlive(l, cnPkt.keepalive) IN
    /\ cnPhase = "kicked"
    /\ \/ CnRefuse /\ cnOld' = "none"
       \/ /\ k # 0 \/ l.allow_zero
          /\ cnPhase' = "started"
          /\ cnPkt' = [cnPkt EXCEPT !.keepalive = k]
          /\ cnTimer' = KeepAliveTimer(l, k)
          /\ cnMaxSrv' = MaxServerAliases(l, cnPkt)
          /\ cnMaxCli' = MaxClientAliases(l, cnPkt)
          /\ cnServer' = NoTable /\ cnClient' = NoTable
          /\ cnTold' = NoTable /\ cnSet' = NoTable
          /\ UNCHANGED <<cnPlan, cnOld, trafficVars, cnClock, cnSpent>>

\* entry.set and CONNACK, which tells the client the keep alive, the
\* aliases it may set and whether the session was there.
CnAck ==
    /\ cnPhase = "started"
    /\ \/ CnRefuse /\ cnOld' = "none"
       \/ /\ cnPhase' = "up"
          /\ cnOld' = "live"
          /\ UNCHANGED <<cnPlan, cnPkt, cnTimer, cnMaxSrv, cnMaxCli, tableVars,
                         trafficVars, cnClock, cnSpent>>

\* The connection ends; packets still on the wire are lost, and those of
\* QoS 1 and 2 will be delivered again from the inflight window.
CnClose ==
    /\ cnPhase = "up"
    /\ cnPhase' = "none" /\ cnPkt' = NoPacket
    /\ cnWire' = <<>>
    /\ UNCHANGED <<cnPlan, cnTimer, cnOld, cnMaxSrv, cnMaxCli, tableVars, cnQueue,
                   cnGot, cnTaken, cnUnsent, cnFate, cnClock, cnSpent>>

------------------------------------------------------------------------------
\* mutant: one alias more than the client takes
GetAlias_full(topic) ==
    LET n == Cardinality(DOMAIN cnServer) IN
    IF cnMaxSrv = 0 \/ (topic \notin DOMAIN cnServer /\ n > cnMaxSrv)
    THEN [topic |-> topic, alias |-> 0, table |-> cnServer]
    ELSE IF topic \in DOMAIN cnServer
         THEN [topic |-> "", alias |-> cnServer[topic], table |-> cnServer]
         ELSE [topic |-> topic, alias |-> n + 1,
               table |-> cnServer @@ (topic :> n + 1)]

\* ServerTopicAliases::get: the topic and the alias to send, and the table.
GetAlias(topic) ==
    LET n == Cardinality(DOMAIN cnServer) IN
    IF cnMaxSrv = 0 \/ (topic \notin DOMAIN cnServer /\ n >= cnMaxSrv)
    THEN [topic |-> topic, alias |-> 0, table |-> cnServer]
    ELSE IF topic \in DOMAIN cnServer
         THEN [topic |-> "", alias |-> cnServer[topic], table |-> cnServer]
         ELSE [topic |-> topic, alias |-> n + 1,
               table |-> cnServer @@ (topic :> n + 1)]

\* deliver: an expired message is dropped; the packet takes the alias and
\* the time that remains, and is sent.  The alias is in the table whether
\* the sink takes the packet or not.
CnDeliver(m) ==
    LET left == MessageExpiryInterval(CnListener, m, cnClock)
        a == GetAlias(m.topic) IN
    /\ cnPhase \in {"started", "up"} /\ m \in cnQueue /\ m.at <= cnClock
    /\ cnQueue' = cnQueue \ {m}
    /\ IF IsExpiry(CnListener, m, cnClock)
       THEN /\ cnFate' = [cnFate EXCEPT ![m] =
                            [verdict |-> "expired", at |-> cnClock, told |-> 0]]
            /\ UNCHANGED <<cnServer, cnWire, cnUnsent, cnSpent>>
       ELSE /\ cnServer' = a.table
            /\ cnFate' = [cnFate EXCEPT ![m] =
                            [verdict |-> "sent", at |-> cnClock, told |-> left]]
            /\ \/ /\ cnWire' = Append(cnWire, [meant |-> m.topic,
                                               topic |-> a.topic,
                                               alias |-> a.alias])
                  /\ UNCHANGED <<cnUnsent, cnSpent>>
               \/ /\ cnSpent.faults < cnPlan.faults
                  /\ cnSpent' = [cnSpent EXCEPT !.faults = @ + 1]
                  /\ cnUnsent' = cnUnsent \union {m.topic}
                  /\ UNCHANGED cnWire
    /\ UNCHANGED <<cnPlan, shakeVars, cnClient, cnTold, cnSet, cnGot, cnTaken,
                   cnClock>>

\* The client reads a PUBLISH; an alias it was never told has no topic.
CnRead ==
    /\ cnWire # <<>>
    /\ LET p == Head(cnWire)
           t == IF p.topic # "" THEN p.topic
                ELSE IF p.alias \in DOMAIN cnTold THEN cnTold[p.alias]
                ELSE "unknown" IN
       /\ cnGot' = cnGot \union {<<p.meant, t>>}
       /\ cnTold' = IF p.topic # "" /\ p.alias # 0
                    THEN (p.alias :> p.topic) @@ cnTold ELSE cnTold
    /\ cnWire' = Tail(cnWire)
    /\ UNCHANGED <<cnPlan, shakeVars, cnServer, cnClient, cnSet, cnQueue, cnTaken,
                   cnUnsent, cnFate, cnClock, cnSpent>>

\* ClientTopicAliases::set_and_get.
SetAndGet(alias, topic) ==
    CASE alias # 0 /\ topic = "" ->
           [ok |-> alias \in DOMAIN cnClient,
            topic |-> IF alias \in DOMAIN cnClient THEN cnClient[alias] ELSE "",
            table |-> cnClient]
      [] alias # 0 /\ topic # "" ->
           IF alias \in DOMAIN cnClient
                \/ Cardinality(DOMAIN cnClient) < cnMaxCli
           THEN [ok |-> TRUE, topic |-> topic,
                 table |-> (alias :> topic) @@ cnClient]
           ELSE [ok |-> FALSE, topic |-> "", table |-> cnClient]
      [] alias = 0 ->
           [ok |-> topic # "", topic |-> topic, table |-> cnClient]

\* publish_v5: the client publishes on topic t, naming it, setting an alias
\* for it, or by an alias it set; an error ends the connection.
CnPublish(t) ==
    /\ cnPhase = "up" /\ cnSpent.publishes < cnPlan.publishes
    /\ cnSpent' = [cnSpent EXCEPT !.publishes = @ + 1]
    /\ \E alias \in 0 .. cnMaxCli + 1, named \in BOOLEAN :
         LET r == IF cnMaxCli > 0
                  THEN SetAndGet(alias, IF named THEN t ELSE "")
                  ELSE [ok |-> TRUE, topic |-> t, table |-> cnClient] IN
         /\ IF named THEN alias # 0 => cnMaxCli > 0
                     ELSE alias \in DOMAIN cnSet /\ cnSet[alias] = t
         /\ cnClient' = r.table
         /\ cnSet' = IF named /\ alias # 0 THEN (alias :> t) @@ cnSet ELSE cnSet
         /\ IF r.ok
            THEN /\ cnTaken' = cnTaken \union {<<t, r.topic>>}
                 /\ UNCHANGED <<cnPhase, cnPkt, cnWire>>
            ELSE /\ cnPhase' = "none" /\ cnPkt' = NoPacket
                 /\ cnWire' = <<>>
                 /\ UNCHANGED cnTaken
    /\ UNCHANGED <<cnPlan, cnTimer, cnOld, cnMaxSrv, cnMaxCli, cnServer, cnTold,
                   cnQueue, cnGot, cnUnsent, cnFate, cnClock>>

CnTick ==
    /\ cnClock < cnPlan.time
    /\ cnClock' = cnClock + 1
    /\ UNCHANGED <<cnPlan, shakeVars, tableVars, trafficVars, cnSpent>>

CnNext ==
    \/ CnConnect \/ CnCheck \/ CnKick \/ CnCreate \/ CnAck \/ CnClose
    \/ \E m \in CnMessages : CnDeliver(m)
    \/ CnRead
    \/ \E t \in CnTopics : CnPublish(t)
    \/ CnTick

CnSpec == CnInit /\ [][CnNext]_cnVars

------------------------------------------------------------------------------
(***************************************************************************)
(* Both ends resolve an alias to the topic the sender meant, over          *)
(* reconnects, a full table and aliases set again (ServerTopicAliases::get *)
(* and ClientTopicAliases::set_and_get).  The one exception: get enters    *)
(* the alias before the packet that tells it is sent, so a packet the sink *)
(* refuses leaves the client without that topic's alias.                   *)
(***************************************************************************)
AliasesAgree ==
    /\ \A g \in cnGot : g[2] = g[1] \/ g[1] \in cnUnsent
    /\ \A g \in cnTaken : g[2] = g[1]
    /\ \A t \in DOMAIN cnServer : cnServer[t] \in 1 .. cnMaxSrv

(***************************************************************************)
(* The keep alive the client is told leaves it time: the session loop      *)
(* waits at least as long as the value in CONNACK, never forever unless    *)
(* that value is 0, and is never cut short by the cast to u16              *)
(* (DefaultFitter::keep_alive).                                            *)
(***************************************************************************)
KeepAliveTolerated ==
    cnPhase \in {"started", "up"} =>
      /\ cnTimer >= cnPkt.keepalive
      /\ cnTimer <= CnU16
      /\ cnTimer = 0 <=> cnPkt.keepalive = 0

\* How long the message is good for by what its receiver's session goes by
Lifetime(m) == IF m.interval # 0 THEN m.interval * CnMilli ELSE CnListener.expiry

\* A message with its own interval, or between listeners of which the
\* publisher's keeps messages at least as long as the receiver's delivers them
Comparable(m) ==
    m.interval # 0 \/ (CnListener.expiry # 0 /\ CnListener.expiry <= m.origin)

(***************************************************************************)
(* What delivery decided on a message, by the receiver's listener, fits    *)
(* its lifetime and what the stores do with it by the publisher's fitter:  *)
(* it is dropped as expired when its lifetime has passed and only then;    *)
(* the interval told to the client is never longer than what is left, and  *)
(* none is told only for a message that does not expire or is in its last  *)
(* second; and a comparable message that is sent is still held by the      *)
(* stores, whether they drop it from the instant it expires (the clean-up, *)
(* the retainer) or only after it (is_expiry).  For every interval whose   *)
(* milliseconds fit the u32 in which message_expiry_check multiplies.      *)
(***************************************************************************)
ExpiryAgrees ==
    \A m \in CnMessages :
      LET f == cnFate[m]
          left == Lifetime(m) - (f.at - m.at) IN
      m.interval * CnMilli < CnWidth =>
        /\ f.verdict = "expired" => Lifetime(m) # 0 /\ left <= 0
        /\ f.verdict = "sent" =>
             /\ Lifetime(m) # 0 => left > 0
             /\ f.told # 0 => f.told * CnMilli <= left
             /\ f.told = 0 => Lifetime(m) = 0 \/ left < CnMilli
             /\ Comparable(m) /\ m.at <= m.stored => f.at < StoredUntil(m)

(***************************************************************************)
(* What was agreed on is kept: the keep alive and the expiry of messages.  *)
(***************************************************************************)
NegotiatedKept == KeepAliveTolerated /\ ExpiryAgrees
==============================================================================
