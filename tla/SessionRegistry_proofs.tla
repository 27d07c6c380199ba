----------------------- MODULE SessionRegistry_proofs -----------------------
(***************************************************************************)
(* Safety of the sessions of one client id, for any number of connections  *)
(* and any mix of them.  First part: types, the lock of the client id, the *)
(* last will and the registry, under every kick, answered or not.          *)
(***************************************************************************)
EXTENDS SessionLife, TLAPS

-----------------------------------------------------------------------------
(* The inductive invariant *)

PcLabels == {"init", "kick", "kickwait", "remove", "unroute", "forget", "drain",
             "create", "set", "ack", "done", "refused"}
StLabels == {"none", "online", "exit", "left", "offline", "clean", "unroute",
             "forget", "gone"}
SubLabels == {"fresh", "route", "map", "subscribed", "unroute", "unmap", "end"}
ControlMessages == [type : {"Kick"}, by : Actors]
                   \cup [type : {"Disconnect", "Closed"}, by : {None}]

HandshakeTypes ==
    /\ lock \in Conns \cup {None}
    /\ pc \in [Actors -> PcLabels]
    /\ old \in [Actors -> Conns \cup {None}]
    /\ info \in [Actors -> BOOLEAN]
    /\ replied \subseteq Actors

RegistryTypes ==
    /\ peers \in Conns \cup {None}
    /\ rel \in Conns \cup {None}
    /\ subs \in [Conns -> BOOLEAN]
    /\ tr \in [Conns -> {"none", "route", "extend"}]

TaskTypes ==
    /\ st \in [Conns -> StLabels]
    /\ q \in [Conns -> Seq(ControlMessages)]
    /\ flags \in [Conns -> SUBSET {"Kicked", "ByAdminKick", "CleanStart", "DisconnectReceived"}]
    /\ will \in [Conns -> {"armed", "delayed", "done"}]
    /\ pubs \in [Conns -> Nat]

ConnTypes ==
    /\ conn \in [Conns -> {"none", "open", "leaving", "closed"}]
    /\ sub \in [Conns -> SubLabels]
    /\ capt \in [Conns -> Conns \cup {None}]
    /\ late \subseteq Conns

TypeOK == HandshakeTypes /\ RegistryTypes /\ TaskTypes /\ ConnTypes

\* the stretches of a handshake
Outside == {"init", "done", "refused"}
Unmade == {"init", "kick", "kickwait", "remove", "unroute", "forget", "drain",
           "create", "refused"}
Emptied == {"unroute", "forget", "drain", "create", "set"}

(* The lock: a handshake past try_lock holds it until it ends, and between *)
(* _remove and set the registry has no session of the client.              *)
LockInv ==
    \A c \in Conns :
        /\ pc[c] \notin Outside => lock = c
        /\ pc[c] \in Emptied => peers = None
        /\ pc[c] \in Unmade <=> st[c] = "none"
        /\ peers = c => pc[c] \in {"ack", "done"}

(* The will: it is armed until the online loop has ended, published only   *)
(* on the way to "done", and no DISCONNECT leaves it pending.              *)
WillInv ==
    \A c \in Conns :
        /\ st[c] \in {"none", "online", "exit"} => will[c] = "armed"
        /\ will[c] # "done" => pubs[c] = 0
        /\ pubs[c] <= 1
        /\ "DisconnectReceived" \in flags[c] => will[c] # "delayed" /\ pubs[c] = 0

(* The registry: what was ever taken out of it is remembered in old and    *)
(* does not come back; a session that may serve is in it, is about to be,  *)
(* or was taken out.                                                       *)
Lasting == {"online", "exit", "left", "offline", "clean"}
RegistryInv ==
    /\ \A a \in Actors :
        /\ pc[a] \in {"init", "kick", "kickwait", "remove"} => old[a] = None
        /\ old[a] # None => peers # old[a] /\ pc[old[a]] \in {"ack", "done"}
        /\ pc[a] \in {"unroute", "forget", "drain"} => old[a] # None
    /\ \A c \in Conns :
        /\ st[c] \in Lasting => \/ peers = c \/ pc[c] = "set"
                                \/ \E a \in Actors : old[a] = c
        /\ st[c] \in {"unroute", "forget"} => peers # c /\ pc[c] \in {"ack", "done"}

(* What the steps put into a channel is a control message. *)
LEMMA MessagesTyped ==
    /\ \A a \in Actors : Kick(a) \in ControlMessages
    /\ \A t \in {"Disconnect", "Closed"} : Plain(t) \in ControlMessages
BY DEF Kick, Plain, ControlMessages

(* Dropping, reading and extending a channel keep its type. *)
LEMMA ChannelsTyped ==
    ASSUME q \in [Conns -> Seq(ControlMessages)], NEW c \in Conns
    PROVE  /\ [q EXCEPT ![c] = << >>] \in [Conns -> Seq(ControlMessages)]
           /\ q[c] # << >> => [q EXCEPT ![c] = Tail(@)] \in [Conns -> Seq(ControlMessages)]
           /\ \A m \in ControlMessages :
                [q EXCEPT ![c] = Append(@, m)] \in [Conns -> Seq(ControlMessages)]
OBVIOUS

-----------------------------------------------------------------------------
(* What the steps leave alone *)

(* Kicks touch no session task and no connection. *)
LEMMA KickFrame ==
    ASSUME NEW a, KickStep(a)
    PROVE  UNCHANGED <<st, flags, will, pubs, conn, sub, capt, late, tr>>
BY DEF KickStep, SendKick, KickAnswered, KickFailed, KickTimeout, RemovePeer, KickUnroute,
       KickForget, taskVars, connVars

(* Handshakes post and answer nothing and leave the routes alone. *)
LEMMA HandshakeFrame ==
    ASSUME AdminStart \/ \E c \in Conns : TryLock(c) \/ HandshakeStep(c)
    PROVE  UNCHANGED <<replied, rel, q, flags, will, pubs, sub, capt, late>>
BY DEF AdminStart, TryLock, HandshakeStep, Drain, Refuse, Create, SetPeer, Finish,
       taskVars, connVars

(* The connection task and the transfer take no part in the handshake and  *)
(* leave the session task to itself, its channel apart.                    *)
LEMMA ClientFrame ==
    ASSUME NEW c, TransferStep(c) \/ ClientStep(c)
    PROVE  UNCHANGED <<lock, pc, old, info, replied, peers, st, flags, will, pubs>>
BY DEF TransferStep, TransferRoute, TransferExtend, ClientStep, Subscribe, SubscribeRoute,
       SubscribeMap, Unsubscribe, UnsubscribeRoute, UnsubscribeMap, ClientDisconnect,
       ConnLost, taskVars, handshakeVars

(* The session task takes no part in the handshake, its answer to a Kick   *)
(* apart, and leaves the connection alone.                                 *)
LEMMA TaskFrame ==
    ASSUME NEW c, TaskStep(c) \/ TimerStep(c)
    PROVE  UNCHANGED <<lock, pc, old, info, conn, sub, capt, late, tr>>
BY DEF TaskStep, OnKick, OnIgnored, OnDisconnect, OnClosed, ExitLoop, Leave, CleanRemove,
       CleanUnroute, CleanForget, TimerStep, KeepaliveTimeout, WillDelay, SessionExpiry,
       connVars, handshakeVars

(* The session task reads its channel or drops it. *)
LEMMA TaskChannel ==
    ASSUME NEW c, TaskStep(c) \/ TimerStep(c)
    PROVE  \/ q' = q \/ q' = [q EXCEPT ![c] = << >>]
           \/ q[c] # << >> /\ q' = [q EXCEPT ![c] = Tail(@)]
BY DEF TaskStep, OnKick, OnIgnored, OnDisconnect, OnClosed, ExitLoop, Leave, CleanRemove,
       CleanUnroute, CleanForget, TimerStep, KeepaliveTimeout, WillDelay, SessionExpiry,
       Gone

(* What else a task step leaves alone unless it is the one named. *)
LEMMA TaskOther ==
    ASSUME NEW c, TaskStep(c) \/ TimerStep(c)
    PROVE  /\ ~OnKick(c) => replied' = replied
           /\ ~OnKick(c) /\ ~OnDisconnect(c) => flags' = flags
           /\ ~ExitLoop(c) /\ ~WillDelay(c) /\ ~SessionExpiry(c) => UNCHANGED <<will, pubs>>
           /\ ~CleanRemove(c) => peers' = peers
           /\ ~CleanUnroute(c) => rel' = rel
           /\ ~CleanForget(c) => subs' = subs
BY DEF TaskStep, OnKick, OnIgnored, OnDisconnect, OnClosed, ExitLoop, Leave, CleanRemove,
       CleanUnroute, CleanForget, TimerStep, KeepaliveTimeout, WillDelay, SessionExpiry,
       handshakeVars

(* The same for kicks and the connection task. *)
LEMMA KickOther ==
    ASSUME NEW a, KickStep(a)
    PROVE  /\ ~SendKick(a) => q' = q
           /\ ~RemovePeer(a) => UNCHANGED <<old, peers>>
           /\ ~KickUnroute(a) => rel' = rel
           /\ ~KickForget(a) => subs' = subs
           /\ UNCHANGED <<info, replied>>
BY DEF KickStep, SendKick, KickAnswered, KickFailed, KickTimeout, RemovePeer, KickUnroute,
       KickForget, taskVars

LEMMA ClientOther ==
    ASSUME NEW c, TransferStep(c) \/ ClientStep(c), ~ClientDisconnect(c), ~ConnLost(c)
    PROVE  UNCHANGED <<q, conn>>
BY DEF TransferStep, TransferRoute, TransferExtend, ClientStep, Subscribe, SubscribeRoute,
       SubscribeMap, Unsubscribe, UnsubscribeRoute, UnsubscribeMap, taskVars

(* Only Create touches a session task. *)
LEMMA HandshakeOther ==
    ASSUME AdminStart \/ \E c \in Conns : TryLock(c) \/ (HandshakeStep(c) /\ ~Create(c))
    PROVE  st' = st
BY DEF AdminStart, TryLock, HandshakeStep, Drain, Refuse, SetPeer, Finish, taskVars

(* How the handshakes and the HTTP kick move on. *)
KickPlaces == {"kick", "kickwait", "remove", "unroute", "forget"}
LEMMA KickGoes ==
    ASSUME NEW a, KickStep(a)
    PROVE  /\ pc[a] \in KickPlaces
           /\ \E l \in (PcLabels \ {"init", "kick", "set", "ack"}) :
                pc' = [pc EXCEPT ![a] = l] /\ (a # Admin => l # "done")
BY DEF KickStep, SendKick, KickAnswered, KickFailed, KickTimeout, RemovePeer, KickUnroute,
       KickForget, AfterKick, Goto, KickPlaces, PcLabels

LEMMA HandshakeGoes ==
    ASSUME NEW c, HandshakeStep(c)
    PROVE  /\ pc[c] \in {"drain", "create", "set", "ack"}
           /\ \E l \in {"create", "set", "ack", "done", "refused"} : pc' = [pc EXCEPT ![c] = l]
BY DEF HandshakeStep, Drain, Refuse, Create, SetPeer, Finish, AfterKick, Goto

-----------------------------------------------------------------------------
(* Types *)

(* The types of the handshake are kept. *)
LEMMA HandshakeTyped ==
    ASSUME TypeOK, RegistryInv, [Next]_vars
    PROVE  HandshakeTypes'
<1>1. HandshakeTypes /\ RegistryTypes
  BY DEF TypeOK
<1>2. ASSUME UNCHANGED handshakeVars PROVE HandshakeTypes'
  BY <1>1, <1>2 DEF HandshakeTypes, handshakeVars
<1>3. ASSUME AdminStart PROVE HandshakeTypes'
  BY <1>1, <1>3 DEF AdminStart, Goto, HandshakeTypes, PcLabels, Actors
<1>4. ASSUME NEW c \in Conns, TryLock(c) PROVE HandshakeTypes'
  BY <1>1, <1>4 DEF TryLock, Goto, HandshakeTypes, PcLabels, Actors
<1>5. ASSUME NEW a \in Actors, KickStep(a) PROVE HandshakeTypes'
  <2>1. ASSUME SendKick(a) PROVE HandshakeTypes'
    BY <2>1, <1>1 DEF SendKick, Goto, HandshakeTypes, PcLabels
  <2>2. ASSUME KickAnswered(a) PROVE HandshakeTypes'
    BY <2>2, <1>1 DEF KickAnswered, Goto, HandshakeTypes, PcLabels
  <2>3. ASSUME KickFailed(a) PROVE HandshakeTypes'
    BY <2>3, <1>1 DEF KickFailed, Unlock, Goto, HandshakeTypes, PcLabels
  <2>4. ASSUME KickTimeout(a) PROVE HandshakeTypes'
    BY <2>4, <1>1 DEF KickTimeout, Goto, HandshakeTypes, PcLabels
  <2>5. ASSUME RemovePeer(a) PROVE HandshakeTypes'
    BY <2>5, <1>1 DEF RemovePeer, AfterKick, RegistryTypes, Goto, HandshakeTypes, PcLabels
  <2>6. ASSUME KickUnroute(a) PROVE HandshakeTypes'
    BY <2>6, <1>1 DEF KickUnroute, AfterKick, Goto, HandshakeTypes, PcLabels
  <2>7. ASSUME KickForget(a) PROVE HandshakeTypes'
    BY <2>7, <1>1 DEF KickForget, AfterKick, Goto, HandshakeTypes, PcLabels
  <2> QED
    BY <1>5, <2>1, <2>2, <2>3, <2>4, <2>5, <2>6, <2>7 DEF KickStep
<1>6. ASSUME NEW c \in Conns, HandshakeStep(c) PROVE HandshakeTypes'
  <2>1. ASSUME Drain(c) PROVE HandshakeTypes'
    <3>1. old[c] \in Conns /\ subs \in [Conns -> BOOLEAN]
      BY <2>1, <1>1 DEF Drain, RegistryInv, HandshakeTypes, RegistryTypes, Actors
    <3>2. subs[old[c]] \in BOOLEAN
      BY <3>1
    <3> QED
      BY <2>1, <1>1, <3>2 DEF Drain, AfterKick, Goto, HandshakeTypes, PcLabels, Actors
  <2>2. ASSUME Refuse(c) PROVE HandshakeTypes'
    BY <2>2, <1>1 DEF Refuse, Unlock, Goto, HandshakeTypes, PcLabels, Actors
  <2>3. ASSUME Create(c) PROVE HandshakeTypes'
    BY <2>3, <1>1 DEF Create, Goto, HandshakeTypes, PcLabels, Actors
  <2>4. ASSUME SetPeer(c) PROVE HandshakeTypes'
    BY <2>4, <1>1 DEF SetPeer, Goto, HandshakeTypes, PcLabels, Actors
  <2>5. ASSUME Finish(c) PROVE HandshakeTypes'
    BY <2>5, <1>1 DEF Finish, Unlock, Goto, HandshakeTypes, PcLabels, Actors
  <2> QED
    BY <1>6, <2>1, <2>2, <2>3, <2>4, <2>5 DEF HandshakeStep
<1>7. ASSUME NEW c \in Conns, TransferStep(c) \/ ClientStep(c) PROVE HandshakeTypes'
  BY <1>2, <1>7, ClientFrame DEF handshakeVars
<1>8. ASSUME NEW c \in Conns, TaskStep(c) \/ TimerStep(c) PROVE HandshakeTypes'
  <2>1. replied' \subseteq Actors
    <3>1. CASE OnKick(c)
      <4>1. /\ q[c] # << >> /\ Head(q[c]).type = "Kick"
            /\ replied' = replied \cup {Head(q[c]).by}
        BY <3>1 DEF OnKick
      <4>2. Head(q[c]) \in ControlMessages
        BY <4>1 DEF TypeOK, TaskTypes
      <4>3. Head(q[c]).by \in Actors
        BY <4>1, <4>2 DEF ControlMessages
      <4> QED
        BY <1>1, <4>1, <4>3 DEF HandshakeTypes
    <3>2. CASE ~OnKick(c)
      <4>1. replied' = replied
        BY <1>8, <3>2, TaskOther
      <4> QED
        BY <1>1, <4>1 DEF HandshakeTypes
    <3> QED
      BY <3>1, <3>2
  <2> QED
    BY <1>1, <1>8, <2>1, TaskFrame DEF HandshakeTypes
<1> QED
  BY <1>2, <1>3, <1>4, <1>5, <1>6, <1>7, <1>8 DEF Next, vars, handshakeVars

(* The types of the registry, the routes and the subscriptions are kept. *)
LEMMA RegistryTyped ==
    ASSUME TypeOK, [Next]_vars
    PROVE  RegistryTypes'
<1>1. RegistryTypes /\ old \in [Actors -> Conns \cup {None}] /\ capt \in [Conns -> Conns \cup {None}]
  BY DEF TypeOK, HandshakeTypes, ConnTypes
<1>2. ASSUME UNCHANGED <<peers, rel, subs, tr>> PROVE RegistryTypes'
  BY <1>1, <1>2 DEF RegistryTypes
<1>3. ASSUME NEW a \in Actors, KickStep(a) PROVE RegistryTypes'
  <2>1. ASSUME RemovePeer(a) PROVE RegistryTypes'
    BY <2>1, <1>1 DEF RemovePeer, RegistryTypes
  <2>2. ASSUME KickUnroute(a) PROVE RegistryTypes'
    BY <2>2, <1>1 DEF KickUnroute, RouterRemove, RegistryTypes
  <2>3. ASSUME KickForget(a) PROVE RegistryTypes'
    BY <2>3, <1>1 DEF KickForget, PeerForget, RegistryTypes
  <2> QED
    BY <1>2, <1>3, KickFrame, KickOther, <2>1, <2>2, <2>3
<1>4. ASSUME NEW c \in Conns, HandshakeStep(c) PROVE RegistryTypes'
  <2>1. ASSUME Drain(c) PROVE RegistryTypes'
    BY <2>1, Zenon, <1>1 DEF Drain, RegistryTypes
  <2>2. ASSUME SetPeer(c) PROVE RegistryTypes'
    BY <2>2, <1>1 DEF SetPeer, RegistryTypes
  <2>3. ASSUME Finish(c) PROVE RegistryTypes'
    BY <2>3, <1>1 DEF Finish, RegistryTypes
  <2> QED
    BY <1>2, <1>4, <2>1, <2>2, <2>3 DEF HandshakeStep, Refuse, Create
<1>5. ASSUME NEW c \in Conns, TransferStep(c) \/ ClientStep(c) PROVE RegistryTypes'
  <2>1. ASSUME TransferRoute(c) PROVE RegistryTypes'
    BY <2>1, <1>1 DEF TransferRoute, RegistryTypes
  <2>2. ASSUME TransferExtend(c) PROVE RegistryTypes'
    BY <2>2, <1>1 DEF TransferExtend, RegistryTypes
  <2>3. ASSUME SubscribeRoute(c) PROVE RegistryTypes'
    BY <2>3, <1>1 DEF SubscribeRoute, RegistryTypes
  <2>4. ASSUME SubscribeMap(c) PROVE RegistryTypes'
    BY <2>4, Zenon, <1>1 DEF SubscribeMap, RegistryTypes
  <2>5. ASSUME UnsubscribeRoute(c) PROVE RegistryTypes'
    BY <2>5, <1>1 DEF UnsubscribeRoute, RouterRemove, RegistryTypes
  <2>6. ASSUME UnsubscribeMap(c) PROVE RegistryTypes'
    BY <2>6, Zenon, <1>1 DEF UnsubscribeMap, RegistryTypes
  <2> QED
    BY <1>2, <1>5, <2>1, <2>2, <2>3, <2>4, <2>5, <2>6
       DEF TransferStep, ClientStep, Subscribe, Unsubscribe, ClientDisconnect, ConnLost
<1>6. ASSUME NEW c \in Conns, TaskStep(c) \/ TimerStep(c) PROVE RegistryTypes'
  <2>1. ASSUME CleanRemove(c) PROVE RegistryTypes'
    BY <2>1, <1>1 DEF CleanRemove, RegistryTypes
  <2>2. ASSUME CleanUnroute(c) PROVE RegistryTypes'
    BY <2>2, <1>1 DEF CleanUnroute, RouterRemove, RegistryTypes
  <2>3. ASSUME CleanForget(c) PROVE RegistryTypes'
    BY <2>3, <1>1 DEF CleanForget, PeerForget, RegistryTypes
  <2> QED
    BY <1>2, <1>6, TaskFrame, TaskOther, <2>1, <2>2, <2>3
<1>7. ASSUME AdminStart \/ \E c \in Conns : TryLock(c) PROVE RegistryTypes'
  BY <1>2, <1>7 DEF AdminStart, TryLock
<1> QED
  BY <1>2, <1>3, <1>4, <1>5, <1>6, <1>7 DEF Next, vars

(* The types of the connection task are kept. *)
LEMMA ConnTyped ==
    ASSUME TypeOK, [Next]_vars
    PROVE  ConnTypes'
<1>1. ConnTypes /\ peers \in Conns \cup {None}
  BY DEF TypeOK, RegistryTypes
<1>2. ASSUME UNCHANGED connVars PROVE ConnTypes'
  BY <1>1, <1>2 DEF ConnTypes, connVars
<1>3. ASSUME NEW a \in Actors, KickStep(a) PROVE ConnTypes'
  BY <1>2, <1>3, KickFrame DEF connVars
<1>4. ASSUME NEW c \in Conns, Finish(c) PROVE ConnTypes'
  BY <1>1, <1>4 DEF Finish, ConnTypes
<1>5. ASSUME NEW c \in Conns, TransferStep(c) \/ ClientStep(c) PROVE ConnTypes'
  <2>1. ASSUME TransferRoute(c) PROVE ConnTypes'
    BY <2>1, <1>1 DEF TransferRoute, NoteLate, ConnTypes
  <2>2. ASSUME TransferExtend(c) PROVE ConnTypes'
    BY <2>2, <1>1 DEF TransferExtend, NoteLate, ConnTypes
  <2>3. ASSUME Subscribe(c) PROVE ConnTypes'
    BY <2>3, <1>1 DEF Subscribe, SubStep, NoteLate, SubLabels, ConnTypes
  <2>4. ASSUME SubscribeRoute(c) PROVE ConnTypes'
    BY <2>4, <1>1 DEF SubscribeRoute, SubStep, NoteLate, SubLabels, ConnTypes
  <2>5. ASSUME SubscribeMap(c) PROVE ConnTypes'
    BY <2>5, <1>1 DEF SubscribeMap, SubStep, NoteLate, SubLabels, ConnTypes
  <2>6. ASSUME Unsubscribe(c) PROVE ConnTypes'
    BY <2>6, <1>1 DEF Unsubscribe, SubStep, NoteLate, SubLabels, ConnTypes
  <2>7. ASSUME UnsubscribeRoute(c) PROVE ConnTypes'
    BY <2>7, <1>1 DEF UnsubscribeRoute, SubStep, NoteLate, SubLabels, ConnTypes
  <2>8. ASSUME UnsubscribeMap(c) PROVE ConnTypes'
    BY <2>8, <1>1 DEF UnsubscribeMap, SubStep, NoteLate, SubLabels, ConnTypes
  <2>9. ASSUME ClientDisconnect(c) PROVE ConnTypes'
    BY <2>9, <1>1 DEF ClientDisconnect, ConnTypes
  <2>10. ASSUME ConnLost(c) PROVE ConnTypes'
    BY <2>10, <1>1 DEF ConnLost, ConnTypes
  <2> QED
    BY <1>5, <2>1, <2>2, <2>3, <2>4, <2>5, <2>6, <2>7, <2>8, <2>9, <2>10
       DEF TransferStep, ClientStep
<1>6. ASSUME NEW c \in Conns, TaskStep(c) \/ TimerStep(c) PROVE ConnTypes'
  BY <1>2, <1>6, TaskFrame DEF connVars
<1>7. ASSUME AdminStart \/ \E c \in Conns : TryLock(c) \/ Drain(c) \/ Refuse(c) \/ Create(c) \/ SetPeer(c)
      PROVE  ConnTypes'
  BY <1>2, <1>7 DEF AdminStart, TryLock, Drain, Refuse, Create, SetPeer
<1> QED
  BY <1>2, <1>3, <1>4, <1>5, <1>6, <1>7 DEF Next, HandshakeStep, vars, connVars

(* The types of the session task are kept. *)
LEMMA TaskTyped ==
    ASSUME TypeOK, [Next]_vars
    PROVE  TaskTypes'
<1>1. TaskTypes /\ q \in [Conns -> Seq(ControlMessages)] /\ peers \in Conns \cup {None}
  BY DEF TypeOK, TaskTypes, RegistryTypes
<1>2. ASSUME UNCHANGED taskVars PROVE TaskTypes'
  BY <1>1, <1>2 DEF TaskTypes, taskVars
<1>3. ASSUME UNCHANGED <<st, flags, will, pubs>>, q' \in [Conns -> Seq(ControlMessages)]
      PROVE  TaskTypes'
  BY <1>1, <1>3 DEF TaskTypes
<1>4. ASSUME NEW a \in Actors, KickStep(a) PROVE TaskTypes'
  <2>1. CASE SendKick(a) /\ peers # None /\ st[peers] # "gone"
    <3>1. peers \in Conns /\ Kick(a) \in ControlMessages
      BY <1>1, <2>1, MessagesTyped
    <3>2. q' = [q EXCEPT ![peers] = Append(@, Kick(a))]
      BY <2>1 DEF SendKick
    <3>3. q' \in [Conns -> Seq(ControlMessages)]
      BY <1>1, <3>1, <3>2, ChannelsTyped
    <3> QED
      BY <1>3, <1>4, <3>3, KickFrame
  <2>2. CASE ~(SendKick(a) /\ peers # None /\ st[peers] # "gone")
    <3>1. q' = q
      BY <1>4, <2>2, KickOther DEF SendKick
    <3> QED
      BY <1>2, <1>4, <3>1, KickFrame DEF taskVars
  <2> QED
    BY <2>1, <2>2
<1>5. ASSUME NEW c \in Conns, Create(c) PROVE TaskTypes'
  BY <1>1, <1>5 DEF Create, TaskTypes, StLabels
<1>6. ASSUME NEW c \in Conns, TransferStep(c) \/ ClientStep(c) PROVE TaskTypes'
  <2>1. ASSUME NEW t \in {"Disconnect", "Closed"}, Post(c, Plain(t))
        PROVE  q' \in [Conns -> Seq(ControlMessages)]
    <3>1. CASE q' = q
      BY <1>1, <3>1
    <3>2. CASE q' = [q EXCEPT ![c] = Append(@, Plain(t))]
      BY <1>1, <3>2, ChannelsTyped, MessagesTyped
    <3> QED
      BY <2>1, <3>1, <3>2 DEF Post
  <2>2. CASE ClientDisconnect(c) \/ ConnLost(c)
    <3>1. q' \in [Conns -> Seq(ControlMessages)]
      BY <2>1, <2>2 DEF ClientDisconnect, ConnLost
    <3> QED
      BY <1>3, <1>6, <3>1, ClientFrame
  <2>3. CASE ~(ClientDisconnect(c) \/ ConnLost(c))
    <3>1. q' = q
      BY <1>6, <2>3, ClientOther
    <3> QED
      BY <1>2, <1>6, <3>1, ClientFrame DEF taskVars
  <2> QED
    BY <2>2, <2>3
<1>7. ASSUME NEW c \in Conns, TaskStep(c) \/ TimerStep(c) PROVE TaskTypes'
  <2>1. q' \in [Conns -> Seq(ControlMessages)]
    <3>1. CASE q' = q
      BY <1>1, <3>1
    <3>2. CASE q' = [q EXCEPT ![c] = << >>]
      BY <1>1, <3>2, ChannelsTyped
    <3>3. CASE q[c] # << >> /\ q' = [q EXCEPT ![c] = Tail(@)]
      BY <1>1, <3>3, ChannelsTyped
    <3> QED
      BY <1>7, <3>1, <3>2, <3>3, TaskChannel
  <2>2. /\ st \in [Conns -> StLabels] /\ will \in [Conns -> {"armed", "delayed", "done"}]
        /\ pubs \in [Conns -> Nat]
        /\ flags \in [Conns -> SUBSET {"Kicked", "ByAdminKick", "CleanStart", "DisconnectReceived"}]
    BY <1>1 DEF TaskTypes
  <2>3. st' \in [Conns -> StLabels]
    <3>1. ASSUME OnKick(c) PROVE st' \in [Conns -> StLabels]
      BY <3>1, <2>2 DEF OnKick, StLabels
    <3>2. ASSUME OnIgnored(c) PROVE st' \in [Conns -> StLabels]
      BY <3>2, <2>2 DEF OnIgnored, StLabels
    <3>3. ASSUME OnDisconnect(c) PROVE st' \in [Conns -> StLabels]
      BY <3>3, <2>2 DEF OnDisconnect, StLabels
    <3>4. ASSUME OnClosed(c) PROVE st' \in [Conns -> StLabels]
      BY <3>4, <2>2 DEF OnClosed, StLabels
    <3>5. ASSUME ExitLoop(c) PROVE st' \in [Conns -> StLabels]
      BY <3>5, <2>2 DEF ExitLoop, StLabels
    <3>6. ASSUME Leave(c) PROVE st' \in [Conns -> StLabels]
      BY <3>6, <2>2 DEF Leave, Gone, StLabels
    <3>7. ASSUME CleanRemove(c) PROVE st' \in [Conns -> StLabels]
      BY <3>7, <2>2 DEF CleanRemove, Gone, StLabels
    <3>8. ASSUME CleanUnroute(c) PROVE st' \in [Conns -> StLabels]
      BY <3>8, Zenon, <2>2 DEF CleanUnroute, Gone, StLabels
    <3>9. ASSUME CleanForget(c) PROVE st' \in [Conns -> StLabels]
      BY <3>9, <2>2 DEF CleanForget, Gone, StLabels
    <3>10. ASSUME KeepaliveTimeout(c) PROVE st' \in [Conns -> StLabels]
      BY <3>10, <2>2 DEF KeepaliveTimeout, StLabels
    <3>11. ASSUME WillDelay(c) PROVE st' \in [Conns -> StLabels]
      BY <3>11, <2>2 DEF WillDelay, StLabels
    <3>12. ASSUME SessionExpiry(c) PROVE st' \in [Conns -> StLabels]
      BY <3>12, <2>2 DEF SessionExpiry, StLabels
    <3> QED
      BY <1>7, <3>1, <3>2, <3>3, <3>4, <3>5, <3>6, <3>7, <3>8, <3>9, <3>10, <3>11, <3>12
         DEF TaskStep, TimerStep
  <2>4. will' \in [Conns -> {"armed", "delayed", "done"}] /\ pubs' \in [Conns -> Nat]
    <3>1. ASSUME ExitLoop(c)
          PROVE  will' \in [Conns -> {"armed", "delayed", "done"}] /\ pubs' \in [Conns -> Nat]
      BY <2>2, <3>1 DEF ExitLoop, PublishWill
    <3>2. ASSUME WillDelay(c) \/ SessionExpiry(c)
          PROVE  will' \in [Conns -> {"armed", "delayed", "done"}] /\ pubs' \in [Conns -> Nat]
      BY <2>2, <3>2 DEF WillDelay, SessionExpiry, PublishWill
    <3>3. ASSUME ~(ExitLoop(c) \/ WillDelay(c) \/ SessionExpiry(c))
          PROVE  UNCHANGED <<will, pubs>>
      BY <1>7, <3>3, TaskOther
    <3> QED
      BY <2>2, <3>1, <3>2, <3>3
  <2>5. flags' \in [Conns -> SUBSET {"Kicked", "ByAdminKick", "CleanStart", "DisconnectReceived"}]
    <3>1. CASE OnKick(c)
      BY <2>2, <3>1 DEF OnKick, KickFlags
    <3>2. CASE OnDisconnect(c)
      BY <2>2, <3>2 DEF OnDisconnect
    <3>3. ASSUME ~(OnKick(c) \/ OnDisconnect(c)) PROVE UNCHANGED flags
      BY <1>7, <3>3, TaskOther
    <3> QED
      BY <2>2, <3>1, <3>2, <3>3
  <2> QED
    BY <2>1, <2>3, <2>4, <2>5 DEF TaskTypes
<1>8. ASSUME AdminStart \/ \E c \in Conns : TryLock(c) \/ Drain(c) \/ Refuse(c) \/ SetPeer(c) \/ Finish(c)
      PROVE  TaskTypes'
  BY <1>2, <1>8, Zenon DEF AdminStart, TryLock, Drain, Refuse, SetPeer, Finish
<1> QED
  BY <1>2, <1>4, <1>5, <1>6, <1>7, <1>8 DEF Next, HandshakeStep, vars, taskVars

(* Every step keeps the types. *)
LEMMA NextTyped == TypeOK /\ RegistryInv /\ [Next]_vars => TypeOK'
BY HandshakeTyped, RegistryTyped, TaskTyped, ConnTyped DEF TypeOK

-----------------------------------------------------------------------------
(* The lock, the last will, the registry *)

(* What a step of the session task or of its timers does to its session.   *)
(* It never makes one and never registers one.                             *)
LEMMA TaskMoves ==
    ASSUME NEW c \in Conns, TaskStep(c) \/ TimerStep(c), TypeOK
    PROVE  /\ st[c] # "none"
           /\ st' = [st EXCEPT ![c] = st'[c]] /\ st'[c] # "none"
           /\ peers' = peers \/ (st[c] = "clean" /\ peers = c /\ peers' = None)
<1>1. st \in [Conns -> StLabels]
  BY DEF TypeOK, TaskTypes
<1> DEFINE Moved == st[c] # "none" /\ st' = [st EXCEPT ![c] = st'[c]] /\ st'[c] # "none"
<1>2. ASSUME OnKick(c) PROVE Moved
  BY <1>2, <1>1 DEF OnKick
<1>3. ASSUME OnIgnored(c) PROVE Moved
  BY <1>3, <1>1 DEF OnIgnored
<1>4. ASSUME OnDisconnect(c) PROVE Moved
  BY <1>4, <1>1 DEF OnDisconnect
<1>5. ASSUME OnClosed(c) PROVE Moved
  BY <1>5, <1>1 DEF OnClosed
<1>6. ASSUME ExitLoop(c) PROVE Moved
  BY <1>6, <1>1 DEF ExitLoop
<1>7. ASSUME Leave(c) PROVE Moved
  BY <1>7, <1>1 DEF Leave, Gone
<1>8. ASSUME CleanRemove(c) PROVE Moved
  BY <1>8, <1>1 DEF CleanRemove, Gone
<1>9. ASSUME CleanUnroute(c) PROVE Moved
  BY <1>9, <1>1 DEF CleanUnroute, Gone
<1>10. ASSUME CleanForget(c) PROVE Moved
  BY <1>10, <1>1 DEF CleanForget, Gone
<1>11. ASSUME KeepaliveTimeout(c) PROVE Moved
  BY <1>11, <1>1 DEF KeepaliveTimeout
<1>12. ASSUME WillDelay(c) PROVE Moved
  BY <1>12, <1>1 DEF WillDelay
<1>13. ASSUME SessionExpiry(c) PROVE Moved
  BY <1>13, <1>1 DEF SessionExpiry
<1>14. peers' = peers \/ (st[c] = "clean" /\ peers = c /\ peers' = None)
  BY TaskOther DEF CleanRemove
<1> QED
  BY <1>2, <1>3, <1>4, <1>5, <1>6, <1>7, <1>8, <1>9, <1>10, <1>11, <1>12, <1>13, <1>14
     DEF TaskStep, TimerStep

(* The lock protects the registry from _remove to set. *)
LEMMA LockStep ==
    ASSUME TypeOK, LockInv, [Next]_vars
    PROVE  LockInv'
<1>1. /\ lock \in Conns \cup {None} /\ pc \in [Actors -> PcLabels]
      /\ peers \in Conns \cup {None} /\ st \in [Conns -> StLabels]
  BY DEF TypeOK, HandshakeTypes, RegistryTypes, TaskTypes
<1>2. ASSUME UNCHANGED <<lock, pc, peers, st>> PROVE LockInv'
  BY <1>2 DEF LockInv
<1>3. ASSUME AdminStart PROVE LockInv'
  BY <1>3, <1>1, SessionLifeAssumption
     DEF AdminStart, MayStart, LockInv, Outside, Unmade, Emptied, Actors, Goto, connVars,
         taskVars
<1>4. ASSUME NEW c \in Conns, TryLock(c) PROVE LockInv'
  BY <1>4, <1>1, SessionLifeAssumption
     DEF TryLock, MayStart, LockInv, Outside, Unmade, Emptied, Actors, Goto, connVars,
         taskVars
<1>5. ASSUME NEW a \in Actors, KickStep(a) PROVE LockInv'
  <2>1. ASSUME SendKick(a) PROVE LockInv'
    BY <2>1, <1>1, SessionLifeAssumption
       DEF SendKick, LockInv, Outside, Unmade, Emptied, Actors, Goto, connVars, taskVars
  <2>2. ASSUME KickAnswered(a) PROVE LockInv'
    BY <2>2, <1>1, SessionLifeAssumption
       DEF KickAnswered, LockInv, Outside, Unmade, Emptied, Actors, Goto, connVars,
           taskVars
  <2>3. ASSUME KickTimeout(a) PROVE LockInv'
    BY <2>3, <1>1, SessionLifeAssumption
       DEF KickTimeout, LockInv, Outside, Unmade, Emptied, Actors, Goto, connVars, taskVars
  <2>4. ASSUME KickFailed(a) PROVE LockInv'
    BY <2>4, <1>1, SessionLifeAssumption
       DEF KickFailed, Unlock, LockInv, Outside, Unmade, Emptied, Actors, Goto, connVars,
           taskVars
  <2>5. ASSUME RemovePeer(a) PROVE LockInv'
    BY <2>5, <1>1, SessionLifeAssumption
       DEF RemovePeer, AfterKick, LockInv, Outside, Unmade, Emptied, Actors, Goto,
           connVars, taskVars
  <2>6. ASSUME KickUnroute(a) PROVE LockInv'
    BY <2>6, <1>1, SessionLifeAssumption
       DEF KickUnroute, AfterKick, LockInv, Outside, Unmade, Emptied, Actors, Goto,
           connVars, taskVars
  <2>7. ASSUME KickForget(a) PROVE LockInv'
    BY <2>7, <1>1, SessionLifeAssumption
       DEF KickForget, AfterKick, LockInv, Outside, Unmade, Emptied, Actors, Goto,
           connVars, taskVars
  <2> QED
    BY <1>5, <2>1, <2>2, <2>3, <2>4, <2>5, <2>6, <2>7 DEF KickStep
<1>6. ASSUME NEW c \in Conns, HandshakeStep(c) PROVE LockInv'
  <2>1. ASSUME Drain(c) PROVE LockInv'
    BY <2>1, <1>1, SessionLifeAssumption
       DEF Drain, AfterKick, LockInv, Outside, Unmade, Emptied, Actors, Goto, connVars,
           taskVars
  <2>2. ASSUME Refuse(c) PROVE LockInv'
    BY <2>2, <1>1, SessionLifeAssumption
       DEF Refuse, Unlock, LockInv, Outside, Unmade, Emptied, Actors, Goto, connVars,
           taskVars
  <2>3. ASSUME Create(c) PROVE LockInv'
    BY <2>3, <1>1, SessionLifeAssumption
       DEF Create, LockInv, Outside, Unmade, Emptied, Actors, Goto, connVars, taskVars
  <2>4. ASSUME SetPeer(c) PROVE LockInv'
    BY <2>4, <1>1, SessionLifeAssumption
       DEF SetPeer, LockInv, Outside, Unmade, Emptied, Actors, Goto, connVars, taskVars
  <2>5. ASSUME Finish(c) PROVE LockInv'
    BY <2>5, <1>1, SessionLifeAssumption
       DEF Finish, Unlock, LockInv, Outside, Unmade, Emptied, Actors, Goto, connVars,
           taskVars
  <2> QED
    BY <1>6, <2>1, <2>2, <2>3, <2>4, <2>5 DEF HandshakeStep
<1>7. ASSUME NEW c \in Conns, TaskStep(c) \/ TimerStep(c) PROVE LockInv'
  <2>1. st[c] # "none" /\ st' = [st EXCEPT ![c] = st'[c]] /\ st'[c] # "none"
    BY <1>7, TaskMoves
  <2>2. peers' \in {peers, None} /\ UNCHANGED <<lock, pc>>
    BY <1>7, TaskMoves, TaskFrame
  <2> QED
    BY <1>1, <2>1, <2>2, SessionLifeAssumption DEF LockInv
<1>8. ASSUME NEW c \in Conns, TransferStep(c) \/ ClientStep(c) PROVE LockInv'
  BY <1>2, <1>8, ClientFrame
<1> QED
  BY <1>2, <1>3, <1>4, <1>5, <1>6, <1>7, <1>8 DEF Next, vars

(* The last will is published at most once, and not after a DISCONNECT. *)
LEMMA WillStep ==
    ASSUME TypeOK, LockInv, WillInv, [Next]_vars
    PROVE  WillInv'
<1>1. /\ st \in [Conns -> StLabels] /\ will \in [Conns -> {"armed", "delayed", "done"}]
      /\ pubs \in [Conns -> Nat]
      /\ flags \in [Conns -> SUBSET {"Kicked", "ByAdminKick", "CleanStart", "DisconnectReceived"}]
  BY DEF TypeOK, TaskTypes
<1>2. ASSUME UNCHANGED <<st, flags, will, pubs>> PROVE WillInv'
  BY <1>2 DEF WillInv
<1>3. ASSUME NEW c \in Conns, st' = [st EXCEPT ![c] = st'[c]], UNCHANGED <<flags, will, pubs>>,
             st'[c] \in {"online", "exit"} => st[c] \in {"none", "online", "exit"}, st'[c] # "none"
      PROVE  WillInv'
  BY <1>1, <1>3 DEF WillInv
<1>4. ASSUME AdminStart \/ \E c \in Conns : TryLock(c) \/ (HandshakeStep(c) /\ ~Create(c))
      PROVE  WillInv'
  BY <1>2, <1>4, HandshakeFrame, HandshakeOther
<1>5. ASSUME NEW a \in Actors, KickStep(a) PROVE WillInv'
  BY <1>2, <1>5, KickFrame
<1>6. ASSUME NEW c \in Conns, TransferStep(c) \/ ClientStep(c) PROVE WillInv'
  BY <1>2, <1>6, ClientFrame
<1>7. ASSUME NEW c \in Conns, Create(c) PROVE WillInv'
  <2>1. st[c] = "none"
    BY <1>7 DEF Create, LockInv, Unmade
  <2> QED
    BY <1>1, <1>3, <1>7, <2>1, Zenon DEF Create
<1>8. ASSUME NEW c \in Conns, TaskStep(c) \/ TimerStep(c) PROVE WillInv'
  <2>1. ASSUME OnKick(c) PROVE WillInv'
    BY <1>1, <2>1 DEF OnKick, KickFlags, WillInv
  <2>2. ASSUME OnIgnored(c) PROVE WillInv'
    BY <1>2, <2>2 DEF OnIgnored
  <2>3. ASSUME OnDisconnect(c) PROVE WillInv'
    BY <1>1, <2>3 DEF OnDisconnect, WillInv
  <2>4. ASSUME OnClosed(c) PROVE WillInv'
    BY <1>1, <1>3, <2>4, Zenon DEF OnClosed
  <2>5. ASSUME ExitLoop(c) PROVE WillInv'
    BY <1>1, <2>5 DEF ExitLoop, LastWillEnable, PublishWill, WillInv
  <2>6. ASSUME Leave(c) PROVE WillInv'
    BY <1>1, <1>3, <2>6 DEF Leave, Gone
  <2>7. ASSUME CleanRemove(c) PROVE WillInv'
    BY <1>1, <1>3, <2>7 DEF CleanRemove, Gone
  <2>8. ASSUME CleanUnroute(c) PROVE WillInv'
    BY <1>1, <1>3, <2>8 DEF CleanUnroute, Gone
  <2>9. ASSUME CleanForget(c) PROVE WillInv'
    BY <1>1, <1>3, <2>9, Zenon DEF CleanForget, Gone
  <2>10. ASSUME KeepaliveTimeout(c) PROVE WillInv'
    BY <1>1, <1>3, <2>10, Zenon DEF KeepaliveTimeout
  <2>11. ASSUME WillDelay(c) PROVE WillInv'
    BY <1>1, <2>11 DEF WillDelay, PublishWill, WillInv
  <2>12. ASSUME SessionExpiry(c) PROVE WillInv'
    BY <1>1, <2>12 DEF SessionExpiry, PublishWill, WillInv
  <2> QED
    BY <1>8, <2>1, <2>2, <2>3, <2>4, <2>5, <2>6, <2>7, <2>8, <2>9, <2>10, <2>11, <2>12
       DEF TaskStep, TimerStep
<1> QED
  BY <1>2, <1>4, <1>5, <1>6, <1>7, <1>8 DEF Next, HandshakeStep, vars

(* What was taken out of the registry stays out of it. *)
LEMMA RegistryStep ==
    ASSUME TypeOK, LockInv, RegistryInv, [Next]_vars
    PROVE  RegistryInv'
<1>1. /\ lock \in Conns \cup {None} /\ pc \in [Actors -> PcLabels]
      /\ old \in [Actors -> Conns \cup {None}]
      /\ peers \in Conns \cup {None} /\ st \in [Conns -> StLabels]
  BY DEF TypeOK, HandshakeTypes, RegistryTypes, TaskTypes
<1>2. ASSUME UNCHANGED <<pc, old, peers, st>> PROVE RegistryInv'
  BY <1>2 DEF RegistryInv
<1>3. ASSUME NEW a \in Actors, NEW l, UNCHANGED <<old, peers, st>>, pc' = [pc EXCEPT ![a] = l],
             pc[a] \notin {"set", "done"}, pc[a] = "ack" => l = "done",
             l \in {"kick", "kickwait", "remove"} => pc[a] \in {"init", "kick", "kickwait"},
             l \in {"unroute", "forget", "drain"} => pc[a] = "unroute", l # "init"
      PROVE  RegistryInv'
  <2>1. \A b \in Actors :
          /\ pc'[b] \in {"init", "kick", "kickwait", "remove"} => old[b] = None
          /\ old[b] # None => peers # old[b] /\ pc'[old[b]] \in {"ack", "done"}
          /\ pc'[b] \in {"unroute", "forget", "drain"} => old[b] # None
    BY <1>1, <1>3 DEF RegistryInv, Actors
  <2>2. \A d \in Conns :
          /\ st[d] \in Lasting => \/ peers = d \/ pc'[d] = "set"
                                  \/ \E b \in Actors : old[b] = d
          /\ st[d] \in {"unroute", "forget"} => peers # d /\ pc'[d] \in {"ack", "done"}
    BY <1>1, <1>3 DEF RegistryInv, Actors
  <2> QED
    BY <1>3, <2>1, <2>2 DEF RegistryInv
<1>4. ASSUME AdminStart \/ \E c \in Conns : TryLock(c) PROVE RegistryInv'
  BY <1>3, <1>4 DEF AdminStart, TryLock, MayStart, Goto, Actors, taskVars
<1>5. ASSUME NEW a \in Actors, KickStep(a) PROVE RegistryInv'
  <2>1. ASSUME SendKick(a) PROVE RegistryInv'
    BY <1>3, <2>1, Zenon DEF SendKick, Goto, Actors, taskVars
  <2>2. ASSUME KickAnswered(a) PROVE RegistryInv'
    BY <1>3, <2>2, Zenon DEF KickAnswered, Goto, Actors, taskVars
  <2>3. ASSUME KickTimeout(a) PROVE RegistryInv'
    BY <1>3, <2>3, Zenon DEF KickTimeout, Goto, Actors, taskVars
  <2>4. ASSUME KickFailed(a) PROVE RegistryInv'
    BY <1>3, <2>4, Zenon DEF KickFailed, Goto, Actors, taskVars
  <2>5. ASSUME RemovePeer(a) PROVE RegistryInv'
    BY <2>5, <1>1, SessionLifeAssumption, SMTT(30)
       DEF RemovePeer, AfterKick, LockInv, Outside, RegistryInv, Lasting, Actors, Goto,
           taskVars, connVars
  <2>6. ASSUME KickUnroute(a) PROVE RegistryInv'
    BY <1>3, <2>6 DEF KickUnroute, AfterKick, Goto, Actors, taskVars
  <2>7. ASSUME KickForget(a) PROVE RegistryInv'
    BY <1>3, <2>7, Zenon DEF KickForget, AfterKick, Goto, Actors, taskVars
  <2> QED
    BY <1>5, <2>1, <2>2, <2>3, <2>4, <2>5, <2>6, <2>7 DEF KickStep
<1>6. ASSUME NEW c \in Conns, HandshakeStep(c) PROVE RegistryInv'
  <2>1. ASSUME Drain(c) PROVE RegistryInv'
    BY <1>3, <2>1, Zenon DEF Drain, AfterKick, Goto, Actors, taskVars
  <2>2. ASSUME Refuse(c) PROVE RegistryInv'
    BY <1>3, <2>2, Zenon DEF Refuse, Goto, Actors, taskVars
  <2>3. ASSUME Create(c) PROVE RegistryInv'
    <3>1. /\ pc[c] = "create" /\ st' = [st EXCEPT ![c] = "online"]
          /\ pc' = [pc EXCEPT ![c] = "set"] /\ UNCHANGED <<old, peers>>
      BY <2>3 DEF Create, Goto
    <3>2. \A a \in Actors :
            /\ pc'[a] \in {"init", "kick", "kickwait", "remove"} => old'[a] = None
            /\ old'[a] # None => peers' # old'[a] /\ pc'[old'[a]] \in {"ack", "done"}
            /\ pc'[a] \in {"unroute", "forget", "drain"} => old'[a] # None
      BY <1>1, <3>1 DEF RegistryInv, Actors
    <3>3. \A d \in Conns :
            /\ st'[d] \in Lasting => \/ peers' = d \/ pc'[d] = "set"
                                     \/ \E a \in Actors : old'[a] = d
            /\ st'[d] \in {"unroute", "forget"} => peers' # d /\ pc'[d] \in {"ack", "done"}
      BY <1>1, <3>1 DEF RegistryInv, Lasting, Actors
    <3> QED
      BY <3>2, <3>3 DEF RegistryInv
  <2>4. ASSUME SetPeer(c) PROVE RegistryInv'
    BY <2>4, <1>1, SessionLifeAssumption, SMTT(30)
       DEF SetPeer, LockInv, Emptied, RegistryInv, Lasting, Actors, Goto, taskVars,
           connVars
  <2>5. ASSUME Finish(c) PROVE RegistryInv'
    BY <1>3, <2>5, Zenon DEF Finish, Goto, Actors, taskVars
  <2> QED
    BY <1>6, <2>1, <2>2, <2>3, <2>4, <2>5 DEF HandshakeStep
<1>7. ASSUME NEW c \in Conns, TaskStep(c) \/ TimerStep(c) PROVE RegistryInv'
  <2>1. UNCHANGED <<pc, old>> /\ st' = [st EXCEPT ![c] = st'[c]]
    BY <1>7, TaskFrame, TaskMoves
  <2>2. ASSUME CleanRemove(c) PROVE RegistryInv'
    BY <1>1, <2>1, <2>2, SessionLifeAssumption, SMTT(30)
       DEF CleanRemove, Gone, RegistryInv, Lasting, LockInv, Actors
  <2>3. ASSUME st[c] \in Lasting => st'[c] \in Lasting \cup {"gone"},
               st[c] \in {"unroute", "forget"} => st'[c] \in {"forget", "gone"},
               st[c] \in Lasting \cup {"unroute", "forget"}, peers' = peers
        PROVE  RegistryInv'
    BY <1>1, <2>1, <2>3 DEF RegistryInv, Lasting
  <2>4. ASSUME CleanUnroute(c) PROVE RegistryInv'
    BY <1>1, <2>3, <2>4 DEF CleanUnroute, Gone, Lasting
  <2>5. ASSUME CleanForget(c) PROVE RegistryInv'
    BY <1>1, <2>3, <2>5 DEF CleanForget, Gone, Lasting
  <2>6. ASSUME OnKick(c) PROVE RegistryInv'
    BY <1>1, <2>3, <2>6 DEF OnKick, Lasting
  <2>7. ASSUME OnIgnored(c) \/ OnDisconnect(c) \/ WillDelay(c) PROVE RegistryInv'
    BY <1>2, <2>7 DEF OnIgnored, OnDisconnect, WillDelay, handshakeVars
  <2>8. ASSUME OnClosed(c) PROVE RegistryInv'
    BY <1>1, <2>3, <2>8 DEF OnClosed, Lasting
  <2>9. ASSUME ExitLoop(c) PROVE RegistryInv'
    BY <1>1, <2>3, <2>9 DEF ExitLoop, Lasting
  <2>10. ASSUME Leave(c) PROVE RegistryInv'
    BY <1>1, <2>3, <2>10 DEF Leave, Gone, Lasting
  <2>11. ASSUME KeepaliveTimeout(c) PROVE RegistryInv'
    BY <1>1, <2>3, <2>11 DEF KeepaliveTimeout, Lasting
  <2>12. ASSUME SessionExpiry(c) PROVE RegistryInv'
    BY <1>1, <2>3, <2>12 DEF SessionExpiry, Lasting
  <2> QED
    BY <1>7, <2>2, <2>4, <2>5, <2>6, <2>7, <2>8, <2>9, <2>10, <2>11, <2>12 DEF TaskStep, TimerStep
<1>8. ASSUME NEW c \in Conns, TransferStep(c) \/ ClientStep(c) PROVE RegistryInv'
  BY <1>2, <1>8, ClientFrame
<1> QED
  BY <1>2, <1>4, <1>5, <1>6, <1>7, <1>8 DEF Next, vars

-----------------------------------------------------------------------------
(* The inductive invariant *)
SafeInv == TypeOK /\ LockInv /\ WillInv /\ RegistryInv

(* The initial state satisfies it. *)
LEMMA InitSafe == Init => SafeInv
<1> SUFFICES ASSUME Init PROVE SafeInv
  OBVIOUS
<1>1. TypeOK
  BY SessionLifeAssumption
     DEF Init, Actors, TypeOK, HandshakeTypes, RegistryTypes, TaskTypes, ConnTypes, PcLabels,
         StLabels, SubLabels
<1>2. LockInv /\ WillInv
  BY SessionLifeAssumption DEF Init, Actors, LockInv, WillInv, Outside, Unmade, Emptied
<1>3. RegistryInv
  BY SessionLifeAssumption DEF Init, Actors, RegistryInv, Lasting
<1> QED
  BY <1>1, <1>2, <1>3 DEF SafeInv

(* Types, lock, will and registry are in order in every reachable state.   *)
THEOREM SessionSafe == Spec => []SafeInv
<1>1. SafeInv /\ [Next]_vars => SafeInv'
  BY NextTyped, LockStep, WillStep, RegistryStep DEF SafeInv
<1> QED
  BY InitSafe, <1>1, PTL DEF Spec

(* With HTTP kicks and unanswered kicks too, a serving session that is not *)
(* in the registry was taken out by a handshake or by the HTTP kick, never *)
(* by the clean-up of another session.                                     *)
THEOREM OrphansWereReplaced == Spec => []OrphanWasReplaced
<1>1. SafeInv => OrphanWasReplaced
  BY SessionLifeAssumption
     DEF SafeInv, LockInv, RegistryInv, Lasting, Outside, OrphanWasReplaced, Serving
<1> QED
  BY SessionSafe, <1>1, PTL

(* The last will of a session is published at most once, and never after   *)
(* a DISCONNECT, whichever of kick, delay timer and expiry comes first.    *)
THEOREM WillPublishedOnce == Spec => []WillAtMostOnce
<1>1. SafeInv => WillAtMostOnce
  BY Zenon DEF SafeInv, WillInv, WillAtMostOnce
<1> QED
  BY SessionSafe, <1>1, PTL
=============================================================================
