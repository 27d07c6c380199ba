------------------------- MODULE SessionLife_proofs -------------------------
(***************************************************************************)
(* Safety of the sessions of one client id.  Second part: the kick, which  *)
(* leaves one session serving as long as kicks are answered in time, and   *)
(* the routes of the subscriptions.                                        *)
(***************************************************************************)
EXTENDS SessionRegistry_proofs

-----------------------------------------------------------------------------
(* The inductive invariant *)

\* a session that serves the client or may do so again
MayServe(c) ==
    \/ st[c] \in {"online", "offline"}
    \/ st[c] \in {"exit", "left"} /\ "Kicked" \notin flags[c]

Harmless(p) == p \in Conns => ~MayServe(p)
InChannel(c, m) == \E i \in DOMAIN q[c] : q[c][i] = m

(* The kick, as long as only handshakes kick and get their answer: the one *)
(* Kick of the lock's holder is in the channel of the registered session,  *)
(* and once it is answered that session will not serve again.              *)
FreshKick == \A a \in Actors :
    pc[a] \in {"init", "kick"} => a \notin replied /\ \A c \in Conns : ~InChannel(c, Kick(a))
KickedEnds == \A c \in Conns :
    "Kicked" \in flags[c] => st[c] \notin {"none", "online", "offline"}
ServedFound == \A c \in Conns : MayServe(c) => peers = c \/ pc[c] = "set"
KickPlace == \A a \in Conns : pc[a] = "kickwait" =>
    \A c \in Conns : InChannel(c, Kick(a)) => peers \in {c, None}
KickWorks == \A a \in Conns :
    (pc[a] = "kickwait" /\ a \in replied) \/ pc[a] = "remove" => Harmless(peers)
KickInv ==
    /\ FreshKick /\ KickedEnds
    /\ OrdinaryKicks => ServedFound /\ KickPlace /\ KickWorks

(* The subscription: a relation is made under a registered session and     *)
(* taken away only by the end of that session or its UNSUBSCRIBE.          *)
Unsubscribed(c) == sub[c] \in {"unmap", "end"}
RouteInv ==
    /\ \A c \in Conns :
        pc[c] # "done" => tr[c] = "none" /\ conn[c] = "none" /\ sub[c] = "fresh"
    /\ late = {} =>
        \A c \in Conns :
            /\ pc[c] # "done" => ~subs[c]
            /\ sub[c] # "fresh" => capt[c] = c
            /\ peers = c /\ subs[c] => rel = c \/ Unsubscribed(c)
            /\ peers = c /\ tr[c] = "extend" => rel = c \/ Unsubscribed(c)
            /\ peers = c /\ sub[c] \in {"map", "subscribed", "unroute"} => rel = c

IInv == SafeInv /\ KickInv /\ RouteInv

-----------------------------------------------------------------------------
(* Channels *)

(* What is left of a sequence was in it, one place on. *)
LEMMA TailShifts ==
    ASSUME NEW S, NEW s \in Seq(S), s # << >>, NEW i \in DOMAIN Tail(s)
    PROVE  i + 1 \in DOMAIN s /\ s[i + 1] = Tail(s)[i]
<1>1. Len(s) # 0 /\ Len(Tail(s)) = Len(s) - 1
  OBVIOUS
<1>2. i \in 1 .. Len(s) - 1
  BY <1>1
<1> QED
  BY <1>1, <1>2

(* Reading or dropping a channel adds nothing to it; posting adds one. *)
LEMMA ChannelRead ==
    ASSUME TaskTypes, NEW c \in Conns, q[c] # << >>, q' = [q EXCEPT ![c] = Tail(@)],
           NEW d \in Conns, NEW m, InChannel(d, m)'
    PROVE  InChannel(d, m)
<1>1. PICK i \in DOMAIN q'[d] : q'[d][i] = m
  BY DEF InChannel
<1>2. CASE d = c
  <2>1. q[c] \in Seq(ControlMessages) /\ q'[c] = Tail(q[c])
    BY DEF TaskTypes
  <2>2. i \in DOMAIN Tail(q[c]) /\ Tail(q[c])[i] = m
    BY <1>1, <1>2, <2>1, Zenon
  <2>3. i + 1 \in DOMAIN q[c] /\ q[c][i + 1] = m
    BY <2>1, <2>2, TailShifts, Zenon
  <2> QED
    BY <1>2, <2>3 DEF InChannel
<1>3. CASE d # c
  BY <1>1, <1>3 DEF InChannel, TaskTypes
<1> QED
  BY <1>2, <1>3

LEMMA ChannelDropped ==
    ASSUME TaskTypes, NEW c \in Conns, q' = [q EXCEPT ![c] = << >>],
           NEW d \in Conns, NEW m, InChannel(d, m)'
    PROVE  InChannel(d, m)
BY DEF InChannel, TaskTypes

LEMMA ChannelPosted ==
    ASSUME TaskTypes, NEW c \in Conns, NEW n, q' = [q EXCEPT ![c] = Append(@, n)],
           NEW d \in Conns, NEW m, InChannel(d, m)'
    PROVE  InChannel(d, m) \/ (d = c /\ m = n)
<1>1. PICK i \in DOMAIN q'[d] : q'[d][i] = m
  BY DEF InChannel
<1>2. CASE d = c
  <2>1. q[c] \in Seq(ControlMessages) /\ q'[c] = Append(q[c], n)
    BY DEF TaskTypes
  <2>2. (i \in DOMAIN q[c] /\ q[c][i] = m) \/ m = n
    BY <1>1, <1>2, <2>1
  <2> QED
    BY <1>2, <2>2 DEF InChannel
<1>3. CASE d # c
  BY <1>1, <1>3 DEF InChannel, TaskTypes
<1> QED
  BY <1>2, <1>3

(* The connection task posts no Kick. *)
LEMMA ClientPosts ==
    ASSUME TaskTypes, NEW c \in Conns, ClientDisconnect(c) \/ ConnLost(c),
           NEW a, NEW d \in Conns, InChannel(d, Kick(a))'
    PROVE  InChannel(d, Kick(a))
<1>1. CASE q' = q
  BY <1>1 DEF InChannel
<1>2. ASSUME NEW n, n.type # "Kick", q' = [q EXCEPT ![c] = Append(@, n)]
      PROVE  InChannel(d, Kick(a))
  <2>1. Kick(a).type = "Kick"
    BY DEF Kick
  <2>2. InChannel(d, Kick(a)) \/ Kick(a) = n
    BY <1>2, ChannelPosted, Zenon
  <2> QED
    BY <1>2, <2>1, <2>2
<1>3. Plain("Disconnect").type # "Kick" /\ Plain("Closed").type # "Kick"
  BY DEF Plain
<1> QED
  BY <1>1, <1>2, <1>3 DEF ClientDisconnect, ConnLost, Post

-----------------------------------------------------------------------------
(* The kick *)

(* A session that will not serve again is not brought back by its task. *)
LEMMA TaskServes ==
    ASSUME TypeOK, NEW c \in Conns, TaskStep(c) \/ TimerStep(c),
           NEW d \in Conns, MayServe(d)'
    PROVE  MayServe(d)
<1>1. /\ st \in [Conns -> StLabels]
      /\ flags \in [Conns -> SUBSET {"Kicked", "ByAdminKick", "CleanStart", "DisconnectReceived"}]
  BY DEF TypeOK, TaskTypes
<1>2. ASSUME OnKick(c) PROVE MayServe(d)
  BY <1>2, <1>1 DEF OnKick, KickFlags, MayServe
<1>3. ASSUME OnIgnored(c) PROVE MayServe(d)
  BY <1>3, <1>1 DEF OnIgnored, MayServe
<1>4. ASSUME OnDisconnect(c) PROVE MayServe(d)
  BY <1>4, <1>1 DEF OnDisconnect, MayServe
<1>5. ASSUME OnClosed(c) PROVE MayServe(d)
  BY <1>5, <1>1 DEF OnClosed, MayServe
<1>6. ASSUME ExitLoop(c) PROVE MayServe(d)
  BY <1>6, <1>1 DEF ExitLoop, MayServe
<1>7. ASSUME Leave(c) PROVE MayServe(d)
  BY <1>7, <1>1 DEF Leave, Gone, MayServe
<1>8. ASSUME CleanRemove(c) PROVE MayServe(d)
  BY <1>8, <1>1 DEF CleanRemove, Gone, MayServe
<1>9. ASSUME CleanUnroute(c) PROVE MayServe(d)
  BY <1>9, <1>1 DEF CleanUnroute, Gone, MayServe
<1>10. ASSUME CleanForget(c) PROVE MayServe(d)
  BY <1>10, <1>1 DEF CleanForget, Gone, MayServe
<1>11. ASSUME KeepaliveTimeout(c) PROVE MayServe(d)
  BY <1>11, <1>1 DEF KeepaliveTimeout, MayServe
<1>12. ASSUME WillDelay(c) PROVE MayServe(d)
  BY <1>12, <1>1 DEF WillDelay, MayServe
<1>13. ASSUME SessionExpiry(c) PROVE MayServe(d)
  BY <1>13, <1>1 DEF SessionExpiry, MayServe
<1> QED
  BY <1>2, <1>3, <1>4, <1>5, <1>6, <1>7, <1>8, <1>9, <1>10, <1>11, <1>12, <1>13
     DEF TaskStep, TimerStep

(* The session task posts nothing to the channels. *)
LEMMA TaskReads ==
    ASSUME TypeOK, NEW c \in Conns, TaskStep(c) \/ TimerStep(c),
           NEW d \in Conns, NEW m, InChannel(d, m)'
    PROVE  InChannel(d, m)
<1>1. CASE q' = q
  BY <1>1 DEF InChannel
<1>2. CASE q' = [q EXCEPT ![c] = << >>]
  BY <1>2, ChannelDropped, Zenon DEF TypeOK
<1>3. CASE q[c] # << >> /\ q' = [q EXCEPT ![c] = Tail(@)]
  BY <1>3, ChannelRead, Zenon DEF TypeOK
<1> QED
  BY <1>1, <1>2, <1>3, TaskChannel

(* Actors that started stay started. *)
LEMMA StartedGrows ==
    ASSUME TypeOK, [Next]_vars, OrdinaryKicks'
    PROVE  OrdinaryKicks
<1> DEFINE On == \A a \in Actors : pc[a] # "init" => pc'[a] # "init"
<1>1. pc \in [Actors -> PcLabels]
  BY DEF TypeOK, HandshakeTypes
<1>2. ASSUME pc' = pc PROVE On
  BY <1>2
<1>3. ASSUME NEW a \in Actors, NEW l, l # "init", pc' = [pc EXCEPT ![a] = l] PROVE On
  BY <1>1, <1>3
<1>4. ASSUME NEW a \in Actors, KickStep(a) PROVE On
  BY <1>3, <1>4, KickGoes
<1>5. ASSUME NEW c \in Conns, HandshakeStep(c) PROVE On
  BY <1>3, <1>5, HandshakeGoes DEF Actors
<1>6. ASSUME AdminStart \/ \E c \in Conns : TryLock(c) PROVE On
  BY <1>3, <1>6 DEF AdminStart, TryLock, Goto, Actors
<1>7. ASSUME NEW c \in Conns, \/ TransferStep(c) \/ ClientStep(c) \/ TaskStep(c) \/ TimerStep(c)
      PROVE  On
  BY <1>2, <1>7, TaskFrame, ClientFrame
<1>8. On
  BY <1>2, <1>4, <1>5, <1>6, <1>7 DEF Next, vars
<1> QED
  BY <1>8 DEF OrdinaryKicks, Started

(* A Kick is queued only while its sender waits or has given up. *)
LEMMA FreshKickStep ==
    ASSUME TypeOK, FreshKick, [Next]_vars
    PROVE  FreshKick'
<1>1. pc \in [Actors -> PcLabels]
  BY DEF TypeOK, HandshakeTypes
<1>2. ASSUME UNCHANGED <<q, replied>>,
             \A a \in Actors : pc'[a] \in {"init", "kick"} => pc[a] \in {"init", "kick"}
      PROVE  FreshKick'
  BY <1>2 DEF FreshKick, InChannel
<1>3. ASSUME NEW a \in Actors, NEW l, pc' = [pc EXCEPT ![a] = l],
             l \in {"init", "kick"} => pc[a] = "init", UNCHANGED <<q, replied>>
      PROVE  FreshKick'
  BY <1>1, <1>2, <1>3
<1>4. ASSUME NEW a \in Actors, SendKick(a), peers # None /\ st[peers] # "gone" PROVE FreshKick'
  <2>1. /\ peers \in Conns
        /\ q' = [q EXCEPT ![peers] = Append(@, Kick(a))]
        /\ pc' = [pc EXCEPT ![a] = "kickwait"] /\ replied' = replied
    BY <1>4 DEF SendKick, Goto, TypeOK, RegistryTypes
  <2>2. ASSUME NEW b \in Actors, pc'[b] \in {"init", "kick"}
        PROVE  pc[b] \in {"init", "kick"} /\ Kick(b) # Kick(a)
    BY <1>1, <2>1, <2>2 DEF Kick
  <2>3. ASSUME NEW b \in Actors, pc'[b] \in {"init", "kick"}, NEW c \in Conns,
               InChannel(c, Kick(b))'
        PROVE  FALSE
    <3>1. InChannel(c, Kick(b))
      BY <2>1, <2>2, <2>3, ChannelPosted, Zenon DEF TypeOK
    <3> QED
      BY <2>2, <2>3, <3>1 DEF FreshKick
  <2> QED
    BY <2>1, <2>2, <2>3 DEF FreshKick
<1>5. ASSUME NEW a \in Actors, KickStep(a), ~(SendKick(a) /\ peers # None /\ st[peers] # "gone")
      PROVE  FreshKick'
  <2>1. UNCHANGED <<q, replied>>
    BY <1>5, KickOther DEF SendKick
  <2> QED
    BY <1>3, <1>5, <2>1, KickGoes
<1>6. ASSUME AdminStart \/ \E c \in Conns : TryLock(c) PROVE FreshKick'
  BY <1>3, <1>6, HandshakeFrame DEF AdminStart, TryLock, MayStart, Goto, Actors
<1>7. ASSUME NEW c \in Conns, HandshakeStep(c) PROVE FreshKick'
  BY <1>3, <1>7, HandshakeGoes, HandshakeFrame DEF Actors
<1>8. ASSUME NEW c \in Conns, TaskStep(c) \/ TimerStep(c) PROVE FreshKick'
  <2>1. ASSUME NEW a \in Actors, a \in replied' PROVE a \in replied \/ pc[a] = "kickwait"
    <3>1. CASE OnKick(c)
      BY <2>1, <3>1 DEF OnKick, SenderOpen
    <3>2. CASE ~OnKick(c)
      BY <1>8, <2>1, <3>2, TaskOther
    <3> QED
      BY <3>1, <3>2
  <2>2. pc' = pc
    BY <1>8, TaskFrame
  <2> QED
    BY <1>8, <2>1, <2>2, TaskReads DEF FreshKick
<1>9. ASSUME NEW c \in Conns, TransferStep(c) \/ ClientStep(c) PROVE FreshKick'
  <2>1. UNCHANGED <<pc, replied>>
    BY <1>9, ClientFrame
  <2>2. ASSUME NEW a \in Actors, NEW d \in Conns, InChannel(d, Kick(a))'
        PROVE  InChannel(d, Kick(a))
    <3>1. CASE ClientDisconnect(c) \/ ConnLost(c)
      BY <2>2, <3>1, ClientPosts DEF TypeOK
    <3>2. CASE ~(ClientDisconnect(c) \/ ConnLost(c))
      BY <1>9, <2>2, <3>2, ClientOther DEF InChannel
    <3> QED
      BY <3>1, <3>2
  <2> QED
    BY <2>1, <2>2 DEF FreshKick
<1>10. CASE UNCHANGED vars
  BY <1>2, <1>10 DEF vars
<1> QED
  BY <1>4, <1>5, <1>6, <1>7, <1>8, <1>9, <1>10 DEF Next, KickStep

(* A session that was kicked is on its way out. *)
LEMMA KickedEndsStep ==
    ASSUME TypeOK, LockInv, KickedEnds, [Next]_vars
    PROVE  KickedEnds'
<1>1. /\ st \in [Conns -> StLabels]
      /\ flags \in [Conns -> SUBSET {"Kicked", "ByAdminKick", "CleanStart", "DisconnectReceived"}]
  BY DEF TypeOK, TaskTypes
<1>2. ASSUME UNCHANGED <<st, flags>> PROVE KickedEnds'
  BY <1>2 DEF KickedEnds
<1>3. ASSUME AdminStart \/ \E c \in Conns : TryLock(c) \/ (HandshakeStep(c) /\ ~Create(c))
      PROVE  KickedEnds'
  BY <1>2, <1>3, HandshakeFrame, HandshakeOther
<1>4. ASSUME NEW a \in Actors, KickStep(a) PROVE KickedEnds'
  BY <1>2, <1>4, KickFrame
<1>5. ASSUME NEW c \in Conns, TransferStep(c) \/ ClientStep(c) PROVE KickedEnds'
  BY <1>2, <1>5, ClientFrame
<1>6. ASSUME NEW c \in Conns, Create(c) PROVE KickedEnds'
  <2>1. st[c] = "none"
    BY <1>6 DEF Create, LockInv, Unmade
  <2> QED
    BY <1>1, <1>6, <2>1 DEF Create, KickedEnds
<1>7. ASSUME NEW c \in Conns, TaskStep(c) \/ TimerStep(c) PROVE KickedEnds'
  <2>1. ASSUME OnKick(c) PROVE KickedEnds'
    BY <2>1, <1>1 DEF OnKick, KickFlags, KickedEnds
  <2>2. ASSUME OnIgnored(c) PROVE KickedEnds'
    BY <2>2, <1>1 DEF OnIgnored, KickedEnds
  <2>3. ASSUME OnDisconnect(c) PROVE KickedEnds'
    BY <2>3, <1>1 DEF OnDisconnect, KickedEnds
  <2>4. ASSUME OnClosed(c) PROVE KickedEnds'
    BY <2>4, <1>1 DEF OnClosed, KickedEnds
  <2>5. ASSUME ExitLoop(c) PROVE KickedEnds'
    BY <2>5, <1>1 DEF ExitLoop, KickedEnds
  <2>6. ASSUME Leave(c) PROVE KickedEnds'
    BY <2>6, <1>1 DEF Leave, Gone, KickedEnds
  <2>7. ASSUME CleanRemove(c) PROVE KickedEnds'
    BY <2>7, <1>1 DEF CleanRemove, Gone, KickedEnds
  <2>8. ASSUME CleanUnroute(c) PROVE KickedEnds'
    BY <2>8, <1>1 DEF CleanUnroute, Gone, KickedEnds
  <2>9. ASSUME CleanForget(c) PROVE KickedEnds'
    BY <2>9, <1>1 DEF CleanForget, Gone, KickedEnds
  <2>10. ASSUME KeepaliveTimeout(c) PROVE KickedEnds'
    BY <2>10, <1>1 DEF KeepaliveTimeout, KickedEnds
  <2>11. ASSUME WillDelay(c) PROVE KickedEnds'
    BY <2>11, <1>1 DEF WillDelay, KickedEnds
  <2>12. ASSUME SessionExpiry(c) PROVE KickedEnds'
    BY <2>12, <1>1 DEF SessionExpiry, KickedEnds
  <2> QED
    BY <1>7, <2>1, <2>2, <2>3, <2>4, <2>5, <2>6, <2>7, <2>8, <2>9, <2>10, <2>11, <2>12
       DEF TaskStep, TimerStep
<1> QED
  BY <1>2, <1>3, <1>4, <1>5, <1>6, <1>7 DEF Next, HandshakeStep, vars

(* Only Create makes a session serve. *)
LEMMA ServesFrame ==
    ASSUME UNCHANGED <<st, flags>>, NEW c
    PROVE  MayServe(c)' <=> MayServe(c)
BY DEF MayServe

(* In ordinary circumstances the one who kicks is a handshake that holds   *)
(* the lock, and no kick runs out of time.                                 *)
LEMMA KickerLocks ==
    ASSUME TypeOK, LockInv, OrdinaryKicks, NEW a \in Actors, pc[a] \notin Outside
    PROVE  a \in Conns /\ lock = a /\ a \notin Unanswered
BY SessionLifeAssumption DEF OrdinaryKicks, Started, Outside, LockInv, Actors

(* What the three parts of the kick's promise need of a step that leaves   *)
(* the sessions, the registry, the channels and the answers alone.         *)
LEMMA MoveKeeps ==
    ASSUME pc \in [Actors -> PcLabels], ServedFound, KickPlace, KickWorks,
           NEW a \in Actors, NEW l, pc' = [pc EXCEPT ![a] = l],
           UNCHANGED <<q, replied, peers, st, flags>>, pc[a] # "set", l # "kickwait",
           l = "remove" => Harmless(peers)
    PROVE  ServedFound' /\ KickPlace' /\ KickWorks'
<1>1. \A b, d \in Conns : InChannel(d, Kick(b))' => InChannel(d, Kick(b))
  BY DEF InChannel
<1>2. \A d : MayServe(d)' <=> MayServe(d)
  BY ServesFrame
<1>3. ServedFound'
  BY <1>2 DEF ServedFound, Actors
<1>4. KickPlace'
  BY <1>1 DEF KickPlace, Actors
<1>5. KickWorks'
  BY <1>2 DEF KickWorks, Harmless, Actors
<1> QED
  BY <1>3, <1>4, <1>5

(* The kick keeps one session serving, found in the registry.              *)
LEMMA KickStepKeeps ==
    ASSUME TypeOK, LockInv, KickInv, OrdinaryKicks, NEW a \in Actors, KickStep(a)
    PROVE  ServedFound' /\ KickPlace' /\ KickWorks'
<1> DEFINE Kept == ServedFound' /\ KickPlace' /\ KickWorks'
<1>1. /\ pc \in [Actors -> PcLabels] /\ peers \in Conns \cup {None} /\ TaskTypes
      /\ FreshKick /\ ServedFound /\ KickPlace /\ KickWorks
  BY DEF TypeOK, HandshakeTypes, RegistryTypes, KickInv
<1>2. a \in Conns /\ lock = a /\ a \notin Unanswered
  BY KickerLocks, KickGoes DEF KickPlaces, Outside
<1>3. \A b \in Conns : pc[b] \in {"kick", "kickwait", "remove", "set"} => b = a
  BY <1>2 DEF LockInv, Outside
<1>4. \A c : MayServe(c)' <=> MayServe(c)
  BY KickFrame, ServesFrame
<1>5. ASSUME NEW l, pc' = [pc EXCEPT ![a] = l], UNCHANGED <<q, replied, peers>>, pc[a] # "set",
             l # "kickwait", l = "remove" => Harmless(peers)
      PROVE  Kept
  BY <1>1, <1>5, KickFrame, MoveKeeps, Zenon
<1>6. ASSUME SendKick(a), peers # None /\ st[peers] # "gone" PROVE Kept
  <2>1. /\ peers \in Conns /\ pc[a] = "kick"
        /\ q' = [q EXCEPT ![peers] = Append(@, Kick(a))]
        /\ pc' = [pc EXCEPT ![a] = "kickwait"] /\ UNCHANGED <<replied, peers>>
    BY <1>1, <1>6 DEF SendKick, Goto
  <2>2. a \notin replied /\ \A c \in Conns : ~InChannel(c, Kick(a))
    BY <1>1, <2>1 DEF FreshKick
  <2>3. \A c \in Conns : InChannel(c, Kick(a))' => c = peers
    BY <1>1, <2>1, <2>2, ChannelPosted, Zenon
  <2>4. ServedFound'
    BY <1>1, <1>3, <1>4, <2>1 DEF ServedFound, Actors
  <2>5. KickPlace'
    BY <1>1, <1>3, <2>1, <2>3 DEF KickPlace, Actors
  <2>6. KickWorks'
    BY <1>1, <1>3, <2>1, <2>2 DEF KickWorks, Actors
  <2> QED
    BY <2>4, <2>5, <2>6
<1>7. ASSUME SendKick(a), ~(peers # None /\ st[peers] # "gone") PROVE Kept
  <2>1. Harmless(peers)
    BY <1>7, SessionLifeAssumption DEF Harmless, MayServe
  <2> QED
    BY <1>5, <1>7, <2>1, Zenon DEF SendKick, Goto
<1>8. ASSUME KickAnswered(a) PROVE Kept
  <2>1. Harmless(peers)
    BY <1>1, <1>2, <1>8 DEF KickAnswered, KickWorks
  <2> QED
    BY <1>5, <1>8, <2>1, Zenon DEF KickAnswered, Goto, taskVars
<1>9. ASSUME KickFailed(a) PROVE Kept
  BY <1>5, <1>9, Zenon DEF KickFailed, Goto, taskVars
<1>10. ASSUME KickTimeout(a) PROVE Kept
  BY <1>2, <1>10 DEF KickTimeout
<1>11. ASSUME RemovePeer(a) PROVE Kept
  <2>1. /\ pc[a] = "remove" /\ peers' = None /\ UNCHANGED <<q, replied>>
        /\ pc' = [pc EXCEPT ![a] = pc'[a]] /\ pc'[a] \notin {"kickwait", "remove"}
    BY <1>1, <1>11 DEF RemovePeer, AfterKick, Goto, taskVars
  <2>2. ServedFound'
    BY <1>1, <1>2, <1>4, <2>1 DEF ServedFound, KickWorks, Harmless, Actors
  <2>3. \A b \in Conns : pc'[b] \notin {"kickwait", "remove"}
    BY <1>1, <1>3, <2>1 DEF Actors
  <2>4. KickPlace' /\ KickWorks'
    BY <2>3 DEF KickPlace, KickWorks
  <2> QED
    BY <2>2, <2>4
<1>12. ASSUME KickUnroute(a) PROVE Kept
  <2>1. \/ pc' = [pc EXCEPT ![a] = "forget"] \/ pc' = [pc EXCEPT ![a] = "create"]
        \/ pc' = [pc EXCEPT ![a] = "done"]
    BY <1>12 DEF KickUnroute, AfterKick, Goto
  <2> QED
    BY <1>5, <1>12, <2>1 DEF KickUnroute, taskVars
<1>13. ASSUME KickForget(a) PROVE Kept
  BY <1>5, <1>13, Zenon DEF KickForget, AfterKick, Goto, taskVars
<1> QED
  BY <1>6, <1>7, <1>8, <1>9, <1>10, <1>11, <1>12, <1>13 DEF KickStep

(* So do the other steps of a handshake. *)
LEMMA HandshakeKeeps ==
    ASSUME TypeOK, LockInv, KickInv, OrdinaryKicks, NEW c \in Conns,
           TryLock(c) \/ HandshakeStep(c)
    PROVE  ServedFound' /\ KickPlace' /\ KickWorks'
<1> DEFINE Kept == ServedFound' /\ KickPlace' /\ KickWorks'
<1>1. /\ pc \in [Actors -> PcLabels] /\ c \in Actors /\ st \in [Conns -> StLabels]
      /\ ServedFound /\ KickPlace /\ KickWorks
  BY DEF TypeOK, HandshakeTypes, TaskTypes, KickInv, Actors
<1>2. ASSUME NEW l, pc' = [pc EXCEPT ![c] = l], UNCHANGED <<q, replied, peers, st, flags>>,
             pc[c] # "set", l \notin {"kickwait", "remove"}
      PROVE  Kept
  BY <1>1, <1>2, MoveKeeps, Zenon
<1>3. ASSUME TryLock(c) PROVE Kept
  BY <1>2, <1>3 DEF TryLock, MayStart, Goto, taskVars
<1>4. ASSUME Drain(c) \/ Refuse(c) \/ Finish(c) PROVE Kept
  BY <1>2, <1>4 DEF Drain, Refuse, Finish, AfterKick, Goto, taskVars
<1>5. ASSUME pc[c] \in {"create", "set"} PROVE \A b \in Conns : pc[b] \notin {"kickwait", "remove"}
  BY <1>5 DEF LockInv, Outside
<1>6. ASSUME Create(c) PROVE Kept
  <2>1. /\ pc[c] = "create" /\ st' = [st EXCEPT ![c] = "online"]
        /\ pc' = [pc EXCEPT ![c] = "set"] /\ UNCHANGED <<q, replied, peers, flags>>
    BY <1>6 DEF Create, Goto
  <2>2. ASSUME NEW d \in Conns, d # c PROVE MayServe(d)' <=> MayServe(d)
    BY <1>1, <2>1, <2>2 DEF MayServe
  <2>3. \A b \in Conns : pc'[b] \notin {"kickwait", "remove"}
    BY <1>1, <1>5, <2>1 DEF Actors
  <2>4. KickPlace' /\ KickWorks'
    BY <2>3 DEF KickPlace, KickWorks
  <2>5. ServedFound'
    BY <1>1, <2>1, <2>2 DEF ServedFound, Actors
  <2> QED
    BY <2>4, <2>5
<1>7. ASSUME SetPeer(c) PROVE Kept
  <2>1. /\ pc[c] = "set" /\ peers = None /\ peers' = c /\ lock = c
        /\ pc' = [pc EXCEPT ![c] = "ack"] /\ UNCHANGED <<q, replied, st, flags>>
    BY <1>7 DEF SetPeer, LockInv, Outside, Emptied, Goto, taskVars
  <2>2. \A d : MayServe(d)' <=> MayServe(d)
    BY <2>1, ServesFrame
  <2>3. \A b \in Conns : pc'[b] \notin {"kickwait", "remove"}
    BY <1>1, <1>5, <2>1 DEF Actors
  <2>4. \A d \in Conns : pc[d] = "set" => d = c
    BY <2>1 DEF LockInv, Outside
  <2>5. KickPlace' /\ KickWorks'
    BY <2>3 DEF KickPlace, KickWorks
  <2>6. ServedFound'
    BY <1>1, <2>1, <2>2, <2>4, SessionLifeAssumption DEF ServedFound
  <2> QED
    BY <2>5, <2>6
<1> QED
  BY <1>3, <1>4, <1>6, <1>7 DEF HandshakeStep

(* So does the session task, which makes the kicked session harmless. *)
LEMMA TaskKeeps ==
    ASSUME TypeOK, LockInv, KickInv, OrdinaryKicks, NEW c \in Conns,
           TaskStep(c) \/ TimerStep(c)
    PROVE  ServedFound' /\ KickPlace' /\ KickWorks'
<1>1. ServedFound /\ KickPlace /\ KickWorks
  BY DEF KickInv
<1>2. /\ pc' = pc
      /\ peers' = peers \/ (st[c] = "clean" /\ peers = c /\ peers' = None)
  BY TaskMoves, TaskFrame
<1>3. \A d \in Conns : MayServe(d)' => MayServe(d)
  BY TaskServes
<1>4. \A b, d \in Conns : InChannel(d, Kick(b))' => InChannel(d, Kick(b))
  BY TaskReads
<1>5. ServedFound'
  BY <1>1, <1>2, <1>3 DEF ServedFound, MayServe
<1>6. KickPlace'
  BY <1>1, <1>2, <1>4 DEF KickPlace
<1>7. KickWorks'
  <2>1. CASE OnKick(c)
    <3> DEFINE a == Head(q[c]).by
    <3>1. /\ q[c] # << >> /\ Head(q[c]).type = "Kick" /\ SenderOpen(a)
          /\ replied' = replied \cup {a} /\ peers' = peers
      BY <2>1 DEF OnKick
    <3>2. "Kicked" \in flags'[c] /\ st'[c] \notin {"online", "offline"}
      BY <2>1 DEF OnKick, KickFlags, TypeOK, TaskTypes
    <3>3. 1 \in DOMAIN q[c] /\ q[c][1] = Head(q[c]) /\ q[c][1] \in ControlMessages
      BY <3>1 DEF TypeOK, TaskTypes
    <3>4. a \in Actors /\ q[c][1] = Kick(a)
      BY <3>1, <3>3 DEF ControlMessages, Kick
    <3>5. InChannel(c, Kick(a))
      BY <3>3, <3>4 DEF InChannel
    <3>6. a \in Conns /\ pc[a] = "kickwait"
      BY <3>1, <3>4, KickerLocks DEF SenderOpen, Outside
    <3>7. peers \in {c, None}
      BY <1>1, <3>5, <3>6 DEF KickPlace
    <3>8. ~MayServe(c)'
      BY <3>2 DEF MayServe
    <3> QED
      BY <3>1, <3>7, <3>8, SessionLifeAssumption DEF KickWorks, Harmless
  <2>2. CASE ~OnKick(c)
    <3>1. replied' = replied
      BY <2>2, TaskOther
    <3> QED
      BY <1>1, <1>2, <1>3, <3>1, SessionLifeAssumption DEF KickWorks, Harmless
  <2> QED
    BY <2>1, <2>2
<1> QED
  BY <1>5, <1>6, <1>7

(* So does the connection task. *)
LEMMA ClientKeeps ==
    ASSUME TypeOK, KickInv, OrdinaryKicks, NEW c \in Conns, TransferStep(c) \/ ClientStep(c)
    PROVE  ServedFound' /\ KickPlace' /\ KickWorks'
<1>1. ServedFound /\ KickPlace /\ KickWorks
  BY DEF KickInv
<1>2. UNCHANGED <<pc, replied, peers>> /\ \A d : MayServe(d)' <=> MayServe(d)
  BY ClientFrame, ServesFrame
<1>3. \A b, d \in Conns : InChannel(d, Kick(b))' => InChannel(d, Kick(b))
  <2>1. CASE ClientDisconnect(c) \/ ConnLost(c)
    BY <2>1, ClientPosts DEF TypeOK
  <2>2. CASE ~(ClientDisconnect(c) \/ ConnLost(c))
    BY <2>2, ClientOther DEF InChannel
  <2> QED
    BY <2>1, <2>2
<1> QED
  BY <1>1, <1>2, <1>3 DEF ServedFound, KickPlace, KickWorks, Harmless

(* Every step keeps the promises of the kick. *)
LEMMA KickInvStep ==
    ASSUME TypeOK, LockInv, KickInv, [Next]_vars
    PROVE  KickInv'
<1>1. FreshKick' /\ KickedEnds'
  BY FreshKickStep, KickedEndsStep DEF KickInv
<1>2. ASSUME OrdinaryKicks' PROVE ServedFound' /\ KickPlace' /\ KickWorks'
  <2>1. OrdinaryKicks
    BY <1>2, StartedGrows
  <2>2. ~AdminStart
    BY <1>2 DEF AdminStart, Goto, OrdinaryKicks, Started, Actors, TypeOK, HandshakeTypes
  <2>3. CASE UNCHANGED vars
    BY <2>1, <2>3 DEF vars, KickInv, ServedFound, KickPlace, KickWorks, Harmless, MayServe,
                      InChannel
  <2> QED
    BY <2>1, <2>2, <2>3, KickStepKeeps, HandshakeKeeps, TaskKeeps, ClientKeeps DEF Next
<1> QED
  BY <1>1, <1>2 DEF KickInv

-----------------------------------------------------------------------------
(* A subscription keeps its route. *)
LEMMA RouteStep ==
    ASSUME TypeOK, LockInv, RegistryInv, RouteInv, [Next]_vars
    PROVE  RouteInv'
<1>1. /\ pc \in [Actors -> PcLabels] /\ old \in [Actors -> Conns \cup {None}]
      /\ RegistryTypes /\ ConnTypes
  BY DEF TypeOK, HandshakeTypes
<1>2. ASSUME UNCHANGED <<connVars, tr, peers, rel, subs, pc>> PROVE RouteInv'
  BY <1>2 DEF RouteInv, Unsubscribed, connVars
<1>3. ASSUME UNCHANGED <<conn, sub, capt, late, tr, peers, rel, subs>>, NEW a \in Actors,
             NEW l, pc' = [pc EXCEPT ![a] = l], pc[a] # "done", a \in Conns => l # "done"
      PROVE  RouteInv'
  BY <1>1, <1>3 DEF RouteInv, Unsubscribed, Actors
<1>4. ASSUME AdminStart \/ \E c \in Conns : TryLock(c) PROVE RouteInv'
  BY <1>3, <1>4, SessionLifeAssumption
     DEF AdminStart, TryLock, MayStart, Goto, Actors, connVars
<1>5. ASSUME NEW a \in Actors, KickStep(a) PROVE RouteInv'
  <2>1. UNCHANGED <<conn, sub, capt, late, tr>>
    BY <1>5, KickFrame
  <2>2. PICK l : /\ pc' = [pc EXCEPT ![a] = l] /\ pc[a] # "done" /\ pc[a] # "ack"
                 /\ a \in Conns => l # "done"
    BY <1>5, KickGoes, SessionLifeAssumption DEF KickPlaces
  <2>3. ASSUME UNCHANGED <<peers, rel, subs>> PROVE RouteInv'
    BY <1>3, <2>1, <2>2, <2>3, Zenon
  <2>4. ASSUME RemovePeer(a) PROVE RouteInv'
    <3>1. peers' = None /\ UNCHANGED <<rel, subs>>
      BY <2>4 DEF RemovePeer
    <3> QED
      BY <1>1, <2>1, <2>2, <3>1, SessionLifeAssumption DEF RouteInv, Actors
  <2>5. ASSUME KickUnroute(a) PROVE RouteInv'
    <3>1. old[a] # peers /\ UNCHANGED <<peers, subs>> /\ (rel' = rel \/ (rel = old[a] /\ rel' = None))
      BY <2>5 DEF KickUnroute, RouterRemove, RegistryInv
    <3> QED
      BY <1>1, <2>1, <2>2, <3>1 DEF RouteInv, Unsubscribed, Actors
  <2>6. ASSUME KickForget(a) PROVE RouteInv'
    <3>1. UNCHANGED <<peers, rel>> /\ \A c \in Conns : subs'[c] => subs[c]
      BY <1>1, <2>6 DEF KickForget, PeerForget, RegistryTypes
    <3> QED
      BY <1>1, <2>1, <2>2, <3>1 DEF RouteInv, Unsubscribed, Actors
  <2> QED
    BY <1>5, <2>3, <2>4, <2>5, <2>6, KickOther
<1>6. ASSUME NEW c \in Conns, HandshakeStep(c) PROVE RouteInv'
  <2>1. ASSUME Drain(c) PROVE RouteInv'
    <3>1. /\ UNCHANGED <<conn, sub, capt, late, tr, peers, rel>> /\ pc[c] # "done"
          /\ pc' = [pc EXCEPT ![c] = "create"] /\ \A d \in Conns : subs'[d] => subs[d]
      BY <1>1, <2>1, Zenon, SessionLifeAssumption
         DEF Drain, AfterKick, Goto, RegistryTypes, connVars
    <3>2. \A d \in Conns : pc'[d] = "done" <=> pc[d] = "done"
      BY <1>1, <3>1 DEF Actors
    <3> QED
      BY <3>1, <3>2 DEF RouteInv, Unsubscribed
  <2>2. ASSUME Refuse(c) PROVE RouteInv'
    BY <1>3, <2>2, Zenon DEF Refuse, Goto, connVars, Actors
  <2>3. ASSUME Create(c) PROVE RouteInv'
    BY <1>3, <2>3, Zenon DEF Create, Goto, connVars, Actors
  <2>4. ASSUME SetPeer(c) PROVE RouteInv'
    BY <1>1, <2>4 DEF SetPeer, Goto, connVars, Actors, RouteInv, Unsubscribed
  <2>5. ASSUME Finish(c) PROVE RouteInv'
    BY <1>1, <2>5
       DEF Finish, Goto, Actors, RouteInv, Unsubscribed, RegistryTypes, ConnTypes
  <2> QED
    BY <1>6, <2>1, <2>2, <2>3, <2>4, <2>5 DEF HandshakeStep
<1>7. ASSUME NEW c \in Conns, TransferStep(c) \/ ClientStep(c) PROVE RouteInv'
  <2>1. UNCHANGED <<pc, peers>>
    BY <1>7, ClientFrame
  <2>2. ASSUME TransferRoute(c) PROVE RouteInv'
    BY <2>2, <1>1, <2>1, SessionLifeAssumption
       DEF TransferRoute, NoteLate, RouteInv, Unsubscribed, RegistryTypes, ConnTypes
  <2>3. ASSUME TransferExtend(c) PROVE RouteInv'
    BY <2>3, <1>1, <2>1, SessionLifeAssumption
       DEF TransferExtend, NoteLate, RouteInv, Unsubscribed, RegistryTypes, ConnTypes
  <2>4. ASSUME Subscribe(c) PROVE RouteInv'
    BY <2>4, <1>1, <2>1, SessionLifeAssumption
       DEF Subscribe, SubStep, NoteLate, RouteInv, Unsubscribed, RegistryTypes, ConnTypes
  <2>5. ASSUME SubscribeRoute(c) PROVE RouteInv'
    BY <2>5, <1>1, <2>1, SessionLifeAssumption
       DEF SubscribeRoute, SubStep, NoteLate, RouteInv, Unsubscribed, RegistryTypes,
           ConnTypes
  <2>6. ASSUME SubscribeMap(c) PROVE RouteInv'
    BY <2>6, <1>1, <2>1, SessionLifeAssumption
       DEF SubscribeMap, SubStep, NoteLate, RouteInv, Unsubscribed, RegistryTypes,
           ConnTypes
  <2>7. ASSUME Unsubscribe(c) PROVE RouteInv'
    BY <2>7, <1>1, <2>1, SessionLifeAssumption
       DEF Unsubscribe, SubStep, NoteLate, RouteInv, Unsubscribed, RegistryTypes, ConnTypes
  <2>8. ASSUME UnsubscribeRoute(c) PROVE RouteInv'
    BY <2>8, <1>1, <2>1, SessionLifeAssumption
       DEF UnsubscribeRoute, SubStep, RouterRemove, NoteLate, RouteInv, Unsubscribed,
           RegistryTypes, ConnTypes
  <2>9. ASSUME UnsubscribeMap(c) PROVE RouteInv'
    BY <2>9, <1>1, <2>1, SessionLifeAssumption
       DEF UnsubscribeMap, SubStep, NoteLate, RouteInv, Unsubscribed, RegistryTypes,
           ConnTypes
  <2>10. ASSUME ClientDisconnect(c) \/ ConnLost(c) PROVE RouteInv'
    <3>1. /\ UNCHANGED <<sub, capt, late, tr, rel, subs>> /\ conn[c] # "none"
          /\ conn' = [conn EXCEPT ![c] = conn'[c]]
      BY <1>1, <2>10 DEF ClientDisconnect, ConnLost, ConnTypes
    <3> QED
      BY <1>1, <2>1, <3>1 DEF RouteInv, Unsubscribed, ConnTypes
  <2> QED
    BY <1>7, <2>2, <2>3, <2>4, <2>5, <2>6, <2>7, <2>8, <2>9, <2>10 DEF TransferStep, ClientStep
<1>8. ASSUME NEW c \in Conns, TaskStep(c) \/ TimerStep(c) PROVE RouteInv'
  <2>1. UNCHANGED <<pc, conn, sub, capt, late, tr>>
    BY <1>8, TaskFrame
  <2>2. ASSUME CleanRemove(c) PROVE RouteInv'
    <3>1. (peers' = peers \/ peers' = None) /\ UNCHANGED <<rel, subs>>
      BY <2>2 DEF CleanRemove
    <3> QED
      BY <2>1, <3>1, SessionLifeAssumption DEF RouteInv, Unsubscribed
  <2>3. ASSUME CleanUnroute(c) PROVE RouteInv'
    <3>1. c # peers /\ UNCHANGED <<peers, subs>> /\ (rel' = rel \/ (rel = c /\ rel' = None))
      BY <2>3 DEF CleanUnroute, RouterRemove, RegistryInv
    <3> QED
      BY <2>1, <3>1 DEF RouteInv, Unsubscribed
  <2>4. ASSUME CleanForget(c) PROVE RouteInv'
    <3>1. UNCHANGED <<peers, rel>> /\ \A d \in Conns : subs'[d] => subs[d]
      BY <1>1, <2>4 DEF CleanForget, PeerForget, RegistryTypes
    <3> QED
      BY <2>1, <3>1, Zenon DEF RouteInv, Unsubscribed
  <2> QED
    BY <1>2, <1>8, <2>1, <2>2, <2>3, <2>4, TaskOther DEF connVars
<1> QED
  BY <1>2, <1>4, <1>5, <1>6, <1>7, <1>8 DEF Next, vars, connVars

-----------------------------------------------------------------------------
(* The initial state satisfies the invariant. *)
LEMMA InitIInv == Init => IInv
<1> SUFFICES ASSUME Init PROVE IInv
  OBVIOUS
<1>1. RouteInv
  BY DEF Init, Actors, RouteInv, Unsubscribed
<1>2. KickInv
  BY DEF Init, Actors, KickInv, FreshKick, KickedEnds, ServedFound, KickPlace, KickWorks,
         InChannel, MayServe
<1> QED
  BY <1>1, <1>2, InitSafe DEF IInv

(* The inductive invariant holds in every reachable state. *)
THEOREM SessionInvariant == Spec => []IInv
<1>1. IInv /\ [Next]_vars => IInv'
  BY NextTyped, LockStep, WillStep, RegistryStep, KickInvStep, RouteStep DEF IInv, SafeInv
<1> QED
  BY InitIInv, <1>1, PTL DEF Spec

(* As long as kicks are answered in time, at most one session of a client  *)
(* id serves it, and between handshakes that one is in the registry: the   *)
(* kick of _handshake, LockEntry::kick and the session task together.      *)
THEOREM ClientHasOneSession == Spec => []OneSessionFound
<1>1. IInv => OneSessionFound
  <2> SUFFICES ASSUME IInv, OrdinaryKicks PROVE OneSessionFound
    BY DEF OneSessionFound, OneSession, ServingRegistered
  <2>1. \A c \in Conns : Serving(c) => peers = c \/ pc[c] = "set"
    BY DEF IInv, KickInv, ServedFound, MayServe, Serving
  <2>2. \A c \in Conns : pc[c] = "set" => lock = c /\ peers = None
    BY DEF IInv, SafeInv, LockInv, Outside, Emptied
  <2> QED
    BY <2>1, <2>2, SessionLifeAssumption DEF OneSessionFound, OneSession, ServingRegistered
<1> QED
  BY SessionInvariant, <1>1, PTL

(* The subscription of the registered session keeps its route through any  *)
(* takeover, transfer, clean-up and kick, as long as no request or transfer *)
(* runs after its session was replaced.                                    *)
THEOREM SubscriptionKeepsRoute == Spec => []SubscribedHasRoute
<1>1. IInv => SubscribedHasRoute
  BY DEF IInv, RouteInv, Unsubscribed, SubscribedHasRoute
<1> QED
  BY SessionInvariant, <1>1, PTL
=============================================================================
