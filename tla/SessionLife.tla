---------------------------- MODULE SessionLife -----------------------------
(***************************************************************************)
(* The life of the sessions of one client id on one node: the CONNECT      *)
(* handshake (_handshake of rmqtt/src/broker/v3.rs, the same in v5.rs)     *)
(* with the registry of rmqtt/src/broker/default.rs (LockEntry), the       *)
(* session task (SessionState::start, offline_start, clean and             *)
(* transfer_session_state of session.rs), the connection task that serves  *)
(* SUBSCRIBE and UNSUBSCRIBE, and the kick of the HTTP API.                *)
(*                                                                         *)
(* Every CONNECT is a member of Conns: a session is named by the connection*)
(* that made it, as an Id is.  One topic filter stands for all.  A task    *)
(* may be interrupted by the others wherever the code awaits.              *)
(***************************************************************************)
EXTENDS Integers, Sequences, FiniteSets

CONSTANTS
    Conns,          \* connections of the client
    Casts,          \* bound: the sets of actors that may meet, in any order
    CleanStarts,    \* those with clean_session (v3) or clean_start (v5)
    Ephemeral,      \* those whose session ends with the connection
    WillDelays,     \* those whose last will has a delay
    Subscribers,    \* those that subscribe
    Unsubscribers,  \* those of them that unsubscribe again
    Polite,         \* those that may send DISCONNECT before they close
    None,           \* no session
    Admin,          \* the HTTP API, kicking the client once
    Unanswered,     \* actors whose Kick may stay unanswered for 5 seconds
    Refusable       \* those whose keep_alive or Session::new may fail after the kick

ASSUME SessionLifeAssumption ==
    /\ CleanStarts \subseteq Conns /\ Ephemeral \subseteq Conns /\ WillDelays \subseteq Conns
    /\ Subscribers \subseteq Conns /\ Unsubscribers \subseteq Subscribers
    /\ Polite \subseteq Conns
    /\ None \notin Conns /\ Admin \notin Conns /\ Admin # None
    /\ Casts \subseteq SUBSET (Conns \cup {Admin})
    /\ Unanswered \subseteq Conns \cup {Admin} /\ Refusable \subseteq Conns

Actors == Conns \cup {Admin}
CleanStart(a) == a \in CleanStarts \cup {Admin}

VARIABLES
    lock,       \* holder of the client's lock (ClientLock shows it is one)
    pc,         \* where the handshake or the HTTP request is
    old,        \* the session it took out of the registry
    info,       \* whether its offline info carries the subscription
    replied,    \* actors whose Kick was answered
    peers,      \* registry entry of the client id
    rel,        \* id in the router's relation for the topic filter
    st,         \* session task
    q,          \* control messages in the session's channel
    flags,      \* StateFlags
    will,       \* "armed", "delayed", "done"
    pubs,       \* number of times the last will was published
    conn,       \* network connection
    sub,        \* connection task: progress of its SUBSCRIBE, UNSUBSCRIBE
    capt,       \* the session it read from the registry
    late,       \* history: connections that ran a request or their transfer
                \* after being replaced
    subs,       \* whether the session's subscription map has the filter
    tr          \* transfer_session_state task

handshakeVars == <<lock, pc, old, info, replied>>
taskVars == <<st, q, flags, will, pubs>>
connVars == <<conn, sub, capt, late>>
vars == <<lock, pc, old, info, replied, peers, rel, st, q, flags, will, pubs,
          conn, sub, capt, late, subs, tr>>

Kick(a) == [type |-> "Kick", by |-> a]
Plain(t) == [type |-> t, by |-> None]

Init ==
    /\ lock = None
    /\ pc = [a \in Actors |-> "init"] /\ old = [a \in Actors |-> None]
    /\ info = [a \in Actors |-> FALSE] /\ replied = {}
    /\ peers = None /\ rel = None
    /\ st = [c \in Conns |-> "none"] /\ q = [c \in Conns |-> << >>]
    /\ flags = [c \in Conns |-> {}]
    /\ will = [c \in Conns |-> "armed"] /\ pubs = [c \in Conns |-> 0]
    /\ conn = [c \in Conns |-> "none"] /\ sub = [c \in Conns |-> "fresh"]
    /\ capt = [c \in Conns |-> None] /\ late = {} /\ subs = [c \in Conns |-> FALSE]
    /\ tr = [c \in Conns |-> "none"]

-----------------------------------------------------------------------------
(* Handshake *)

Started == {a \in Actors : pc[a] # "init"}
MayStart(a) == pc[a] = "init" /\ \E cast \in Casts : Started \cup {a} \subseteq cast

Goto(a, l) == pc' = [pc EXCEPT ![a] = l]
Unlock(a) == lock' = IF lock = a THEN None ELSE lock

\* mutant: the lock is taken without looking
TryLock_always(c) ==
    /\ MayStart(c)
    /\ lock' = c /\ Goto(c, "kick")
    /\ UNCHANGED <<old, info, replied, peers, rel, taskVars, connVars, subs, tr>>

\* entry(id).try_lock(): refused at once when another handshake holds it
TryLock(c) ==
    /\ MayStart(c)
    /\ \/ lock = None /\ lock' = c /\ Goto(c, "kick")
       \/ lock # None /\ lock' = lock /\ Goto(c, "refused")
    /\ UNCHANGED <<old, info, replied, peers, rel, taskVars, connVars, subs, tr>>

\* kick_client of the HTTP API uses the entry without locking it
AdminStart ==
    /\ MayStart(Admin)
    /\ Goto(Admin, "kick")
    /\ UNCHANGED <<lock, old, info, replied, peers, rel, taskVars, connVars, subs, tr>>

\* mutant: the answer is not awaited
SendKick_noWait(a) ==
    /\ pc[a] = "kick"
    /\ q' = IF peers # None /\ st[peers] # "gone"
            THEN [q EXCEPT ![peers] = Append(@, Kick(a))] ELSE q
    /\ Goto(a, "remove")
    /\ UNCHANGED <<lock, old, info, replied, peers, rel, st, flags, will, pubs,
                   connVars, subs, tr>>

\* LockEntry::kick up to the wait, or past it when there is nobody to kick
SendKick(a) ==
    /\ pc[a] = "kick"
    /\ IF peers # None /\ st[peers] # "gone"
       THEN q' = [q EXCEPT ![peers] = Append(@, Kick(a))] /\ Goto(a, "kickwait")
       ELSE q' = q /\ Goto(a, "remove")
    /\ UNCHANGED <<lock, old, info, replied, peers, rel, st, flags, will, pubs,
                   connVars, subs, tr>>

KickAnswered(a) ==
    /\ pc[a] = "kickwait"
    /\ a \in replied
    /\ Goto(a, "remove")
    /\ UNCHANGED <<lock, old, info, replied, peers, rel, taskVars, connVars, subs, tr>>

KickQueued(a) == \E c \in Conns : \E i \in DOMAIN q[c] : q[c][i] = Kick(a)

\* mutant: a Kick dropped with its channel goes unnoticed
KickFailed_never(a) == FALSE /\ UNCHANGED vars

\* the session task ended with the Kick unread: the handshake is refused
KickFailed(a) ==
    /\ pc[a] = "kickwait"
    /\ a \notin replied
    /\ ~KickQueued(a)
    /\ Goto(a, "refused")
    /\ Unlock(a)
    /\ UNCHANGED <<old, info, replied, peers, rel, taskVars, connVars, subs, tr>>

KickTimeout(a) ==
    /\ a \in Unanswered
    /\ pc[a] = "kickwait"
    /\ a \notin replied
    /\ Goto(a, "remove")
    /\ UNCHANGED <<lock, old, info, replied, peers, rel, taskVars, connVars, subs, tr>>

AfterKick(a) == IF a = Admin THEN "done" ELSE "create"

\* _remove: whatever session the registry holds now
RemovePeer(a) ==
    /\ pc[a] = "remove"
    /\ old' = [old EXCEPT ![a] = peers]
    /\ peers' = None
    /\ Goto(a, IF peers = None THEN AfterKick(a)
               ELSE IF CleanStart(a) THEN "unroute" ELSE "drain")
    /\ UNCHANGED <<lock, info, replied, rel, taskVars, connVars, subs, tr>>

\* mutant: the relation of the client id, whichever session owns it
RouterRemove_any(c) == rel' = None

\* DefaultRouter::remove: only the relation of this very session
RouterRemove(c) == rel' = IF rel = c THEN None ELSE rel

\* subscriptions_remove on the session the registry holds now
PeerForget == subs' = IF peers = None THEN subs ELSE [subs EXCEPT ![peers] = FALSE]

\* the filters of the removed session, then _unsubscribe, its two awaits
KickUnroute(a) ==
    /\ pc[a] = "unroute"
    /\ IF subs[old[a]]
       THEN RouterRemove(old[a]) /\ Goto(a, "forget")
       ELSE rel' = rel /\ Goto(a, AfterKick(a))
    /\ UNCHANGED <<lock, old, info, replied, peers, taskVars, connVars, subs, tr>>

KickForget(a) ==
    /\ pc[a] = "forget"
    /\ PeerForget
    /\ Goto(a, AfterKick(a))
    /\ UNCHANGED <<lock, old, info, replied, peers, rel, taskVars, connVars, tr>>

\* to_offline_info drains the old session's subscriptions
Drain(a) ==
    /\ pc[a] = "drain"
    /\ info' = [info EXCEPT ![a] = subs[old[a]]]
    /\ subs' = [subs EXCEPT ![old[a]] = FALSE]
    /\ Goto(a, AfterKick(a))
    /\ UNCHANGED <<lock, old, replied, peers, rel, taskVars, connVars, tr>>

\* Session::new or fitter.keep_alive fails: the old session is gone already
Refuse(c) ==
    /\ c \in Refusable
    /\ pc[c] = "create"
    /\ Goto(c, "refused")
    /\ Unlock(c)
    /\ UNCHANGED <<old, info, replied, peers, rel, taskVars, connVars, subs, tr>>

\* SessionState::start spawns the session task before the entry is set
Create(c) ==
    /\ pc[c] = "create"
    /\ st' = [st EXCEPT ![c] = "online"]
    /\ Goto(c, "set")
    /\ UNCHANGED <<lock, old, info, replied, peers, rel, q, flags, will, pubs,
                   connVars, subs, tr>>

SetPeer(c) ==
    /\ pc[c] = "set"
    /\ peers' = c
    /\ Goto(c, "ack")
    /\ UNCHANGED <<lock, old, info, replied, rel, taskVars, connVars, subs, tr>>

\* CONNACK; the transfer is a task of its own; the entry is dropped
Finish(c) ==
    /\ pc[c] = "ack"
    /\ Goto(c, "done")
    /\ Unlock(c)
    /\ conn' = [conn EXCEPT ![c] = "open"]
    /\ tr' = [tr EXCEPT ![c] = IF info[c] THEN "route" ELSE "none"]
    /\ UNCHANGED <<old, info, replied, peers, rel, taskVars, sub, capt, late, subs>>

-----------------------------------------------------------------------------
\* history: c is at work although the registry has another session or none
NoteLate(c) == late' = IF peers = c THEN late ELSE late \cup {c}

(* transfer_session_state: router.add, then subscriptions_extend *)
TransferRoute(c) ==
    /\ tr[c] = "route"
    /\ rel' = c
    /\ tr' = [tr EXCEPT ![c] = "extend"]
    /\ NoteLate(c)
    /\ UNCHANGED <<handshakeVars, peers, taskVars, conn, sub, capt, subs>>

TransferExtend(c) ==
    /\ tr[c] = "extend"
    /\ subs' = [subs EXCEPT ![c] = TRUE]
    /\ tr' = [tr EXCEPT ![c] = "none"]
    /\ NoteLate(c)
    /\ UNCHANGED <<handshakeVars, peers, rel, taskVars, conn, sub, capt>>

-----------------------------------------------------------------------------
(* Connection task.  LockEntry::subscribe and unsubscribe read the session *)
(* from the registry by client id, then change the router under the id of  *)
(* this connection, then the subscription map of the session they read.    *)

SubStep(c, from, to) ==
    /\ sub[c] = from
    /\ sub' = [sub EXCEPT ![c] = to]
    /\ NoteLate(c)

Subscribe(c) ==
    /\ c \in Subscribers
    /\ conn[c] = "open"
    /\ peers # None
    /\ SubStep(c, "fresh", "route")
    /\ capt' = [capt EXCEPT ![c] = peers]
    /\ UNCHANGED <<handshakeVars, peers, rel, taskVars, conn, subs, tr>>

SubscribeRoute(c) ==
    /\ SubStep(c, "route", "map")
    /\ rel' = c
    /\ UNCHANGED <<handshakeVars, peers, taskVars, conn, capt, subs, tr>>

SubscribeMap(c) ==
    /\ SubStep(c, "map", "subscribed")
    /\ subs' = [subs EXCEPT ![capt[c]] = TRUE]
    /\ UNCHANGED <<handshakeVars, peers, rel, taskVars, conn, capt, tr>>

Unsubscribe(c) ==
    /\ c \in Unsubscribers
    /\ conn[c] = "open"
    /\ peers # None
    /\ SubStep(c, "subscribed", "unroute")
    /\ capt' = [capt EXCEPT ![c] = peers]
    /\ UNCHANGED <<handshakeVars, peers, rel, taskVars, conn, subs, tr>>

UnsubscribeRoute(c) ==
    /\ SubStep(c, "unroute", "unmap")
    /\ RouterRemove(c)
    /\ UNCHANGED <<handshakeVars, peers, taskVars, conn, capt, subs, tr>>

UnsubscribeMap(c) ==
    /\ SubStep(c, "unmap", "end")
    /\ subs' = [subs EXCEPT ![capt[c]] = FALSE]
    /\ UNCHANGED <<handshakeVars, peers, rel, taskVars, conn, capt, tr>>

Post(c, m) == q' = IF st[c] = "gone" THEN q ELSE [q EXCEPT ![c] = Append(@, m)]

ClientDisconnect(c) ==
    /\ c \in Polite
    /\ conn[c] = "open"
    /\ conn' = [conn EXCEPT ![c] = "leaving"]
    /\ Post(c, Plain("Disconnect"))
    /\ UNCHANGED <<handshakeVars, peers, rel, st, flags, will, pubs, sub, capt, late, subs, tr>>

\* the connection ends, from either side; control_message posts Closed
ConnLost(c) ==
    /\ conn[c] \in {"open", "leaving"}
    /\ conn' = [conn EXCEPT ![c] = "closed"]
    /\ Post(c, Plain("Closed"))
    /\ UNCHANGED <<handshakeVars, peers, rel, st, flags, will, pubs, sub, capt, late, subs, tr>>

-----------------------------------------------------------------------------
(* Session task *)

SenderOpen(a) == pc[a] = "kickwait" /\ a \notin replied

KickFlags(a) == {"Kicked"} \cup (IF a = Admin THEN {"ByAdminKick"} ELSE {})
                           \cup (IF CleanStart(a) THEN {"CleanStart"} ELSE {})

\* Message::Kick in the online or the offline loop, its sender waiting
OnKick(c) ==
    /\ st[c] \in {"online", "offline"}
    /\ q[c] # << >> /\ Head(q[c]).type = "Kick"
    /\ LET a == Head(q[c]).by
       IN  /\ SenderOpen(a)
           /\ replied' = replied \cup {a}
           /\ flags' = [flags EXCEPT ![c] = @ \cup KickFlags(a)]
    /\ \/ /\ st[c] = "online"
          /\ st' = [st EXCEPT ![c] = "exit"]
          /\ q' = [q EXCEPT ![c] = Tail(@)]
       \/ /\ st[c] = "offline"
          /\ st' = [st EXCEPT ![c] = "gone"]
          /\ q' = [q EXCEPT ![c] = << >>]
    /\ UNCHANGED <<lock, pc, old, info, peers, rel, will, pubs, connVars, subs, tr>>

\* a Kick whose sender has given up changes nothing; the offline loop
\* ignores whatever else comes
OnIgnored(c) ==
    /\ q[c] # << >>
    /\ \/ st[c] = "offline" /\ Head(q[c]).type # "Kick"
       \/ /\ st[c] \in {"online", "offline"}
          /\ Head(q[c]).type = "Kick" /\ ~SenderOpen(Head(q[c]).by)
    /\ q' = [q EXCEPT ![c] = Tail(@)]
    /\ UNCHANGED <<handshakeVars, peers, rel, st, flags, will, pubs, connVars, subs, tr>>

OnDisconnect(c) ==
    /\ st[c] = "online"
    /\ q[c] # << >> /\ Head(q[c]).type = "Disconnect"
    /\ flags' = [flags EXCEPT ![c] = @ \cup {"DisconnectReceived"}]
    /\ q' = [q EXCEPT ![c] = Tail(@)]
    /\ UNCHANGED <<handshakeVars, peers, rel, st, will, pubs, connVars, subs, tr>>

OnClosed(c) ==
    /\ st[c] = "online"
    /\ q[c] # << >> /\ Head(q[c]).type = "Closed"
    /\ st' = [st EXCEPT ![c] = "exit"]
    /\ q' = [q EXCEPT ![c] = Tail(@)]
    /\ UNCHANGED <<handshakeVars, peers, rel, flags, will, pubs, connVars, subs, tr>>

KeepaliveTimeout(c) ==
    /\ st[c] = "online"
    /\ st' = [st EXCEPT ![c] = "exit"]
    /\ UNCHANGED <<handshakeVars, peers, rel, q, flags, will, pubs, connVars, subs, tr>>

\* last_will_enable
LastWillEnable(c) ==
    LET sessionPresent == /\ "Kicked" \in flags[c]
                          /\ "CleanStart" \notin flags[c]
                          /\ c \notin Ephemeral
    IN  ~("DisconnectReceived" \in flags[c] \/ sessionPresent)

PublishWill(c) ==
    /\ will' = [will EXCEPT ![c] = "done"]
    /\ pubs' = [pubs EXCEPT ![c] = @ + 1]

\* the online loop has ended: last will now or later, sink closed
ExitLoop(c) ==
    /\ st[c] = "exit"
    /\ st' = [st EXCEPT ![c] = "left"]
    /\ IF LastWillEnable(c)
       THEN IF c \in Ephemeral \/ c \notin WillDelays
            THEN PublishWill(c)
            ELSE will' = [will EXCEPT ![c] = "delayed"] /\ UNCHANGED pubs
       ELSE will' = [will EXCEPT ![c] = "done"] /\ UNCHANGED pubs
    /\ UNCHANGED <<handshakeVars, peers, rel, q, flags, connVars, subs, tr>>

\* the session task drops its channel with everything unread in it
Gone(c) == st' = [st EXCEPT ![c] = "gone"] /\ q' = [q EXCEPT ![c] = << >>]

Leave(c) ==
    /\ st[c] = "left"
    /\ IF "Kicked" \in flags[c]
       THEN IF "ByAdminKick" \in flags[c]
            THEN st' = [st EXCEPT ![c] = "clean"] /\ UNCHANGED q
            ELSE Gone(c)
       ELSE st' = [st EXCEPT ![c] = IF c \in Ephemeral THEN "clean" ELSE "offline"] /\ UNCHANGED q
    /\ UNCHANGED <<handshakeVars, peers, rel, flags, will, pubs, connVars, subs, tr>>

\* mutant: will_delay_interval is not reset
WillDelay_again(c) ==
    /\ st[c] = "offline"
    /\ will[c] = "delayed" /\ pubs[c] < 3
    /\ pubs' = [pubs EXCEPT ![c] = @ + 1]
    /\ UNCHANGED <<handshakeVars, peers, rel, st, q, flags, will, connVars, subs, tr>>

WillDelay(c) ==
    /\ st[c] = "offline"
    /\ will[c] = "delayed"
    /\ PublishWill(c)
    /\ UNCHANGED <<handshakeVars, peers, rel, st, q, flags, connVars, subs, tr>>

\* mutant: expiry forgets a pending will
SessionExpiry_noWill(c) ==
    /\ st[c] = "offline"
    /\ st' = [st EXCEPT ![c] = "clean"]
    /\ UNCHANGED <<handshakeVars, peers, rel, q, flags, will, pubs, connVars, subs, tr>>

SessionExpiry(c) ==
    /\ st[c] = "offline"
    /\ st' = [st EXCEPT ![c] = "clean"]
    /\ IF will[c] = "delayed" THEN PublishWill(c) ELSE UNCHANGED <<will, pubs>>
    /\ UNCHANGED <<handshakeVars, peers, rel, q, flags, connVars, subs, tr>>

\* mutant: remove instead of remove_with
CleanRemove_any(c) ==
    /\ st[c] = "clean"
    /\ peers' = None
    /\ st' = [st EXCEPT ![c] = "unroute"]
    /\ UNCHANGED <<handshakeVars, rel, q, flags, will, pubs, connVars, subs, tr>>

\* clean: id_same and remove_with, on an entry that is not locked
CleanRemove(c) ==
    /\ st[c] = "clean"
    /\ IF peers = c
       THEN peers' = None /\ st' = [st EXCEPT ![c] = "unroute"] /\ UNCHANGED q
       ELSE peers' = peers /\ Gone(c)
    /\ UNCHANGED <<handshakeVars, rel, flags, will, pubs, connVars, subs, tr>>

CleanUnroute(c) ==
    /\ st[c] = "unroute"
    /\ IF subs[c]
       THEN RouterRemove(c) /\ st' = [st EXCEPT ![c] = "forget"] /\ UNCHANGED q
       ELSE rel' = rel /\ Gone(c)
    /\ UNCHANGED <<handshakeVars, peers, flags, will, pubs, connVars, subs, tr>>

CleanForget(c) ==
    /\ st[c] = "forget"
    /\ PeerForget
    /\ Gone(c)
    /\ UNCHANGED <<handshakeVars, peers, rel, flags, will, pubs, connVars, tr>>

-----------------------------------------------------------------------------
KickStep(a) ==
    \/ SendKick(a) \/ KickAnswered(a) \/ KickFailed(a) \/ KickTimeout(a)
    \/ RemovePeer(a) \/ KickUnroute(a) \/ KickForget(a)

HandshakeStep(c) ==
    \/ Drain(c) \/ Refuse(c) \/ Create(c) \/ SetPeer(c) \/ Finish(c)

TransferStep(c) == TransferRoute(c) \/ TransferExtend(c)

ClientStep(c) ==
    \/ Subscribe(c) \/ SubscribeRoute(c) \/ SubscribeMap(c)
    \/ Unsubscribe(c) \/ UnsubscribeRoute(c) \/ UnsubscribeMap(c)
    \/ ClientDisconnect(c) \/ ConnLost(c)

\* the session task, its timers apart
TaskStep(c) ==
    \/ OnKick(c) \/ OnIgnored(c) \/ OnDisconnect(c) \/ OnClosed(c)
    \/ ExitLoop(c) \/ Leave(c)
    \/ CleanRemove(c) \/ CleanUnroute(c) \/ CleanForget(c)

TimerStep(c) == KeepaliveTimeout(c) \/ WillDelay(c) \/ SessionExpiry(c)

Next ==
    \/ AdminStart
    \/ \E a \in Actors : KickStep(a)
    \/ \E c \in Conns : \/ TryLock(c) \/ HandshakeStep(c) \/ TransferStep(c)
                        \/ ClientStep(c) \/ TaskStep(c) \/ TimerStep(c)

Spec == Init /\ [][Next]_vars

(* Handshakes and session tasks keep running once started, and the offline *)
(* timers fire.  Clients owe nothing: they may neither connect nor leave.  *)
FairSpec ==
    /\ Spec
    /\ \A a \in Actors : WF_vars(KickStep(a))
    /\ \A c \in Conns : /\ WF_vars(HandshakeStep(c)) /\ WF_vars(TaskStep(c))
                        /\ WF_vars(WillDelay(c)) /\ WF_vars(SessionExpiry(c))

-----------------------------------------------------------------------------
(* Properties *)

Serving(c) == st[c] \in {"online", "offline"}

\* Only handshakes kick, and their kicks are answered in time
OrdinaryKicks == Started \cap (Unanswered \cup {Admin}) = {}

(* "Kick out the current session, if it exists" (v3.rs:150): no two        *)
(* sessions of the client serve it, online or offline, at the same time,   *)
(* as long as kicks are answered within the 5 seconds.                     *)
OneSession ==
    OrdinaryKicks => \A c, d \in Conns : Serving(c) /\ Serving(d) => c = d

(* Between handshakes a session that serves the client is the one in the   *)
(* registry: publishers, kicks and subscriptions reach it.                 *)
ServingRegistered ==
    (OrdinaryKicks /\ lock = None) => \A c \in Conns : Serving(c) => peers = c

(* The client has one session and it is the one everybody finds.           *)
OneSessionFound == OneSession /\ ServingRegistered

(* With the HTTP kick and timeouts too, a session that still serves the    *)
(* client outside the registry is one that a handshake or the HTTP kick    *)
(* took out of it: the clean-up of an ended session, which holds no lock,  *)
(* never unregisters another one.                                          *)
OrphanWasReplaced ==
    lock = None =>
        \A c \in Conns : Serving(c) => peers = c \/ \E a \in Actors : old[a] = c

(* A subscription in the map of the registered session has its relation in *)
(* the router, so that messages reach the client, whatever takeovers,      *)
(* transfers, expiries and kicks did to the sessions before, and whatever  *)
(* is in progress.  It may lack it once the session has sent UNSUBSCRIBE,  *)
(* which may run during the transfer; and a request or a transfer that     *)
(* outlives the registration of its session (late) may break it.           *)
SubscribedHasRoute ==
    late = {} =>
        \A c \in Conns :
            (peers = c /\ subs[c] /\ sub[c] \notin {"unmap", "end"}) => rel = c

(* The last will goes out at most once, whichever of delay, expiry and a   *)
(* kick comes first, and never when the client said DISCONNECT.            *)
WillAtMostOnce ==
    \A c \in Conns : /\ pubs[c] <= 1
                     /\ "DisconnectReceived" \in flags[c] => pubs[c] = 0

(* A connection that ends without DISCONNECT has its last will published,  *)
(* at once, after the delay or at expiry, unless a connection takes the    *)
(* session over, keeping it or before the delay of the will has passed.    *)
WillInTheEnd ==
    \A c \in Conns :
        (st[c] = "exit" /\ "DisconnectReceived" \notin flags[c])
            ~> \/ pubs[c] = 1
               \/ /\ "Kicked" \in flags[c]
                  /\ will[c] = "delayed" \/ "CleanStart" \notin flags[c]

(* Every handshake that got the lock ends, whatever state the session it   *)
(* kicks is in when the Kick arrives.                                      *)
HandshakeEnds ==
    \A c \in Conns : (pc[c] # "init") ~> (pc[c] \in {"done", "refused"})
=============================================================================
