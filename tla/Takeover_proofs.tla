--------------------------- MODULE Takeover_proofs ---------------------------
(***************************************************************************)
(* Proofs about Takeover, for every size of the window, range of packet    *)
(* ids, number of messages and of takeovers: a message is in one place of  *)
(* the broker at a time and none vanishes unaccounted (Carried), and what  *)
(* the next session sends again is honest (ResentHonestly).                *)
(*                                                                         *)
(* Neither is inductive.  Why a PUBACK takes out the message it is for, or *)
(* one whose id was on the wire twice, needs the relation between the      *)
(* window and the wire (WireInv); why an UnComplete entry may be left out  *)
(* of a transfer needs that its message was answered (AnswerInv); and why  *)
(* nothing is overwritten when the old session is collected needs what the *)
(* handshake has emptied before (PhaseInv).                                *)
(***************************************************************************)
EXTENDS Takeover, Inflight_proofs

Messages == [msg : Nat \ {0}, qos : Qos, dup : BOOLEAN, pid : 0 .. IdSpan - 1]
Marks == [msg : {0}, mark : {"Closed", "Kick"}]
Items == Messages \cup Marks
Entries == WindowOver(Messages)

TypeInv ==
    /\ rx \in Seq(Items) /\ dq \in Seq(Messages)
    /\ buf \in Seq(Messages) /\ Len(buf) <= 1
    /\ win \in Seq(Entries) /\ next \in Nat
    /\ info \in [offline : Seq(Messages), inflight : Seq(Entries)]
    /\ wire \in SUBSET Messages
    /\ forwarded \in Nat
    /\ hs \in {"none", "asked", "kicked", "collected"}
    /\ link \in BOOLEAN

\* The messages that are to be sent, for the first time or again.
Queued == MsgsOf(rx) \cup MsgsOf(dq) \cup MsgsOf(buf) \cup MsgsOf(info.offline)
QueuedItems == ItemsOf(rx) \cup ItemsOf(dq) \cup ItemsOf(buf) \cup ItemsOf(info.offline)

\* The entries of the window and of a window being transferred.
Kept == ItemsOf(win) \cup ItemsOf(info.inflight)

\* Six places, no message twice in one of them and none in two of them.
ApartInv ==
    /\ Once(rx) /\ Once(dq) /\ Once(buf) /\ Once(info.offline)
    /\ OnceInWindow(win) /\ OnceInWindow(info.inflight)
    /\ MsgsOf(rx) \cap (MsgsOf(dq) \cup MsgsOf(buf) \cup MsgsOf(info.offline)) = {}
    /\ MsgsOf(dq) \cap (MsgsOf(buf) \cup MsgsOf(info.offline)) = {}
    /\ MsgsOf(buf) \cap MsgsOf(info.offline) = {}
    /\ Queued \cap (WindowMsgs(win) \cup WindowMsgs(info.inflight)) = {}
    /\ WindowMsgs(win) \cap WindowMsgs(info.inflight) = {}
    /\ Queued \subseteq 1 .. forwarded
    /\ WindowMsgs(win) \subseteq 1 .. forwarded
    /\ WindowMsgs(info.inflight) \subseteq 1 .. forwarded

\* A window entry's PUBLISH is on the wire, which has a message once.
WireInv ==
    /\ UniqueIds(win)
    /\ \A o \in wire : o.msg \in 1 .. forwarded /\ o.msg \notin Queued
    /\ \A o \in wire : o.msg \notin WindowMsgs(info.inflight)
    /\ link => \A e \in ItemsOf(win) : e.publish \in wire
    /\ ~link => wire = {}
    /\ \A o, p \in wire : o.msg = p.msg => o = p
    /\ \A o, p \in wire : o.pid = p.pid /\ o # p => o.msg \in collided

\* UnComplete is the status of what the client has answered.
AnswerInv ==
    /\ seen \subseteq 1 .. forwarded /\ acked \subseteq 1 .. forwarded
    /\ Queued \cap acked = {}
    /\ \A e \in Kept : e.publish.msg \in acked => e.status = "UnComplete"
    /\ \A e \in Kept : e.status = "UnComplete" => e.publish.msg \in acked \cup collided
    /\ \A p \in QueuedItems : p.msg \in seen => p.dup

\* What the handshake has emptied.
PhaseInv ==
    /\ hs \in {"kicked", "collected"} => rx = << >> /\ buf = << >> /\ ~link
    /\ hs = "kicked" => info = NoInfo
    /\ hs = "collected" => dq = << >> /\ win = << >>

Held == Queued \cup WindowMsgs(win) \cup WindowMsgs(info.inflight)

Gone == acked \cup dropped \cup hooked \cup lost \cup collided

AccountInv == (1 .. forwarded) \subseteq Held \cup Gone

IInv == TypeInv /\ ApartInv /\ WireInv /\ AnswerInv /\ PhaseInv /\ AccountInv

-----------------------------------------------------------------------------
(* The operators of Takeover for the messages in a queue and in a window   *)
(* are those the lemmas of Inflight_proofs speak of.                       *)
LEMMA SameSets ==
    /\ \A s : TakenMsgs(s) = MsgsOf(s)
    /\ \A w : WinMsgs(w) = WindowMsgs(w)
    /\ \A w : WindowMsgs(w) = {e.publish.msg : e \in ItemsOf(w)}
<1>1. ASSUME NEW s PROVE TakenMsgs(s) = MsgsOf(s)
  BY DEF TakenMsgs, MsgsOf, IsMessage
<1>2. ASSUME NEW w PROVE WinMsgs(w) = WindowMsgs(w)
  BY DEF WinMsgs, WindowMsgs
<1>3. ASSUME NEW w PROVE WindowMsgs(w) = {e.publish.msg : e \in ItemsOf(w)}
  BY DEF WindowMsgs, ItemsOf
<1> QED
  BY <1>1, <1>2, <1>3

(* A step that only moves messages between the queues, or a marker, keeps  *)
(* what is said of the wire, of the answers and of the accounts.           *)
LEMMA QueueMove ==
    ASSUME IInv, Queued' = Queued, \A p \in QueuedItems' : p \in QueuedItems \/ p.msg = 0,
           UNCHANGED <<win, info.inflight, wire, link, forwarded>>, UNCHANGED histories
    PROVE  WireInv' /\ AnswerInv' /\ AccountInv'
<1>1. WindowMsgs(info.inflight)' = WindowMsgs(info.inflight) /\ Kept' = Kept /\ ItemsOf(win)' = ItemsOf(win)
  BY DEF Kept
<1>2. WireInv'
  BY <1>1 DEF IInv, WireInv, histories
<1>3. AnswerInv'
  <2>1. 0 \notin seen
    BY DEF IInv, TypeInv, AnswerInv
  <2> QED
    BY <1>1, <2>1 DEF IInv, AnswerInv, histories
<1>4. AccountInv'
  BY <1>1 DEF IInv, AccountInv, Held, Gone, histories
<1> QED
  BY <1>2, <1>3, <1>4

-----------------------------------------------------------------------------
(* Message::Forward moves the message from the channel to the deliver      *)
(* queue.                                                                  *)
LEMMA RecvForwardStep ==
    ASSUME IInv, RecvForward
    PROVE  IInv'
<1> DEFINE p == Head(rx)
<1>1. /\ rx' = Tail(rx) /\ dq' = Append(dq, p) /\ rx # << >> /\ p.msg # 0
      /\ rx \in Seq(Items) /\ dq \in Seq(Messages)
      /\ Once(rx) /\ Once(dq) /\ MsgsOf(rx) \cap MsgsOf(dq) = {}
  BY DEF RecvForward, IsMessage, IInv, TypeInv, ApartInv
<1>2. /\ p \in Items /\ rx' \in Seq(Items) /\ ItemsOf(rx) = ItemsOf(rx') \cup {p}
      /\ Once(rx') /\ MsgsOf(rx') = MsgsOf(rx) \ {p.msg} /\ p.msg \in MsgsOf(rx)
  BY <1>1, TailTakes
<1>3. p \in Messages
  BY <1>1, <1>2 DEF Items, Marks
<1>4. /\ dq' \in Seq(Messages) /\ ItemsOf(dq') = ItemsOf(dq) \cup {p}
      /\ MsgsOf(dq') = MsgsOf(dq) \cup {p.msg} /\ Once(dq')
  BY <1>1, <1>2, <1>3, AppendAdds
<1> HIDE DEF p
<1>5. TypeInv'
  BY <1>2, <1>4 DEF IInv, TypeInv, RecvForward
<1>6. Queued' = Queued /\ QueuedItems' = QueuedItems
  BY <1>2, <1>4 DEF Queued, QueuedItems, RecvForward
<1>7. ApartInv'
  BY <1>2, <1>4, <1>6 DEF IInv, ApartInv, RecvForward
<1>8. WireInv' /\ AnswerInv' /\ AccountInv'
  BY <1>6, QueueMove DEF RecvForward
<1>9. PhaseInv'
  BY DEF IInv, PhaseInv, RecvForward, Running
<1> QED
  BY <1>5, <1>7, <1>8, <1>9 DEF IInv

(* Pulling moves the message from the deliver queue to the limiter. *)
LEMMA PullStep ==
    ASSUME IInv, Pull
    PROVE  IInv'
<1> DEFINE p == Head(dq)
<1>1. /\ dq' = Tail(dq) /\ buf = << >> /\ buf' = <<p>> /\ dq # << >>
      /\ dq \in Seq(Messages) /\ Once(dq)
  BY DEF Pull, IInv, TypeInv, ApartInv
<1>2. /\ p \in Messages /\ dq' \in Seq(Messages) /\ ItemsOf(dq) = ItemsOf(dq') \cup {p}
      /\ Once(dq') /\ MsgsOf(dq') = MsgsOf(dq) \ {p.msg} /\ p.msg \in MsgsOf(dq)
  <2>1. p \in Messages
    BY <1>1, TailTakes
  <2>2. p.msg # 0
    BY <2>1 DEF Messages
  <2> QED
    BY <1>1, <2>1, <2>2, TailTakes
<1>3. /\ buf' \in Seq(Messages) /\ ItemsOf(buf') = {p} /\ Len(buf') <= 1
      /\ MsgsOf(buf') = {p.msg} /\ Once(buf')
  <2>1. p.msg # 0
    BY <1>2 DEF Messages
  <2>2. DOMAIN buf' = {1} /\ buf'[1] = p /\ buf' \in Seq(Messages) /\ Len(buf') <= 1
    BY <1>1, <1>2
  <2> QED
    BY <2>1, <2>2 DEF ItemsOf, MsgsOf, Once
<1> HIDE DEF p
<1>4. TypeInv'
  BY <1>2, <1>3 DEF IInv, TypeInv, Pull
<1>5. Queued' = Queued /\ QueuedItems' = QueuedItems
  BY <1>1, <1>2, <1>3, NothingHeld DEF Queued, QueuedItems, Pull
<1>6. ApartInv'
  BY <1>2, <1>3, <1>5 DEF IInv, ApartInv, Pull
<1>7. WireInv' /\ AnswerInv' /\ AccountInv'
  BY <1>5, QueueMove DEF Pull
<1>8. PhaseInv'
  BY DEF IInv, PhaseInv, Pull, Running
<1> QED
  BY <1>4, <1>6, <1>7, <1>8 DEF IInv

(* A queued message of the old session goes to the channel of the new one. *)
LEMMA TransferOfflineStep ==
    ASSUME IInv, TransferOffline
    PROVE  IInv'
<1> DEFINE off == info.offline
           p == off[Len(off)]
           rest == SubSeq(off, 1, Len(off) - 1)
<1>1. /\ rx' = Append(rx, p) /\ info' = [info EXCEPT !.offline = rest] /\ off # << >>
      /\ rx \in Seq(Items) /\ off \in Seq(Messages) /\ Once(rx) /\ Once(off)
      /\ MsgsOf(rx) \cap MsgsOf(off) = {}
  BY DEF TransferOffline, PopItem, AfterPop, IInv, TypeInv, ApartInv
<1>2. info'.offline = rest /\ info'.inflight = info.inflight
  BY <1>1 DEF IInv, TypeInv
<1>3. /\ p \in Messages /\ rest \in Seq(Messages) /\ ItemsOf(off) = ItemsOf(rest) \cup {p}
      /\ Once(rest) /\ MsgsOf(rest) = MsgsOf(off) \ {p.msg} /\ p.msg \in MsgsOf(off)
  <2>1. p \in Messages
    BY <1>1, FrontTakes
  <2>2. p.msg # 0
    BY <2>1 DEF Messages
  <2> QED
    BY <1>1, <2>1, <2>2, FrontTakes
<1>4. /\ rx' \in Seq(Items) /\ ItemsOf(rx') = ItemsOf(rx) \cup {p}
      /\ MsgsOf(rx') = MsgsOf(rx) \cup {p.msg} /\ Once(rx')
  <2>1. p \in Items /\ p.msg # 0 /\ p.msg \notin MsgsOf(rx)
    BY <1>1, <1>3 DEF Items, Messages
  <2> QED
    BY <1>1, <2>1, AppendAdds
<1> HIDE DEF p, rest
<1>5. TypeInv'
  BY <1>1, <1>3, <1>4, Zenon DEF IInv, TypeInv, TransferOffline
<1>6. Queued' = Queued /\ QueuedItems' = QueuedItems
  BY <1>2, <1>3, <1>4 DEF Queued, QueuedItems, TransferOffline
<1>7. ApartInv'
  BY <1>2, <1>3, <1>4, <1>6 DEF IInv, ApartInv, TransferOffline
<1>8. WireInv' /\ AnswerInv' /\ AccountInv'
  BY <1>2, <1>6, QueueMove DEF TransferOffline
<1>9. PhaseInv'
  BY DEF IInv, PhaseInv, TransferOffline, Running
<1> QED
  BY <1>5, <1>7, <1>8, <1>9 DEF IInv

(* An unanswered message of the old session goes to the new one's channel, *)
(* marked dup; one the client has taken over is left out.                  *)
LEMMA TransferInflightStep ==
    ASSUME IInv, TransferInflight
    PROVE  IInv'
<1> DEFINE inf == info.inflight
           e == inf[Len(inf)]
           rest == SubSeq(inf, 1, Len(inf) - 1)
           p == [e.publish EXCEPT !.dup = TRUE]
<1>1. /\ rx' = rx \o Resend(e) /\ info' = [info EXCEPT !.inflight = rest] /\ inf # << >>
      /\ rx \in Seq(Items) /\ inf \in Seq(Entries) /\ Once(rx) /\ OnceInWindow(inf)
      /\ Queued \cap WindowMsgs(inf) = {}
      /\ UNCHANGED <<dq, buf, win, next, phase, link, hs, wire, forwarded, takeovers>>
      /\ UNCHANGED histories
  BY DEF TransferInflight, PopItem, AfterPop, IInv, TypeInv, ApartInv
<1>2. info'.inflight = rest /\ info'.offline = info.offline
  BY <1>1 DEF IInv, TypeInv
<1>3. /\ e \in Entries /\ rest \in Seq(Entries) /\ ItemsOf(inf) = ItemsOf(rest) \cup {e}
      /\ OnceInWindow(rest) /\ WindowMsgs(rest) = WindowMsgs(inf) \ {e.publish.msg}
      /\ e.publish.msg \in WindowMsgs(inf)
  BY <1>1, FrontTakes
<1>4. p \in Messages /\ p.msg = e.publish.msg /\ p.dup /\ p.msg # 0
  BY <1>3, Zenon DEF Entries, WindowOver, Messages
<1>5. e \in Kept /\ Kept' \subseteq Kept
  BY <1>1, <1>2, <1>3 DEF Kept
<1>6. PhaseInv' /\ hs \notin {"kicked", "collected"}
  BY <1>1 DEF IInv, PhaseInv, TransferInflight, Running
<1> HIDE DEF e, rest, p
<1>7. CASE e.status = "UnComplete"
  <2>1. rx' = rx
    BY <1>1, <1>7 DEF Resend
  <2>2. Queued' = Queued /\ QueuedItems' = QueuedItems
    BY <1>1, <1>2, <2>1 DEF Queued, QueuedItems
  <2>3. TypeInv'
    BY <1>1, <1>3, <2>1, Zenon DEF IInv, TypeInv
  <2>4. ApartInv'
    BY <1>1, <1>2, <1>3, <2>1, <2>2 DEF IInv, ApartInv
  <2>5. WireInv'
    BY <1>1, <1>2, <1>3, <2>2 DEF IInv, WireInv, histories
  <2>6. AnswerInv'
    BY <1>1, <1>5, <2>2 DEF IInv, AnswerInv, histories
  <2>7. e.publish.msg \in acked \cup collided
    BY <1>5, <1>7 DEF IInv, AnswerInv
  <2>8. AccountInv'
    BY <1>1, <1>2, <1>3, <2>2, <2>7 DEF IInv, AccountInv, Held, Gone, histories
  <2> QED
    BY <1>6, <2>3, <2>4, <2>5, <2>6, <2>8 DEF IInv
<1>8. CASE e.status # "UnComplete"
  <2>1. rx' = Append(rx, p)
    BY <1>1, <1>8 DEF Resend, p
  <2>2. /\ rx' \in Seq(Items) /\ ItemsOf(rx') = ItemsOf(rx) \cup {p}
        /\ MsgsOf(rx') = MsgsOf(rx) \cup {p.msg} /\ Once(rx')
    <3>1. p \in Items /\ p.msg \notin MsgsOf(rx)
      BY <1>1, <1>3, <1>4 DEF Items, Queued
    <3> QED
      BY <1>1, <1>4, <2>1, <3>1, AppendAdds
  <2>3. Queued' = Queued \cup {p.msg} /\ QueuedItems' = QueuedItems \cup {p}
    BY <1>1, <1>2, <2>2 DEF Queued, QueuedItems
  <2>4. TypeInv'
    BY <1>1, <1>3, <2>2, Zenon DEF IInv, TypeInv
  <2>5. p.msg \notin Queued /\ p.msg \notin WindowMsgs(win) /\ p.msg \in 1 .. forwarded
    BY <1>1, <1>3, <1>4 DEF IInv, ApartInv
  <2>6. ApartInv'
    BY <1>1, <1>2, <1>3, <1>4, <2>2, <2>3, <2>5 DEF IInv, ApartInv, Queued
  <2>7. WireInv'
    <3>1. \A o \in wire : o.msg # p.msg
      BY <1>3, <1>4 DEF IInv, WireInv
    <3> QED
      BY <1>1, <1>2, <1>3, <2>3, <3>1 DEF IInv, WireInv, histories
  <2>8. AnswerInv'
    <3>1. p.msg \notin acked
      BY <1>4, <1>5, <1>8 DEF IInv, AnswerInv
    <3> QED
      BY <1>1, <1>4, <1>5, <2>3, <3>1 DEF IInv, AnswerInv, histories
  <2>9. AccountInv'
    BY <1>1, <1>2, <1>3, <1>4, <2>3 DEF IInv, AccountInv, Held, Gone, histories
  <2> QED
    BY <1>6, <2>4, <2>6, <2>7, <2>8, <2>9 DEF IInv
<1> QED
  BY <1>7, <1>8

(* A publication reaches the channel, or is counted lost or dropped. *)
LEMMA ForwardStep ==
    ASSUME IInv, NEW q \in Qos, ForwardMsg(q)
    PROVE  IInv'
<1> DEFINE p == [msg |-> forwarded + 1, qos |-> q, dup |-> FALSE, pid |-> NoId]
           m == forwarded + 1
<1>1. /\ forwarded' = m
      /\ UNCHANGED <<dq, buf, win, next, phase, link, hs, info, wire, takeovers,
                     seen, acked, hooked, collided>>
      /\ \/ /\ hs \in {"none", "asked"} /\ rx' = Append(rx, p) /\ UNCHANGED <<dropped, lost>>
         \/ rx' = rx /\ dropped' \cup lost' = dropped \cup lost \cup {m}
  BY DEF ForwardMsg
<1>2. /\ forwarded \in Nat /\ 1 .. m = (1 .. forwarded) \cup {m} /\ m \notin 1 .. forwarded
      /\ m # 0
  BY DEF IInv, TypeInv
<1>3. p \in Messages /\ p.msg = m
  BY <1>2, InflightAssumption DEF Messages, NoId
<1>4. m \notin Queued /\ m \notin WindowMsgs(win) /\ m \notin WindowMsgs(info.inflight)
  BY <1>2 DEF IInv, ApartInv
<1>5. Kept' = Kept
  BY <1>1 DEF Kept
<1>6. forwarded' \in Nat
  BY <1>1, <1>2
<1> HIDE DEF p, m
<1>7. CASE hs \in {"none", "asked"} /\ rx' = Append(rx, p) /\ UNCHANGED <<dropped, lost>>
  <2>1. /\ rx' \in Seq(Items) /\ ItemsOf(rx') = ItemsOf(rx) \cup {p}
        /\ MsgsOf(rx') = MsgsOf(rx) \cup {m} /\ Once(rx')
    <3>1. p \in Items /\ p.msg \notin MsgsOf(rx) /\ rx \in Seq(Items) /\ Once(rx)
      BY <1>3, <1>4 DEF Items, Queued, IInv, TypeInv, ApartInv
    <3> QED
      BY <1>2, <1>3, <1>7, <3>1, AppendAdds
  <2>2. Queued' = Queued \cup {m} /\ QueuedItems' = QueuedItems \cup {p}
    BY <1>1, <2>1 DEF Queued, QueuedItems
  <2>3. TypeInv'
    BY <1>1, <1>6, <2>1 DEF IInv, TypeInv
  <2>4. ApartInv'
    BY <1>1, <1>2, <1>4, <2>1, <2>2 DEF IInv, ApartInv, Queued
  <2>5. WireInv'
    BY <1>1, <1>2, <2>2 DEF IInv, WireInv
  <2>6. AnswerInv'
    BY <1>1, <1>2, <1>3, <1>5, <2>2 DEF IInv, AnswerInv
  <2>7. PhaseInv'
    BY <1>1, <1>7 DEF IInv, PhaseInv
  <2>8. AccountInv'
    BY <1>1, <1>2, <1>7, <2>2 DEF IInv, AccountInv, Held, Gone
  <2> QED
    BY <2>3, <2>4, <2>5, <2>6, <2>7, <2>8 DEF IInv
<1>8. CASE rx' = rx /\ dropped' \cup lost' = dropped \cup lost \cup {m}
  <2>1. Queued' = Queued /\ QueuedItems' = QueuedItems
    BY <1>1, <1>8 DEF Queued, QueuedItems
  <2>2. TypeInv'
    BY <1>1, <1>6, <1>8 DEF IInv, TypeInv
  <2>3. ApartInv'
    BY <1>1, <1>2, <1>8, <2>1 DEF IInv, ApartInv
  <2>4. WireInv'
    BY <1>1, <1>2, <2>1 DEF IInv, WireInv
  <2>5. AnswerInv'
    BY <1>1, <1>2, <1>5, <2>1 DEF IInv, AnswerInv
  <2>6. PhaseInv'
    BY <1>1, <1>8 DEF IInv, PhaseInv
  <2>7. AccountInv'
    BY <1>1, <1>2, <1>8, <2>1 DEF IInv, AccountInv, Held, Gone
  <2> QED
    BY <2>2, <2>3, <2>4, <2>5, <2>6, <2>7 DEF IInv
<1> QED
  BY <1>1, <1>7, <1>8

(* A marker in the channel is no message. *)
LEMMA MarkerAdds ==
    ASSUME IInv, NEW name \in {"Closed", "Kick"}
    PROVE  LET x == Append(rx, Marker(name)) IN
           /\ x \in Seq(Items) /\ ItemsOf(x) = ItemsOf(rx) \cup {Marker(name)}
           /\ MsgsOf(x) = MsgsOf(rx) /\ Once(x) /\ Marker(name).msg = 0
<1>1. Marker(name) \in Items /\ Marker(name).msg = 0
  BY DEF Marker, Items, Marks
<1>2. Marker(name).msg \notin MsgsOf(rx)
  BY <1>1 DEF MsgsOf
<1>3. rx \in Seq(Items) /\ Once(rx)
  BY DEF IInv, TypeInv, ApartInv
<1> DEFINE m == Marker(name)
<1> HIDE DEF m
<1>4. /\ Append(rx, m) \in Seq(Items) /\ ItemsOf(Append(rx, m)) = ItemsOf(rx) \cup {m}
      /\ MsgsOf(Append(rx, m)) = MsgsOf(rx) \cup ({m.msg} \ {0}) /\ Once(Append(rx, m))
  BY <1>1, <1>2, <1>3, AppendAdds DEF m
<1>5. MsgsOf(Append(rx, m)) = MsgsOf(rx)
  BY <1>1, <1>4 DEF m
<1> QED
  BY <1>1, <1>4, <1>5 DEF m

(* Taking the marker out of the channel takes out no message. *)
LEMMA MarkerTaken ==
    ASSUME IInv, rx # << >>, Head(rx) = Marker("Closed"), rx' = Tail(rx)
    PROVE  /\ rx' \in Seq(Items) /\ ItemsOf(rx') \subseteq ItemsOf(rx)
           /\ MsgsOf(rx') = MsgsOf(rx) /\ Once(rx')
<1>1. Head(rx).msg = 0 /\ rx \in Seq(Items) /\ Once(rx)
  BY DEF Marker, IInv, TypeInv, ApartInv
<1>2. MsgsOf(rx) \ {0} = MsgsOf(rx)
  BY DEF MsgsOf
<1> QED
  BY <1>1, <1>2, TailTakes, Zenon

(* Asking for the kick queues a marker. *)
LEMMA AskKickStep ==
    ASSUME IInv, AskKick
    PROVE  IInv'
<1>1. /\ rx' \in Seq(Items) /\ ItemsOf(rx') = ItemsOf(rx) \cup {Marker("Kick")}
      /\ MsgsOf(rx') = MsgsOf(rx) /\ Once(rx') /\ Marker("Kick").msg = 0
  BY MarkerAdds DEF AskKick
<1>2. Queued' = Queued /\ QueuedItems' = QueuedItems \cup {Marker("Kick")}
  BY <1>1 DEF Queued, QueuedItems, AskKick
<1>3. TypeInv'
  BY <1>1 DEF IInv, TypeInv, AskKick
<1>4. ApartInv'
  BY <1>1, <1>2 DEF IInv, ApartInv, AskKick
<1>5. WireInv' /\ AnswerInv' /\ AccountInv'
  BY <1>1, <1>2, QueueMove DEF AskKick
<1>6. PhaseInv'
  BY DEF IInv, PhaseInv, AskKick
<1> QED
  BY <1>3, <1>4, <1>5, <1>6 DEF IInv

(* The offline loop passes over the marker Closed. *)
LEMMA OfflineOtherStep ==
    ASSUME IInv, OfflineOther
    PROVE  IInv'
<1>1. /\ rx' \in Seq(Items) /\ ItemsOf(rx') \subseteq ItemsOf(rx)
      /\ MsgsOf(rx') = MsgsOf(rx) /\ Once(rx')
  BY MarkerTaken DEF OfflineOther
<1>2. Queued' = Queued /\ QueuedItems' \subseteq QueuedItems
  BY <1>1 DEF Queued, QueuedItems, OfflineOther
<1>3. TypeInv'
  BY <1>1 DEF IInv, TypeInv, OfflineOther
<1>4. ApartInv'
  BY <1>1, <1>2 DEF IInv, ApartInv, OfflineOther
<1>5. WireInv' /\ AnswerInv' /\ AccountInv'
  BY <1>2, QueueMove DEF OfflineOther
<1>6. PhaseInv'
  BY DEF IInv, PhaseInv, OfflineOther, Running
<1> QED
  BY <1>3, <1>4, <1>5, <1>6 DEF IInv

(* A lost connection empties the wire and queues a marker. *)
LEMMA ConnLostStep ==
    ASSUME IInv, ConnLost
    PROVE  IInv'
<1>1. /\ rx' \in Seq(Items) /\ ItemsOf(rx') = ItemsOf(rx) \cup {Marker("Closed")}
      /\ MsgsOf(rx') = MsgsOf(rx) /\ Once(rx') /\ Marker("Closed").msg = 0
  BY MarkerAdds DEF ConnLost
<1>2. Queued' = Queued /\ QueuedItems' = QueuedItems \cup {Marker("Closed")}
  BY <1>1 DEF Queued, QueuedItems, ConnLost
<1>3. TypeInv'
  BY <1>1, Zenon DEF IInv, TypeInv, ConnLost
<1>4. ApartInv'
  BY <1>1, <1>2 DEF IInv, ApartInv, ConnLost
<1>5. WireInv'
  BY DEF IInv, WireInv, ConnLost
<1>6. AnswerInv'
  <2>1. 0 \notin seen /\ Kept' = Kept
    BY DEF IInv, TypeInv, AnswerInv, Kept, ConnLost
  <2> QED
    BY <1>1, <1>2, <2>1 DEF IInv, AnswerInv, ConnLost, histories
<1>7. AccountInv'
  BY <1>2 DEF IInv, AccountInv, Held, Gone, ConnLost, histories
<1>8. PhaseInv'
  BY DEF IInv, PhaseInv, ConnLost, Running
<1> QED
  BY <1>3, <1>4, <1>5, <1>6, <1>7, <1>8 DEF IInv

(* The online loop ends: what is in the window is handed to the hook. *)
LEMMA GoOfflineStep ==
    ASSUME IInv, GoOffline
    PROVE  IInv'
<1>1. /\ rx' \in Seq(Items) /\ ItemsOf(rx') \subseteq ItemsOf(rx)
      /\ MsgsOf(rx') = MsgsOf(rx) /\ Once(rx')
  <2>1. CASE rx' = rx
    BY <2>1 DEF IInv, TypeInv, ApartInv
  <2>2. CASE rx # << >> /\ Head(rx) = Marker("Closed") /\ rx' = Tail(rx)
    BY <2>2, MarkerTaken
  <2> QED
    BY <2>1, <2>2 DEF GoOffline
<1>2. Queued' = Queued /\ QueuedItems' \subseteq QueuedItems
  BY <1>1 DEF Queued, QueuedItems, GoOffline
<1>3. win' = << >> /\ WindowMsgs(win') = {} /\ ItemsOf(win') = {}
  BY NothingHeld DEF GoOffline
<1>4. TypeInv'
  <2>1. << >> \in Seq(Entries) /\ {} \in SUBSET Messages
    OBVIOUS
  <2>2. UNCHANGED <<dq, buf, next, hs, info, forwarded>> /\ link' = FALSE /\ wire' = {}
    BY DEF GoOffline
  <2> QED
    BY <1>1, <1>3, <2>1, <2>2, Zenon DEF IInv, TypeInv
<1>5. ApartInv'
  BY <1>1, <1>2, <1>3, NothingHeld DEF IInv, ApartInv, GoOffline
<1>6. WireInv'
  BY <1>3, NothingHeld, Zenon DEF IInv, WireInv, GoOffline
<1>7. AnswerInv'
  <2>1. Kept' \subseteq Kept
    BY <1>3 DEF Kept, GoOffline
  <2> QED
    BY <1>2, <2>1 DEF IInv, AnswerInv, GoOffline
<1>8. AccountInv'
  <2>1. hooked' = hooked \cup (WindowMsgs(win) \ acked)
    BY SameSets DEF GoOffline
  <2> QED
    BY <1>2, <1>3, <2>1 DEF IInv, AccountInv, Held, Gone, GoOffline
<1>9. PhaseInv'
  BY DEF IInv, PhaseInv, GoOffline, Running
<1> QED
  BY <1>4, <1>5, <1>6, <1>7, <1>8, <1>9 DEF IInv

(* The kick ends the loop: what is behind it in the channel, in the        *)
(* limiter and in the transfer into this session is counted lost.          *)
LEMMA OnKickStep ==
    ASSUME IInv, OnKick
    PROVE  IInv'
<1>1. /\ rx' = << >> /\ buf' = << >> /\ info' = NoInfo /\ link' = FALSE /\ wire' = {}
      /\ hs' = "kicked"
      /\ UNCHANGED <<dq, win, next, phase, forwarded, takeovers, seen, acked, dropped,
                     hooked, collided>>
      /\ lost' = lost \cup ((MsgsOf(rx) \cup MsgsOf(buf) \cup MsgsOf(info.offline)
                             \cup WindowMsgs(info.inflight)) \ acked)
  BY SameSets DEF OnKick
<1>2. info'.offline = << >> /\ info'.inflight = << >>
  BY <1>1 DEF NoInfo
<1>3. Queued' = MsgsOf(dq) /\ QueuedItems' = ItemsOf(dq) /\ Kept' = ItemsOf(win)
  BY <1>1, <1>2, NothingHeld DEF Queued, QueuedItems, Kept
<1>4. TypeInv'
  <2>1. /\ << >> \in Seq(Items) /\ << >> \in Seq(Messages) /\ Len(<< >>) <= 1
        /\ {} \in SUBSET Messages
        /\ NoInfo \in [offline : Seq(Messages), inflight : Seq(Entries)]
    BY DEF NoInfo
  <2> QED
    BY <1>1, <2>1, Zenon DEF IInv, TypeInv
<1>5. ApartInv'
  <2>1. MsgsOf(dq) \subseteq Queued
    BY DEF Queued
  <2> QED
    BY <1>1, <1>2, <1>3, <2>1, NothingHeld, Zenon DEF IInv, ApartInv
<1>6. WireInv'
  BY <1>1, Zenon DEF IInv, WireInv
<1>7. AnswerInv'
  BY <1>1, <1>3 DEF IInv, AnswerInv, Queued, QueuedItems, Kept
<1>8. AccountInv'
  BY <1>1, <1>2, <1>3, NothingHeld, Zenon DEF IInv, AccountInv, Held, Gone, Queued
<1>9. PhaseInv'
  BY <1>1 DEF PhaseInv
<1> QED
  BY <1>4, <1>5, <1>6, <1>7, <1>8, <1>9 DEF IInv

(* Collecting moves the queue and the window of the old session. *)
LEMMA CollectStep ==
    ASSUME IInv, CollectInfo
    PROVE  IInv'
<1>1. /\ info' = [offline |-> dq, inflight |-> win] /\ dq' = << >> /\ win' = << >>
      /\ hs = "kicked" /\ hs' = "collected" /\ UNCHANGED histories
      /\ UNCHANGED <<rx, buf, next, phase, link, wire, forwarded, takeovers>>
  BY DEF CollectInfo, ToOfflineInfo
<1>2. /\ info'.offline = dq /\ info'.inflight = win /\ info.offline = << >>
      /\ info.inflight = << >> /\ rx = << >> /\ buf = << >> /\ ~link
  BY <1>1 DEF IInv, PhaseInv, NoInfo
<1>3. Queued' = Queued /\ QueuedItems' = QueuedItems /\ Kept' = Kept
  BY <1>1, <1>2, NothingHeld DEF Queued, QueuedItems, Kept
<1>4. TypeInv'
  BY <1>1 DEF IInv, TypeInv
<1>5. ApartInv'
  BY <1>1, <1>2, <1>3, NothingHeld DEF IInv, ApartInv
<1>6. WireInv'
  BY <1>1, <1>2, NothingHeld DEF IInv, WireInv
<1>7. AnswerInv'
  BY <1>1, <1>3 DEF IInv, AnswerInv, histories
<1>8. AccountInv'
  BY <1>1, <1>2, <1>3, NothingHeld DEF IInv, AccountInv, Held, Gone, histories
<1>9. PhaseInv'
  BY <1>1, <1>2 DEF PhaseInv
<1> QED
  BY <1>4, <1>5, <1>6, <1>7, <1>8, <1>9 DEF IInv

(* The new session begins empty, and nothing was left in the old one. *)
LEMMA StartStep ==
    ASSUME IInv, StartSession
    PROVE  IInv'
<1>1. /\ UNCHANGED <<rx, dq, buf, win, info, forwarded, takeovers>> /\ UNCHANGED histories
      /\ hs' = "none" /\ next' = 1 /\ link' = TRUE /\ wire' = {}
      /\ win = << >> /\ rx' = << >>
  BY DEF StartSession, NewSession, IInv, PhaseInv
<1>2. Queued' = Queued /\ QueuedItems' = QueuedItems /\ Kept' = Kept
  BY <1>1 DEF Queued, QueuedItems, Kept
<1>3. TypeInv'
  BY <1>1 DEF IInv, TypeInv
<1>4. ApartInv'
  BY <1>1, <1>2 DEF IInv, ApartInv
<1>5. WireInv'
  BY <1>1, NothingHeld DEF IInv, WireInv
<1>6. AnswerInv'
  BY <1>1, <1>2 DEF IInv, AnswerInv, histories
<1>7. AccountInv'
  BY <1>1, <1>2 DEF IInv, AccountInv, Held, Gone, histories
<1>8. PhaseInv'
  BY <1>1 DEF PhaseInv
<1> QED
  BY <1>3, <1>4, <1>5, <1>6, <1>7, <1>8 DEF IInv

(* Delivering moves the message from the limiter to the window and the     *)
(* wire; an entry whose packet id it takes over was on the wire too, and   *)
(* both are recorded as collided.                                          *)
LEMMA DeliverStep ==
    ASSUME IInv, Deliver
    PROVE  IInv'
<1> DEFINE p == Head(buf)
           fresh == ~p.dup \/ p.pid = NoId
           out == [p EXCEPT !.pid = IF fresh THEN NextId(win, next) ELSE @]
           m == InflightMessage(StatusOf(p), out)
           others == {o \in wire : o.pid = out.pid}
<1>1. /\ buf' = << >> /\ buf # << >> /\ hs \in {"none", "asked"}
      /\ next' = IF fresh THEN NextCounter(win, next) ELSE next
      /\ UNCHANGED <<rx, dq, phase, link, hs, info, forwarded, takeovers, acked, dropped, hooked>>
  BY DEF Deliver, Running
<1>4. /\ p \in Messages /\ MsgsOf(buf) = {p.msg} /\ ItemsOf(buf) = {p} /\ p.msg # 0
  <2>1. buf \in Seq(Messages) /\ Len(buf) <= 1 /\ buf # << >>
    BY <1>1 DEF IInv, TypeInv
  <2>4. DOMAIN buf = {1} /\ buf[1] = p /\ p \in Messages
    BY <2>1, FirstItem
  <2>3. p.msg # 0
    BY <2>4 DEF Messages
  <2> HIDE DEF p
  <2> QED
    BY <2>3, <2>4 DEF MsgsOf, ItemsOf
<1>5. next' \in Nat /\ out \in Messages /\ out.msg = p.msg
  <2>1. /\ NextId(win, next) \in 0 .. IdSpan - 1
        /\ NextCounter(win, next) \in 0 .. IdSpan - 1 /\ next \in Nat
    BY NextIdFresh DEF IInv, TypeInv
  <2>2. NextCounter(win, next) \in Nat
    BY <2>1, InflightAssumption
  <2> HIDE DEF p
  <2> QED
    BY <1>1, <1>4, <2>1, <2>2 DEF Messages
<1> HIDE DEF p, out
<1>6. Queued' = Queued \ {p.msg} /\ QueuedItems' \subseteq QueuedItems /\ p.msg \in Queued
  <2>1. MsgsOf(buf') = {} /\ ItemsOf(buf') = {}
    BY <1>1, NothingHeld
  <2> QED
    BY <1>1, <1>4, <2>1 DEF Queued, QueuedItems, IInv, ApartInv
<1>7. /\ p.msg \in 1 .. forwarded /\ p.msg \notin acked /\ p.msg \notin WindowMsgs(win)
      /\ p.msg \notin WindowMsgs(info.inflight) /\ \A o \in wire : o.msg # p.msg
  BY <1>6, Zenon DEF IInv, ApartInv, WireInv, AnswerInv
<1>8. buf' \in Seq(Messages) /\ Len(buf') <= 1 /\ MsgsOf(buf') = {} /\ Once(buf')
  BY <1>1, NothingHeld
<1>9. PhaseInv'
  BY <1>1 DEF PhaseInv
<1>2. CASE /\ link /\ out.pid # NoId
           /\ wire' = wire \cup {out} /\ win' \in PushBack(win, m)
           /\ seen' = seen \cup {p.msg} /\ lost' = lost
           /\ collided' = collided \cup {o.msg : o \in others} \cup {x \in {p.msg} : others # {}}
  <2>1. m \in Entries /\ m.publish = out /\ m.status # "UnComplete" /\ m.publish.pid # NoId
    BY <1>2, <1>4, <1>5 DEF InflightMessage, StatusOf, Entries, WindowOver, MomentStatus
  <2> DEFINE left == {e \in ItemsOf(win) : e.publish.pid # out.pid}
  <2>2. win \in Seq(Entries) /\ UniqueIds(win) /\ OnceInWindow(win)
    BY DEF IInv, TypeInv, WireInv, ApartInv
  <2>3. WindowMsgs(win) = {e.publish.msg : e \in ItemsOf(win)}
    BY SameSets
  <2> HIDE DEF m
  <2>4. win' \in Seq(Entries) /\ UniqueIds(win')
    BY <1>2, <2>1, <2>2, PushBackKeeps
  <2>5. ItemsOf(win') = left \cup {m} /\ OnceInWindow(win')
    <3>1. \A e \in ItemsOf(win) : e.publish.msg # m.publish.msg
      BY <1>5, <1>7, <2>1, <2>3
    <3> QED
      BY <1>2, <2>1, <2>2, <3>1, PushBackAdds
  <2>6. WindowMsgs(win') = {e.publish.msg : e \in ItemsOf(win')}
    BY SameSets
  <2>7. WindowMsgs(win') \subseteq WindowMsgs(win) \cup {p.msg} /\ p.msg \in WindowMsgs(win')
    BY <1>5, <2>1, <2>3, <2>5, <2>6
  <2>8. \A e \in ItemsOf(win) : e.publish \in wire
    BY <1>2 DEF IInv, WireInv
  <2>9. \A e \in ItemsOf(win) : e \in left \/ e.publish.msg \in collided'
    BY <1>2, <2>8
  <2>10. TypeInv'
    BY <1>1, <1>2, <1>5, <1>8, <2>4 DEF IInv, TypeInv
  <2>11. ApartInv'
    <3>1. OnceInWindow(win') /\ UNCHANGED <<rx, dq, info, forwarded>>
      BY <1>1, <2>5, Zenon
    <3>2. ApartInv
      BY DEF IInv
    <3>3. WindowMsgs(win') \cap (Queued' \cup WindowMsgs(info.inflight)) = {}
      BY <1>6, <1>7, <2>7, <3>2 DEF ApartInv
    <3> QED
      BY <1>6, <1>7, <1>8, <2>7, <3>1, <3>2, <3>3, Zenon DEF ApartInv
  <2>12. WireInv'
    <3>1. link' /\ \A e \in ItemsOf(win') : e.publish \in wire'
      BY <1>1, <1>2, <2>1, <2>5, <2>8
    <3>2. \A o \in wire' : o.msg \in 1 .. forwarded' /\ o.msg \notin Queued'
                            /\ o.msg \notin WindowMsgs(info.inflight)'
      BY <1>1, <1>2, <1>5, <1>6, <1>7 DEF IInv, WireInv
    <3>3. \A o, r \in wire' : o.msg = r.msg => o = r
      BY <1>2, <1>5, <1>7 DEF IInv, WireInv
    <3>4. \A o, r \in wire' : o.pid = r.pid /\ o # r => o.msg \in collided'
      BY <1>2, <1>5 DEF IInv, WireInv
    <3> QED
      BY <2>4, <3>1, <3>2, <3>3, <3>4 DEF WireInv
  <2>13. AnswerInv'
    <3>1. \A q \in QueuedItems' : q.msg \in seen' => q.dup
      <4>1. \A q \in QueuedItems' : q.msg # 0 => q.msg \in Queued'
        BY DEF QueuedItems, Queued, ItemsOf, MsgsOf
      <4> QED
        BY <1>2, <1>4, <1>6, <4>1 DEF IInv, AnswerInv
    <3>2. Kept' \subseteq Kept \cup {m}
      BY <1>1, <2>5 DEF Kept
    <3> QED
      BY <1>1, <1>2, <1>5, <1>6, <1>7, <2>1, <3>1, <3>2, Zenon DEF IInv, AnswerInv
  <2>14. AccountInv'
    <3>1. WindowMsgs(win) \subseteq WindowMsgs(win') \cup collided'
      BY <2>3, <2>5, <2>6, <2>9
    <3> QED
      BY <1>1, <1>2, <1>6, <2>7, <3>1 DEF IInv, AccountInv, Held, Gone
  <2> QED
    BY <1>9, <2>10, <2>11, <2>12, <2>13, <2>14 DEF IInv
<1>3. CASE lost' = lost \cup {p.msg} /\ UNCHANGED <<wire, win, seen, collided>>
  <2>1. TypeInv'
    BY <1>1, <1>3, <1>5, <1>8 DEF IInv, TypeInv
  <2>2. ApartInv'
    BY <1>1, <1>3, <1>6, <1>8, Zenon DEF IInv, ApartInv
  <2>3. WireInv'
    BY <1>1, <1>3, <1>6 DEF IInv, WireInv
  <2>4. AnswerInv'
    <3>1. Kept' = Kept
      BY <1>1, <1>3 DEF Kept
    <3> QED
      BY <1>1, <1>3, <1>6, <3>1 DEF IInv, AnswerInv
  <2>5. AccountInv'
    BY <1>1, <1>3, <1>6 DEF IInv, AccountInv, Held, Gone
  <2> QED
    BY <1>9, <2>1, <2>2, <2>3, <2>4, <2>5 DEF IInv
<1> QED
  BY <1>2, <1>3 DEF Deliver, p, out

(* Two packets on the wire with one id, or one packet: so the entry that   *)
(* an answer is taken for is the message's own, or has collided.           *)
LEMMA EntryOfAnswer ==
    ASSUME IInv, link, NEW p \in wire, NEW e \in ItemsOf(win)
    PROVE  /\ e.publish.pid = p.pid => e.publish = p \/ e.publish.msg \in collided
           /\ e.publish.msg = p.msg => e.publish = p
BY DEF IInv, WireInv

(* An answer that takes the entry with its packet id out of the window:    *)
(* PUBACK, and PUBCOMP of a message the client has answered before.        *)
LEMMA EntryTaken ==
    ASSUME IInv, link, NEW p \in wire, wire' = wire \ {p}, win' = Remove(win, p.pid),
           acked' = acked \cup {p.msg},
           UNCHANGED <<rx, dq, buf, next, phase, link, hs, info, forwarded, takeovers,
                       seen, dropped, hooked, lost, collided>>
    PROVE  IInv'
<1>1. /\ win \in Seq(Entries) /\ UniqueIds(win) /\ OnceInWindow(win) /\ p \in Messages
      /\ p.msg \in 1 .. forwarded /\ p.msg \notin Queued /\ p.msg \notin WindowMsgs(info.inflight)
  BY Zenon DEF IInv, TypeInv, WireInv, ApartInv
<1>2. win' \in Seq(Entries) /\ UniqueIds(win')
  BY <1>1, RemoveKeeps
<1>3. /\ ItemsOf(win') = {e \in ItemsOf(win) : e.publish.pid # p.pid}
      /\ OnceInWindow(win')
  <2>1. /\ ItemsOf(Remove(win, p.pid)) = {e \in ItemsOf(win) : e.publish.pid # p.pid}
        /\ OnceInWindow(win) => OnceInWindow(Remove(win, p.pid))
    BY <1>1, RemoveTakes, Zenon
  <2> QED
    BY <1>1, <2>1
<1>4. /\ WindowMsgs(win') = {e.publish.msg : e \in ItemsOf(win')}
      /\ WindowMsgs(win) = {e.publish.msg : e \in ItemsOf(win)}
  BY SameSets
<1>5. Queued' = Queued /\ QueuedItems' = QueuedItems
  BY DEF Queued, QueuedItems
<1>6. WindowMsgs(win') \subseteq WindowMsgs(win)
  BY <1>3, <1>4
<1>7. TypeInv'
  BY <1>2 DEF IInv, TypeInv
<1>8. ApartInv'
  BY <1>3, <1>5, <1>6, Zenon DEF IInv, ApartInv
<1>9. \A e \in ItemsOf(win') : e.publish # p /\ e.publish.msg # p.msg
  BY <1>3, EntryOfAnswer
<1>10. WireInv'
  BY <1>2, <1>3, <1>5, <1>9, Zenon DEF IInv, WireInv
<1>11. AnswerInv'
  <2>1. Kept' \subseteq Kept /\ \A e \in Kept' : e.publish.msg # p.msg
    <3>1. \A e \in ItemsOf(info.inflight) : e.publish.msg # p.msg
      BY <1>1, SameSets
    <3> QED
      BY <1>3, <1>9, <3>1 DEF Kept
  <2> QED
    BY <1>1, <1>5, <2>1, Zenon DEF IInv, AnswerInv
<1>12. AccountInv'
  <2>1. \A e \in ItemsOf(win) :
           e \in ItemsOf(win') \/ e.publish.msg \in acked' \cup collided
    BY <1>3, EntryOfAnswer
  <2>2. WindowMsgs(win) \subseteq WindowMsgs(win') \cup acked' \cup collided
    BY <1>4, <2>1
  <2> QED
    BY <1>5, <2>2 DEF IInv, AccountInv, Held, Gone
<1>13. PhaseInv'
  BY DEF IInv, PhaseInv
<1> QED
  BY <1>7, <1>8, <1>10, <1>11, <1>12, <1>13 DEF IInv

(* PUBREC makes the entry with its packet id UnComplete. *)
LEMMA EntryReceived ==
    ASSUME IInv, link, NEW p \in wire, wire' = wire,
           win' = UpdateStatus(win, p.pid, "UnComplete"), acked' = acked \cup {p.msg},
           UNCHANGED <<rx, dq, buf, next, phase, link, hs, info, forwarded, takeovers,
                       seen, dropped, hooked, lost, collided>>
    PROVE  IInv'
<1>1. /\ win \in Seq(Entries) /\ UniqueIds(win) /\ OnceInWindow(win) /\ p \in Messages
      /\ p.msg \in 1 .. forwarded /\ p.msg \notin Queued /\ p.msg \notin WindowMsgs(info.inflight)
  BY Zenon DEF IInv, TypeInv, WireInv, ApartInv
<1>2. win' \in Seq(Entries) /\ UniqueIds(win')
  <2>1. "UnComplete" \in MomentStatus
    BY DEF MomentStatus
  <2> QED
    BY <1>1, <2>1, UpdateStatusKeeps DEF Entries
<1>3. /\ \A e \in ItemsOf(win') : \E d \in ItemsOf(win) :
            /\ e.publish = d.publish
            /\ e.status = IF d.publish.pid = p.pid THEN "UnComplete" ELSE d.status
      /\ WindowMsgs(win') = WindowMsgs(win)
      /\ OnceInWindow(win')
  BY <1>1, UpdateStatusSets, SMTT(30) DEF Entries
<1>4. Queued' = Queued /\ QueuedItems' = QueuedItems
  BY DEF Queued, QueuedItems
<1>5. TypeInv'
  BY <1>2 DEF IInv, TypeInv
<1>6. ApartInv'
  BY <1>3, <1>4, Zenon DEF IInv, ApartInv
<1>7. WireInv'
  BY <1>2, <1>3, <1>4 DEF IInv, WireInv
<1>8. AnswerInv'
  <2>1. ASSUME NEW e \in Kept'
        PROVE  /\ e.publish.msg \in acked' => e.status = "UnComplete"
               /\ e.status = "UnComplete" => e.publish.msg \in acked' \cup collided
    <3>1. CASE e \in ItemsOf(info.inflight)
      <4>1. e.publish.msg # p.msg
        BY <1>1, <3>1, SameSets
      <4> QED
        BY <3>1, <4>1 DEF IInv, AnswerInv, Kept
    <3>2. CASE e \in ItemsOf(win')
      <4>1. PICK d \in ItemsOf(win) :
               /\ e.publish = d.publish
               /\ e.status = IF d.publish.pid = p.pid THEN "UnComplete" ELSE d.status
        BY <1>3, <3>2
      <4>2. /\ d.publish.pid = p.pid => d.publish = p \/ d.publish.msg \in collided
            /\ d.publish.msg = p.msg => d.publish = p
        BY EntryOfAnswer
      <4>3. /\ d.publish.msg \in acked => d.status = "UnComplete"
            /\ d.status = "UnComplete" => d.publish.msg \in acked \cup collided
        BY Zenon DEF IInv, AnswerInv, Kept
      <4> QED
        BY <4>1, <4>2, <4>3
    <3> QED
      BY <3>1, <3>2 DEF Kept
  <2> QED
    BY <1>1, <1>4, <2>1, Zenon DEF IInv, AnswerInv
<1>9. AccountInv'
  BY <1>3, <1>4 DEF IInv, AccountInv, Held, Gone
<1>10. PhaseInv'
  BY DEF IInv, PhaseInv
<1> QED
  BY <1>5, <1>6, <1>7, <1>8, <1>9, <1>10 DEF IInv

(* The answers of the client. *)
LEMMA AnswerSteps ==
    ASSUME IInv, NEW p \in wire, ClientAnswers(p) \/ ClientCompletes(p)
    PROVE  IInv'
<1>1. CASE ClientAnswers(p) /\ p.qos = 1
  BY <1>1, EntryTaken DEF ClientAnswers
<1>2. CASE ClientAnswers(p) /\ p.qos # 1
  BY <1>2, EntryReceived DEF ClientAnswers
<1>3. CASE ClientCompletes(p)
  <2>1. acked' = acked \cup {p.msg}
    BY <1>3 DEF ClientCompletes, histories
  <2> QED
    BY <1>3, <2>1, EntryTaken, Zenon DEF ClientCompletes, histories
<1> QED
  BY <1>1, <1>2, <1>3

-----------------------------------------------------------------------------
(* The initial state. *)
LEMMA InitIInv == TakeoverInit => IInv
<1> SUFFICES ASSUME TakeoverInit PROVE IInv
  OBVIOUS
<1>1. info.offline = << >> /\ info.inflight = << >>
  BY DEF TakeoverInit, NoInfo
<1>2. Queued = {} /\ QueuedItems = {} /\ Kept = {}
  BY <1>1, NothingHeld DEF TakeoverInit, Queued, QueuedItems, Kept
<1>3. TypeInv
  <2>1. /\ << >> \in Seq(Items) /\ << >> \in Seq(Messages) /\ << >> \in Seq(Entries)
        /\ Len(<< >>) <= 1 /\ {} \in SUBSET Messages
        /\ NoInfo \in [offline : Seq(Messages), inflight : Seq(Entries)]
    BY DEF NoInfo
  <2> QED
    BY <2>1 DEF TakeoverInit, TypeInv
<1>4. ApartInv
  BY <1>1, <1>2, NothingHeld DEF TakeoverInit, ApartInv
<1>5. WireInv /\ AnswerInv
  BY <1>2, NothingHeld DEF TakeoverInit, WireInv, AnswerInv
<1>6. PhaseInv /\ AccountInv
  BY DEF TakeoverInit, PhaseInv, AccountInv
<1> QED
  BY <1>3, <1>4, <1>5, <1>6 DEF IInv

(* Every step keeps the invariant. *)
LEMMA NextIInv == IInv /\ [TakeoverNext]_takeoverVars => IInv'
<1> SUFFICES ASSUME IInv, [TakeoverNext]_takeoverVars PROVE IInv'
  OBVIOUS
<1>1. CASE UNCHANGED takeoverVars
  <2>1. /\ UNCHANGED <<rx, dq, buf, win, next, phase, link, hs, info, wire, forwarded, takeovers>>
        /\ UNCHANGED histories
    BY <1>1 DEF takeoverVars, histories
  <2>2. Queued' = Queued /\ QueuedItems' = QueuedItems
    BY <2>1 DEF Queued, QueuedItems
  <2>3. TypeInv' /\ PhaseInv'
    BY <2>1 DEF IInv, TypeInv, PhaseInv
  <2>4. ApartInv'
    BY <2>1, <2>2 DEF IInv, ApartInv
  <2>5. WireInv' /\ AnswerInv' /\ AccountInv'
    BY <2>1, <2>2, QueueMove
  <2> QED
    BY <2>3, <2>4, <2>5 DEF IInv
<1>2. CASE \E q \in Qos : ForwardMsg(q)
  BY <1>2, ForwardStep
<1>3. CASE \E p \in wire : ClientAnswers(p) \/ ClientCompletes(p)
  BY <1>3, AnswerSteps
<1>4. CASE RecvForward \/ Pull \/ Deliver \/ ConnLost \/ GoOffline \/ OfflineOther
  BY <1>4, RecvForwardStep, PullStep, DeliverStep, ConnLostStep, GoOfflineStep, OfflineOtherStep
<1>5. CASE \/ AskKick \/ OnKick \/ CollectInfo \/ StartSession
           \/ TransferInflight \/ TransferOffline
  BY <1>5, AskKickStep, OnKickStep, CollectStep, StartStep, TransferInflightStep,
     TransferOfflineStep
<1> QED
  BY <1>1, <1>2, <1>3, <1>4, <1>5 DEF TakeoverNext

(* The inductive invariant holds throughout. *)
THEOREM TakeoverInvariant == TakeoverSpec => []IInv
BY InitIInv, NextIInv, PTL DEF TakeoverSpec

(* The places of a message are apart, so it is in one at most. *)
LEMMA ApartIsOnePlace == IInv => OnePlace
<1> SUFFICES ASSUME IInv, NEW m \in 1 .. forwarded, NEW a \in Places(m), NEW b \in Places(m)
             PROVE  a = b
  BY DEF OnePlace
<1> DEFINE In(name, s) == {<<name, i>> : i \in {j \in DOMAIN s : s[j].msg = m}}
           InWin(name, w) == {<<name, i>> : i \in {j \in DOMAIN w : w[j].publish.msg = m}}
<1>1. m # 0
  BY DEF IInv, TypeInv
<1>2. ASSUME NEW name, NEW s, NEW c \in In(name, s), NEW d \in In(name, s), Once(s)
      PROVE  c = d /\ m \in MsgsOf(s)
  BY <1>1, <1>2 DEF Once, MsgsOf
<1>3. ASSUME NEW name, NEW w, NEW c \in InWin(name, w), NEW d \in InWin(name, w), OnceInWindow(w)
      PROVE  c = d /\ m \in WindowMsgs(w)
  BY <1>3 DEF OnceInWindow, WindowMsgs
<1>4. Places(m) = In("rx", rx) \cup In("dq", dq) \cup In("buf", buf) \cup In("offline", info.offline)
                  \cup InWin("win", win) \cup InWin("inflight", info.inflight)
  BY Zenon DEF Places
<1> HIDE DEF In, InWin
<1>5. m \in MsgsOf(rx) => m \notin MsgsOf(dq) /\ m \notin MsgsOf(buf) /\ m \notin MsgsOf(info.offline)
  BY DEF IInv, ApartInv
<1>6. m \in MsgsOf(dq) => m \notin MsgsOf(buf) /\ m \notin MsgsOf(info.offline)
  BY DEF IInv, ApartInv
<1>7. m \in MsgsOf(buf) => m \notin MsgsOf(info.offline)
  BY DEF IInv, ApartInv
<1>8. /\ m \in WindowMsgs(win) \/ m \in WindowMsgs(info.inflight)
           => /\ m \notin MsgsOf(rx) /\ m \notin MsgsOf(dq)
              /\ m \notin MsgsOf(buf) /\ m \notin MsgsOf(info.offline)
      /\ m \in WindowMsgs(win) => m \notin WindowMsgs(info.inflight)
  BY DEF IInv, ApartInv, Queued
<1>9. /\ Once(rx) /\ Once(dq) /\ Once(buf) /\ Once(info.offline)
      /\ OnceInWindow(win) /\ OnceInWindow(info.inflight)
  BY DEF IInv, ApartInv
<1> QED
  BY <1>2, <1>3, <1>4, <1>5, <1>6, <1>7, <1>8, <1>9

(* transfer_session_state and the loops around it carry every message: for *)
(* every window, id range and number of takeovers, none vanishes           *)
(* unaccounted and none is in two places.                                  *)
THEOREM TakeoverCarries == TakeoverSpec => []Carried
<1>1. IInv => Accounted
  <2> SUFFICES ASSUME IInv PROVE Accounted
    OBVIOUS
  <2>1. InBroker = Held
    BY SameSets DEF InBroker, Held, Queued
  <2> QED
    BY <2>1 DEF IInv, AccountInv, Accounted, Gone
<1>2. IInv => Carried
  BY <1>1, ApartIsOnePlace DEF Carried
<1> QED
  BY <1>2, TakeoverInvariant, PTL

(* What the next session sends again is marked dup if the client may have  *)
(* it, and is never a QoS 2 message the client has taken over.             *)
THEOREM TakeoverResendsHonestly == TakeoverSpec => []ResentHonestly
<1>1. IInv => DupMarked
  <2> SUFFICES ASSUME IInv PROVE DupMarked
    OBVIOUS
  <2>1. \A q \in {rx, dq, buf, info.offline} : \A i \in DOMAIN q : q[i] \in QueuedItems
    BY DEF QueuedItems, ItemsOf
  <2> QED
    BY <2>1 DEF IInv, AnswerInv, DupMarked
<1>2. IInv => NotResent
  <2> SUFFICES ASSUME IInv PROVE NotResent
    OBVIOUS
  <2>1. TakenMsgs(rx) \cup TakenMsgs(dq) \cup TakenMsgs(buf) \cup TakenMsgs(info.offline) = Queued
    BY SameSets DEF Queued
  <2> QED
    BY <2>1 DEF IInv, ApartInv, AnswerInv, NotResent
<1>3. IInv => ResentHonestly
  BY <1>1, <1>2 DEF ResentHonestly
<1> QED
  BY <1>3, TakeoverInvariant, PTL
=============================================================================
