--------------------------- MODULE Inflight_proofs --------------------------
(***************************************************************************)
(* What the operations of the in-flight window preserve, for every window, *)
(* cap and range of packet ids.                                            *)
(***************************************************************************)
EXTENDS Inflight, WellFoundedInduction, TLAPS

\* A window over any set of publishes that carry a packet id.
WindowOver(P) == [publish : P, status : MomentStatus, late : BOOLEAN]

\* No two entries share an id and none is 0.
UniqueIds(w) ==
    /\ \A i \in DOMAIN w : w[i].publish.pid # NoId
    /\ \A i, j \in DOMAIN w : w[i].publish.pid = w[j].publish.pid => i = j

(* A nonempty set of natural numbers has a least element. *)
LEMMA LeastNat ==
    ASSUME NEW S \in SUBSET Nat, S # {}
    PROVE  \E k \in S : \A j \in S : k <= j
<1>1. PICK k \in S : \A j \in S : ~ (<<j, k>> \in OpToRel(<, Nat))
  BY NatLessThanWellFounded, WFMin
<1>2. \A j \in S : ~ (j < k)
  BY <1>1 DEF OpToRel
<1> QED
  BY <1>2, SMT

(* next_id: it returns a value of the counter, and an id it returns is     *)
(* not 0 and not in the window.                                            *)
LEMMA NextIdFresh ==
    ASSUME NEW w, NEW n \in Nat
    PROVE  /\ NextId(w, n) \in 0 .. IdSpan - 1
           /\ NextCounter(w, n) \in 0 .. IdSpan - 1
           /\ NextId(w, n) # NoId => NextId(w, n) \notin Ids(w)
<1>1. \A a \in Nat : a % IdSpan \in 0 .. IdSpan - 1
  BY InflightAssumption
<1>2. CASE Tries(w, n) = {}
  BY <1>1, <1>2, InflightAssumption DEF NextId, NextCounter, NoId
<1>3. CASE Tries(w, n) # {}
  <2>1. Tries(w, n) \in SUBSET Nat
    BY InflightAssumption DEF Tries
  <2>2. FirstTry(w, n) \in Tries(w, n)
    BY <2>1, <1>3, LeastNat DEF FirstTry
  <2>3. FirstTry(w, n) \in Nat /\ (n + FirstTry(w, n)) % IdSpan \notin Ids(w)
    BY <2>2 DEF Tries
  <2> QED
    BY <1>1, <1>3, <2>3 DEF NextId, NextCounter
<1> QED
  BY <1>2, <1>3

-----------------------------------------------------------------------------
(* pop_front keeps the ids unique. *)
LEMMA TailKeeps ==
    ASSUME NEW E, NEW w \in Seq(E), w # << >>, UniqueIds(w)
    PROVE  /\ Tail(w) \in Seq(E)
           /\ Len(Tail(w)) = Len(w) - 1
           /\ UniqueIds(Tail(w))
<1>1. Tail(w) \in Seq(E) /\ Len(Tail(w)) = Len(w) - 1
  OBVIOUS
<1>2. \A i \in DOMAIN Tail(w) : Tail(w)[i] = w[i + 1] /\ i \in Nat /\ i + 1 \in DOMAIN w
  OBVIOUS
<1>3. UniqueIds(Tail(w))
  BY <1>2 DEF UniqueIds
<1> QED
  BY <1>1, <1>3

(* remove takes the id out of the window, shortens it by the entry it had, *)
(* and leaves the other entries alone.                                     *)
LEMMA RemoveKeeps ==
    ASSUME NEW E, NEW w \in Seq(E), UniqueIds(w), NEW id
    PROVE  /\ Remove(w, id) \in Seq(E)
           /\ Len(Remove(w, id)) = IF id \in Ids(w) THEN Len(w) - 1 ELSE Len(w)
           /\ id \notin Ids(Remove(w, id))
           /\ UniqueIds(Remove(w, id))
<1>1. CASE id \notin Ids(w)
  BY <1>1 DEF Remove
<1>2. CASE id \in Ids(w)
  <2> DEFINE k == PosOf(w, id)
             x == Remove(w, id)
  <2>1. k \in DOMAIN w /\ w[k].publish.pid = id
    BY <1>2 DEF PosOf, Ids
  <2>2. k \in 1 .. Len(w) /\ Len(w) \in Nat /\ DOMAIN w = 1 .. Len(w)
    BY <2>1
  <2>3. x = [i \in 1 .. Len(w) - 1 |-> IF i < k THEN w[i] ELSE w[i + 1]]
    BY <1>2 DEF Remove, WithoutPos
  <2> HIDE DEF k
  <2>4. x \in Seq(E) /\ Len(x) = Len(w) - 1 /\ DOMAIN x = 1 .. Len(w) - 1
    <3>1. \A i \in 1 .. Len(w) - 1 : (IF i < k THEN w[i] ELSE w[i + 1]) \in E
      BY <2>2
    <3> QED
      BY <2>2, <2>3, <3>1
  <2>5. \A i \in DOMAIN x : \E j \in DOMAIN w :
           /\ x[i] = w[j] /\ j # k
           /\ j = IF i < k THEN i ELSE i + 1
    <3> SUFFICES ASSUME NEW i \in 1 .. Len(w) - 1
                 PROVE  \E j \in DOMAIN w : /\ x[i] = w[j] /\ j # k
                                            /\ j = IF i < k THEN i ELSE i + 1
      BY <2>4
    <3>1. CASE i < k
      BY <3>1, <2>2, <2>3
    <3>2. CASE ~(i < k)
      BY <3>2, <2>2, <2>3
    <3> QED
      BY <3>1, <3>2
  <2>6. id \notin Ids(x)
    BY <2>1, <2>5 DEF Ids, UniqueIds
  <2>7. UniqueIds(x)
    <3>1. \A i \in DOMAIN x : x[i].publish.pid # NoId
      BY <2>5 DEF UniqueIds
    <3>2. ASSUME NEW i \in DOMAIN x, NEW j \in DOMAIN x,
                 x[i].publish.pid = x[j].publish.pid
          PROVE  i = j
      <4>1. PICK ii \in DOMAIN w : x[i] = w[ii] /\ ii # k /\ ii = IF i < k THEN i ELSE i + 1
        BY <2>5
      <4>2. PICK jj \in DOMAIN w : x[j] = w[jj] /\ jj # k /\ jj = IF j < k THEN j ELSE j + 1
        BY <2>5
      <4>3. ii = jj
        BY <4>1, <4>2, <3>2 DEF UniqueIds
      <4> QED
        BY <4>1, <4>2, <4>3, <2>2, <2>4
    <3> QED
      BY <3>1, <3>2 DEF UniqueIds
  <2> QED
    BY <1>2, <2>4, <2>6, <2>7
<1> QED
  BY <1>1, <1>2

(* A window whose entries keep their ids, at the same places, keeps them   *)
(* unique: replacing an entry in place, changing its status or its clock.  *)
LEMMA SameIdsKeep ==
    ASSUME NEW w, NEW x, UniqueIds(w), DOMAIN x = DOMAIN w,
           \A i \in DOMAIN w : x[i].publish.pid = w[i].publish.pid
    PROVE  UniqueIds(x)
BY DEF UniqueIds

(* update_status changes no id, no length and no other entry. *)
LEMMA UpdateStatusKeeps ==
    ASSUME NEW P, NEW w \in Seq(WindowOver(P)), UniqueIds(w),
           NEW id, NEW s \in MomentStatus
    PROVE  /\ UpdateStatus(w, id, s) \in Seq(WindowOver(P))
           /\ Len(UpdateStatus(w, id, s)) = Len(w)
           /\ UniqueIds(UpdateStatus(w, id, s))
<1> DEFINE x == UpdateStatus(w, id, s)
<1>1. Len(w) \in Nat /\ DOMAIN w = 1 .. Len(w)
  OBVIOUS
<1>2. \A i \in DOMAIN w : w[i] \in WindowOver(P)
  OBVIOUS
<1>3. \A i \in DOMAIN w : /\ x[i] \in WindowOver(P)
                          /\ x[i].publish.pid = w[i].publish.pid
  BY <1>2 DEF UpdateStatus, WindowOver
<1>4. x = [i \in 1 .. Len(w) |-> x[i]]
  BY <1>1 DEF UpdateStatus
<1> HIDE DEF x
<1>5. x \in Seq(WindowOver(P)) /\ Len(x) = Len(w) /\ DOMAIN x = DOMAIN w
  BY <1>1, <1>3, <1>4
<1>6. UniqueIds(x)
  BY <1>3, <1>5, SameIdsKeep
<1> QED
  BY <1>5, <1>6 DEF x

(* push_back of a message that carries an id: the window grows by one at   *)
(* most, and not at all when the id was in it; the ids stay unique.        *)
LEMMA PushBackKeeps ==
    ASSUME NEW E, NEW w \in Seq(E), UniqueIds(w), NEW m \in E,
           NEW x \in PushBack(w, m)
    PROVE  /\ x \in Seq(E)
           /\ Len(x) <= Len(w) + 1
           /\ UniqueIds(x)
<1> DEFINE id == m.publish.pid
<1>1. CASE id = NoId
  BY <1>1 DEF PushBack
<1>2. ASSUME NEW v \in Seq(E), UniqueIds(v), id # NoId, id \notin Ids(v)
      PROVE  /\ Append(v, m) \in Seq(E)
             /\ Len(Append(v, m)) = Len(v) + 1
             /\ UniqueIds(Append(v, m))
  <2>1. Append(v, m) \in Seq(E) /\ Len(Append(v, m)) = Len(v) + 1
    OBVIOUS
  <2>2. \A i \in DOMAIN Append(v, m) :
           \/ i \in DOMAIN v /\ Append(v, m)[i] = v[i] /\ v[i].publish.pid # id
           \/ i = Len(v) + 1 /\ Append(v, m)[i] = m
    BY <1>2 DEF Ids
  <2>3. UniqueIds(Append(v, m))
    BY <1>2, <2>2 DEF UniqueIds
  <2> QED
    BY <2>1, <2>3
<1>3. CASE id # NoId /\ id \notin Ids(w)
  <2>1. x = Append(w, m)
    BY <1>3 DEF PushBack
  <2>2. Len(w) \in Nat
    OBVIOUS
  <2> QED
    BY <1>2, <1>3, <2>1, <2>2
<1>4. CASE id # NoId /\ id \in Ids(w)
  <2> DEFINE k == PosOf(w, id)
  <2>1. k \in DOMAIN w /\ w[k].publish.pid = id
    BY <1>4 DEF PosOf, Ids
  <2>2. x = [w EXCEPT ![k] = m] \/ x = Append(Remove(w, id), m)
    BY <1>4 DEF PushBack
  <2> HIDE DEF k
  <2>3. CASE x = [w EXCEPT ![k] = m]
    <3>1. x \in Seq(E) /\ Len(x) = Len(w) /\ DOMAIN x = DOMAIN w
      BY <2>1, <2>3
    <3>2. \A i \in DOMAIN w : x[i].publish.pid = w[i].publish.pid
      BY <2>1, <2>3
    <3>3. UniqueIds(x)
      BY <3>1, <3>2, SameIdsKeep
    <3>4. Len(w) \in Nat
      OBVIOUS
    <3> QED
      BY <3>1, <3>3, <3>4
  <2>4. CASE x = Append(Remove(w, id), m)
    <3>1. /\ Remove(w, id) \in Seq(E) /\ Len(Remove(w, id)) = Len(w) - 1
          /\ id \notin Ids(Remove(w, id)) /\ UniqueIds(Remove(w, id))
      BY <1>4, RemoveKeeps
    <3>2. Len(w) \in Nat
      OBVIOUS
    <3> QED
      BY <3>1, <3>2, <1>2, <1>4, <2>4
  <2> QED
    BY <2>2, <2>3, <2>4
<1> QED
  BY <1>1, <1>3, <1>4

-----------------------------------------------------------------------------
(***************************************************************************)
(* What a window or a queue holds, as sets: the places of the messages     *)
(* matter to the order only.  A message is known by its number msg, and    *)
(* 0 is no message.                                                        *)
(***************************************************************************)
ItemsOf(s) == {s[i] : i \in DOMAIN s}
MsgsOf(s) == {s[i].msg : i \in DOMAIN s} \ {0}
WindowMsgs(w) == {w[i].publish.msg : i \in DOMAIN w}
PublishesOf(w) == {e.publish : e \in ItemsOf(w)}

\* No message is twice in the queue, or in the window.
Once(s) == \A i, j \in DOMAIN s : s[i].msg # 0 /\ s[i].msg = s[j].msg => i = j
OnceInWindow(w) == \A i, j \in DOMAIN w : w[i].publish.msg = w[j].publish.msg => i = j

(* A queue that is not empty has a first item; one of length 1 no other. *)
LEMMA FirstItem ==
    ASSUME NEW E, NEW s \in Seq(E), s # << >>
    PROVE  /\ Len(s) \in Nat \ {0} /\ DOMAIN s = 1 .. Len(s)
           /\ 1 \in DOMAIN s /\ s[1] = Head(s) /\ Head(s) \in E
           /\ Len(s) <= 1 => DOMAIN s = {1}
<1>1. Len(s) \in Nat \ {0} /\ DOMAIN s = 1 .. Len(s) /\ s[1] = Head(s) /\ Head(s) \in E
  OBVIOUS
<1> QED
  BY <1>1

(* Popping the front takes out that item and no other. *)
LEMMA TailTakes ==
    ASSUME NEW E, NEW s \in Seq(E), s # << >>
    PROVE  /\ Head(s) \in E /\ Tail(s) \in Seq(E)
           /\ ItemsOf(s) = ItemsOf(Tail(s)) \cup {Head(s)}
           /\ Once(s) => /\ Once(Tail(s))
                         /\ MsgsOf(Tail(s)) = MsgsOf(s) \ {Head(s).msg}
           /\ Head(s).msg # 0 => Head(s).msg \in MsgsOf(s)
<1>1. Head(s) \in E /\ Tail(s) \in Seq(E) /\ Len(s) \in Nat \ {0} /\ DOMAIN s = 1 .. Len(s)
  OBVIOUS
<1>2. \A i \in DOMAIN Tail(s) : i \in Nat /\ i # 0 /\ i + 1 \in DOMAIN s /\ Tail(s)[i] = s[i + 1]
  OBVIOUS
<1>4. Head(s) = s[1] /\ 1 \in DOMAIN s
  BY <1>1
<1>3. \A j \in DOMAIN s : s[j] = Head(s) \/ \E i \in DOMAIN Tail(s) : Tail(s)[i] = s[j]
  <2> SUFFICES ASSUME NEW j \in DOMAIN s, j # 1
               PROVE  \E i \in DOMAIN Tail(s) : Tail(s)[i] = s[j]
    BY <1>4
  <2>1. j - 1 \in DOMAIN Tail(s) /\ Tail(s)[j - 1] = s[j]
    OBVIOUS
  <2> QED
    BY <2>1
<1>5. ItemsOf(s) = ItemsOf(Tail(s)) \cup {Head(s)}
  <2>1. ItemsOf(s) \subseteq ItemsOf(Tail(s)) \cup {Head(s)}
    BY <1>3, Zenon DEF ItemsOf
  <2>2. ItemsOf(Tail(s)) \cup {Head(s)} \subseteq ItemsOf(s)
    BY <1>2, <1>4 DEF ItemsOf
  <2> QED
    BY <2>1, <2>2
<1>6. Head(s).msg # 0 => Head(s).msg \in MsgsOf(s)
  BY <1>4 DEF MsgsOf
<1>7. ASSUME Once(s)
      PROVE  Once(Tail(s)) /\ MsgsOf(Tail(s)) = MsgsOf(s) \ {Head(s).msg}
  <2>1. Once(Tail(s))
    BY <1>2, <1>7 DEF Once
  <2>2. \A i \in DOMAIN Tail(s) : Tail(s)[i].msg # 0 => Tail(s)[i].msg # Head(s).msg
    BY <1>2, <1>4, <1>7 DEF Once
  <2>3. MsgsOf(Tail(s)) \subseteq MsgsOf(s) \ {Head(s).msg}
    BY <1>2, <2>2 DEF MsgsOf
  <2>4. MsgsOf(s) \ {Head(s).msg} \subseteq MsgsOf(Tail(s))
    BY <1>3, Zenon DEF MsgsOf
  <2> QED
    BY <2>1, <2>3, <2>4
<1> QED
  BY <1>1, <1>5, <1>6, <1>7

(* Sending to the back adds that item, and a message that was not there is *)
(* there once.                                                             *)
LEMMA AppendAdds ==
    ASSUME NEW E, NEW s \in Seq(E), NEW x \in E
    PROVE  /\ Append(s, x) \in Seq(E)
           /\ ItemsOf(Append(s, x)) = ItemsOf(s) \cup {x}
           /\ MsgsOf(Append(s, x)) = MsgsOf(s) \cup ({x.msg} \ {0})
           /\ Once(s) /\ x.msg \notin MsgsOf(s) => Once(Append(s, x))
<1>1. Append(s, x) \in Seq(E) /\ Len(s) \in Nat
  OBVIOUS
<1>2. \A i \in DOMAIN Append(s, x) :
         (i \in DOMAIN s /\ Append(s, x)[i] = s[i]) \/ (i = Len(s) + 1 /\ Append(s, x)[i] = x)
  OBVIOUS
<1>3. \A i \in DOMAIN s : i \in DOMAIN Append(s, x) /\ Append(s, x)[i] = s[i]
  OBVIOUS
<1>4. Len(s) + 1 \in DOMAIN Append(s, x) /\ Append(s, x)[Len(s) + 1] = x
  OBVIOUS
<1>5. ItemsOf(Append(s, x)) = ItemsOf(s) \cup {x}
  BY <1>2, <1>3, <1>4 DEF ItemsOf
<1>6. MsgsOf(Append(s, x)) = MsgsOf(s) \cup ({x.msg} \ {0})
  BY <1>2, <1>3, <1>4 DEF MsgsOf
<1>7. Once(s) /\ x.msg \notin MsgsOf(s) => Once(Append(s, x))
  BY <1>2 DEF Once, MsgsOf
<1> QED
  BY <1>1, <1>5, <1>6, <1>7

(* Popping the back takes out that item and no other. *)
LEMMA FrontTakes ==
    ASSUME NEW E, NEW s \in Seq(E), s # << >>
    PROVE  LET last == s[Len(s)]  front == SubSeq(s, 1, Len(s) - 1) IN
           /\ last \in E /\ front \in Seq(E)
           /\ ItemsOf(s) = ItemsOf(front) \cup {last}
           /\ Once(s) => Once(front) /\ MsgsOf(front) = MsgsOf(s) \ {last.msg}
           /\ last.msg # 0 => last.msg \in MsgsOf(s)
           /\ OnceInWindow(s) => /\ OnceInWindow(front)
                                 /\ WindowMsgs(front) = WindowMsgs(s) \ {last.publish.msg}
           /\ last.publish.msg \in WindowMsgs(s)
<1> DEFINE last == s[Len(s)]
           front == SubSeq(s, 1, Len(s) - 1)
<1>1. Len(s) \in Nat \ {0} /\ DOMAIN s = 1 .. Len(s) /\ last \in E /\ Len(s) \in DOMAIN s
  OBVIOUS
<1>2. front \in Seq(E) /\ DOMAIN front = 1 .. Len(s) - 1
  OBVIOUS
<1>3. \A i \in DOMAIN front : i \in DOMAIN s /\ i # Len(s) /\ front[i] = s[i]
  BY <1>1, <1>2
<1>4. \A i \in DOMAIN s : i = Len(s) \/ i \in DOMAIN front
  BY <1>1, <1>2
<1> HIDE DEF front
<1>5. ItemsOf(s) = ItemsOf(front) \cup {last}
  BY <1>1, <1>3, <1>4 DEF ItemsOf
<1>6. Once(s) => Once(front) /\ MsgsOf(front) = MsgsOf(s) \ {last.msg}
  BY <1>1, <1>3, <1>4 DEF MsgsOf, Once
<1>7. last.msg # 0 => last.msg \in MsgsOf(s)
  BY <1>1 DEF MsgsOf
<1>8. OnceInWindow(s) => /\ OnceInWindow(front)
                         /\ WindowMsgs(front) = WindowMsgs(s) \ {last.publish.msg}
  BY <1>1, <1>3, <1>4 DEF WindowMsgs, OnceInWindow
<1>9. last.publish.msg \in WindowMsgs(s)
  BY <1>1 DEF WindowMsgs
<1> QED
  BY <1>1, <1>2, <1>5, <1>6, <1>7, <1>8, <1>9 DEF front

\* The place in w of the entry that remove leaves at place i.
PlaceBefore(w, id, i) == IF i < PosOf(w, id) THEN i ELSE i + 1

(* remove: the entries it leaves, where they were, and that every entry    *)
(* with another id is left.                                                *)
LEMMA RemovePlaces ==
    ASSUME NEW E, NEW w \in Seq(E), UniqueIds(w), NEW id \in Ids(w)
    PROVE  LET x == Remove(w, id) IN
           /\ \A i \in DOMAIN x : LET j == PlaceBefore(w, id, i) IN
                 j \in DOMAIN w /\ x[i] = w[j] /\ w[j].publish.pid # id
           /\ \A i, j \in DOMAIN x :
                 PlaceBefore(w, id, i) = PlaceBefore(w, id, j) => i = j
           /\ \A j \in DOMAIN w : w[j].publish.pid # id =>
                 \E i \in DOMAIN x : x[i] = w[j]
<1> DEFINE k == PosOf(w, id)
           x == Remove(w, id)
<1>1. k \in DOMAIN w /\ w[k].publish.pid = id
  BY DEF PosOf, Ids
<1>2. k \in 1 .. Len(w) /\ Len(w) \in Nat /\ DOMAIN w = 1 .. Len(w)
  BY <1>1
<1>3. x = [i \in 1 .. Len(w) - 1 |-> IF i < k THEN w[i] ELSE w[i + 1]]
  BY DEF Remove, WithoutPos
<1>4. \A i : PlaceBefore(w, id, i) = IF i < k THEN i ELSE i + 1
  BY DEF PlaceBefore
<1>5. \A j \in DOMAIN w : j # k => w[j].publish.pid # id
  BY <1>1 DEF UniqueIds
<1> HIDE DEF k, x
<1>6. ASSUME NEW i \in DOMAIN x
      PROVE  LET j == PlaceBefore(w, id, i) IN j \in DOMAIN w /\ x[i] = w[j] /\ j # k
  <2>1. i \in 1 .. Len(w) - 1
    BY <1>3
  <2>2. CASE i < k
    BY <2>1, <2>2, <1>2, <1>3, <1>4
  <2>3. CASE ~(i < k)
    BY <2>1, <2>3, <1>2, <1>3, <1>4
  <2> QED
    BY <2>2, <2>3
<1>7. \A i, j \in DOMAIN x : PlaceBefore(w, id, i) = PlaceBefore(w, id, j) => i = j
  BY <1>2, <1>3, <1>4
<1>8. ASSUME NEW j \in DOMAIN w, w[j].publish.pid # id
      PROVE  \E i \in DOMAIN x : x[i] = w[j]
  <2>1. CASE j < k
    <3>1. j \in DOMAIN x /\ x[j] = w[j]
      BY <2>1, <1>2, <1>3
    <3> QED
      BY <3>1
  <2>2. CASE ~(j < k)
    <3>1. j - 1 \in DOMAIN x /\ x[j - 1] = w[j]
      BY <2>2, <1>1, <1>8, <1>2, <1>3
    <3> QED
      BY <3>1
  <2> QED
    BY <2>1, <2>2
<1> QED
  BY <1>5, <1>6, <1>7, <1>8 DEF x

(* remove takes out the entry with the id and no other. *)
LEMMA RemoveTakes ==
    ASSUME NEW E, NEW w \in Seq(E), UniqueIds(w), NEW id
    PROVE  /\ ItemsOf(Remove(w, id)) = {e \in ItemsOf(w) : e.publish.pid # id}
           /\ OnceInWindow(w) => OnceInWindow(Remove(w, id))
<1>1. CASE id \notin Ids(w)
  BY <1>1 DEF Remove, ItemsOf, Ids
<1>2. CASE id \in Ids(w)
  <2> DEFINE x == Remove(w, id)
  <2>1. \A i \in DOMAIN x : LET j == PlaceBefore(w, id, i) IN
           j \in DOMAIN w /\ x[i] = w[j] /\ w[j].publish.pid # id
    BY <1>2, RemovePlaces
  <2>2. \A i, j \in DOMAIN x : PlaceBefore(w, id, i) = PlaceBefore(w, id, j) => i = j
    BY <1>2, RemovePlaces
  <2>3. \A j \in DOMAIN w : w[j].publish.pid # id => \E i \in DOMAIN x : x[i] = w[j]
    BY <1>2, RemovePlaces
  <2> HIDE DEF x
  <2>4. ItemsOf(x) \subseteq {e \in ItemsOf(w) : e.publish.pid # id}
    BY <2>1 DEF ItemsOf
  <2>5. {e \in ItemsOf(w) : e.publish.pid # id} \subseteq ItemsOf(x)
    BY <2>3, Zenon DEF ItemsOf
  <2>6. OnceInWindow(w) => OnceInWindow(x)
    <3> SUFFICES ASSUME OnceInWindow(w), NEW i \in DOMAIN x, NEW j \in DOMAIN x,
                        x[i].publish.msg = x[j].publish.msg
                 PROVE  i = j
      BY DEF OnceInWindow
    <3> DEFINE ii == PlaceBefore(w, id, i)
               jj == PlaceBefore(w, id, j)
    <3>1. ii \in DOMAIN w /\ jj \in DOMAIN w /\ x[i] = w[ii] /\ x[j] = w[jj]
      BY <2>1
    <3>2. ii = jj => i = j
      BY <2>2
    <3> HIDE DEF ii, jj
    <3> QED
      BY <3>1, <3>2 DEF OnceInWindow
  <2> QED
    BY <2>4, <2>5, <2>6 DEF x
<1> QED
  BY <1>1, <1>2

(* push_back keeps the entries with other ids, and adds the message. *)
LEMMA PushBackAdds ==
    ASSUME NEW E, NEW w \in Seq(E), UniqueIds(w), NEW m \in E, m.publish.pid # NoId,
           NEW x \in PushBack(w, m)
    PROVE  LET others == {e \in ItemsOf(w) : e.publish.pid # m.publish.pid} IN
           /\ ItemsOf(x) = others \cup {m}
           /\ OnceInWindow(w) /\ (\A e \in others : e.publish.msg # m.publish.msg)
                => OnceInWindow(x)
<1> DEFINE id == m.publish.pid
           others == {e \in ItemsOf(w) : e.publish.pid # id}
<1>1. ASSUME NEW v \in Seq(E), ItemsOf(v) = others, OnceInWindow(w) => OnceInWindow(v)
      PROVE  /\ ItemsOf(Append(v, m)) = others \cup {m}
             /\ OnceInWindow(w) /\ (\A e \in others : e.publish.msg # m.publish.msg)
                  => OnceInWindow(Append(v, m))
  <2>1. ItemsOf(Append(v, m)) = ItemsOf(v) \cup {m}
    BY AppendAdds
  <2>2. \A i \in DOMAIN Append(v, m) :
           (i \in DOMAIN v /\ Append(v, m)[i] = v[i]) \/ (i = Len(v) + 1 /\ Append(v, m)[i] = m)
    OBVIOUS
  <2>3. \A i \in DOMAIN v : v[i] \in others
    BY <1>1 DEF ItemsOf
  <2>4. OnceInWindow(w) /\ (\A e \in others : e.publish.msg # m.publish.msg)
           => OnceInWindow(Append(v, m))
    <3> HIDE DEF others
    <3> QED
      BY <1>1, <2>2, <2>3 DEF OnceInWindow
  <2> QED
    BY <1>1, <2>1, <2>4
<1>2. CASE id \notin Ids(w)
  <2>1. x = Append(w, m)
    BY <1>2 DEF PushBack
  <2>2. others = ItemsOf(w)
    BY <1>2 DEF Ids, ItemsOf
  <2> QED
    BY <1>1, <2>1, <2>2
<1>3. CASE id \in Ids(w)
  <2> DEFINE k == PosOf(w, id)
  <2>1. k \in DOMAIN w /\ w[k].publish.pid = id
    BY <1>3 DEF PosOf, Ids
  <2>2. x = [w EXCEPT ![k] = m] \/ x = Append(Remove(w, id), m)
    BY <1>3 DEF PushBack
  <2> HIDE DEF k
  <2>3. CASE x = [w EXCEPT ![k] = m]
    <3>1. DOMAIN x = DOMAIN w /\ x[k] = m /\ \A i \in DOMAIN w : i # k => x[i] = w[i]
      BY <2>1, <2>3
    <3>2. \A i \in DOMAIN w : i # k <=> w[i].publish.pid # id
      BY <2>1 DEF UniqueIds
    <3>3. ItemsOf(x) = others \cup {m}
      BY <2>1, <3>1, <3>2 DEF ItemsOf
    <3>4. \A i \in DOMAIN w : i # k => w[i] \in others
      BY <3>2 DEF ItemsOf
    <3>5. OnceInWindow(w) /\ (\A e \in others : e.publish.msg # m.publish.msg)
             => OnceInWindow(x)
      <4> HIDE DEF others
      <4> QED
        BY <2>1, <3>1, <3>4 DEF OnceInWindow
    <3> QED
      BY <3>3, <3>5
  <2>4. CASE x = Append(Remove(w, id), m)
    <3>1. /\ Remove(w, id) \in Seq(E)
          /\ ItemsOf(Remove(w, id)) = others
          /\ OnceInWindow(w) => OnceInWindow(Remove(w, id))
      BY RemoveKeeps, RemoveTakes
    <3> QED
      BY <3>1, <2>4, <1>1
  <2> QED
    BY <2>2, <2>3, <2>4
<1> QED
  BY <1>2, <1>3

(* update_status sets the status of the entry with the id and moves none. *)
LEMMA UpdateStatusSets ==
    ASSUME NEW P, NEW w \in Seq(WindowOver(P)), NEW id, NEW s
    PROVE  LET x == UpdateStatus(w, id, s) IN
           /\ \A e \in ItemsOf(x) : \E d \in ItemsOf(w) :
                 /\ e.publish = d.publish
                 /\ e.status = IF d.publish.pid = id THEN s ELSE d.status
           /\ WindowMsgs(x) = WindowMsgs(w)
           /\ OnceInWindow(w) => OnceInWindow(x)
<1> DEFINE x == UpdateStatus(w, id, s)
<1>1. \A i \in DOMAIN w : w[i] \in WindowOver(P)
  OBVIOUS
<1>2. DOMAIN x = DOMAIN w /\ \A i \in DOMAIN w :
         /\ x[i].publish = w[i].publish
         /\ x[i].status = IF w[i].publish.pid = id THEN s ELSE w[i].status
  BY <1>1 DEF UpdateStatus, WindowOver
<1> HIDE DEF x
<1>3. \A e \in ItemsOf(x) : \E d \in ItemsOf(w) :
         /\ e.publish = d.publish
         /\ e.status = IF d.publish.pid = id THEN s ELSE d.status
  BY <1>2 DEF ItemsOf
<1>4. WindowMsgs(x) = WindowMsgs(w)
  BY <1>2 DEF WindowMsgs
<1>5. OnceInWindow(w) => OnceInWindow(x)
  BY <1>2 DEF OnceInWindow
<1> QED
  BY <1>3, <1>4, <1>5 DEF x

(* An empty queue or window holds nothing. *)
LEMMA NothingHeld ==
    /\ MsgsOf(<< >>) = {} /\ ItemsOf(<< >>) = {} /\ WindowMsgs(<< >>) = {} /\ PublishesOf(<< >>) = {}
    /\ Once(<< >>) /\ OnceInWindow(<< >>) /\ UniqueIds(<< >>)
BY DEF MsgsOf, ItemsOf, WindowMsgs, PublishesOf, Once, OnceInWindow, UniqueIds

(* The messages of a window are those of its publishes. *)
LEMMA WindowMsgsOf == \A w : WindowMsgs(w) = {p.msg : p \in PublishesOf(w)}
BY DEF WindowMsgs, PublishesOf, ItemsOf

(* Popping the front of the window takes out that entry and no other. *)
LEMMA WindowTail ==
    ASSUME NEW E, NEW w \in Seq(E), w # << >>, OnceInWindow(w)
    PROVE  /\ Head(w) \in E /\ Head(w).publish \in PublishesOf(w)
           /\ OnceInWindow(Tail(w)) /\ PublishesOf(Tail(w)) \subseteq PublishesOf(w)
           /\ ItemsOf(Tail(w)) \subseteq ItemsOf(w) /\ Head(w) \in ItemsOf(w)
           /\ Head(w).publish.msg \in WindowMsgs(w)
           /\ WindowMsgs(Tail(w)) = WindowMsgs(w) \ {Head(w).publish.msg}
<1>1. Head(w) \in E /\ ItemsOf(w) = ItemsOf(Tail(w)) \cup {Head(w)}
  BY TailTakes
<1>2. PublishesOf(Tail(w)) \subseteq PublishesOf(w) /\ Head(w).publish \in PublishesOf(w)
  BY <1>1 DEF PublishesOf
<1>3. /\ \A i \in DOMAIN Tail(w) : i \in Nat /\ i # 0 /\ i + 1 \in DOMAIN w /\ Tail(w)[i] = w[i + 1]
      /\ \A i \in DOMAIN w : i # 1 => i - 1 \in DOMAIN Tail(w) /\ Tail(w)[i - 1] = w[i]
      /\ Head(w) = w[1] /\ 1 \in DOMAIN w
  OBVIOUS
<1>4. OnceInWindow(Tail(w))
  <2> SUFFICES ASSUME NEW i \in DOMAIN Tail(w), NEW j \in DOMAIN Tail(w),
                      Tail(w)[i].publish.msg = Tail(w)[j].publish.msg
               PROVE  i = j
    BY DEF OnceInWindow
  <2>1. i + 1 = j + 1 /\ i \in Nat /\ j \in Nat
    BY <1>3 DEF OnceInWindow
  <2> QED
    BY <2>1
<1>5. \A i \in DOMAIN Tail(w) : Tail(w)[i].publish.msg # Head(w).publish.msg
  <2> SUFFICES ASSUME NEW i \in DOMAIN Tail(w), Tail(w)[i].publish.msg = Head(w).publish.msg
               PROVE  FALSE
    OBVIOUS
  <2>1. i + 1 = 1 /\ i \in Nat /\ i # 0
    BY <1>3 DEF OnceInWindow
  <2> QED
    BY <2>1
<1>6. WindowMsgs(Tail(w)) = WindowMsgs(w) \ {Head(w).publish.msg}
  <2>1. WindowMsgs(w) = WindowMsgs(Tail(w)) \cup {Head(w).publish.msg}
    <3>1. \A v : WindowMsgs(v) = {e.publish.msg : e \in ItemsOf(v)}
      BY DEF WindowMsgs, ItemsOf
    <3> QED
      BY <1>1, <3>1
  <2>2. Head(w).publish.msg \notin WindowMsgs(Tail(w))
    BY <1>5 DEF WindowMsgs
  <2> QED
    BY <2>1, <2>2
<1>7. Head(w).publish.msg \in WindowMsgs(w)
  BY <1>3 DEF WindowMsgs
<1> QED
  BY <1>1, <1>2, <1>4, <1>6, <1>7
=============================================================================
