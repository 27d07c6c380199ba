--------------------------- MODULE Tables_proofs ----------------------------
(***************************************************************************)
(* Proofs about the tables of the broker.  Router, for any filters,        *)
(* clients and connections: under every interleaving the counters are off  *)
(* by no more than what the calls in progress owe them, and when calls     *)
(* come one at a time the tree, the keys and the relations agree.          *)
(* ClientLock: LockEntry implements Mutex, for any threads and mutexes.    *)
(***************************************************************************)
EXTENDS Router, ClientLock, FiniteSetTheorems, TLAPS

\* The part of TypeOK that needs no counting
Shapes ==
    /\ topics \subseteq Filters
    /\ entries \subseteq Filters
    /\ rels \in [Filters -> SUBSET Ids]
    /\ call \in [Ids -> Calls]

\* What At and Idle have in common with nothing else: a call that has left "idle" has a filter.
LEMMA CallForms ==
    ASSUME NEW c \in Calls
    PROVE  /\ c.at # "idle" => c.filter \in Filters
           /\ c.at # "idle" => c = At(c.at, c.filter)
           /\ c.at = "idle" <=> c = Idle
    BY DEF Calls, Labels, Idle, At

\* A relation that is removed or added is an Id, so the relations of a filter stay a set of Ids.
LEMMA StepShapes == Shapes /\ [Next]_vars => Shapes'
<1> SUFFICES ASSUME Shapes, [Next]_vars PROVE Shapes'
    OBVIOUS
<1>1. CASE UNCHANGED vars
    BY <1>1 DEF Shapes, vars, Calls, Idle, At
<1>2. ASSUME NEW i \in Ids, NEW f \in Filters, AddTopic(i, f) PROVE Shapes'
  <2>1. At("add", f) \in Calls
      BY DEF Calls, Labels
  <2>2. /\ topics' = topics \cup {f} /\ entries' = entries /\ rels' = rels
        /\ call' = [call EXCEPT ![i] = At("add", f)]
      BY <1>2 DEF AddTopic
  <2> QED BY <2>1, <2>2 DEF Shapes, Calls
<1>3. ASSUME NEW i \in Ids, NEW f \in Filters, RemoveRelation(i, f) PROVE Shapes'
  <2>1. /\ topics' = topics /\ entries' = entries
        /\ rels' = [rels EXCEPT ![f] = @ \ Removable(i, f)]
        /\ call' = [call EXCEPT ![i] = AfterRemove(rels'[f], f)]
      BY <1>3 DEF RemoveRelation
  <2>2. AfterRemove(rels'[f], f) \in Calls
      BY DEF AfterRemove, Calls, Labels
  <2>3. rels' \in [Filters -> SUBSET Ids]
      BY <2>1 DEF Shapes
  <2>4. call' \in [Ids -> Calls]
      BY <2>1, <2>2 DEF Shapes
  <2> QED BY <2>1, <2>3, <2>4 DEF Shapes
<1>4. ASSUME NEW i \in Ids, AddRelation(i) PROVE Shapes'
  <2> DEFINE f == call[i].filter
  <2>1. f \in Filters
      BY <1>4, CallForms DEF AddRelation, Shapes
  <2>2. /\ topics' = topics /\ entries' = entries \cup {f}
        /\ rels' = [rels EXCEPT ![f] = (@ \ OfClient(f, i)) \cup {i}]
        /\ call' = [call EXCEPT ![i] = AfterInsert(f, i)]
      BY <1>4 DEF AddRelation
  <2>3. AfterInsert(f, i) \in Calls
      BY <2>1 DEF AfterInsert, Calls, Labels
  <2> HIDE DEF f
  <2>4. rels' \in [Filters -> SUBSET Ids]
      BY <2>1, <2>2 DEF Shapes
  <2> QED BY <2>1, <2>2, <2>3, <2>4 DEF Shapes, Calls
<1>5. ASSUME NEW i \in Ids, RemoveEntry(i) PROVE Shapes'
  <2> DEFINE f == call[i].filter
  <2>1. f \in Filters
      BY <1>5, CallForms DEF RemoveEntry, Shapes
  <2>2. /\ topics' = topics /\ entries' = entries \ {f}
        /\ rels' = [rels EXCEPT ![f] = {}]
        /\ call' = [call EXCEPT ![i] = AfterEntry(f)]
      BY <1>5 DEF RemoveEntry
  <2> HIDE DEF f
  <2>3. AfterEntry(f) \in Calls
      BY <2>1 DEF AfterEntry, Calls, Labels
  <2> QED BY <2>1, <2>2, <2>3 DEF Shapes, Calls
<1>6. ASSUME NEW i \in Ids, RemoveTopic(i) PROVE Shapes'
  <2>1. /\ topics' \subseteq topics /\ entries' = entries /\ rels' = rels
        /\ call' = [call EXCEPT ![i] = Idle]
      BY <1>6 DEF RemoveTopic
  <2>2. Idle \in Calls
      BY DEF Calls
  <2> QED BY <2>1, <2>2 DEF Shapes, Calls
<1>7. ASSUME NEW i \in Ids, CountRelation(i) PROVE Shapes'
  <2>1. UNCHANGED <<topics, entries, rels>> /\ call' = [call EXCEPT ![i] = Idle]
      BY <1>7 DEF CountRelation
  <2>2. Idle \in Calls
      BY DEF Calls
  <2> QED BY <2>1, <2>2 DEF Shapes, Calls
<1>8. ASSUME NEW i \in Ids, UncountTopic(i) PROVE Shapes'
  <2>1. At("dropped", call[i].filter) \in Calls
      BY <1>8, CallForms DEF UncountTopic, Shapes, Calls, Labels
  <2>2. /\ UNCHANGED <<topics, entries, rels>>
        /\ call' = [call EXCEPT ![i] = At("dropped", call[i].filter)]
      BY <1>8 DEF UncountTopic
  <2> QED BY <2>1, <2>2 DEF Shapes, Calls
<1> QED BY <1>1, <1>2, <1>3, <1>4, <1>5, <1>6, <1>7, <1>8 DEF Next

-----------------------------------------------------------------------------
\* The removals that took a key out and have still to count it
Uncounted == Owing("uncounted")

\* The adds that have inserted a relation and have still to count it
Owed == Owing("added")

\* Two sets of connections that differ in i alone differ in size by at most one.
LEMMA LabelMoves ==
    ASSUME NEW before, NEW after, NEW i \in Ids,
           IsFiniteSet(before),
           \A j \in Ids : j # i => (j \in after <=> j \in before),
           before \subseteq Ids, after \subseteq Ids
    PROVE  /\ IsFiniteSet(after)
           /\ Cardinality(before) \in Nat
           /\ Cardinality(after) = Cardinality(before)
                 + (IF i \in after THEN 1 ELSE 0) - (IF i \in before THEN 1 ELSE 0)
<1> DEFINE rest == before \ {i}
<1>2. after = IF i \in after THEN rest \cup {i} ELSE rest
    OBVIOUS
<1>4. /\ IsFiniteSet(rest) /\ Cardinality(before) \in Nat
      /\ Cardinality(rest) = Cardinality(before) - (IF i \in before THEN 1 ELSE 0)
    BY FS_RemoveElement, FS_CardinalityType
<1>5. /\ IsFiniteSet(rest \cup {i}) /\ i \notin rest
      /\ Cardinality(rest \cup {i}) = Cardinality(rest) + 1
    BY <1>4, FS_AddElement
<1>6. Cardinality(rest) \in Nat
    BY <1>4, FS_CardinalityType
<1> HIDE DEF rest
<1>7. CASE i \in after
  <2>1. after = rest \cup {i}
      BY <1>2, <1>7
  <2>2. IsFiniteSet(after) /\ Cardinality(after) = Cardinality(rest) + 1
      BY <2>1, <1>5, Zenon
  <2> QED BY <1>4, <1>6, <1>7, <2>2
<1>8. CASE i \notin after
    BY <1>2, <1>4, <1>6, <1>8
<1> QED BY <1>7, <1>8

\* Only the call of i moves
Others(i) == \A j \in Ids : j # i => call'[j] = call[j]

\* A step of i moves no other call.
LEMMA OneMoves ==
    ASSUME Shapes, NEW i \in Ids, NEW c, call' = [call EXCEPT ![i] = c]
    PROVE  Others(i) /\ call'[i] = c
    BY DEF Shapes, Others

\* What a move of the call of i does to each of the two.
LEMMA UncountedMoves ==
    ASSUME IsFiniteSet(Uncounted), NEW i \in Ids, Others(i)
    PROVE  /\ IsFiniteSet(Uncounted')
           /\ Cardinality(Uncounted) \in Nat
           /\ Cardinality(Uncounted') = Cardinality(Uncounted)
                 + (IF call'[i].at = "uncounted" THEN 1 ELSE 0)
                 - (IF call[i].at = "uncounted" THEN 1 ELSE 0)
<1>2. /\ Uncounted \subseteq Ids /\ Uncounted' \subseteq Ids
      /\ i \in Uncounted <=> call[i].at = "uncounted"
      /\ i \in Uncounted' <=> call'[i].at = "uncounted"
      /\ \A j \in Ids : j # i => (j \in Uncounted' <=> j \in Uncounted)
    BY DEF Uncounted, Owing, Others
<1> HIDE DEF Uncounted
<1> QED BY <1>2, LabelMoves

LEMMA OwedMoves ==
    ASSUME IsFiniteSet(Owed), NEW i \in Ids, Others(i)
    PROVE  /\ IsFiniteSet(Owed')
           /\ Cardinality(Owed) \in Nat
           /\ Cardinality(Owed') = Cardinality(Owed)
                 + (IF call'[i].at = "added" THEN 1 ELSE 0) - (IF call[i].at = "added" THEN 1 ELSE 0)
<1>2. /\ Owed \subseteq Ids /\ Owed' \subseteq Ids
      /\ i \in Owed <=> call[i].at = "added"
      /\ i \in Owed' <=> call'[i].at = "added"
      /\ \A j \in Ids : j # i => (j \in Owed' <=> j \in Owed)
    BY DEF Owed, Owing, Others
<1> HIDE DEF Owed
<1> QED BY <1>2, LabelMoves

\* What the invariant of topics_count needs beside the count itself
TopicInv ==
    /\ Shapes /\ topicsCount \in Int
    /\ IsFiniteSet(Uncounted) /\ TopicsCounted

\* The labels that the steps which leave topics_count alone put a call to.
LEMMA MovesOn ==
    ASSUME NEW i \in Ids, NEW f \in Filters
    PROVE  /\ AfterRemove(rels'[f], f).at \in {"idle", "emptied"}
           /\ AfterInsert(f, i).at = IF OfClient(f, i) = {} THEN "added" ELSE "idle"
           /\ AfterEntry(f).at = IF f \in entries THEN "uncounted" ELSE "dropped"
           /\ AfterEntry(f).filter = f
           /\ Idle.at = "idle"
           /\ \A l \in Labels : At(l, f).at = l /\ At(l, f).filter = f
    BY DEF AfterRemove, AfterInsert, AfterEntry, Idle, At

\* One step changes topics_count, the keys and the removals that owe it a count together.
LEMMA StepCounted == TopicInv /\ [Next]_vars => TopicInv'
<1> SUFFICES ASSUME TopicInv, [Next]_vars PROVE TopicInv'
    OBVIOUS
<1>0. Shapes /\ Shapes' /\ topicsCount \in Int /\ IsFiniteSet(Uncounted)
    BY StepShapes DEF TopicInv
<1>1. IsFiniteSet(entries) /\ Cardinality(entries) \in Nat
    BY <1>0, FS_Subset, FS_CardinalityType, RouterAssumption DEF Shapes
<1>2. ASSUME UNCHANGED <<entries, topicsCount>>, NEW i \in Ids, NEW c,
             c.at # "uncounted", call[i].at # "uncounted", call' = [call EXCEPT ![i] = c]
      PROVE  TopicInv'
  <2>0. Others(i) /\ call'[i] = c
      BY <1>0, <1>2, OneMoves, Zenon
  <2>1. IsFiniteSet(Uncounted') /\ Cardinality(Uncounted') = Cardinality(Uncounted)
      BY <1>0, <1>2, <2>0, UncountedMoves
  <2> QED BY <1>0, <1>2, <2>1 DEF TopicInv, TopicsCounted, Uncounted
<1>3. CASE UNCHANGED vars
    BY <1>3, <1>0 DEF vars, TopicInv, TopicsCounted, Uncounted, Owing
<1>4. ASSUME NEW i \in Ids, NEW f \in Filters, AddTopic(i, f) \/ RemoveRelation(i, f)
      PROVE  TopicInv'
    BY <1>2, <1>4, MovesOn DEF AddTopic, RemoveRelation, Begin, Labels
<1>5. ASSUME NEW i \in Ids, CountRelation(i) \/ RemoveTopic(i) PROVE TopicInv'
    BY <1>2, <1>5 DEF CountRelation, RemoveTopic, Idle
<1>6. ASSUME NEW i \in Ids, AddRelation(i) PROVE TopicInv'
  <2> DEFINE f == call[i].filter
  <2>1. f \in Filters /\ call[i].at = "add"
      BY <1>0, <1>6, CallForms DEF AddRelation, Shapes
  <2>2. /\ entries' = entries \cup {f}
        /\ topicsCount' = IF f \in entries THEN topicsCount ELSE topicsCount + 1
        /\ call' = [call EXCEPT ![i] = AfterInsert(f, i)]
      BY <1>6 DEF AddRelation
  <2> HIDE DEF f
  <2>3. Cardinality(entries \cup {f}) =
            IF f \in entries THEN Cardinality(entries) ELSE Cardinality(entries) + 1
      BY <1>1, FS_AddElement
  <2>4. AfterInsert(f, i).at # "uncounted"
      BY <2>1, MovesOn
  <2>0. Others(i) /\ call'[i] = AfterInsert(f, i)
      BY <1>0, <2>2, OneMoves, Zenon
  <2>5. /\ IsFiniteSet(Uncounted') /\ Cardinality(Uncounted) \in Nat
        /\ Cardinality(Uncounted') = Cardinality(Uncounted)
      BY <1>0, <2>0, <2>1, <2>4, UncountedMoves
  <2> QED BY <1>0, <1>1, <2>2, <2>3, <2>5 DEF TopicInv, TopicsCounted, Uncounted
<1>7. ASSUME NEW i \in Ids, RemoveEntry(i) PROVE TopicInv'
  <2> DEFINE f == call[i].filter
  <2>1. f \in Filters /\ call[i].at = "emptied"
      BY <1>0, <1>7, CallForms DEF RemoveEntry, Shapes
  <2>2. /\ entries' = entries \ {f} /\ topicsCount' = topicsCount
        /\ call' = [call EXCEPT ![i] = AfterEntry(f)]
      BY <1>7 DEF RemoveEntry
  <2> HIDE DEF f
  <2>3. Cardinality(entries \ {f}) =
            IF f \in entries THEN Cardinality(entries) - 1 ELSE Cardinality(entries)
      BY <1>1, FS_RemoveElement
  <2>4. AfterEntry(f).at = IF f \in entries THEN "uncounted" ELSE "dropped"
      BY <2>1, MovesOn
  <2>0. Others(i) /\ call'[i] = AfterEntry(f)
      BY <1>0, <2>2, OneMoves, Zenon
  <2>5. /\ IsFiniteSet(Uncounted') /\ Cardinality(Uncounted) \in Nat
        /\ Cardinality(Uncounted') = Cardinality(Uncounted)
              + (IF f \in entries THEN 1 ELSE 0)
      BY <1>0, <2>0, <2>1, <2>4, UncountedMoves
  <2> QED BY <1>0, <1>1, <2>2, <2>3, <2>5 DEF TopicInv, TopicsCounted, Uncounted
<1>8. ASSUME NEW i \in Ids, UncountTopic(i) PROVE TopicInv'
  <2> DEFINE c == At("dropped", call[i].filter)
  <2>1. /\ entries' = entries /\ topicsCount' = topicsCount - 1
        /\ call' = [call EXCEPT ![i] = c] /\ call[i].at = "uncounted"
      BY <1>8 DEF UncountTopic
  <2>2. c.at = "dropped"
      BY DEF At
  <2> HIDE DEF c
  <2>0. Others(i) /\ call'[i] = c
      BY <1>0, <2>1, OneMoves, Zenon
  <2>3. /\ IsFiniteSet(Uncounted') /\ Cardinality(Uncounted) \in Nat
        /\ Cardinality(Uncounted') = Cardinality(Uncounted) - 1
      BY <1>0, <2>0, <2>1, <2>2, UncountedMoves
  <2> QED BY <1>0, <1>1, <2>1, <2>3 DEF TopicInv, TopicsCounted, Uncounted
<1> QED BY <1>3, <1>4, <1>5, <1>6, <1>7, <1>8 DEF Next

(***************************************************************************)
(* In every state of every run, however the steps of add and remove        *)
(* interleave, topics_count is the number of keys of relations and of the  *)
(* removals that took a key out and have still to count it.                *)
(***************************************************************************)
THEOREM TopicsStayCounted == Spec => []TopicsCounted
<1>1. Init => TopicInv
  <2> SUFFICES ASSUME Init PROVE TopicInv
      OBVIOUS
  <2>1. Shapes
      BY DEF Init, Shapes, Calls
  <2>2. Uncounted = {} /\ entries = {} /\ topicsCount = 0
      BY DEF Init, Uncounted, Owing, Idle
  <2> QED BY <2>1, <2>2, FS_EmptySet DEF TopicInv, TopicsCounted, Uncounted
<1>2. TopicInv => TopicsCounted
    BY DEF TopicInv
<1> QED BY <1>1, <1>2, StepCounted, PTL DEF Spec

-----------------------------------------------------------------------------
(***************************************************************************)
(* The invariant of calls that come one at a time.  It says what each call *)
(* in progress owes: an add its relation, an emptied filter its key, a     *)
(* dropped key its place in the tree; everything else agrees.              *)
(***************************************************************************)
SInv ==
    /\ Shapes
    /\ \A i, j \in Ids : call[i].at # "idle" /\ call[j].at # "idle" => i = j
    /\ \A f \in Filters : rels[f] # {} => f \in entries
    /\ \A f \in entries : rels[f] = {} => \E i \in Ids : call[i] = At("emptied", f)
    /\ entries \subseteq topics
    /\ \A f \in topics \ entries :
          \E i \in Ids : \E l \in {"add", "uncounted", "dropped"} : call[i] = At(l, f)
    /\ \A i \in Ids : call[i].at = "add" => call[i].filter \in topics
    /\ \A i \in Ids : call[i].at = "emptied" =>
          rels[call[i].filter] = {} /\ call[i].filter \in entries
    /\ \A i \in Ids : call[i].at \in {"uncounted", "dropped"} => call[i].filter \notin entries

LEMMA InitSInv == Init => SInv
    BY DEF Init, SInv, Shapes, Calls, Idle

\* Nobody else is in a call while connection i is.
LEMMA Alone ==
    ASSUME SInv, NEW i \in Ids, call[i].at # "idle"
    PROVE  \A j \in Ids : j # i => call[j] = Idle
    BY CallForms DEF SInv, Shapes

\* A call that does not overlap another one finds every connection idle.
LEMMA AllIdle ==
    ASSUME NEW i \in Ids, Begin(i), ~overlapped'
    PROVE  \A j \in Ids : call[j] = Idle
    BY DEF Begin

\* overlapped is never reset.
LEMMA OverlapStays ==
    ASSUME overlapped \in BOOLEAN, [Next]_vars
    PROVE  overlapped' \in BOOLEAN /\ (~overlapped' => ~overlapped)
    BY DEF Next, vars, AddTopic, AddRelation, RemoveRelation, CountRelation,
          RemoveEntry, UncountTopic, RemoveTopic, Begin

LEMMA StepSInv == SInv /\ [Next]_vars /\ ~overlapped' => SInv'
<1> SUFFICES ASSUME SInv, [Next]_vars, ~overlapped' PROVE SInv'
    OBVIOUS
<1>0. Shapes /\ Shapes'
    BY StepShapes DEF SInv
<1> USE DEF Idle, At
<1>1. CASE UNCHANGED vars
    BY <1>1 DEF SInv, vars, Shapes, Calls
<1>2. ASSUME NEW i \in Ids, NEW f \in Filters, AddTopic(i, f) PROVE SInv'
  <2>1. /\ topics' = topics \cup {f} /\ entries' = entries /\ rels' = rels
        /\ call' = [call EXCEPT ![i] = At("add", f)]
        /\ \A j \in Ids : call[j] = Idle
      BY <1>2, AllIdle DEF AddTopic
  <2>2. \A j \in Ids : call'[j] = IF j = i THEN At("add", f) ELSE Idle
      BY <2>1, <1>0 DEF Shapes
  <2> QED BY <1>0, <2>1, <2>2 DEF SInv, Shapes
<1>3. ASSUME NEW i \in Ids, NEW f \in Filters, RemoveRelation(i, f) PROVE SInv'
  <2>1. /\ topics' = topics /\ entries' = entries
        /\ rels' = [rels EXCEPT ![f] = @ \ Removable(i, f)]
        /\ call' = [call EXCEPT ![i] = AfterRemove(rels'[f], f)]
        /\ rels[f] # {}
        /\ \A j \in Ids : call[j] = Idle
      BY <1>3, AllIdle DEF RemoveRelation, Removable
  <2>2. \A j \in Ids : call'[j] = IF j = i /\ rels'[f] = {} THEN At("emptied", f) ELSE Idle
      BY <2>1, <1>0 DEF Shapes, AfterRemove
  <2>3. \A g \in Filters : g # f => rels'[g] = rels[g]
      BY <2>1, <1>0 DEF Shapes
  <2>4. rels'[f] \subseteq rels[f]
      BY <2>1, <1>0 DEF Shapes
  <2>5. f \in entries /\ entries = topics
    <3>1. f \in entries /\ entries \subseteq topics
        BY <2>1 DEF SInv
    <3>2. ASSUME NEW g \in topics \ entries PROVE FALSE
      <4>1. PICK j \in Ids : \E l \in {"add", "uncounted", "dropped"} : call[j] = At(l, g)
          BY DEF SInv
      <4> QED BY <2>1, <4>1
    <3> QED BY <3>1, <3>2
  <2> HIDE DEF At, Idle
  <2>6. /\ Idle.at = "idle"
        /\ At("emptied", f).at = "emptied" /\ At("emptied", f).filter = f
      BY DEF Idle, At
  <2>7. /\ topics' = topics /\ entries' = entries
      BY <2>1
  <2>8. ASSUME NEW g \in entries, rels'[g] = {} PROVE g = f
    <3>1. SUFFICES ASSUME g # f PROVE FALSE
        OBVIOUS
    <3>2. g \in Filters /\ rels[g] = {}
        BY <1>0, <2>3, <2>8, <3>1 DEF Shapes
    <3>3. PICK j \in Ids : call[j] = At("emptied", g)
        BY <3>2 DEF SInv
    <3> QED BY <2>1, <3>3 DEF At, Idle
  <2> QED BY <1>0, <2>2, <2>3, <2>4, <2>5, <2>6, <2>7, <2>8 DEF SInv
<1>4. ASSUME NEW i \in Ids, AddRelation(i) PROVE SInv'
  <2> DEFINE f == call[i].filter
  <2>1. /\ topics' = topics /\ entries' = entries \cup {f}
        /\ rels' = [rels EXCEPT ![f] = (@ \ OfClient(f, i)) \cup {i}]
        /\ call' = [call EXCEPT ![i] = AfterInsert(f, i)]
        /\ call[i].at = "add"
      BY <1>4 DEF AddRelation
  <2>2. f \in Filters /\ f \in topics /\ call[i] = At("add", f)
      BY <2>1, <1>0, CallForms DEF SInv, Shapes
  <2>3. \A j \in Ids : call'[j] = Idle \/ (j = i /\ call'[j] = At("added", f))
      BY <2>1, <1>0, Alone DEF Shapes, AfterInsert
  <2>4. \A j \in Ids : j # i => call[j] = Idle
      BY <2>1, Alone
  <2> HIDE DEF f
  <2>5. rels'[f] # {} /\ \A g \in Filters : g # f => rels'[g] = rels[g]
      BY <2>1, <2>2, <1>0 DEF Shapes
  <2> QED BY <1>0, <2>1, <2>2, <2>3, <2>4, <2>5 DEF SInv, Shapes
<1>5. ASSUME NEW i \in Ids, RemoveEntry(i) PROVE SInv'
  <2> DEFINE f == call[i].filter
  <2>1. /\ topics' = topics /\ entries' = entries \ {f}
        /\ rels' = [rels EXCEPT ![f] = {}]
        /\ call' = [call EXCEPT ![i] = AfterEntry(f)]
        /\ call[i].at = "emptied"
      BY <1>5 DEF RemoveEntry
  <2>2. f \in Filters /\ f \in entries /\ call[i] = At("emptied", f)
      BY <2>1, <1>0, CallForms DEF SInv, Shapes
  <2>3. \A j \in Ids : call'[j] = IF j = i THEN At("uncounted", f) ELSE Idle
      BY <2>1, <2>2, <1>0, Alone DEF Shapes, AfterEntry
  <2>4. \A j \in Ids : j # i => call[j] = Idle
      BY <2>1, Alone
  <2> HIDE DEF f
  <2>5. rels'[f] = {} /\ \A g \in Filters : g # f => rels'[g] = rels[g]
      BY <2>1, <2>2, <1>0 DEF Shapes
  <2> QED BY <1>0, <2>1, <2>2, <2>3, <2>4, <2>5 DEF SInv, Shapes
<1>6. ASSUME NEW i \in Ids, RemoveTopic(i) PROVE SInv'
  <2> DEFINE f == call[i].filter
  <2>1. /\ topics' = topics \ {f} /\ entries' = entries /\ rels' = rels
        /\ call' = [call EXCEPT ![i] = Idle]
        /\ call[i].at = "dropped"
      BY <1>6 DEF RemoveTopic
  <2>2. f \in Filters /\ f \notin entries /\ call[i] = At("dropped", f)
      BY <2>1, <1>0, CallForms DEF SInv, Shapes
  <2>3. \A j \in Ids : call'[j] = Idle
      BY <2>1, <1>0, Alone DEF Shapes
  <2>4. \A j \in Ids : j # i => call[j] = Idle
      BY <2>1, Alone
  <2> HIDE DEF f
  <2> QED BY <1>0, <2>1, <2>2, <2>3, <2>4 DEF SInv, Shapes
<1>7. ASSUME NEW i \in Ids, CountRelation(i) PROVE SInv'
  <2>1. /\ UNCHANGED <<topics, entries, rels>>
        /\ call' = [call EXCEPT ![i] = Idle]
        /\ call[i].at = "added"
      BY <1>7 DEF CountRelation
  <2>2. \A j \in Ids : call'[j] = Idle
      BY <2>1, <1>0, Alone DEF Shapes
  <2>3. \A j \in Ids : j # i => call[j] = Idle
      BY <2>1, Alone
  <2> QED BY <1>0, <2>1, <2>2, <2>3 DEF SInv, Shapes
<1>8. ASSUME NEW i \in Ids, UncountTopic(i) PROVE SInv'
  <2> DEFINE f == call[i].filter
  <2>1. /\ UNCHANGED <<topics, entries, rels>>
        /\ call' = [call EXCEPT ![i] = At("dropped", f)]
        /\ call[i].at = "uncounted"
      BY <1>8 DEF UncountTopic
  <2>2. f \in Filters /\ f \notin entries /\ call[i] = At("uncounted", f)
      BY <2>1, <1>0, CallForms DEF SInv, Shapes
  <2>3. \A j \in Ids : call'[j] = IF j = i THEN At("dropped", f) ELSE Idle
      BY <2>1, <1>0, Alone DEF Shapes
  <2>4. \A j \in Ids : j # i => call[j] = Idle
      BY <2>1, Alone
  <2> HIDE DEF f
  <2> QED BY <1>0, <2>1, <2>2, <2>3, <2>4 DEF SInv, Shapes
<1> QED BY <1>1, <1>2, <1>3, <1>4, <1>5, <1>6, <1>7, <1>8 DEF Next

(***************************************************************************)
(* As long as add and remove are called one at a time, as cluster-raft's   *)
(* Store::apply calls them, the tree, the keys and the relations agree     *)
(* whenever no call is in progress.                                        *)
(***************************************************************************)
THEOREM SerializedConsistent == Spec => []Consistent
<1> DEFINE Inv == overlapped \in BOOLEAN /\ (~overlapped => SInv)
<1>1. Inv => Consistent
  <2> SUFFICES ASSUME SInv, Quiet
               PROVE  topics = entries /\ entries = {f \in Filters : rels[f] # {}}
      BY DEF Consistent
  <2>1. \A l \in Labels, f \in Filters : At(l, f) # Idle
      BY DEF At, Idle, Labels
  <2>2. topics = entries
    <3>1. ASSUME NEW f \in topics \ entries PROVE FALSE
      <4>1. PICK i \in Ids : \E l \in {"add", "uncounted", "dropped"} : call[i] = At(l, f)
          BY DEF SInv
      <4>2. f \in Filters /\ call[i] = Idle
          BY DEF SInv, Shapes, Quiet
      <4> QED BY <2>1, <4>1, <4>2 DEF Labels
    <3> QED BY <3>1 DEF SInv
  <2>3. \A f \in entries : f \in Filters /\ rels[f] # {}
      BY <2>1 DEF SInv, Shapes, Quiet, Labels
  <2> QED BY <2>2, <2>3 DEF SInv
<1>2. Inv /\ [Next]_vars => Inv'
  <2> SUFFICES ASSUME Inv, [Next]_vars PROVE Inv'
      OBVIOUS
  <2>1. overlapped' \in BOOLEAN /\ (~overlapped' => ~overlapped)
      BY OverlapStays
  <2> QED BY <2>1, StepSInv
<1>3. Init => Inv
    BY InitSInv DEF Init
<1> QED BY <1>1, <1>2, <1>3, PTL DEF Spec

-----------------------------------------------------------------------------
(***************************************************************************)
(* Counting the routes.  A client has one relation under a filter (the     *)
(* relations are a map from client id), so a step of add or remove changes *)
(* the number of routes by as much as it changes relations_count and what  *)
(* adds owe it, and only the drop of a key may take routes away uncounted. *)
(***************************************************************************)
OneRelation ==
    \A f \in Filters : \A r, s \in rels[f] : r.client = s.client => r = s

\* What add's second step does to the routes and to what it owes.
LEMMA AddRelationRoutes ==
    ASSUME Shapes, OneRelation, IsFiniteSet(Routes), IsFiniteSet(Owed),
           NEW i \in Ids, AddRelation(i)
    PROVE  /\ IsFiniteSet(Routes') /\ IsFiniteSet(Owed') /\ OneRelation'
           /\ Cardinality(Routes') - Cardinality(Routes) = Cardinality(Owed') - Cardinality(Owed)
<1> DEFINE f == call[i].filter
           new == <<f, i>>
<1>1. f \in Filters /\ call[i].at = "add"
    BY CallForms DEF AddRelation, Shapes
<1>2. /\ rels' = [rels EXCEPT ![f] = (@ \ OfClient(f, i)) \cup {i}]
      /\ call' = [call EXCEPT ![i] = AfterInsert(f, i)]
    BY DEF AddRelation
<1> HIDE DEF f
<1>0. /\ IsFiniteSet(Owed') /\ Cardinality(Owed) \in Nat
      /\ Cardinality(Owed') = Cardinality(Owed) + (IF OfClient(f, i) = {} THEN 1 ELSE 0)
  <2>1. AfterInsert(f, i).at = IF OfClient(f, i) = {} THEN "added" ELSE "idle"
      BY <1>1, MovesOn
  <2>2. Others(i) /\ call'[i] = AfterInsert(f, i)
      BY <1>2, OneMoves, Zenon
  <2> QED BY <1>1, <2>1, <2>2, OwedMoves
<1>3. /\ \A g \in Filters : g # f => rels'[g] = rels[g]
      /\ rels'[f] = (rels[f] \ OfClient(f, i)) \cup {i}
      /\ rels[f] \subseteq Ids
    BY <1>1, <1>2 DEF Shapes
<1>4. OneRelation'
    BY <1>1, <1>3 DEF OneRelation, OfClient
<1>5. Cardinality(Routes) \in Nat
    BY FS_CardinalityType
<1>6. CASE OfClient(f, i) = {}
  <2>1. new \notin Routes
      BY <1>6 DEF Routes, OfClient
  <2>2. Routes' = Routes \cup {new}
      BY <1>1, <1>3, <1>6 DEF Routes
  <2>4. IsFiniteSet(Routes') /\ Cardinality(Routes') = Cardinality(Routes) + 1
      BY <2>1, <2>2, FS_AddElement
  <2> QED BY <1>0, <1>4, <1>5, <1>6, <2>4
<1>7. CASE OfClient(f, i) # {}
  <2>1. PICK r \in rels[f] : OfClient(f, i) = {r} /\ r.client = i.client
      BY <1>1, <1>7 DEF OneRelation, OfClient
  <2> DEFINE rest == Routes \ {<<f, r>>}
  <2>2. <<f, r>> \in Routes
      BY <1>1, <1>3, <2>1 DEF Routes
  <2>3. Routes' = rest \cup {new}
      BY <1>1, <1>3, <2>1 DEF Routes
  <2>4. new \notin rest
      BY <1>1, <1>3, <2>1 DEF Routes, OfClient
  <2>5. IsFiniteSet(rest) /\ Cardinality(rest) = Cardinality(Routes) - 1
      BY <2>2, FS_RemoveElement
  <2>6. IsFiniteSet(Routes') /\ Cardinality(Routes') = Cardinality(rest) + 1
      BY <2>3, <2>4, <2>5, FS_AddElement
  <2> QED BY <1>0, <1>4, <1>5, <1>7, <2>5, <2>6
<1> QED BY <1>6, <1>7

\* What remove's first step does to the routes.
LEMMA RemoveRelationRoutes ==
    ASSUME Shapes, OneRelation, IsFiniteSet(Routes), relationsCount \in Int,
           NEW i \in Ids, NEW f \in Filters, RemoveRelation(i, f)
    PROVE  /\ IsFiniteSet(Routes') /\ relationsCount' \in Int /\ OneRelation'
           /\ Cardinality(Routes') - Cardinality(Routes) = relationsCount' - relationsCount
<1>1. /\ rels' = [rels EXCEPT ![f] = @ \ Removable(i, f)]
      /\ relationsCount' = relationsCount - 1
      /\ i \in rels[f] /\ Removable(i, f) = {i}
    BY DEF RemoveRelation, Removable
<1>2. /\ \A g \in Filters : g # f => rels'[g] = rels[g]
      /\ rels'[f] = rels[f] \ {i}
    BY <1>1 DEF Shapes
<1>3. OneRelation'
    BY <1>2 DEF OneRelation
<1>4. Routes' = Routes \ {<<f, i>>} /\ <<f, i>> \in Routes
    BY <1>1, <1>2 DEF Routes
<1>5. IsFiniteSet(Routes') /\ Cardinality(Routes') = Cardinality(Routes) - 1
    BY <1>4, FS_RemoveElement
<1> QED BY <1>1, <1>3, <1>5, FS_CardinalityType

\* What the drop of a key does to the routes.
LEMMA RemoveEntryRoutes ==
    ASSUME Shapes, OneRelation, IsFiniteSet(Routes), NEW i \in Ids, RemoveEntry(i)
    PROVE  /\ IsFiniteSet(Routes') /\ OneRelation'
           /\ Cardinality(Routes') <= Cardinality(Routes)
           /\ rels[call[i].filter] = {} => Routes' = Routes
<1> DEFINE f == call[i].filter
<1>1. f \in Filters
    BY CallForms DEF RemoveEntry, Shapes
<1>2. rels' = [rels EXCEPT ![f] = {}]
    BY DEF RemoveEntry
<1> HIDE DEF f
<1>3. rels'[f] = {} /\ \A g \in Filters : g # f => rels'[g] = rels[g]
    BY <1>1, <1>2 DEF Shapes
<1>4. Routes' \subseteq Routes
    BY <1>3 DEF Routes
<1>5. rels[f] = {} => Routes' = Routes
    BY <1>1, <1>3 DEF Routes
<1>6. OneRelation'
    BY <1>1, <1>3 DEF OneRelation
<1>7. IsFiniteSet(Routes') /\ Cardinality(Routes') <= Cardinality(Routes)
    BY <1>4, FS_Subset
<1> QED BY <1>5, <1>6, <1>7 DEF f

\* The invariant behind both theorems on relations_count.
CountInv ==
    /\ Shapes /\ OneRelation /\ IsFiniteSet(Routes)
    /\ IsFiniteSet(Owed) /\ relationsCount \in Int /\ overlapped \in BOOLEAN
    /\ NeverUndercounted
    /\ ~overlapped => SInv
    /\ RoutesCounted

\* A step that leaves the relations and their count alone, and is not one that counts.
LEMMA StepElsewhere ==
    ASSUME CountInv, Shapes', overlapped' \in BOOLEAN, ~overlapped' => ~overlapped /\ SInv',
           IsFiniteSet(Routes'), OneRelation', relationsCount' = relationsCount,
           Cardinality(Routes') <= Cardinality(Routes),
           ~overlapped' => Cardinality(Routes') = Cardinality(Routes),
           NEW i \in Ids, Others(i), call[i].at # "added", call'[i].at # "added"
    PROVE  CountInv'
<1>1. /\ IsFiniteSet(Owed') /\ Cardinality(Owed) \in Nat
      /\ Cardinality(Owed') = Cardinality(Owed)
    BY OwedMoves DEF CountInv
<1>2. Cardinality(Routes) \in Nat /\ Cardinality(Routes') \in Nat
    BY FS_CardinalityType DEF CountInv
<1> QED BY <1>1, <1>2 DEF CountInv, NeverUndercounted, RoutesCounted, Owed

LEMMA StepCountInv == CountInv /\ [Next]_vars => CountInv'
<1> SUFFICES ASSUME CountInv, [Next]_vars PROVE CountInv'
    OBVIOUS
<1>0. /\ Shapes' /\ overlapped' \in BOOLEAN /\ (~overlapped' => ~overlapped)
      /\ ~overlapped' => SInv /\ SInv'
    BY StepShapes, OverlapStays, StepSInv DEF CountInv
<1>a. /\ IsFiniteSet(Owed) /\ Cardinality(Owed) \in Nat
      /\ IsFiniteSet(Routes) /\ Cardinality(Routes) \in Nat /\ relationsCount \in Int
    BY FS_CardinalityType DEF CountInv
<1>b. rels' = rels => Routes' = Routes /\ OneRelation'
    BY DEF Routes, CountInv, OneRelation
<1>1. CASE UNCHANGED vars
  <2>1. Routes' = Routes /\ OneRelation' /\ Owed' = Owed
      BY <1>1, <1>b DEF vars, Owed, Owing
  <2> QED BY <1>0, <1>1, <2>1 DEF CountInv, NeverUndercounted, RoutesCounted, Owed, vars
<1>2. ASSUME NEW i \in Ids, NEW f \in Filters, RemoveRelation(i, f) PROVE CountInv'
  <2>1. /\ IsFiniteSet(Routes') /\ relationsCount' \in Int /\ OneRelation'
        /\ Cardinality(Routes') - Cardinality(Routes) = relationsCount' - relationsCount
      BY <1>2, RemoveRelationRoutes DEF CountInv
  <2> DEFINE c == AfterRemove(rels'[f], f)
  <2>2. /\ call' = [call EXCEPT ![i] = c]
        /\ call[i].at = "idle" /\ c.at # "added"
      BY <1>2, MovesOn DEF RemoveRelation, Begin, Idle
  <2> HIDE DEF c
  <2>0. Others(i) /\ call'[i] = c
      BY <2>2, OneMoves, Zenon DEF CountInv
  <2>3. IsFiniteSet(Owed') /\ Cardinality(Owed') = Cardinality(Owed)
      BY <1>a, <2>0, <2>2, OwedMoves
  <2>4. Cardinality(Routes') \in Nat
      BY <2>1, FS_CardinalityType
  <2> QED BY <1>0, <1>a, <2>1, <2>3, <2>4 DEF CountInv, NeverUndercounted, RoutesCounted, Owed
<1>3. ASSUME NEW i \in Ids, AddRelation(i) PROVE CountInv'
  <2>1. /\ IsFiniteSet(Routes') /\ IsFiniteSet(Owed') /\ OneRelation'
        /\ Cardinality(Routes') - Cardinality(Routes) = Cardinality(Owed') - Cardinality(Owed)
      BY <1>3, AddRelationRoutes DEF CountInv
  <2>2. relationsCount' = relationsCount
      BY <1>3 DEF AddRelation
  <2>3. Cardinality(Routes') \in Nat /\ Cardinality(Owed') \in Nat
      BY <2>1, FS_CardinalityType
  <2> QED BY <1>0, <1>a, <2>1, <2>2, <2>3 DEF CountInv, NeverUndercounted, RoutesCounted, Owed
<1>4. ASSUME NEW i \in Ids, RemoveEntry(i) PROVE CountInv'
  <2>1. /\ IsFiniteSet(Routes') /\ OneRelation' /\ Cardinality(Routes') <= Cardinality(Routes)
        /\ rels[call[i].filter] = {} => Routes' = Routes
        /\ relationsCount' = relationsCount
      BY <1>4, RemoveEntryRoutes DEF CountInv, RemoveEntry
  <2>2. SInv => rels[call[i].filter] = {}
      BY <1>4 DEF SInv, RemoveEntry
  <2> DEFINE c == AfterEntry(call[i].filter)
  <2>3. call' = [call EXCEPT ![i] = c] /\ call[i].at = "emptied" /\ c.at # "added"
      BY <1>4 DEF RemoveEntry, AfterEntry, At
  <2> HIDE DEF c
  <2>4. Others(i) /\ call'[i] = c
      BY <2>3, OneMoves, Zenon DEF CountInv
  <2> QED BY <1>0, <2>1, <2>2, <2>3, <2>4, StepElsewhere
<1>5. ASSUME NEW i \in Ids, CountRelation(i) PROVE CountInv'
  <2>1. /\ rels' = rels /\ relationsCount' = relationsCount + 1
        /\ call' = [call EXCEPT ![i] = Idle] /\ call[i].at = "added"
      BY <1>5 DEF CountRelation
  <2>2. Idle.at = "idle"
      BY DEF Idle
  <2>0. Others(i) /\ call'[i] = Idle
      BY <2>1, OneMoves, Zenon DEF CountInv
  <2>3. IsFiniteSet(Owed') /\ Cardinality(Owed') = Cardinality(Owed) - 1
      BY <1>a, <2>0, <2>1, <2>2, OwedMoves
  <2>4. Routes' = Routes /\ OneRelation'
      BY <1>b, <2>1
  <2> QED BY <1>0, <1>a, <2>1, <2>3, <2>4 DEF CountInv, NeverUndercounted, RoutesCounted, Owed
<1>6. ASSUME NEW i \in Ids, NEW c, rels' = rels, relationsCount' = relationsCount,
             call' = [call EXCEPT ![i] = c], call[i].at # "added", c.at # "added"
      PROVE  CountInv'
  <2>1. Routes' = Routes /\ OneRelation'
      BY <1>b, <1>6
  <2>2. Others(i) /\ call'[i] = c
      BY <1>6, OneMoves, Zenon DEF CountInv
  <2> QED BY <1>0, <1>a, <1>6, <2>1, <2>2, StepElsewhere
<1>7. ASSUME NEW i \in Ids, NEW f \in Filters, AddTopic(i, f) PROVE CountInv'
    BY <1>6, <1>7, MovesOn DEF AddTopic, Begin, Labels
<1>8. ASSUME NEW i \in Ids, UncountTopic(i) \/ RemoveTopic(i) PROVE CountInv'
    BY <1>6, <1>8 DEF UncountTopic, RemoveTopic, Idle, At
<1> QED BY <1>1, <1>2, <1>3, <1>4, <1>5, <1>7, <1>8 DEF Next

LEMMA InitCountInv == Init => CountInv
<1> SUFFICES ASSUME Init PROVE CountInv
    OBVIOUS
<1>1. Routes = {}
    BY DEF Init, Routes
<1>2. SInv
    BY InitSInv
<1>3. Shapes /\ OneRelation
    BY <1>2 DEF Init, SInv, OneRelation
<1>4. IsFiniteSet(Routes) /\ Cardinality(Routes) = 0
    BY <1>1, FS_EmptySet
<1>8. Owed = {}
    BY DEF Init, Owed, Owing, Idle
<1>9. IsFiniteSet(Owed) /\ Cardinality(Owed) = 0
    BY <1>8, FS_EmptySet
<1>5. relationsCount = 0 /\ overlapped = FALSE
    BY DEF Init
<1>6. NeverUndercounted /\ relationsCount \in Int /\ RoutesCounted
    BY <1>4, <1>5, <1>9 DEF NeverUndercounted, RoutesCounted, Owed
<1>7. overlapped \in BOOLEAN
    BY <1>5
<1> HIDE DEF Init
<1> QED BY <1>2, <1>3, <1>4, <1>6, <1>7, <1>9 DEF CountInv

(***************************************************************************)
(* relations_count is below the number of relations only by the adds that  *)
(* have still to count theirs, however the steps of add and remove         *)
(* interleave.                                                             *)
(***************************************************************************)
THEOREM RoutesNeverUndercounted == Spec => []NeverUndercounted
<1>1. CountInv => NeverUndercounted
    BY DEF CountInv
<1> QED BY <1>1, InitCountInv, StepCountInv, PTL DEF Spec

(***************************************************************************)
(* As long as calls come one at a time relations_count is the number of    *)
(* relations, but for the one an add has just inserted: under the raft     *)
(* cluster routes.count is right on a node between two log entries.        *)
(***************************************************************************)
THEOREM SerializedRoutesCounted == Spec => []RoutesCounted
<1>1. CountInv => RoutesCounted
    BY DEF CountInv
<1> QED BY <1>1, InitCountInv, StepCountInv, PTL DEF Spec

(***************************************************************************)
(* The four facts together, for any filters, clients and connections.      *)
(***************************************************************************)
THEOREM RouterKeepsRoutes == Spec => []RoutesKept
<1>1. TopicsCounted /\ NeverUndercounted /\ Consistent /\ RoutesCounted => RoutesKept
    BY DEF RoutesKept
<1> QED
    BY <1>1, TopicsStayCounted, RoutesNeverUndercounted, SerializedConsistent,
       SerializedRoutesCounted, PTL

-----------------------------------------------------------------------------
(* The lock of a client id. *)
LockInv == LockTypeOK /\ KeyIsHolders

\* Two threads inside would both own the mutex the key names.
LEMMA OneInside ==
    ASSUME LockInv, NEW t \in Threads, NEW u \in Threads, pc[t] = "held", pc[u] = "held"
    PROVE  t = u
    BY DEF LockInv, KeyIsHolders

\* So Holder is the thread inside, and None when there is none.
LEMMA HolderIs ==
    ASSUME LockInv
    PROVE  /\ \A t \in Threads : pc[t] = "held" <=> Holder = t
           /\ (\A t \in Threads : pc[t] # "held") => Holder = None
           /\ Holder = None <=> entry = None
<1>1. ASSUME NEW t \in Threads, pc[t] = "held" PROVE Holder = t
    BY <1>1, OneInside DEF Holder
<1>2. (\A t \in Threads : pc[t] # "held") => Holder = None
    BY DEF Holder
<1>3. ASSUME NEW t \in Threads, Holder = t PROVE pc[t] = "held"
    BY <1>3, <1>1, ClientLockAssumption DEF Holder
<1>4. Holder = None <=> entry = None
    BY <1>1, <1>2, ClientLockAssumption DEF LockInv, KeyIsHolders
<1> QED BY <1>1, <1>2, <1>3, <1>4

LEMMA InitLockInv == LockInit => LockInv
    BY DEF LockInit, LockInv, LockTypeOK, KeyIsHolders

LEMMA NextLockInv == LockInv /\ [LockNext]_lockVars => LockInv'
<1> SUFFICES ASSUME LockInv, [LockNext]_lockVars PROVE LockInv'
    OBVIOUS
<1> USE ClientLockAssumption DEF LockInv, LockTypeOK, KeyIsHolders
<1>1. CASE UNCHANGED lockVars
    BY <1>1 DEF lockVars
<1>2. ASSUME NEW t \in Threads, NEW m \in Mutexes, TryLock(t, m) PROVE LockInv'
  <2>1. entry = None
      BY <1>2 DEF TryLock
  <2>2. \A u \in Threads : pc[u] # "held" /\ (pc[u] # "idle" => guard[u] # m)
      BY <1>2, <2>1 DEF TryLock
  <2>3. LockTypeOK'
      BY <1>2 DEF TryLock
  <2>4. KeyIsHolders'
      BY <1>2, <2>1, <2>2 DEF TryLock
  <2> QED BY <2>3, <2>4
<1>3. ASSUME NEW t \in Threads, TryLockFails(t) PROVE LockInv'
    BY <1>3 DEF TryLockFails
<1>4. ASSUME NEW t \in Threads, DropEntry(t) PROVE LockInv'
  <2>1. LockTypeOK'
      BY <1>4 DEF DropEntry
  <2>2. \A u \in Threads : u # t => pc[u] # "held"
      BY <1>4, OneInside DEF DropEntry
  <2>3. KeyIsHolders'
      BY <1>4, <2>2 DEF DropEntry
  <2> QED BY <2>1, <2>3
<1>5. ASSUME NEW t \in Threads, DropGuard(t) PROVE LockInv'
  <2>1. LockTypeOK'
      BY <1>5 DEF DropGuard
  <2>2. \A u \in Threads : u # t /\ pc[u] # "idle" => guard[u] # guard[t]
      BY <1>5 DEF DropGuard
  <2>3. KeyIsHolders'
      BY <1>5, <2>2 DEF DropGuard
  <2> QED BY <2>1, <2>3
<1> QED BY <1>1, <1>2, <1>3, <1>4, <1>5 DEF LockNext, Drop

\* The key in lockers is the mutex of the thread inside in every reachable state.
THEOREM LockInvariant == LockSpec => [](LockTypeOK /\ KeyIsHolders)
<1>1. LockInit => LockInv
    BY InitLockInv
<1>2. LockInv /\ [LockNext]_lockVars => LockInv'
    BY NextLockInv
<1> QED BY <1>1, <1>2, PTL DEF LockSpec, LockInv

\* Drop for LockEntry and a failed try_lock leave no key behind.
THEOREM NoKeyLeft == LockSpec => []LockersReclaimed
<1>1. KeyIsHolders => LockersReclaimed
    BY DEF KeyIsHolders, LockersReclaimed
<1> QED BY <1>1, LockInvariant, PTL

-----------------------------------------------------------------------------
\* Every step of LockEntry is a step of Mutex or changes neither its holder nor an outcome.
LEMMA StepRefines == LockInv /\ LockInv' /\ [LockNext]_lockVars => [Abs!Next]_(Abs!vars)
<1> SUFFICES ASSUME LockInv, LockInv', [LockNext]_lockVars PROVE [Abs!Next]_(Abs!vars)
    OBVIOUS
<1> DEFINE h == Holder
<1>1. /\ \A t \in Threads : pc[t] = "held" <=> h = t
      /\ (\A t \in Threads : pc[t] # "held") => h = None
      /\ h = None <=> entry = None
    BY HolderIs
<1>2. /\ \A t \in Threads : pc'[t] = "held" <=> h' = t
      /\ (\A t \in Threads : pc'[t] # "held") => h' = None
    <2>1. \A t, u \in Threads : pc'[t] = "held" /\ pc'[u] = "held" => t = u
        BY DEF LockInv, KeyIsHolders
    <2> QED BY <2>1, ClientLockAssumption DEF Holder
<1> HIDE DEF h
<1>3. CASE UNCHANGED lockVars
  <2>1. h' = h
      BY <1>3 DEF lockVars, h, Holder
  <2> QED BY <1>3, <2>1 DEF lockVars, Abs!vars, h
<1>4. ASSUME NEW t \in Threads, NEW m \in Mutexes, TryLock(t, m) PROVE Abs!Acquire(t)
  <2>1. entry = None
      BY <1>4 DEF TryLock, LockInv, KeyIsHolders, LockTypeOK
  <2>2. h = None
      BY <1>1, <2>1
  <2>3. pc'[t] = "held" /\ outcome' = [outcome EXCEPT ![t] = "ok"]
      BY <1>4 DEF TryLock, LockInv, LockTypeOK
  <2> QED BY <1>2, <2>2, <2>3 DEF Abs!Acquire, h
<1>5. ASSUME NEW t \in Threads, TryLockFails(t) PROVE Abs!TurnAway(t)
  <2>1. h # None /\ h # t
      BY <1>1, <1>5 DEF TryLockFails
  <2>2. h' = h
      BY <1>5 DEF TryLockFails, h, Holder
  <2> QED BY <1>5, <2>1, <2>2 DEF Abs!TurnAway, TryLockFails, h
<1>6. ASSUME NEW t \in Threads, DropEntry(t) PROVE Abs!Release(t)
  <2>1. h = t
      BY <1>1, <1>6 DEF DropEntry
  <2>2. \A u \in Threads : pc'[u] # "held"
      BY <1>6, OneInside DEF DropEntry, LockInv, LockTypeOK
  <2>3. h' = None
      BY <1>2, <2>2
  <2> QED BY <1>6, <2>1, <2>3 DEF Abs!Release, DropEntry, h
<1>7. ASSUME NEW t \in Threads, DropGuard(t) PROVE UNCHANGED Abs!vars
  <2>1. \A u \in Threads : pc'[u] = "held" <=> pc[u] = "held"
      BY <1>7 DEF DropGuard, LockInv, LockTypeOK
  <2>2. h' = h
      BY <2>1, <1>1, <1>2
  <2> QED BY <1>7, <2>2 DEF DropGuard, Abs!vars, h
<1> QED BY <1>3, <1>4, <1>5, <1>6, <1>7 DEF LockNext, Drop, Abs!Next

(***************************************************************************)
(* LockEntry implements Mutex: at most one caller of try_lock is inside,   *)
(* and one is refused only while another is.                               *)
(***************************************************************************)
THEOREM LockImplementsMutex == LockSpec => Implements
<1>1. LockInit => Abs!Init
    BY DEF LockInit, Abs!Init, Holder
<1>2. LockInv /\ LockInv' /\ [LockNext]_lockVars => [Abs!Next]_(Abs!vars)
    BY StepRefines
<1>3. LockSpec => []LockInv
    BY LockInvariant DEF LockInv
<1> QED BY <1>1, <1>2, <1>3, PTL DEF LockSpec, Implements, Abs!Spec

\* LockEntry implements Mutex and leaves no key behind, for any number of callers.
THEOREM LockKeepsPromise == LockSpec => LockPromise
<1>1. LockSpec => [][LockersReclaimed']_lockVars
    BY NoKeyLeft, PTL
<1> QED BY <1>1, LockImplementsMutex DEF LockPromise
=============================================================================
