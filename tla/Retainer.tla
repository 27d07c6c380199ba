------------------------------ MODULE Retainer ------------------------------
(***************************************************************************)
(* The in-memory retainer: RamRetainer of the plugin rmqtt-retainer over   *)
(* DefaultRetainStorage of rmqtt/src/broker/default.rs.  Publishers call   *)
(* set at the same time; each one reads the counter first and takes the    *)
(* lock of the tree afterwards.                                            *)
(***************************************************************************)
EXTENDS RetainTree

CONSTANTS
    Publishers,     \* tasks that call RetainStorage::set
    PubTopics,      \* the topic names they publish to
    Payloads,       \* non-empty payloads within max_payload_size
    MaxRetained     \* max_retained_messages, 0 for no limit

ASSUME RetainerAssumption == MaxRetained \in Nat /\ PubTopics \subseteq TopicNames

VARIABLES
    tree,       \* DefaultRetainStorage.messages
    retaineds,  \* DefaultRetainStorage.retaineds, an isize counter
    pend,       \* pend[p]: the set call of p that passed the checks, or << >>
    last,       \* history: the message last stored for a topic, or Empty
    refused     \* history: a topic that has a message was refused at the limit

retainVars == <<tree, retaineds, pend, last, refused>>

SetCalls == [topic : PubTopics, payload : Payloads \cup {Empty}, timed : BOOLEAN]

RetainInit ==
    /\ tree = EmptyTree
    /\ retaineds = 0
    /\ pend = [p \in Publishers |-> << >>]
    /\ last = [t \in PubTopics |-> Empty]
    /\ refused = FALSE

\* The test of RamRetainer::set
AtLimit == MaxRetained > 0 /\ retaineds >= MaxRetained

(***************************************************************************)
(* RamRetainer::set up to the call of set_with_timeout.  The test comes    *)
(* before anything looks at the payload or at the topic: a replacement and *)
(* a deletion (an empty payload) are refused like a new topic.             *)
(***************************************************************************)
CheckSet(p, c) ==
    /\ pend[p] = << >>
    /\ IF AtLimit
       THEN /\ refused' = (refused \/ ValueAt(tree, c.topic) # Empty)
            /\ pend' = pend
       ELSE /\ pend' = [pend EXCEPT ![p] = <<c>>]
            /\ refused' = refused
    /\ UNCHANGED <<tree, retaineds, last>>

\* What set_with_timeout makes of the counter
CountAfter(had, deletes) ==
    IF ~deletes /\ ~had THEN retaineds + 1
    ELSE IF deletes /\ had THEN retaineds - 1 ELSE retaineds

\* DefaultRetainStorage::set_with_timeout, under the write lock of messages
StoreSet(p) ==
    /\ pend[p] # << >>
    /\ LET c == pend[p][1]
           msg == [payload |-> c.payload, timed |-> c.timed, expired |-> FALSE]
           gone == RemoveFrom(tree, c.topic)
           deletes == c.payload = Empty
       IN  /\ tree' = IF deletes THEN gone ELSE InsertInto(gone, c.topic, msg)
           /\ retaineds' = CountAfter(ValueAt(tree, c.topic) # Empty, deletes)
           /\ last' = [last EXCEPT ![c.topic] = IF deletes THEN Empty ELSE msg]
    /\ pend' = [pend EXCEPT ![p] = << >>]
    /\ UNCHANGED refused

\* The timeout of a TimedValue passes
Expire(t) ==
    /\ ValueAt(tree, t) # Empty
    /\ tree[t].timed /\ ~tree[t].expired
    /\ tree' = [tree EXCEPT ![t].expired = TRUE]
    /\ last' = [last EXCEPT ![t] = Empty]
    /\ UNCHANGED <<retaineds, pend, refused>>

Expired == {t \in DOMAIN tree : tree[t] # Empty /\ tree[t].expired}

\* mutant: the sweep leaves the counter alone
RemoveExpiredMessages_uncounted ==
    /\ Expired # {}
    /\ tree' = Retain(tree, {tree[t] : t \in Expired})
    /\ UNCHANGED <<retaineds, pend, last, refused>>

\* DefaultRetainStorage::remove_expired_messages, the job of the plugin
RemoveExpiredMessages ==
    /\ Expired # {}
    /\ tree' = Retain(tree, {tree[t] : t \in Expired})
    /\ retaineds' = retaineds - Cardinality(Expired)
    /\ UNCHANGED <<pend, last, refused>>

\* DefaultRetainStorage::get_message, under the read lock
Get(filter) ==
    {<<m[1], m[2].payload>> : m \in {n \in Matches(tree, filter) : ~n[2].expired}}

RetainNext ==
    \/ \E p \in Publishers, c \in SetCalls : CheckSet(p, c)
    \/ \E p \in Publishers : StoreSet(p)
    \/ \E t \in PubTopics : Expire(t)
    \/ RemoveExpiredMessages

RetainSpec == RetainInit /\ [][RetainNext]_retainVars

-----------------------------------------------------------------------------

(***************************************************************************)
(* get_message finds, for every topic filter, exactly the topics that MQTT *)
(* says match and that have a message, each with the message stored last   *)
(* and none whose time has passed, swept or not.                           *)
(***************************************************************************)
GetExactly ==
    LET live == {t \in PubTopics : last[t] # Empty}
    IN  \A f \in TopicFilters :
            Get(f) = {<<t, last[t].payload>> : t \in {u \in live : FilterMatches(f, u)}}

(***************************************************************************)
(* The counter the limit is compared with, kept apart from the tree by     *)
(* set_with_timeout and remove_expired_messages, is the number of messages *)
(* in the tree.                                                            *)
(***************************************************************************)
CountExact == retaineds = Cardinality({p \in DOMAIN tree : tree[p] # Empty})

(***************************************************************************)
(* The tree and its counter tell the same story as the publishers, after   *)
(* any sequence of sets, replacements, clears, expiries and sweeps.        *)
(***************************************************************************)
RetainedExactly == GetExactly /\ CountExact

(***************************************************************************)
(* What the configuration file says of the limit: at the limit the message *)
(* of a topic that has one can be replaced.                                *)
(***************************************************************************)
ReplaceAllowed == ~refused
=============================================================================
