---------------------------- MODULE RetainStore ----------------------------
(***************************************************************************)
(* The database-backed retainer of the plugin rmqtt-retainer: storage.rs   *)
(* and the parts of lib.rs that enable it.  RetainStorage::set only puts   *)
(* the message into a channel; one collector takes what the channel holds  *)
(* in batches and spawns a task per batch; the tasks run side by side, and *)
(* each one waits for the database before every message.  The number of    *)
(* stored messages is a cached value: it is read again once it is older    *)
(* than three seconds, by one task at a time, and the others meanwhile use *)
(* what the cache holds.                                                   *)
(***************************************************************************)
EXTENDS Naturals, Sequences, SequencesExt, FiniteSets

CONSTANTS
    KeepTopics,     \* topic names
    KeepTasks,      \* slots for running batches (500 in the code)
    KeepBatch,      \* messages of a batch at most (500)
    KeepMax,        \* max_retained_messages, 0 for no limit
    KeepScripts,    \* bound: the sequences of set calls that are made
    KeepFaults      \* bound: database errors, time-outs and restarts

ASSUME RetainStoreAssumption ==
    /\ KeepMax \in Nat /\ KeepBatch \in Nat \ {0}
    /\ KeepFaults \in Nat

VARIABLES
    on,         \* retain_enable
    channel,    \* msg_tx .. msg_rx, sequence of messages
    held,       \* the collector's batch while it waits for a slot
    task,       \* task[b]: a running _batch_store, or Idle
    db,         \* db[t]: the row of topic t, or NoRow
    counter,    \* the key RETAIN_MESSAGES_MAX exists (it counts in db.len)
    cache,      \* storage_messages_count: a number, Unread or Failed; its age
    calls,      \* the set calls still to be made
    faults,     \* faults so far
    latest,     \* history: the message of the last set per topic
    upset       \* history: what may have come between latest and the database

keepVars == <<on, channel, held, task, db, counter, cache, calls, faults, latest, upset>>

NoRow == [id |-> 0]
Idle == [step |-> "idle"]
\* Values of cached_val other than Some(Ok(n))
Unread == 1000
Failed == 1001

\* A message: its number, its topic, empty (it deletes) or large (payload over
\* max_payload_size) or plain, and whether it has an expiry interval
KeepMsg(id, topic, load, exp) == [id |-> id, topic |-> topic, load |-> load, exp |-> exp]

KeepInit ==
    /\ on = FALSE /\ channel = << >> /\ held = << >>
    /\ task = [b \in KeepTasks |-> Idle]
    /\ db = [t \in KeepTopics |-> NoRow] /\ counter = FALSE
    /\ cache = [val |-> Unread, old |-> FALSE, by |-> {}]
    /\ calls \in KeepScripts /\ faults = 0
    /\ latest = [t \in KeepTopics |-> NoRow]
    /\ upset = [t \in KeepTopics |-> {}]

Upset(ts, why) == [t \in KeepTopics |-> IF t \in ts THEN upset[t] \cup {why} ELSE upset[t]]
TopicsOf(s) == {s[k].topic : k \in DOMAIN s}
\* The topics a batch has not finished with
Pending(b) == IF task[b] = Idle THEN {} ELSE TopicsOf(task[b].msgs)

\* RetainHandler: BeforeStartup; a cluster needs a storage that supports it
KeepStartup(cluster, support) ==
    /\ ~on
    /\ on' = (~cluster \/ support)
    /\ UNCHANGED <<channel, held, task, db, counter, cache, calls, faults, latest, upset>>

(***************************************************************************)
(* RetainStorage::set.  Every call sends through a clone of msg_tx of its  *)
(* own, whose slot takes the message even when the channel is full: then   *)
(* the caller waits, and may be told an error after 3.5 s, but the message *)
(* is under way.  A disabled retainer answers Ok and keeps nothing.        *)
(***************************************************************************)
KeepSet ==
    /\ calls # << >> /\ calls' = Tail(calls)
    /\ LET m == Head(calls)
       IN  IF on
           THEN /\ channel' = Append(channel, m)
                /\ latest' = [latest EXCEPT ![m.topic] = IF m.load = "empty" THEN NoRow ELSE m]
           ELSE UNCHANGED <<channel, latest>>
    /\ UNCHANGED <<on, held, task, db, counter, cache, faults, upset>>

\* serve: the collector takes one message, and up to KeepBatch - 1 more that are
\* there, then waits while too many batches run
KeepCollect ==
    /\ held = << >> /\ channel # << >>
    /\ LET n == IF Len(channel) < KeepBatch THEN Len(channel) ELSE KeepBatch
       IN  /\ held' = SubSeq(channel, 1, n)
           /\ channel' = SubSeq(channel, n + 1, Len(channel))
    /\ UNCHANGED <<on, task, db, counter, cache, calls, faults, latest, upset>>

\* serve: tokio::spawn of _batch_store.  A running batch with one of the same
\* topics may now be overtaken
KeepSpawn(b) ==
    /\ held # << >> /\ task[b] = Idle
    /\ task' = [task EXCEPT ![b] = [step |-> "next", msgs |-> held, len |-> 0]]
    /\ held' = << >>
    /\ upset' = Upset(TopicsOf(held) \cap UNION {Pending(c) : c \in KeepTasks \ {b}}, "overtaken")
    /\ UNCHANGED <<on, channel, db, counter, cache, calls, faults, latest>>

Goto(b, step) == [task EXCEPT ![b].step = step]
\* continue: the batch goes on with its next message
NextMsg(b) == [task EXCEPT ![b].step = "next", ![b].msgs = Tail(@)]

\* mutant: the stored row stays
KeepRemove_kept(b) ==
    /\ task[b].step = "next" /\ task[b].msgs # << >>
    /\ Head(task[b].msgs).load = "empty"
    /\ task' = NextMsg(b)
    /\ UNCHANGED <<on, channel, held, db, counter, cache, calls, faults, latest, upset>>

\* _batch_store: an empty payload removes the row
KeepRemove(b) ==
    /\ task[b].step = "next" /\ task[b].msgs # << >>
    /\ LET m == Head(task[b].msgs)
       IN  /\ m.load = "empty"
           /\ db' = [db EXCEPT ![m.topic] = NoRow]
    /\ task' = NextMsg(b)
    /\ UNCHANGED <<on, channel, held, counter, cache, calls, faults, latest, upset>>

\* check_constraints: a payload over max_payload_size is not retained
KeepTooLarge(b) ==
    /\ task[b].step = "next" /\ task[b].msgs # << >>
    /\ Head(task[b].msgs).load = "large"
    /\ task' = NextMsg(b)
    /\ upset' = Upset({Head(task[b].msgs).topic}, "refused")
    /\ UNCHANGED <<on, channel, held, db, counter, cache, calls, faults, latest>>

Rows == {t \in KeepTopics : db[t] # NoRow}
\* storage_db.len(): the key of the counter is a key like the others
DbLen == Cardinality(Rows) + IF counter THEN 1 ELSE 0
\* get_retain_count: len - 1, an error counts as none
RetainCount ==
    LET n == IF cache.val \in {Unread, Failed} THEN 0 ELSE cache.val
    IN  IF n > 0 THEN n - 1 ELSE n
\* check_constraints, once the cache has been looked at
Admit(b) == IF KeepMax > 0 /\ RetainCount >= KeepMax THEN "refuse" ELSE "insert"

\* ValueCached::_call_timeout takes the cached value: it is young, or another
\* task is reading it anew and an older one is there
KeepCount(b) ==
    /\ task[b].step = "next" /\ task[b].msgs # << >>
    /\ Head(task[b].msgs).load = "plain"
    /\ KeepMax > 0 => cache.val # Unread /\ (~cache.old \/ cache.by # {})
    /\ task' = Goto(b, Admit(b))
    /\ UNCHANGED <<on, channel, held, db, counter, cache, calls, faults, latest, upset>>

\* _call_timeout: the value is missing or old and nobody reads it: this task does
KeepLen(b) ==
    /\ task[b].step = "next" /\ task[b].msgs # << >>
    /\ Head(task[b].msgs).load = "plain" /\ KeepMax > 0
    /\ cache.by = {} /\ (cache.val = Unread \/ cache.old)
    /\ cache' = [cache EXCEPT !.by = {b}]
    /\ task' = [task EXCEPT ![b].step = "len", ![b].len = DbLen]
    /\ UNCHANGED <<on, channel, held, db, counter, calls, faults, latest, upset>>

\* _call_timeout stores what the database answered, or the error
KeepLenDone(b, fails) ==
    /\ task[b].step = "len"
    /\ fails => faults < KeepFaults
    /\ faults' = IF fails THEN faults + 1 ELSE faults
    /\ cache' = [val |-> IF fails THEN Failed ELSE task[b].len, old |-> FALSE, by |-> {}]
    /\ task' = Goto(b, "counted")
    /\ UNCHANGED <<on, channel, held, db, counter, calls, latest, upset>>

\* ... and reads it back
KeepCounted(b) ==
    /\ task[b].step = "counted"
    /\ task' = Goto(b, Admit(b))
    /\ UNCHANGED <<on, channel, held, db, counter, cache, calls, faults, latest, upset>>

\* check_constraints answered false: the message is dropped, whether its topic
\* has a row or not
KeepRefuse(b) ==
    /\ task[b].step = "refuse"
    /\ task' = NextMsg(b)
    /\ upset' = Upset({Head(task[b].msgs).topic}, "refused")
    /\ UNCHANGED <<on, channel, held, db, counter, cache, calls, faults, latest>>

\* _batch_store: insert; a message with an expiry interval goes on to expire(..)
KeepInsert(b) ==
    /\ task[b].step = "insert"
    /\ LET m == Head(task[b].msgs)
       IN  /\ db' = [db EXCEPT ![m.topic] =
                        [id |-> m.id, topic |-> m.topic, load |-> m.load, exp |-> m.exp,
                         ttl |-> FALSE, dead |-> FALSE]]
           /\ task' = IF m.exp THEN Goto(b, "expire") ELSE NextMsg(b)
    /\ UNCHANGED <<on, channel, held, counter, cache, calls, faults, latest, upset>>

\* _batch_store: storage_db.expire on whatever row the topic has by now
KeepExpire(b) ==
    /\ task[b].step = "expire"
    /\ LET t == Head(task[b].msgs).topic
       IN  db' = IF db[t] = NoRow THEN db ELSE [db EXCEPT ![t].ttl = TRUE]
    /\ task' = NextMsg(b)
    /\ UNCHANGED <<on, channel, held, counter, cache, calls, faults, latest, upset>>

\* _batch_store: the batch is through; storage_messages_max_add makes the key
KeepBatchEnd(b) ==
    /\ task[b].step = "next" /\ task[b].msgs = << >>
    /\ counter' = TRUE
    /\ task' = [task EXCEPT ![b] = Idle]
    /\ UNCHANGED <<on, channel, held, db, cache, calls, faults, latest, upset>>

Touching(b) ==
    \/ task[b].step \in {"insert", "expire"}
    \/ task[b].step = "next" /\ task[b].msgs # << >> /\ Head(task[b].msgs).load = "empty"

\* _batch_store: the database answers with an error; the batch goes on
KeepError(b) ==
    /\ Touching(b) /\ faults < KeepFaults /\ faults' = faults + 1
    /\ task' = NextMsg(b)
    /\ upset' = Upset({Head(task[b].msgs).topic}, "failed")
    /\ UNCHANGED <<on, channel, held, db, counter, cache, calls, latest>>

(***************************************************************************)
(* _batch_store: remove or insert does not answer within five seconds.     *)
(* The question mark leaves the function: the rest of the batch is gone.   *)
(***************************************************************************)
KeepTimeout(b) ==
    /\ Touching(b) /\ task[b].step # "expire"
    /\ faults < KeepFaults /\ faults' = faults + 1
    /\ task' = [task EXCEPT ![b] = Idle]
    /\ upset' = Upset(Pending(b), "dropped")
    /\ UNCHANGED <<on, channel, held, db, counter, cache, calls, latest>>

\* Three seconds pass: ValueCachedInner::is_expired
KeepCacheOld ==
    /\ cache.val # Unread /\ ~cache.old
    /\ cache' = [cache EXCEPT !.old = TRUE]
    /\ UNCHANGED <<on, channel, held, task, db, counter, calls, faults, latest, upset>>

\* The expiry interval of a row passes; a row with a TTL leaves the database
KeepLapse(t) ==
    /\ db[t] # NoRow /\ ~db[t].dead
    /\ db[t].exp \/ db[t].ttl
    /\ db' = [db EXCEPT ![t] = IF db[t].ttl THEN NoRow ELSE [@ EXCEPT !.dead = TRUE]]
    /\ UNCHANGED <<on, channel, held, task, counter, cache, calls, faults, latest, upset>>

\* The node stops and starts again: only the database stays
KeepRestart ==
    /\ on /\ faults < KeepFaults /\ faults' = faults + 1
    /\ on' = FALSE /\ channel' = << >> /\ held' = << >>
    /\ task' = [b \in KeepTasks |-> Idle]
    /\ cache' = [val |-> Unread, old |-> FALSE, by |-> {}]
    /\ upset' = Upset(TopicsOf(channel) \cup TopicsOf(held) \cup UNION {Pending(b) : b \in KeepTasks},
                      "lost")
    /\ UNCHANGED <<db, counter, calls, latest>>

KeepNext ==
    \/ \E c, s \in BOOLEAN : KeepStartup(c, s)
    \/ KeepSet \/ KeepCollect \/ KeepCacheOld \/ KeepRestart
    \/ \E b \in KeepTasks :
        \/ KeepSpawn(b) \/ KeepRemove(b) \/ KeepTooLarge(b) \/ KeepCount(b) \/ KeepLen(b)
        \/ \E f \in BOOLEAN : KeepLenDone(b, f)
        \/ KeepCounted(b) \/ KeepRefuse(b) \/ KeepInsert(b) \/ KeepExpire(b)
        \/ KeepBatchEnd(b) \/ KeepError(b) \/ KeepTimeout(b)
    \/ \E t \in KeepTopics : KeepLapse(t)

KeepSpec == KeepInit /\ [][KeepNext]_keepVars

\* get_message: what a subscriber is sent for topic t
Served(t) == IF db[t] = NoRow \/ (db[t].exp /\ db[t].dead) THEN 0 ELSE db[t].id

AtRest == channel = << >> /\ held = << >> /\ \A b \in KeepTasks : task[b] = Idle
-----------------------------------------------------------------------------
(***************************************************************************)
(* Once everything given to set has been worked off, a subscriber is sent  *)
(* the message of the last set of the topic, whatever set answered, or     *)
(* nothing when that one deleted the topic or its expiry interval is over. *)
(* Only five things come between: a later batch that ran beside an earlier *)
(* one with the same topic, a refusal, an error, a time-out that dropped   *)
(* the rest of a batch, and a restart.                                     *)
(***************************************************************************)
LastSetServed ==
    AtRest =>
        \A t \in KeepTopics :
            upset[t] = {} => \/ Served(t) = latest[t].id
                             \/ Served(t) = 0 /\ latest[t] # NoRow /\ latest[t].exp
=============================================================================
