---------------------------- MODULE MessageStore ----------------------------
(***************************************************************************)
(* The redis message store: storage.rs of the plugin rmqtt-message-storage *)
(* (the RAM store is in PublishFlow).  A stored message is a map of the    *)
(* database, named by its message id, with the message and one entry per   *)
(* client it was forwarded to.  store puts the message into a channel, a   *)
(* collector spawns one task per batch, and a message can be found once    *)
(* its id is in topic_tree.  The id generator is saved with every batch.   *)
(* All messages and filters here belong to one topic.                      *)
(***************************************************************************)
EXTENDS Naturals, Sequences, SequencesExt, FiniteSets, FiniteSetsExt

CONSTANTS
    StMsgs,         \* the publishes, a set of numbers
    StClients,      \* the subscribers
    StLoads,        \* what may load messages for a client at the same time: its
                    \* SUBSCRIBE, the task that transfers a session's state to it
    StTasks,        \* slots for running batches (500)
    StBatch,        \* messages of a batch at most (500)
    StCleanup,      \* cleanup_count
    StCasts         \* bound: who is online and in which group, calls of get, faults

ASSUME MessageStoreAssumption ==
    StMsgs \subseteq Nat /\ StBatch \in Nat \ {0} /\ StCleanup \in Nat

VARIABLES
    stCast,     \* [live: the entries a message is forwarded to at once,
                \*  group: each client's shared group or "", mortal: messages
                \*  may expire, gets, faults: at most so many]
    idGen,      \* id_generater
    idSaved,    \* the key "id_generater" of the database
    stPub,      \* stPub[m]: "new", "id", "sent": the forwards() call of m
    stId,       \* stId[m]: its msg_id
    stQueue,    \* msg_tx .. msg_rx
    stTask,     \* stTask[b]: a running _batch_msg_forwardeds, or StIdle
    stMap,      \* stMap[i]: the map of id i, or NoStMap
    stTree,     \* the ids in topic_tree and topic_list
    stGet,      \* stGet[g]: a running _get of client g[1], or StIdle
    stSpent,    \* [gets, faults] so far
    stGiven,    \* history: stGiven[m][c]: copies of m handed to c
    stUpset     \* history: <<what, m>>

stVars == <<stCast, idGen, idSaved, stPub, stId, stQueue, stTask, stMap, stTree,
            stGet, stSpent, stGiven, stUpset>>

StIds == 1 .. Cardinality(StMsgs)
NoStMap == [msg |-> 0]
StIdle == [step |-> "idle"]
StGets == StClients \X StLoads
NoGets == [g \in StGets |-> StIdle]
\* The value of a client's entry: the filter and group it was served for
StEntry(c) == [c |-> c, g |-> stCast.group[c]]
StLive(m) == {StEntry(c) : c \in stCast.live[m]}

StInit ==
    /\ stCast \in StCasts
    /\ idGen = 1 /\ idSaved = 1
    /\ stPub = [m \in StMsgs |-> "new"] /\ stId = [m \in StMsgs |-> 0]
    /\ stQueue = << >> /\ stTask = [b \in StTasks |-> StIdle]
    /\ stMap = [i \in StIds |-> NoStMap] /\ stTree = {}
    /\ stGet = NoGets
    /\ stSpent = [gets |-> 0, faults |-> 0]
    /\ stGiven = [m \in StMsgs |-> [c \in StClients |-> 0]]
    /\ stUpset = {}

\* Session::forwards takes the id (next_msg_id) before it forwards
StNextId(m) ==
    /\ m \in DOMAIN stCast.live
    /\ stPub[m] = "new" /\ \A k \in StMsgs : k < m => stPub[k] # "new"
    /\ stPub' = [stPub EXCEPT ![m] = "id"]
    /\ stId' = [stId EXCEPT ![m] = idGen]
    /\ idGen' = idGen + 1
    /\ UNCHANGED <<stCast, idSaved, stQueue, stTask, stMap, stTree, stGet, stSpent, stGiven, stUpset>>

\* Session::forwards: the message goes to who is online, then MessageManager::store
StStore(m) ==
    /\ stPub[m] = "id"
    /\ stPub' = [stPub EXCEPT ![m] = "sent"]
    /\ stGiven' = [stGiven EXCEPT ![m] =
                      [c \in StClients |-> @[c] + IF c \in stCast.live[m] THEN 1 ELSE 0]]
    /\ stQueue' = Append(stQueue, m)
    /\ UNCHANGED <<stCast, idGen, idSaved, stId, stTask, stMap, stTree, stGet, stSpent, stUpset>>

\* serve: a task for a batch of what the channel holds
StSpawn(b) ==
    /\ stQueue # << >> /\ stTask[b] = StIdle
    /\ LET n == Min({Len(stQueue), StBatch})
       IN  /\ stTask' = [stTask EXCEPT ![b] = [step |-> "load", msgs |-> SubSeq(stQueue, 1, n),
                                               saved |-> 0, fwd |-> {}]]
           /\ stQueue' = SubSeq(stQueue, n + 1, Len(stQueue))
    /\ UNCHANGED <<stCast, idGen, idSaved, stPub, stId, stMap, stTree, stGet, stSpent, stGiven, stUpset>>

\* The task starts with storage_save_msg_id, which loads the generator ...
StLoadId(b) ==
    /\ stTask[b].step = "load"
    /\ stTask' = [stTask EXCEPT ![b].step = "save", ![b].saved = idGen]
    /\ UNCHANGED <<stCast, idGen, idSaved, stPub, stId, stQueue, stMap, stTree, stGet, stSpent, stGiven, stUpset>>

\* mutant: the last id given out is saved, not the next one
StSaveId_before(b) ==
    /\ stTask[b].step = "save"
    /\ idSaved' = stTask[b].saved - 1
    /\ stTask' = [stTask EXCEPT ![b].step = "next"]
    /\ UNCHANGED <<stCast, idGen, stPub, stId, stQueue, stMap, stTree, stGet, stSpent, stGiven, stUpset>>

\* ... and inserts it later; a second batch may have saved more in between
StSaveId(b) ==
    /\ stTask[b].step = "save"
    /\ idSaved' = stTask[b].saved
    /\ stUpset' = IF stTask[b].saved < idSaved THEN stUpset \cup {<<"crossed", 0>>} ELSE stUpset
    /\ stTask' = [stTask EXCEPT ![b].step = "next"]
    /\ UNCHANGED <<stCast, idGen, stPub, stId, stQueue, stMap, stTree, stGet, stSpent, stGiven>>

Current(b) == Head(stTask[b].msgs)

\* map(..) and insert(DATA, ..): the entries of a map that is there stay
StInsert(b) ==
    /\ stTask[b].step = "next" /\ stTask[b].msgs # << >>
    /\ LET m == Current(b)
           old == stMap[stId[m]]
       IN  /\ stMap' = [stMap EXCEPT ![stId[m]] =
                           [msg |-> m, fwd |-> IF old = NoStMap THEN {} ELSE old.fwd,
                            dead |-> FALSE]]
           /\ stUpset' = IF old = NoStMap THEN stUpset ELSE stUpset \cup {<<"reused", m>>}
           /\ stTask' = [stTask EXCEPT ![b].step = "fwd", ![b].fwd = StLive(m)]
    /\ UNCHANGED <<stCast, idGen, idSaved, stPub, stId, stQueue, stTree, stGet, stSpent, stGiven>>

\* _forwardeds: one entry per client
StForwarded(b, e) ==
    /\ stTask[b].step = "fwd" /\ e \in stTask[b].fwd
    /\ LET i == stId[Current(b)]
       IN  stMap' = IF stMap[i] = NoStMap THEN stMap ELSE [stMap EXCEPT ![i].fwd = @ \cup {e}]
    /\ stTask' = [stTask EXCEPT ![b].fwd = @ \ {e}]
    /\ UNCHANGED <<stCast, idGen, idSaved, stPub, stId, stQueue, stTree, stGet, stSpent, stGiven, stUpset>>

\* topic_tree.insert and topic_list.insert: from now on _get finds the message
StFound(b) ==
    /\ stTask[b].step = "fwd" /\ stTask[b].fwd = {}
    /\ stTree' = stTree \cup {stId[Current(b)]}
    /\ stTask' = [stTask EXCEPT ![b].step = "next", ![b].msgs = Tail(@)]
    /\ UNCHANGED <<stCast, idGen, idSaved, stPub, stId, stQueue, stMap, stGet, stSpent, stGiven, stUpset>>

\* The batch is through and counted
StBatchEnd(b) ==
    /\ stTask[b].step = "next" /\ stTask[b].msgs = << >>
    /\ stTask' = [stTask EXCEPT ![b] = StIdle]
    /\ UNCHANGED <<stCast, idGen, idSaved, stPub, stId, stQueue, stMap, stTree, stGet, stSpent, stGiven, stUpset>>

Fault == stSpent.faults < stCast.faults /\ stSpent' = [stSpent EXCEPT !.faults = @ + 1]

\* map, insert or an entry fails: the message is skipped, or the entry only
StDbError(b) ==
    /\ Fault
    /\ \/ /\ stTask[b].step = "next" /\ stTask[b].msgs # << >>
          /\ stTask' = [stTask EXCEPT ![b].msgs = Tail(@)]
          /\ UNCHANGED stUpset
       \/ /\ stTask[b].step = "fwd"
          /\ \E e \in stTask[b].fwd : stTask' = [stTask EXCEPT ![b].fwd = @ \ {e}]
          /\ stUpset' = stUpset \cup {<<"unmarked", Current(b)>>}
    /\ UNCHANGED <<stCast, idGen, idSaved, stPub, stId, stQueue, stMap, stTree, stGet, stGiven>>

\* Saving the id fails, or anything times out after five seconds: the function
\* returns, the rest of the batch is not stored
StDropBatch(b) ==
    /\ Fault
    /\ stTask[b].step = "save" \/ (stTask[b].step \in {"next", "fwd"} /\ stTask[b].msgs # << >>)
    /\ stUpset' = IF stTask[b].step = "fwd"
                  THEN stUpset \cup {<<"unmarked", Current(b)>>} ELSE stUpset
    /\ stTask' = [stTask EXCEPT ![b] = StIdle]
    /\ UNCHANGED <<stCast, idGen, idSaved, stPub, stId, stQueue, stMap, stTree, stGet, stGiven>>

(***************************************************************************)
(* get: _get runs in the task queue; it matches topic_tree and treats the  *)
(* ids it found side by side (join_all).  transfer_session_state is        *)
(* spawned, so its load runs beside the one of a SUBSCRIBE.                *)
(***************************************************************************)
StGetStart(g) ==
    /\ stGet[g] = StIdle /\ stSpent.gets < stCast.gets
    /\ stSpent' = [stSpent EXCEPT !.gets = @ + 1]
    /\ stGet' = [stGet EXCEPT ![g] = [step |-> "run", check |-> stTree, mark |-> {}, res |-> {},
                                      waited |-> TRUE]]
    /\ UNCHANGED <<stCast, idGen, idSaved, stPub, stId, stQueue, stTask, stMap, stTree, stGiven, stUpset>>

\* mutant: the entries of the group are not looked at
StIsForwarded_own(c, row) == \E e \in row.fwd : e.c = c

\* _is_forwarded: an entry of the client, or of its group and filter
StIsForwarded(c, row) ==
    \E e \in row.fwd : e.c = c \/ (stCast.group[c] # "" /\ e.g = stCast.group[c])

\* Another load of the client, or of its group, looked at message i and has not
\* marked it yet.
StRaced(g, i) ==
    \E o \in StGets \ {g} :
        /\ stGet[o].step = "run" /\ i \in stGet[o].mark
        /\ \/ o[1] = g[1]
           \/ stCast.group[g[1]] # "" /\ stCast.group[o[1]] = stCast.group[g[1]]

\* _is_forwarded and _get_message: only reads.  An error of _is_forwarded
\* counts as "not forwarded" (unwrap_or_default)
StCheck(g, i, err) ==
    /\ stGet[g].step = "run" /\ i \in stGet[g].check
    /\ IF err THEN Fault ELSE UNCHANGED stSpent
    /\ LET there == stMap[i] # NoStMap /\ ~stMap[i].dead
           take == there /\ (err \/ ~StIsForwarded(g[1], stMap[i]))
       IN  /\ stGet' = [stGet EXCEPT ![g].check = @ \ {i},
                                     ![g].mark = IF take THEN @ \cup {i} ELSE @]
           /\ stUpset' = stUpset
                 \cup (IF take /\ err THEN {<<"unmarked", stMap[i].msg>>} ELSE {})
                 \cup (IF take /\ StRaced(g, i) THEN {<<"raced", stMap[i].msg>>} ELSE {})
    /\ UNCHANGED <<stCast, idGen, idSaved, stPub, stId, stQueue, stTask, stMap, stTree, stGiven>>

\* mutant: the marked message is not part of the result
StMark_dropped(g, i, err) ==
    /\ stGet[g].step = "run" /\ i \in stGet[g].mark
    /\ stMap' = IF stMap[i] = NoStMap THEN stMap ELSE [stMap EXCEPT ![i].fwd = @ \cup {StEntry(g[1])}]
    /\ stGet' = [stGet EXCEPT ![g].mark = @ \ {i}]
    /\ ~err
    /\ UNCHANGED <<stCast, idGen, idSaved, stPub, stId, stQueue, stTask, stTree, stSpent, stGiven,
                   stUpset>>

\* _get: insert of the client's entry, which may fail; the message is part of
\* the result in both cases
StMark(g, i, err) ==
    /\ stGet[g].step = "run" /\ i \in stGet[g].mark
    /\ IF err THEN Fault /\ stMap[i] # NoStMap ELSE UNCHANGED stSpent
    /\ stMap' = IF stMap[i] = NoStMap \/ err THEN stMap
                ELSE [stMap EXCEPT ![i].fwd = @ \cup {StEntry(g[1])}]
    /\ stUpset' = IF err THEN stUpset \cup {<<"unmarked", stMap[i].msg>>} ELSE stUpset
    /\ stGet' = [stGet EXCEPT ![g].mark = @ \ {i},
                              ![g].res = IF stMap[i] = NoStMap THEN @ ELSE @ \cup {stMap[i].msg}]
    /\ UNCHANGED <<stCast, idGen, idSaved, stPub, stId, stQueue, stTask, stTree, stGiven>>

\* get answers, if its caller still waits: the session sends the messages
StGetEnd(g) ==
    /\ stGet[g].step = "run" /\ stGet[g].check = {} /\ stGet[g].mark = {}
    /\ stGiven' = [m \in StMsgs |-> IF m \in stGet[g].res /\ stGet[g].waited
                                    THEN [stGiven[m] EXCEPT ![g[1]] = @ + 1] ELSE stGiven[m]]
    /\ stUpset' = IF stGet[g].waited THEN stUpset
                  ELSE stUpset \cup {<<"unanswered", m>> : m \in stGet[g].res}
    /\ stGet' = [stGet EXCEPT ![g] = StIdle]
    /\ UNCHANGED <<stCast, idGen, idSaved, stPub, stId, stQueue, stTask, stMap, stTree, stSpent>>

\* get: three seconds are over and the caller gets an empty list; the task goes on
StGetTimeout(g) ==
    /\ stGet[g].step = "run" /\ stGet[g].waited /\ Fault
    /\ stGet' = [stGet EXCEPT ![g].waited = FALSE]
    /\ UNCHANGED <<stCast, idGen, idSaved, stPub, stId, stQueue, stTask, stMap, stTree, stGiven, stUpset>>

\* expiry_time_at passes; the database drops the map now or later
StExpire(i, gone) ==
    /\ stCast.mortal /\ i \in stTree
    /\ stMap[i] # NoStMap
    /\ ~stMap[i].dead \/ gone
    /\ stMap' = [stMap EXCEPT ![i] = IF gone THEN NoStMap ELSE [@ EXCEPT !.dead = TRUE]]
    /\ UNCHANGED <<stCast, idGen, idSaved, stPub, stId, stQueue, stTask, stTree, stGet, stSpent, stGiven, stUpset>>

StDead == {i \in stTree : stMap[i] = NoStMap \/ stMap[i].dead}
\* The cleanup task: at most cleanup_count + 1 expired entries, the first to
\* expire first, leave topic_list and topic_tree
StCleanTree ==
    /\ StDead # {}
    /\ \E R \in SUBSET StDead :
          /\ Cardinality(R) = Min({Cardinality(StDead), StCleanup + 1})
          /\ stTree' = stTree \ R
    /\ UNCHANGED <<stCast, idGen, idSaved, stPub, stId, stQueue, stTask, stMap, stGet, stSpent, stGiven, stUpset>>

(***************************************************************************)
(* The node stops and starts again.  new loads the generator, init runs    *)
(* restore_topic_tree: every map with a message that has not expired.      *)
(***************************************************************************)
StRestart ==
    /\ Fault
    /\ idGen' = idSaved
    /\ stTree' = {i \in StIds : stMap[i] # NoStMap /\ ~stMap[i].dead}
    /\ stPub' = [m \in StMsgs |-> IF stPub[m] = "id" THEN "sent" ELSE stPub[m]]
    /\ stQueue' = << >> /\ stTask' = [b \in StTasks |-> StIdle] /\ stGet' = NoGets
    /\ stUpset' = stUpset
         \cup {<<"unmarked", Current(b)>> : b \in {b \in StTasks : stTask[b].step = "fwd"}}
         \cup UNION {{<<"unanswered", m>> : m \in stGet[g].res} :
                        g \in {g \in StGets : stGet[g] # StIdle}}
    /\ UNCHANGED <<stCast, idSaved, stId, stMap, stGiven>>

StNext ==
    \/ \E m \in StMsgs : StNextId(m) \/ StStore(m)
    \/ \E b \in StTasks : \/ StSpawn(b) \/ StLoadId(b) \/ StSaveId(b) \/ StInsert(b) \/ StFound(b)
                          \/ StBatchEnd(b) \/ StDbError(b) \/ StDropBatch(b)
                          \/ \E c \in StClients : StForwarded(b, StEntry(c))
    \/ \E g \in StGets : \/ StGetStart(g) \/ StGetEnd(g) \/ StGetTimeout(g)
                         \/ \E i \in StIds, err \in BOOLEAN : StCheck(g, i, err) \/ StMark(g, i, err)
    \/ \E i \in StIds, gone \in BOOLEAN : StExpire(i, gone)
    \/ StCleanTree \/ StRestart

StSpec == StInit /\ [][StNext]_stVars

StAmiss(m, whats) == \E w \in whats : <<w, m>> \in stUpset
-----------------------------------------------------------------------------
(***************************************************************************)
(* A client gets a message once, at publication or from the store, and a   *)
(* shared group gets it once among its members: _get looks at the entries  *)
(* that were written before the message could be found.  The exceptions    *)
(* are an entry that was not written or read (an error, or a time-out or a *)
(* restart in the middle of _forwardeds), and two loads, of the client or  *)
(* of two members of a group, that both looked before either had written   *)
(* its entry: then each of them gives one copy, and no later one does.     *)
(***************************************************************************)
StoredGivenOnce ==
    \A m \in StMsgs : ~StAmiss(m, {"unmarked"}) =>
        /\ \A c \in StClients : stGiven[m][c] <= Cardinality(StLoads)
        /\ ~StAmiss(m, {"raced"}) =>
              /\ \A c \in StClients : stGiven[m][c] <= 1
              /\ \A c, o \in StClients :
                    c # o /\ stCast.group[c] # "" /\ stCast.group[o] = stCast.group[c]
                    => stGiven[m][c] + stGiven[m][o] <= 1

(***************************************************************************)
(* An entry of a client in a message's map says that the client was given  *)
(* that message or is about to be: nobody is passed over because of a      *)
(* wrong entry.  It fails for an answer that came after the caller's three *)
(* seconds or that a restart cut off, and for an id used twice.            *)
(***************************************************************************)
MarkedWasGiven ==
    \A i \in StIds : stMap[i] # NoStMap =>
        \A e \in stMap[i].fwd :
            LET m == stMap[i].msg
            IN  \/ stGiven[m][e.c] >= 1
                \/ \E g \in StGets : g[1] = e.c /\ stGet[g] # StIdle /\ m \in stGet[g].res
                \/ StAmiss(m, {"unanswered", "reused"})

(***************************************************************************)
(* The saved generator is past every id that is in the database, so ids    *)
(* are not given out again after a restart, unless two batches saved the   *)
(* generator in the wrong order.                                           *)
(***************************************************************************)
SavedIdsFresh ==
    <<"crossed", 0>> \notin stUpset =>
        /\ \A i \in StIds : stMap[i] # NoStMap => i < idSaved
        /\ \A m \in StMsgs : ~StAmiss(m, {"reused"})

(***************************************************************************)
(* The store's three maps (messages, forwardeds, the id generator) tell    *)
(* the same story across batches, errors, time-outs and restarts.          *)
(***************************************************************************)
StoreTruthful == StoredGivenOnce /\ MarkedWasGiven /\ SavedIdsFresh
=============================================================================
