-------------------------------- MODULE Hooks --------------------------------
(***************************************************************************)
(* Plugins and their hook handlers: Manager of plugin.rs, and              *)
(* DefaultHookManager and DefaultHookRegister of default.rs.  An event of  *)
(* a type runs the enabled handlers of that type, the highest priority     *)
(* first, under the type's asynchronous read lock; registering a handler   *)
(* and switching one on or off take its write lock.  The locks live in a   *)
(* DashMap and so do the plugins; a guard of such a map blocks the worker  *)
(* thread of a task that has to wait for it, and both maps' guards are     *)
(* kept over awaits.  There are three pools of threads: the sessions', the *)
(* gRPC server's and the HTTP API's.  A call of the manager comes from the *)
(* HTTP API, or from another node: then it runs inside an event.           *)
(***************************************************************************)
EXTENDS Naturals, Sequences, FiniteSets

CONSTANTS
    HkPlugins,      \* plugins
    HkSlot,         \* HkSlot[p]: shard of the plugin map that has p
    HkTypes,        \* hook types; all of them share a shard of the handler map
    HkGrpc,         \* the type of the events of the gRPC server
    HkPriority,     \* HkPriority[p]: priority of the handlers of p
    HkImmutable,    \* plugins registered as immutable
    HkUnstoppable,  \* plugins whose stop answers false at once
    HkEvents,       \* events: tasks that call exec
    HkEventTypes,   \* the types the events may have in a behaviour
    HkCallers,      \* requests of the HTTP API that call the manager
    HkWorkers,      \* HkWorkers[pool]: its worker threads
    HkOps,          \* bound: calls of the manager
    HkFails,        \* bound: constructors, inits, starts and stops that fail
    HkBoots         \* bound: the sets of plugins started by default

ASSUME HooksAssumption ==
    /\ HkImmutable \subseteq HkPlugins /\ HkUnstoppable \subseteq HkPlugins
    /\ HkGrpc \in HkTypes /\ HkOps \in Nat /\ HkFails \in Nat
    /\ \A pool \in {"session", "rpc", "api"} : HkWorkers[pool] \in Nat \ {0}
    /\ \A B \in HkBoots : B \subseteq HkPlugins

VARIABLES
    entry,      \* Manager.plugins: entry[p] = [made, inited, active]
    handlers,   \* DefaultHookManager.handlers: entries per type
    call,       \* call[x]: the call of the manager that task x makes, or Idle
    event,      \* event[e]: the exec of e
    opsDone, fails,
    flawed      \* history: plugins whose init, start or stop failed half-way

hkVars == <<entry, handlers, call, event, opsDone, fails, flawed>>

HkTasks == HkCallers \cup HkEvents
Idle == [what |-> "none"]
HkEntry(p, id) == [p |-> p, id |-> id, on |-> FALSE]
NewEvent(t) == [step |-> "new", type |-> t, left |-> {}, ran |-> {}, who |-> {}]

(***************************************************************************)
(* Manager::register at startup: a plugin of the default list is made,     *)
(* initialized and started, of the others only the constructor is kept.    *)
(***************************************************************************)
HkInit ==
    \E B \in HkBoots, type \in HkEventTypes :
        /\ entry = [p \in HkPlugins |->
                      [made |-> IF p \in B THEN "plugin" ELSE "fn",
                       inited |-> p \in B, active |-> p \in B]]
        /\ handlers = [t \in HkTypes |-> {[HkEntry(p, 1) EXCEPT !.on = TRUE] : p \in B}]
        /\ call = [x \in HkTasks |-> Idle]
        /\ event = [e \in HkEvents |-> NewEvent(type[e])]
        /\ opsDone = 0 /\ fails = 0 /\ flawed = {}

\* x is in a call of the manager and has come to one of the steps
At(x, steps) == call[x].what # "none" /\ call[x].step \in steps

\* HkTasks whose thread waits for a guard of a map
Blocked == {x \in HkTasks : At(x, {"blocked", "barred"})}
           \cup {e \in HkEvents : event[e].step = "blocked"}

Pool(x) == IF x \in HkCallers THEN "api"
           ELSE IF event[x].type = HkGrpc THEN "rpc" ELSE "session"

\* A task runs only when a thread of its pool is not blocked
Thread(x) == Cardinality({y \in Blocked : Pool(y) = Pool(x)}) < HkWorkers[Pool(x)]

Readers(t) == {e \in HkEvents : event[e].step = "hook" /\ event[e].type = t}

\* mutant: every call locks the shard for writing
Adding_all == {x \in HkTasks : At(x, {"write"})}

\* Register::add keeps the map's entry, a writing guard, while it awaits the
\* type's lock; adjust_status keeps a reading guard
Adding == {x \in HkTasks : At(x, {"write"}) /\ call[x].what = "init"}
-----------------------------------------------------------------------------
(* Events *)

\* DefaultHookManager::exec: handlers.get blocks the thread while a call adds
\* a handler
ExecGet(e) ==
    /\ event[e].step = "new" /\ Thread(e)
    /\ event' = [event EXCEPT ![e].step = IF Adding = {} THEN "get" ELSE "blocked"]
    /\ UNCHANGED <<entry, handlers, call, opsDone, fails, flawed>>

ExecUnblocked(e) ==
    /\ event[e].step = "blocked" /\ Adding = {}
    /\ event' = [event EXCEPT ![e].step = "get"]
    /\ UNCHANGED <<entry, handlers, call, opsDone, fails, flawed>>

\* type_handlers.read().await: not while a call has or awaits the write lock
\* (the lock is fair)
ExecRead(e) ==
    /\ event[e].step = "get" /\ Thread(e)
    /\ ~\E x \in HkTasks : At(x, {"write"}) /\ call[x].type = event[e].type
    /\ event' = [event EXCEPT ![e].step = "hook", ![e].left = handlers[event[e].type]]
    /\ UNCHANGED <<entry, handlers, call, opsDone, fails, flawed>>

\* The entries that come next: of the highest priority; equal ones are ordered
\* by a random identifier
First(S) == {h \in S : \A k \in S : HkPriority[k.p] <= HkPriority[h.p]}

\* One turn of the loop: the handler of an enabled entry runs and may end it
ExecHook(e, proceed) ==
    /\ event[e].step = "hook" /\ event[e].left # {} /\ call[e] = Idle /\ Thread(e)
    /\ \E h \in First(event[e].left) :
          event' = [event EXCEPT
                      ![e].left = IF h.on /\ ~proceed THEN {} ELSE @ \ {h},
                      ![e].ran = IF h.on THEN @ \cup {h.p} ELSE @,
                      ![e].who = IF h.on /\ h.p \in event[e].ran THEN @ \cup {h.p} ELSE @]
    /\ UNCHANGED <<entry, handlers, call, opsDone, fails, flawed>>

ExecEnd(e) ==
    /\ event[e].step = "hook" /\ event[e].left = {} /\ Thread(e)
    /\ event' = [event EXCEPT ![e] = [NewEvent(HkGrpc) EXCEPT !.step = "done", !.who = event[e].who]]
    /\ UNCHANGED <<entry, handlers, call, opsDone, fails, flawed>>
-----------------------------------------------------------------------------
(* Calls of the manager: start, stop, load_config, and get or iter *)

\* The guard of the plugin map for p, a reading one for get, can be had
EntryFree(x, p, what) ==
    \A y \in HkTasks \ {x} :
        call[y].what # "none" /\ call[y].step # "blocked" /\ HkSlot[call[y].p] = HkSlot[p]
        => what = "get" /\ call[y].what = "get"

CallOf(p, what, step) ==
    [what |-> what, p |-> p, step |-> step, todo |-> HkTypes, type |-> HkGrpc]

\* What the call does once it has the entry: immutable plugins are refused,
\* start of an active plugin has nothing to do, stop of one that is not active
\* and load_config of one that is not inited are errors
Entered(p, what) ==
    CASE what = "get" -> CallOf(p, "get", "ready")
      [] what # "get" /\ p \in HkImmutable -> Idle
      [] OTHER ->
           IF what = "start" /\ ~entry[p].inited THEN CallOf(p, "init", "ready")
           ELSE IF \/ what = "start" /\ ~entry[p].active
                   \/ what = "stop" /\ entry[p].active
                   \/ what = "reload" /\ entry[p].inited
                THEN CallOf(p, what, "ready") ELSE Idle

\* From the HTTP API, or in the handler of an event of the gRPC server; the
\* thread blocks when another call keeps the entry's shard
CallBegin(x, p, what) ==
    /\ call[x] = Idle /\ opsDone < HkOps /\ opsDone' = opsDone + 1
    /\ x \in HkEvents => x \in Readers(HkGrpc) /\ event[x].left # {}
    /\ Thread(x)
    /\ call' = [call EXCEPT ![x] = IF EntryFree(x, p, what) THEN Entered(p, what)
                                   ELSE CallOf(p, what, "blocked")]
    /\ UNCHANGED <<entry, handlers, event, fails, flawed>>

CallUnblocked(x) ==
    /\ At(x, {"blocked"}) /\ EntryFree(x, call[x].p, call[x].what)
    /\ call' = [call EXCEPT ![x] = Entered(call[x].p, call[x].what)]
    /\ UNCHANGED <<entry, handlers, event, opsDone, fails, flawed>>

\* x runs in a call of one of the kinds
Runs(x, kinds) == At(x, {"ready"}) /\ call[x].what \in kinds /\ Thread(x)
Ends(x) == call' = [call EXCEPT ![x] = Idle]
Failing == fails < HkFails /\ fails' = fails + 1

\* get and load_config end; they change nothing here
CallEnds(x) ==
    /\ Runs(x, {"get", "reload"}) /\ Ends(x)
    /\ UNCHANGED <<entry, handlers, event, opsDone, fails, flawed>>

\* plugin_mut: the constructor is taken out before it is called
OpMake(x) ==
    /\ Runs(x, {"init"}) /\ entry[call[x].p].made = "fn"
    /\ \/ entry' = [entry EXCEPT ![call[x].p].made = "plugin"] /\ UNCHANGED <<call, fails>>
       \/ entry' = [entry EXCEPT ![call[x].p].made = "none"] /\ Ends(x) /\ Failing
    /\ UNCHANGED <<handlers, event, opsDone, flawed>>

\* plugin_mut: "the plug-in is not initialized"
OpUnmade(x) ==
    /\ Runs(x, {"init"}) /\ entry[call[x].p].made = "none" /\ Ends(x)
    /\ UNCHANGED <<entry, handlers, event, opsDone, fails, flawed>>

\* The guard of the handler map that x needs can be had
MapFree(x) ==
    /\ Adding \subseteq {x}
    /\ call[x].what = "init" => ~\E y \in HkTasks \ {x} : At(y, {"write"})

\* The next handler of init, start or stop takes the handler map's guard, or
\* blocks its thread
OpShard(x, t) ==
    /\ Runs(x, {"init", "start", "stop"}) /\ t \in call[x].todo
    /\ call[x].what = "init" => entry[call[x].p].made = "plugin"
    /\ call[x].what = "stop" => call[x].p \notin HkUnstoppable
    /\ call' = [call EXCEPT ![x].step = IF MapFree(x) THEN "write" ELSE "barred",
                            ![x].type = t]
    /\ UNCHANGED <<entry, handlers, event, opsDone, fails, flawed>>

OpUnbarred(x) ==
    /\ At(x, {"barred"}) /\ MapFree(x)
    /\ call' = [call EXCEPT ![x].step = "write"]
    /\ UNCHANGED <<entry, handlers, event, opsDone, fails, flawed>>

\* mutant: the readers of the type are not waited for
OpWrite_now(x) ==
    /\ At(x, {"write"}) /\ Thread(x)
    /\ LET t == call[x].type
           own == {h \in handlers[t] : h.p = call[x].p}
       IN  handlers' = [handlers EXCEPT ![t] =
             IF call[x].what = "init" THEN @ \cup {HkEntry(call[x].p, Cardinality(own) + 1)}
             ELSE (@ \ own) \cup {[h EXCEPT !.on = (call[x].what = "start")] : h \in own}]
    /\ call' = [call EXCEPT ![x].step = "ready", ![x].todo = @ \ {call[x].type},
                            ![x].type = HkGrpc]
    /\ UNCHANGED <<entry, event, opsDone, fails, flawed>>

\* add inserts the handler, disabled; adjust_status sets the plugin's entries;
\* the guards are dropped
OpWrite(x) ==
    /\ At(x, {"write"}) /\ Thread(x) /\ Readers(call[x].type) = {}
    /\ LET t == call[x].type
           own == {h \in handlers[t] : h.p = call[x].p}
       IN  handlers' = [handlers EXCEPT ![t] =
             IF call[x].what = "init" THEN @ \cup {HkEntry(call[x].p, Cardinality(own) + 1)}
             ELSE (@ \ own) \cup {[h EXCEPT !.on = (call[x].what = "start")] : h \in own}]
    /\ call' = [call EXCEPT ![x].step = "ready", ![x].todo = @ \ {call[x].type},
                            ![x].type = HkGrpc]
    /\ UNCHANGED <<entry, event, opsDone, fails, flawed>>

\* Plugin::init returns: Manager::start goes on with Plugin::start
OpInited(x) ==
    /\ Runs(x, {"init"}) /\ call[x].todo = {}
    /\ entry' = [entry EXCEPT ![call[x].p].inited = TRUE]
    /\ call' = [call EXCEPT ![x].what = "start", ![x].todo = HkTypes]
    /\ UNCHANGED <<handlers, event, opsDone, fails, flawed>>

\* Plugin::init, ::start or ::stop fails, perhaps with some handlers added or
\* switched: inited and active stay as they are
OpErrs(x) ==
    /\ Runs(x, {"init", "start", "stop"}) /\ Failing
    /\ call[x].what = "init" => entry[call[x].p].made = "plugin"
    /\ flawed' = IF call[x].todo # HkTypes THEN flawed \cup {call[x].p} ELSE flawed
    /\ Ends(x)
    /\ UNCHANGED <<entry, handlers, event, opsDone>>

\* Plugin::start returns, or ::stop, which may answer that the plugin has not
\* stopped although its handlers are switched off
OpDone(x, stopped) ==
    /\ Runs(x, {"start", "stop"}) /\ call[x].todo = {}
    /\ entry' = [entry EXCEPT ![call[x].p].active = (call[x].what = "start" \/ ~stopped)]
    /\ Ends(x)
    /\ UNCHANGED <<handlers, event, opsDone, fails, flawed>>

\* Plugin::stop answers false: "cannot be stopped"
OpNotStopped(x) ==
    /\ Runs(x, {"stop"}) /\ call[x].p \in HkUnstoppable /\ Ends(x)
    /\ UNCHANGED <<entry, handlers, event, opsDone, fails, flawed>>

\* The steps of events and calls that have begun
HkGoesOn ==
    \/ \E e \in HkEvents : \/ \E b \in BOOLEAN : ExecHook(e, b)
                           \/ ExecUnblocked(e) \/ ExecRead(e) \/ ExecEnd(e)
    \/ \E x \in HkTasks : \/ \E t \in HkTypes : OpShard(x, t)
                        \/ \E b \in BOOLEAN : OpDone(x, b)
                        \/ CallUnblocked(x) \/ CallEnds(x) \/ OpMake(x) \/ OpUnmade(x)
                        \/ OpUnbarred(x) \/ OpWrite(x) \/ OpInited(x) \/ OpErrs(x)
                        \/ OpNotStopped(x)

HkNext ==
    \/ \E e \in HkEvents : ExecGet(e)
    \/ \E x \in HkTasks, p \in HkPlugins, what \in {"start", "stop", "reload", "get"} :
          CallBegin(x, p, what)
    \/ HkGoesOn

HkSpec == HkInit /\ [][HkNext]_hkVars
-----------------------------------------------------------------------------
(***************************************************************************)
(* Once Manager::stop has returned true, no handler of the plugin runs,    *)
(* not even in an event that began before: adjust_status waits for the     *)
(* running events of every type.  And no event runs a handler of a plugin  *)
(* twice.  Both fail for a plugin whose init, start or stop failed         *)
(* half-way: nothing takes its handlers back.                              *)
(***************************************************************************)
StoppedIsSilent ==
    /\ \A p \in HkPlugins \ flawed, e \in HkEvents :
         /\ entry[p].inited /\ ~entry[p].active
         /\ \A x \in HkTasks : At(x, {"ready", "barred", "write"}) => call[x].p # p
         => \A h \in event[e].left : h.p = p => ~h.on
    /\ \A e \in HkEvents : event[e].who \subseteq flawed

\* Nothing that has begun can go on
Stuck ==
    /\ (\E x \in HkTasks : call[x] # Idle)
       \/ \E e \in HkEvents : event[e].step \in {"blocked", "get", "hook"}
    /\ ~ENABLED HkGoesOn

(***************************************************************************)
(* Events and calls come to a stop for good in three ways only.  A handler *)
(* is being added and an event's thread is blocked on the handler map's    *)
(* shard, which add keeps while it awaits the type's lock.  A call's       *)
(* thread is blocked by another call, which keeps the plugin's entry, or   *)
(* the shard, over its awaits.  A call from another node switches a        *)
(* handler of the gRPC type, whose lock its own event has.  Otherwise, in  *)
(* particular when plugins that are inited are started and stopped one at  *)
(* a time through the HTTP API, every lock is given back: the type's lock  *)
(* waited for in adjust_status makes events wait, and does not stop them.  *)
(***************************************************************************)
StuckOnlyByGuards ==
    Stuck =>
      \/ /\ \E x \in HkTasks : At(x, {"write"}) /\ call[x].what = "init"
         /\ \E e \in HkEvents : event[e].step = "blocked"
      \/ \E x, y \in HkTasks : /\ x # y /\ At(x, {"blocked", "barred"})
                             /\ At(y, {"ready", "barred", "write"})
      \/ \E e \in Readers(HkGrpc) : At(e, {"write"}) /\ call[e].type = HkGrpc

(***************************************************************************)
(* The hook manager serves while plugins come and go.                      *)
(***************************************************************************)
HooksServe == StoppedIsSilent /\ StuckOnlyByGuards
=============================================================================
