----------------------------- MODULE Authorize -----------------------------
(***************************************************************************)
(* Who may connect, subscribe and publish: the hook results that           *)
(* client_authenticate, client_subscribe_check_acl and                     *)
(* message_publish_check_acl of default.rs make of the handlers of the     *)
(* plugins rmqtt-auth-http (asked first, it has the higher priority) and   *)
(* rmqtt-acl.  Rules may be reloaded and the HTTP server may change its    *)
(* mind at any time; placeholders of the rules are filled in by a task     *)
(* that the ClientConnected hook spawns.                                   *)
(***************************************************************************)
EXTENDS Naturals, Sequences, SequencesExt, FiniteSets

CONSTANTS
    AuClients,      \* client ids; the topic "c" below is the client's own
    AuUser,         \* AuUser[c]: username and password, "" for none
    AuFiles,        \* the rule files that may be loaded, sequences of raw rules
    AuAnonymous,    \* allow_anonymous
    AuDenyIfError,  \* deny_if_error of rmqtt-auth-http
    AuDisconnect,   \* disconnect_if_pub_rejected of both plugins
    AuUnfit,        \* clients whose id or name makes no valid filter of a placeholder
    AuTimeout,      \* http_timeout
    AuCacheable,    \* values of the header X-Cache: NoCache, a time or Forever
    AuScenes,       \* bound: [who, http, time, loads, changes]: the clients, whether
                    \* rmqtt-auth-http runs, the clock, the reloads and the changes
                    \* of the HTTP server's mind
    AuChecks        \* bound: checks per behaviour

ASSUME AuthorizeAssumption ==
    /\ AuChecks \in Nat /\ AuTimeout \in Nat
    /\ \A s \in AuScenes : s.who \subseteq AuClients /\ s.http \in BOOLEAN

VARIABLES
    auScene,    \* the bounds of this behaviour
    auRules,    \* cfg: the parsed rules in force
    auOwn,      \* the clients whose topics are in the trees of these rules
    auSpawned,  \* build_placeholders tasks not yet run
    auClient,   \* auClient[c]: "off", "refused", "on" or "super"
    auCheck,    \* auCheck[c]: the check under way, or NoCheck
    auPolicy,   \* what the HTTP server answers for a publish to the own topic
    auCache,    \* auCache[c]: the cached answer for the own topic
    auClock, auSpent,
    auBefore,   \* history: clients connected before the last reload
    auHeld,     \* history: auHeld[a]: the last time the policy was a
    auLast      \* history: the last publish decision

auVars == <<auScene, auBefore, auRules, auOwn, auSpawned, auClient, auCheck, auPolicy,
            auCache, auClock, auSpent, auHeld, auLast>>

NoCheck == [step |-> "none", res |-> "none", cached |-> FALSE, forever |-> FALSE, since |-> 0]
NoCache == 100
Forever == 101
NoAnswer == [res |-> "none", until |-> 0]
Answers == {"allow", "deny", "ignore"}
-----------------------------------------------------------------------------
(* The rule file.  A raw rule has an access, a user, a control ("" for     *)
(* none) and topics: {"*"} for none, "%c" for one with the placeholder     *)

BadAccess(a) == a \notin {"allow", "deny"}

\* User::try_from: neither a name nor a client id is empty; a rule that denies
\* names no password
BadUser(u, access) ==
    \/ u.kind \notin {"all", "user", "client"}
    \/ u.kind # "all" /\ u.name = ""
    \/ u.kind = "user" /\ access = "deny" /\ (u.pass # "" \/ u.super)

\* Control::try_from: a missing one is all
Control(ctl) ==
    CASE ctl \in {"", "all"} -> {"connect", "publish", "subscribe"}
      [] ctl = "pubsub" -> {"publish", "subscribe"}
      [] ctl \in {"connect", "publish", "subscribe"} -> {ctl}
      [] OTHER -> {}

\* Topics::try_from: missing topics are every topic, placeholders are kept apart;
\* an element that is no topic, or is none that parses, is an error
BadTopic == "t#t"
Topics(ts) == [every |-> ts = {"*"}, own |-> "%c" \in ts]

\* Rule::try_from
BadRule(r) ==
    \/ BadAccess(r.access) \/ BadUser(r.user, r.access) \/ Control(r.control) = {}
    \/ BadTopic \in r.topics
RuleOf(r) ==
    [allow |-> r.access = "allow", user |-> r.user, ops |-> Control(r.control),
     every |-> Topics(r.topics).every, own |-> Topics(r.topics).own]

\* deserialize_rules: one bad rule and the file is refused
Parses(file) == \A k \in DOMAIN file : ~BadRule(file[k])
RulesOf(file) == [k \in DOMAIN file |-> RuleOf(file[k])]

\* User::hit: does the rule apply to the client, and as superuser
Hit(u, c, allow) ==
    CASE u.kind = "all" -> [hit |-> TRUE, super |-> FALSE]
      [] u.kind = "client" -> [hit |-> u.name = c, super |-> FALSE]
      [] u.kind = "user" ->
            LET me == AuUser[c]
            IN  [hit |-> /\ me.name # "" /\ u.name = me.name
                         /\ u.pass # "" => me.pass # "" /\ (allow => u.pass = me.pass),
                 super |-> allow /\ u.super]

\* Topics::is_match, for the client's own topic; auOwn are the names in the tree
Matches(r, c) == r.every \/ (r.own /\ c \in auOwn)

\* The first rule for the operation that applies, 0 when none does
FirstRule(op, c) ==
    LET fits == {k \in DOMAIN auRules :
                    /\ op \in auRules[k].ops
                    /\ Hit(auRules[k].user, c, auRules[k].allow).hit
                    /\ op # "connect" => Matches(auRules[k], c)}
    IN  IF fits = {} THEN 0 ELSE CHOOSE k \in fits : \A j \in fits : k <= j

AclAllows(op, c) == FirstRule(op, c) # 0 /\ auRules[FirstRule(op, c)].allow
-----------------------------------------------------------------------------
AuInit ==
    /\ auScene \in AuScenes /\ auBefore = {}
    /\ \E f \in AuFiles : Parses(f) /\ auRules = RulesOf(f)
    /\ auOwn = {} /\ auSpawned = {}
    /\ auClient = [c \in AuClients |-> "off"]
    /\ auCheck = [c \in AuClients |-> NoCheck]
    /\ auPolicy \in Answers
    /\ auCache = [c \in AuClients |-> NoAnswer]
    /\ auClock = 0 /\ auSpent = [loads |-> 0, changes |-> 0, checks |-> 0]
    /\ auHeld = [a \in Answers |-> IF a = auPolicy THEN 0 ELSE auScene.time + 1]
    /\ auLast = [by |-> "none"]

\* AclPlugin::load_config: fresh rules with empty trees; a file that does not
\* parse leaves the old ones
AclReload(f) ==
    /\ auSpent.loads < auScene.loads /\ auSpent' = [auSpent EXCEPT !.loads = @ + 1]
    /\ IF Parses(f)
       THEN /\ auRules' = RulesOf(f) /\ auOwn' = {}
            /\ auBefore' = {c \in AuClients : auClient[c] \in {"on", "super"}}
       ELSE UNCHANGED <<auRules, auOwn, auBefore>>
    /\ UNCHANGED auScene
    /\ UNCHANGED <<auSpawned, auClient, auCheck, auPolicy, auCache, auClock, auHeld, auLast>>

-----------------------------------------------------------------------------
(* rmqtt-auth-http: what the server may send, and what it stands for *)

Responses == Answers \cup {"super", "unknown", "status", "error"}

\* response_result: an unknown body allows, a status other than success is ignored
ResponseResult(resp) ==
    CASE resp \in {"allow", "unknown"} -> "allow"
      [] resp = "status" -> "ignore"
      [] OTHER -> resp

\* AuthHandler::auth: the result, or what an error stands for
HttpAuth(resp) ==
    IF resp = "error" THEN IF AuDenyIfError THEN "deny" ELSE "ignore" ELSE ResponseResult(resp)

\* AuthHandler::acl: the same, superusers are not told apart
HttpAcl(resp) ==
    IF resp = "error" THEN IF AuDenyIfError THEN "deny" ELSE "ignore"
    ELSE IF ResponseResult(resp) = "super" THEN "allow" ELSE ResponseResult(resp)

\* Its handler of ClientAuthenticate: "next" passes on to the next handler
HttpAuthenticate(resp) ==
    CASE HttpAuth(resp) = "allow" -> "on"
      [] HttpAuth(resp) = "super" -> "super"
      [] HttpAuth(resp) = "deny" -> "refused"
      [] HttpAuth(resp) = "ignore" -> "next"

\* The handler of rmqtt-acl always decides
AclAuthenticate(c) ==
    LET k == FirstRule("connect", c)
    IN  IF k = 0 \/ ~auRules[k].allow THEN "refused"
        ELSE IF Hit(auRules[k].user, c, TRUE).super THEN "super" ELSE "on"

\* client_authenticate, and the ClientConnected hook when it is accepted.  A client
\* without a name is not asked where anonymous ones are allowed
Authenticate(c, resp) ==
    /\ auClient[c] = "off" /\ c \in auScene.who
    /\ LET http == IF auScene.http THEN HttpAuthenticate(resp) ELSE "next"
           phase == IF AuUser[c].name = "" /\ AuAnonymous THEN "on"
                    ELSE IF http = "next" THEN AclAuthenticate(c) ELSE http
       IN  /\ auClient' = [auClient EXCEPT ![c] = phase]
           /\ auSpawned' = IF phase = "refused" THEN auSpawned ELSE auSpawned \cup {c}
    /\ auCache' = [auCache EXCEPT ![c] = NoAnswer]
    /\ auBefore' = auBefore \ {c}
    /\ UNCHANGED <<auScene, auRules, auOwn, auCheck, auPolicy, auClock, auSpent, auHeld, auLast>>

\* mutant: only the first client gets its own topics
BuildPlaceholders_known(c) ==
    /\ c \in auSpawned
    /\ auSpawned' = auSpawned \ {c}
    /\ auOwn' = IF auOwn = {} /\ \E k \in DOMAIN auRules : auRules[k].own THEN {c} ELSE auOwn
    /\ UNCHANGED <<auScene, auBefore, auRules, auClient, auCheck, auPolicy, auCache, auClock,
                   auSpent, auHeld, auLast>>

\* build_placeholders, under one read lock of the configuration; a filter that
\* does not parse with the client's id or name in it is logged and left out
BuildPlaceholders(c) ==
    /\ c \in auSpawned
    /\ auSpawned' = auSpawned \ {c}
    /\ auOwn' = IF c \notin AuUnfit /\ \E k \in DOMAIN auRules : auRules[k].own
                THEN auOwn \cup {c} ELSE auOwn
    /\ UNCHANGED <<auScene, auBefore, auRules, auClient, auCheck, auPolicy, auCache, auClock,
                   auSpent, auHeld, auLast>>

\* The first rule opens its own topic to every client
OwnTopicRule ==
    /\ auRules # << >> /\ auRules[1].own /\ auRules[1].allow
    /\ auRules[1].user.kind = "all" /\ {"publish", "subscribe"} \subseteq auRules[1].ops

\* A decision as the properties look at it
Decision(c, by, res) ==
    CASE by = "http" -> [by |-> by, res |-> res, at |-> auClock]
      [] by = "acl" -> [by |-> by, res |-> res, rule |-> OwnTopicRule,
                        excused |-> c \in auSpawned \cup auBefore \cup AuUnfit]
      [] by = "other" -> [by |-> by]
Verdict(ok) == IF ok THEN "allow" ELSE "deny"

\* The handlers of ClientSubscribeCheckAcl
HttpSubscribe(resp) == IF HttpAcl(resp) = "ignore" THEN "next" ELSE HttpAcl(resp)
AclSubscribe(c) == Verdict(AclAllows("subscribe", c))

\* client_subscribe_check_acl for the own topic: a superuser is not asked
SubscribeCheck(c, resp) ==
    /\ auClient[c] \in {"on", "super"} /\ auCheck[c] = NoCheck
    /\ auSpent.checks < AuChecks /\ auSpent' = [auSpent EXCEPT !.checks = @ + 1]
    /\ LET http == IF auScene.http THEN HttpSubscribe(resp) ELSE "next"
       IN  auLast' = IF auClient[c] = "super" THEN Decision(c, "other", "allow")
                     ELSE IF http = "next" THEN Decision(c, "acl", AclSubscribe(c))
                     ELSE Decision(c, "other", http)
    /\ UNCHANGED <<auScene, auBefore, auRules, auOwn, auSpawned, auClient, auCheck, auPolicy,
                   auCache, auClock, auHeld>>

\* mutant: an answer is kept past its time
Fresh_always(e) == e.res # "none"

Fresh(e) == e.res # "none" /\ (e.until = Forever \/ auClock < e.until)

\* message_publish_check_acl: a superuser is not asked, the others go to the
\* handlers; that of rmqtt-auth-http uses a cached answer or asks the server
PublishCheck(c) ==
    /\ auClient[c] = "on" /\ auCheck[c] = NoCheck
    /\ auSpent.checks < AuChecks /\ auSpent' = [auSpent EXCEPT !.checks = @ + 1]
    /\ auCheck' = [auCheck EXCEPT ![c] =
          [step |-> IF ~auScene.http THEN "acl"
                    ELSE IF Fresh(auCache[c]) THEN "answered" ELSE "asking",
           res |-> auCache[c].res, cached |-> TRUE, forever |-> auCache[c].until = Forever,
           since |-> auClock]]
    /\ UNCHANGED <<auScene, auBefore, auRules, auOwn, auSpawned, auClient, auPolicy, auCache,
                   auClock, auHeld, auLast>>

\* External: the HTTP server decides and answers
PublishAnswer(c) ==
    /\ auCheck[c].step = "asking"
    /\ auCheck' = [auCheck EXCEPT ![c].step = "answering", ![c].res = HttpAcl(auPolicy)]
    /\ UNCHANGED <<auScene, auBefore, auRules, auOwn, auSpawned, auClient, auPolicy, auCache,
                   auClock, auSpent, auHeld, auLast>>

\* The answer arrives, with or without X-Cache; the time it is kept begins now
PublishArrive(c, tm) ==
    /\ auCheck[c].step = "answering"
    /\ auCheck' = [auCheck EXCEPT ![c].step = "answered", ![c].forever = FALSE]
    /\ auCache' = IF tm = NoCache THEN auCache
                  ELSE [auCache EXCEPT ![c] =
                          [res |-> auCheck[c].res,
                           until |-> IF tm = Forever THEN tm ELSE auClock + tm]]
    /\ UNCHANGED <<auScene, auBefore, auRules, auOwn, auSpawned, auClient, auPolicy, auClock,
                   auSpent, auHeld, auLast>>

\* The request fails, or http_timeout has passed
PublishFails(c) ==
    /\ auCheck[c].step \in {"asking", "answering"}
    /\ auCheck' = [auCheck EXCEPT ![c] =
                     [@ EXCEPT !.step = "answered", !.res = HttpAcl("error"), !.cached = FALSE]]
    /\ UNCHANGED <<auScene, auBefore, auRules, auOwn, auSpawned, auClient, auPolicy, auCache,
                   auClock, auSpent, auHeld, auLast>>

\* SessionState::publish: a refused message is dropped, and the connection with it
\* when the plugin says so
Published(c, by, res) ==
    /\ auLast' = Decision(c, by, res)
    /\ auClient' = IF res = "deny" /\ AuDisconnect THEN [auClient EXCEPT ![c] = "off"]
                   ELSE auClient

\* The handler decides, or passes on
PublishDecide(c) ==
    /\ auCheck[c].step = "answered"
    /\ IF auCheck[c].res = "ignore"
       THEN auCheck' = [auCheck EXCEPT ![c].step = "acl"] /\ UNCHANGED <<auLast, auClient>>
       ELSE /\ auCheck' = [auCheck EXCEPT ![c] = NoCheck]
            /\ Published(c, IF auCheck[c].cached /\ ~auCheck[c].forever THEN "http" ELSE "other",
                         auCheck[c].res)
    /\ UNCHANGED <<auScene, auBefore, auRules, auOwn, auSpawned, auPolicy, auCache, auClock,
                   auSpent, auHeld>>

\* MessagePublishCheckAcl of rmqtt-acl
PublishAcl(c) ==
    /\ auCheck[c].step = "acl"
    /\ auCheck' = [auCheck EXCEPT ![c] = NoCheck]
    /\ Published(c, "acl", Verdict(AclAllows("publish", c)))
    /\ UNCHANGED <<auScene, auBefore, auRules, auOwn, auSpawned, auPolicy, auCache, auClock,
                   auSpent, auHeld>>

\* The client goes; its session and the cache in it with it
AuLeave(c) ==
    /\ auClient[c] \in {"on", "super"} /\ auCheck[c] = NoCheck
    /\ auClient' = [auClient EXCEPT ![c] = "off"]
    /\ UNCHANGED <<auScene, auBefore, auRules, auOwn, auSpawned, auCheck, auPolicy, auCache,
                   auClock, auSpent, auHeld, auLast>>

\* External: the HTTP server changes its mind; time passes
PolicyChange(a) ==
    /\ auSpent.changes < auScene.changes /\ auSpent' = [auSpent EXCEPT !.changes = @ + 1]
    /\ a # auPolicy /\ auPolicy' = a
    /\ auHeld' = [auHeld EXCEPT ![a] = auClock]
    /\ UNCHANGED <<auScene, auBefore, auRules, auOwn, auSpawned, auClient, auCheck, auCache,
                   auClock, auLast>>

AuTick ==
    /\ auClock < auScene.time
    /\ \A c \in AuClients :
         /\ auCheck[c].step # "answered"
         /\ auCheck[c].step \in {"asking", "answering"} => auClock < auCheck[c].since + AuTimeout
    /\ auClock' = auClock + 1
    /\ auHeld' = [auHeld EXCEPT ![auPolicy] = auClock + 1]
    /\ UNCHANGED <<auScene, auBefore, auRules, auOwn, auSpawned, auClient, auCheck, auPolicy,
                   auCache, auSpent, auLast>>

AuNext ==
    \/ \E f \in AuFiles : AclReload(f)
    \/ \E c \in AuClients :
         \/ \E resp \in Responses : Authenticate(c, resp) \/ SubscribeCheck(c, resp)
         \/ BuildPlaceholders(c) \/ AuLeave(c)
         \/ PublishCheck(c) \/ PublishDecide(c) \/ PublishAcl(c)
         \/ PublishAnswer(c) \/ PublishFails(c)
         \/ \E tm \in AuCacheable : PublishArrive(c, tm)
    \/ \E a \in Answers : PolicyChange(a)
    \/ AuTick

AuSpec == AuInit /\ [][AuNext]_auVars
-----------------------------------------------------------------------------
CacheTime == CHOOSE n \in AuCacheable : n \notin {NoCache, Forever}

(***************************************************************************)
(* A publish that rmqtt-auth-http decides is decided as the server would   *)
(* have done no longer ago than the cache time and http_timeout together,  *)
(* unless the server asked to cache for ever: the time an answer is kept   *)
(* begins when it arrives, which is at most http_timeout after it was      *)
(* given, and neither a second session of the client nor an answer under   *)
(* way brings an older one back.                                           *)
(***************************************************************************)
DecisionNotStale ==
    auLast.by = "http" =>
        /\ auHeld[auLast.res] <= auScene.time
        /\ auLast.at <= auHeld[auLast.res] + CacheTime + AuTimeout

(***************************************************************************)
(* Where the first rule opens sensor/%c/ctrl to everybody, rmqtt-acl only  *)
(* refuses a client its own topic as long as the task spawned by           *)
(* ClientConnected has not run, or after the rules were loaded again, or   *)
(* when the topic with the client's id in it is not a valid filter.        *)
(***************************************************************************)
OwnTopicOnceBuilt ==
    auLast.by = "acl" /\ auLast.rule /\ ~auLast.excused => auLast.res = "allow"

(***************************************************************************)
(* Neither of the two caches a decision is taken from, the answers kept by *)
(* rmqtt-auth-http and the topics built by rmqtt-acl, decides for longer   *)
(* than it should.                                                         *)
(***************************************************************************)
DecidedAfresh == DecisionNotStale /\ OwnTopicOnceBuilt
=============================================================================
