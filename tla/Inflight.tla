------------------------------ MODULE Inflight ------------------------------
(***************************************************************************)
(* The in-flight window of a session, rmqtt/src/broker/inflight.rs: an     *)
(* insertion-ordered map from packet id to an unanswered QoS 1/2 message,  *)
(* and the wrapping counter packet ids are drawn from.                     *)
(*                                                                         *)
(* A window is a sequence of entries, front first.  An entry holds the     *)
(* PUBLISH it keeps, its MomentStatus, and whether the retry interval has  *)
(* passed since its update_time ("late"): the code compares wall-clock     *)
(* milliseconds, the model keeps the outcome of that comparison.           *)
(***************************************************************************)
EXTENDS Integers, Sequences

CONSTANTS
    MaxInflight,    \* cap of the window (max_inflight, a NonZeroU16)
    IdSpan          \* number of values of the counter next (2^16 for AtomicU16)

ASSUME InflightAssumption ==
    /\ MaxInflight \in Nat \ {0}
    /\ IdSpan \in Nat \ {0}
    /\ MaxInflight < IdSpan

PacketIds == 1 .. IdSpan - 1

\* publish.packet_id = None
NoId == 0

MomentStatus == {"UnAck", "UnReceived", "UnComplete"}

InflightMessage(status, publish) ==
    [publish |-> publish, status |-> status, late |-> FALSE]

Ids(w) == {w[i].publish.pid : i \in DOMAIN w}

PosOf(w, id) == CHOOSE i \in DOMAIN w : w[i].publish.pid = id

WithoutPos(w, k) ==
    [i \in 1 .. Len(w) - 1 |-> IF i < k THEN w[i] ELSE w[i + 1]]

\* Inflight::remove
Remove(w, id) == IF id \in Ids(w) THEN WithoutPos(w, PosOf(w, id)) ELSE w

\* Inflight::update_status: no look at the status the entry has
UpdateStatus(w, id, s) ==
    [i \in DOMAIN w |-> IF w[i].publish.pid = id
                        THEN [w[i] EXCEPT !.status = s, !.late = FALSE]
                        ELSE w[i]]

(***************************************************************************)
(* Inflight::push_back.  A message without a packet id is not kept.  An id *)
(* that is already a key replaces the entry: the external deque map may    *)
(* keep the old place or move the entry to the back, so both are results.  *)
(***************************************************************************)
PushBack(w, m) ==
    IF m.publish.pid = NoId THEN {w}
    ELSE IF m.publish.pid \in Ids(w)
         THEN {[w EXCEPT ![PosOf(w, m.publish.pid)] = m],
               Append(Remove(w, m.publish.pid), m)}
         ELSE {Append(w, m)}

\* mutant: one entry too many
HasCredit_offByOne(w) == Len(w) <= MaxInflight

(***************************************************************************)
(* Inflight::has_credit, (cap - len) > 0 over usize: a window longer than  *)
(* its cap wraps round to a huge difference, so only equality says no.     *)
(***************************************************************************)
HasCredit(w) == Len(w) # MaxInflight

\* Inflight::front_timeout
FrontTimeout(w) == w # << >> /\ Head(w).late

(***************************************************************************)
(* Inflight::next_id makes u16::MAX = IdSpan - 1 attempts from the value n *)
(* of the counter and skips 0 and the ids in the window.  Tries(w, n) are  *)
(* the attempts that would succeed.                                        *)
(***************************************************************************)
Tries(w, n) ==
    {k \in 0 .. IdSpan - 2 : /\ (n + k) % IdSpan # 0
                             /\ (n + k) % IdSpan \notin Ids(w)}

FirstTry(w, n) == CHOOSE k \in Tries(w, n) : \A j \in Tries(w, n) : k <= j

\* The id next_id returns, NoId for its Err.
NextId(w, n) ==
    IF Tries(w, n) = {} THEN NoId ELSE (n + FirstTry(w, n)) % IdSpan

\* The value next_id leaves in the counter.
NextCounter(w, n) ==
    IF Tries(w, n) = {} THEN (n + (IdSpan - 1)) % IdSpan
                        ELSE (n + FirstTry(w, n) + 1) % IdSpan
=============================================================================
