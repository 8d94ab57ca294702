---------------------------- MODULE ConsumerGroup ----------------------------
(***************************************************************************)
(* A Redis stream and its consumer group, as the two stream consumers use  *)
(* them: XADD, XGROUP CREATE, XREADGROUP, XAUTOCLAIM, XCLAIM, XACK,        *)
(* XINFO CONSUMERS and XGROUP DELCONSUMER.  A command is one step of Redis *)
(* and says what becomes of all the variables of this module.              *)
(***************************************************************************)
EXTENDS Naturals, FiniteSets

CONSTANTS
    Entry,              \* ids of stream entries
    Consumer,           \* consumer names, new on every process start
    None,               \* no owner, no entry
    MaxLosses,          \* bound: how often the group vanishes
    MaxTrims            \* bound: how many entries are trimmed

ASSUME GroupAssumption == None \notin Entry \cup Consumer /\ MaxLosses \in Nat

VARIABLES
    added,      \* entries that were ever added
    stream,     \* those the stream still has
    group,      \* whether the consumer group exists
    fresh,      \* entries the group has not delivered yet
    pel,        \* the pending list: owner, delivery count and idle time
    known,      \* consumers the group knows
    asleep,     \* those whose idle time is past consumer_cleanup_idle
    dropped,    \* entries that left the list with their deleted consumer
    losses      \* how often the group vanished

redis == <<added, stream, group, fresh, pel, known, asleep, dropped, losses>>

(* idle: the entry was delivered, claimed or renewed min_idle ago. *)
Pending == [owner : Consumer \cup {None}, deliveries : Nat, idle : BOOLEAN]
NotPending == [owner |-> None, deliveries |-> 0, idle |-> FALSE]
HeldBy(c, deliveries) == [owner |-> c, deliveries |-> deliveries, idle |-> FALSE]

IsPending(e) == pel[e].owner # None
PendingOf(c) == {e \in Entry : pel[e].owner = c}
Reclaimable(e) == IsPending(e) /\ pel[e].idle

GroupTypeOK ==
    /\ added \subseteq Entry /\ stream \subseteq added
    /\ group \in BOOLEAN
    /\ fresh \subseteq stream
    /\ pel \in [Entry -> Pending]
    /\ known \subseteq Consumer /\ asleep \subseteq known
    /\ dropped \subseteq Entry
    /\ losses \in 0 .. MaxLosses

GroupInit ==
    /\ added = {} /\ stream = {}
    /\ group = FALSE
    /\ fresh = {}
    /\ pel = [e \in Entry |-> NotPending]
    /\ known = {} /\ asleep = {}
    /\ dropped = {}
    /\ losses = 0

(* A command that names a consumer registers it and resets its idle time.  *)
Touch(c) == known' = known \cup {c} /\ asleep' = asleep \ {c}

-----------------------------------------------------------------------------
XAdd(e) ==
    /\ e \notin added
    /\ added' = added \cup {e}
    /\ stream' = stream \cup {e}
    /\ fresh' = IF group THEN fresh \cup {e} ELSE fresh
    /\ UNCHANGED <<group, pel, known, asleep, dropped, losses>>

(* XADD MAXLEN ~ removes old entries, delivered or not. *)
Trim(e) ==
    /\ e \in stream
    /\ Cardinality(added \ stream) < MaxTrims
    /\ stream' = stream \ {e}
    /\ fresh' = fresh \ {e}
    /\ UNCHANGED <<added, group, pel, known, asleep, dropped, losses>>

(* Redis restarts without the group in its snapshot. *)
LoseGroup ==
    /\ group
    /\ losses < MaxLosses
    /\ losses' = losses + 1
    /\ group' = FALSE
    /\ fresh' = {}
    /\ pel' = [e \in Entry |-> NotPending]
    /\ known' = {} /\ asleep' = {}
    /\ UNCHANGED <<added, stream, dropped>>

(* XGROUP CREATE at ID 0. *)
XGroupCreate ==
    /\ ~ group
    /\ group' = TRUE
    /\ fresh' = stream
    /\ UNCHANGED <<added, stream, pel, known, asleep, dropped, losses>>

XReadGroup(c, entries) ==
    /\ group
    /\ entries \subseteq fresh
    /\ fresh' = fresh \ entries
    /\ pel' = [e \in Entry |-> IF e \in entries THEN HeldBy(c, 1) ELSE pel[e]]
    /\ Touch(c)
    /\ UNCHANGED <<added, stream, group, dropped, losses>>

(* XAUTOCLAIM without JUSTID: the delivery counts grow.                    *)
XAutoClaim(c, entries) ==
    /\ group
    /\ \A e \in entries : Reclaimable(e) /\ e \in stream
    /\ pel' = [e \in Entry |-> IF e \in entries THEN HeldBy(c, pel[e].deliveries + 1)
                                                ELSE pel[e]]
    /\ Touch(c)
    /\ UNCHANGED <<added, stream, group, fresh, dropped, losses>>

(* The same command drops pending entries the stream no longer has.        *)
XAutoClaimDeleted(c, e) ==
    /\ group
    /\ Reclaimable(e) /\ e \notin stream
    /\ pel' = [pel EXCEPT ![e] = NotPending]
    /\ Touch(c)
    /\ UNCHANGED <<added, stream, group, fresh, dropped, losses>>

(* XCLAIM of one entry, whoever owns it; it drops one that was trimmed.    *)
XClaim(c, e, claimed) ==
    /\ group
    /\ pel' = [pel EXCEPT ![e] = IF IsPending(e) /\ e \in stream THEN claimed ELSE NotPending]
    /\ Touch(c)
    /\ UNCHANGED <<added, stream, group, fresh, dropped, losses>>

(* XACK does not look at the owner. *)
XAck(e) ==
    /\ pel' = [pel EXCEPT ![e] = NotPending]
    /\ UNCHANGED <<added, stream, group, fresh, known, asleep, dropped, losses>>

(* XINFO CONSUMERS: idle for long enough and nothing pending. *)
Deletable == {k \in asleep : PendingOf(k) = {}}

(* The entries of a deleted consumer leave the pending list with it. *)
XGroupDelConsumer(k) ==
    /\ known' = known \ {k} /\ asleep' = asleep \ {k}
    /\ dropped' = dropped \cup PendingOf(k)
    /\ pel' = [e \in Entry |-> IF e \in PendingOf(k) THEN NotPending ELSE pel[e]]
    /\ UNCHANGED <<added, stream, group, fresh, losses>>

-----------------------------------------------------------------------------
(* The idle time of a pending entry passes min_idle, that of a consumer    *)
(* passes consumer_cleanup_idle.                                           *)

GrowsIdle(e) ==
    /\ IsPending(e) /\ ~ pel[e].idle
    /\ pel' = [pel EXCEPT ![e].idle = TRUE]
    /\ UNCHANGED <<added, stream, group, fresh, known, asleep, dropped, losses>>

FallsAsleep(c) ==
    /\ c \in known \ asleep
    /\ asleep' = asleep \cup {c}
    /\ UNCHANGED <<added, stream, group, fresh, pel, known, dropped, losses>>
=============================================================================
