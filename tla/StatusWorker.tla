---------------------------- MODULE StatusWorker ----------------------------
(***************************************************************************)
(* The center's consumer of the status stream (status.Worker) and its      *)
(* handler, on the consumer group of ConsumerGroup: batches of new and of  *)
(* reclaimed entries, the write probe that tells an outage of the store    *)
(* from a bad entry, poison detection, and the deletion of idle consumers. *)
(*                                                                         *)
(* What applying an event does to a document is in IngestionLoop; here an  *)
(* entry is applied or not.  A worker is one goroutine of a process, and   *)
(* has a fresh name in every process.                                      *)
(***************************************************************************)
EXTENDS ConsumerGroup

CONSTANTS
    Bad,                \* entries that are no valid status event
    BatchSize,          \* entries of one read or claim
    PoisonThreshold,    \* [go.status_consumer].poison_threshold
    MaxMishaps,         \* bound: deaths, lost replies and suspensions
    MaxFailures,        \* bound: failures of an entry on a healthy store
    MaxOutages          \* bound: outages of the store

ASSUME ConfigAssumption ==
    /\ Entry \subseteq Nat /\ IsFiniteSet(Consumer)
    /\ Bad \subseteq Entry
    /\ BatchSize \in Nat \ {0}
    /\ PoisonThreshold \in Nat \ {0}
    /\ MaxMishaps \in Nat /\ MaxFailures \in Nat /\ MaxOutages \in Nat

VARIABLES
    storeUp,    \* whether the store takes writes
    outages,
    applied,    \* entries whose event was applied to the store
    poisoned,   \* entries that were given up as poison
    failures,   \* how often handling an entry failed on a healthy store
    worker,     \* the local state of every worker
    mishaps

store == <<storeUp, outages, applied, failures>>
vars == <<redis, store, poisoned, worker, mishaps>>

-----------------------------------------------------------------------------
Stage == {"idle", "health", "claim", "count", "handle", "probe", "wait", "ack",
          "cleanup", "delete", "dead"}
Process == [pc : Stage,
            recovering : BOOLEAN,           \* inside recoverOnce
            full : BOOLEAN,                 \* the claim filled its batch
            entry : Entry \cup {None},
            batch : SUBSET Entry,           \* what is left after entry
            retried : BOOLEAN,              \* retriedWhileHealthy
            victims : SUBSET Consumer]      \* of the cleanup

At(pc, recovering) == [pc |-> pc, recovering |-> recovering, full |-> FALSE, entry |-> None,
                       batch |-> {}, retried |-> FALSE, victims |-> {}]

Oldest(entries) == CHOOSE e \in entries : \A f \in entries : e <= f

(* The entries of a reply, in order; then another claim, the cleanup, or    *)
(* the next round of the loop.                                             *)
Work(recovering, full, entries) ==
    IF entries # {}
      THEN [pc |-> IF recovering THEN "count" ELSE "handle", recovering |-> recovering,
            full |-> full, entry |-> Oldest(entries), batch |-> entries \ {Oldest(entries)},
            retried |-> FALSE, victims |-> {}]
      ELSE At(CASE recovering /\ full -> "claim"
                [] recovering /\ ~ full -> "cleanup"
                [] OTHER -> "idle", recovering)

Onward(s) == Work(s.recovering, s.full, s.batch)

Live(c) == worker[c].pc # "dead"
Works(c, e) == Live(c) /\ (worker[c].entry = e \/ e \in worker[c].batch)
LeftPending(e) == IsPending(e) /\ \A c \in Consumer : ~ Works(c, e)

(* Types; a worker has an entry exactly while it counts, handles or        *)
(* acknowledges one, and what is left of its batch comes after it.         *)
TypeOK ==
    /\ GroupTypeOK
    /\ storeUp \in BOOLEAN /\ outages \in 0 .. MaxOutages
    /\ applied \subseteq added \ Bad /\ poisoned \subseteq added
    /\ failures \in [Entry -> 0 .. MaxFailures]
    /\ worker \in [Consumer -> Process]
    /\ \A c \in Consumer :
         /\ (worker[c].entry # None) <=>
              (worker[c].pc \in {"count", "handle", "probe", "wait", "ack"})
         /\ \A e \in worker[c].batch : worker[c].entry < e
    /\ mishaps \in 0 .. MaxMishaps

Init ==
    /\ GroupInit
    /\ storeUp = TRUE /\ outages = 0
    /\ applied = {} /\ poisoned = {}
    /\ failures = [e \in Entry |-> 0]
    /\ worker = [c \in Consumer |-> At("idle", FALSE)]
    /\ mishaps = 0

Mishap == mishaps < MaxMishaps /\ mishaps' = mishaps + 1

-----------------------------------------------------------------------------
(* The stream, the store, the group, and time.                             *)

Outside == UNCHANGED <<store, poisoned, worker, mishaps>>
Add(e) == e = Cardinality(added) + 1 /\ XAdd(e) /\ Outside
TrimEntry(e) == (\A f \in stream : e <= f) /\ Trim(e) /\ Outside
GroupVanishes == LoseGroup /\ Outside

(* A lock held past busy_timeout, a full disk: reads work, writes fail.    *)
StoreDown ==
    /\ storeUp /\ outages < MaxOutages
    /\ storeUp' = FALSE /\ outages' = outages + 1
    /\ UNCHANGED <<redis, applied, failures, poisoned, worker, mishaps>>

StoreBack ==
    /\ ~ storeUp
    /\ storeUp' = TRUE
    /\ UNCHANGED <<redis, outages, applied, failures, poisoned, worker, mishaps>>

(* At the start, and when a read or a claim answers NOGROUP. *)
EnsureGroup(c) ==
    /\ worker[c].pc \in {"idle", "claim"}
    /\ XGroupCreate
    /\ worker' = [worker EXCEPT ![c] = At("idle", FALSE)]
    /\ UNCHANGED <<store, poisoned, mishaps>>

(* Nothing bounds the time a batch takes: an entry that waits for its turn *)
(* in a live worker may pass min_idle.                                     *)
EntryAges(e) == GrowsIdle(e) /\ Outside

(* A worker reads every read_block, so one that is idle past               *)
(* consumer_cleanup_idle is gone, waits for the store, or was suspended.   *)
ConsumerSleeps(c) ==
    /\ FallsAsleep(c)
    /\ IF Live(c) /\ worker[c].pc # "wait" THEN Mishap ELSE UNCHANGED mishaps
    /\ UNCHANGED <<store, poisoned, worker>>

-----------------------------------------------------------------------------
(* readOnce.  XREADGROUP answers the oldest entries that are new.          *)

Batch(entries, from) ==
    /\ entries \subseteq from /\ entries # {}
    /\ Cardinality(entries) <= BatchSize
    /\ \A e \in entries, f \in from \ entries : e < f
    /\ Cardinality(entries) = BatchSize \/ entries = from

ReadNew(c, entries) ==
    /\ worker[c].pc = "idle"
    /\ Batch(entries, fresh)
    /\ XReadGroup(c, entries)
    /\ worker' = [worker EXCEPT ![c] = Work(FALSE, FALSE, entries)]
    /\ UNCHANGED <<store, poisoned, mishaps>>

(* The reply is lost. *)
ReadFails(c, entries) ==
    /\ worker[c].pc = "idle"
    /\ Batch(entries, fresh)
    /\ XReadGroup(c, entries)
    /\ Mishap
    /\ UNCHANGED <<store, poisoned, worker>>

-----------------------------------------------------------------------------
(* recoverOnce: claims are gated by the write probe, the cleanup is not.   *)

BeginRecovery(c) ==
    /\ worker[c].pc = "idle"
    /\ group
    /\ worker' = [worker EXCEPT ![c] = At("health", TRUE)]
    /\ UNCHANGED <<redis, store, poisoned, mishaps>>

StoreHealthy(c) ==
    /\ worker[c].pc = "health"
    /\ worker' = [worker EXCEPT ![c].pc = IF storeUp THEN "claim" ELSE "cleanup"]
    /\ UNCHANGED <<redis, store, poisoned, mishaps>>

(* Variant: a worker does not claim what it left pending itself. *)
Claimable_FromOthers(c) == {e \in stream : Reclaimable(e) /\ pel[e].owner # c}

Claimable(c) == {e \in stream : Reclaimable(e)}

ClaimStale(c, entries) ==
    /\ worker[c].pc = "claim"
    /\ Batch(entries, Claimable(c))
    /\ XAutoClaim(c, entries)
    /\ worker' = [worker EXCEPT ![c] = Work(TRUE, Cardinality(entries) = BatchSize, entries)]
    /\ UNCHANGED <<store, poisoned, mishaps>>

ClaimFails(c, entries) ==
    /\ worker[c].pc = "claim"
    /\ Batch(entries, Claimable(c))
    /\ XAutoClaim(c, entries)
    /\ Mishap
    /\ worker' = [worker EXCEPT ![c] = At("cleanup", TRUE)]
    /\ UNCHANGED <<store, poisoned>>

ClaimDeleted(c, e) ==
    /\ worker[c].pc = "claim"
    /\ XAutoClaimDeleted(c, e)
    /\ UNCHANGED <<store, poisoned, worker, mishaps>>

(* Nothing to claim, or the command failed before it did anything. *)
EndClaims(c) ==
    /\ worker[c].pc = "claim"
    /\ XAutoClaim(c, {})
    /\ worker' = [worker EXCEPT ![c] = At("cleanup", TRUE)]
    /\ UNCHANGED <<store, poisoned, mishaps>>

(* XPENDING: 0 when the entry is not pending any more.  Poison is dropped  *)
(* without being handled; whoever owns the entry, it is handled otherwise. *)
DeliveryCount(c) ==
    LET e == worker[c].entry
        poison == pel[e].deliveries > PoisonThreshold IN
    /\ worker[c].pc = "count"
    /\ worker' = [worker EXCEPT ![c].pc = IF poison THEN "ack" ELSE "handle"]
    /\ poisoned' = IF poison THEN poisoned \cup {e} ELSE poisoned
    /\ UNCHANGED <<redis, store, mishaps>>

DeliveryCountFails(c) ==
    /\ worker[c].pc = "count"
    /\ Mishap
    /\ worker' = [worker EXCEPT ![c] = Onward(@)]
    /\ UNCHANGED <<redis, store, poisoned>>

-----------------------------------------------------------------------------
(* process: Handle, the probe after a failure, the acknowledgement.        *)

Goto(c, pc) == worker' = [worker EXCEPT ![c].pc = pc]

(* Malformed entries are finished without the store. *)
Handle(c) ==
    LET e == worker[c].entry IN
    /\ worker[c].pc = "handle"
    /\ IF storeUp \/ e \in Bad
         THEN /\ applied' = applied \cup ({e} \ Bad)
              /\ Goto(c, "ack")
         ELSE /\ Goto(c, "probe")
              /\ UNCHANGED applied
    /\ UNCHANGED <<redis, storeUp, outages, failures, poisoned, mishaps>>

(* The database call fails although the store takes writes. *)
HandleFails(c) ==
    LET e == worker[c].entry IN
    /\ worker[c].pc = "handle"
    /\ storeUp /\ e \notin Bad
    /\ failures[e] < MaxFailures
    /\ failures' = [failures EXCEPT ![e] = @ + 1]
    /\ Goto(c, "probe")
    /\ UNCHANGED <<redis, storeUp, outages, applied, poisoned, mishaps>>

(* Variants: an entry that failed twice takes the rest of its batch with   *)
(* it, or is acknowledged.                                                 *)
AfterProbe_Abandons(s) ==
    CASE ~ storeUp -> [s EXCEPT !.pc = "wait"]
      [] storeUp /\ ~ s.retried -> [s EXCEPT !.pc = "handle", !.retried = TRUE]
      [] OTHER -> Work(s.recovering, s.full, {})
AfterProbe_Acked(s) ==
    CASE ~ storeUp -> [s EXCEPT !.pc = "wait"]
      [] storeUp /\ ~ s.retried -> [s EXCEPT !.pc = "handle", !.retried = TRUE]
      [] OTHER -> [s EXCEPT !.pc = "ack"]

(* A store that takes no writes is waited for; on a healthy one the entry  *)
(* is tried once more, then left pending.                                  *)
AfterProbe(s) ==
    CASE ~ storeUp -> [s EXCEPT !.pc = "wait"]
      [] storeUp /\ ~ s.retried -> [s EXCEPT !.pc = "handle", !.retried = TRUE]
      [] OTHER -> Onward(s)

Probe(c) ==
    /\ worker[c].pc = "probe"
    /\ worker' = [worker EXCEPT ![c] = AfterProbe(@)]
    /\ UNCHANGED <<redis, store, poisoned, mishaps>>

WaitUntilHealthy(c) ==
    /\ worker[c].pc = "wait"
    /\ storeUp
    /\ Goto(c, "handle")
    /\ UNCHANGED <<redis, store, poisoned, mishaps>>

Ack(c) ==
    /\ worker[c].pc = "ack"
    /\ XAck(worker[c].entry)
    /\ worker' = [worker EXCEPT ![c] = Onward(@)]
    /\ UNCHANGED <<store, poisoned, mishaps>>

AckFails(c) ==
    /\ worker[c].pc = "ack"
    /\ Mishap
    /\ worker' = [worker EXCEPT ![c] = Onward(@)]
    /\ UNCHANGED <<redis, store, poisoned>>

-----------------------------------------------------------------------------
(* CleanupConsumers: XINFO CONSUMERS first, then a DELCONSUMER for each.   *)

XInfo(c) ==
    /\ worker[c].pc = "cleanup"
    /\ worker' = [worker EXCEPT ![c] = [At("delete", TRUE) EXCEPT !.victims = Deletable \ {c}]]
    /\ UNCHANGED <<redis, store, poisoned, mishaps>>

DelConsumer(c, k) ==
    /\ worker[c].pc = "delete"
    /\ k \in worker[c].victims
    /\ XGroupDelConsumer(k)
    /\ worker' = [worker EXCEPT ![c].victims = @ \ {k}]
    /\ UNCHANGED <<store, poisoned, mishaps>>

(* All are deleted, or a command failed. *)
EndCleanup(c) ==
    /\ worker[c].pc \in {"cleanup", "delete"}
    /\ worker' = [worker EXCEPT ![c] = At("idle", FALSE)]
    /\ UNCHANGED <<redis, store, poisoned, mishaps>>

(* The process dies, or ends between two entries of a batch.               *)
Crash(c) ==
    /\ Live(c)
    /\ Mishap
    /\ worker' = [worker EXCEPT ![c] = At("dead", FALSE)]
    /\ UNCHANGED <<redis, store, poisoned>>

-----------------------------------------------------------------------------
EntryStep(c) ==
    StoreHealthy(c) \/ DeliveryCount(c) \/ Handle(c) \/ Probe(c) \/ WaitUntilHealthy(c) \/ Ack(c)
CleanupStep(c) == XInfo(c) \/ (\E k \in Consumer : DelConsumer(c, k)) \/ EndCleanup(c)

WorkerStep(c) ==
    \/ EnsureGroup(c)
    \/ \E entries \in SUBSET fresh : ReadNew(c, entries) \/ ReadFails(c, entries)
    \/ BeginRecovery(c)
    \/ \E entries \in SUBSET stream : ClaimStale(c, entries) \/ ClaimFails(c, entries)
    \/ \E e \in Entry : ClaimDeleted(c, e)
    \/ EndClaims(c)
    \/ EntryStep(c)
    \/ DeliveryCountFails(c) \/ HandleFails(c) \/ AckFails(c)
    \/ CleanupStep(c)
    \/ Crash(c)

Next ==
    \/ \E e \in Entry : Add(e) \/ TrimEntry(e) \/ EntryAges(e)
    \/ GroupVanishes
    \/ StoreDown \/ StoreBack
    \/ \E c \in Consumer : ConsumerSleeps(c) \/ WorkerStep(c)

Spec == Init /\ [][Next]_vars

(* Weak fairness of the steps a live worker just takes; strong fairness    *)
(* where its loop alternates (reading and recovery passes).  The store     *)
(* comes back, and entries nobody works on grow old.                       *)
Fairness ==
    /\ \A c \in Consumer :
         /\ WF_vars(EnsureGroup(c)) /\ WF_vars(EntryStep(c)) /\ WF_vars(CleanupStep(c))
         /\ WF_vars(EndClaims(c))
         /\ SF_vars(\E entries \in SUBSET fresh : ReadNew(c, entries))
         /\ SF_vars(BeginRecovery(c))
         /\ SF_vars(\E entries \in SUBSET stream : ClaimStale(c, entries))
    /\ WF_vars(StoreBack)
    /\ \A e \in Entry : WF_vars(LeftPending(e) /\ EntryAges(e))

FairSpec == Spec /\ Fairness

-----------------------------------------------------------------------------
(* Safety.                                                                 *)

(* No status is lost between the stream and the store: while the group is  *)
(* there, an event is new, pending or applied, whichever worker died or    *)
(* call failed in between, unless it was given up as poison or Redis       *)
(* dropped it (XACK only after Handle, PRD 4.3).  A worker has an entry    *)
(* and the rest of its batch exactly while its pc says so (TypeOK).        *)
NoStatusLost ==
    /\ TypeOK
    /\ \A e \in stream \ Bad :
         group => (e \in fresh \/ IsPending(e) \/ e \in applied \cup poisoned \cup dropped)

(* The poison clock runs for the entry's own faults only: every delivery   *)
(* is to a worker that still has the entry, or was wasted by a mishap, by  *)
(* the entry failing on a healthy store, or by an outage, which counts     *)
(* once for a worker however long it lasts and however many passes it      *)
(* spans (the probe before a claim and the wait in place).  Neighbours of  *)
(* a failing entry are not charged for it.                                 *)
Working(e) == {c \in Consumer : Works(c, e)}
Budget(e, workers) ==
    workers + mishaps + failures[e] + Cardinality(Consumer) * outages
PoisonClock ==
    /\ \A e \in Entry : pel[e].deliveries <= Budget(e, Cardinality(Working(e)))
    /\ \A e \in poisoned : PoisonThreshold < Budget(e, Cardinality(Consumer))

-----------------------------------------------------------------------------
(* Liveness.                                                               *)

(* Every event is applied in the end while one worker stays alive, unless  *)
(* Redis lost it or it was given up as poison.                             *)
EveryStatusApplied ==
    \A e \in Entry \ Bad :
      e \in stream ~> (e \in applied \cup poisoned \cup dropped \/ e \notin stream)
=============================================================================
