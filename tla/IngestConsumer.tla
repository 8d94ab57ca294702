--------------------------- MODULE IngestConsumer ---------------------------
(***************************************************************************)
(* The RAG service's consumers of the ingest stream (StreamConsumer) and   *)
(* the Redis consumer group they share: delivery, the pending list with    *)
(* its owners, delivery counts and idle times, recovery of entries that    *)
(* were left pending, poison detection, the status that is held while it   *)
(* cannot be published, and the deletion of idle consumers.                *)
(*                                                                         *)
(* A Redis command is one step.  A restarted process is a new consumer.    *)
(***************************************************************************)
EXTENDS ConsumerGroup

CONSTANTS
    Bad,                \* entries that are no valid ingest event
    PoisonThreshold,    \* [rag.consumer].poison_threshold
    MaxMishaps          \* bound: deaths, lost replies and suspensions

ASSUME ConfigAssumption ==
    /\ PoisonThreshold \in Nat \ {0}
    /\ Bad \subseteq Entry
    /\ MaxMishaps \in Nat

VARIABLES
    reports,    \* status events that were published
    consumer,   \* the local state of every process
    mishaps

vars == <<redis, reports, consumer, mishaps>>

-----------------------------------------------------------------------------
Verdict == {"OUTCOME", "POISON"}        \* of the job, or in place of one
Report == [entry : Entry, verdict : Verdict]

Stage == {"idle", "recover", "check", "run", "late", "publish", "ack", "held", "republish",
          "cleanup", "delete", "dead"}
Process == [pc : Stage,
            recovering : BOOLEAN,           \* inside recover_once
            entry : Entry \cup {None},
            verdict : Verdict,
            held : BOOLEAN,                 \* _held is set, to entry and verdict
            victims : SUBSET Consumer]      \* of the cleanup

Ready(pc, recovering) == [pc |-> pc, recovering |-> recovering, entry |-> None,
                          verdict |-> "OUTCOME", held |-> FALSE, victims |-> {}]
Taken(pc, recovering, e) == [pc |-> pc, recovering |-> recovering, entry |-> e,
                             verdict |-> "OUTCOME", held |-> FALSE, victims |-> {}]

(* Where the loop goes on after an entry. *)
Onward(s) == IF s.recovering THEN Ready("recover", TRUE) ELSE Ready("idle", FALSE)

Reported(e) == \E v \in Verdict : [entry |-> e, verdict |-> v] \in reports
Live(c) == consumer[c].pc # "dead"
Works(c, e) == consumer[c].entry = e /\ Live(c)
LeftPending(e) == IsPending(e) /\ ~ Works(pel[e].owner, e)

(* Types, and the two sides of a process that go together: it has an entry *)
(* exactly while it checks, processes or holds one.                        *)
TypeOK ==
    /\ GroupTypeOK
    /\ reports \subseteq Report
    /\ consumer \in [Consumer -> Process]
    /\ \A c \in Consumer :
         (consumer[c].entry # None) <=>
           (consumer[c].held
             \/ consumer[c].pc \in {"check", "run", "late", "publish", "ack", "held", "republish"})
    /\ mishaps \in 0 .. MaxMishaps

Init ==
    /\ GroupInit
    /\ reports = {}
    /\ consumer = [c \in Consumer |-> Ready("idle", FALSE)]
    /\ mishaps = 0

Mishap == mishaps < MaxMishaps /\ mishaps' = mishaps + 1

-----------------------------------------------------------------------------
(* The stream, the group, and time.                                        *)

Outside == UNCHANGED <<reports, consumer, mishaps>>
Add(e) == XAdd(e) /\ Outside
TrimEntry(e) == Trim(e) /\ Outside
GroupVanishes == LoseGroup /\ Outside

(* At the start, and when a command answers NOGROUP. *)
EnsureGroup(c) ==
    /\ consumer[c].pc \in {"idle", "recover"}
    /\ XGroupCreate
    /\ consumer' = [consumer EXCEPT ![c] = Ready("idle", FALSE)]
    /\ UNCHANGED <<reports, mishaps>>

(* The idle time of a pending entry passes min_idle.  The configuration    *)
(* keeps min_idle above job_timeout + watchdog_grace, and the watchdog     *)
(* ends a process whose job takes longer, so this never happens under a    *)
(* job that began in time.  It is a mishap (the process was suspended)     *)
(* when a live process still has the entry.                                *)
EntryAges(e) ==
    /\ \A c \in Consumer : ~ (consumer[c].pc = "run" /\ consumer[c].entry = e)
    /\ GrowsIdle(e)
    /\ IF Works(pel[e].owner, e) THEN Mishap ELSE UNCHANGED mishaps
    /\ UNCHANGED <<reports, consumer>>

(* A consumer is idle past consumer_cleanup_idle, which exceeds            *)
(* job_timeout: its process is gone, or was suspended.                     *)
ConsumerSleeps(c) ==
    /\ consumer[c].pc \notin {"run", "late"}
    /\ FallsAsleep(c)
    /\ IF Live(c) THEN Mishap ELSE UNCHANGED mishaps
    /\ UNCHANGED <<reports, consumer>>

-----------------------------------------------------------------------------
(* New entries: XREADGROUP with COUNT 1.                                   *)

(* An entry that is no event is acknowledged as it is. *)
ReadOnce(c, e) ==
    /\ consumer[c].pc = "idle"
    /\ XReadGroup(c, {e})
    /\ consumer' = [consumer EXCEPT ![c] = Taken(IF e \in Bad THEN "ack" ELSE "run", FALSE, e)]
    /\ UNCHANGED <<reports, mishaps>>

(* The reply is lost: the entry is pending under a process that never saw it. *)
ReadFails(c, e) ==
    /\ consumer[c].pc = "idle"
    /\ XReadGroup(c, {e})
    /\ Mishap
    /\ UNCHANGED <<reports, consumer>>

-----------------------------------------------------------------------------
(* recover_once: entries that were pending for min_idle, one at a time.    *)

BeginRecovery(c) ==
    /\ consumer[c].pc = "idle"
    /\ group
    /\ consumer' = [consumer EXCEPT ![c] = Ready("recover", TRUE)]
    /\ UNCHANGED <<redis, reports, mishaps>>

ClaimOne(c, e) ==
    /\ consumer[c].pc = "recover"
    /\ XAutoClaim(c, {e})
    /\ consumer' = [consumer EXCEPT ![c] = Taken(IF e \in Bad THEN "ack" ELSE "check", TRUE, e)]
    /\ UNCHANGED <<reports, mishaps>>

ClaimFails(c, e) ==
    /\ consumer[c].pc = "recover"
    /\ XAutoClaim(c, {e})
    /\ Mishap
    /\ consumer' = [consumer EXCEPT ![c] = Ready("cleanup", TRUE)]
    /\ UNCHANGED reports

(* Pending entries the stream no longer has are dropped by the command.    *)
ClaimDeleted(c, e) ==
    /\ consumer[c].pc = "recover"
    /\ XAutoClaimDeleted(c, e)
    /\ UNCHANGED <<reports, consumer, mishaps>>

(* Nothing to claim, or max_recovery_jobs were run, or the command failed. *)
EndClaims(c) ==
    /\ consumer[c].pc = "recover"
    /\ XAutoClaim(c, {})
    /\ consumer' = [consumer EXCEPT ![c] = Ready("cleanup", TRUE)]
    /\ UNCHANGED <<reports, mishaps>>

(* Variant: the owner of the claimed entry is not compared. *)
StillOurs_Pending(c) == IsPending(consumer[c].entry)

StillOurs(c) == pel[consumer[c].entry].owner = c

(* XPENDING: a claimed entry may have been acknowledged by its first owner *)
(* or claimed by another consumer since.  A process that was suspended     *)
(* until min_idle after its claim begins the job late.                     *)
CheckPending(c) ==
    LET s == consumer[c]
        e == s.entry IN
    /\ s.pc = "check"
    /\ consumer' = [consumer EXCEPT ![c] =
         CASE ~ StillOurs(c) -> Onward(s)
           [] StillOurs(c) /\ pel[e].deliveries > PoisonThreshold ->
                [pc |-> "publish", recovering |-> TRUE, entry |-> e, verdict |-> "POISON",
                 held |-> FALSE, victims |-> {}]
           [] OTHER -> Taken(IF pel[e].idle THEN "late" ELSE "run", TRUE, e)]
    /\ UNCHANGED <<redis, reports, mishaps>>

(* Neither acknowledged nor processed. *)
CheckFails(c) ==
    /\ consumer[c].pc = "check"
    /\ Mishap
    /\ consumer' = [consumer EXCEPT ![c] = Onward(@)]
    /\ UNCHANGED <<redis, reports>>

-----------------------------------------------------------------------------
(* One entry: the job, its status, the acknowledgement.                    *)

RunJob(c) ==
    /\ consumer[c].pc \in {"run", "late"}
    /\ consumer' = [consumer EXCEPT ![c].pc = "publish"]
    /\ UNCHANGED <<redis, reports, mishaps>>

Status(c) == [entry |-> consumer[c].entry, verdict |-> consumer[c].verdict]

Acking(s) == [Taken("ack", s.recovering, s.entry) EXCEPT !.verdict = s.verdict]
Holding(s, pc) == [pc |-> pc, recovering |-> s.recovering, entry |-> s.entry,
                   verdict |-> s.verdict, held |-> TRUE, victims |-> {}]

(* Also the retry of a held status: _retry_held publishes after _renew.    *)
Publish(c) ==
    /\ consumer[c].pc \in {"publish", "republish"}
    /\ reports' = reports \cup {Status(c)}
    /\ consumer' = [consumer EXCEPT ![c] = Acking(@)]
    /\ UNCHANGED <<redis, mishaps>>

(* Variant: what cannot be published is acknowledged all the same. *)
AfterFailure_Acked(s) == Acking(s)

(* The status is held; a recovery pass still goes through its cleanup.     *)
AfterFailure(s) == Holding(s, IF s.pc = "publish" /\ s.recovering THEN "cleanup" ELSE "held")

(* The last try errors; any of the tries may have been added.              *)
PublishFails(c) ==
    /\ consumer[c].pc \in {"publish", "republish"}
    /\ reports' \in {reports, reports \cup {Status(c)}}
    /\ consumer' = [consumer EXCEPT ![c] = AfterFailure(@)]
    /\ UNCHANGED <<redis, mishaps>>

Ack(c) ==
    /\ consumer[c].pc = "ack"
    /\ XAck(consumer[c].entry)
    /\ consumer' = [consumer EXCEPT ![c] = Onward(@)]
    /\ UNCHANGED <<reports, mishaps>>

AckFails(c) ==
    /\ consumer[c].pc = "ack"
    /\ Mishap
    /\ consumer' = [consumer EXCEPT ![c] = Onward(@)]
    /\ UNCHANGED <<redis, reports>>

(* Variant: the renewal counts as a delivery (no JUSTID). *)
Renewed_Counted(c, e) == HeldBy(c, pel[e].deliveries + 1)

(* XCLAIM with min-idle 0 and JUSTID: whoever owns the entry. *)
Renewed(c, e) == HeldBy(c, pel[e].deliveries)

Renew(c) ==
    LET e == consumer[c].entry IN
    /\ consumer[c].pc = "held"
    /\ XClaim(c, e, Renewed(c, e))
    /\ consumer' = [consumer EXCEPT ![c].pc = "republish"]
    /\ UNCHANGED <<reports, mishaps>>

(* It is best effort. *)
RenewFails(c) ==
    /\ consumer[c].pc = "held"
    /\ consumer' = [consumer EXCEPT ![c].pc = "republish"]
    /\ UNCHANGED <<redis, reports, mishaps>>

-----------------------------------------------------------------------------
(* _cleanup_consumers: XINFO CONSUMERS first, then a DELCONSUMER for each. *)

XInfo(c) ==
    /\ consumer[c].pc = "cleanup"
    /\ consumer' = [consumer EXCEPT
         ![c].pc = "delete",
         ![c].victims = Deletable \ {c}]
    /\ UNCHANGED <<redis, reports, mishaps>>

DelConsumer(c, k) ==
    /\ consumer[c].pc = "delete"
    /\ k \in consumer[c].victims
    /\ XGroupDelConsumer(k)
    /\ consumer' = [consumer EXCEPT ![c].victims = @ \ {k}]
    /\ UNCHANGED <<reports, mishaps>>

(* All are deleted, or a command failed. *)
EndCleanup(c) ==
    LET s == consumer[c] IN
    /\ s.pc \in {"cleanup", "delete"}
    /\ consumer' = [consumer EXCEPT ![c] =
         IF s.held THEN [Holding(s, "held") EXCEPT !.recovering = FALSE]
                   ELSE Ready("idle", FALSE)]
    /\ UNCHANGED <<redis, reports, mishaps>>

(* The process dies, or the watchdog ends it with its job.                 *)
Crash(c) ==
    /\ Live(c)
    /\ Mishap
    /\ consumer' = [consumer EXCEPT ![c] = Ready("dead", FALSE)]
    /\ UNCHANGED <<redis, reports>>

-----------------------------------------------------------------------------
EntryStep(c) == RunJob(c) \/ Ack(c) \/ Renew(c) \/ RenewFails(c) \/ CheckPending(c)
CleanupStep(c) == XInfo(c) \/ (\E k \in Consumer : DelConsumer(c, k)) \/ EndCleanup(c)

ConsumerStep(c) ==
    \/ EnsureGroup(c)
    \/ \E e \in Entry : ReadOnce(c, e) \/ ReadFails(c, e)
    \/ BeginRecovery(c)
    \/ \E e \in Entry : ClaimOne(c, e) \/ ClaimFails(c, e) \/ ClaimDeleted(c, e)
    \/ EndClaims(c)
    \/ CheckFails(c)
    \/ EntryStep(c)
    \/ Publish(c) \/ PublishFails(c)
    \/ AckFails(c)
    \/ CleanupStep(c)
    \/ Crash(c)

Next ==
    \/ \E e \in Entry : Add(e) \/ TrimEntry(e) \/ EntryAges(e)
    \/ GroupVanishes
    \/ \E c \in Consumer : ConsumerSleeps(c) \/ ConsumerStep(c)

Spec == Init /\ [][Next]_vars

(* Weak fairness of the steps a live process just takes; strong fairness   *)
(* where the loop alternates (reading and recovery passes) and where a     *)
(* call may fail again and again but not for ever (publishing).            *)
Fairness ==
    /\ \A c \in Consumer :
         /\ WF_vars(EnsureGroup(c)) /\ WF_vars(EntryStep(c)) /\ WF_vars(CleanupStep(c))
         /\ WF_vars(EndClaims(c))
         /\ SF_vars(\E e \in Entry : ReadOnce(c, e))
         /\ SF_vars(BeginRecovery(c))
         /\ SF_vars(\E e \in Entry : ClaimOne(c, e))
         /\ SF_vars(Publish(c))
    /\ \A e \in Entry : WF_vars(LeftPending(e) /\ EntryAges(e))

FairSpec == Spec /\ Fairness

-----------------------------------------------------------------------------
(* Safety.                                                                 *)

(* No event is lost between the stream and its status: an entry is waiting *)
(* in the stream or pending until a status was published for it, whatever  *)
(* process died or command failed in between (L17: publish, then XACK).    *)
(* The two losses Redis itself causes are trimming and the deletion of a   *)
(* consumer that had the entry pending.  A process has an entry in hand    *)
(* exactly while its pc says so (TypeOK).                                  *)
NoEntryLost ==
    /\ TypeOK
    /\ \A e \in stream \ Bad :
         group => (e \in fresh \/ IsPending(e) \/ Reported(e) \/ e \in dropped)

(* Poison is earned: every delivery after the first one is paid for by a   *)
(* mishap, and an entry is reported as poison only after as many as the    *)
(* threshold says.  In particular an outage in which only XADD is refused, *)
(* of any length, never makes a blameless entry poison (rules 14 and 18 of *)
(* the module: hold the status, claim nothing, renew without counting).    *)
PoisonIsEarned ==
    /\ \A e \in Entry : pel[e].deliveries <= 1 + mishaps
    /\ (\E e \in Entry : [entry |-> e, verdict |-> "POISON"] \in reports) =>
         mishaps >= PoisonThreshold

(* L15: a live job is never reclaimed, so two processes never run the same *)
(* entry at the same time, unless one of them was suspended between its    *)
(* claim and its job for min_idle, or the group was lost and replayed.  It *)
(* rests on min_idle and on the owner check after a claim (_pending_info), *)
(* because another process may renew an entry it holds by force.           *)
JobsDoNotOverlap ==
    losses = 0 =>
      \A c, d \in Consumer :
        (c # d /\ consumer[c].pc = "run" /\ consumer[d].pc = "run") =>
          consumer[c].entry # consumer[d].entry

-----------------------------------------------------------------------------
(* Liveness.                                                               *)

(* Every event is answered in the end while one process stays alive: it    *)
(* gets a status unless Redis trimmed it or dropped it with its consumer.  *)
EveryEntryReported ==
    \A e \in Entry \ Bad :
      e \in stream ~> (Reported(e) \/ e \notin stream \/ e \in dropped)
=============================================================================
