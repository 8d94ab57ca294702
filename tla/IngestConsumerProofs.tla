------------------------ MODULE IngestConsumerProofs ------------------------
(***************************************************************************)
(* Proofs about IngestConsumer, for every set of entries and consumers,    *)
(* every poison threshold and every bound: no entry is lost, poison is     *)
(* earned, and jobs do not overlap.                                        *)
(***************************************************************************)
EXTENDS IngestConsumer, ConsumerGroupProofs

USE GroupAssumption, ConfigAssumption

(* The local state of a process: it has an entry exactly where it works on *)
(* one or holds its status, and what it holds leaves its hand only by      *)
(* publishing.                                                             *)
HasEntry == {"check", "run", "late", "publish", "ack", "held", "republish"}
Fit(s) ==
    /\ s \in Process
    /\ (s.entry # None) <=> (s.held \/ s.pc \in HasEntry)
    /\ s.held => s.pc \in {"cleanup", "delete", "held", "republish"}

Types ==
    /\ GroupTypeOK /\ InOnePlace
    /\ reports \subseteq Report
    /\ mishaps \in 0 .. MaxMishaps
    /\ consumer \in [Consumer -> Process]
    /\ \A c \in Consumer : Fit(consumer[c])

(* Who acknowledges an event has published; who says poison has seen the   *)
(* mishaps.                                                                *)
Told(c) ==
    /\ consumer[c].pc = "ack" /\ consumer[c].entry \notin Bad => Reported(consumer[c].entry)
    /\ consumer[c].entry # None /\ consumer[c].verdict = "POISON" =>
         mishaps >= PoisonThreshold

PoisonPaid ==
    (\E e \in Entry : [entry |-> e, verdict |-> "POISON"] \in reports) =>
      mishaps >= PoisonThreshold

Answered ==
    \A e \in stream \ Bad : group => HasIt(e) \/ Reported(e)

(* A delivery whose owner does not have the entry, or no longer in time,   *)
(* was paid for by a mishap.                                               *)
Paid(e) ==
    /\ pel[e].deliveries <= 1 + mishaps
    /\ IsPending(e) /\ (pel[e].idle \/ consumer[pel[e].owner].entry # e) =>
         pel[e].deliveries <= mishaps

(* While a process runs an entry, nobody else runs it, or is about to.     *)
Alone(c) ==
    consumer[c].pc \in {"check", "run"} =>
      /\ consumer[c].entry \in added
      /\ losses = 0 =>
           /\ group /\ consumer[c].entry \notin fresh
           /\ consumer[c].pc = "run" =>
                /\ ~ pel[consumer[c].entry].idle
                /\ \A d \in Consumer \ {c} :
                     consumer[d].entry = consumer[c].entry =>
                       /\ consumer[d].pc # "run"
                       /\ consumer[d].pc = "check" => pel[consumer[c].entry].owner # d

IInv ==
    /\ Types
    /\ \A c \in Consumer : Told(c)
    /\ PoisonPaid
    /\ Answered
    /\ \A e \in Entry : Paid(e)
    /\ \A c \in Consumer : Alone(c)

-----------------------------------------------------------------------------
(* What a step does, told apart by what it changes: one process, the       *)
(* pending list, and the rest.                                             *)

Became(c, s) ==
    /\ s.pc = "ack" /\ s.entry \notin Bad =>
         s.entry = consumer[c].entry /\ Status(c) \in reports'
    /\ s.entry # None /\ s.verdict = "POISON" =>
         /\ consumer[c].entry # None
         /\ consumer[c].verdict = "POISON" \/ pel[consumer[c].entry].deliveries > PoisonThreshold
    /\ s.pc = "check" => s.entry \in stream /\ Reclaimable(s.entry) /\ fresh' = fresh
    /\ s.pc = "run" =>
         \/ s.entry \in fresh \ fresh' /\ group /\ pel'[s.entry] = HeldBy(c, 1)
         \/ /\ consumer[c].pc = "check" /\ s.entry = consumer[c].entry
            /\ pel[s.entry].owner = c /\ ~ pel[s.entry].idle
            /\ UNCHANGED redis
    /\ consumer[c].entry # None /\ s.entry # consumer[c].entry =>
         pel'[consumer[c].entry].owner # c \/ mishaps' = mishaps + 1

OneProcess(c) ==
    \E s \in Process : Fit(s) /\ Became(c, s) /\ consumer' = [consumer EXCEPT ![c] = s]

Gets(e, deliveries) ==
    \E c \in Consumer :
      /\ pel'[e] = HeldBy(c, deliveries)
      /\ consumer'[c].entry = e \/ mishaps' = mishaps + 1

ChangesHands(e) ==
    \/ pel'[e] \in {NotPending, pel[e]}
    \/ e \in fresh /\ Gets(e, 1)
    \/ Reclaimable(e) /\ Gets(e, pel[e].deliveries + 1)
    \/ \E c \in Consumer :
         /\ pel'[e] = HeldBy(c, pel[e].deliveries)
         /\ consumer[c].pc = "held" /\ consumer[c].entry = e /\ consumer'[c].entry = e
    \/ /\ IsPending(e) /\ pel' = [pel EXCEPT ![e].idle = TRUE]
       /\ \A c \in Consumer : ~ (consumer[c].pc = "run" /\ consumer[c].entry = e)
       /\ ~ Works(pel[e].owner, e) \/ mishaps' = mishaps + 1
       /\ UNCHANGED consumer

Rest ==
    /\ reports \subseteq reports'
    /\ \A r \in reports' \ reports :
         \E c \in Consumer : r = Status(c) /\ consumer[c].entry \in Entry
    /\ mishaps' \in {mishaps, mishaps + 1} \cap (0 .. MaxMishaps)
    /\ losses' \in {losses, losses + 1}
    /\ group /\ ~ group' => losses' = losses + 1
    /\ added \subseteq added'
    /\ \A e \in fresh' : e \in fresh \/ e \notin added \/ ~ group

LEMMA ProcessStep ==
    ASSUME Types, NEW c \in Consumer, ConsumerStep(c)
    PROVE  OneProcess(c) \/ UNCHANGED consumer
<1> USE DEF OneProcess, Became, Types, Fit, HasEntry, Process, GroupTypeOK, Pending, redis
<1>1. CASE EnsureGroup(c)
  BY <1>1 DEF EnsureGroup, XGroupCreate, Ready, Stage, Verdict, IsPending, Reclaimable,
     Status, NotPending
<1>2. ASSUME NEW e \in Entry, ReadOnce(c, e) PROVE OneProcess(c)
  BY <1>2 DEF ReadOnce, XReadGroup, Touch, Taken, Stage, Verdict, IsPending,
     Reclaimable, Status, NotPending
<1>3. CASE BeginRecovery(c)
  BY <1>3 DEF BeginRecovery, Ready, Stage, Verdict, IsPending, Reclaimable, Status,
     NotPending
<1>4. ASSUME NEW e \in Entry, ClaimOne(c, e) PROVE OneProcess(c)
  BY <1>4 DEF ClaimOne, XAutoClaim, Touch, Taken, Stage, Verdict, IsPending,
     Reclaimable, Status, NotPending
<1>5. ASSUME NEW e \in Entry, ClaimFails(c, e) PROVE OneProcess(c)
  BY <1>5 DEF ClaimFails, XAutoClaim, Touch, Mishap, Ready, Stage, Verdict, IsPending,
     Reclaimable, Status, NotPending
<1>6. CASE EndClaims(c)
  BY <1>6 DEF EndClaims, XAutoClaim, Touch, Ready, Stage, Verdict, IsPending,
     Reclaimable, Status, NotPending
<1>7. CASE CheckPending(c)
  <2>1. CASE ~ StillOurs(c)
    BY <1>7, <2>1 DEF CheckPending, Onward, Ready, Stage, Verdict, StillOurs
  <2>2. CASE StillOurs(c) /\ pel[consumer[c].entry].deliveries > PoisonThreshold
    BY <1>7, <2>2 DEF CheckPending, Stage, Verdict, StillOurs
  <2>3. CASE StillOurs(c) /\ ~ (pel[consumer[c].entry].deliveries > PoisonThreshold)
    BY <1>7, <2>3 DEF CheckPending, Taken, Stage, Verdict, StillOurs
  <2> QED
    BY <2>1, <2>2, <2>3
<1>8. CASE CheckFails(c)
  BY <1>8 DEF CheckFails, Onward, Ready, Mishap, Stage, Verdict, IsPending, Reclaimable,
     Status, NotPending
<1>9. CASE RunJob(c)
  <2> DEFINE s == [consumer[c] EXCEPT !.pc = "publish"]
  <2>1. consumer' = [consumer EXCEPT ![c] = s]
    BY <1>9 DEF RunJob
  <2>2. Fit(s)
    BY <1>9 DEF RunJob, Stage
  <2>3. Became(c, s)
    BY <1>9 DEF RunJob, Stage, IsPending, Status
  <2> QED
    BY <2>1, <2>2, <2>3
<1>10. CASE Publish(c)
  BY <1>10 DEF Publish, Acking, Taken, Status, Stage, Verdict, IsPending, Reclaimable,
     NotPending
<1>11. CASE PublishFails(c)
  BY <1>11 DEF PublishFails, AfterFailure, Holding, Status, Stage, Verdict, IsPending,
     Reclaimable, NotPending
<1>12. CASE Ack(c)
  BY <1>12 DEF Ack, XAck, Onward, Ready, Stage, Verdict, IsPending, Reclaimable, Status,
     NotPending
<1>13. CASE AckFails(c)
  BY <1>13 DEF AckFails, Onward, Ready, Mishap, Stage, Verdict, IsPending, Reclaimable,
     Status, NotPending
<1>14. CASE Renew(c)
  <2> DEFINE s == [consumer[c] EXCEPT !.pc = "republish"]
  <2>1. consumer' = [consumer EXCEPT ![c] = s]
    BY <1>14 DEF Renew
  <2>2. Fit(s)
    BY <1>14 DEF Renew, XClaim, Renewed, Touch, Stage
  <2>3. Became(c, s)
    BY <1>14 DEF Renew, XClaim, Renewed, Touch, Stage, IsPending, Status
  <2> QED
    BY <2>1, <2>2, <2>3
<1>15. CASE RenewFails(c)
  <2> DEFINE s == [consumer[c] EXCEPT !.pc = "republish"]
  <2>1. consumer' = [consumer EXCEPT ![c] = s]
    BY <1>15 DEF RenewFails
  <2>2. Fit(s)
    BY <1>15 DEF RenewFails, Stage
  <2>3. Became(c, s)
    BY <1>15 DEF RenewFails, Stage, IsPending, Status
  <2> QED
    BY <2>1, <2>2, <2>3
<1>16. CASE XInfo(c)
  <2> DEFINE s == [consumer[c] EXCEPT !.pc = "delete", !.victims = Deletable \ {c}]
  <2>1. consumer' = [consumer EXCEPT ![c] = s]
    BY <1>16 DEF XInfo
  <2>0. Deletable \ {c} \in SUBSET Consumer
    BY DEF Deletable
  <2>2. Fit(s)
    <3>1. consumer[c] \in Process /\ consumer[c].pc = "cleanup" /\ Fit(consumer[c])
      BY <1>16 DEF XInfo
    <3>2. /\ s.pc = "delete" /\ s.victims = Deletable \ {c} /\ s.held = consumer[c].held
          /\ s.entry = consumer[c].entry
      BY <3>1
    <3>3. s \in Process
      BY <2>0, <3>1 DEF Stage
    <3> QED
      BY <3>1, <3>2, <3>3
  <2>3. Became(c, s)
    BY <1>16 DEF XInfo, Stage, IsPending, Status
  <2> QED
    BY <2>1, <2>2, <2>3
<1>17. ASSUME NEW k \in Consumer, DelConsumer(c, k) PROVE OneProcess(c)
  <2> DEFINE s == [consumer[c] EXCEPT !.victims = @ \ {k}]
  <2>1. consumer' = [consumer EXCEPT ![c] = s]
    BY <1>17 DEF DelConsumer
  <2>2. Fit(s)
    BY <1>17 DEF DelConsumer, XGroupDelConsumer, PendingOf, Stage
  <2>3. Became(c, s)
    BY <1>17 DEF DelConsumer, XGroupDelConsumer, PendingOf, Stage, IsPending, Status
  <2> QED
    BY <2>1, <2>2, <2>3
<1>18. CASE EndCleanup(c)
  BY <1>18 DEF EndCleanup, Holding, Ready, Stage, Verdict, IsPending, Reclaimable,
     Status, NotPending
<1>19. CASE Crash(c)
  BY <1>19 DEF Crash, Ready, Mishap, Stage, Verdict, IsPending, Reclaimable, Status,
     NotPending
<1>20. ASSUME NEW e \in Entry, ReadFails(c, e) \/ ClaimDeleted(c, e) PROVE UNCHANGED consumer
  BY <1>20 DEF ReadFails, ClaimDeleted
<1> QED
  BY <1>1, <1>2, <1>3, <1>4, <1>5, <1>6, <1>7, <1>8, <1>9, <1>10, <1>11, <1>12, <1>13,
     <1>14, <1>15, <1>16, <1>17, <1>18, <1>19, <1>20
  DEF ConsumerStep, EntryStep, CleanupStep

(* Steps of a process that send Redis nothing, or nothing that arrives.     *)
Quiet(c) ==
    \/ BeginRecovery(c) \/ CheckPending(c) \/ CheckFails(c) \/ RunJob(c)
    \/ Publish(c) \/ PublishFails(c) \/ AckFails(c) \/ RenewFails(c)
    \/ XInfo(c) \/ EndCleanup(c) \/ Crash(c)

LEMMA QuietStep ==
    ASSUME NEW c \in Consumer, Quiet(c)
    PROVE  UNCHANGED redis
  BY DEF Quiet, BeginRecovery, CheckPending, CheckFails, RunJob, Publish, PublishFails,
     AckFails, RenewFails, XInfo, EndCleanup, Crash

LEMMA HandsStep ==
    ASSUME Types, [Next]_vars, NEW x \in Entry
    PROVE  ChangesHands(x)
<1> USE DEF ChangesHands, Gets, Types, GroupTypeOK, Pending
<1>1. ASSUME NEW e \in Entry, Add(e) PROVE ChangesHands(x)
  BY <1>1 DEF Add, Outside, XAdd, Fit, HasEntry, Process, IsPending, Reclaimable, Works,
     Live
<1>2. ASSUME NEW e \in Entry, TrimEntry(e) PROVE ChangesHands(x)
  BY <1>2 DEF TrimEntry, Outside, Trim, Fit, HasEntry, Process, IsPending, Reclaimable,
     Works, Live
<1>3. ASSUME NEW e \in Entry, EntryAges(e) PROVE ChangesHands(x)
  BY <1>3 DEF EntryAges, Mishap, GrowsIdle, Fit, HasEntry, Process, IsPending,
     Reclaimable, Works, Live
<1>4. CASE GroupVanishes
  BY <1>4 DEF GroupVanishes, Outside, LoseGroup, Fit, HasEntry, Process, IsPending,
     Reclaimable, Works, Live
<1>5. ASSUME NEW c \in Consumer, ConsumerSleeps(c) PROVE ChangesHands(x)
  BY <1>5 DEF ConsumerSleeps, Mishap, FallsAsleep, Fit, HasEntry, Process, IsPending,
     Reclaimable, Works, Live
<1>6. ASSUME NEW c \in Consumer, EnsureGroup(c) PROVE ChangesHands(x)
  BY <1>6 DEF EnsureGroup, XGroupCreate, Ready, Fit, HasEntry, Process, IsPending,
     Reclaimable, Works, Live
<1>7. ASSUME NEW c \in Consumer, NEW e \in Entry, ReadOnce(c, e)
      PROVE  ChangesHands(x)
  BY <1>7 DEF ReadOnce, XReadGroup, Touch, Taken, Fit, HasEntry, Process, IsPending,
     Reclaimable, Works, Live
<1>8. ASSUME NEW c \in Consumer, NEW e \in Entry, ReadFails(c, e)
      PROVE  ChangesHands(x)
  BY <1>8 DEF ReadFails, XReadGroup, Touch, Mishap, Fit, HasEntry, Process, IsPending,
     Reclaimable, Works, Live
<1>9. ASSUME NEW c \in Consumer, NEW e \in Entry, ClaimOne(c, e)
      PROVE  ChangesHands(x)
  BY <1>9 DEF ClaimOne, XAutoClaim, Touch, Taken, Fit, HasEntry, Process, IsPending,
     Reclaimable, Works, Live
<1>10. ASSUME NEW c \in Consumer, NEW e \in Entry, ClaimFails(c, e)
       PROVE  ChangesHands(x)
  BY <1>10 DEF ClaimFails, XAutoClaim, Touch, Mishap, Ready, Fit, HasEntry, Process,
     IsPending, Reclaimable, Works, Live
<1>11. ASSUME NEW c \in Consumer, NEW e \in Entry, ClaimDeleted(c, e)
       PROVE  ChangesHands(x)
  BY <1>11 DEF ClaimDeleted, XAutoClaimDeleted, Touch, Fit, HasEntry, Process,
     IsPending, Reclaimable, Works, Live
<1>12. ASSUME NEW c \in Consumer, EndClaims(c) PROVE ChangesHands(x)
  BY <1>12 DEF EndClaims, XAutoClaim, Touch, Ready, Fit, HasEntry, Process, IsPending,
     Reclaimable, Works, Live
<1>13. ASSUME NEW c \in Consumer, Ack(c) PROVE ChangesHands(x)
  BY <1>13 DEF Ack, XAck, Onward, Ready, Fit, HasEntry, Process, IsPending, Reclaimable,
     Works, Live
<1>14. ASSUME NEW c \in Consumer, Renew(c) PROVE ChangesHands(x)
  BY <1>14 DEF Renew, XClaim, Renewed, Touch, Fit, HasEntry, Process, IsPending,
     Reclaimable, Works, Live
<1>15. ASSUME NEW c \in Consumer, NEW k \in Consumer, DelConsumer(c, k)
       PROVE  ChangesHands(x)
  BY <1>15 DEF DelConsumer, XGroupDelConsumer, PendingOf, Fit, HasEntry, Process,
     IsPending, Reclaimable, Works, Live
<1>16. CASE (\E c \in Consumer : Quiet(c)) \/ UNCHANGED vars
  BY <1>16, QuietStep DEF vars, redis
<1> QED
  BY <1>1, <1>2, <1>3, <1>4, <1>5, <1>6, <1>7, <1>8, <1>9, <1>10, <1>11, <1>12, <1>13,
     <1>14, <1>15, <1>16
  DEF Next, ConsumerStep, EntryStep, CleanupStep, Quiet

LEMMA RestStep ==
    ASSUME Types, [Next]_vars
    PROVE  Rest
<1> USE DEF Rest, Types, GroupTypeOK
<1>1. ASSUME NEW e \in Entry, Add(e) PROVE Rest
  BY <1>1 DEF Add, Outside, XAdd, redis
<1>2. ASSUME NEW e \in Entry, TrimEntry(e) PROVE Rest
  BY <1>2 DEF TrimEntry, Outside, Trim, redis
<1>3. ASSUME NEW e \in Entry, EntryAges(e) PROVE Rest
  BY <1>3 DEF EntryAges, Mishap, GrowsIdle, redis
<1>4. CASE GroupVanishes
  BY <1>4 DEF GroupVanishes, Outside, LoseGroup, redis
<1>5. ASSUME NEW c \in Consumer, ConsumerSleeps(c) PROVE Rest
  BY <1>5 DEF ConsumerSleeps, Mishap, FallsAsleep, redis
<1>6. ASSUME NEW c \in Consumer, EnsureGroup(c) PROVE Rest
  BY <1>6 DEF EnsureGroup, XGroupCreate, Ready, redis
<1>7. ASSUME NEW c \in Consumer, NEW e \in Entry, ReadOnce(c, e)
      PROVE  Rest
  BY <1>7 DEF ReadOnce, XReadGroup, Touch, Taken, redis
<1>8. ASSUME NEW c \in Consumer, NEW e \in Entry, ReadFails(c, e)
      PROVE  Rest
  BY <1>8 DEF ReadFails, XReadGroup, Touch, Mishap, redis
<1>9. ASSUME NEW c \in Consumer, BeginRecovery(c) PROVE Rest
  BY <1>9 DEF BeginRecovery, Ready, redis
<1>10. ASSUME NEW c \in Consumer, NEW e \in Entry, ClaimOne(c, e)
       PROVE  Rest
  BY <1>10 DEF ClaimOne, XAutoClaim, Touch, Taken, redis
<1>11. ASSUME NEW c \in Consumer, NEW e \in Entry, ClaimFails(c, e)
       PROVE  Rest
  BY <1>11 DEF ClaimFails, XAutoClaim, Touch, Mishap, Ready, redis
<1>12. ASSUME NEW c \in Consumer, NEW e \in Entry, ClaimDeleted(c, e)
       PROVE  Rest
  BY <1>12 DEF ClaimDeleted, XAutoClaimDeleted, Touch, redis
<1>13. ASSUME NEW c \in Consumer, EndClaims(c) PROVE Rest
  BY <1>13 DEF EndClaims, XAutoClaim, Touch, Ready, redis
<1>14. ASSUME NEW c \in Consumer, CheckPending(c) PROVE Rest
  BY <1>14 DEF CheckPending, StillOurs, Onward, Ready, Taken, redis
<1>15. ASSUME NEW c \in Consumer, CheckFails(c) PROVE Rest
  BY <1>15 DEF CheckFails, Onward, Ready, Mishap, redis
<1>16. ASSUME NEW c \in Consumer, RunJob(c) PROVE Rest
  BY <1>16 DEF RunJob, redis
<1>17. ASSUME NEW c \in Consumer, Publish(c) PROVE Rest
  <2>1. consumer[c].entry \in Entry
    BY <1>17 DEF Publish, Fit, HasEntry, Process
  <2> QED
    BY <1>17, <2>1 DEF Publish, redis
<1>18. ASSUME NEW c \in Consumer, PublishFails(c) PROVE Rest
  <2>1. consumer[c].entry \in Entry
    BY <1>18 DEF PublishFails, Fit, HasEntry, Process
  <2> QED
    BY <1>18, <2>1 DEF PublishFails, redis
<1>19. ASSUME NEW c \in Consumer, Ack(c) PROVE Rest
  BY <1>19 DEF Ack, XAck, Onward, Ready, redis
<1>20. ASSUME NEW c \in Consumer, AckFails(c) PROVE Rest
  BY <1>20 DEF AckFails, Onward, Ready, Mishap, redis
<1>21. ASSUME NEW c \in Consumer, Renew(c) PROVE Rest
  BY <1>21 DEF Renew, XClaim, Renewed, Touch, redis
<1>22. ASSUME NEW c \in Consumer, RenewFails(c) PROVE Rest
  BY <1>22 DEF RenewFails, redis
<1>23. ASSUME NEW c \in Consumer, XInfo(c) PROVE Rest
  BY <1>23 DEF XInfo, Deletable, redis
<1>24. ASSUME NEW c \in Consumer, NEW k \in Consumer, DelConsumer(c, k)
       PROVE  Rest
  BY <1>24 DEF DelConsumer, XGroupDelConsumer, PendingOf, redis
<1>25. ASSUME NEW c \in Consumer, EndCleanup(c) PROVE Rest
  BY <1>25 DEF EndCleanup, Holding, Ready, redis
<1>26. ASSUME NEW c \in Consumer, Crash(c) PROVE Rest
  BY <1>26 DEF Crash, Ready, Mishap, redis
<1>27. CASE UNCHANGED vars
  BY <1>27 DEF vars, redis
<1> QED
  BY <1>1, <1>2, <1>3, <1>4, <1>5, <1>6, <1>7, <1>8, <1>9, <1>10, <1>11, <1>12, <1>13,
     <1>14, <1>15, <1>16, <1>17, <1>18, <1>19, <1>20, <1>21, <1>22, <1>23, <1>24, <1>25,
     <1>26, <1>27
  DEF Next, ConsumerStep, EntryStep, CleanupStep

LEMMA ReportsStay == ASSUME Rest PROVE \A e \in Entry : Reported(e) => Reported(e)'
  BY DEF Rest, Reported

(* Every step is a command of the group, or acknowledges a process's entry. *)
LEMMA StepIsCommand ==
    ASSUME Types, [Next]_vars
    PROVE  GroupStep \/ \E c \in Consumer : Ack(c)
<1> USE DEF GroupStep
<1>1. ASSUME NEW e \in Entry, Add(e) \/ TrimEntry(e) \/ EntryAges(e) PROVE GroupStep
  BY <1>1 DEF Add, TrimEntry, EntryAges
<1>2. CASE GroupVanishes
  BY <1>2 DEF GroupVanishes
<1>3. ASSUME NEW c \in Consumer, ConsumerSleeps(c) \/ EnsureGroup(c) PROVE GroupStep
  BY <1>3 DEF ConsumerSleeps, EnsureGroup
<1>4. ASSUME NEW c \in Consumer, NEW e \in Entry, ReadOnce(c, e) \/ ReadFails(c, e)
      PROVE  GroupStep
  <2>1. {e} \in SUBSET Entry
    OBVIOUS
  <2>2. XReadGroup(c, {e})
    BY <1>4 DEF ReadOnce, ReadFails
  <2> QED
    BY <2>1, <2>2
<1>5. ASSUME NEW c \in Consumer, NEW e \in Entry, ClaimOne(c, e) \/ ClaimFails(c, e)
      PROVE  GroupStep
  <2>1. {e} \in SUBSET Entry
    OBVIOUS
  <2>2. XAutoClaim(c, {e})
    BY <1>5 DEF ClaimOne, ClaimFails
  <2> QED
    BY <2>1, <2>2
<1>6. ASSUME NEW c \in Consumer, NEW e \in Entry, ClaimDeleted(c, e) PROVE GroupStep
  BY <1>6 DEF ClaimDeleted
<1>7. ASSUME NEW c \in Consumer, EndClaims(c) PROVE GroupStep
  <2>1. {} \in SUBSET Entry
    OBVIOUS
  <2>2. XAutoClaim(c, {})
    BY <1>7 DEF EndClaims
  <2> QED
    BY <2>1, <2>2
<1>8. ASSUME NEW c \in Consumer, Renew(c) PROVE GroupStep
  <2> DEFINE e == consumer[c].entry
  <2>1. e \in Entry
    BY <1>8 DEF Renew, Types, Fit, HasEntry, Process
  <2>2. pel[e].deliveries \in Nat
    BY <2>1 DEF Types, GroupTypeOK, Pending
  <2>3. XClaim(c, e, HeldBy(c, pel[e].deliveries))
    BY <1>8 DEF Renew, Renewed
  <2> QED
    BY <2>1, <2>2, <2>3
<1>9. ASSUME NEW c \in Consumer, NEW k \in Consumer, DelConsumer(c, k) PROVE GroupStep
  BY <1>9 DEF DelConsumer
<1>10. CASE (\E c \in Consumer : Quiet(c)) \/ UNCHANGED vars
  BY <1>10, QuietStep DEF vars
<1> QED
  BY <1>1, <1>2, <1>3, <1>4, <1>5, <1>6, <1>7, <1>8, <1>9, <1>10
  DEF Next, ConsumerStep, EntryStep, CleanupStep, Quiet

(* At most one process changes. *)
LEMMA Processes ==
    ASSUME Types, [Next]_vars
    PROVE  UNCHANGED consumer \/ \E c \in Consumer : OneProcess(c)
<1>1. CASE \E e \in Entry : Add(e) \/ TrimEntry(e) \/ EntryAges(e)
  BY <1>1 DEF Add, TrimEntry, EntryAges, Outside
<1>2. CASE GroupVanishes
  BY <1>2 DEF GroupVanishes, Outside
<1>3. CASE \E c \in Consumer : ConsumerSleeps(c)
  BY <1>3 DEF ConsumerSleeps
<1>4. CASE \E c \in Consumer : ConsumerStep(c)
  BY <1>4, ProcessStep
<1>5. CASE UNCHANGED vars
  BY <1>5 DEF vars
<1> QED
  BY <1>1, <1>2, <1>3, <1>4, <1>5 DEF Next

-----------------------------------------------------------------------------
(* Each part of the invariant is kept by every step.                       *)

LEMMA TypesStep == ASSUME Types, [Next]_vars PROVE Types'
<1>1. GroupTypeOK' /\ InOnePlace'
  <2>1. CASE GroupStep
    BY <2>1, GroupTypeStep, OnePlaceStep DEF Types
  <2>2. ASSUME NEW c \in Consumer, Ack(c) PROVE GroupTypeOK' /\ InOnePlace'
    <3>1. consumer[c].entry \in Entry /\ XAck(consumer[c].entry)
      BY <2>2 DEF Ack, Types, Fit, HasEntry, Process
    <3> QED
      BY <3>1, GroupTypeAck, OnePlaceStep DEF Types
  <2> QED
    BY <2>1, <2>2, StepIsCommand
<1>2. reports' \subseteq Report /\ mishaps' \in 0 .. MaxMishaps
  <2>1. Rest
    BY RestStep
  <2>2. \A c \in Consumer : consumer[c].entry \in Entry => Status(c) \in Report
    BY DEF Types, Status, Report, Process
  <2> QED
    BY <2>1, <2>2 DEF Rest, Types
<1>3. consumer' \in [Consumer -> Process] /\ \A c \in Consumer : Fit(consumer'[c])
  BY Processes DEF OneProcess, Types
<1> QED
  BY <1>1, <1>2, <1>3 DEF Types, Fit

LEMMA ToldStep ==
    ASSUME IInv, [Next]_vars, NEW c \in Consumer
    PROVE  Told(c)'
<1>1. Rest /\ Types /\ Types'
  BY RestStep, TypesStep DEF IInv
<1>2. \A e \in Entry : Reported(e) => Reported(e)'
  BY <1>1, ReportsStay
<1>3. mishaps \in Nat /\ mishaps' \in Nat /\ mishaps' >= mishaps
  BY <1>1 DEF Types, Rest
<1>4. Told(c)
  BY DEF IInv
<1>5. consumer[c].entry \in Entry \cup {None} /\ consumer'[c].entry \in Entry \cup {None}
  BY <1>1 DEF Types, Process
<1>6. \A d \in Consumer : consumer[d].pc = "ack" => consumer[d].entry \in Entry
  BY <1>1 DEF Types, Fit, HasEntry, Process
<1>7. CASE consumer'[c] = consumer[c]
  BY <1>2, <1>3, <1>4, <1>6, <1>7 DEF Told
<1>8. ASSUME OneProcess(c) PROVE Told(c)'
  <2>1. PICK s \in Process : Fit(s) /\ Became(c, s) /\ consumer' = [consumer EXCEPT ![c] = s]
    BY <1>8 DEF OneProcess
  <2>2. consumer'[c] = s
    BY <2>1, <1>1 DEF Types
  <2>3. ASSUME s.pc = "ack", s.entry \notin Bad PROVE Reported(s.entry)'
    <3>1. s.entry = consumer[c].entry /\ Status(c) \in reports'
      BY <2>1, <2>3 DEF Became
    <3>2. consumer[c].verdict \in Verdict
      BY <1>1 DEF Types, Process
    <3> QED
      BY <3>1, <3>2 DEF Reported, Status
  <2>4. ASSUME s.entry # None, s.verdict = "POISON" PROVE mishaps' >= PoisonThreshold
    <3>1. consumer[c].entry \in Entry
      BY <2>1, <2>4, <1>5 DEF Became
    <3>2. CASE consumer[c].verdict = "POISON"
      BY <3>1, <3>2, <1>3, <1>4 DEF Told
    <3>3. CASE pel[consumer[c].entry].deliveries > PoisonThreshold
      <4>1. pel[consumer[c].entry].deliveries \in Nat
        BY <3>1, <1>1 DEF Types, GroupTypeOK, Pending
      <4>2. pel[consumer[c].entry].deliveries <= 1 + mishaps
        BY <3>1 DEF IInv, Paid
      <4> QED
        BY <4>1, <4>2, <3>3, <1>3
    <3> QED
      BY <3>2, <3>3, <2>1, <2>4 DEF Became
  <2> QED
    BY <2>2, <2>3, <2>4 DEF Told
<1>9. consumer'[c] = consumer[c] \/ OneProcess(c)
  BY Processes, <1>1 DEF OneProcess, Types
<1> QED
  BY <1>7, <1>8, <1>9

LEMMA PoisonStep == ASSUME IInv, [Next]_vars PROVE PoisonPaid'
<1>1. Rest /\ Types
  BY RestStep DEF IInv
<1>2. mishaps \in Nat /\ mishaps' \in Nat /\ mishaps' >= mishaps
  BY <1>1 DEF Types, Rest
<1> SUFFICES ASSUME NEW e \in Entry, [entry |-> e, verdict |-> "POISON"] \in reports'
             PROVE  mishaps' >= PoisonThreshold
  BY DEF PoisonPaid
<1>3. CASE [entry |-> e, verdict |-> "POISON"] \in reports
  BY <1>2, <1>3 DEF IInv, PoisonPaid
<1>4. ASSUME NEW c \in Consumer, [entry |-> e, verdict |-> "POISON"] = Status(c)
      PROVE  mishaps' >= PoisonThreshold
  <2>1. consumer[c].entry = e /\ consumer[c].verdict = "POISON"
    BY <1>4 DEF Status
  <2> QED
    BY <2>1, <1>2 DEF IInv, Told
<1> QED
  BY <1>1, <1>3, <1>4 DEF Rest

LEMMA AnsweredStep == ASSUME IInv, [Next]_vars PROVE Answered'
<1>1. Rest /\ Types /\ Types'
  BY RestStep, TypesStep DEF IInv
<1> SUFFICES ASSUME NEW e \in stream' \ Bad, group', ~ Reported(e)' PROVE HasIt(e)'
  BY DEF Answered
<1>2. e \in Entry
  BY <1>1 DEF Types, GroupTypeOK
<1>3. ~ Reported(e)
  BY <1>1, <1>2, ReportsStay
<1>4. e \in stream /\ group => HasIt(e)
  BY <1>3 DEF IInv, Answered
<1>5. CASE GroupStep
  BY <1>1, <1>2, <1>4, <1>5, EntryStays DEF Types
<1>6. ASSUME NEW c \in Consumer, Ack(c) PROVE HasIt(e)'
  <2>1. consumer[c].entry \in Entry /\ XAck(consumer[c].entry) /\ consumer[c].pc = "ack"
    BY <1>1, <1>6 DEF Ack, Types, Fit, HasEntry, Process
  <2>2. e # consumer[c].entry
    BY <2>1, <1>3 DEF IInv, Told
  <2>3. HasIt(e)
    BY <2>1, <1>4 DEF XAck
  <2> QED
    BY <1>1, <1>2, <2>1, <2>2, <2>3, AckTakesOne DEF Types
<1> QED
  BY <1>1, <1>5, <1>6, StepIsCommand

(* Deliveries: an entry leaves a process's hand acknowledged, claimed by   *)
(* another, or by a mishap.                                                *)
LEMMA PaidStep ==
    ASSUME IInv, [Next]_vars, NEW e \in Entry
    PROVE  Paid(e)'
<1>1. Rest /\ Types /\ Types' /\ Paid(e) /\ ChangesHands(e)
  BY RestStep, TypesStep, HandsStep DEF IInv
<1>2. mishaps \in Nat /\ mishaps' \in {mishaps, mishaps + 1}
  BY <1>1 DEF Types, Rest
<1>3. pel[e] \in Pending /\ pel'[e] \in Pending
  BY <1>1 DEF Types, GroupTypeOK
<1>4. pel[e].deliveries \in Nat /\ pel'[e].deliveries \in Nat
      /\ pel'[e].owner \in Consumer \cup {None}
  BY <1>3 DEF Pending
<1>5. ASSUME NEW n \in Nat, Gets(e, n), n <= 1 + mishaps PROVE Paid(e)'
  <2>1. PICK c \in Consumer : /\ pel'[e] = HeldBy(c, n)
                              /\ consumer'[c].entry = e \/ mishaps' = mishaps + 1
    BY <1>5 DEF Gets
  <2>2. pel'[e].owner = c /\ pel'[e].deliveries = n /\ ~ pel'[e].idle
    BY <2>1 DEF HeldBy
  <2> QED
    BY <2>1, <2>2, <1>2, <1>5 DEF Paid
<1>6. CASE pel'[e] = NotPending
  <2>1. pel'[e].owner = None /\ pel'[e].deliveries = 0
    BY <1>6 DEF NotPending
  <2>2. mishaps' \in Nat
    BY <1>1 DEF Types
  <2>3. \A m \in Nat : 0 <= 1 + m
    OBVIOUS
  <2>4. 0 <= 1 + mishaps'
    BY <2>2, <2>3
  <2> QED
    BY <2>1, <2>4 DEF Paid, IsPending
<1>7. CASE pel'[e] = pel[e]
  <2>1. CASE mishaps' = mishaps + 1
    BY <1>1, <1>2, <1>4, <1>7, <2>1 DEF Paid
  <2>2. ASSUME mishaps' = mishaps, IsPending(e), ~ pel[e].idle,
               consumer'[pel[e].owner].entry # e
        PROVE  consumer[pel[e].owner].entry # e
    <3> SUFFICES ASSUME consumer[pel[e].owner].entry = e PROVE FALSE
      OBVIOUS
    <3>1. pel[e].owner \in Consumer
      BY <2>2, <1>4, <1>7 DEF IsPending
    <3>2. PICK c \in Consumer : OneProcess(c)
      BY <2>2, <1>1, Processes
    <3>3. c = pel[e].owner
      BY <3>1, <3>2, <2>2, <1>1 DEF OneProcess, Types
    <3>4. PICK s \in Process : Became(c, s) /\ consumer' = [consumer EXCEPT ![c] = s]
      BY <3>2 DEF OneProcess
    <3>5. s.entry # e
      BY <3>3, <3>4, <2>2, <1>1 DEF Types
    <3>6. pel'[e].owner # c \/ mishaps' = mishaps + 1
      BY <3>3, <3>4, <3>5 DEF Became
    <3> QED
      BY <3>3, <3>6, <2>2, <1>2, <1>7
  <2> QED
    BY <1>1, <1>2, <1>7, <2>1, <2>2 DEF Paid, IsPending
<1>8. CASE e \in fresh /\ Gets(e, 1)
  BY <1>2, <1>5, <1>8
<1>9. CASE Reclaimable(e) /\ Gets(e, pel[e].deliveries + 1)
  <2>1. pel[e].deliveries <= mishaps
    BY <1>1, <1>9 DEF Paid, Reclaimable
  <2> QED
    BY <2>1, <1>2, <1>4, <1>5, <1>9
<1>10. ASSUME NEW c \in Consumer, pel'[e] = HeldBy(c, pel[e].deliveries),
              consumer'[c].entry = e
       PROVE  Paid(e)'
  <2>1. pel'[e].owner = c /\ pel'[e].deliveries = pel[e].deliveries /\ ~ pel'[e].idle
    BY <1>10 DEF HeldBy
  <2> QED
    BY <2>1, <1>1, <1>2, <1>4, <1>10 DEF Paid
<1>11. CASE /\ IsPending(e) /\ pel' = [pel EXCEPT ![e].idle = TRUE]
            /\ ~ Works(pel[e].owner, e) \/ mishaps' = mishaps + 1
            /\ UNCHANGED consumer
  <2>1. pel'[e].owner = pel[e].owner /\ pel'[e].deliveries = pel[e].deliveries
    BY <1>1, <1>3, <1>11 DEF Types, GroupTypeOK, Pending
  <2>2. CASE mishaps' = mishaps + 1
    BY <2>1, <2>2, <1>1, <1>2, <1>4 DEF Paid
  <2>3. CASE ~ Works(pel[e].owner, e)
    <3>1. pel[e].owner \in Consumer
      BY <2>1, <1>4, <1>11 DEF IsPending
    <3>2. Fit(consumer[pel[e].owner])
      BY <3>1, <1>1 DEF Types
    <3>3. consumer[pel[e].owner].entry # e
      BY <2>3, <3>2 DEF Works, Live, Fit, HasEntry
    <3>4. pel[e].deliveries <= mishaps
      BY <3>3, <1>1, <1>11 DEF Paid
    <3> QED
      BY <2>1, <3>4, <1>2, <1>4 DEF Paid
  <2> QED
    BY <2>2, <2>3, <1>11
<1> QED
  BY <1>1, <1>6, <1>7, <1>8, <1>9, <1>10, <1>11 DEF ChangesHands

(* Jobs: an entry somebody runs is not idle, so nobody claims it; who has  *)
(* claimed it before finds another owner; and a renewal by force makes no  *)
(* owner of somebody who is about to look.                                 *)
LEMMA AloneStep ==
    ASSUME IInv, [Next]_vars, NEW c \in Consumer
    PROVE  Alone(c)'
<1> DEFINE e == consumer'[c].entry
<1> SUFFICES ASSUME consumer'[c].pc \in {"check", "run"} PROVE Alone(c)'
  BY DEF Alone
<1>1. Rest /\ Types /\ Types' /\ InOnePlace
  BY RestStep, TypesStep DEF IInv, Types
<1>2. \A d \in Consumer : Alone(d)
  BY DEF IInv
<1>3. e \in Entry
  BY <1>1 DEF Types, Fit, HasEntry, Process
<1>4. ChangesHands(e)
  BY <1>3, HandsStep, <1>1
<1>5. losses \in Nat /\ (losses' = 0 => losses = 0 /\ (group => group'))
  BY <1>1 DEF Rest, Types, GroupTypeOK
<1>6. \A d \in Consumer :
        \/ consumer'[d] = consumer[d]
        \/ OneProcess(d) /\ (\A b \in Consumer \ {d} : consumer'[b] = consumer[b])
  BY <1>1, Processes DEF OneProcess, Types
<1>7. ASSUME consumer'[c] = consumer[c] PROVE Alone(c)'
  <2>1. e \in added /\ e \in added'
    BY <1>1, <1>2, <1>7 DEF Alone, Rest
  <2>2. ASSUME losses' = 0
        PROVE  group /\ group' /\ e \notin fresh /\ e \notin fresh'
    BY <2>1, <2>2, <1>1, <1>2, <1>5, <1>7 DEF Alone, Rest
  <2>3. ASSUME losses' = 0, consumer'[c].pc = "run"
        PROVE  /\ ~ pel'[e].idle
               /\ \A d \in Consumer \ {c} :
                    consumer'[d].entry = e =>
                      /\ consumer'[d].pc # "run"
                      /\ consumer'[d].pc = "check" => pel'[e].owner # d
    <3>1. ~ pel[e].idle /\ ~ Reclaimable(e)
      BY <2>3, <1>2, <1>5, <1>7 DEF Alone, Reclaimable
    <3>2. \/ pel'[e] \in {NotPending, pel[e]}
          \/ \E k \in Consumer : /\ pel'[e] = HeldBy(k, pel[e].deliveries)
                                 /\ consumer[k].pc = "held" /\ consumer[k].entry = e
                                 /\ consumer'[k].entry = e
      BY <3>1, <2>2, <2>3, <1>4, <1>7 DEF ChangesHands
    <3>0. /\ NotPending.idle = FALSE /\ NotPending.owner = None
          /\ \A k \in Consumer : /\ HeldBy(k, pel[e].deliveries).idle = FALSE
                                 /\ HeldBy(k, pel[e].deliveries).owner = k
      BY DEF NotPending, HeldBy
    <3>3. ~ pel'[e].idle
      BY <3>0, <3>1, <3>2
    <3>4. ASSUME NEW d \in Consumer \ {c}, consumer'[d].entry = e
          PROVE  /\ consumer'[d].pc # "run"
                 /\ consumer'[d].pc = "check" => pel'[e].owner # d
      <4>1. consumer[d].entry = e =>
              consumer[d].pc # "run" /\ (consumer[d].pc = "check" => pel[e].owner # d)
        BY <2>3, <1>2, <1>5, <1>7 DEF Alone
      <4>2. CASE consumer'[d] = consumer[d]
        <5>1. consumer[d].pc = "check" => pel'[e].owner # d
          BY <4>1, <4>2, <3>0, <3>2, <3>4
        <5> QED
          BY <4>1, <4>2, <5>1, <3>4
      <4>3. ASSUME NEW s \in Process, Became(d, s), consumer' = [consumer EXCEPT ![d] = s]
            PROVE  consumer'[d].pc \notin {"run", "check"}
        <5>1. consumer'[d] = s
          BY <4>3, <1>1 DEF Types
        <5>2. s.pc # "check"
          BY <5>1, <4>3, <3>1, <3>4 DEF Became
        <5>3. s.pc # "run"
          BY <5>1, <4>1, <4>3, <3>4, <2>2, <2>3 DEF Became
        <5> QED
          BY <5>1, <5>2, <5>3
      <4> QED
        BY <4>2, <4>3, <1>6 DEF OneProcess
    <3> QED
      BY <3>3, <3>4
  <2> QED
    BY <2>1, <2>2, <2>3 DEF Alone
<1>8. ASSUME NEW s \in Process, Became(c, s), consumer' = [consumer EXCEPT ![c] = s],
             \A d \in Consumer \ {c} : consumer'[d] = consumer[d]
      PROVE  Alone(c)'
  <2>1. consumer'[c] = s /\ s.entry = e
    BY <1>1, <1>8 DEF Types
  <2>2. CASE s.pc = "check"
    <3>1. e \in stream /\ Reclaimable(e) /\ fresh' = fresh
      BY <2>1, <2>2, <1>8 DEF Became
    <3>2. group /\ e \in added \ fresh
      BY <3>1, <1>1, <1>3 DEF InOnePlace, Reclaimable
    <3> QED
      BY <3>1, <3>2, <2>1, <2>2, <1>1, <1>5 DEF Alone, Rest
  <2>3. CASE /\ s.pc = "run"
             /\ s.entry \in fresh \ fresh' /\ group /\ pel'[s.entry] = HeldBy(c, 1)
    <3>1. e \in added'
      BY <2>1, <2>3, <1>1 DEF Types, GroupTypeOK, Rest
    <3>2. pel'[e].owner = c /\ ~ pel'[e].idle
      BY <2>1, <2>3 DEF HeldBy
    <3>3. ASSUME losses' = 0, NEW d \in Consumer \ {c}, consumer'[d].entry = e
          PROVE  consumer'[d].pc # "run"
      BY <3>3, <2>1, <2>3, <1>2, <1>5, <1>8 DEF Alone
    <3> QED
      BY <3>1, <3>2, <3>3, <2>1, <2>3, <1>5 DEF Alone
  <2>4. CASE /\ s.pc = "run" /\ consumer[c].pc = "check" /\ s.entry = consumer[c].entry
             /\ pel[s.entry].owner = c /\ ~ pel[s.entry].idle
             /\ UNCHANGED redis
    <3>1. added' = added /\ fresh' = fresh /\ pel' = pel /\ group' = group
      BY <2>4 DEF redis
    <3>2. ASSUME losses' = 0, NEW d \in Consumer \ {c}, consumer'[d].entry = e
          PROVE  consumer'[d].pc # "run"
      BY <3>2, <2>1, <2>4, <1>2, <1>5, <1>8 DEF Alone
    <3> QED
      BY <3>1, <3>2, <2>1, <2>4, <1>2, <1>5 DEF Alone
  <2> QED
    BY <2>1, <2>2, <2>3, <2>4, <1>8 DEF Became
<1> QED
  BY <1>6, <1>7, <1>8 DEF OneProcess

-----------------------------------------------------------------------------
LEMMA InitInv == Init => IInv
<1> SUFFICES ASSUME Init PROVE IInv
  OBVIOUS
<1>1. GroupTypeOK /\ InOnePlace
  BY GroupTypeInit, OnePlaceInit DEF Init
<1>2. Ready("idle", FALSE) \in Process /\ Fit(Ready("idle", FALSE))
  BY DEF Ready, Process, Stage, Verdict, Fit, HasEntry
<1>3. \A c \in Consumer : consumer[c] = Ready("idle", FALSE)
  BY DEF Init
<1>4. consumer \in [Consumer -> Process]
  BY <1>2 DEF Init
<1>5. Types
  <2>1. mishaps \in 0 .. MaxMishaps /\ reports \subseteq Report
    BY DEF Init
  <2> QED
    BY <1>1, <1>2, <1>3, <1>4, <2>1 DEF Types
<1>6. \A e \in Entry : pel[e] = NotPending
  BY DEF Init, GroupInit
<1>7. ASSUME NEW e \in Entry PROVE Paid(e)
  <2>1. ~ IsPending(e) /\ pel[e].deliveries = 0 /\ mishaps = 0
    BY <1>6 DEF NotPending, IsPending, Init
  <2>2. pel[e].deliveries <= 1 + mishaps
    BY <2>1
  <2> QED
    BY <2>1, <2>2 DEF Paid
<1>8. \A c \in Consumer : Told(c) /\ Alone(c)
  BY <1>3 DEF Told, Alone, Ready
<1>9. PoisonPaid /\ Answered
  BY DEF PoisonPaid, Answered, Init, GroupInit
<1> QED
  BY <1>5, <1>7, <1>8, <1>9 DEF IInv

(* The inductive invariant of the consumers (StreamConsumer). *)
THEOREM Invariance == Spec => []IInv
<1>1. IInv /\ [Next]_vars => IInv'
  <2> SUFFICES ASSUME IInv, [Next]_vars PROVE IInv'
    OBVIOUS
  <2>1. Types'
    BY TypesStep DEF IInv
  <2>2. \A c \in Consumer : Told(c)' /\ Alone(c)'
    BY ToldStep, AloneStep
  <2>3. \A e \in Entry : Paid(e)'
    BY PaidStep
  <2>4. PoisonPaid' /\ Answered'
    BY PoisonStep, AnsweredStep
  <2> QED
    BY <2>1, <2>2, <2>3, <2>4 DEF IInv
<1> QED
  BY <1>1, InitInv, PTL DEF Spec

(* An event that was read is acknowledged only after its status was        *)
(* published, so none is lost between the streams, whoever dies (L17).     *)
THEOREM EntriesAreKept == Spec => []NoEntryLost
<1>1. IInv => NoEntryLost
  BY DEF IInv, Types, Fit, HasEntry, TypeOK, Answered, HasIt, NoEntryLost
<1> QED
  BY <1>1, Invariance, PTL

(* Every delivery but the first is paid for by a mishap (rules 14 and 18). *)
THEOREM PoisonTakesMishaps == Spec => []PoisonIsEarned
<1>1. IInv => PoisonIsEarned
  BY DEF IInv, Paid, PoisonPaid, PoisonIsEarned
<1> QED
  BY <1>1, Invariance, PTL

(* No two processes run one entry while the group is kept (L15). *)
THEOREM JobsAreAlone == Spec => []JobsDoNotOverlap
<1>1. IInv => JobsDoNotOverlap
  BY DEF IInv, Alone, JobsDoNotOverlap
<1> QED
  BY <1>1, Invariance, PTL
=============================================================================
