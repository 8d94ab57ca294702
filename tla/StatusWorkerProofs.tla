------------------------- MODULE StatusWorkerProofs -------------------------
(***************************************************************************)
(* Proofs about StatusWorker, for every set of entries and every finite    *)
(* set of workers, every batch size, threshold and bound: no status is     *)
(* lost, and the poison clock runs for the entry's own faults only.        *)
(***************************************************************************)
EXTENDS StatusWorker, ConsumerGroupProofs, FiniteSetTheorems, WellFoundedInduction, TLAPS

USE GroupAssumption, ConfigAssumption

(* A worker has an entry exactly where it works on one, then the rest of   *)
(* the batch; an entry that was tried again has not been counted since.    *)
HasEntry == {"count", "handle", "probe", "wait", "ack"}
Fit(s) ==
    /\ s \in Process
    /\ (s.entry # None) <=> (s.pc \in HasEntry)
    /\ s.entry = None => s.batch = {}
    /\ \A e \in s.batch : s.entry < e
    /\ s.retried => s.pc \in HasEntry \ {"count"}

Has(s, e) == s.entry = e \/ e \in s.batch

Types ==
    /\ GroupTypeOK /\ InOnePlace
    /\ storeUp \in BOOLEAN /\ outages \in 0 .. MaxOutages
    /\ ~ storeUp => outages > 0
    /\ applied \subseteq added \ Bad /\ poisoned \subseteq added
    /\ failures \in [Entry -> 0 .. MaxFailures]
    /\ mishaps \in 0 .. MaxMishaps
    /\ worker \in [Consumer -> Process]
    /\ \A c \in Consumer : Fit(worker[c])
    /\ \A c \in Consumer, e \in Entry : Has(worker[c], e) => e \in added

(* Who acknowledges an event has applied it or given it up. *)
Finished(c) ==
    worker[c].pc = "ack" => worker[c].entry \in applied \cup poisoned \cup Bad

Answered ==
    \A e \in stream \ Bad : group => HasIt(e) \/ e \in applied \cup poisoned

(* The accounts of an entry.  A worker whose first attempt failed owes it  *)
(* a fault: the entry's own, or an outage that it has not charged before.  *)
(* The charges are the set U; while an outage lasts, who has charged it    *)
(* waits for its end.                                                      *)
Owes(s, e) == s.entry = e /\ (s.retried \/ s.pc \in {"probe", "wait"})
Waits(s, e) == s.entry = e /\ s.pc \in {"probe", "wait"}
Owing(e) == {c \in Consumer : Owes(worker[c], e)}

Charges == Consumer \X (1 .. outages)
Balanced(e, U) ==
    /\ ~ storeUp => \A c \in Consumer :
         <<c, outages>> \in U => Waits(worker[c], e) \/ ~ Live(c)
    /\ pel[e].deliveries + Cardinality(Owing(e))
         <= Cardinality(Working(e)) + mishaps + failures[e] + Cardinality(U)
Account(e) == \E U \in SUBSET Charges : Balanced(e, U)

IInv ==
    /\ Types
    /\ \A c \in Consumer : Finished(c)
    /\ Answered
    /\ \A e \in Entry : Account(e)
    /\ \A e \in poisoned : PoisonThreshold < Budget(e, Cardinality(Consumer))

-----------------------------------------------------------------------------
(* The least of a set of numbers, and the local state Work makes of them.  *)

Less == {ss \in Nat \X Nat : ss[1] < ss[2]}

LEMMA LessIsWellFounded == IsWellFoundedOn(Less, Nat)
  BY NatLessThanWellFounded DEF OpToRel, Less

LEMMA OldestIsLeast ==
    ASSUME NEW S \in SUBSET Nat, S # {}
    PROVE  Oldest(S) \in S /\ \A n \in S : Oldest(S) <= n
<1>1. PICK m \in S : \A y \in S : ~ (<<y, m>> \in Less)
  BY LessIsWellFounded, WFMin
<1>2. \A y \in S : ~ (y < m)
  BY <1>1 DEF Less
<1>3. \A y \in S : m <= y
  BY <1>2
<1> QED
  BY <1>3 DEF Oldest

LEMMA WorkFits ==
    ASSUME NEW recovering \in BOOLEAN, NEW full \in BOOLEAN, NEW entries \in SUBSET Entry
    PROVE  LET s == Work(recovering, full, entries) IN
           /\ Fit(s)
           /\ \A e \in Entry : Has(s, e) <=> e \in entries
           /\ ~ s.retried /\ s.pc \in Stage \ {"probe", "wait", "ack", "dead"}
<1> DEFINE s == Work(recovering, full, entries)
<1>1. CASE entries # {}
  <2> DEFINE o == Oldest(entries)
  <2>1. o \in entries /\ \A e \in entries : o <= e
    BY <1>1, OldestIsLeast
  <2>2. s = [pc |-> IF recovering THEN "count" ELSE "handle", recovering |-> recovering,
             full |-> full, entry |-> o, batch |-> entries \ {o},
             retried |-> FALSE, victims |-> {}]
    BY <1>1 DEF Work
  <2> HIDE DEF s, o
  <2>3. \A e \in entries \ {o} : o < e
    BY <2>1
  <2>4. s \in Process
    BY <2>1, <2>2 DEF Process, Stage
  <2>5. s.entry = o /\ s.batch = entries \ {o} /\ s.retried = FALSE /\ s.pc \in {"count", "handle"}
    BY <2>2
  <2>6. Fit(s)
    BY <2>1, <2>3, <2>4, <2>5 DEF Fit, HasEntry
  <2>7. \A e \in Entry : Has(s, e) <=> e \in entries
    BY <2>1, <2>5 DEF Has
  <2> QED
    BY <2>5, <2>6, <2>7 DEF Stage, s
<1>2. CASE entries = {}
  <2> DEFINE pc == CASE recovering /\ full -> "claim"
                     [] recovering /\ ~ full -> "cleanup"
                     [] OTHER -> "idle"
  <2>1. pc \in {"claim", "cleanup", "idle"}
    OBVIOUS
  <2>2. s = At(pc, recovering)
    BY <1>2 DEF Work
  <2> HIDE DEF pc, s
  <2>3. s = [pc |-> pc, recovering |-> recovering, full |-> FALSE, entry |-> None,
             batch |-> {}, retried |-> FALSE, victims |-> {}]
    BY <2>2 DEF At
  <2>4. s \in Process
    BY <2>1, <2>3 DEF Process, Stage
  <2> QED
    BY <1>2, <2>1, <2>3, <2>4 DEF Fit, HasEntry, Has, Stage, s
<1> QED
  BY <1>1, <1>2

LEMMA AtFits ==
    ASSUME NEW pc \in Stage \ HasEntry, NEW recovering \in BOOLEAN
    PROVE  LET s == At(pc, recovering) IN
           /\ Fit(s) /\ s.pc = pc /\ ~ s.retried
           /\ \A e \in Entry : ~ Has(s, e)
  BY DEF At, Fit, Process, HasEntry, Has

-----------------------------------------------------------------------------
(* What a step does: to one worker, to the deliveries and the accounts of  *)
(* each entry, and to the rest.                                            *)

NoMore(e) == pel'[e].deliveries <= pel[e].deliveries
OneMore(e) == pel'[e].deliveries <= pel[e].deliveries + 1

Keeps(s, t, e) == (Has(t, e) <=> Has(s, e)) /\ (Owes(t, e) => Owes(s, e)) /\ NoMore(e)
Takes(s, t, e) == ~ Has(s, e) /\ Has(t, e) /\ ~ Owes(t, e) /\ OneMore(e)
Loses(s, t, e) ==
    /\ Has(s, e) /\ ~ Has(t, e)
    /\ \/ pel'[e].deliveries = 0
       \/ NoMore(e) /\ (mishaps' = mishaps + 1 \/ Owes(s, e))
Fails(s, t, e) ==
    /\ Has(s, e) /\ ~ Owes(s, e)
    /\ Waits(t, e) /\ NoMore(e)
    /\ failures'[e] = failures[e] + 1 \/ ~ storeUp
Wasted(s, t, e) == ~ Has(s, e) /\ ~ Has(t, e) /\ OneMore(e) /\ mishaps' = mishaps + 1

Turn(s, t, e) ==
    /\ Waits(s, e) => Waits(t, e) \/ storeUp \/ t.pc = "dead"
    /\ Keeps(s, t, e) \/ Takes(s, t, e) \/ Loses(s, t, e) \/ Fails(s, t, e) \/ Wasted(s, t, e)

Became(s, t) ==
    /\ s.pc # "dead"
    /\ \A e \in Entry : Has(t, e) => Has(s, e) \/ e \in stream
    /\ t.pc = "ack" => t.entry \in applied' \cup poisoned' \cup Bad
    /\ \A e \in Entry : Turn(s, t, e)

OneWorker(c) ==
    \E t \in Process :
      /\ Fit(t) /\ Became(worker[c], t)
      /\ worker' = [worker EXCEPT ![c] = t]
      /\ UNCHANGED <<storeUp, outages>>

Still ==
    /\ UNCHANGED worker
    /\ \A e \in Entry : NoMore(e) \/ (OneMore(e) /\ mishaps' = mishaps + 1)

(* What the commands do to the delivery counts. *)
LEMMA Counts == ASSUME Types PROVE \A e \in Entry : pel[e].deliveries \in Nat
  BY DEF Types, GroupTypeOK, Pending

LEMMA SameCounts == ASSUME Types, UNCHANGED pel PROVE \A e \in Entry : NoMore(e)
  BY Counts DEF NoMore

LEMMA ReadCounts ==
    ASSUME Types, NEW c \in Consumer, NEW entries \in SUBSET Entry,
           XReadGroup(c, entries) \/ XAutoClaim(c, entries)
    PROVE  \A e \in Entry : OneMore(e) /\ (e \notin entries => NoMore(e))
  BY Counts DEF XReadGroup, XAutoClaim, HeldBy, OneMore, NoMore, Types, GroupTypeOK

LEMMA DropCounts ==
    ASSUME Types,
           \A e \in Entry : pel'[e] \in {pel[e], NotPending}
    PROVE  \A e \in Entry : NoMore(e)
<1>1. NotPending.deliveries = 0
  BY DEF NotPending
<1> SUFFICES ASSUME NEW e \in Entry PROVE NoMore(e)
  OBVIOUS
<1>2. pel[e].deliveries \in Nat
  BY Counts
<1>3. \A n \in Nat : 0 <= n /\ n <= n
  OBVIOUS
<1> QED
  BY <1>1, <1>2, <1>3 DEF NoMore

-----------------------------------------------------------------------------
(* Steps of a worker that leave the pending list alone.                    *)

LEMMA EntryInHand ==
    ASSUME Types, NEW c \in Consumer, worker[c].pc \in HasEntry
    PROVE  worker[c].entry \in Entry /\ worker[c].entry \notin worker[c].batch
<1>1. worker[c].entry \in Entry /\ \A e \in worker[c].batch : worker[c].entry < e
  BY DEF Types, Fit, Process
<1>2. \A n \in Entry : ~ (n < n)
  OBVIOUS
<1> QED
  BY <1>1, <1>2

(* A worker changes its place and keeps its entries. *)
LEMMA MoveOn ==
    ASSUME Types, NEW c \in Consumer, NEW t \in Process,
           worker' = [worker EXCEPT ![c] = t], UNCHANGED <<pel, storeUp, outages>>,
           t.entry = worker[c].entry, t.batch = worker[c].batch,
           t.pc \in HasEntry <=> worker[c].pc \in HasEntry,
           t.retried => t.pc \in HasEntry \ {"count"},
           worker[c].pc # "dead",
           t.pc = "ack" => t.entry \in applied' \cup poisoned' \cup Bad,
           worker[c].pc \in {"probe", "wait"} => t.pc \in {"probe", "wait"} \/ storeUp,
           \/ t.retried \/ t.pc \in {"probe", "wait"} =>
                worker[c].retried \/ worker[c].pc \in {"probe", "wait"}
           \/ /\ t.pc \in {"probe", "wait"} /\ worker[c].pc = "handle" /\ ~ worker[c].retried
              /\ failures'[t.entry] = failures[t.entry] + 1 \/ ~ storeUp
    PROVE  OneWorker(c)
<1> DEFINE s == worker[c]
<1>1. Fit(s)
  BY DEF Types
<1>2. Fit(t)
  BY <1>1 DEF Fit
<1>3. \A e \in Entry : NoMore(e)
  BY SameCounts
<1>4. ASSUME NEW e \in Entry PROVE Turn(s, t, e)
  <2>1. Has(t, e) <=> Has(s, e)
    BY DEF Has
  <2>2. Waits(s, e) => Waits(t, e) \/ storeUp
    BY DEF Waits
  <2>3. CASE t.retried \/ t.pc \in {"probe", "wait"} => s.retried \/ s.pc \in {"probe", "wait"}
    <3>1. Owes(t, e) => Owes(s, e)
      BY <2>3 DEF Owes
    <3> QED
      BY <2>1, <2>2, <3>1, <1>3 DEF Turn, Keeps
  <2>4. CASE /\ t.pc \in {"probe", "wait"} /\ s.pc = "handle" /\ ~ s.retried
             /\ failures'[t.entry] = failures[t.entry] + 1 \/ ~ storeUp
    <3>1. CASE e = s.entry
      <4>1. Fails(s, t, e)
        BY <2>4, <3>1, <1>3 DEF Fails, Has, Owes, Waits
      <4> QED
        BY <4>1, <2>2 DEF Turn
    <3>2. CASE e # s.entry
      <4>1. ~ Owes(t, e)
        BY <3>2 DEF Owes
      <4> QED
        BY <4>1, <2>1, <2>2, <1>3 DEF Turn, Keeps
    <3> QED
      BY <3>1, <3>2
  <2> QED
    BY <2>3, <2>4
<1>5. \A e \in Entry : Has(t, e) => Has(s, e)
  BY DEF Has
<1> QED
  BY <1>2, <1>4, <1>5 DEF OneWorker, Became

(* A worker that has nothing in hand goes to another place. *)
LEMMA GoEmpty ==
    ASSUME Types, NEW c \in Consumer, NEW t \in Process,
           worker' = [worker EXCEPT ![c] = t], UNCHANGED <<storeUp, outages>>,
           \A e \in Entry : NoMore(e) \/ (OneMore(e) /\ mishaps' = mishaps + 1),
           worker[c].pc \notin HasEntry \cup {"dead"},
           Fit(t), \A e \in Entry : ~ Has(t, e), t.pc # "ack"
    PROVE  OneWorker(c)
<1> DEFINE s == worker[c]
<1>1. \A e \in Entry : ~ Has(s, e)
  BY DEF Types, Fit, Has
<1>2. \A e \in Entry : ~ Owes(t, e) /\ ~ Waits(s, e)
  BY <1>1 DEF Owes, Waits, Has
<1>3. \A e \in Entry : Turn(s, t, e)
  BY <1>1, <1>2 DEF Turn, Keeps, Wasted
<1> QED
  BY <1>3 DEF OneWorker, Became

(* A worker takes entries of the stream. *)
LEMMA TakeBatch ==
    ASSUME Types, NEW c \in Consumer, NEW entries \in SUBSET Entry, NEW recovering \in BOOLEAN,
           NEW full \in BOOLEAN, entries \subseteq stream,
           worker' = [worker EXCEPT ![c] = Work(recovering, full, entries)],
           UNCHANGED <<storeUp, outages>>,
           XReadGroup(c, entries) \/ XAutoClaim(c, entries),
           worker[c].pc \notin HasEntry \cup {"dead"}
    PROVE  OneWorker(c)
<1> DEFINE s == worker[c]
           t == Work(recovering, full, entries)
<1>1. \A e \in Entry : ~ Has(s, e)
  BY DEF Types, Fit, Has
<1>2. /\ Fit(t) /\ \A e \in Entry : Has(t, e) <=> e \in entries
      /\ ~ t.retried /\ t.pc \in Stage \ {"probe", "wait", "ack", "dead"}
  BY WorkFits
<1> HIDE DEF t
<1>3. \A e \in Entry : ~ Owes(t, e) /\ ~ Waits(s, e)
  BY <1>1, <1>2 DEF Owes, Waits, Has
<1>4. \A e \in Entry : OneMore(e) /\ (e \notin entries => NoMore(e))
  BY ReadCounts
<1>5. \A e \in Entry : Turn(s, t, e)
  BY <1>1, <1>2, <1>3, <1>4 DEF Turn, Keeps, Takes
<1>6. Became(s, t)
  BY <1>1, <1>2, <1>5 DEF Became, Types, Fit, HasEntry
<1>7. t \in Process /\ worker' = [worker EXCEPT ![c] = t]
  BY <1>2 DEF Fit, t
<1> QED
  BY <1>2, <1>6, <1>7 DEF OneWorker

(* A worker is through with its entry: it is acknowledged, a mishap befell *)
(* it, or it failed twice.                                                 *)
LEMMA NextEntry ==
    ASSUME Types, NEW c \in Consumer,
           worker' = [worker EXCEPT ![c] = Onward(worker[c])], UNCHANGED <<storeUp, outages>>,
           worker[c].pc \in HasEntry,
           \A e \in Entry : NoMore(e),
           \/ pel'[worker[c].entry].deliveries = 0
           \/ mishaps' = mishaps + 1
           \/ worker[c].pc = "probe" ,
           worker[c].pc \in {"probe", "wait"} => storeUp
    PROVE  OneWorker(c)
<1> DEFINE s == worker[c]
           t == Onward(s)
<1>1. s \in Process /\ Fit(s) /\ s.entry \in Entry /\ s.entry \notin s.batch
  BY EntryInHand DEF Types
<1>2. s.recovering \in BOOLEAN /\ s.full \in BOOLEAN /\ s.batch \in SUBSET Entry
  BY <1>1 DEF Process
<1>3. /\ Fit(t) /\ \A e \in Entry : Has(t, e) <=> e \in s.batch
      /\ ~ t.retried /\ t.pc \in Stage \ {"probe", "wait", "ack", "dead"}
  BY <1>2, WorkFits DEF Onward
<1>0. worker' = [worker EXCEPT ![c] = t]
  OBVIOUS
<1> HIDE DEF t
<1>4. \A e \in Entry : ~ Owes(t, e)
  BY <1>3 DEF Owes
<1>5. ASSUME NEW e \in Entry PROVE Turn(s, t, e)
  <2>1. Waits(s, e) => storeUp
    BY DEF Waits
  <2>2. CASE e = s.entry
    <3>1. Has(s, e) /\ ~ Has(t, e)
      BY <1>1, <1>3, <2>2 DEF Has
    <3>2. s.pc = "probe" => Owes(s, e)
      BY <2>2 DEF Owes
    <3>3. Loses(s, t, e)
      BY <2>2, <3>1, <3>2 DEF Loses
    <3> QED
      BY <2>1, <3>3 DEF Turn
  <2>3. CASE e # s.entry
    <3>1. Has(t, e) <=> Has(s, e)
      BY <1>3, <2>3 DEF Has
    <3> QED
      BY <2>1, <3>1, <1>4 DEF Turn, Keeps
  <2> QED
    BY <2>2, <2>3
<1>6. Became(s, t)
  BY <1>1, <1>3, <1>5 DEF Became, Has, HasEntry
<1>7. t \in Process
  BY <1>3 DEF Fit
<1> QED
  BY <1>0, <1>3, <1>6, <1>7 DEF OneWorker

LEMMA Dies ==
    ASSUME Types, NEW c \in Consumer, Crash(c)
    PROVE  OneWorker(c)
<1> DEFINE s == worker[c]
           t == At("dead", FALSE)
<1>1. Fit(t) /\ t.pc = "dead" /\ ~ t.retried /\ \A e \in Entry : ~ Has(t, e)
  BY AtFits DEF Stage, HasEntry
<1>2. worker' = [worker EXCEPT ![c] = t] /\ mishaps' = mishaps + 1 /\ s.pc # "dead"
      /\ UNCHANGED <<pel, storeUp, outages>>
  BY DEF Crash, Mishap, Live, redis, store
<1> HIDE DEF t
<1>3. \A e \in Entry : NoMore(e)
  BY <1>2, SameCounts
<1>4. \A e \in Entry : Turn(s, t, e)
  BY <1>1, <1>2, <1>3 DEF Turn, Keeps, Loses, Owes, Has
<1> QED
  BY <1>1, <1>2, <1>4 DEF OneWorker, Became, Fit

-----------------------------------------------------------------------------
(* The actions.                                                            *)

LEMMA EmptySteps ==
    ASSUME Types, NEW c \in Consumer,
           \/ EnsureGroup(c) \/ BeginRecovery(c) \/ EndClaims(c)
           \/ \E entries \in SUBSET stream : ClaimFails(c, entries)
           \/ XInfo(c) \/ (\E k \in Consumer : DelConsumer(c, k)) \/ EndCleanup(c)
    PROVE  OneWorker(c)
<1>1. \A pc \in Stage \ HasEntry, recovering \in BOOLEAN :
        /\ Fit(At(pc, recovering)) /\ At(pc, recovering).pc = pc
        /\ At(pc, recovering) \in Process
        /\ \A e \in Entry : ~ Has(At(pc, recovering), e)
  BY AtFits DEF Fit
<1>2. {"idle", "health", "claim", "cleanup", "delete"} \subseteq Stage \ HasEntry
  BY DEF Stage, HasEntry
<1>3. {"idle", "health", "claim", "cleanup", "delete"} \cap (HasEntry \cup {"dead"}) = {}
  BY DEF HasEntry
<1>4. CASE EnsureGroup(c) \/ BeginRecovery(c) \/ EndCleanup(c)
  <2>1. \A e \in Entry : NoMore(e)
    BY <1>4, SameCounts DEF EnsureGroup, XGroupCreate, BeginRecovery, EndCleanup, redis
  <2>2. PICK pc \in {"idle", "health"}, recovering \in BOOLEAN :
          worker' = [worker EXCEPT ![c] = At(pc, recovering)]
    BY <1>4 DEF EnsureGroup, BeginRecovery, EndCleanup
  <2>3. worker[c].pc \in {"idle", "claim", "cleanup", "delete"} /\ UNCHANGED <<storeUp, outages>>
    BY <1>4 DEF EnsureGroup, BeginRecovery, EndCleanup, store
  <2> QED
    BY <1>1, <1>2, <1>3, <2>1, <2>2, <2>3, GoEmpty
<1>5. CASE EndClaims(c)
  <2>1. XAutoClaim(c, {}) /\ {} \in SUBSET Entry
    BY <1>5 DEF EndClaims
  <2>2. \A e \in Entry : NoMore(e)
    BY <2>1, ReadCounts
  <2>3. worker' = [worker EXCEPT ![c] = At("cleanup", TRUE)] /\ worker[c].pc = "claim"
        /\ UNCHANGED <<storeUp, outages>>
    BY <1>5 DEF EndClaims, store
  <2> QED
    BY <1>1, <1>2, <1>3, <2>2, <2>3, GoEmpty
<1>6. ASSUME NEW entries \in SUBSET stream, ClaimFails(c, entries) PROVE OneWorker(c)
  <2>1. XAutoClaim(c, entries) /\ entries \in SUBSET Entry
    BY <1>6 DEF ClaimFails, Types, GroupTypeOK
  <2>2. \A e \in Entry : OneMore(e)
    BY <2>1, ReadCounts
  <2>3. worker' = [worker EXCEPT ![c] = At("cleanup", TRUE)] /\ worker[c].pc = "claim"
        /\ UNCHANGED <<storeUp, outages>> /\ mishaps' = mishaps + 1
    BY <1>6 DEF ClaimFails, store, Mishap
  <2> QED
    BY <1>1, <1>2, <1>3, <2>2, <2>3, GoEmpty
<1>7. CASE XInfo(c)
  <2> DEFINE t == [At("delete", TRUE) EXCEPT !.victims = Deletable \ {c}]
  <2>1. Deletable \ {c} \in SUBSET Consumer
    BY DEF Deletable, Types, GroupTypeOK
  <2>2. /\ t \in Process /\ t.pc = "delete" /\ t.entry = None /\ t.batch = {}
        /\ t.retried = FALSE
    BY <2>1 DEF At, Process, Stage
  <2>3. worker' = [worker EXCEPT ![c] = t] /\ worker[c].pc = "cleanup"
        /\ UNCHANGED <<pel, storeUp, outages>>
    BY <1>7 DEF XInfo, redis, store
  <2> HIDE DEF t
  <2>4. Fit(t) /\ \A e \in Entry : ~ Has(t, e)
    BY <2>2 DEF Fit, Has, HasEntry
  <2>5. \A e \in Entry : NoMore(e)
    BY <2>3, SameCounts
  <2> QED
    BY <1>3, <2>2, <2>3, <2>4, <2>5, GoEmpty
<1>8. ASSUME NEW k \in Consumer, DelConsumer(c, k) PROVE OneWorker(c)
  <2> DEFINE s == worker[c]
             t == [s EXCEPT !.victims = @ \ {k}]
  <2>1. s \in Process /\ Fit(s) /\ s.pc = "delete"
    BY <1>8 DEF DelConsumer, Types
  <2>2. /\ t \in Process /\ t.pc = "delete" /\ t.entry = s.entry /\ t.batch = s.batch
        /\ t.retried = s.retried
    BY <2>1 DEF Process
  <2>3. worker' = [worker EXCEPT ![c] = t] /\ UNCHANGED <<storeUp, outages>>
    BY <1>8 DEF DelConsumer, store
  <2> HIDE DEF t
  <2>4. Fit(t) /\ \A e \in Entry : ~ Has(t, e)
    BY <2>1, <2>2 DEF Fit, Has, HasEntry
  <2>5. \A e \in Entry : pel'[e] \in {pel[e], NotPending}
    BY <1>8 DEF DelConsumer, XGroupDelConsumer
  <2>6. \A e \in Entry : NoMore(e)
    BY <2>5, DropCounts
  <2> QED
    BY <1>3, <2>1, <2>2, <2>3, <2>4, <2>6, GoEmpty
<1> QED
  BY <1>4, <1>5, <1>6, <1>7, <1>8

LEMMA BatchSteps ==
    ASSUME Types, NEW c \in Consumer,
           \/ \E entries \in SUBSET fresh : ReadNew(c, entries)
           \/ \E entries \in SUBSET stream : ClaimStale(c, entries)
    PROVE  OneWorker(c)
<1>1. worker[c].pc \in {"idle", "claim"} => worker[c].pc \notin HasEntry \cup {"dead"}
  BY DEF HasEntry
<1>2. fresh \subseteq stream /\ stream \subseteq Entry
  BY DEF Types, GroupTypeOK
<1>3. ASSUME NEW entries \in SUBSET fresh, ReadNew(c, entries) PROVE OneWorker(c)
  <2>1. /\ XReadGroup(c, entries) /\ worker[c].pc = "idle" /\ UNCHANGED <<storeUp, outages>>
        /\ worker' = [worker EXCEPT ![c] = Work(FALSE, FALSE, entries)]
    BY <1>3 DEF ReadNew, store
  <2> QED
    BY <1>1, <1>2, <2>1, TakeBatch
<1>4. ASSUME NEW entries \in SUBSET stream, ClaimStale(c, entries) PROVE OneWorker(c)
  <2> DEFINE full == Cardinality(entries) = BatchSize
  <2>1. /\ XAutoClaim(c, entries) /\ worker[c].pc = "claim" /\ UNCHANGED <<storeUp, outages>>
        /\ worker' = [worker EXCEPT ![c] = Work(TRUE, full, entries)]
    BY <1>4 DEF ClaimStale, store
  <2>2. full \in BOOLEAN
    OBVIOUS
  <2> HIDE DEF full
  <2> QED
    BY <1>1, <1>2, <2>1, <2>2, TakeBatch
<1> QED
  BY <1>3, <1>4

LEMMA EntrySteps ==
    ASSUME Types, NEW c \in Consumer, EntryStep(c) \/ HandleFails(c)
    PROVE  OneWorker(c)
<1> DEFINE s == worker[c]
<1>1. s \in Process /\ Fit(s)
  BY DEF Types
<1>2. \A pc \in Stage :
        LET t == [s EXCEPT !.pc = pc] IN
        t \in Process /\ t.pc = pc /\ t.entry = s.entry /\ t.batch = s.batch /\ t.retried = s.retried
  BY <1>1 DEF Process
<1> USE DEF HasEntry
<1>3. CASE StoreHealthy(c)
  <2>1. PICK pc \in {"claim", "cleanup"} : worker' = [worker EXCEPT ![c] = [s EXCEPT !.pc = pc]]
    BY <1>3 DEF StoreHealthy
  <2>2. s.pc = "health" /\ UNCHANGED <<pel, storeUp, outages>>
    BY <1>3 DEF StoreHealthy, redis, store
  <2>3. pc \in Stage
    BY DEF Stage
  <2> DEFINE t == [s EXCEPT !.pc = pc]
  <2>4. t \in Process /\ t.pc = pc /\ t.entry = s.entry /\ t.batch = s.batch /\ t.retried = s.retried
    BY <1>2, <2>3
  <2>5. ~ s.retried
    BY <1>1, <2>2 DEF Fit
  <2>6. worker' = [worker EXCEPT ![c] = t]
    BY <2>1
  <2> HIDE DEF t
  <2> QED
    BY <2>2, <2>4, <2>5, <2>6, MoveOn
<1>4. CASE DeliveryCount(c)
  <2>1. PICK pc \in {"ack", "handle"} :
          /\ worker' = [worker EXCEPT ![c] = [s EXCEPT !.pc = pc]]
          /\ pc = "ack" => s.entry \in poisoned'
    BY <1>4 DEF DeliveryCount
  <2>2. s.pc = "count" /\ UNCHANGED <<pel, storeUp, outages>>
    BY <1>4 DEF DeliveryCount, redis, store
  <2>3. pc \in Stage
    BY DEF Stage
  <2> DEFINE t == [s EXCEPT !.pc = pc]
  <2>4. t \in Process /\ t.pc = pc /\ t.entry = s.entry /\ t.batch = s.batch /\ t.retried = s.retried
    BY <1>2, <2>3
  <2>5. ~ s.retried
    BY <1>1, <2>2 DEF Fit
  <2>6. worker' = [worker EXCEPT ![c] = t]
    BY <2>1
  <2> HIDE DEF t
  <2> QED
    BY <2>1, <2>2, <2>4, <2>5, <2>6, MoveOn
<1>5. CASE Handle(c) \/ HandleFails(c)
  <2>1. PICK pc \in {"ack", "probe"} :
          /\ worker' = [worker EXCEPT ![c] = [s EXCEPT !.pc = pc]]
          /\ pc = "ack" => s.entry \in applied' \cup Bad
          /\ pc = "probe" => failures'[s.entry] = failures[s.entry] + 1 \/ ~ storeUp
    <3>1. CASE Handle(c)
      BY <3>1 DEF Handle, Goto
    <3>2. CASE HandleFails(c)
      <4>1. s.entry \in Entry
        BY <3>2, EntryInHand DEF HandleFails
      <4>2. failures'[s.entry] = failures[s.entry] + 1
        BY <3>2, <4>1 DEF HandleFails, Types
      <4>3. worker' = [worker EXCEPT ![c] = [s EXCEPT !.pc = "probe"]]
        BY <3>2 DEF HandleFails, Goto
      <4> QED
        BY <4>2, <4>3
    <3> QED
      BY <1>5, <3>1, <3>2
  <2>2. s.pc = "handle" /\ UNCHANGED <<pel, storeUp, outages>>
    BY <1>5 DEF Handle, HandleFails, redis
  <2>3. pc \in Stage
    BY DEF Stage
  <2> DEFINE t == [s EXCEPT !.pc = pc]
  <2>4. t \in Process /\ t.pc = pc /\ t.entry = s.entry /\ t.batch = s.batch /\ t.retried = s.retried
    BY <1>2, <2>3
  <2>6. worker' = [worker EXCEPT ![c] = t]
    BY <2>1
  <2> HIDE DEF t
  <2>7. CASE s.retried \/ pc = "ack"
    BY <2>1, <2>2, <2>4, <2>6, <2>7, MoveOn
  <2>8. CASE ~ s.retried /\ pc = "probe"
    BY <2>1, <2>2, <2>4, <2>6, <2>8, MoveOn
  <2> QED
    BY <2>7, <2>8, <2>1
<1>6. CASE Probe(c)
  <2>1. /\ worker' = [worker EXCEPT ![c] = AfterProbe(s)]
        /\ s.pc = "probe" /\ UNCHANGED <<pel, storeUp, outages>>
    BY <1>6 DEF Probe, redis, store
  <2>2. CASE ~ storeUp
    <3> DEFINE t == [s EXCEPT !.pc = "wait"]
    <3>1. "wait" \in Stage
      BY DEF Stage
    <3>2. /\ t \in Process /\ t.pc = "wait" /\ t.entry = s.entry /\ t.batch = s.batch
          /\ t.retried = s.retried
      BY <1>2, <3>1
    <3>3. worker' = [worker EXCEPT ![c] = t]
      BY <2>1, <2>2 DEF AfterProbe
    <3> HIDE DEF t
    <3> QED
      BY <2>1, <3>2, <3>3, MoveOn
  <2>3. CASE storeUp /\ ~ s.retried
    <3> DEFINE t == [s EXCEPT !.pc = "handle", !.retried = TRUE]
    <3>2. /\ t \in Process /\ t.pc = "handle" /\ t.entry = s.entry /\ t.batch = s.batch
          /\ t.retried = TRUE
      BY <1>1 DEF Process, Stage
    <3>3. worker' = [worker EXCEPT ![c] = t]
      BY <2>1, <2>3 DEF AfterProbe
    <3> HIDE DEF t
    <3> QED
      BY <2>1, <2>3, <3>2, <3>3, MoveOn
  <2>4. CASE storeUp /\ s.retried
    <3>1. worker' = [worker EXCEPT ![c] = Onward(s)]
      BY <2>1, <2>4 DEF AfterProbe
    <3>2. \A e \in Entry : NoMore(e)
      BY <2>1, SameCounts
    <3> QED
      BY <2>1, <2>4, <3>1, <3>2, NextEntry
  <2> QED
    BY <2>1, <2>2, <2>3, <2>4 DEF Types
<1>7. CASE WaitUntilHealthy(c)
  <2> DEFINE t == [s EXCEPT !.pc = "handle"]
  <2>1. "handle" \in Stage
    BY DEF Stage
  <2>2. t \in Process /\ t.pc = "handle" /\ t.entry = s.entry /\ t.batch = s.batch
        /\ t.retried = s.retried
    BY <1>2, <2>1
  <2>3. worker' = [worker EXCEPT ![c] = t] /\ s.pc = "wait" /\ storeUp
        /\ UNCHANGED <<pel, storeUp, outages>>
    BY <1>7 DEF WaitUntilHealthy, Goto, redis, store
  <2> HIDE DEF t
  <2> QED
    BY <2>2, <2>3, MoveOn
<1>8. CASE Ack(c)
  <2>1. XAck(s.entry) /\ worker' = [worker EXCEPT ![c] = Onward(s)]
        /\ s.pc = "ack" /\ UNCHANGED <<storeUp, outages>>
    BY <1>8 DEF Ack, store
  <2>2. s.entry \in Entry
    BY <2>1, EntryInHand
  <2>3. pel'[s.entry] = NotPending /\ \A e \in Entry : pel'[e] \in {pel[e], NotPending}
    BY <2>1, <2>2 DEF XAck, Types, GroupTypeOK
  <2>4. \A e \in Entry : NoMore(e)
    BY <2>3, DropCounts
  <2>5. pel'[s.entry].deliveries = 0
    BY <2>3 DEF NotPending
  <2> QED
    BY <2>1, <2>4, <2>5, NextEntry
<1> QED
  BY <1>3, <1>4, <1>5, <1>6, <1>7, <1>8 DEF EntryStep

LEMMA FailedCalls ==
    ASSUME Types, NEW c \in Consumer, DeliveryCountFails(c) \/ AckFails(c)
    PROVE  OneWorker(c)
<1>1. /\ worker' = [worker EXCEPT ![c] = Onward(worker[c])] /\ worker[c].pc \in {"count", "ack"}
      /\ mishaps' = mishaps + 1 /\ UNCHANGED <<pel, storeUp, outages>>
  BY DEF DeliveryCountFails, AckFails, Mishap, redis, store
<1>2. \A e \in Entry : NoMore(e)
  BY <1>1, SameCounts
<1> QED
  BY <1>1, <1>2, NextEntry DEF HasEntry

LEMMA StillSteps ==
    ASSUME Types,
           \/ \E e \in Entry : Add(e) \/ TrimEntry(e) \/ EntryAges(e)
           \/ GroupVanishes \/ StoreDown \/ StoreBack \/ UNCHANGED vars
           \/ \E c \in Consumer : ConsumerSleeps(c)
           \/ \E c \in Consumer, e \in Entry : ClaimDeleted(c, e)
           \/ \E c \in Consumer : \E entries \in SUBSET fresh : ReadFails(c, entries)
    PROVE  Still
<1>1. CASE \/ \E e \in Entry : Add(e) \/ TrimEntry(e)
           \/ StoreDown \/ StoreBack \/ UNCHANGED vars
           \/ \E c \in Consumer : ConsumerSleeps(c)
  <2>1. UNCHANGED <<pel, worker>>
    BY <1>1 DEF Add, XAdd, TrimEntry, Trim, Outside, StoreDown, StoreBack, vars, redis,
                ConsumerSleeps, FallsAsleep
  <2> QED
    BY <2>1, SameCounts DEF Still
<1>2. ASSUME NEW e \in Entry, EntryAges(e) PROVE Still
  <2>1. worker' = worker /\ pel' = [pel EXCEPT ![e].idle = TRUE]
    BY <1>2 DEF EntryAges, Outside, GrowsIdle
  <2>2. \A f \in Entry : pel'[f].deliveries = pel[f].deliveries
    BY <2>1 DEF Types, GroupTypeOK, Pending
  <2> QED
    BY <2>1, <2>2, Counts DEF Still, NoMore
<1>3. CASE GroupVanishes \/ \E c \in Consumer, e \in Entry : ClaimDeleted(c, e)
  <2>1. worker' = worker /\ \A e \in Entry : pel'[e] \in {pel[e], NotPending}
    BY <1>3 DEF GroupVanishes, Outside, LoseGroup, ClaimDeleted, XAutoClaimDeleted,
                Types, GroupTypeOK
  <2> QED
    BY <2>1, DropCounts DEF Still
<1>4. ASSUME NEW c \in Consumer, NEW entries \in SUBSET fresh, ReadFails(c, entries) PROVE Still
  <2>1. worker' = worker /\ XReadGroup(c, entries) /\ mishaps' = mishaps + 1
    BY <1>4 DEF ReadFails, Mishap
  <2>2. entries \in SUBSET Entry
    BY DEF Types, GroupTypeOK
  <2> QED
    BY <2>1, <2>2, ReadCounts DEF Still
<1> QED
  BY <1>1, <1>2, <1>3, <1>4

LEMMA Steps ==
    ASSUME Types, [Next]_vars
    PROVE  Still \/ \E c \in Consumer : OneWorker(c)
<1>1. ASSUME NEW c \in Consumer, WorkerStep(c) PROVE Still \/ OneWorker(c)
  <2>1. CASE \/ \E entries \in SUBSET fresh : ReadFails(c, entries)
             \/ \E e \in Entry : ClaimDeleted(c, e)
    BY <2>1, StillSteps
  <2> QED
    BY <1>1, <2>1, EmptySteps, BatchSteps, EntrySteps, FailedCalls, Dies
    DEF WorkerStep, CleanupStep
<1> QED
  BY <1>1, StillSteps DEF Next

-----------------------------------------------------------------------------
(* The rest of what a step does.                                           *)

Rest ==
    /\ mishaps' \in {mishaps, mishaps + 1} \cap (0 .. MaxMishaps)
    /\ \/ UNCHANGED <<storeUp, outages>>
       \/ storeUp' = TRUE /\ outages' = outages
       \/ storeUp' = FALSE /\ outages' = outages + 1 /\ outages' \in 0 .. MaxOutages
    /\ failures' \in [Entry -> 0 .. MaxFailures]
    /\ \A e \in Entry : failures'[e] >= failures[e]
    /\ applied \subseteq applied' /\ poisoned \subseteq poisoned'
    /\ \A e \in applied' \ applied : e \in added \ Bad
    /\ \A e \in poisoned' \ poisoned : e \in added /\ pel[e].deliveries > PoisonThreshold
    /\ added \subseteq added'

LEMMA RestStep ==
    ASSUME Types, [Next]_vars
    PROVE  Rest
<1>1. \A e \in Entry : failures[e] \in Nat
  BY DEF Types
<1>2. \A n \in Nat : n >= n
  OBVIOUS
<1>3. ASSUME UNCHANGED <<store, poisoned>>, mishaps' = mishaps \/ Mishap, added \subseteq added'
      PROVE  Rest
  <2>1. mishaps' \in {mishaps, mishaps + 1} \cap (0 .. MaxMishaps)
    BY <1>3 DEF Mishap, Types
  <2> QED
    BY <2>1, <1>1, <1>2, <1>3 DEF Rest, store, Types
<1> DEFINE Redis == GroupStep \/ \E e \in Entry : XAck(e)
<1>4. ASSUME Redis PROVE added \subseteq added'
  BY <1>4 DEF GroupStep, XAdd, Trim, GrowsIdle, LoseGroup, XGroupCreate, XReadGroup,
              XAutoClaim, XAutoClaimDeleted, XClaim, XGroupDelConsumer, FallsAsleep, XAck, redis
<1>5. CASE \E e \in Entry : Add(e) \/ TrimEntry(e) \/ EntryAges(e)
  BY <1>3, <1>5 DEF Add, XAdd, TrimEntry, Trim, EntryAges, GrowsIdle, Outside
<1>6. CASE GroupVanishes
  BY <1>3, <1>6 DEF GroupVanishes, LoseGroup, Outside
<1>7. CASE StoreDown \/ StoreBack
  <2>1. UNCHANGED <<added, applied, failures, poisoned, mishaps>>
    BY <1>7 DEF StoreDown, StoreBack, redis
  <2>2. \/ storeUp' = TRUE /\ outages' = outages
        \/ storeUp' = FALSE /\ outages' = outages + 1 /\ outages' \in 0 .. MaxOutages
    BY <1>7 DEF StoreDown, StoreBack, Types
  <2> QED
    BY <2>1, <2>2, <1>1, <1>2 DEF Rest, Types
<1>8. CASE \E c \in Consumer : ConsumerSleeps(c)
  BY <1>3, <1>8 DEF ConsumerSleeps, FallsAsleep
<1>9. ASSUME NEW c \in Consumer,
             \/ EnsureGroup(c) \/ BeginRecovery(c) \/ EndClaims(c)
             \/ \E entries \in SUBSET fresh : ReadNew(c, entries) \/ ReadFails(c, entries)
             \/ \E entries \in SUBSET stream : ClaimStale(c, entries) \/ ClaimFails(c, entries)
             \/ \E e \in Entry : ClaimDeleted(c, e)
      PROVE  Rest
  <2>1. UNCHANGED <<store, poisoned, added>> /\ (mishaps' = mishaps \/ Mishap)
    BY <1>9 DEF EnsureGroup, XGroupCreate, BeginRecovery, EndClaims, ReadNew, ReadFails,
                ClaimStale, ClaimFails, ClaimDeleted, XReadGroup, XAutoClaim,
                XAutoClaimDeleted, redis
  <2> QED
    BY <1>3, <2>1
<1>10. ASSUME NEW c \in Consumer,
              \/ StoreHealthy(c) \/ Probe(c) \/ WaitUntilHealthy(c) \/ Ack(c)
              \/ DeliveryCountFails(c) \/ AckFails(c) \/ CleanupStep(c) \/ Crash(c)
       PROVE  Rest
  <2>1. UNCHANGED <<store, poisoned, added>> /\ (mishaps' = mishaps \/ Mishap)
    BY <1>10 DEF StoreHealthy, Probe, WaitUntilHealthy, Ack, XAck, DeliveryCountFails, AckFails,
                 CleanupStep, XInfo, DelConsumer, XGroupDelConsumer, EndCleanup, Crash, redis
  <2> QED
    BY <1>3, <2>1
<1>11. ASSUME NEW c \in Consumer, DeliveryCount(c) PROVE Rest
  <2> DEFINE e == worker[c].entry
  <2>1. e \in Entry /\ e \in added
    BY <1>11, EntryInHand DEF DeliveryCount, HasEntry, Types, Has
  <2>2. /\ poisoned' \in {poisoned, poisoned \cup {e}}
        /\ poisoned' # poisoned => pel[e].deliveries > PoisonThreshold
        /\ UNCHANGED <<added, store, mishaps>>
    BY <1>11 DEF DeliveryCount, redis
  <2> HIDE DEF e
  <2> QED
    BY <2>1, <2>2, <1>1, <1>2 DEF Rest, store, Types
<1>12. ASSUME NEW c \in Consumer, Handle(c) PROVE Rest
  <2> DEFINE e == worker[c].entry
  <2>1. e \in Entry /\ e \in added
    BY <1>12, EntryInHand DEF Handle, HasEntry, Types, Has
  <2>2. /\ applied' \in {applied, applied \cup ({e} \ Bad)}
        /\ UNCHANGED <<added, storeUp, outages, failures, poisoned, mishaps>>
    BY <1>12 DEF Handle, redis
  <2> HIDE DEF e
  <2> QED
    BY <2>1, <2>2, <1>1, <1>2 DEF Rest, Types
<1>13. ASSUME NEW c \in Consumer, HandleFails(c) PROVE Rest
  <2> DEFINE e == worker[c].entry
  <2>1. e \in Entry
    BY <1>13, EntryInHand DEF HandleFails, HasEntry
  <2>2. /\ failures' = [failures EXCEPT ![e] = failures[e] + 1] /\ failures[e] < MaxFailures
        /\ UNCHANGED <<added, storeUp, outages, applied, poisoned, mishaps>>
    BY <1>13 DEF HandleFails, redis
  <2> HIDE DEF e
  <2>5. failures[e] \in 0 .. MaxFailures
    BY <2>1 DEF Types
  <2>6. \A n \in 0 .. MaxFailures : n < MaxFailures => n + 1 \in 0 .. MaxFailures /\ n + 1 >= n
    OBVIOUS
  <2>3. failures[e] + 1 \in 0 .. MaxFailures /\ failures[e] + 1 >= failures[e]
    BY <2>2, <2>5, <2>6
  <2>4. failures' \in [Entry -> 0 .. MaxFailures] /\ \A f \in Entry : failures'[f] >= failures[f]
    BY <2>1, <2>2, <2>3, <1>1, <1>2 DEF Types
  <2> QED
    BY <2>2, <2>4 DEF Rest, Types
<1>14. CASE UNCHANGED vars
  BY <1>3, <1>14 DEF vars, redis
<1> QED
  BY <1>5, <1>6, <1>7, <1>8, <1>9, <1>10, <1>11, <1>12, <1>13, <1>14
  DEF Next, WorkerStep, EntryStep

(* Every step is a command of the group, or acknowledges a worker's entry. *)
LEMMA StepIsCommand ==
    ASSUME Types, [Next]_vars
    PROVE  GroupStep \/ \E c \in Consumer : Ack(c)
<1> USE DEF GroupStep
<1>0. fresh \subseteq Entry /\ stream \subseteq Entry
  BY DEF Types, GroupTypeOK
<1>1. CASE \E e \in Entry : Add(e) \/ TrimEntry(e) \/ EntryAges(e)
  BY <1>1 DEF Add, TrimEntry, EntryAges
<1>2. CASE GroupVanishes \/ StoreDown \/ StoreBack \/ UNCHANGED vars
  BY <1>2 DEF GroupVanishes, StoreDown, StoreBack, vars
<1>3. CASE \E c \in Consumer : ConsumerSleeps(c) \/ EnsureGroup(c)
  BY <1>3 DEF ConsumerSleeps, EnsureGroup
<1>4. ASSUME NEW c \in Consumer, NEW entries \in SUBSET fresh,
             ReadNew(c, entries) \/ ReadFails(c, entries)
      PROVE  GroupStep
  <2>1. XReadGroup(c, entries) /\ entries \in SUBSET Entry
    BY <1>0, <1>4 DEF ReadNew, ReadFails
  <2> QED
    BY <2>1
<1>5. ASSUME NEW c \in Consumer, NEW entries \in SUBSET stream,
             ClaimStale(c, entries) \/ ClaimFails(c, entries)
      PROVE  GroupStep
  <2>1. XAutoClaim(c, entries) /\ entries \in SUBSET Entry
    BY <1>0, <1>5 DEF ClaimStale, ClaimFails
  <2> QED
    BY <2>1
<1>6. ASSUME NEW c \in Consumer, EndClaims(c) PROVE GroupStep
  <2>1. XAutoClaim(c, {}) /\ {} \in SUBSET Entry
    BY <1>6 DEF EndClaims
  <2> QED
    BY <2>1
<1>7. CASE \E c \in Consumer, e \in Entry : ClaimDeleted(c, e)
  BY <1>7 DEF ClaimDeleted
<1>8. ASSUME NEW c \in Consumer,
             \/ BeginRecovery(c) \/ StoreHealthy(c) \/ DeliveryCount(c) \/ Handle(c)
             \/ HandleFails(c) \/ Probe(c) \/ WaitUntilHealthy(c) \/ DeliveryCountFails(c)
             \/ AckFails(c) \/ XInfo(c) \/ EndCleanup(c) \/ Crash(c)
      PROVE  GroupStep
  <2>1. UNCHANGED redis
    BY <1>8 DEF BeginRecovery, StoreHealthy, DeliveryCount, Handle, HandleFails, Probe,
                WaitUntilHealthy, DeliveryCountFails, AckFails, XInfo, EndCleanup, Crash
  <2> QED
    BY <2>1
<1>9. CASE \E c, k \in Consumer : DelConsumer(c, k)
  BY <1>9 DEF DelConsumer
<1> QED
  BY <1>1, <1>2, <1>3, <1>4, <1>5, <1>6, <1>7, <1>8, <1>9
  DEF Next, WorkerStep, EntryStep, CleanupStep

-----------------------------------------------------------------------------
(* Each part of the invariant is kept by every step.                       *)

LEMMA TypesStep == ASSUME Types, [Next]_vars PROVE Types'
<1>0. Rest
  BY RestStep
<1>1. GroupTypeOK' /\ InOnePlace'
  <2>1. CASE GroupStep
    BY <2>1, GroupTypeStep, OnePlaceStep DEF Types
  <2>2. ASSUME NEW c \in Consumer, Ack(c) PROVE GroupTypeOK' /\ InOnePlace'
    <3>1. worker[c].entry \in Entry /\ XAck(worker[c].entry)
      BY <2>2, EntryInHand DEF Ack, HasEntry
    <3> QED
      BY <3>1, GroupTypeAck, OnePlaceStep DEF Types
  <2> QED
    BY <2>1, <2>2, StepIsCommand
<1>2. storeUp' \in BOOLEAN /\ outages' \in 0 .. MaxOutages /\ (~ storeUp' => outages' > 0)
  <2>1. \A n \in 0 .. MaxOutages : n + 1 > 0
    OBVIOUS
  <2>2. outages \in 0 .. MaxOutages /\ storeUp \in BOOLEAN /\ (~ storeUp => outages > 0)
    BY DEF Types
  <2>3. CASE UNCHANGED <<storeUp, outages>>
    BY <2>2, <2>3
  <2>4. CASE storeUp' = TRUE /\ outages' = outages
    BY <2>2, <2>4
  <2>5. CASE storeUp' = FALSE /\ outages' = outages + 1 /\ outages' \in 0 .. MaxOutages
    <3>1. outages' > 0
      BY <2>1, <2>2, <2>5
    <3> QED
      BY <2>5, <3>1
  <2> QED
    BY <1>0, <2>3, <2>4, <2>5 DEF Rest
<1>3. applied' \subseteq added' \ Bad /\ poisoned' \subseteq added'
  BY <1>0 DEF Rest, Types
<1>4. failures' \in [Entry -> 0 .. MaxFailures] /\ mishaps' \in 0 .. MaxMishaps
  BY <1>0 DEF Rest
<1>5. /\ worker' \in [Consumer -> Process] /\ \A c \in Consumer : Fit(worker'[c])
      /\ \A c \in Consumer, e \in Entry : Has(worker'[c], e) => e \in added'
  <2>1. CASE Still
    BY <1>0, <2>1 DEF Still, Types, Rest
  <2>2. ASSUME NEW c \in Consumer, OneWorker(c)
        PROVE  /\ worker' \in [Consumer -> Process] /\ \A b \in Consumer : Fit(worker'[b])
               /\ \A b \in Consumer, e \in Entry : Has(worker'[b], e) => e \in added'
    <3>1. PICK t \in Process : /\ Fit(t) /\ Became(worker[c], t)
                               /\ worker' = [worker EXCEPT ![c] = t]
      BY <2>2 DEF OneWorker
    <3>2. \A e \in Entry : Has(t, e) => e \in added
      BY <3>1 DEF Became, Types, GroupTypeOK
    <3> QED
      BY <1>0, <3>1, <3>2 DEF Types, Rest
  <2> QED
    BY <2>1, <2>2, Steps
<1> QED
  BY <1>1, <1>2, <1>3, <1>4, <1>5 DEF Types

LEMMA FinishedStep ==
    ASSUME IInv, [Next]_vars, NEW c \in Consumer
    PROVE  Finished(c)'
<1>1. Rest /\ Types /\ Finished(c)
  BY RestStep DEF IInv
<1>2. CASE worker'[c] = worker[c]
  BY <1>1, <1>2 DEF Finished, Rest
<1>3. CASE OneWorker(c)
  BY <1>1, <1>3 DEF OneWorker, Became, Finished, Types
<1>4. worker'[c] = worker[c] \/ OneWorker(c)
  BY Steps, <1>1 DEF Still, OneWorker, Types
<1> QED
  BY <1>2, <1>3, <1>4

LEMMA AnsweredStep == ASSUME IInv, [Next]_vars PROVE Answered'
<1>1. Rest /\ Types /\ Types'
  BY RestStep, TypesStep DEF IInv
<1> SUFFICES ASSUME NEW e \in stream' \ Bad, group', e \notin applied' \cup poisoned'
             PROVE  HasIt(e)'
  BY DEF Answered
<1>2. e \in Entry /\ e \notin applied \cup poisoned
  BY <1>1 DEF Types, GroupTypeOK, Rest
<1>3. e \in stream /\ group => HasIt(e)
  BY <1>2 DEF IInv, Answered
<1>4. CASE GroupStep
  BY <1>1, <1>2, <1>3, <1>4, EntryStays DEF Types
<1>5. ASSUME NEW c \in Consumer, Ack(c) PROVE HasIt(e)'
  <2>1. worker[c].entry \in Entry /\ XAck(worker[c].entry) /\ worker[c].pc = "ack"
    BY <1>1, <1>5, EntryInHand DEF Ack, HasEntry
  <2>2. e # worker[c].entry
    BY <2>1, <1>2 DEF IInv, Finished
  <2>3. HasIt(e)
    BY <2>1, <1>3 DEF XAck
  <2> QED
    BY <1>1, <1>2, <2>1, <2>2, <2>3, AckTakesOne DEF Types
<1> QED
  BY <1>1, <1>4, <1>5, StepIsCommand

-----------------------------------------------------------------------------
(* The accounts.                                                           *)

(* Who owes has; nobody works who is dead. *)
LEMMA HandsOf ==
    ASSUME NEW v \in [Consumer -> Process], \A c \in Consumer : Fit(v[c]), NEW e \in Entry
    PROVE  LET W == {c \in Consumer : v[c].pc # "dead" /\ (v[c].entry = e \/ e \in v[c].batch)}
               K == {c \in Consumer : Owes(v[c], e)}
           IN  /\ W = {c \in Consumer : Has(v[c], e)}
               /\ IsFiniteSet(W) /\ IsFiniteSet(K)
               /\ Cardinality(W) \in Nat /\ Cardinality(K) \in Nat
               /\ Cardinality(K) <= Cardinality(W)
               /\ Cardinality(W) <= Cardinality(Consumer)
<1> DEFINE W == {c \in Consumer : v[c].pc # "dead" /\ (v[c].entry = e \/ e \in v[c].batch)}
           K == {c \in Consumer : Owes(v[c], e)}
<1>1. ASSUME NEW c \in Consumer, v[c].pc = "dead" PROVE ~ Has(v[c], e)
  BY <1>1 DEF Fit, Has, HasEntry
<1>2. W = {c \in Consumer : Has(v[c], e)}
  BY <1>1 DEF Has
<1>3. K \subseteq W
  BY <1>2 DEF Owes, Has
<1>4. W \subseteq Consumer
  OBVIOUS
<1>5. IsFiniteSet(W) /\ Cardinality(W) <= Cardinality(Consumer)
  BY <1>4, FS_Subset
<1>6. IsFiniteSet(K) /\ Cardinality(K) <= Cardinality(W)
  BY <1>3, <1>5, FS_Subset
<1> QED
  BY <1>2, <1>5, <1>6, FS_CardinalityType

LEMMA WorkersOf ==
    ASSUME Types, NEW e \in Entry
    PROVE  /\ Working(e) = {c \in Consumer : Has(worker[c], e)}
           /\ IsFiniteSet(Working(e)) /\ IsFiniteSet(Owing(e))
           /\ Cardinality(Working(e)) \in Nat /\ Cardinality(Owing(e)) \in Nat
           /\ Cardinality(Owing(e)) <= Cardinality(Working(e))
           /\ Cardinality(Working(e)) <= Cardinality(Consumer)
<1>1. worker \in [Consumer -> Process] /\ \A c \in Consumer : Fit(worker[c])
  BY DEF Types
<1> QED
  BY <1>1, HandsOf DEF Working, Works, Live, Owing

LEMMA ChargesOf ==
    ASSUME Types, NEW U \in SUBSET Charges
    PROVE  /\ IsFiniteSet(U) /\ Cardinality(U) \in Nat
           /\ Cardinality(U) <= Cardinality(Consumer) * outages
<1>1. outages \in Nat
  BY DEF Types
<1>2. IsFiniteSet(1 .. outages) /\ Cardinality(1 .. outages) = outages
  BY <1>1, FS_Interval
<1>3. IsFiniteSet(Charges) /\ Cardinality(Charges) = Cardinality(Consumer) * outages
  BY <1>2, FS_Product DEF Charges
<1> QED
  BY <1>3, FS_Subset, FS_CardinalityType

(* One worker more or less. *)
LEMMA OneMoreIn ==
    ASSUME NEW S, IsFiniteSet(S), NEW x, x \notin S
    PROVE  Cardinality(S \cup {x}) = Cardinality(S) + 1
  BY FS_AddElement

LEMMA OneLessIn ==
    ASSUME NEW S, IsFiniteSet(S), NEW x \in S
    PROVE  Cardinality(S \ {x}) = Cardinality(S) - 1
  BY FS_RemoveElement

(* The sum of an account, from the changes of its parts. *)
LEMMA Sum ==
    ASSUME NEW d \in Nat, NEW k \in Nat, NEW w \in Nat, NEW m \in Nat, NEW f \in Nat,
           NEW u \in Nat, d + k <= w + m + f + u,
           NEW d1 \in Nat, NEW k1 \in Nat, NEW w1 \in Nat, NEW m1 \in Nat, NEW f1 \in Nat,
           NEW u1 \in Nat, m1 = m \/ m1 = m + 1, f1 >= f, u1 >= u,
           \/ d1 <= d /\ k1 <= k /\ w1 = w
           \/ d1 <= d + 1 /\ k1 <= k /\ w1 = w + 1
           \/ d1 = 0 /\ k1 <= w1
           \/ d1 <= d /\ k1 <= k /\ w1 = w - 1 /\ m1 = m + 1
           \/ d1 <= d /\ k1 = k - 1 /\ w1 = w - 1
           \/ d1 <= d /\ k1 = k + 1 /\ w1 = w /\ (f1 >= f + 1 \/ u1 = u + 1)
           \/ d1 <= d + 1 /\ k1 <= k /\ w1 = w /\ m1 = m + 1
    PROVE  d1 + k1 <= w1 + m1 + f1 + u1
  OBVIOUS

LEMMA AccountStill ==
    ASSUME IInv, Rest, Types', Still, NEW e \in Entry
    PROVE  Account(e)'
<1>1. Types
  BY DEF IInv
<1>2. PICK U \in SUBSET Charges : Balanced(e, U)
  BY DEF IInv, Account
<1>3. U \in SUBSET Charges' /\ \A c \in Consumer : <<c, outages + 1>> \notin U
  BY <1>1, <1>2 DEF Charges, Rest, Types
<1>4. ~ storeUp' => \A c \in Consumer :
        <<c, outages'>> \in U => Waits(worker'[c], e) \/ worker'[c].pc = "dead"
  BY <1>1, <1>2, <1>3 DEF Balanced, Rest, Still, Live, Types
<1>5. Owing(e)' = Owing(e)
  BY DEF Owing, Still
<1>6. Working(e)' = Working(e)
  BY DEF Working, Works, Live, Still
<1>7. pel'[e].deliveries + Cardinality(Owing(e)')
        <= Cardinality(Working(e)') + mishaps' + failures'[e] + Cardinality(U)
  <2>1. pel[e].deliveries \in Nat /\ pel'[e].deliveries \in Nat
    BY <1>1 DEF Types, GroupTypeOK, Pending
  <2>2. mishaps \in Nat /\ mishaps' \in Nat /\ failures[e] \in Nat /\ failures'[e] \in Nat
    BY <1>1 DEF Types
  <2>3. Cardinality(Owing(e)) \in Nat /\ Cardinality(Working(e)) \in Nat
        /\ Cardinality(U) \in Nat
    BY <1>1, WorkersOf, ChargesOf
  <2>4. mishaps' = mishaps \/ mishaps' = mishaps + 1
    BY DEF Rest
  <2>5. failures'[e] >= failures[e]
    BY DEF Rest
  <2>6. pel'[e].deliveries <= pel[e].deliveries
        \/ (pel'[e].deliveries <= pel[e].deliveries + 1 /\ mishaps' = mishaps + 1)
    BY DEF Still, NoMore, OneMore
  <2>7. pel[e].deliveries + Cardinality(Owing(e))
          <= Cardinality(Working(e)) + mishaps + failures[e] + Cardinality(U)
    BY <1>2 DEF Balanced
  <2> QED
    BY <1>5, <1>6, <2>1, <2>2, <2>3, <2>4, <2>5, <2>6, <2>7
<1> QED
  BY <1>3, <1>4, <1>7 DEF Account, Balanced, Live

LEMMA AccountTurn ==
    ASSUME IInv, Rest, Types', NEW c \in Consumer, OneWorker(c), NEW e \in Entry
    PROVE  Account(e)'
<1>1. Types
  BY DEF IInv
<1>2. PICK U \in SUBSET Charges : Balanced(e, U)
  BY DEF IInv, Account
<1>3. PICK t \in Process : /\ Fit(t) /\ Became(worker[c], t)
                           /\ worker' = [worker EXCEPT ![c] = t]
                           /\ UNCHANGED <<storeUp, outages>>
  BY DEF OneWorker
<1> DEFINE s == worker[c]
           W == Working(e)
           K == Owing(e)
           W1 == {b \in Consumer : Has(worker'[b], e)}
           K1 == {b \in Consumer : Owes(worker'[b], e)}
<1>4. Turn(s, t, e) /\ s.pc # "dead"
  BY <1>3 DEF Became
<1>5. worker'[c] = t /\ \A b \in Consumer \ {c} : worker'[b] = worker[b]
  BY <1>1, <1>3 DEF Types
<1>6. /\ W = {b \in Consumer : Has(worker[b], e)} /\ K = {b \in Consumer : Owes(worker[b], e)}
      /\ IsFiniteSet(W) /\ IsFiniteSet(K) /\ Cardinality(W) \in Nat /\ Cardinality(K) \in Nat
  BY <1>1, WorkersOf DEF Owing
<1>7. /\ Working(e)' = W1 /\ Owing(e)' = K1
      /\ IsFiniteSet(W1) /\ IsFiniteSet(K1) /\ Cardinality(W1) \in Nat /\ Cardinality(K1) \in Nat
      /\ Cardinality(K1) <= Cardinality(W1)
  <2>1. worker' \in [Consumer -> Process] /\ \A b \in Consumer : Fit(worker'[b])
    BY DEF Types
  <2> QED
    BY <2>1, HandsOf DEF Working, Works, Live, Owing
<1>8. U \in SUBSET Charges' /\ IsFiniteSet(U) /\ Cardinality(U) \in Nat
  BY <1>1, <1>3, ChargesOf DEF Charges
<1>9. pel[e].deliveries \in Nat /\ pel'[e].deliveries \in Nat
      /\ mishaps \in Nat /\ mishaps' \in Nat /\ failures[e] \in Nat /\ failures'[e] \in Nat
      /\ (mishaps' = mishaps \/ mishaps' = mishaps + 1) /\ failures'[e] >= failures[e]
  BY <1>1 DEF Types, GroupTypeOK, Pending, Rest
<1>10. pel[e].deliveries + Cardinality(K)
         <= Cardinality(W) + mishaps + failures[e] + Cardinality(U)
  BY <1>2 DEF Balanced
<1>11. ~ storeUp' => \A b \in Consumer :
         <<b, outages'>> \in U => Waits(worker'[b], e) \/ worker'[b].pc = "dead"
  BY <1>2, <1>3, <1>4, <1>5 DEF Balanced, Turn, Live
<1> HIDE DEF s, W, K, W1, K1
<1>12. ASSUME NEW V \in SUBSET Charges', Cardinality(V) \in Nat,
              Cardinality(V) >= Cardinality(U),
              ~ storeUp' => \A b \in Consumer :
                <<b, outages'>> \in V => Waits(worker'[b], e) \/ worker'[b].pc = "dead",
              LET d == pel[e].deliveries
                  d1 == pel'[e].deliveries
                  k == Cardinality(K)
                  k1 == Cardinality(K1)
                  w == Cardinality(W)
                  w1 == Cardinality(W1)
                  m == mishaps
                  m1 == mishaps'
              IN
              \/ d1 <= d /\ k1 <= k /\ w1 = w
              \/ d1 <= d + 1 /\ k1 <= k /\ w1 = w + 1
              \/ d1 = 0 /\ k1 <= w1
              \/ d1 <= d /\ k1 <= k /\ w1 = w - 1 /\ m1 = m + 1
              \/ d1 <= d /\ k1 = k - 1 /\ w1 = w - 1
              \/ /\ d1 <= d /\ k1 = k + 1 /\ w1 = w
                 /\ failures'[e] >= failures[e] + 1 \/ Cardinality(V) = Cardinality(U) + 1
              \/ d1 <= d + 1 /\ k1 <= k /\ w1 = w /\ m1 = m + 1
       PROVE  Account(e)'
  <2>1. pel'[e].deliveries + Cardinality(K1)
          <= Cardinality(W1) + mishaps' + failures'[e] + Cardinality(V)
    BY <1>6, <1>7, <1>8, <1>9, <1>10, <1>12, Sum
  <2> QED
    BY <1>7, <1>12, <2>1 DEF Account, Balanced, Live
<1>13. CASE Keeps(s, t, e)
  <2>1. W1 = W
    BY <1>5, <1>6, <1>13 DEF Keeps, W1, s
  <2>2. K1 \subseteq K
    BY <1>5, <1>6, <1>13 DEF Keeps, K1, s
  <2>3. Cardinality(K1) <= Cardinality(K)
    BY <1>6, <2>2, FS_Subset
  <2>4. pel'[e].deliveries <= pel[e].deliveries
    BY <1>13 DEF Keeps, NoMore
  <2> QED
    BY <1>8, <1>11, <1>12, <2>1, <2>3, <2>4
<1>14. CASE Takes(s, t, e)
  <2>1. W1 = W \cup {c} /\ c \notin W
    BY <1>5, <1>6, <1>14 DEF Takes, W1, s
  <2>2. K1 \subseteq K
    BY <1>5, <1>6, <1>14 DEF Takes, K1, s
  <2>3. Cardinality(K1) <= Cardinality(K)
    BY <1>6, <2>2, FS_Subset
  <2>4. Cardinality(W1) = Cardinality(W) + 1
    BY <1>6, <2>1, OneMoreIn
  <2>5. pel'[e].deliveries <= pel[e].deliveries + 1
    BY <1>14 DEF Takes, OneMore
  <2> QED
    BY <1>8, <1>11, <1>12, <2>3, <2>4, <2>5
<1>15. CASE Loses(s, t, e)
  <2>1. W1 = W \ {c} /\ c \in W
    BY <1>5, <1>6, <1>15 DEF Loses, W1, s
  <2>2. K1 = K \ {c}
    <3>1. ~ Owes(t, e)
      BY <1>15 DEF Loses, Owes, Has
    <3> QED
      BY <3>1, <1>5, <1>6 DEF K1
  <2>3. Cardinality(W1) = Cardinality(W) - 1
    BY <1>6, <2>1, OneLessIn
  <2>4. Cardinality(K1) <= Cardinality(K)
    BY <1>6, <2>2, FS_Subset
  <2>5. CASE pel'[e].deliveries = 0
    BY <1>7, <1>8, <1>11, <1>12, <2>5
  <2>6. CASE NoMore(e) /\ mishaps' = mishaps + 1
    BY <1>8, <1>11, <1>12, <2>3, <2>4, <2>6 DEF NoMore
  <2>7. CASE NoMore(e) /\ Owes(s, e)
    <3>1. c \in K
      BY <1>6, <2>7 DEF s
    <3>2. Cardinality(K1) = Cardinality(K) - 1
      BY <1>6, <2>2, <3>1, OneLessIn
    <3> QED
      BY <1>8, <1>11, <1>12, <2>3, <2>7, <3>2 DEF NoMore
  <2> QED
    BY <1>15, <2>5, <2>6, <2>7 DEF Loses
<1>16. CASE Fails(s, t, e)
  <2>1. W1 = W
    <3>1. Has(t, e)
      BY <1>16 DEF Fails, Waits, Has
    <3> QED
      BY <3>1, <1>5, <1>6, <1>16 DEF Fails, W1, s
  <2>2. K1 = K \cup {c} /\ c \notin K
    <3>1. Owes(t, e)
      BY <1>16 DEF Fails, Waits, Owes
    <3> QED
      BY <3>1, <1>5, <1>6, <1>16 DEF Fails, K1, s
  <2>3. Cardinality(K1) = Cardinality(K) + 1
    BY <1>6, <2>2, OneMoreIn
  <2>4. pel'[e].deliveries <= pel[e].deliveries
    BY <1>16 DEF Fails, NoMore
  <2>5. CASE failures'[e] = failures[e] + 1
    <3>1. failures'[e] >= failures[e] + 1
      BY <1>9, <2>5
    <3> QED
      BY <1>8, <1>11, <1>12, <2>1, <2>3, <2>4, <3>1
  <2>6. CASE ~ storeUp
    <3> DEFINE x == <<c, outages>>
               V == U \cup {x}
    <3>1. x \notin U
      <4>1. ~ Waits(s, e)
        BY <1>16 DEF Fails, Waits, Owes
      <4> QED
        BY <4>1, <1>2, <1>4, <2>6 DEF Balanced, Live, s
    <3>2. outages \in 1 .. outages
      BY <1>1, <2>6 DEF Types
    <3>3. V \in SUBSET Charges'
      BY <1>3, <1>8, <3>2 DEF Charges
    <3>4. Cardinality(V) = Cardinality(U) + 1
      BY <1>8, <3>1, OneMoreIn
    <3>5. Cardinality(V) \in Nat /\ Cardinality(V) >= Cardinality(U)
      BY <1>8, <3>4
    <3>6. ~ storeUp' => \A b \in Consumer :
            <<b, outages'>> \in V => Waits(worker'[b], e) \/ worker'[b].pc = "dead"
      BY <1>5, <1>11, <1>16 DEF Fails
    <3> HIDE DEF V
    <3> QED
      BY <1>12, <2>1, <2>3, <2>4, <3>3, <3>4, <3>5, <3>6
  <2> QED
    BY <1>16, <2>5, <2>6 DEF Fails
<1>17. CASE Wasted(s, t, e)
  <2>1. W1 = W
    BY <1>5, <1>6, <1>17 DEF Wasted, W1, s
  <2>2. K1 \subseteq K
    <3>1. ~ Owes(t, e)
      BY <1>17 DEF Wasted, Owes, Has
    <3> QED
      BY <3>1, <1>5, <1>6 DEF K1
  <2>3. Cardinality(K1) <= Cardinality(K)
    BY <1>6, <2>2, FS_Subset
  <2>4. pel'[e].deliveries <= pel[e].deliveries + 1 /\ mishaps' = mishaps + 1
    BY <1>17 DEF Wasted, OneMore
  <2> QED
    BY <1>8, <1>11, <1>12, <2>1, <2>3, <2>4
<1> QED
  BY <1>4, <1>13, <1>14, <1>15, <1>16, <1>17 DEF Turn

(* More workers, mishaps, failures and outages only raise the budget. *)
LEMMA BudgetGrows ==
    ASSUME NEW n \in Nat, NEW o \in Nat, NEW o1 \in Nat, o1 = o \/ o1 = o + 1
    PROVE  n * o \in Nat /\ n * o1 \in Nat /\ n * o1 >= n * o
<1>1. n * (o + 1) = n * o + n
  OBVIOUS
<1>2. n * o \in Nat
  OBVIOUS
<1> QED
  BY <1>1, <1>2

LEMMA PoisonStep ==
    ASSUME IInv, Rest, Types', NEW e \in poisoned'
    PROVE  PoisonThreshold < Budget(e, Cardinality(Consumer))'
<1> DEFINE N == Cardinality(Consumer)
<1>1. Types /\ N \in Nat
  BY FS_CardinalityType DEF IInv
<1>2. e \in Entry
  BY DEF Types, GroupTypeOK
<1>3. /\ mishaps \in Nat /\ failures[e] \in Nat /\ outages \in Nat
      /\ mishaps' \in Nat /\ failures'[e] \in Nat /\ outages' \in Nat
  BY <1>1, <1>2 DEF Types
<1>4. /\ mishaps' = mishaps \/ mishaps' = mishaps + 1
      /\ failures'[e] >= failures[e]
      /\ outages' = outages \/ outages' = outages + 1
  BY <1>2 DEF Rest
<1> HIDE DEF N
<1>5. N * outages \in Nat /\ N * outages' \in Nat /\ N * outages' >= N * outages
  BY <1>1, <1>3, <1>4, BudgetGrows
<1>6. PoisonThreshold < N + mishaps + failures[e] + N * outages
  <2>1. CASE e \in poisoned
    BY <2>1 DEF IInv, Budget, N
  <2>2. CASE e \notin poisoned
    <3>1. pel[e].deliveries > PoisonThreshold /\ pel[e].deliveries \in Nat
      BY <2>2, <1>1, <1>2, Counts DEF Rest
    <3>2. PICK U \in SUBSET Charges : Balanced(e, U)
      BY <1>2 DEF IInv, Account
    <3>3. Cardinality(U) \in Nat /\ Cardinality(U) <= N * outages
      BY <1>1, ChargesOf DEF N
    <3>4. /\ Cardinality(Working(e)) \in Nat /\ Cardinality(Owing(e)) \in Nat
          /\ Cardinality(Working(e)) <= N
      BY <1>1, <1>2, WorkersOf DEF N
    <3>5. pel[e].deliveries + Cardinality(Owing(e))
            <= Cardinality(Working(e)) + mishaps + failures[e] + Cardinality(U)
      BY <3>2 DEF Balanced
    <3> QED
      BY <1>1, <1>3, <1>5, <3>1, <3>3, <3>4, <3>5
  <2> QED
    BY <2>1, <2>2
<1>7. PoisonThreshold < N + mishaps' + failures'[e] + N * outages'
  BY <1>1, <1>3, <1>4, <1>5, <1>6
<1> QED
  BY <1>7 DEF Budget, N

-----------------------------------------------------------------------------
LEMMA InitInv == Init => IInv
<1> SUFFICES ASSUME Init PROVE IInv
  OBVIOUS
<1>1. GroupTypeOK /\ InOnePlace
  BY GroupTypeInit, OnePlaceInit DEF Init
<1>2. Fit(At("idle", FALSE)) /\ At("idle", FALSE).pc = "idle"
      /\ \A e \in Entry : ~ Has(At("idle", FALSE), e)
  BY AtFits DEF Stage, HasEntry
<1>3. \A c \in Consumer : worker[c] = At("idle", FALSE)
  BY DEF Init
<1>4. Types
  <2>1. worker \in [Consumer -> Process]
    BY <1>2 DEF Init, Fit
  <2>2. storeUp = TRUE /\ outages \in 0 .. MaxOutages /\ mishaps \in 0 .. MaxMishaps
        /\ failures \in [Entry -> 0 .. MaxFailures] /\ applied = {} /\ poisoned = {}
    BY DEF Init
  <2> QED
    BY <1>1, <1>2, <1>3, <2>1, <2>2 DEF Types
<1>5. \A c \in Consumer : Finished(c)
  BY <1>2, <1>3 DEF Finished
<1>6. Answered
  BY DEF Answered, Init, GroupInit
<1>7. ASSUME NEW e \in Entry PROVE Account(e)
  <2>1. pel[e].deliveries = 0
    BY DEF Init, GroupInit, NotPending
  <2>2. Cardinality(Owing(e)) = 0
    <3>1. Owing(e) = {}
      BY <1>2, <1>3 DEF Owing, Owes, Has
    <3> QED
      BY <3>1, FS_EmptySet
  <2>3. Cardinality(Working(e)) \in Nat
    BY <1>4, WorkersOf
  <2>4. mishaps \in Nat /\ failures[e] \in Nat
    BY DEF Init
  <2>5. {} \in SUBSET Charges /\ Cardinality({}) = 0
    BY FS_EmptySet
  <2>6. pel[e].deliveries + Cardinality(Owing(e))
          <= Cardinality(Working(e)) + mishaps + failures[e] + Cardinality({})
    BY <2>1, <2>2, <2>3, <2>4, <2>5
  <2>7. Balanced(e, {})
    BY <2>6 DEF Balanced, Init
  <2> QED
    BY <2>5, <2>7 DEF Account
<1> QED
  BY <1>4, <1>5, <1>6, <1>7 DEF IInv, Init

(* The inductive invariant of the status workers (status.Worker). *)
THEOREM Invariance == Spec => []IInv
<1>1. IInv /\ [Next]_vars => IInv'
  <2> SUFFICES ASSUME IInv, [Next]_vars PROVE IInv'
    OBVIOUS
  <2>1. Types /\ Types' /\ Rest
    BY TypesStep, RestStep DEF IInv
  <2>2. \A c \in Consumer : Finished(c)'
    BY FinishedStep
  <2>3. Answered'
    BY AnsweredStep
  <2>4. \A e \in Entry : Account(e)'
    BY <2>1, Steps, AccountStill, AccountTurn
  <2>5. \A e \in poisoned' : PoisonThreshold < Budget(e, Cardinality(Consumer))'
    BY <2>1, PoisonStep
  <2> QED
    BY <2>1, <2>2, <2>3, <2>4, <2>5 DEF IInv
<1> QED
  BY <1>1, InitInv, PTL DEF Spec

(* A status event is acknowledged only once it was applied or given up, so *)
(* none is lost between the stream and the store (PRD 4.3).                *)
THEOREM StatusesAreKept == Spec => []NoStatusLost
<1>1. IInv => NoStatusLost
  <2> SUFFICES ASSUME IInv PROVE NoStatusLost
    OBVIOUS
  <2>1. TypeOK
    BY DEF IInv, Types, Fit, HasEntry, TypeOK
  <2> QED
    BY <2>1 DEF IInv, Answered, HasIt, NoStatusLost
<1> QED
  BY <1>1, Invariance, PTL

(* An entry is given up for its own faults only: its deliveries are to     *)
(* workers that have it, or paid by a mishap, a failure of its own, or an  *)
(* outage that its worker was not charged for before.                      *)
THEOREM PoisonClockIsFair == Spec => []PoisonClock
<1>1. IInv => PoisonClock
  <2> SUFFICES ASSUME IInv, NEW e \in Entry
               PROVE  pel[e].deliveries <= Budget(e, Cardinality(Working(e)))
    BY DEF IInv, PoisonClock
  <2>1. Types /\ pel[e].deliveries \in Nat
    BY Counts DEF IInv
  <2>2. PICK U \in SUBSET Charges : Balanced(e, U)
    BY DEF IInv, Account
  <2>3. Cardinality(U) \in Nat /\ Cardinality(U) <= Cardinality(Consumer) * outages
    BY <2>1, ChargesOf
  <2>4. Cardinality(Working(e)) \in Nat /\ Cardinality(Owing(e)) \in Nat
    BY <2>1, WorkersOf
  <2>5. mishaps \in Nat /\ failures[e] \in Nat /\ Cardinality(Consumer) * outages \in Nat
    BY <2>1, FS_CardinalityType, BudgetGrows DEF Types
  <2>6. pel[e].deliveries + Cardinality(Owing(e))
          <= Cardinality(Working(e)) + mishaps + failures[e] + Cardinality(U)
    BY <2>2 DEF Balanced
  <2>7. pel[e].deliveries
          <= Cardinality(Working(e)) + mishaps + failures[e] + Cardinality(Consumer) * outages
    BY <2>1, <2>3, <2>4, <2>5, <2>6
  <2> QED
    BY <2>7 DEF Budget
<1> QED
  BY <1>1, Invariance, PTL
=============================================================================
