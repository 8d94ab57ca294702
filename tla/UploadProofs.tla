---------------------------- MODULE UploadProofs ----------------------------
(***************************************************************************)
(* Proofs about Upload, for every set of intents, contents, workers and    *)
(* requests and every value of the limits.  Three invariants, each on top  *)
(* of the one before: the rows and the local states (RowsInv), the buckets *)
(* (BucketsInv), and the answers of the requests (CallsInv).               *)
(***************************************************************************)
EXTENDS Upload, TLAPS

(* A row that is not given up has a retry left, and only a linked one has  *)
(* a document.                                                             *)
RowOK(row) ==
    /\ row.status # "FAILED" => row.retries < MaxRetries
    /\ row.status # "HASHED" => row.hash = None

(* Who works on an intent knows which. *)
JobOK(w) == worker[w].pc \notin {"pass", "dead"} => worker[w].intent \in Intent
CallOK(c) ==
    call[c].pc # "new" =>
      call[c].intent \in Intent /\ intents[call[c].intent].status # "ABSENT"

RowsInv ==
    /\ TypeOK
    /\ \A i \in Intent : RowOK(intents[i])
    /\ \A w \in Worker : JobOK(w)
    /\ \A c \in Call : CallOK(c)

USE ConfigAssumption

-----------------------------------------------------------------------------
(* One statement changes one row, and never makes it absent again.         *)
OneRow(i) ==
    \E row \in IntentRow :
      /\ intents' = [intents EXCEPT ![i] = row]
      /\ RowOK(row) /\ row.status # "ABSENT"

LEMMA FreedRowType ==
    ASSUME NEW row \in IntentRow, row.status # "HASHED", RowOK(row), NEW n \in 0 .. MaxRetries,
           NEW status \in IntentState, status # "HASHED", status # "FAILED" => n < MaxRetries
    PROVE  FreedRow(row, status, n) \in IntentRow /\ RowOK(FreedRow(row, status, n))
BY DEF FreedRow, IntentRow, IntentState, RowOK

LEMMA ChargedType ==
    ASSUME NEW row \in IntentRow, row.status = "HASHING", RowOK(row)
    PROVE  /\ Charged(row) \in IntentRow
           /\ RowOK(Charged(row))
           /\ Charged(row).status \in {"UPLOADED", "FAILED"}
<1>1. row.retries \in 0 .. MaxRetries /\ row.retries < MaxRetries
  BY DEF IntentRow, RowOK
<1>2. row.retries + 1 \in 0 .. MaxRetries
  BY <1>1
<1>3. CASE row.retries + 1 >= MaxRetries
  <2>1. Charged(row) = FreedRow(row, "FAILED", row.retries + 1)
    BY <1>3 DEF Charged
  <2>2. FreedRow(row, "FAILED", row.retries + 1) \in IntentRow
        /\ RowOK(FreedRow(row, "FAILED", row.retries + 1))
    BY <1>2, FreedRowType DEF IntentState
  <2> QED
    BY <2>1, <2>2 DEF FreedRow
<1>4. CASE ~ (row.retries + 1 >= MaxRetries)
  <2>1. Charged(row) = FreedRow(row, "UPLOADED", row.retries + 1)
    BY <1>4 DEF Charged
  <2>2. row.retries + 1 < MaxRetries
    BY <1>1, <1>4
  <2>3. FreedRow(row, "UPLOADED", row.retries + 1) \in IntentRow
        /\ RowOK(FreedRow(row, "UPLOADED", row.retries + 1))
    BY <1>2, <2>2, FreedRowType DEF IntentState
  <2> QED
    BY <2>1, <2>3 DEF FreedRow
<1> QED
  BY <1>3, <1>4

LEMMA OneRowKeeps ==
    ASSUME RowsInv, NEW i \in Intent, OneRow(i)
    PROVE  /\ intents' \in [Intent -> IntentRow]
           /\ \A j \in Intent : RowOK(intents[j])'
           /\ \A j \in Intent : intents[j].status # "ABSENT" => intents'[j].status # "ABSENT"
<1>1. PICK row \in IntentRow : intents' = [intents EXCEPT ![i] = row]
                               /\ RowOK(row) /\ row.status # "ABSENT"
  BY DEF OneRow
<1>2. \A j \in Intent : intents'[j] = IF j = i THEN row ELSE intents[j]
  BY <1>1 DEF RowsInv, TypeOK
<1> QED
  BY <1>1, <1>2 DEF RowsInv, TypeOK, RowOK

(* What every change of the table leaves of the invariant to show. *)
Tables ==
    /\ intents' \in [Intent -> IntentRow]
    /\ \A i \in Intent : RowOK(intents[i])'
    /\ \A i \in Intent : intents[i].status # "ABSENT" => intents'[i].status # "ABSENT"

LEMMA SameTable == ASSUME RowsInv, UNCHANGED intents PROVE Tables
BY DEF RowsInv, TypeOK, Tables, RowOK

LEMMA OneRowTables == ASSUME RowsInv, NEW i \in Intent, OneRow(i) PROVE Tables
BY OneRowKeeps DEF Tables

(* The same for the local states.                                          *)
Workers == worker' \in [Worker -> HashWorker] /\ \A w \in Worker : JobOK(w)'
Calls ==
    /\ call' \in [Call -> Request]
    /\ \A c \in Call : call'[c].pc # "new" =>
         call'[c].intent \in Intent /\ intents[call'[c].intent].status # "ABSENT"
Others ==
    /\ clock' \in Time
    /\ documents' \subseteq Hash
    /\ temp' \in [Intent -> Hash \cup {None}]
    /\ perm' \in [Hash -> Hash \cup {None}]
    /\ puts' \in [Intent -> SUBSET Hash]

LEMMA WorkerStep ==
    ASSUME RowsInv, NEW w \in Worker, NEW s \in HashWorker,
           s.pc \notin {"pass", "dead"} => s.intent \in Intent,
           worker' = [worker EXCEPT ![w] = s]
    PROVE  Workers
BY DEF RowsInv, TypeOK, Workers, JobOK

LEMMA CallChange ==
    ASSUME RowsInv, NEW c \in Call, NEW r \in Request,
           r.intent \in Intent, intents[r.intent].status # "ABSENT",
           call' = [call EXCEPT ![c] = r]
    PROVE  Calls
BY DEF RowsInv, TypeOK, Calls, CallOK

LEMMA SameWorkers == ASSUME RowsInv, UNCHANGED worker PROVE Workers
BY DEF RowsInv, TypeOK, Workers, JobOK
LEMMA SameCalls == ASSUME RowsInv, UNCHANGED call PROVE Calls
BY DEF RowsInv, TypeOK, Calls, CallOK

LEMMA Parts == ASSUME RowsInv, Tables, Workers, Calls, Others PROVE RowsInv'
BY DEF RowsInv, TypeOK, Tables, Workers, Calls, Others, CallOK

-----------------------------------------------------------------------------
LEMMA RowsInit == Init => RowsInv
<1> SUFFICES ASSUME Init PROVE RowsInv
  OBVIOUS
<1>1. TypeOK
  <2>1. clock \in Time /\ documents \subseteq Hash
        /\ temp \in [Intent -> Hash \cup {None}] /\ perm \in [Hash -> Hash \cup {None}]
        /\ puts \in [Intent -> SUBSET Hash]
    BY DEF Init, Time
  <2>2. intents \in [Intent -> IntentRow]
    <3>1. 0 \in 0 .. (MaxClock + Window) /\ 0 \in 0 .. MaxRetries
      OBVIOUS
    <3> QED
      BY <3>1 DEF Init, IntentRow, IntentState
  <2>3. worker \in [Worker -> HashWorker]
    BY DEF Init, Idle, HashWorker, Stage
  <2>4. call \in [Call -> Request]
    BY DEF Init, Request, CallStage, Answer, Time
  <2> QED
    BY <2>1, <2>2, <2>3, <2>4 DEF TypeOK
<1>2. \A i \in Intent : RowOK(intents[i])
  BY DEF Init, RowOK
<1>3. (\A w \in Worker : JobOK(w)) /\ (\A c \in Call : CallOK(c))
  BY DEF Init, JobOK, CallOK, Idle
<1> QED
  BY <1>1, <1>2, <1>3 DEF RowsInv

(* The calls of clients and the confirm gate. *)
LEMMA RequestTables ==
    ASSUME RowsInv, NEW c \in Call, CallStep(c) \/ CallFails(c)
    PROVE  Tables
<1> DEFINE i == call[c].intent
<1>1. CASE UNCHANGED intents
  BY <1>1, SameTable
<1>2. CASE intents' # intents
  <2>1. call[c].pc \in {"gate", "expire"}
    BY <1>2 DEF CallStep, CallFails, UpdateIntentToUploaded, GetIntent, UpdateIntentToExpired,
                AnswerStatus, table
  <2>2. i \in Intent
    BY <2>1 DEF RowsInv, CallOK
  <2>3. intents[i].status = "WAITING"
        /\ \E status \in {"UPLOADED", "EXPIRED"} : intents' = [intents EXCEPT ![i].status = status]
    BY <1>2 DEF CallStep, CallFails, UpdateIntentToUploaded, GetIntent, UpdateIntentToExpired,
                AnswerStatus, table, Expires
  <2>4. PICK status \in {"UPLOADED", "EXPIRED"} : intents' = [intents EXCEPT ![i].status = status]
    BY <2>3
  <2>5. [intents[i] EXCEPT !.status = status] \in IntentRow
        /\ RowOK([intents[i] EXCEPT !.status = status])
    BY <2>2, <2>3 DEF RowsInv, TypeOK, IntentRow, IntentState, RowOK
  <2>6. intents' = [intents EXCEPT ![i] = [intents[i] EXCEPT !.status = status]]
    BY <2>4
  <2>7. [intents[i] EXCEPT !.status = status].status # "ABSENT"
    BY <2>2 DEF RowsInv, TypeOK, IntentRow
  <2>8. OneRow(i)
    BY <2>5, <2>6, <2>7 DEF OneRow
  <2> QED
    BY <2>2, <2>8, OneRowTables
<1> QED
  BY <1>1, <1>2

LEMMA RequestCalls ==
    ASSUME RowsInv, NEW c \in Call, CallStep(c) \/ CallFails(c)
    PROVE  Calls
<1> DEFINE r == call[c]
<1>1. r.pc # "new"
  BY DEF CallStep, CallFails, UpdateIntentToUploaded, GetIntent, UpdateIntentToExpired, AnswerStatus
<1>2. r.intent \in Intent /\ intents[r.intent].status # "ABSENT" /\ r \in Request
  BY <1>1 DEF RowsInv, TypeOK, CallOK
<1>3. \A pc \in CallStage : Step(r, pc) \in Request
  BY <1>2 DEF Step, Request, Answer
<1>4. \A answer \in Answer : Reply(r, answer) \in Request
  BY <1>2 DEF Reply, Request, CallStage
<1>5. PICK s \in Request : s.intent = r.intent /\ call' = [call EXCEPT ![c] = s]
  <2>1. CASE UpdateIntentToUploaded(c)
    BY <1>3, <1>4, <2>1 DEF UpdateIntentToUploaded, CallStage, Answer, Step, Reply
  <2>2. CASE GetIntent(c)
    <3> DEFINE status == intents[call[c].intent].status
    <3>1. CASE status = "EXPIRED"
      BY <1>4, <2>2, <3>1 DEF GetIntent, Answer, Accepted, Reply
    <3>2. CASE status \in Accepted
      BY <1>4, <2>2, <3>2 DEF GetIntent, Answer, Accepted, Reply
    <3>3. CASE status = "FAILED"
      BY <1>4, <2>2, <3>3 DEF GetIntent, Answer, Accepted, Reply
    <3>4. CASE status \notin Accepted \cup {"EXPIRED", "FAILED"}
      BY <1>3, <2>2, <3>4 DEF GetIntent, CallStage, Accepted, Step
    <3> QED
      BY <3>1, <3>2, <3>3, <3>4
  <2>3. CASE UpdateIntentToExpired(c)
    BY <1>3, <1>4, <2>3 DEF UpdateIntentToExpired, CallStage, Answer, Step, Reply
  <2>4. CASE AnswerStatus(c)
    <3> DEFINE a == IF r.answer = "WAITING" /\ WindowOver(r.intent, clock) THEN "EXPIRED" ELSE r.answer
    <3>1. [pc |-> "done", intent |-> r.intent, now |-> clock, answer |-> a] \in Request
      BY <1>2 DEF Request, CallStage, Answer, RowsInv, TypeOK
    <3> QED
      BY <2>4, <3>1 DEF AnswerStatus
  <2>5. CASE CallFails(c)
    BY <1>4, <2>5 DEF CallFails, Answer, Reply
  <2> QED
    BY <2>1, <2>2, <2>3, <2>4, <2>5 DEF CallStep
<1> QED
  BY <1>2, <1>5, CallChange

(* The steps of a hash worker.                                             *)
WorkerAction(w) ==
    \/ \E i \in Intent : UpdateIntentToHashing(w, i)
    \/ JobStep(w) \/ StepFails(w) \/ StoreWriteFails(w) \/ Crash(w)

LEMMA WorkerWorkers ==
    ASSUME RowsInv, NEW w \in Worker, WorkerAction(w)
    PROVE  Workers
<1> DEFINE s == worker[w]
<1>1. s \in HashWorker
  BY DEF RowsInv, TypeOK
<1>2. s.pc \notin {"pass", "dead"} => s.intent \in Intent
  BY DEF RowsInv, JobOK
<1>3. \A pc \in Stage : At(s, pc) \in HashWorker /\ At(s, pc).intent = s.intent
  BY <1>1 DEF At, HashWorker
<1>4. Idle \in HashWorker /\ Idle.pc = "pass"
  BY DEF Idle, HashWorker, Stage
<1>5. PICK v \in HashWorker : worker' = [worker EXCEPT ![w] = v]
                              /\ (v.pc \notin {"pass", "dead"} => v.intent \in Intent)
  <2>1. CASE \E i \in Intent : UpdateIntentToHashing(w, i)
    <3>1. PICK i \in Intent : UpdateIntentToHashing(w, i)
      BY <2>1
    <3>2. [pc |-> "exists", intent |-> i, hash |-> None] \in HashWorker
      BY DEF HashWorker, Stage
    <3> QED
      BY <3>1, <3>2 DEF UpdateIntentToHashing
  <2>2. CASE ExistsInUploadBucket(w)
    BY <1>2, <1>3, <2>2 DEF ExistsInUploadBucket, Stage
  <2>3. CASE HashUploadObject(w)
    <3> DEFINE v == [pc |-> IF temp[s.intent] = None THEN "release" ELSE "copy",
                     intent |-> s.intent, hash |-> temp[s.intent]]
    <3>1. s.intent \in Intent
      BY <1>2, <2>3 DEF HashUploadObject
    <3>2. v \in HashWorker
      BY <3>1 DEF HashWorker, Stage, RowsInv, TypeOK
    <3> QED
      BY <2>3, <3>1, <3>2 DEF HashUploadObject
  <2>4. CASE CopyObject(w)
    BY <1>2, <1>3, <2>4 DEF CopyObject, Stage
  <2>5. CASE ExistsInIngestionBucket(w) \/ RemoveObject(w)
    BY <1>2, <1>3, <2>5 DEF ExistsInIngestionBucket, RemoveObject, Stage
  <2>6. CASE StartIngestion(w) \/ ReleaseIntentClaim(w) \/ MarkIntentFailed(w) \/ StoreWriteFails(w)
    BY <1>4, <2>6 DEF StartIngestion, ReleaseIntentClaim, MarkIntentFailed, StoreWriteFails
  <2>7. CASE StepFails(w)
    BY <1>2, <1>3, <2>7 DEF StepFails, AfterFailure, Stage
  <2>8. CASE Crash(w)
    <3>1. [pc |-> "dead", intent |-> None, hash |-> None] \in HashWorker
      BY DEF HashWorker, Stage
    <3> QED
      BY <2>8, <3>1 DEF Crash
  <2> QED
    BY <2>1, <2>2, <2>3, <2>4, <2>5, <2>6, <2>7, <2>8 DEF WorkerAction, JobStep
<1> QED
  BY <1>5, WorkerStep

(* A worker that records a document knows the hash of a content (part of   *)
(* the invariant of the buckets).                                          *)
HashesKnown == \A w \in Worker : worker[w].pc = "record" => worker[w].hash \in Hash

LEMMA WorkerTables ==
    ASSUME RowsInv, HashesKnown, NEW w \in Worker, WorkerAction(w)
    PROVE  Tables
<1> DEFINE s == worker[w]
           j == s.intent
<1>1. CASE UNCHANGED intents
  BY <1>1, SameTable
<1>2. CASE \E i \in Intent : UpdateIntentToHashing(w, i)
  <2>1. PICK i \in Intent : UpdateIntentToHashing(w, i)
    BY <1>2
  <2> DEFINE row == [status |-> "HASHING", expiresAt |-> intents[i].expiresAt,
                     hash |-> intents[i].hash, claimedBy |-> w, stale |-> FALSE,
                     retries |-> intents[i].retries]
  <2>2. intents' = [intents EXCEPT ![i] = row] /\ intents[i].status = "UPLOADED"
    BY <2>1 DEF UpdateIntentToHashing
  <2>3. row \in IntentRow /\ RowOK(row)
    BY <2>2 DEF RowsInv, TypeOK, IntentRow, IntentState, RowOK
  <2> QED
    BY <2>2, <2>3, OneRowTables DEF OneRow
<1>3. CASE StartIngestion(w) /\ Holds(w)
  <2>1. s.pc = "record" /\ j \in Intent /\ s.hash \in Hash /\ intents[j].status = "HASHING"
    BY <1>3 DEF StartIngestion, Holds, RowsInv, JobOK, HashesKnown
  <2> DEFINE row == [status |-> "HASHED", expiresAt |-> intents[j].expiresAt,
                     hash |-> s.hash, claimedBy |-> intents[j].claimedBy,
                     stale |-> intents[j].stale, retries |-> intents[j].retries]
  <2>2. intents' = [intents EXCEPT ![j] = row]
    BY <1>3 DEF StartIngestion
  <2>3. row \in IntentRow /\ RowOK(row)
    BY <2>1 DEF RowsInv, TypeOK, IntentRow, IntentState, RowOK
  <2> QED
    BY <2>1, <2>2, <2>3, OneRowTables DEF OneRow
<1>4. CASE ReleaseIntentClaim(w) /\ Holds(w)
  <2>1. j \in Intent /\ intents[j].status = "HASHING" /\ intents[j] \in IntentRow /\ RowOK(intents[j])
    BY <1>4 DEF ReleaseIntentClaim, Holds, RowsInv, TypeOK, JobOK
  <2>2. intents' = [intents EXCEPT ![j] = Charged(intents[j])]
    BY <1>4 DEF ReleaseIntentClaim
  <2> QED
    BY <2>1, <2>2, ChargedType, OneRowTables DEF OneRow
<1>5. CASE MarkIntentFailed(w) /\ Holds(w)
  <2>1. j \in Intent /\ intents[j].status = "HASHING" /\ intents[j] \in IntentRow /\ RowOK(intents[j])
    BY <1>5 DEF MarkIntentFailed, Holds, RowsInv, TypeOK, JobOK
  <2> DEFINE row == FreedRow(intents[j], "FAILED", intents[j].retries)
  <2>2. intents' = [intents EXCEPT ![j] = row]
    BY <1>5 DEF MarkIntentFailed
  <2>3. row \in IntentRow /\ RowOK(row) /\ row.status # "ABSENT"
    BY <2>1 DEF FreedRow, IntentRow, IntentState, RowOK
  <2> QED
    BY <2>1, <2>2, <2>3, OneRowTables DEF OneRow
<1> QED
  BY <1>1, <1>2, <1>3, <1>4, <1>5
     DEF WorkerAction, JobStep, ExistsInUploadBucket, HashUploadObject, CopyObject,
         ExistsInIngestionBucket, RemoveObject, StartIngestion, ReleaseIntentClaim,
         MarkIntentFailed, StepFails, StoreWriteFails, Crash, table

LEMMA WorkerOthers ==
    ASSUME RowsInv, HashesKnown, NEW w \in Worker, WorkerAction(w)
    PROVE  Others
<1> USE DEF RowsInv, TypeOK, Others
<1> DEFINE s == worker[w]
<1>1. s.pc = "copy" => s.intent \in Intent
  BY DEF JobOK
<1>2. CASE CopyObject(w)
  BY <1>1, <1>2 DEF CopyObject, table
<1>3. CASE RemoveObject(w)
  BY <1>3 DEF RemoveObject, table
<1>4. CASE StartIngestion(w)
  BY <1>4 DEF StartIngestion, buckets, HashesKnown
<1>5. CASE StepFails(w)
  BY <1>1, <1>5 DEF StepFails, table
<1>6. CASE UNCHANGED <<clock, documents, temp, perm, puts>>
  BY <1>6
<1> QED
  BY <1>2, <1>3, <1>4, <1>5, <1>6
     DEF WorkerAction, JobStep, ExistsInUploadBucket, HashUploadObject, UpdateIntentToHashing,
         ExistsInIngestionBucket, ReleaseIntentClaim, MarkIntentFailed, StoreWriteFails, Crash,
         table, buckets

-----------------------------------------------------------------------------
LEMMA RowsStep == ASSUME RowsInv, HashesKnown, [Next]_vars PROVE RowsInv'
<1>1. CASE UNCHANGED vars
  BY <1>1 DEF vars, table, buckets, RowsInv, TypeOK, RowOK, JobOK, CallOK
<1>2. CASE Tick
  <2>1. Others
    BY <1>2 DEF Tick, Others, Time, RowsInv, TypeOK, table, buckets
  <2> QED
    BY <1>2, <2>1, SameTable, SameWorkers, SameCalls, Parts DEF Tick, table
<1>3. ASSUME NEW i \in Intent, CreateIntent(i) PROVE RowsInv'
  <2> DEFINE row == [status |-> "WAITING", expiresAt |-> clock + Window, hash |-> None,
                     claimedBy |-> None, stale |-> FALSE, retries |-> 0]
  <2>1. row \in IntentRow /\ RowOK(row)
    BY DEF RowsInv, TypeOK, Time, IntentRow, IntentState, RowOK
  <2>2. Tables
    BY <1>3, <2>1, OneRowTables DEF CreateIntent, OneRow
  <2>3. Others
    BY <1>3 DEF CreateIntent, Others, RowsInv, TypeOK, buckets
  <2> QED
    BY <1>3, <2>2, <2>3, SameWorkers, SameCalls, Parts DEF CreateIntent
<1>4. ASSUME NEW i \in Intent, NEW content \in Hash, Put(i, content) PROVE RowsInv'
  <2>1. Others
    BY <1>4 DEF Put, Others, RowsInv, TypeOK, table
  <2> QED
    BY <1>4, <2>1, SameTable, SameWorkers, SameCalls, Parts DEF Put, table
<1>5. ASSUME NEW c \in Call, NEW i \in Intent, Confirm(c, i) \/ GetUploadStatus(c, i) PROVE RowsInv'
  <2>1. intents[i].status # "ABSENT" /\ UNCHANGED <<clock, table, buckets, worker>>
    BY <1>5 DEF Confirm, GetUploadStatus
  <2>2. PICK r \in Request : r.intent = i /\ call' = [call EXCEPT ![c] = r]
    <3>1. CASE Confirm(c, i)
      <4>1. [pc |-> "gate", intent |-> i, now |-> clock, answer |-> "none"] \in Request
        BY DEF Request, CallStage, Answer, RowsInv, TypeOK
      <4> QED
        BY <3>1, <4>1 DEF Confirm
    <3>2. CASE GetUploadStatus(c, i)
      <4>1. RowShows(intents[i]) \in Answer
        BY <2>1 DEF RowShows, Answer, RowsInv, TypeOK, IntentRow, IntentState, RowOK
      <4>2. [pc |-> "status", intent |-> i, now |-> 0, answer |-> RowShows(intents[i])] \in Request
        BY <4>1 DEF Request, CallStage, Time
      <4> QED
        BY <3>2, <4>2 DEF GetUploadStatus
    <3> QED
      BY <1>5, <3>1, <3>2
  <2>3. Calls
    BY <2>1, <2>2, CallChange
  <2>4. Others
    BY <2>1 DEF Others, RowsInv, TypeOK, table, buckets
  <2> QED
    BY <2>1, <2>3, <2>4, SameTable, SameWorkers, Parts DEF table
<1>6. ASSUME NEW c \in Call, CallStep(c) \/ CallFails(c) PROVE RowsInv'
  <2>1. UNCHANGED <<clock, documents, buckets, worker>>
    BY <1>6 DEF CallStep, CallFails, UpdateIntentToUploaded, GetIntent, UpdateIntentToExpired,
                AnswerStatus, table
  <2>2. Others
    BY <2>1 DEF Others, RowsInv, TypeOK, buckets
  <2> QED
    BY <1>6, <2>1, <2>2, RequestTables, RequestCalls, SameWorkers, Parts
<1>7. ASSUME NEW w \in Worker, WorkerAction(w) PROVE RowsInv'
  <2>1. UNCHANGED call
    BY <1>7 DEF WorkerAction, UpdateIntentToHashing, JobStep, ExistsInUploadBucket,
                HashUploadObject, CopyObject, ExistsInIngestionBucket, RemoveObject,
                StartIngestion, ReleaseIntentClaim, MarkIntentFailed, StepFails,
                StoreWriteFails, Crash
  <2> QED
    BY <1>7, <2>1, WorkerTables, WorkerWorkers, WorkerOthers, SameCalls, Parts
<1>8. ASSUME NEW i \in Intent, ClaimAges(i) PROVE RowsInv'
  <2> DEFINE row == [intents[i] EXCEPT !.stale = TRUE]
  <2>0. intents[i] \in IntentRow /\ RowOK(intents[i]) /\ intents[i].status = "HASHING"
    BY <1>8 DEF ClaimAges, RowsInv, TypeOK
  <2>1. row \in IntentRow /\ RowOK(row) /\ row.status # "ABSENT"
    BY <2>0 DEF IntentRow, RowOK
  <2>2. intents' = [intents EXCEPT ![i] = row]
    BY <1>8 DEF ClaimAges
  <2>3. Tables
    BY <2>1, <2>2, OneRowTables DEF OneRow
  <2>4. Others
    BY <1>8 DEF ClaimAges, Others, RowsInv, TypeOK, buckets
  <2> QED
    BY <1>8, <2>3, <2>4, SameWorkers, SameCalls, Parts DEF ClaimAges
<1>9. CASE RecoverStaleIntents
  <2>1. \A i \in Intent : intents'[i] = IF Stale(intents[i]) THEN Charged(intents[i]) ELSE intents[i]
    BY <1>9 DEF RecoverStaleIntents
  <2>2. \A i \in Intent : Stale(intents[i]) =>
          Charged(intents[i]) \in IntentRow /\ RowOK(Charged(intents[i]))
          /\ Charged(intents[i]).status # "ABSENT"
    BY ChargedType DEF Stale, RowsInv, TypeOK
  <2>3. intents' \in [Intent -> IntentRow]
    <3>1. \A i \in Intent : intents'[i] \in IntentRow
      BY <2>1, <2>2 DEF RowsInv, TypeOK
    <3> QED
      BY <1>9, <3>1 DEF RecoverStaleIntents
  <2>4. \A i \in Intent : RowOK(intents'[i])
    BY <2>1, <2>2 DEF RowsInv
  <2>5. Tables
    BY <2>1, <2>2, <2>3, <2>4 DEF Tables, RowOK
  <2>6. Others
    BY <1>9 DEF RecoverStaleIntents, Others, RowsInv, TypeOK, buckets
  <2> QED
    BY <1>9, <2>5, <2>6, SameWorkers, SameCalls, Parts DEF RecoverStaleIntents
<1> QED
  BY <1>1, <1>2, <1>3, <1>4, <1>5, <1>6, <1>7, <1>8, <1>9 DEF Next, WorkerAction

-----------------------------------------------------------------------------
(* The buckets.  The hash a worker carries is that of bytes its client did *)
(* PUT, and from the copy on an object is under that key.                  *)
Bytes(s) ==
    /\ s.pc \in {"copy", "verify", "remove", "record"} => s.hash \in puts[s.intent]
    /\ s.pc \in {"verify", "remove", "record"} => perm[s.hash] # None

Uploaded == \A i \in Intent : temp[i] # None => temp[i] \in puts[i]

BucketsInv ==
    /\ RowsInv
    /\ \A w \in Worker : Bytes(worker[w])
    /\ Uploaded
    /\ DocumentHasObject
    /\ UploadIsKept

LEMMA BucketsInit == Init => BucketsInv
<1> SUFFICES ASSUME Init PROVE BucketsInv
  OBVIOUS
<1>1. RowsInv
  BY RowsInit
<1>2. \A w \in Worker : Bytes(worker[w])
  BY DEF Init, Bytes, Idle
<1>3. Uploaded /\ DocumentHasObject /\ UploadIsKept
  BY DEF Init, Uploaded, DocumentHasObject, UploadIsKept
<1> QED
  BY <1>1, <1>2, <1>3 DEF BucketsInv

LEMMA KnownHashes == BucketsInv => HashesKnown
BY DEF BucketsInv, RowsInv, TypeOK, HashesKnown, JobOK, Bytes

(* What clients PUT is remembered, and no key loses its object.            *)
Grows ==
    /\ \A i \in Intent : puts[i] \subseteq puts'[i]
    /\ \A h \in Hash : perm[h] # None => perm'[h] # None

LEMMA BytesKept ==
    ASSUME BucketsInv, Grows, NEW w \in Worker, NEW s,
           worker' = [worker EXCEPT ![w] = s],
           /\ s.pc \in {"copy", "verify", "remove", "record"} => s.hash \in puts'[s.intent]
           /\ s.pc \in {"verify", "remove", "record"} => perm'[s.hash] # None
    PROVE  \A v \in Worker : Bytes(worker[v])'
<1> SUFFICES ASSUME NEW v \in Worker PROVE Bytes(worker[v])'
  OBVIOUS
<1>1. CASE v = w
  BY <1>1 DEF BucketsInv, RowsInv, TypeOK, Bytes
<1>2. CASE v # w
  <2>1. worker'[v] = worker[v] /\ Bytes(worker[v]) /\ JobOK(v)
    BY <1>2 DEF BucketsInv, RowsInv, TypeOK
  <2>2. worker[v].pc \in {"copy", "verify", "remove", "record"} =>
          worker[v].intent \in Intent /\ worker[v].hash \in Hash
    BY <2>1 DEF Bytes, JobOK, BucketsInv, RowsInv, TypeOK
  <2> QED
    BY <2>1, <2>2 DEF Bytes, Grows
<1> QED
  BY <1>1, <1>2

(* A step of a worker that leaves the buckets alone. *)
LEMMA QuietJob ==
    ASSUME BucketsInv, RowsInv', NEW w \in Worker, NEW s,
           worker' = [worker EXCEPT ![w] = s], Bytes(s),
           UNCHANGED <<documents, temp, perm, puts>>
    PROVE  BucketsInv'
<1>1. Grows
  BY DEF Grows
<1>2. \A v \in Worker : Bytes(worker[v])'
  BY <1>1, BytesKept DEF Bytes
<1> QED
  BY <1>2 DEF BucketsInv, Uploaded, DocumentHasObject, UploadIsKept

LEMMA PutBuckets ==
    ASSUME BucketsInv, RowsInv', NEW i \in Intent, NEW content \in Hash, Put(i, content)
    PROVE  BucketsInv'
<1>0. /\ temp' = [temp EXCEPT ![i] = content]
      /\ puts' = [puts EXCEPT ![i] = @ \cup {content}]
      /\ UNCHANGED <<documents, perm, worker>>
  BY DEF Put, table
<1>t. TypeOK
  BY DEF BucketsInv, RowsInv
<1>1. Grows
  BY <1>0, <1>t DEF Grows, TypeOK
<1>2. \A w \in Worker : Bytes(worker[w])'
  <2> SUFFICES ASSUME NEW w \in Worker PROVE Bytes(worker[w])'
    OBVIOUS
  <2>1. worker' = [worker EXCEPT ![w] = worker[w]] /\ Bytes(worker[w]) /\ JobOK(w)
    BY <1>0, <1>t DEF BucketsInv, RowsInv, TypeOK
  <2>2. worker[w].pc \in {"copy", "verify", "remove", "record"} => worker[w].intent \in Intent
    BY <2>1 DEF JobOK
  <2> QED
    BY <1>0, <1>1, <2>1, <2>2 DEF Bytes, Grows
<1>3. Uploaded'
  BY <1>0, <1>t DEF BucketsInv, Uploaded, TypeOK
<1>4. DocumentHasObject'
  BY <1>0 DEF BucketsInv, DocumentHasObject
<1>5. UploadIsKept'
  <2>1. puts'[i] = puts[i] \cup {content} /\ temp'[i] = content
    BY <1>0, <1>t DEF TypeOK
  <2>2. \A j \in Intent : j # i => puts'[j] = puts[j] /\ temp'[j] = temp[j]
    BY <1>0, <1>t DEF TypeOK
  <2>3. ASSUME NEW j \in Intent, NEW h \in Hash, puts'[j] = {h}
        PROVE  temp'[j] = h \/ perm'[h] # None
    BY <1>0, <2>1, <2>2, <2>3 DEF BucketsInv, UploadIsKept
  <2>4. \A h \in Hash : perm'[h] \in {None, h}
          \/ \E j \in Intent : {h, perm'[h]} \subseteq puts'[j]
    BY <1>0, <1>1 DEF BucketsInv, UploadIsKept, Grows
  <2> QED
    BY <2>3, <2>4 DEF UploadIsKept
<1> QED
  BY <1>2, <1>3, <1>4, <1>5 DEF BucketsInv

(* The copy, done by the worker's step or by one that fails.               *)
Copies(w) ==
    /\ worker[w].pc = "copy"
    /\ temp[worker[w].intent] # None
    /\ perm' = [perm EXCEPT ![worker[w].hash] = temp[worker[w].intent]]
    /\ UNCHANGED <<documents, temp, puts>>

LEMMA CopyBuckets ==
    ASSUME BucketsInv, RowsInv', NEW w \in Worker, Copies(w), NEW pc \in {"verify", "release"},
           worker' = [worker EXCEPT ![w] = At(worker[w], pc)]
    PROVE  BucketsInv'
<1> DEFINE i == worker[w].intent
           h == worker[w].hash
<1>t. TypeOK
  BY DEF BucketsInv, RowsInv
<1>1. i \in Intent /\ h \in puts[i] /\ h \in Hash
  BY <1>t DEF BucketsInv, RowsInv, TypeOK, JobOK, Bytes, Copies
<1>2. temp[i] \in puts[i] /\ temp[i] \in Hash /\ temp[i] # None
  BY <1>1, <1>t DEF BucketsInv, Uploaded, TypeOK, Copies
<1>3. perm' = [perm EXCEPT ![h] = temp[i]] /\ UNCHANGED <<documents, temp, puts>>
  BY DEF Copies
<1>4. perm'[h] = temp[i] /\ \A g \in Hash : g # h => perm'[g] = perm[g]
  BY <1>1, <1>3, <1>t DEF TypeOK
<1>5. Grows
  BY <1>2, <1>3, <1>4 DEF Grows
<1>6. \A v \in Worker : Bytes(worker[v])'
  BY <1>1, <1>2, <1>3, <1>4, <1>5, BytesKept DEF At
<1>7. DocumentHasObject'
  BY <1>3, <1>5, <1>t DEF BucketsInv, DocumentHasObject, Grows, TypeOK
<1>8. UploadIsKept'
  <2>1. \A j \in Intent, g \in Hash : puts'[j] = {g} => temp'[j] = g \/ perm'[g] # None
    BY <1>3, <1>5 DEF BucketsInv, UploadIsKept, Grows
  <2>2. {h, perm'[h]} \subseteq puts'[i]
    BY <1>1, <1>2, <1>3, <1>4
  <2>3. \A g \in Hash : perm'[g] \in {None, g}
          \/ \E j \in Intent : {g, perm'[g]} \subseteq puts'[j]
    BY <1>1, <1>3, <1>4, <2>2 DEF BucketsInv, UploadIsKept
  <2> QED
    BY <2>1, <2>3 DEF UploadIsKept
<1> QED
  BY <1>3, <1>6, <1>7, <1>8 DEF BucketsInv, Uploaded

(* The removal likewise. *)
Removes(w) ==
    /\ worker[w].pc = "remove"
    /\ temp' = [temp EXCEPT ![worker[w].intent] = None]
    /\ UNCHANGED <<documents, perm, puts>>

LEMMA RemoveBuckets ==
    ASSUME BucketsInv, RowsInv', NEW w \in Worker, Removes(w), NEW pc \in {"record", "release"},
           worker' = [worker EXCEPT ![w] = At(worker[w], pc)]
    PROVE  BucketsInv'
<1> DEFINE i == worker[w].intent
           h == worker[w].hash
<1>t. TypeOK
  BY DEF BucketsInv, RowsInv
<1>1. i \in Intent /\ h \in puts[i] /\ h \in Hash /\ perm[h] # None
  BY <1>t DEF BucketsInv, RowsInv, TypeOK, JobOK, Bytes, Removes
<1>2. /\ temp' = [temp EXCEPT ![i] = None]
      /\ UNCHANGED <<documents, perm, puts>>
  BY DEF Removes
<1>3. Grows
  BY <1>2 DEF Grows
<1>4. \A v \in Worker : Bytes(worker[v])'
  BY <1>1, <1>2, <1>3, BytesKept DEF At
<1>5. Uploaded'
  BY <1>2, <1>t DEF BucketsInv, Uploaded, TypeOK
<1>6. UploadIsKept'
  <2>1. \A j \in Intent : j # i => temp'[j] = temp[j]
    BY <1>2, <1>t DEF TypeOK
  <2> QED
    BY <1>1, <1>2, <2>1 DEF BucketsInv, UploadIsKept
<1> QED
  BY <1>2, <1>4, <1>5, <1>6 DEF BucketsInv, DocumentHasObject

(* The transaction adds a document whose object the worker verified. *)
LEMMA RecordBuckets ==
    ASSUME BucketsInv, RowsInv', NEW w \in Worker, StartIngestion(w)
    PROVE  BucketsInv'
<1> DEFINE h == worker[w].hash
<1>1. perm[h] # None
  BY DEF BucketsInv, Bytes, StartIngestion
<1>2. /\ documents' \subseteq documents \cup {h}
      /\ worker' = [worker EXCEPT ![w] = Idle]
      /\ UNCHANGED <<temp, perm, puts>>
  BY DEF StartIngestion, buckets
<1>3. \A v \in Worker : Bytes(worker[v])'
  BY <1>2, BytesKept DEF Grows, Idle
<1> QED
  BY <1>1, <1>2, <1>3 DEF BucketsInv, Uploaded, DocumentHasObject, UploadIsKept

LEMMA JobBuckets ==
    ASSUME BucketsInv, RowsInv', NEW w \in Worker, WorkerAction(w)
    PROVE  BucketsInv'
<1> DEFINE s == worker[w]
<1>s. Bytes(s) /\ JobOK(w) /\ TypeOK
  BY DEF BucketsInv, RowsInv
<1>1. CASE \E i \in Intent : UpdateIntentToHashing(w, i)
  <2>1. PICK i \in Intent : UpdateIntentToHashing(w, i)
    BY <1>1
  <2>2. Bytes([pc |-> "exists", intent |-> i, hash |-> None])
    BY DEF Bytes
  <2> QED
    BY <2>1, <2>2, QuietJob DEF UpdateIntentToHashing, buckets
<1>2. CASE ExistsInUploadBucket(w)
  <2>1. PICK pc \in {"fail", "hash"} : worker' = [worker EXCEPT ![w] = At(s, pc)]
    BY <1>2 DEF ExistsInUploadBucket
  <2>2. Bytes(At(s, pc))
    BY DEF Bytes, At
  <2> QED
    BY <1>2, <2>1, <2>2, QuietJob DEF ExistsInUploadBucket, table, buckets
<1>3. CASE HashUploadObject(w)
  <2> DEFINE v == [pc |-> IF temp[s.intent] = None THEN "release" ELSE "copy",
                   intent |-> s.intent, hash |-> temp[s.intent]]
  <2>1. s.intent \in Intent
    BY <1>3, <1>s DEF HashUploadObject, JobOK
  <2>2. Bytes(v)
    BY <2>1 DEF Bytes, BucketsInv, Uploaded
  <2>3. worker' = [worker EXCEPT ![w] = v]
    BY <1>3 DEF HashUploadObject
  <2> QED
    BY <1>3, <2>2, <2>3, QuietJob DEF HashUploadObject, table, buckets
<1>4. CASE CopyObject(w)
  <2>1. CASE temp[s.intent] = None
    <3>1. Bytes(At(s, "release"))
      BY DEF Bytes, At
    <3> QED
      BY <1>4, <2>1, <3>1, QuietJob DEF CopyObject, table
  <2>2. CASE temp[s.intent] # None
    BY <1>4, <2>2, CopyBuckets DEF CopyObject, Copies, table
  <2> QED
    BY <2>1, <2>2
<1>5. CASE ExistsInIngestionBucket(w)
  <2>1. PICK pc \in {"release", "remove"} :
          /\ worker' = [worker EXCEPT ![w] = At(s, pc)]
          /\ pc = "remove" => perm[s.hash] # None
    BY <1>5 DEF ExistsInIngestionBucket
  <2>2. Bytes(At(s, pc))
    BY <1>5, <1>s, <2>1 DEF ExistsInIngestionBucket, Bytes, At
  <2> QED
    BY <1>5, <2>1, <2>2, QuietJob DEF ExistsInIngestionBucket, table, buckets
<1>6. CASE RemoveObject(w)
  BY <1>6, RemoveBuckets DEF RemoveObject, Removes, table
<1>7. CASE StartIngestion(w)
  BY <1>7, RecordBuckets
<1>8. CASE ReleaseIntentClaim(w) \/ MarkIntentFailed(w) \/ StoreWriteFails(w)
  <2>1. Bytes(Idle)
    BY DEF Bytes, Idle
  <2> QED
    BY <1>8, <2>1, QuietJob
       DEF ReleaseIntentClaim, MarkIntentFailed, StoreWriteFails, table, buckets
<1>9. CASE StepFails(w)
  <2>1. worker' = [worker EXCEPT ![w] = At(s, "release")]
    BY <1>9 DEF StepFails, AfterFailure
  <2>2. CASE UNCHANGED <<temp, perm>>
    <3>1. Bytes(At(s, "release"))
      BY DEF Bytes, At
    <3> QED
      BY <1>9, <2>1, <2>2, <3>1, QuietJob DEF StepFails, table
  <2>3. CASE Copies(w)
    BY <2>1, <2>3, CopyBuckets
  <2>4. CASE Removes(w)
    BY <2>1, <2>4, RemoveBuckets
  <2> QED
    BY <1>9, <2>2, <2>3, <2>4 DEF StepFails, Copies, Removes, table
<1>10. CASE Crash(w)
  <2>1. Bytes([pc |-> "dead", intent |-> None, hash |-> None])
    BY DEF Bytes
  <2> QED
    BY <1>10, <2>1, QuietJob DEF Crash, table, buckets
<1> QED
  BY <1>1, <1>2, <1>3, <1>4, <1>5, <1>6, <1>7, <1>8, <1>9, <1>10 DEF WorkerAction, JobStep

LEMMA BucketsStep == ASSUME BucketsInv, [Next]_vars PROVE BucketsInv'
<1>1. RowsInv'
  BY RowsStep, KnownHashes DEF BucketsInv
<1>2. ASSUME NEW i \in Intent, NEW content \in Hash, Put(i, content) PROVE BucketsInv'
  BY <1>1, <1>2, PutBuckets
<1>3. ASSUME NEW w \in Worker, WorkerAction(w) PROVE BucketsInv'
  BY <1>1, <1>3, JobBuckets
<1>4. CASE UNCHANGED <<documents, buckets, worker>>
  BY <1>1, <1>4 DEF BucketsInv, Bytes, Uploaded, DocumentHasObject, UploadIsKept, buckets
<1> QED
  BY <1>2, <1>3, <1>4
     DEF Next, WorkerAction, Tick, CreateIntent, Confirm, GetUploadStatus, CallStep, CallFails,
         UpdateIntentToUploaded, GetIntent, UpdateIntentToExpired, AnswerStatus, ClaimAges,
         RecoverStaleIntents, vars, table

LEMMA BucketsInvariant == Spec => []BucketsInv
<1>1. Init => BucketsInv
  BY BucketsInit
<1>2. BucketsInv /\ [Next]_vars => BucketsInv'
  BY BucketsStep
<1> QED
  BY <1>1, <1>2, PTL DEF Spec

(* No bytes of an upload are lost, and no document lacks its object,       *)
(* however many workers race, fail and die (MigrateToIngestion,            *)
(* hashAndRecord).                                                         *)
THEOREM BytesAreKept == Spec => []ObjectsAreKept
<1>1. BucketsInv => ObjectsAreKept
  BY DEF BucketsInv, RowsInv, ObjectsAreKept
<1> QED
  BY <1>1, BucketsInvariant, PTL

-----------------------------------------------------------------------------
(* Claims.                                                                 *)

LEMMA ClaimStep ==
    ASSUME RowsInv, [Next]_vars, NEW i \in Intent,
           intents[i].status = "HASHING", intents'[i].status # "HASHING"
    PROVE  \/ Stale(intents[i]) /\ intents'[i].status # "HASHED"
           \/ LET w == intents[i].claimedBy IN
                /\ worker[w].intent = i
                /\ worker[w].pc \in {"record", "release", "fail"}
                /\ worker'[w].pc = "pass"
<1>t. TypeOK /\ intents[i] \in IntentRow /\ RowOK(intents[i])
  BY DEF RowsInv, TypeOK
<1>1. ASSUME NEW w \in Worker, StartIngestion(w) \/ ReleaseIntentClaim(w) \/ MarkIntentFailed(w)
      PROVE  /\ intents[i].claimedBy = w
             /\ worker[w].intent = i
             /\ worker[w].pc \in {"record", "release", "fail"}
             /\ worker'[w].pc = "pass"
  <2>1. Holds(w) /\ worker[w].pc \in {"record", "release", "fail"}
    BY <1>1 DEF StartIngestion, ReleaseIntentClaim, MarkIntentFailed
  <2>2. worker[w].intent = i
    BY <1>1, <1>t DEF StartIngestion, ReleaseIntentClaim, MarkIntentFailed, TypeOK
  <2>3. worker'[w].pc = "pass"
    BY <1>1, <1>t DEF StartIngestion, ReleaseIntentClaim, MarkIntentFailed, Idle, TypeOK
  <2> QED
    BY <2>1, <2>2, <2>3 DEF Holds
<1>2. CASE RecoverStaleIntents
  <2>1. Stale(intents[i]) /\ intents'[i] = Charged(intents[i])
    BY <1>2 DEF RecoverStaleIntents
  <2> QED
    BY <1>t, <2>1, ChargedType
<1>3. ASSUME NEW j \in Intent, CreateIntent(j) \/ ClaimAges(j) PROVE FALSE
  BY <1>3, <1>t DEF CreateIntent, ClaimAges, TypeOK, IntentRow
<1>4. ASSUME NEW w \in Worker, NEW j \in Intent, UpdateIntentToHashing(w, j) PROVE FALSE
  BY <1>4, <1>t DEF UpdateIntentToHashing, TypeOK
<1>5. ASSUME NEW c \in Call, CallStep(c) \/ CallFails(c) PROVE FALSE
  BY <1>5, <1>t DEF CallStep, CallFails, UpdateIntentToUploaded, GetIntent, UpdateIntentToExpired,
                    AnswerStatus, Expires, table, TypeOK
<1> QED
  BY <1>1, <1>2, <1>3, <1>4, <1>5
     DEF Next, JobStep, ExistsInUploadBucket, HashUploadObject, CopyObject,
         ExistsInIngestionBucket, RemoveObject, StepFails, StoreWriteFails, Crash,
         Tick, Put, Confirm, GetUploadStatus, vars, table

(* A claim is ended by the worker that took it or, once stale, by the      *)
(* sweeper (claimed_by in every later UPDATE).                             *)
THEOREM ClaimsEndByOwner == Spec => ClaimEndsByOwner
<1>1. BucketsInv /\ [Next]_vars =>
        \A i \in Intent :
          (intents[i].status = "HASHING" /\ intents'[i].status # "HASHING") =>
            \/ Stale(intents[i]) /\ intents'[i].status # "HASHED"
            \/ LET w == intents[i].claimedBy IN
                 /\ worker[w].intent = i
                 /\ worker[w].pc \in {"record", "release", "fail"}
                 /\ worker'[w].pc = "pass"
  BY ClaimStep DEF BucketsInv
<1> QED
  BY <1>1, BucketsInvariant, PTL DEF Spec, ClaimEndsByOwner

-----------------------------------------------------------------------------
(* The answers.                                                            *)

(* What a step may do to a row, as far as an answer depends on it. *)
Moves(i) ==
    /\ intents[i].status # "ABSENT" => intents'[i].expiresAt = intents[i].expiresAt
    /\ intents[i].status \in Accepted \cup {"FAILED"} =>
         intents'[i].status \in Accepted \cup {"FAILED"}
    /\ intents[i].status \in {"EXPIRED", "FAILED"} => intents'[i].status = intents[i].status
    /\ intents[i].status # "EXPIRED" /\ intents'[i].status = "EXPIRED" =>
         \E c \in Call : UpdateIntentToExpired(c) /\ call[c].intent = i /\ Expires(intents[i], call[c].now)

LEMMA MoveStep == ASSUME RowsInv, [Next]_vars, NEW i \in Intent PROVE Moves(i)
<1>t. TypeOK /\ intents[i] \in IntentRow /\ RowOK(intents[i])
  BY DEF RowsInv, TypeOK
<1>1. ASSUME NEW w \in Worker, StartIngestion(w) \/ ReleaseIntentClaim(w) \/ MarkIntentFailed(w)
      PROVE  Moves(i)
  <2>1. CASE intents'[i] = intents[i]
    BY <2>1 DEF Moves
  <2>2. CASE intents'[i] # intents[i]
    <3>1. intents[i].status = "HASHING"
      BY <1>1, <1>t, <2>2
         DEF StartIngestion, ReleaseIntentClaim, MarkIntentFailed, Holds, TypeOK
    <3>2. intents'[i].status \in {"HASHED", "FAILED", "UPLOADED"}
          /\ intents'[i].expiresAt = intents[i].expiresAt
      BY <1>1, <1>t, <2>2
         DEF StartIngestion, ReleaseIntentClaim, MarkIntentFailed, Charged, FreedRow, TypeOK
    <3> QED
      BY <3>1, <3>2 DEF Moves, Accepted
  <2> QED
    BY <2>1, <2>2
<1>2. CASE RecoverStaleIntents
  <2>1. intents'[i] = IF Stale(intents[i]) THEN Charged(intents[i]) ELSE intents[i]
    BY <1>2 DEF RecoverStaleIntents
  <2> QED
    BY <1>t, <2>1 DEF Moves, Stale, Charged, FreedRow, Accepted
<1>3. ASSUME NEW j \in Intent, CreateIntent(j) PROVE Moves(i)
  BY <1>3, <1>t DEF CreateIntent, TypeOK, Moves, Accepted
<1>4. ASSUME NEW j \in Intent, ClaimAges(j) PROVE Moves(i)
  BY <1>4, <1>t DEF ClaimAges, TypeOK, IntentRow, Moves, Accepted
<1>5. ASSUME NEW w \in Worker, NEW j \in Intent, UpdateIntentToHashing(w, j) PROVE Moves(i)
  BY <1>5, <1>t DEF UpdateIntentToHashing, TypeOK, Moves, Accepted
<1>6. ASSUME NEW c \in Call, CallStep(c) \/ CallFails(c) PROVE Moves(i)
  <2>1. CASE UpdateIntentToExpired(c)
    <3>1. CASE intents'[i] = intents[i]
      BY <3>1 DEF Moves
    <3>2. CASE intents'[i] # intents[i]
      <4>1. Expires(intents[i], call[c].now) /\ call[c].intent = i
        BY <1>t, <2>1, <3>2 DEF UpdateIntentToExpired, TypeOK
      <4>2. intents' = [intents EXCEPT ![i].status = "EXPIRED"]
        BY <2>1, <4>1 DEF UpdateIntentToExpired
      <4>3. intents'[i].status = "EXPIRED" /\ intents'[i].expiresAt = intents[i].expiresAt
        BY <1>t, <4>2 DEF TypeOK, IntentRow
      <4>4. intents[i].status = "WAITING"
        BY <4>1 DEF Expires
      <4> QED
        BY <2>1, <4>1, <4>3, <4>4 DEF Moves, Accepted
    <3> QED
      BY <3>1, <3>2
  <2>2. CASE UpdateIntentToUploaded(c) \/ CallFails(c)
    BY <1>t, <2>2 DEF UpdateIntentToUploaded, CallFails, TypeOK, IntentRow, Moves, Accepted
  <2>3. CASE GetIntent(c) \/ AnswerStatus(c)
    BY <2>3 DEF GetIntent, AnswerStatus, table, Moves
  <2> QED
    BY <1>6, <2>1, <2>2, <2>3 DEF CallStep
<1>7. CASE UNCHANGED intents
  BY <1>7 DEF Moves
<1> QED
  BY <1>1, <1>2, <1>3, <1>4, <1>5, <1>6, <1>7
     DEF Next, JobStep, ExistsInUploadBucket, HashUploadObject, CopyObject,
         ExistsInIngestionBucket, RemoveObject, StepFails, StoreWriteFails, Crash,
         Tick, Put, Confirm, GetUploadStatus, vars, table

(* A request that still runs has told nothing, a poll tells nothing of the *)
(* gate, and one that was told WAITING looked before expires_at.           *)
ReplyOK(c) ==
    /\ call[c].pc \in {"new", "gate", "resolve", "expire"} => call[c].answer = "none"
    /\ call[c].pc = "status" => call[c].answer \notin {"accepted", "expired", "failed"}
    /\ call[c].pc = "done" /\ call[c].answer = "WAITING" =>
         call[c].now < intents[call[c].intent].expiresAt

AnswerHolds(c) ==
    LET status == intents[call[c].intent].status IN
      /\ call[c].answer = "accepted" => status \in Accepted \cup {"FAILED"}
      /\ call[c].answer = "expired" => status = "EXPIRED"
      /\ call[c].answer = "failed" => status = "FAILED"

(* Only a request that read the clock at expires_at or later expires it.   *)
ExpiredBy(i) ==
    intents[i].status = "EXPIRED" =>
      \E d \in Call : /\ call[d].intent = i /\ call[d].answer = "expired"
                      /\ intents[i].expiresAt <= call[d].now

CallsInv ==
    /\ \A c \in Call : ReplyOK(c) /\ AnswerHolds(c)
    /\ \A i \in Intent : ExpiredBy(i)

LEMMA CallsInit == Init => CallsInv
BY DEF Init, CallsInv, ReplyOK, AnswerHolds, ExpiredBy

(* An answer is final, and what other steps do to the row agrees with it.  *)
LEMMA AnswerStays ==
    ASSUME RowsInv, NEW c \in Call, call'[c] = call[c], ReplyOK(c), AnswerHolds(c),
           \A i \in Intent : Moves(i)
    PROVE  ReplyOK(c)' /\ AnswerHolds(c)'
<1> DEFINE i == call[c].intent
<1>1. CASE call[c].pc = "new"
  <2>1. call[c].answer = "none"
    BY <1>1 DEF ReplyOK
  <2> QED
    BY <1>1, <2>1 DEF ReplyOK, AnswerHolds
<1>2. CASE call[c].pc # "new"
  <2>1. i \in Intent /\ intents[i].status # "ABSENT" /\ Moves(i)
    BY <1>2 DEF RowsInv, CallOK
  <2>2. intents'[i].expiresAt = intents[i].expiresAt
    BY <2>1 DEF Moves
  <2>3. ReplyOK(c)'
    BY <2>2 DEF ReplyOK
  <2>4. AnswerHolds(c)'
    BY <2>1 DEF AnswerHolds, Moves
  <2> QED
    BY <2>3, <2>4
<1> QED
  BY <1>1, <1>2

Requests(c) ==
    \/ \E i \in Intent : Confirm(c, i) \/ GetUploadStatus(c, i)
    \/ CallStep(c) \/ CallFails(c)

LEMMA RequestAnswers ==
    ASSUME RowsInv, NEW c \in Call, Requests(c), ReplyOK(c)
    PROVE  ReplyOK(c)' /\ AnswerHolds(c)'
<1> DEFINE r == call[c]
           i == r.intent
<1>t. TypeOK
  BY DEF RowsInv
<1>i. r.pc # "new" => i \in Intent /\ intents[i] \in IntentRow
  BY <1>t DEF RowsInv, CallOK, TypeOK
<1>1. ASSUME NEW j \in Intent, Confirm(c, j) PROVE ReplyOK(c)' /\ AnswerHolds(c)'
  BY <1>1, <1>t DEF Confirm, ReplyOK, AnswerHolds, TypeOK
<1>2. ASSUME NEW j \in Intent, GetUploadStatus(c, j) PROVE ReplyOK(c)' /\ AnswerHolds(c)'
  <2>1. call'[c] = [pc |-> "status", intent |-> j, now |-> 0, answer |-> RowShows(intents[j])]
    BY <1>2, <1>t DEF GetUploadStatus, TypeOK
  <2>2. RowShows(intents[j]) \notin {"accepted", "expired", "failed"}
    BY <1>t DEF RowShows, TypeOK, IntentRow, IntentState
  <2> QED
    BY <2>1, <2>2 DEF ReplyOK, AnswerHolds
<1>3. CASE UpdateIntentToUploaded(c)
  <2>1. CASE call'[c] = Step(r, "resolve")
    BY <2>1 DEF Step, ReplyOK, AnswerHolds
  <2>2. CASE call'[c] # Step(r, "resolve")
    <3>1. call'[c] = Reply(r, "accepted") /\ intents' = [intents EXCEPT ![i].status = "UPLOADED"]
      BY <1>3, <1>t, <2>2 DEF UpdateIntentToUploaded, TypeOK
    <3>2. intents'[i].status = "UPLOADED"
      BY <1>3, <1>i, <1>t, <3>1 DEF UpdateIntentToUploaded, TypeOK, IntentRow
    <3> QED
      BY <3>1, <3>2 DEF Reply, ReplyOK, AnswerHolds, Accepted
  <2> QED
    BY <2>1, <2>2
<1>4. CASE GetIntent(c)
  <2>1. UNCHANGED intents
    BY <1>4 DEF GetIntent, table
  <2>2. \/ intents[i].status = "EXPIRED" /\ call'[c] = Reply(r, "expired")
        \/ intents[i].status \in Accepted /\ call'[c] = Reply(r, "accepted")
        \/ intents[i].status = "FAILED" /\ call'[c] = Reply(r, "failed")
        \/ call'[c] = Step(r, "expire")
    BY <1>4, <1>t DEF GetIntent, TypeOK, Accepted
  <2> QED
    BY <2>1, <2>2 DEF Reply, Step, ReplyOK, AnswerHolds
<1>5. CASE UpdateIntentToExpired(c)
  <2>1. CASE call'[c] = Step(r, "resolve")
    BY <2>1 DEF Step, ReplyOK, AnswerHolds
  <2>2. CASE call'[c] # Step(r, "resolve")
    <3>1. call'[c] = Reply(r, "expired") /\ intents' = [intents EXCEPT ![i].status = "EXPIRED"]
      BY <1>5, <1>t, <2>2 DEF UpdateIntentToExpired, TypeOK
    <3>2. intents'[i].status = "EXPIRED"
      BY <1>5, <1>i, <1>t, <3>1 DEF UpdateIntentToExpired, TypeOK, IntentRow
    <3> QED
      BY <3>1, <3>2 DEF Reply, ReplyOK, AnswerHolds
  <2> QED
    BY <2>1, <2>2
<1>6. CASE AnswerStatus(c)
  <2>1. UNCHANGED intents /\ i \in Intent /\ r.answer \notin {"accepted", "expired", "failed"}
    BY <1>6, <1>i DEF AnswerStatus, table, ReplyOK
  <2>2. PICK a : /\ call'[c] = [pc |-> "done", intent |-> i, now |-> clock, answer |-> a]
                 /\ a = IF r.answer = "WAITING" /\ WindowOver(i, clock) THEN "EXPIRED" ELSE r.answer
    BY <1>6, <1>t DEF AnswerStatus, TypeOK
  <2>3. a = "WAITING" => clock < intents[i].expiresAt
    BY <1>t, <2>1, <2>2 DEF WindowOver, TypeOK, Time, IntentRow
  <2> QED
    BY <2>1, <2>2, <2>3 DEF ReplyOK, AnswerHolds
<1>7. CASE CallFails(c)
  BY <1>7, <1>t DEF CallFails, Reply, ReplyOK, AnswerHolds, TypeOK
<1> QED
  BY <1>1, <1>2, <1>3, <1>4, <1>5, <1>6, <1>7 DEF Requests, CallStep

LEMMA CallsStep == ASSUME RowsInv, CallsInv, [Next]_vars PROVE CallsInv'
<1>t. TypeOK
  BY DEF RowsInv
<1>m. \A i \in Intent : Moves(i)
  BY MoveStep
<1>c. \A c \in Call : call'[c] = call[c] \/ Requests(c)
  <2>1. ASSUME NEW c \in Call, Requests(c) PROVE \A d \in Call : d = c \/ call'[d] = call[d]
    BY <1>t, <2>1
       DEF Requests, Confirm, GetUploadStatus, CallStep, CallFails, UpdateIntentToUploaded, GetIntent,
           UpdateIntentToExpired, AnswerStatus, TypeOK
  <2>2. UNCHANGED call \/ \E c \in Call : Requests(c)
    BY DEF Next, Requests, JobStep, UpdateIntentToHashing, ExistsInUploadBucket, HashUploadObject,
           CopyObject, ExistsInIngestionBucket, RemoveObject, StartIngestion, ReleaseIntentClaim,
           MarkIntentFailed, StepFails, StoreWriteFails, Crash,
           Tick, CreateIntent, Put, ClaimAges, RecoverStaleIntents, vars
  <2> QED
    BY <2>1, <2>2
<1>1. \A c \in Call : ReplyOK(c)' /\ AnswerHolds(c)'
  BY <1>c, <1>m, AnswerStays, RequestAnswers DEF CallsInv
<1>2. ASSUME NEW i \in Intent PROVE ExpiredBy(i)'
  <2> SUFFICES ASSUME intents'[i].status = "EXPIRED"
               PROVE  \E d \in Call : /\ call'[d].intent = i /\ call'[d].answer = "expired"
                                      /\ intents'[i].expiresAt <= call'[d].now
    BY DEF ExpiredBy
  <2>1. CASE intents[i].status = "EXPIRED"
    <3>1. PICK d \in Call : /\ call[d].intent = i /\ call[d].answer = "expired"
                            /\ intents[i].expiresAt <= call[d].now
      BY <2>1 DEF CallsInv, ExpiredBy
    <3>2. call[d].pc \notin {"new", "gate", "resolve", "expire", "status"}
      BY <3>1 DEF CallsInv, ReplyOK
    <3>3. ~ Requests(d)
      BY <3>2 DEF Requests, Confirm, GetUploadStatus, CallStep, CallFails, UpdateIntentToUploaded,
                  GetIntent, UpdateIntentToExpired, AnswerStatus
    <3>4. call'[d] = call[d] /\ intents'[i].expiresAt = intents[i].expiresAt
      BY <1>c, <1>m, <2>1, <3>3 DEF Moves
    <3> QED
      BY <3>1, <3>4
  <2>2. CASE intents[i].status # "EXPIRED"
    <3>1. PICK c \in Call : UpdateIntentToExpired(c) /\ call[c].intent = i
                            /\ Expires(intents[i], call[c].now)
      BY <1>m, <2>2 DEF Moves
    <3>2. call'[c] = Reply(call[c], "expired")
      BY <1>t, <3>1 DEF UpdateIntentToExpired, TypeOK
    <3>3. intents'[i].expiresAt = intents[i].expiresAt
      BY <1>m, <3>1 DEF Moves, Expires
    <3> QED
      BY <3>1, <3>2, <3>3 DEF Reply, Expires
  <2> QED
    BY <2>1, <2>2
<1> QED
  BY <1>1, <1>2 DEF CallsInv

LEMMA CallsInvariant == Spec => []CallsInv
<1>1. Init => CallsInv
  BY CallsInit
<1>2. BucketsInv /\ CallsInv /\ [Next]_vars => CallsInv'
  BY CallsStep DEF BucketsInv
<1> QED
  BY <1>1, <1>2, BucketsInvariant, PTL DEF Spec

(* What a confirm call answered stays true, whatever raced it (the two     *)
(* gates of ConfirmUpload and resolveLostGate).                            *)
THEOREM AnswersStayTrue == Spec => []AnswersHold
<1>1. CallsInv => AnswersHold
  BY DEF CallsInv, AnswerHolds, AnswersHold
<1> QED
  BY <1>1, CallsInvariant, PTL

(* The poll and the gate read expires_at the same way.                     *)
THEOREM PollsMatchTheGate == Spec => []PollMatchesGate
<1>1. BucketsInv /\ CallsInv => PollMatchesGate
  <2> SUFFICES ASSUME BucketsInv, CallsInv, NEW p \in Call, NEW c \in Call,
                      call[p].pc = "done", call[p].answer = "WAITING",
                      call[c].intent = call[p].intent, call[c].answer = "expired"
               PROVE  \E d \in Call : /\ call[d].intent = call[p].intent
                                      /\ call[d].answer = "expired"
                                      /\ call[p].now < call[d].now
    BY DEF PollMatchesGate
  <2> DEFINE i == call[p].intent
  <2>1. i \in Intent /\ TypeOK
    BY DEF BucketsInv, RowsInv, CallOK
  <2>2. call[p].now < intents[i].expiresAt
    BY DEF CallsInv, ReplyOK
  <2>3. intents[i].status = "EXPIRED"
    BY DEF CallsInv, AnswerHolds
  <2>4. PICK d \in Call : /\ call[d].intent = i /\ call[d].answer = "expired"
                          /\ intents[i].expiresAt <= call[d].now
    BY <2>1, <2>3 DEF CallsInv, ExpiredBy
  <2>5. call[p].now \in Nat /\ call[d].now \in Nat /\ intents[i].expiresAt \in Nat
    BY <2>1 DEF TypeOK, Request, Time, IntentRow
  <2> QED
    BY <2>2, <2>4, <2>5
<1> QED
  BY <1>1, BucketsInvariant, CallsInvariant, PTL

-----------------------------------------------------------------------------
(* The life cycle of UploadLifecycle.                                      *)

Shown == [i \in Intent |-> UploadState(intents[i])]

LEMMA ShownRow ==
    ASSUME TypeOK, NEW i \in Intent, NEW row, intents' = [intents EXCEPT ![i] = row]
    PROVE  Shown' = [Shown EXCEPT ![i] = UploadState(row)]
<1>1. \A j \in Intent : intents'[j] = IF j = i THEN row ELSE intents[j]
  BY DEF TypeOK
<1>2. \A j \in Intent : UploadState(intents'[j]) = IF j = i THEN UploadState(row) ELSE UploadState(intents[j])
  BY <1>1
<1>3. Shown' = [j \in Intent |-> UploadState(intents'[j])]
  BY DEF Shown
<1> QED
  BY <1>2, <1>3 DEF Shown

LEMMA ShownHash ==
    ASSUME RowsInv, NEW i \in Intent
    PROVE  /\ intents[i].status # "HASHED" => intents[i].hash = None
           /\ intents[i].status = "WAITING" => UploadState(intents[i]) = [status |-> "OPEN", hash |-> None]
           /\ intents[i].status \in {"UPLOADED", "HASHING"} =>
                UploadState(intents[i]) = [status |-> "ACCEPTED", hash |-> None]
           /\ intents[i].status = "ABSENT" => UploadState(intents[i]) = [status |-> "ABSENT", hash |-> None]
BY DEF RowsInv, RowOK, UploadState

LEMMA FreedState ==
    ASSUME NEW row, row.hash = None, NEW n,
           NEW status \in {"UPLOADED", "FAILED"}
    PROVE  UploadState(FreedRow(row, status, n)) =
             [status |-> IF status = "FAILED" THEN "FAILED" ELSE "ACCEPTED", hash |-> None]
BY DEF FreedRow, UploadState

LEMMA LifecycleStep ==
    ASSUME BucketsInv, [Next]_vars
    PROVE  [Lifecycle!Next]_(Lifecycle!lifecycleVars)
<1> USE DEF Lifecycle!lifecycleVars
<1>t. TypeOK /\ RowsInv
  BY DEF BucketsInv, RowsInv
(* An accepted upload given up, and one whose claim returns. *)
<1>f. ASSUME NEW i \in Intent, Shown[i].status = "ACCEPTED",
             Shown' = [Shown EXCEPT ![i] = [status |-> "FAILED", hash |-> None]],
             UNCHANGED <<documents, puts>>
      PROVE  Lifecycle!Next
  <2>1. \A j \in Intent : Shown'[j] = IF j = i THEN [status |-> "FAILED", hash |-> None] ELSE Shown[j]
    BY <1>f DEF Shown
  <2>2. Lifecycle!Fail({i})
    BY <1>f, <2>1 DEF Lifecycle!Fail, Shown
  <2> QED
    BY <2>2 DEF Lifecycle!Next
<1>s. ASSUME NEW i \in Intent, NEW row, intents' = [intents EXCEPT ![i] = row],
             UploadState(row) = UploadState(intents[i]), UNCHANGED <<documents, puts>>
      PROVE  UNCHANGED Lifecycle!lifecycleVars
  <2>1. Shown' = Shown
    BY <1>s, <1>t, ShownRow DEF Shown
  <2> QED
    BY <1>s, <2>1 DEF Shown
<1>c. ASSUME NEW i \in Intent, intents[i].status = "HASHING",
             intents' = [intents EXCEPT ![i] = Charged(intents[i])], UNCHANGED <<documents, puts>>
      PROVE  Lifecycle!Next \/ UNCHANGED Lifecycle!lifecycleVars
  <2> DEFINE row == Charged(intents[i])
  <2>1. UploadState(intents[i]) = [status |-> "ACCEPTED", hash |-> None] /\ intents[i].hash = None
    BY <1>c, <1>t, ShownHash
  <2>2. \/ UploadState(row) = [status |-> "ACCEPTED", hash |-> None]
        \/ UploadState(row) = [status |-> "FAILED", hash |-> None]
    BY <2>1, FreedState DEF Charged
  <2>3. Shown[i].status = "ACCEPTED"
    BY <2>1 DEF Shown
  <2>4. Shown' = [Shown EXCEPT ![i] = UploadState(row)]
    BY <1>c, <1>t, ShownRow
  <2> QED
    BY <1>c, <1>f, <1>s, <2>1, <2>2, <2>3, <2>4
<1>1. ASSUME NEW i \in Intent, CreateIntent(i) PROVE Lifecycle!Next
  <2>1. Shown' = [Shown EXCEPT ![i] = [status |-> "OPEN", hash |-> None]]
    BY <1>1, <1>t, ShownRow DEF CreateIntent, UploadState
  <2>2. Shown[i].status = "ABSENT"
    BY <1>1 DEF CreateIntent, Shown, UploadState
  <2>3. Lifecycle!Open(i)
    BY <1>1, <2>1, <2>2 DEF CreateIntent, buckets, Lifecycle!Open, Lifecycle!Move, Shown
  <2> QED
    BY <2>3 DEF Lifecycle!Next
<1>2. ASSUME NEW i \in Intent, NEW content \in Hash, Put(i, content) PROVE Lifecycle!Next
  <2>1. Shown[i].status # "ABSENT"
    BY <1>2, <1>t DEF Put, Shown, UploadState, TypeOK, IntentRow, IntentState
  <2>2. UNCHANGED <<Shown, documents>> /\ puts' = [puts EXCEPT ![i] = @ \cup {content}]
    BY <1>2 DEF Put, table, Shown
  <2>3. Lifecycle!Supply(i, content)
    BY <2>1, <2>2 DEF Lifecycle!Supply, Shown
  <2> QED
    BY <2>3 DEF Lifecycle!Next
<1>3. ASSUME NEW c \in Call, CallStep(c) \/ CallFails(c)
      PROVE  Lifecycle!Next \/ UNCHANGED Lifecycle!lifecycleVars
  <2> DEFINE i == call[c].intent
  <2>1. UNCHANGED <<documents, puts>>
    BY <1>3 DEF CallStep, CallFails, UpdateIntentToUploaded, GetIntent, UpdateIntentToExpired,
                AnswerStatus, table, buckets
  <2>2. CASE UNCHANGED intents
    BY <2>1, <2>2
  <2>3. CASE intents' # intents
    <3>1. /\ call[c].pc \in {"gate", "expire"} /\ intents[i].status = "WAITING"
          /\ \/ intents' = [intents EXCEPT ![i].status = "UPLOADED"]
             \/ intents' = [intents EXCEPT ![i].status = "EXPIRED"]
      BY <1>3, <2>3 DEF CallStep, CallFails, UpdateIntentToUploaded, GetIntent,
                        UpdateIntentToExpired, AnswerStatus, table, Expires
    <3>2. i \in Intent /\ intents[i] \in IntentRow /\ intents[i].hash = None
      BY <1>t, <3>1, ShownHash DEF RowsInv, CallOK, TypeOK
    <3>3. Shown[i] = [status |-> "OPEN", hash |-> None]
      BY <1>t, <3>1, <3>2, ShownHash DEF Shown
    <3>4. CASE intents' = [intents EXCEPT ![i].status = "UPLOADED"]
      <4> DEFINE row == [intents[i] EXCEPT !.status = "UPLOADED"]
      <4>1. UploadState(row) = [status |-> "ACCEPTED", hash |-> None]
        BY <3>2 DEF UploadState, IntentRow
      <4>2. intents' = [intents EXCEPT ![i] = row]
        BY <3>4
      <4>3. Shown' = [Shown EXCEPT ![i] = [status |-> "ACCEPTED", hash |-> None]]
        BY <1>t, <3>2, <4>1, <4>2, ShownRow
      <4>4. Lifecycle!Accept(i)
        BY <2>1, <3>3, <4>3 DEF Lifecycle!Accept, Lifecycle!Move, Shown
      <4> QED
        BY <3>2, <4>4 DEF Lifecycle!Next
    <3>5. CASE intents' = [intents EXCEPT ![i].status = "EXPIRED"]
      <4> DEFINE row == [intents[i] EXCEPT !.status = "EXPIRED"]
      <4>1. UploadState(row) = [status |-> "EXPIRED", hash |-> None]
        BY <3>2 DEF UploadState, IntentRow
      <4>2. intents' = [intents EXCEPT ![i] = row]
        BY <3>5
      <4>3. Shown' = [Shown EXCEPT ![i] = [status |-> "EXPIRED", hash |-> None]]
        BY <1>t, <3>2, <4>1, <4>2, ShownRow
      <4>4. Lifecycle!Expire(i)
        BY <2>1, <3>3, <4>3 DEF Lifecycle!Expire, Lifecycle!Move, Shown
      <4> QED
        BY <3>2, <4>4 DEF Lifecycle!Next
    <3> QED
      BY <3>1, <3>4, <3>5
  <2> QED
    BY <2>2, <2>3
<1>4. ASSUME NEW w \in Worker, NEW i \in Intent, UpdateIntentToHashing(w, i)
      PROVE  UNCHANGED Lifecycle!lifecycleVars
  <2> DEFINE row == [status |-> "HASHING", expiresAt |-> intents[i].expiresAt,
                     hash |-> intents[i].hash, claimedBy |-> w, stale |-> FALSE,
                     retries |-> intents[i].retries]
  <2>1. UploadState(intents[i]) = [status |-> "ACCEPTED", hash |-> None] /\ intents[i].hash = None
    BY <1>4, <1>t, ShownHash DEF UpdateIntentToHashing
  <2>2. intents' = [intents EXCEPT ![i] = row] /\ UNCHANGED <<documents, puts>>
    BY <1>4 DEF UpdateIntentToHashing, buckets
  <2>3. UploadState(row) = [status |-> "ACCEPTED", hash |-> None]
    BY <2>1 DEF UploadState
  <2> QED
    BY <1>s, <2>1, <2>2, <2>3
<1>5. ASSUME NEW w \in Worker, StartIngestion(w)
      PROVE  Lifecycle!Next \/ UNCHANGED Lifecycle!lifecycleVars
  <2> DEFINE i == worker[w].intent
             h == worker[w].hash
  <2>1. CASE ~ Holds(w)
    BY <1>5, <2>1 DEF StartIngestion, buckets
  <2>2. CASE Holds(w)
    <3>1. i \in Intent /\ h \in puts[i] /\ h \in Hash
      BY <1>5, <1>t DEF StartIngestion, BucketsInv, RowsInv, JobOK, Bytes, TypeOK
    <3>2. Shown[i].status = "ACCEPTED"
      BY <1>t, <2>2, <3>1, ShownHash DEF Holds, Shown
    <3>3. Shown' = [Shown EXCEPT ![i] = [status |-> "HASHED", hash |-> h]]
      BY <1>5, <1>t, <2>2, <3>1, ShownRow DEF StartIngestion, UploadState
    <3>4. documents' = documents \cup {h} /\ UNCHANGED puts
      BY <1>5, <2>2 DEF StartIngestion, buckets
    <3>5. Lifecycle!Register(i, h)
      BY <3>1, <3>2, <3>3, <3>4 DEF Lifecycle!Register, Shown
    <3> QED
      BY <3>1, <3>5 DEF Lifecycle!Next
  <2> QED
    BY <2>1, <2>2
<1>6. ASSUME NEW w \in Worker, ReleaseIntentClaim(w)
      PROVE  Lifecycle!Next \/ UNCHANGED Lifecycle!lifecycleVars
  <2>1. CASE Holds(w)
    BY <1>6, <1>c, <1>t, <2>1 DEF ReleaseIntentClaim, Holds, RowsInv, JobOK, buckets
  <2>2. CASE ~ Holds(w)
    BY <1>6, <2>2 DEF ReleaseIntentClaim, buckets
  <2> QED
    BY <2>1, <2>2
<1>7. ASSUME NEW w \in Worker, MarkIntentFailed(w)
      PROVE  Lifecycle!Next \/ UNCHANGED Lifecycle!lifecycleVars
  <2> DEFINE i == worker[w].intent
  <2>1. CASE Holds(w)
    <3>1. i \in Intent /\ intents[i].status = "HASHING"
      BY <1>7, <1>t, <2>1 DEF MarkIntentFailed, Holds, RowsInv, JobOK
    <3>2. intents[i].hash = None /\ Shown[i].status = "ACCEPTED"
      BY <1>t, <3>1, ShownHash DEF Shown
    <3>3. intents' = [intents EXCEPT ![i] = FreedRow(intents[i], "FAILED", intents[i].retries)]
          /\ UNCHANGED <<documents, puts>>
      BY <1>7, <2>1 DEF MarkIntentFailed, buckets
    <3>4. UploadState(FreedRow(intents[i], "FAILED", intents[i].retries))
            = [status |-> "FAILED", hash |-> None]
      BY <3>2, FreedState
    <3>5. Shown' = [Shown EXCEPT ![i] = [status |-> "FAILED", hash |-> None]]
      BY <1>t, <3>1, <3>3, <3>4, ShownRow
    <3> QED
      BY <1>f, <3>1, <3>2, <3>3, <3>5
  <2>2. CASE ~ Holds(w)
    BY <1>7, <2>2 DEF MarkIntentFailed, buckets
  <2> QED
    BY <2>1, <2>2
<1>8. ASSUME NEW i \in Intent, ClaimAges(i) PROVE UNCHANGED Lifecycle!lifecycleVars
  <2> DEFINE row == [intents[i] EXCEPT !.stale = TRUE]
  <2>1. intents' = [intents EXCEPT ![i] = row] /\ UNCHANGED <<documents, puts>>
    BY <1>8 DEF ClaimAges, buckets
  <2>2. row.status = intents[i].status /\ row.hash = intents[i].hash
    BY <1>t DEF TypeOK, IntentRow
  <2>3. UploadState(row) = UploadState(intents[i])
    BY <2>2 DEF UploadState
  <2> QED
    BY <1>s, <2>1, <2>3
<1>9. CASE RecoverStaleIntents
  <2> DEFINE given == {i \in Intent : Stale(intents[i]) /\ Charged(intents[i]).status = "FAILED"}
  <2>1. \A i \in Intent : intents'[i] = IF Stale(intents[i]) THEN Charged(intents[i]) ELSE intents[i]
    BY <1>9 DEF RecoverStaleIntents
  <2>2. ASSUME NEW i \in Intent
        PROVE  /\ Shown'[i] = IF i \in given THEN [status |-> "FAILED", hash |-> None] ELSE Shown[i]
               /\ i \in given => Shown[i].status = "ACCEPTED"
    <3>1. CASE ~ Stale(intents[i])
      BY <2>1, <3>1 DEF Shown
    <3>2. CASE Stale(intents[i])
      <4>1. UploadState(intents[i]) = [status |-> "ACCEPTED", hash |-> None] /\ intents[i].hash = None
        BY <1>t, <3>2, ShownHash DEF Stale
      <4>2. PICK status \in {"UPLOADED", "FAILED"} :
              Charged(intents[i]) = FreedRow(intents[i], status, intents[i].retries + 1)
        BY DEF Charged
      <4>3. UploadState(Charged(intents[i])) =
              [status |-> IF status = "FAILED" THEN "FAILED" ELSE "ACCEPTED", hash |-> None]
        BY <4>1, <4>2, FreedState
      <4>4. i \in given <=> status = "FAILED"
        BY <3>2, <4>2 DEF FreedRow
      <4>5. Shown'[i] = UploadState(Charged(intents[i])) /\ Shown[i] = UploadState(intents[i])
        BY <2>1, <3>2 DEF Shown
      <4> QED
        BY <4>1, <4>3, <4>4, <4>5
    <3> QED
      BY <3>1, <3>2
  <2>3. Shown' = [i \in Intent |-> IF i \in given THEN [status |-> "FAILED", hash |-> None] ELSE Shown[i]]
    BY <2>2 DEF Shown
  <2>4. UNCHANGED <<documents, puts>>
    BY <1>9 DEF RecoverStaleIntents, buckets
  <2>5. Lifecycle!Fail(given)
    BY <2>2, <2>3, <2>4 DEF Lifecycle!Fail, Shown
  <2>6. given \in SUBSET Intent
    OBVIOUS
  <2> QED
    BY <2>5, <2>6 DEF Lifecycle!Next
<1>10. CASE UNCHANGED <<intents, documents, puts>>
  BY <1>10
<1> QED
  BY <1>1, <1>2, <1>3, <1>4, <1>5, <1>6, <1>7, <1>8, <1>9, <1>10
     DEF Next, JobStep, ExistsInUploadBucket, HashUploadObject, CopyObject,
         ExistsInIngestionBucket, RemoveObject, StepFails, StoreWriteFails, Crash,
         Tick, Confirm, GetUploadStatus, vars, table, buckets

(* Claims, retries, racing requests and lost claims together show an       *)
(* upload nothing but the life cycle: open, accepted or expired once, then *)
(* linked for good to bytes its client PUT, or failed for good.            *)
THEOREM UploadImplementsLifecycle == Spec => ImplementsLifecycle
<1>1. Init => Lifecycle!Init
  BY DEF Init, Lifecycle!Init, UploadState
<1>2. BucketsInv /\ [Next]_vars => [Lifecycle!Next]_(Lifecycle!lifecycleVars)
  BY LifecycleStep
<1> QED
  BY <1>1, <1>2, BucketsInvariant, PTL DEF Spec, ImplementsLifecycle, Lifecycle!Spec
=============================================================================
