------------------------------- MODULE Upload -------------------------------
(***************************************************************************)
(* The center service's upload side: the upload_intent table, the HTTP     *)
(* calls that create, confirm and poll an intent, the hash workers with    *)
(* their sweeper, and the two buckets.  A client PUTs an object into the   *)
(* upload bucket with a presigned URL; a worker hashes it, copies it into  *)
(* the ingestion bucket under its hash, removes the original and records   *)
(* the document in one transaction with the intent.                        *)
(*                                                                         *)
(* A store call and a bucket call are one step each; everything interleaves *)
(* between them.  SHA-256 is taken to be injective: the hash of some bytes *)
(* stands for the bytes.                                                   *)
(***************************************************************************)
EXTENDS Naturals, FiniteSets

CONSTANTS
    Intent,         \* uuids of upload intents
    Hash,           \* contents, named by their hash
    Worker,         \* hash worker ids; a restarted process takes a fresh one
    Call,           \* HTTP requests to confirm or poll an intent
    None,           \* SQL NULL, and a key without an object
    Window,         \* how long after its creation an intent expires
    MaxRetries,     \* [go.hash].max_retries
    MaxClock,       \* bound: the last instant that is told apart
    MaxPuts,        \* bound: contents PUT, counted once per presigned URL
    MaxCrashes      \* bound: how many worker ids may die

ASSUME ConfigAssumption ==
    /\ MaxRetries \in Nat \ {0}
    /\ Window \in Nat \ {0}
    /\ MaxClock \in Nat
    /\ None \notin Worker \cup Hash

VARIABLES
    clock,          \* the time of the process
    intents,        \* upload_intent, by uuid; "ABSENT" when there is no row
    documents,      \* hashes that have a document_store row
    temp,           \* the upload bucket, by intent
    perm,           \* the ingestion bucket, by hash
    puts,           \* by intent: the contents that were PUT so far
    worker,         \* the local state of every hash worker
    call            \* the local state of every request

table == <<intents, documents>>
buckets == <<temp, perm, puts>>
vars == <<clock, table, buckets, worker, call>>

-----------------------------------------------------------------------------
(* Data. *)

Time == 0 .. MaxClock

IntentState == {"ABSENT", "WAITING", "UPLOADED", "HASHING", "HASHED", "EXPIRED", "FAILED"}
Accepted == {"UPLOADED", "HASHING", "HASHED"}

IntentRow == [status : IntentState,
              expiresAt : 0 .. (MaxClock + Window),
              hash : Hash \cup {None},
              claimedBy : Worker \cup {None},
              stale : BOOLEAN,              \* claimed_at is before the cutoff
              retries : 0 .. MaxRetries]

Stage == {"pass", "exists", "hash", "copy", "verify", "remove", "record",
          "release", "fail", "dead"}
HashWorker == [pc : Stage, intent : Intent \cup {None}, hash : Hash \cup {None}]

CallStage == {"new", "gate", "resolve", "expire", "status", "done"}
Answer == {"none", "accepted", "expired", "failed", "error",     \* confirm
           "WAITING", "UPLOADED", "PROCESSING", "DOCUMENT", "EXPIRED", "FAILED"}  \* poll
Request == [pc : CallStage, intent : Intent \cup {None}, now : Time, answer : Answer]

(* The claim ends: claimed_by and claimed_at become NULL.                  *)
FreedRow(row, status, retries) ==
    [status |-> status, expiresAt |-> row.expiresAt, hash |-> row.hash,
     claimedBy |-> None, stale |-> FALSE, retries |-> retries]

Idle == [pc |-> "pass", intent |-> None, hash |-> None]
At(s, pc) == [pc |-> pc, intent |-> s.intent, hash |-> s.hash]
Step(r, pc) == [pc |-> pc, intent |-> r.intent, now |-> r.now, answer |-> "none"]
Reply(r, answer) == [pc |-> "done", intent |-> r.intent, now |-> r.now, answer |-> answer]

-----------------------------------------------------------------------------
TypeOK ==
    /\ clock \in Time
    /\ intents \in [Intent -> IntentRow]
    /\ documents \subseteq Hash
    /\ temp \in [Intent -> Hash \cup {None}]
    /\ perm \in [Hash -> Hash \cup {None}]
    /\ puts \in [Intent -> SUBSET Hash]
    /\ worker \in [Worker -> HashWorker]
    /\ call \in [Call -> Request]

Init ==
    /\ clock = 0
    /\ intents = [i \in Intent |-> [status |-> "ABSENT", expiresAt |-> 0, hash |-> None,
                                    claimedBy |-> None, stale |-> FALSE, retries |-> 0]]
    /\ documents = {}
    /\ temp = [i \in Intent |-> None]
    /\ perm = [h \in Hash |-> None]
    /\ puts = [i \in Intent |-> {}]
    /\ worker = [w \in Worker |-> Idle]
    /\ call = [c \in Call |-> [pc |-> "new", intent |-> None, now |-> 0, answer |-> "none"]]

Tick ==
    /\ clock < MaxClock
    /\ clock' = clock + 1
    /\ UNCHANGED <<table, buckets, worker, call>>

-----------------------------------------------------------------------------
(* POST /upload, and the client's PUT.                                     *)

CreateIntent(i) ==
    /\ intents[i].status = "ABSENT"
    /\ intents' = [intents EXCEPT ![i] =
                     [status |-> "WAITING", expiresAt |-> clock + Window, hash |-> None,
                      claimedBy |-> None, stale |-> FALSE, retries |-> 0]]
    /\ UNCHANGED <<clock, documents, buckets, worker, call>>

(* The bucket checks the presigned URL when a PUT begins; its body may end *)
(* at any later time, and the client may PUT again.                        *)
Put(i, content) ==
    /\ intents[i].status # "ABSENT"
    /\ \/ content \in puts[i]
       \/ Cardinality(UNION {{j} \X puts[j] : j \in Intent}) < MaxPuts
    /\ temp' = [temp EXCEPT ![i] = content]
    /\ puts' = [puts EXCEPT ![i] = @ \cup {content}]
    /\ UNCHANGED <<clock, table, perm, worker, call>>

-----------------------------------------------------------------------------
(* POST /upload/{id}/confirm.  The time is read once, at the start, and is *)
(* compared with expires_at by the statements that follow.                 *)

Confirm(c, i) ==
    /\ call[c].pc = "new"
    /\ intents[i].status # "ABSENT"
    /\ call' = [call EXCEPT ![c] = [pc |-> "gate", intent |-> i, now |-> clock,
                                    answer |-> "none"]]
    /\ UNCHANGED <<clock, table, buckets, worker>>

UpdateIntentToUploaded(c) ==
    LET r == call[c]
        passes == /\ intents[r.intent].status = "WAITING"
                  /\ intents[r.intent].expiresAt > r.now IN
    /\ r.pc = "gate"
    /\ intents' = IF passes THEN [intents EXCEPT ![r.intent].status = "UPLOADED"] ELSE intents
    /\ call' = [call EXCEPT ![c] = IF passes THEN Reply(@, "accepted") ELSE Step(@, "resolve")]
    /\ UNCHANGED <<clock, documents, buckets, worker>>

(* resolveLostGate: the row that was not updated tells why. *)
GetIntent(c) ==
    LET status == intents[call[c].intent].status IN
    /\ call[c].pc = "resolve"
    /\ call' = [call EXCEPT ![c] =
                  CASE status = "EXPIRED" -> Reply(@, "expired")
                    [] status \in Accepted -> Reply(@, "accepted")
                    [] status = "FAILED" -> Reply(@, "failed")
                    [] OTHER -> Step(@, "expire")]
    /\ UNCHANGED <<clock, table, buckets, worker>>

(* Variants: the update does not look at the status it read before, and    *)
(* the comparison with expires_at is strict.                               *)
Expires_AnyStatus(row, now) == row.expiresAt <= now
Expires_Strictly(row, now) == row.status = "WAITING" /\ row.expiresAt < now

Expires(row, now) == row.status = "WAITING" /\ row.expiresAt <= now

UpdateIntentToExpired(c) ==
    LET r == call[c]
        i == r.intent IN
    /\ r.pc = "expire"
    /\ IF Expires(intents[i], r.now)
         THEN /\ intents' = [intents EXCEPT ![i].status = "EXPIRED"]
              /\ call' = [call EXCEPT ![c] = Reply(@, "expired")]
         ELSE /\ call' = [call EXCEPT ![c] = Step(@, "resolve")]
              /\ UNCHANGED intents
    /\ UNCHANGED <<clock, documents, buckets, worker>>

(* A store call errors, or the client is gone; the gate may have been      *)
(* passed when the row is read again for the reply.                        *)
CallFails(c) ==
    /\ call[c].pc \in {"gate", "resolve", "expire", "status"}
    /\ call' = [call EXCEPT ![c] = Reply(@, "error")]
    /\ \/ UNCHANGED intents
       \/ /\ call[c].pc = "gate"
          /\ intents[call[c].intent].status = "WAITING"
          /\ intents[call[c].intent].expiresAt > call[c].now
          /\ intents' = [intents EXCEPT ![call[c].intent].status = "UPLOADED"]
    /\ UNCHANGED <<clock, documents, buckets, worker>>

-----------------------------------------------------------------------------
(* GET /upload/{id}: the row is read first, the time after it.             *)

RowShows(row) ==
    CASE row.hash # None -> "DOCUMENT"      \* the status of the document
      [] row.hash = None /\ row.status \in {"HASHED", "HASHING"} -> "PROCESSING"
      [] OTHER -> row.status

GetUploadStatus(c, i) ==
    /\ call[c].pc = "new"
    /\ intents[i].status # "ABSENT"
    /\ call' = [call EXCEPT ![c] = [pc |-> "status", intent |-> i, now |-> 0,
                                    answer |-> RowShows(intents[i])]]
    /\ UNCHANGED <<clock, table, buckets, worker>>

(* Variant: WAITING until the time is past expires_at. *)
WindowOver_Later(i, now) == now > intents[i].expiresAt

WindowOver(i, now) == now >= intents[i].expiresAt

AnswerStatus(c) ==
    LET r == call[c] IN
    /\ r.pc = "status"
    /\ call' = [call EXCEPT ![c] =
                  [pc |-> "done", intent |-> r.intent, now |-> clock,
                   answer |-> IF r.answer = "WAITING" /\ WindowOver(r.intent, clock)
                                THEN "EXPIRED" ELSE r.answer]]
    /\ UNCHANGED <<clock, table, buckets, worker>>

-----------------------------------------------------------------------------
(* The hash worker.  The candidates of a pass are only a hint: the claim   *)
(* compares the status again, and a candidate that is gone is skipped.     *)

UpdateIntentToHashing(w, i) ==
    /\ worker[w].pc = "pass"
    /\ intents[i].status = "UPLOADED"
    /\ intents' = [intents EXCEPT ![i] =
                     [status |-> "HASHING", expiresAt |-> @.expiresAt, hash |-> @.hash,
                      claimedBy |-> w, stale |-> FALSE, retries |-> @.retries]]
    /\ worker' = [worker EXCEPT ![w] = [pc |-> "exists", intent |-> i, hash |-> None]]
    /\ UNCHANGED <<clock, documents, buckets, call>>

ExistsInUploadBucket(w) ==
    LET s == worker[w] IN
    /\ s.pc = "exists"
    /\ worker' = [worker EXCEPT ![w] =
                    At(@, IF temp[s.intent] = None THEN "fail" ELSE "hash")]
    /\ UNCHANGED <<clock, table, buckets, call>>

(* An object that is gone by now is an error like any other, not           *)
(* ErrNoTempObject.                                                        *)
HashUploadObject(w) ==
    LET s == worker[w] IN
    /\ s.pc = "hash"
    /\ worker' = [worker EXCEPT ![w] =
                    [pc |-> IF temp[s.intent] = None THEN "release" ELSE "copy",
                     intent |-> s.intent, hash |-> temp[s.intent]]]
    /\ UNCHANGED <<clock, table, buckets, call>>

(* MigrateToIngestion: what is copied is what the key holds now.           *)
CopyObject(w) ==
    LET s == worker[w] IN
    /\ s.pc = "copy"
    /\ IF temp[s.intent] = None
         THEN /\ worker' = [worker EXCEPT ![w] = At(@, "release")]
              /\ UNCHANGED perm
         ELSE /\ perm' = [perm EXCEPT ![s.hash] = temp[s.intent]]
              /\ worker' = [worker EXCEPT ![w] = At(@, "verify")]
    /\ UNCHANGED <<clock, table, temp, puts, call>>

ExistsInIngestionBucket(w) ==
    LET s == worker[w] IN
    /\ s.pc = "verify"
    /\ worker' = [worker EXCEPT ![w] =
                    At(@, IF perm[s.hash] = None THEN "release" ELSE "remove")]
    /\ UNCHANGED <<clock, table, buckets, call>>

(* Removing a key without an object is no error.                           *)
RemoveObject(w) ==
    /\ worker[w].pc = "remove"
    /\ temp' = [temp EXCEPT ![worker[w].intent] = None]
    /\ worker' = [worker EXCEPT ![w] = At(@, "record")]
    /\ UNCHANGED <<clock, table, perm, puts, call>>

(* Variant: the update does not compare claimed_by. *)
Holds_AnyOwner(w) == intents[worker[w].intent].status = "HASHING"

(* The fence of every later write of the worker. *)
Holds(w) ==
    /\ intents[worker[w].intent].status = "HASHING"
    /\ intents[worker[w].intent].claimedBy = w

(* Variant: a lost claim does not roll the document back. *)
StartIngestion_NoRollback(w) ==
    LET s == worker[w] IN
    /\ s.pc = "record"
    /\ documents' = documents \cup {s.hash}
    /\ intents' = IF Holds(w)
                    THEN [intents EXCEPT ![s.intent] =
                            [status |-> "HASHED", expiresAt |-> @.expiresAt, hash |-> s.hash,
                             claimedBy |-> @.claimedBy, stale |-> @.stale,
                             retries |-> @.retries]]
                    ELSE intents
    /\ worker' = [worker EXCEPT ![w] = Idle]
    /\ UNCHANGED <<clock, buckets, call>>

(* One transaction: the document unless its hash is known, and the intent. *)
(* ErrLostClaim rolls both back.  The claim's columns stay as they are.    *)
StartIngestion(w) ==
    LET s == worker[w] IN
    /\ s.pc = "record"
    /\ IF Holds(w)
         THEN /\ documents' = documents \cup {s.hash}
              /\ intents' = [intents EXCEPT ![s.intent] =
                               [status |-> "HASHED", expiresAt |-> @.expiresAt,
                                hash |-> s.hash, claimedBy |-> @.claimedBy,
                                stale |-> @.stale, retries |-> @.retries]]
         ELSE UNCHANGED <<intents, documents>>
    /\ worker' = [worker EXCEPT ![w] = Idle]
    /\ UNCHANGED <<clock, buckets, call>>

(* Variant: the error of a copy is not looked at. *)
AfterFailure_CopyIgnored(pc) == IF pc = "copy" THEN "remove" ELSE "release"

(* Every error but ErrNoTempObject returns to process, which releases.     *)
AfterFailure(pc) == "release"

(* A step of hashAndRecord errors or times out; a copy or a removal may    *)
(* have been done all the same.                                            *)
StepFails(w) ==
    LET s == worker[w] IN
    /\ s.pc \in {"exists", "hash", "copy", "verify", "remove", "record"}
    /\ worker' = [worker EXCEPT ![w] = At(@, AfterFailure(s.pc))]
    /\ \/ UNCHANGED <<temp, perm>>
       \/ /\ s.pc = "copy" /\ temp[s.intent] # None
          /\ perm' = [perm EXCEPT ![s.hash] = temp[s.intent]]
          /\ UNCHANGED temp
       \/ /\ s.pc = "remove"
          /\ temp' = [temp EXCEPT ![s.intent] = None]
          /\ UNCHANGED perm
    /\ UNCHANGED <<clock, table, puts, call>>

(* Variant: the retry is not counted. *)
Charged_Uncounted(row) ==
    FreedRow(row, IF row.retries + 1 >= MaxRetries THEN "FAILED" ELSE "UPLOADED", row.retries)

Charged(row) ==
    FreedRow(row, IF row.retries + 1 >= MaxRetries THEN "FAILED" ELSE "UPLOADED",
             row.retries + 1)

ReleaseIntentClaim(w) ==
    /\ worker[w].pc = "release"
    /\ intents' = IF Holds(w) THEN [intents EXCEPT ![worker[w].intent] = Charged(@)]
                              ELSE intents
    /\ worker' = [worker EXCEPT ![w] = Idle]
    /\ UNCHANGED <<clock, documents, buckets, call>>

(* ErrNoTempObject. *)
MarkIntentFailed(w) ==
    /\ worker[w].pc = "fail"
    /\ intents' = IF Holds(w)
                    THEN [intents EXCEPT ![worker[w].intent] = FreedRow(@, "FAILED", @.retries)]
                    ELSE intents
    /\ worker' = [worker EXCEPT ![w] = Idle]
    /\ UNCHANGED <<clock, documents, buckets, call>>

(* The write that ends the claim errors: it is logged, the row stays        *)
(* HASHING until the sweeper finds it.                                     *)
StoreWriteFails(w) ==
    /\ worker[w].pc \in {"release", "fail"}
    /\ worker' = [worker EXCEPT ![w] = Idle]
    /\ UNCHANGED <<clock, table, buckets, call>>

Crash(w) ==
    /\ worker[w].pc # "dead"
    /\ Cardinality({v \in Worker : worker[v].pc = "dead"}) < MaxCrashes
    /\ worker' = [worker EXCEPT ![w] = [pc |-> "dead", intent |-> None, hash |-> None]]
    /\ UNCHANGED <<clock, table, buckets, call>>

-----------------------------------------------------------------------------
(* The sweeper.  job_timeout < stale_threshold (Config.Validate) keeps a   *)
(* job from outliving its claim only while the process runs: one that is   *)
(* suspended, or waits for the database in the write that ends the claim,  *)
(* comes back to a claim that was swept.                                   *)

ClaimAges(i) ==
    /\ intents[i].status = "HASHING"
    /\ ~ intents[i].stale
    /\ intents' = [intents EXCEPT ![i].stale = TRUE]
    /\ UNCHANGED <<clock, documents, buckets, worker, call>>

Stale(row) == row.status = "HASHING" /\ row.stale

RecoverStaleIntents ==
    /\ \E i \in Intent : Stale(intents[i])
    /\ intents' = [i \in Intent |-> IF Stale(intents[i]) THEN Charged(intents[i])
                                                        ELSE intents[i]]
    /\ UNCHANGED <<clock, documents, buckets, worker, call>>

-----------------------------------------------------------------------------
CallStep(c) ==
    \/ UpdateIntentToUploaded(c)
    \/ GetIntent(c)
    \/ UpdateIntentToExpired(c)
    \/ AnswerStatus(c)

JobStep(w) ==
    \/ ExistsInUploadBucket(w)
    \/ HashUploadObject(w)
    \/ CopyObject(w)
    \/ ExistsInIngestionBucket(w)
    \/ RemoveObject(w)
    \/ StartIngestion(w)
    \/ ReleaseIntentClaim(w)
    \/ MarkIntentFailed(w)

Next ==
    \/ Tick
    \/ \E i \in Intent : CreateIntent(i)
    \/ \E i \in Intent, content \in Hash : Put(i, content)
    \/ \E c \in Call, i \in Intent : Confirm(c, i) \/ GetUploadStatus(c, i)
    \/ \E c \in Call : CallStep(c) \/ CallFails(c)
    \/ \E w \in Worker, i \in Intent : UpdateIntentToHashing(w, i)
    \/ \E w \in Worker : JobStep(w) \/ StepFails(w) \/ StoreWriteFails(w) \/ Crash(w)
    \/ \E i \in Intent : ClaimAges(i)
    \/ RecoverStaleIntents

Spec == Init /\ [][Next]_vars

(* A request that was taken is worked on, the workers' and the sweeper's   *)
(* tickers keep firing, and a claim that nobody ends grows old.  Nothing   *)
(* is assumed of clients, errors, crashes and the clock.                   *)
Fairness ==
    /\ \A c \in Call : WF_vars(CallStep(c))
    /\ \A w \in Worker : /\ WF_vars(JobStep(w))
                         /\ WF_vars(\E i \in Intent : UpdateIntentToHashing(w, i))
    /\ WF_vars(\E i \in Intent : ClaimAges(i))
    /\ WF_vars(RecoverStaleIntents)

FairSpec == Spec /\ Fairness
-----------------------------------------------------------------------------
(* Safety.                                                                 *)

(* The RAG service can fetch what it is told to index: a document row is   *)
(* there only once an object is in the ingestion bucket under its key,     *)
(* whichever worker put it there (hashAndRecord records after the move).   *)
DocumentHasObject == \A h \in documents : perm[h] # None

(* No step of the move loses the bytes of an upload: what a client PUT is  *)
(* in the upload bucket, or something is in the ingestion bucket under its *)
(* hash, at every moment, with several workers on the same upload,         *)
(* failures and crashes between copy, verification and removal             *)
(* (MigrateToIngestion).  What is there are those bytes, except that a     *)
(* client that PUTs other bytes between hash and copy has them filed under *)
(* the hash of the first: nobody else can cause that, but those who        *)
(* uploaded the same document share the object.                            *)
UploadIsKept ==
    /\ \A i \in Intent, h \in Hash : puts[i] = {h} => temp[i] = h \/ perm[h] # None
    /\ \A h \in Hash :
         perm[h] \in {None, h} \/ \E i \in Intent : {h, perm[h]} \subseteq puts[i]

(* The invariants of the buckets, with the types of the state. *)
ObjectsAreKept == TypeOK /\ DocumentHasObject /\ UploadIsKept

(* What a confirm call answered stays true, although it compares a time it *)
(* read earlier and races other confirm calls: an upload that was accepted *)
(* does not expire, and one that was refused as expired or failed is never *)
(* accepted (the gates of ConfirmUpload and resolveLostGate).              *)
AnswersHold ==
    \A c \in Call :
      LET status == intents[call[c].intent].status IN
        /\ call[c].answer = "accepted" => status \in Accepted \cup {"FAILED"}
        /\ call[c].answer = "expired" => status = "EXPIRED"
        /\ call[c].answer = "failed" => status = "FAILED"

(* The poll never says WAITING for an upload the gate would refuse: once a *)
(* poll was told WAITING, confirm calls are refused as expired only when   *)
(* one of them began after that poll's time, also when all of them read    *)
(* the clock at expires_at exactly.  (A call that began earlier and reaches *)
(* the gate late may be overtaken by that one.)                            *)
PollMatchesGate ==
    \A p, c \in Call :
      (/\ call[p].pc = "done" /\ call[p].answer = "WAITING"
       /\ call[c].intent = call[p].intent /\ call[c].answer = "expired") =>
         \E d \in Call : /\ call[d].intent = call[p].intent /\ call[d].answer = "expired"
                         /\ call[p].now < call[d].now

(* A HASHING claim is ended only by the worker that took it, in its last   *)
(* step, or by the sweeper once it is stale (the claimed_by fence).        *)
ClaimEndsByOwner ==
    [][\A i \in Intent :
         (intents[i].status = "HASHING" /\ intents'[i].status # "HASHING") =>
           \/ Stale(intents[i]) /\ intents'[i].status # "HASHED"
           \/ LET w == intents[i].claimedBy IN
                /\ worker[w].intent = i
                /\ worker[w].pc \in {"record", "release", "fail"}
                /\ worker'[w].pc = "pass"]_vars

(* Claims, retries, races of requests and lost claims together show an     *)
(* upload nothing but the life cycle of UploadLifecycle; in particular a   *)
(* transaction that lost its claim leaves no document behind.              *)
UploadState(row) ==
    [status |-> CASE row.status = "WAITING" -> "OPEN"
                  [] row.status \in {"UPLOADED", "HASHING"} -> "ACCEPTED"
                  [] OTHER -> row.status,
     hash |-> row.hash]
Lifecycle == INSTANCE UploadLifecycle WITH
                 uploads <- [i \in Intent |-> UploadState(intents[i])]
ImplementsLifecycle == Lifecycle!Spec

-----------------------------------------------------------------------------
(* Liveness.                                                               *)

(* An upload that was accepted is linked to its document or FAILED in the  *)
(* end, however often steps fail, writes are lost and claims are swept.    *)
UploadSettles ==
    \A i \in Intent : intents[i].status = "UPLOADED" ~> intents[i].status \in {"HASHED", "FAILED"}

(* Every request is answered: resolveLostGate calls itself again when its  *)
(* update matches no row, and that comes to an end.                        *)
CallsAnswered ==
    \A c \in Call : call[c].pc \in {"gate", "resolve", "expire", "status"} ~> call[c].pc = "done"
=============================================================================
