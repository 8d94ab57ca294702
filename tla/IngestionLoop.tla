--------------------------- MODULE IngestionLoop ---------------------------
(***************************************************************************)
(* The center service's ingestion loop: the document_store and outbox      *)
(* tables, the outbox workers and their sweeper, the two Redis streams     *)
(* (ingest.docs and ingest.status) and the application of status events.   *)
(*                                                                         *)
(* SQLite has a single writer (db.go opens one connection), so every store *)
(* call is one atomic step; the steps of a worker between two store calls  *)
(* interleave with everything else.  A stream is the set of the events     *)
(* that were ever added to it: a consumer may be handed any of them, in    *)
(* any order, any number of times (pending entries are reclaimed, and a    *)
(* group that vanished is created again at ID 0 and replays the stream).   *)
(***************************************************************************)
EXTENDS Naturals, Sequences, FiniteSets

CONSTANTS
    Hash,           \* content hashes: the keys of document_store
    Worker,         \* outbox worker ids; a restarted process takes a fresh one
    NoWorker,       \* SQL NULL in outbox.claimed_by
    MaxAttempts,    \* [ingestion].max_attempts
    MaxRetries,     \* [go.outbox].max_retries
    BatchSize,      \* [go.outbox].batch_size
    MaxCrashes,     \* bound: how many worker ids may die
    MaxReports,     \* bound: distinct verdicts the RAG side gives one attempt
    MaxLost         \* bound: how many events may be lost at one time

(* Config.Validate and validateWorker refuse smaller values. *)
ASSUME ConfigAssumption ==
    /\ MaxAttempts \in Nat \ {0}
    /\ MaxRetries \in Nat \ {0}
    /\ BatchSize \in Nat \ {0}
    /\ NoWorker \notin Worker

VARIABLES
    documents,      \* document_store, by hash; "ABSENT" when there is no row
    outbox,         \* the outbox table; the AUTOINCREMENT id is the position
    ingest,         \* events added to the ingest stream
    statuses,       \* events added to the status stream
    lost,           \* events that no consumer will be handed any more
    worker          \* the local state of every outbox worker

vars == <<documents, outbox, ingest, statuses, lost, worker>>

-----------------------------------------------------------------------------
(* Data. *)

Attempt == 0 .. (MaxAttempts - 1)

DocumentStatus == {"ABSENT", "PROCESSING", "INDEXED", "FAILED"}
Document == [status : DocumentStatus, retries : Attempt]

OutboxStatus == {"PENDING", "CLAIMED", "PUBLISHED", "BLOCKED"}
OutboxRow == [hash : Hash, status : OutboxStatus,
              claimedBy : Worker \cup {NoWorker},
              stale : BOOLEAN,          \* claimed_at is before the cutoff
              retries : 0 .. MaxRetries]

(* FAILED splits in two by its retryable flag. *)
Verdict == {"INDEXED", "RETRYABLE", "PERMANENT"}
IngestEvent == [hash : Hash, attempts : Attempt]
StatusEvent == [hash : Hash, attempts : Attempt, verdict : Verdict]

Stage == {"pass", "document", "publish", "mark", "release", "block", "dead"}
OutboxWorker == [pc : Stage,
                 batch : SUBSET Nat,    \* candidate ids not yet handled
                 msg : Nat,             \* id of the claimed row, 0 if none
                 attempts : Attempt]    \* document.Retries as read

NewRow(h) == [hash |-> h, status |-> "PENDING", claimedBy |-> NoWorker,
              stale |-> FALSE, retries |-> 0]
ClaimedRow(row, w) == [hash |-> row.hash, status |-> "CLAIMED", claimedBy |-> w,
                       stale |-> FALSE, retries |-> row.retries]
(* status is set and claimed_by and claimed_at become NULL. *)
FreedRow(row, status, retries) ==
    [hash |-> row.hash, status |-> status, claimedBy |-> NoWorker,
     stale |-> FALSE, retries |-> retries]

(* A worker between messages, one that took row i, and one that died.      *)
Idle(s) == [pc |-> "pass", batch |-> s.batch, msg |-> 0, attempts |-> 0]
Handling(s, i) == [pc |-> "document", batch |-> s.batch \ {i}, msg |-> i, attempts |-> 0]
Dead == [pc |-> "dead", batch |-> {}, msg |-> 0, attempts |-> 0]

(* The rows of one document and the row of its latest attempt. *)
RowsOf(h) == {i \in DOMAIN outbox : outbox[i].hash = h}
Latest(i) == \A j \in DOMAIN outbox : outbox[j].hash = outbox[i].hash => j <= i

Finished(h) == documents[h].status \in {"INDEXED", "FAILED"}

-----------------------------------------------------------------------------
TypeOK ==
    /\ documents \in [Hash -> Document]
    /\ outbox \in Seq(OutboxRow)
    /\ ingest \subseteq IngestEvent
    /\ statuses \subseteq StatusEvent
    /\ lost \subseteq IngestEvent \cup StatusEvent
    /\ worker \in [Worker -> OutboxWorker]

Init ==
    /\ documents = [h \in Hash |-> [status |-> "ABSENT", retries |-> 0]]
    /\ outbox = << >>
    /\ ingest = {}
    /\ statuses = {}
    /\ lost = {}
    /\ worker = [w \in Worker |->
                   [pc |-> "pass", batch |-> {}, msg |-> 0, attempts |-> 0]]

-----------------------------------------------------------------------------
(* The hash worker's transaction: the document row and its first outbox    *)
(* row.  For a hash that is already there ON CONFLICT DO NOTHING applies   *)
(* and these two tables do not change.                                     *)

StartIngestion(h) ==
    /\ documents[h].status = "ABSENT"
    /\ documents' = [documents EXCEPT ![h] = [status |-> "PROCESSING", retries |-> 0]]
    /\ outbox' = Append(outbox, NewRow(h))
    /\ UNCHANGED <<ingest, statuses, lost, worker>>

-----------------------------------------------------------------------------
(* The outbox worker.                                                      *)

Pending == {i \in DOMAIN outbox : outbox[i].status = "PENDING"}

(* SELECT ... WHERE status = 'PENDING' ORDER BY created_at LIMIT BatchSize *)
Candidates == {i \in Pending : Cardinality({j \in Pending : j < i}) < BatchSize}

FetchCandidates(w) ==
    /\ worker[w].pc = "pass"
    /\ worker[w].batch = {}
    /\ Pending # {}
    /\ worker' = [worker EXCEPT ![w].batch = Candidates]
    /\ UNCHANGED <<documents, outbox, ingest, statuses, lost>>

(* The oldest candidate of the batch is next. *)
Oldest(w, i) == i \in worker[w].batch /\ \A j \in worker[w].batch : i <= j

ClaimOutboxMessage(w, i) ==
    /\ worker[w].pc = "pass"
    /\ Oldest(w, i)
    /\ IF outbox[i].status = "PENDING"
         THEN /\ outbox' = [outbox EXCEPT ![i] = ClaimedRow(@, w)]
              /\ worker' = [worker EXCEPT ![w] = Handling(@, i)]
         ELSE /\ worker' = [worker EXCEPT ![w].batch = @ \ {i}]
              /\ UNCHANGED outbox
    /\ UNCHANGED <<documents, ingest, statuses, lost>>

(* A claim that errors is logged and skipped; the row is fetched again.    *)
ClaimFails(w, i) ==
    /\ worker[w].pc = "pass"
    /\ Oldest(w, i)
    /\ worker' = [worker EXCEPT ![w].batch = @ \ {i}]
    /\ UNCHANGED <<documents, outbox, ingest, statuses, lost>>

(* processMessage reads the document: retries is read here and goes into   *)
(* the event that is published later.                                      *)
GetDocument(w) ==
    /\ worker[w].pc = "document"
    /\ LET doc == documents[outbox[worker[w].msg].hash] IN
         worker' = IF doc.status = "ABSENT"
                     THEN [worker EXCEPT ![w].pc = "block"]
                     ELSE [worker EXCEPT ![w] =
                             [pc |-> "publish", batch |-> @.batch, msg |-> @.msg,
                              attempts |-> doc.retries]]
    /\ UNCHANGED <<documents, outbox, ingest, statuses, lost>>

GetDocumentFails(w) ==
    /\ worker[w].pc = "document"
    /\ worker' = [worker EXCEPT ![w].pc = "release"]
    /\ UNCHANGED <<documents, outbox, ingest, statuses, lost>>

Event(w) == [hash |-> outbox[worker[w].msg].hash, attempts |-> worker[w].attempts]

PublishIngestionEvent(w) ==
    /\ worker[w].pc = "publish"
    /\ ingest' = ingest \cup {Event(w)}
    /\ lost' = lost \ {Event(w)}
    /\ worker' = [worker EXCEPT ![w].pc = "mark"]
    /\ UNCHANGED <<documents, outbox, statuses>>

(* Variant: an error from XADD is not noticed. *)
PublishFails_Marked(w) ==
    /\ worker[w].pc = "publish"
    /\ worker' = [worker EXCEPT ![w].pc = "mark"]
    /\ UNCHANGED <<documents, outbox, ingest, statuses, lost>>

(* XADD errors: it was refused, or it was done and its reply was lost.     *)
PublishFails(w) ==
    /\ worker[w].pc = "publish"
    /\ \/ UNCHANGED <<ingest, lost>>
       \/ /\ ingest' = ingest \cup {Event(w)}
          /\ lost' = lost \ {Event(w)}
    /\ worker' = [worker EXCEPT ![w].pc = "release"]
    /\ UNCHANGED <<documents, outbox, statuses>>

(* Variant: the update does not compare claimed_by. *)
Holds_AnyOwner(w, i) == outbox[i].status = "CLAIMED"

(* The fence of every later write of the worker. *)
Holds(w, i) == outbox[i].status = "CLAIMED" /\ outbox[i].claimedBy = w

MarkPublished(w) ==
    LET i == worker[w].msg IN
    /\ worker[w].pc = "mark"
    /\ outbox' = IF Holds(w, i)
                   THEN [outbox EXCEPT ![i] = FreedRow(@, "PUBLISHED", @.retries)]
                   ELSE outbox
    /\ worker' = [worker EXCEPT ![w] = Idle(@)]
    /\ UNCHANGED <<documents, ingest, statuses, lost>>

(* Variant: the retry limit is off by one. *)
Charged_OffByOne(row) ==
    FreedRow(row, IF row.retries >= MaxRetries THEN "BLOCKED" ELSE "PENDING", row.retries + 1)

(* A claim that ends without a publication is charged one retry; the row   *)
(* that has none left is BLOCKED.                                          *)
Charged(row) ==
    FreedRow(row, IF row.retries + 1 >= MaxRetries THEN "BLOCKED" ELSE "PENDING",
             row.retries + 1)

(* processMessage gives the claim up: ReleaseClaim charges it, MarkBlocked *)
(* is for a row whose document is gone.                                    *)
GivenUp(w, row) ==
    IF worker[w].pc = "block" THEN FreedRow(row, "BLOCKED", row.retries) ELSE Charged(row)

GiveUpClaim(w) ==
    LET i == worker[w].msg IN
    /\ worker[w].pc \in {"release", "block"}
    /\ outbox' = IF Holds(w, i) THEN [outbox EXCEPT ![i] = GivenUp(w, @)] ELSE outbox
    /\ worker' = [worker EXCEPT ![w] = Idle(@)]
    /\ UNCHANGED <<documents, ingest, statuses, lost>>

(* The last store call of a message errors: it is logged and the row stays *)
(* CLAIMED until the sweeper finds it.                                     *)
StoreWriteFails(w) ==
    /\ worker[w].pc \in {"mark", "release", "block"}
    /\ worker' = [worker EXCEPT ![w] = Idle(@)]
    /\ UNCHANGED <<documents, outbox, ingest, statuses, lost>>

(* The process of this worker dies; its next incarnation has another id.   *)
Crash(w) ==
    /\ worker[w].pc # "dead"
    /\ Cardinality({v \in Worker : worker[v].pc = "dead"}) < MaxCrashes
    /\ worker' = [worker EXCEPT ![w] = Dead]
    /\ UNCHANGED <<documents, outbox, ingest, statuses, lost>>

-----------------------------------------------------------------------------
(* The sweeper.  Nothing bounds the time between a claim and the worker's  *)
(* last store call (it runs on the worker's context, not the job's), so a  *)
(* claim of a live worker may grow stale as well as that of a dead one.    *)

ClaimAges(i) ==
    /\ outbox[i].status = "CLAIMED"
    /\ ~ outbox[i].stale
    /\ outbox' = [outbox EXCEPT ![i].stale = TRUE]
    /\ UNCHANGED <<documents, ingest, statuses, lost, worker>>

Stale(row) == row.status = "CLAIMED" /\ row.stale

RecoverStaleOutbox ==
    /\ \E i \in DOMAIN outbox : Stale(outbox[i])
    /\ outbox' = [i \in DOMAIN outbox |->
                    IF Stale(outbox[i]) THEN Charged(outbox[i]) ELSE outbox[i]]
    /\ UNCHANGED <<documents, ingest, statuses, lost, worker>>

-----------------------------------------------------------------------------
(* The RAG consumer: a delivered ingest event is answered with a status    *)
(* event that echoes its attempt number.  An event delivered twice may be  *)
(* answered twice, and differently.                                        *)

Reports(e) == {s \in statuses : s.hash = e.hash /\ s.attempts = e.attempts}

StatusOf(e, v) == [hash |-> e.hash, attempts |-> e.attempts, verdict |-> v]

ReportStatus(e, v) ==
    /\ e \in ingest \ lost
    /\ \/ Cardinality(Reports(e)) < MaxReports
       \/ StatusOf(e, v) \in statuses
    /\ statuses' = statuses \cup {StatusOf(e, v)}
    /\ lost' = lost \ {StatusOf(e, v)}
    /\ UNCHANGED <<documents, outbox, ingest, worker>>

(* A stream entry is trimmed while unread or pending, or dropped as poison. *)
LoseEvent(e) ==
    /\ e \in (ingest \cup statuses) \ lost
    /\ Cardinality(lost) < MaxLost
    /\ lost' = lost \cup {e}
    /\ UNCHANGED <<documents, outbox, ingest, statuses, worker>>

-----------------------------------------------------------------------------
(* The status consumer applies a delivered event.  An event that matches   *)
(* no PROCESSING document at that attempt changes nothing.                 *)

(* Variants: the compare-and-swap without its retries term, and with the   *)
(* status term it had before (status != 'INDEXED').                        *)
Current_AnyAttempt(s) == documents[s.hash].status = "PROCESSING"
Current_NotIndexed(s) ==
    /\ documents[s.hash].status \in {"PROCESSING", "FAILED"}
    /\ documents[s.hash].retries = s.attempts

Current(s) ==
    /\ documents[s.hash].status = "PROCESSING"
    /\ documents[s.hash].retries = s.attempts

ApplyIndexed(s) ==
    /\ s \in statuses \ lost
    /\ s.verdict = "INDEXED"
    /\ Current(s)
    /\ documents' = [documents EXCEPT ![s.hash].status = "INDEXED"]
    /\ UNCHANGED <<outbox, ingest, statuses, lost, worker>>

Retry(s) == s.verdict = "RETRYABLE" /\ s.attempts + 1 < MaxAttempts

(* Variant: the retry is counted but its outbox row is not inserted.       *)
ApplyFailed_NoRow(s) ==
    /\ s \in statuses \ lost
    /\ s.verdict # "INDEXED"
    /\ Current(s)
    /\ documents' = IF Retry(s)
                      THEN [documents EXCEPT ![s.hash].retries = s.attempts + 1]
                      ELSE [documents EXCEPT ![s.hash].status = "FAILED"]
    /\ UNCHANGED <<outbox, ingest, statuses, lost, worker>>

ApplyFailed(s) ==
    /\ s \in statuses \ lost
    /\ s.verdict # "INDEXED"
    /\ Current(s)
    /\ IF Retry(s)
         THEN /\ documents' = [documents EXCEPT ![s.hash].retries = s.attempts + 1]
              /\ outbox' = Append(outbox, NewRow(s.hash))
         ELSE /\ documents' = [documents EXCEPT ![s.hash].status = "FAILED"]
              /\ UNCHANGED outbox
    /\ UNCHANGED <<ingest, statuses, lost, worker>>

-----------------------------------------------------------------------------
WorkerStep(w) ==
    \/ FetchCandidates(w)
    \/ \E i \in worker[w].batch : ClaimOutboxMessage(w, i) \/ ClaimFails(w, i)
    \/ GetDocument(w)
    \/ GetDocumentFails(w)
    \/ PublishIngestionEvent(w)
    \/ PublishFails(w)
    \/ MarkPublished(w)
    \/ GiveUpClaim(w)
    \/ StoreWriteFails(w)
    \/ Crash(w)

Next ==
    \/ \E h \in Hash : StartIngestion(h)
    \/ \E w \in Worker : WorkerStep(w)
    \/ \E i \in DOMAIN outbox : ClaimAges(i)
    \/ RecoverStaleOutbox
    \/ \E e \in ingest, v \in Verdict : ReportStatus(e, v)
    \/ \E e \in ingest \cup statuses : LoseEvent(e)
    \/ \E s \in statuses : ApplyIndexed(s) \/ ApplyFailed(s)

Spec == Init /\ [][Next]_vars

(* The tickers of the worker loop, the sweeper and the two consumers keep  *)
(* firing.  A store that fails some claims does not fail every one of them *)
(* (strong fairness).  Nothing is assumed of crashes, errors and losses.   *)
Fairness ==
    /\ \A w \in Worker :
         WF_vars(FetchCandidates(w) \/ GetDocument(w) \/ PublishIngestionEvent(w)
                   \/ MarkPublished(w) \/ GiveUpClaim(w))
    /\ SF_vars(\E w \in Worker : \E i \in worker[w].batch : ClaimOutboxMessage(w, i))
    /\ WF_vars(\E i \in DOMAIN outbox : ClaimAges(i))
    /\ WF_vars(RecoverStaleOutbox)
    /\ \A h \in Hash, a \in Attempt :
         WF_vars(LET e == [hash |-> h, attempts |-> a] IN
                   (e \in ingest /\ Reports(e) \subseteq lost)
                      /\ \E v \in Verdict : ReportStatus(e, v))
    /\ WF_vars(\E s \in statuses : ApplyIndexed(s) \/ ApplyFailed(s))

FairSpec == Spec /\ Fairness
-----------------------------------------------------------------------------
(* Safety.                                                                 *)

(* Every attempt has exactly one outbox row: the row of attempt 0 comes    *)
(* with the document, and a FAILED event that queues a retry adds one, no  *)
(* matter how often or in which order status events are delivered          *)
(* (ApplyFailed's compare-and-swap and insert in one transaction).         *)
OneRowPerAttempt ==
    \A h \in Hash :
      Cardinality(RowsOf(h)) =
        IF documents[h].status = "ABSENT" THEN 0 ELSE documents[h].retries + 1

(* A document never waits for an attempt that nobody was told about: when  *)
(* the row of its current attempt is PUBLISHED, the ingest stream was      *)
(* given an event with exactly that attempt number, although the number is *)
(* read from the document at publish time, by workers that may have lost   *)
(* their claim, and not from the row (publishMessage).                     *)
NoLostAttempt ==
    \A i \in DOMAIN outbox :
      LET doc == documents[outbox[i].hash] IN
        (doc.status = "PROCESSING" /\ Latest(i) /\ outbox[i].status = "PUBLISHED") =>
          [hash |-> outbox[i].hash, attempts |-> doc.retries] \in ingest

(* No event runs ahead of its document: the attempt numbers on the ingest  *)
(* stream, on the status stream and in the hands of a worker are ones the  *)
(* document has reached, and a status answers an event that was published. *)
NoEventAhead ==
    /\ \A e \in ingest : /\ documents[e.hash].status # "ABSENT"
                         /\ e.attempts <= documents[e.hash].retries
    /\ \A s \in statuses : [hash |-> s.hash, attempts |-> s.attempts] \in ingest
    /\ \A w \in Worker : worker[w].pc = "publish" =>
                           Event(w).attempts <= documents[Event(w).hash].retries

(* Whatever was delivered late, twice or out of order, a document's state  *)
(* follows from verdicts about its own attempts: every attempt before the  *)
(* current one was reported as a retryable failure, INDEXED rests on an    *)
(* INDEXED report of the current attempt, and FAILED on a failure of it    *)
(* that was permanent or came on the last attempt.                         *)
Reported(h, a, v) == [hash |-> h, attempts |-> a, verdict |-> v] \in statuses

JustifiedOutcome ==
    \A h \in Hash :
      LET r == documents[h].retries IN
        /\ \A a \in Attempt : a < r => Reported(h, a, "RETRYABLE")
        /\ documents[h].status = "INDEXED" => Reported(h, r, "INDEXED")
        /\ documents[h].status = "FAILED" =>
             \/ Reported(h, r, "PERMANENT")
             \/ Reported(h, r, "RETRYABLE") /\ r + 1 = MaxAttempts

(* A row is BLOCKED exactly when what the sweeper and its workers charged  *)
(* it has reached MaxRetries, whatever mixture of the two it was; and      *)
(* markBlocked's branch for a missing document, which would block a row    *)
(* before that, is never taken.                                            *)
RetryBudget ==
    /\ \A i \in DOMAIN outbox :
         (outbox[i].status = "BLOCKED") <=> (outbox[i].retries >= MaxRetries)
    /\ \A w \in Worker : worker[w].pc # "block"

(* A claim is ended only by the worker that took it, at the end of its     *)
(* handling of that row, or by the sweeper once it is stale; in particular *)
(* a worker that comes back late never ends the claim of its successor     *)
(* (the claimed_by fence of MarkPublished, ReleaseClaim and MarkBlocked).  *)
ClaimEndsByOwner ==
    [][\A i \in DOMAIN outbox :
         (outbox[i].status = "CLAIMED" /\ outbox'[i].status # "CLAIMED") =>
           \/ Stale(outbox[i]) /\ outbox'[i].status # "PUBLISHED"
           \/ LET w == outbox[i].claimedBy IN
                /\ worker[w].msg = i
                /\ worker[w].pc \in {"mark", "release", "block"}
                /\ worker'[w].pc = "pass"]_vars

(* What the proofs add to make these inductive: a row has a document, a    *)
(* document without a row is at attempt 0, a worker's rows exist, the      *)
(* attempt a worker read is the current one as long as its row is the      *)
(* latest of its document, and the event of a worker that is about to mark *)
(* its row is on the stream.                                               *)
RowsLinked ==
    /\ \A h \in Hash : documents[h].status = "ABSENT" => documents[h].retries = 0
    /\ \A i \in DOMAIN outbox : documents[outbox[i].hash].status # "ABSENT"
    /\ \A w \in Worker :
         /\ worker[w].batch \subseteq DOMAIN outbox
         /\ worker[w].pc \in {"document", "publish", "mark", "release"} =>
              worker[w].msg \in DOMAIN outbox

ReadIsFresh ==
    \A w \in Worker : worker[w].pc \in {"publish", "mark"} =>
      /\ Event(w).attempts <= documents[Event(w).hash].retries
      /\ Latest(worker[w].msg) => Event(w).attempts = documents[Event(w).hash].retries
      /\ worker[w].pc = "mark" => Event(w) \in ingest

PublishedIsDelivered ==
    \A i \in DOMAIN outbox : (Latest(i) /\ outbox[i].status = "PUBLISHED") =>
      [hash |-> outbox[i].hash, attempts |-> documents[outbox[i].hash].retries] \in ingest

(* The inductive invariant: whatever a worker does after its reads, it acts *)
(* on an attempt its document has reached, and on the current one whenever  *)
(* that matters (publishMessage's read of document.Retries).                *)
InductiveInvariant ==
    /\ TypeOK
    /\ RowsLinked
    /\ ReadIsFresh
    /\ PublishedIsDelivered
    /\ NoEventAhead
    /\ RetryBudget

(* The loop implements the life cycle the center promises.                 *)
Lifecycle == INSTANCE DocumentLifecycle WITH issued <- ingest, reported <- statuses
ImplementsLifecycle == Lifecycle!Spec

-----------------------------------------------------------------------------
(* Liveness.                                                               *)

(* The two ways a document stays PROCESSING that the backlog names: the    *)
(* row of its current attempt is BLOCKED (B1), or an event of that attempt *)
(* was lost (B2).                                                          *)
Abandoned(h) ==
    \/ \E i \in RowsOf(h) : Latest(i) /\ outbox[i].status = "BLOCKED"
    \/ \E e \in lost : e.hash = h /\ e.attempts = documents[h].retries

(* There is no third way: a document that was registered is INDEXED or     *)
(* FAILED in the end, or is abandoned in one of these two ways, however    *)
(* workers crash, calls fail and claims are swept.                         *)
EveryDocumentSettles ==
    \A h \in Hash :
      documents[h].status = "PROCESSING" ~> (Finished(h) \/ Abandoned(h))
=============================================================================
