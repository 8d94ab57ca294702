------------------------ MODULE IngestionLoopProofs ------------------------
(***************************************************************************)
(* Proofs about IngestionLoop, for every set of hashes and workers and     *)
(* every value of the limits: type correctness, the inductive invariant    *)
(* and the safety properties that follow from it.                          *)
(***************************************************************************)
EXTENDS IngestionLoop, SequenceTheorems, FiniteSetTheorems, TLAPS

(* INSERT INTO outbox: the new row gets the next id, the others stay.      *)
LEMMA InsertRow ==
  ASSUME outbox \in Seq(OutboxRow), NEW h \in Hash, NEW out,
         out = Append(outbox, NewRow(h))
  PROVE  /\ out \in Seq(OutboxRow)
         /\ Len(outbox) + 1 \notin DOMAIN outbox
         /\ DOMAIN out = DOMAIN outbox \cup {Len(outbox) + 1}
         /\ Len(outbox) + 1 \in Nat
         /\ \A i \in DOMAIN outbox : out[i] = outbox[i] /\ i < Len(outbox) + 1
         /\ out[Len(outbox) + 1] = NewRow(h)
<1>1. NewRow(h) \in OutboxRow
  BY ConfigAssumption DEF NewRow, OutboxRow, OutboxStatus
<1>2. Len(outbox) \in Nat /\ DOMAIN outbox = 1 .. Len(outbox)
  BY LenProperties
<1>3. /\ out \in Seq(OutboxRow)
      /\ Len(out) = Len(outbox) + 1
      /\ \A i \in 1 .. Len(outbox) : out[i] = outbox[i]
      /\ out[Len(outbox) + 1] = NewRow(h)
  BY <1>1, AppendProperties
<1>4. DOMAIN out = 1 .. (Len(outbox) + 1)
  BY <1>3, LenProperties
<1> QED
  BY <1>2, <1>3, <1>4

(* UPDATE outbox ... WHERE id = i: one row changes, its hash does not.     *)
LEMMA UpdateRow ==
  ASSUME outbox \in Seq(OutboxRow), NEW i \in DOMAIN outbox, NEW row \in OutboxRow, NEW out,
         out = [outbox EXCEPT ![i] = row]
  PROVE  /\ out \in Seq(OutboxRow)
         /\ DOMAIN out = DOMAIN outbox
         /\ \A j \in DOMAIN outbox : out[j] = IF j = i THEN row ELSE outbox[j]
<1>1. Len(outbox) \in Nat /\ DOMAIN outbox = 1 .. Len(outbox)
  BY LenProperties
<1>2. /\ out \in Seq(OutboxRow)
      /\ Len(out) = Len(outbox)
      /\ \A j \in 1 .. Len(outbox) : out[j] = IF j = i THEN row ELSE outbox[j]
  BY <1>1, ExceptSeq
<1>3. DOMAIN out = 1 .. Len(out)
  BY <1>2, LenProperties
<1> QED
  BY <1>1, <1>2, <1>3

(* The rows of the table are typed. *)
LEMMA RowType ==
  ASSUME outbox \in Seq(OutboxRow), NEW i \in DOMAIN outbox
  PROVE  outbox[i] \in OutboxRow /\ i \in Nat
BY LenProperties, ElementOfSeq

(* As long as no row is added and no row changes its hash, the latest rows *)
(* are the same ones.                                                      *)
LEMMA SameLatest ==
  ASSUME DOMAIN outbox' = DOMAIN outbox,
         \A i \in DOMAIN outbox : outbox'[i].hash = outbox[i].hash
  PROVE  \A i \in DOMAIN outbox : Latest(i)' <=> Latest(i)
BY DEF Latest

(* Charging a claim keeps the row typed and within its budget.             *)
LEMMA ChargedRow ==
  ASSUME NEW row \in OutboxRow, row.retries < MaxRetries
  PROVE  /\ Charged(row) \in OutboxRow
         /\ Charged(row).hash = row.hash
         /\ Charged(row).status \in {"PENDING", "BLOCKED"}
         /\ Charged(row).status = "BLOCKED" <=> Charged(row).retries >= MaxRetries
BY ConfigAssumption DEF Charged, FreedRow, OutboxRow, OutboxStatus

(* A worker that gives up its claim releases it: its document was there.   *)
Released(w) ==
    LET i == worker[w].msg IN
    /\ worker[w].pc = "release"
    /\ outbox' = IF Holds(w, i) THEN [outbox EXCEPT ![i] = Charged(@)] ELSE outbox
    /\ worker' = [worker EXCEPT ![w] = Idle(@)]
    /\ UNCHANGED <<documents, ingest, statuses, lost>>

(* The branch for a missing document is not reached. *)
LEMMA OnlyReleased ==
  ASSUME RetryBudget, NEW w \in Worker, GiveUpClaim(w)
  PROVE  Released(w)
BY DEF RetryBudget, GiveUpClaim, GivenUp, Released

(* An empty database and idle workers satisfy the invariant. *)
LEMMA InvariantInit ==
  ASSUME Init
  PROVE  InductiveInvariant
<1>1. Len(outbox) = 0 /\ DOMAIN outbox = {}
  BY EmptySeq, LenProperties DEF Init
<1>2. outbox \in Seq(OutboxRow)
  BY EmptySeq DEF Init
<1>3. TypeOK
  BY <1>2, ConfigAssumption DEF Init, TypeOK, Document, DocumentStatus, Attempt,
              OutboxWorker, Stage
<1> QED
  BY <1>1, <1>3 DEF Init, InductiveInvariant, RowsLinked, ReadIsFresh,
                    PublishedIsDelivered, NoEventAhead, RetryBudget

-----------------------------------------------------------------------------
(* The steps that leave document_store and the set of rows alone, all of   *)
(* them at once: rows may change their status within the budget and may    *)
(* become PUBLISHED only when the event of the current attempt is on the   *)
(* stream; a worker goes on to a step whose reads are justified.           *)

Ready(s) ==
    /\ s.batch \subseteq DOMAIN outbox
    /\ s.pc \in {"pass", "dead", "document", "release", "publish"}
    /\ s.pc \in {"document", "release", "publish"} => s.msg \in DOMAIN outbox
    /\ s.pc = "publish" => s.attempts = documents[outbox[s.msg].hash].retries

(* The worker was about to publish and its event is now on the stream.     *)
Delivered(v) ==
    /\ worker[v].pc = "publish"
    /\ worker'[v].pc = "mark"
    /\ worker'[v].batch = worker[v].batch
    /\ worker'[v].msg = worker[v].msg
    /\ worker'[v].attempts = worker[v].attempts
    /\ Event(v) \in ingest'

(* One row of the outbox changes, by the hand of one worker or none: the   *)
(* invariant survives when what is said of that row and of that worker     *)
(* does.                                                                   *)
LEMMA TableStep ==
  ASSUME InductiveInvariant,
         UNCHANGED documents,
         outbox' \in Seq(OutboxRow),
         DOMAIN outbox' = DOMAIN outbox,
         \A i \in DOMAIN outbox : outbox'[i].hash = outbox[i].hash,
         \A i \in DOMAIN outbox : (Latest(i) /\ outbox'[i].status = "PUBLISHED") =>
            [hash |-> outbox[i].hash, attempts |-> documents[outbox[i].hash].retries] \in ingest,
         \A i \in DOMAIN outbox :
            (outbox'[i].status = "BLOCKED") <=> (outbox'[i].retries >= MaxRetries),
         ingest \subseteq ingest', ingest' \subseteq IngestEvent,
         \A e \in ingest' : /\ documents[e.hash].status # "ABSENT"
                            /\ e.attempts <= documents[e.hash].retries,
         statuses' \subseteq StatusEvent,
         \A s \in statuses' : [hash |-> s.hash, attempts |-> s.attempts] \in ingest',
         lost' \subseteq IngestEvent \cup StatusEvent,
         worker' \in [Worker -> OutboxWorker],
         \A v \in Worker : \/ worker'[v] = worker[v]
                           \/ Ready(worker'[v])
                           \/ Delivered(v)
  PROVE  InductiveInvariant'
<1>1. \A i \in DOMAIN outbox : Latest(i)' <=> Latest(i)
  BY SameLatest
<1>2. TypeOK'
  BY DEF InductiveInvariant, TypeOK
<1>3. RowsLinked'
  BY DEF InductiveInvariant, RowsLinked, Ready, Delivered
<1>4. ReadIsFresh'
  <2> SUFFICES ASSUME NEW v \in Worker, worker'[v].pc \in {"publish", "mark"}
               PROVE  /\ Event(v)'.attempts <= documents[Event(v)'.hash].retries
                      /\ (Latest(worker[v].msg))' =>
                           Event(v)'.attempts = documents[Event(v)'.hash].retries
                      /\ worker'[v].pc = "mark" => Event(v)' \in ingest'
    BY DEF ReadIsFresh
  <2>1. worker'[v].msg \in DOMAIN outbox
    BY <1>3 DEF RowsLinked
  <2>2. outbox'[worker'[v].msg].hash = outbox[worker'[v].msg].hash
    BY <2>1
  <2>3. (Latest(worker[v].msg))' <=> Latest(worker'[v].msg)
    BY <1>1, <2>1 DEF Latest
  <2>4. CASE worker'[v] = worker[v]
    BY <2>1, <2>2, <2>3, <2>4 DEF InductiveInvariant, ReadIsFresh, Event
  <2>5. CASE Ready(worker'[v])
    <3>1. outbox[worker'[v].msg].hash \in Hash
      BY <2>1, RowType DEF InductiveInvariant, TypeOK, OutboxRow
    <3>2. documents[outbox[worker'[v].msg].hash].retries \in Nat
      BY <3>1 DEF InductiveInvariant, TypeOK, Document, Attempt
    <3> QED
      BY <2>2, <2>5, <3>2 DEF Ready, Event
  <2>6. CASE Delivered(v)
    BY <2>1, <2>2, <2>3, <2>6 DEF InductiveInvariant, ReadIsFresh, Event, Delivered
  <2> QED
    BY <2>4, <2>5, <2>6
<1>5. PublishedIsDelivered'
  BY <1>1 DEF PublishedIsDelivered
<1>6. NoEventAhead'
  BY <1>4 DEF NoEventAhead, ReadIsFresh
<1>7. RetryBudget'
  BY DEF InductiveInvariant, RetryBudget, Ready, Delivered
<1> QED
  BY <1>2, <1>3, <1>4, <1>5, <1>6, <1>7 DEF InductiveInvariant

(* A verdict that ends the document changes its status only.               *)
LEMMA FinishStep ==
  ASSUME InductiveInvariant, NEW h \in Hash, NEW status \in {"INDEXED", "FAILED"},
         documents[h].status = "PROCESSING",
         documents' = [documents EXCEPT ![h].status = status],
         UNCHANGED <<outbox, ingest, statuses, lost, worker>>
  PROVE  InductiveInvariant'
<1>1. /\ documents' \in [Hash -> Document]
      /\ \A g \in Hash : documents'[g].retries = documents[g].retries
      /\ \A g \in Hash : documents'[g].status = "ABSENT" <=> documents[g].status = "ABSENT"
  BY DEF InductiveInvariant, TypeOK, Document, DocumentStatus
<1>2. TypeOK'
  BY <1>1 DEF InductiveInvariant, TypeOK
<1>3. \A i \in DOMAIN outbox : outbox[i].hash \in Hash
  BY RowType DEF InductiveInvariant, TypeOK, OutboxRow
<1>4. RowsLinked'
  BY <1>1, <1>3 DEF InductiveInvariant, RowsLinked
<1>5. ReadIsFresh'
  BY <1>1, <1>3 DEF InductiveInvariant, RowsLinked, ReadIsFresh, Event, Latest
<1>6. PublishedIsDelivered'
  BY <1>1, <1>3 DEF InductiveInvariant, PublishedIsDelivered, Latest
<1>7. NoEventAhead'
  BY <1>1, <1>5 DEF InductiveInvariant, NoEventAhead, TypeOK, IngestEvent, ReadIsFresh
<1>8. RetryBudget'
  BY DEF InductiveInvariant, RetryBudget
<1> QED
  BY <1>2, <1>4, <1>5, <1>6, <1>7, <1>8 DEF InductiveInvariant

(* A document reaches an attempt and the row of that attempt is inserted   *)
(* with it: the rows it had before are not the latest ones any more, so    *)
(* nothing is known, or needed, of what workers read for them.             *)
LEMMA AttemptStep ==
  ASSUME InductiveInvariant, NEW h \in Hash, NEW doc \in Document,
         doc.status # "ABSENT",
         documents[h].retries <= doc.retries,
         documents' = [documents EXCEPT ![h] = doc],
         outbox' = Append(outbox, NewRow(h)),
         UNCHANGED <<ingest, statuses, lost, worker>>
  PROVE  InductiveInvariant'
<1> DEFINE n == Len(outbox) + 1
<1>1. /\ outbox' \in Seq(OutboxRow)
      /\ n \notin DOMAIN outbox
      /\ DOMAIN outbox' = DOMAIN outbox \cup {n}
      /\ \A i \in DOMAIN outbox : outbox'[i] = outbox[i] /\ i < n
      /\ outbox'[n] = NewRow(h)
      /\ n \in Nat
  BY InsertRow DEF InductiveInvariant, TypeOK
<1>2. /\ documents' \in [Hash -> Document]
      /\ documents'[h] = doc
      /\ \A g \in Hash \ {h} : documents'[g] = documents[g]
      /\ \A g \in Hash : documents[g].retries <= documents'[g].retries
      /\ \A g \in Hash : documents[g].retries \in Nat /\ documents'[g].retries \in Nat
      /\ \A g \in Hash : documents[g].status # "ABSENT" => documents'[g].status # "ABSENT"
  BY DEF InductiveInvariant, TypeOK, Document, Attempt
<1>3. \A i \in DOMAIN outbox : outbox[i].hash \in Hash /\ i \in Nat
  BY RowType DEF InductiveInvariant, TypeOK, OutboxRow
<1>4. \A i \in DOMAIN outbox : Latest(i)' => Latest(i) /\ outbox[i].hash # h
  BY <1>1, <1>3 DEF Latest, NewRow
<1>5. TypeOK'
  BY <1>1, <1>2 DEF InductiveInvariant, TypeOK
<1>6. RowsLinked'
  BY <1>1, <1>2, <1>3 DEF InductiveInvariant, RowsLinked, NewRow
<1>7. ReadIsFresh'
  <2> SUFFICES ASSUME NEW v \in Worker, worker[v].pc \in {"publish", "mark"}
               PROVE  /\ Event(v)'.attempts <= documents'[Event(v)'.hash].retries
                      /\ (Latest(worker[v].msg))' =>
                           Event(v)'.attempts = documents'[Event(v)'.hash].retries
                      /\ worker[v].pc = "mark" => Event(v)' \in ingest
    BY DEF ReadIsFresh
  <2>1. worker[v].msg \in DOMAIN outbox
    BY DEF InductiveInvariant, RowsLinked
  <2>2. Event(v)' = Event(v) /\ Event(v).hash = outbox[worker[v].msg].hash
    BY <1>1, <2>1 DEF Event
  <2>3. Event(v).attempts \in Nat
    BY DEF InductiveInvariant, TypeOK, OutboxWorker, Attempt, Event
  <2>4. /\ Event(v).attempts <= documents[Event(v).hash].retries
        /\ Latest(worker[v].msg) => Event(v).attempts = documents[Event(v).hash].retries
        /\ worker[v].pc = "mark" => Event(v) \in ingest
    BY DEF InductiveInvariant, ReadIsFresh
  <2>5. (Latest(worker[v].msg))' => Latest(worker[v].msg) /\ Event(v).hash # h
    BY <1>4, <2>1, <2>2
  <2> QED
    BY <1>2, <1>3, <2>1, <2>2, <2>3, <2>4, <2>5
<1>8. PublishedIsDelivered'
  <2>1. n \in DOMAIN outbox' /\ outbox'[n].status = "PENDING"
    BY <1>1 DEF NewRow
  <2> QED
    BY <1>1, <1>2, <1>3, <1>4, <2>1 DEF InductiveInvariant, PublishedIsDelivered
<1>9. NoEventAhead'
  <2>1. \A e \in ingest : e.hash \in Hash /\ e.attempts \in Nat
    BY DEF InductiveInvariant, TypeOK, IngestEvent, Attempt
  <2>2. \A e \in ingest : /\ documents'[e.hash].status # "ABSENT"
                          /\ e.attempts <= documents'[e.hash].retries
    BY <1>2, <2>1 DEF InductiveInvariant, NoEventAhead
  <2> QED
    BY <1>7, <2>2 DEF InductiveInvariant, NoEventAhead, ReadIsFresh
<1>10. RetryBudget'
  BY <1>1, ConfigAssumption DEF InductiveInvariant, RetryBudget, NewRow
<1> QED
  BY <1>5, <1>6, <1>7, <1>8, <1>9, <1>10 DEF InductiveInvariant

-----------------------------------------------------------------------------
(* Every step of the loop preserves the invariant.                         *)

LEMMA WorkerStepPreserves ==
  ASSUME InductiveInvariant, NEW w \in Worker, WorkerStep(w)
  PROVE  InductiveInvariant'
<1> USE DEF InductiveInvariant
<1>1. /\ worker \in [Worker -> OutboxWorker]
      /\ outbox \in Seq(OutboxRow)
      /\ worker[w] \in OutboxWorker
      /\ worker[w].batch \subseteq DOMAIN outbox
  BY DEF TypeOK, RowsLinked
<1>2. \A i \in DOMAIN outbox : outbox[i] \in OutboxRow /\ i \in Nat
  BY RowType DEF TypeOK
<1>3. /\ \A i \in DOMAIN outbox : (Latest(i) /\ outbox[i].status = "PUBLISHED") =>
           [hash |-> outbox[i].hash, attempts |-> documents[outbox[i].hash].retries] \in ingest
      /\ \A i \in DOMAIN outbox :
           (outbox[i].status = "BLOCKED") <=> (outbox[i].retries >= MaxRetries)
      /\ \A e \in ingest : /\ documents[e.hash].status # "ABSENT"
                           /\ e.attempts <= documents[e.hash].retries
      /\ \A s \in statuses : [hash |-> s.hash, attempts |-> s.attempts] \in ingest
      /\ ingest \subseteq IngestEvent /\ statuses \subseteq StatusEvent
      /\ lost \subseteq IngestEvent \cup StatusEvent
  BY DEF TypeOK, NoEventAhead, PublishedIsDelivered, RetryBudget
(* Nothing but the local state of w changes, to s. *)
<1>4. ASSUME NEW s \in OutboxWorker, Ready(s),
             worker' = [worker EXCEPT ![w] = s],
             UNCHANGED <<documents, outbox, ingest, statuses, lost>>
      PROVE  InductiveInvariant'
  <2>1. worker' \in [Worker -> OutboxWorker]
    BY <1>1, <1>4
  <2>2. \A v \in Worker : worker'[v] = worker[v] \/ Ready(worker'[v])
    BY <1>1, <1>4
  <2> QED
    BY <1>1, <1>3, <1>4, <2>1, <2>2, TableStep
(* Row i is rewritten and w goes on with s. *)
<1>5. ASSUME NEW i \in DOMAIN outbox, NEW row \in OutboxRow,
             NEW s \in OutboxWorker, Ready(s),
             row.hash = outbox[i].hash,
             (row.status = "BLOCKED") <=> (row.retries >= MaxRetries),
             (Latest(i) /\ row.status = "PUBLISHED") =>
               [hash |-> row.hash, attempts |-> documents[row.hash].retries] \in ingest,
             outbox' = [outbox EXCEPT ![i] = row],
             worker' = [worker EXCEPT ![w] = s],
             UNCHANGED <<documents, ingest, statuses, lost>>
      PROVE  InductiveInvariant'
  <2>1. /\ outbox' \in Seq(OutboxRow)
        /\ DOMAIN outbox' = DOMAIN outbox
        /\ \A j \in DOMAIN outbox : outbox'[j] = IF j = i THEN row ELSE outbox[j]
    BY <1>1, <1>5, UpdateRow
  <2>2. worker' \in [Worker -> OutboxWorker]
    BY <1>1, <1>5
  <2>3. \A v \in Worker : worker'[v] = worker[v] \/ Ready(worker'[v])
    BY <1>1, <1>5
  <2> QED
    BY <1>3, <1>5, <2>1, <2>2, <2>3, TableStep
<1>6. /\ Idle(worker[w]) \in OutboxWorker /\ Ready(Idle(worker[w]))
      /\ Dead \in OutboxWorker /\ Ready(Dead)
  BY <1>1, ConfigAssumption DEF Idle, Dead, Ready, OutboxWorker, Stage, Attempt
<1>7. CASE FetchCandidates(w)
  <2> DEFINE s == [worker[w] EXCEPT !.batch = Candidates]
  <2>1. s \in OutboxWorker /\ Ready(s)
    BY <1>1, <1>2, <1>7 DEF FetchCandidates, OutboxWorker, Ready, Candidates, Pending
  <2>2. worker' = [worker EXCEPT ![w] = s]
    BY <1>1, <1>7 DEF FetchCandidates
  <2> QED
    BY <1>4, <1>7, <2>1, <2>2 DEF FetchCandidates
<1>8. ASSUME NEW i \in worker[w].batch, ClaimOutboxMessage(w, i)
      PROVE  InductiveInvariant'
  <2>1. i \in DOMAIN outbox
    BY <1>1
  <2>2. CASE outbox[i].status = "PENDING"
    <3>1. ClaimedRow(outbox[i], w) \in OutboxRow
      BY <1>2, <2>1 DEF ClaimedRow, OutboxRow, OutboxStatus
    <3>2. Handling(worker[w], i) \in OutboxWorker /\ Ready(Handling(worker[w], i))
      BY <1>1, <1>2, <2>1, ConfigAssumption DEF Handling, Ready, OutboxWorker, Stage, Attempt
    <3> QED
      BY <1>3, <1>5, <1>8, <2>1, <2>2, <3>1, <3>2 DEF ClaimOutboxMessage, ClaimedRow
  <2>3. CASE outbox[i].status # "PENDING"
    <3> DEFINE s == [worker[w] EXCEPT !.batch = @ \ {i}]
    <3>1. s \in OutboxWorker /\ Ready(s)
      BY <1>1, <1>8 DEF ClaimOutboxMessage, OutboxWorker, Ready
    <3>2. worker' = [worker EXCEPT ![w] = s]
      BY <1>1, <1>8, <2>3 DEF ClaimOutboxMessage
    <3> QED
      BY <1>4, <1>8, <2>3, <3>1, <3>2 DEF ClaimOutboxMessage
  <2> QED
    BY <2>2, <2>3
<1>9. ASSUME NEW i \in worker[w].batch, ClaimFails(w, i)
      PROVE  InductiveInvariant'
  <2> DEFINE s == [worker[w] EXCEPT !.batch = @ \ {i}]
  <2>1. s \in OutboxWorker /\ Ready(s)
    BY <1>1, <1>9 DEF ClaimFails, OutboxWorker, Ready
  <2>2. worker' = [worker EXCEPT ![w] = s]
    BY <1>1, <1>9 DEF ClaimFails
  <2> QED
    BY <1>4, <1>9, <2>1, <2>2 DEF ClaimFails
<1>10. CASE GetDocument(w)
  <2> DEFINE doc == documents[outbox[worker[w].msg].hash]
             s == [pc |-> "publish", batch |-> worker[w].batch,
                   msg |-> worker[w].msg, attempts |-> doc.retries]
  <2>1. worker[w].msg \in DOMAIN outbox
    BY <1>10 DEF GetDocument, RowsLinked
  <2>2. doc \in Document /\ doc.status # "ABSENT"
    BY <1>2, <2>1 DEF TypeOK, RowsLinked, OutboxRow
  <2>3. s \in OutboxWorker /\ Ready(s)
    BY <1>1, <2>1, <2>2 DEF OutboxWorker, Stage, Document, Ready
  <2>4. worker' = [worker EXCEPT ![w] = s]
    BY <1>1, <1>10, <2>2 DEF GetDocument
  <2> QED
    BY <1>4, <1>10, <2>3, <2>4 DEF GetDocument
<1>11. CASE GetDocumentFails(w)
  <2> DEFINE s == [worker[w] EXCEPT !.pc = "release"]
  <2>1. s \in OutboxWorker /\ Ready(s)
    BY <1>1, <1>11 DEF GetDocumentFails, RowsLinked, OutboxWorker, Stage, Ready
  <2>2. worker' = [worker EXCEPT ![w] = s]
    BY <1>1, <1>11 DEF GetDocumentFails
  <2> QED
    BY <1>4, <1>11, <2>1, <2>2 DEF GetDocumentFails
(* What a publication adds to the stream is an event the document reached. *)
<1>12. ASSUME worker[w].pc = "publish"
       PROVE  /\ Event(w) \in IngestEvent
              /\ documents[Event(w).hash].status # "ABSENT"
              /\ Event(w).attempts <= documents[Event(w).hash].retries
              /\ worker[w].msg \in DOMAIN outbox
  BY <1>1, <1>2, <1>12 DEF RowsLinked, ReadIsFresh, Event, IngestEvent, OutboxRow, OutboxWorker
<1>13. CASE PublishIngestionEvent(w)
  <2> DEFINE s == [worker[w] EXCEPT !.pc = "mark"]
  <2>1. worker' = [worker EXCEPT ![w] = s] /\ s \in OutboxWorker
    BY <1>1, <1>13 DEF PublishIngestionEvent, OutboxWorker, Stage
  <2>2. worker' \in [Worker -> OutboxWorker]
    BY <1>1, <2>1
  <2>3. Delivered(w)
    BY <1>1, <1>13, <2>1 DEF PublishIngestionEvent, Delivered
  <2>4. \A v \in Worker : worker'[v] = worker[v] \/ Delivered(v)
    BY <1>1, <2>1, <2>3
  <2> QED
    BY <1>1, <1>3, <1>12, <1>13, <2>2, <2>4, TableStep DEF PublishIngestionEvent
<1>14. CASE PublishFails(w)
  <2> DEFINE s == [worker[w] EXCEPT !.pc = "release"]
  <2>1. worker' = [worker EXCEPT ![w] = s] /\ s \in OutboxWorker /\ Ready(s)
    BY <1>1, <1>12, <1>14 DEF PublishFails, OutboxWorker, Stage, Ready
  <2>2. worker' \in [Worker -> OutboxWorker]
    BY <1>1, <2>1
  <2>3. \A v \in Worker : worker'[v] = worker[v] \/ Ready(worker'[v])
    BY <1>1, <2>1
  <2> QED
    BY <1>1, <1>3, <1>12, <1>14, <2>2, <2>3, TableStep DEF PublishFails
(* The last store call of a message: the fence holds and the row is        *)
(* rewritten, or the claim was lost and only the worker moves on.          *)
<1>15. CASE MarkPublished(w)
  <2> DEFINE i == worker[w].msg
             row == FreedRow(outbox[i], "PUBLISHED", outbox[i].retries)
  <2>1. i \in DOMAIN outbox /\ Event(w) \in ingest
    BY <1>15 DEF MarkPublished, RowsLinked, ReadIsFresh
  <2>2. CASE Holds(w, i)
    <3>1. row \in OutboxRow
      BY <1>2, <2>1 DEF FreedRow, OutboxRow, OutboxStatus
    <3>2. Latest(i) =>
            [hash |-> row.hash, attempts |-> documents[row.hash].retries] \in ingest
      BY <1>15, <2>1 DEF MarkPublished, ReadIsFresh, Event, FreedRow
    <3>3. row.hash = outbox[i].hash /\ row.status = "PUBLISHED" /\ ~(row.retries >= MaxRetries)
      BY <1>3, <2>1, <2>2 DEF FreedRow, Holds
    <3> QED
      BY <1>5, <1>6, <1>15, <2>1, <2>2, <3>1, <3>2, <3>3 DEF MarkPublished
  <2>3. CASE ~ Holds(w, i)
    BY <1>4, <1>6, <1>15, <2>3 DEF MarkPublished
  <2> QED
    BY <2>2, <2>3
<1>16. CASE Released(w)
  <2> DEFINE i == worker[w].msg
             row == Charged(outbox[i])
  <2>1. i \in DOMAIN outbox
    BY <1>16 DEF Released, RowsLinked
  <2>2. CASE Holds(w, i)
    <3>1. outbox[i] \in OutboxRow /\ outbox[i].retries < MaxRetries
      BY <1>2, <1>3, <2>1, <2>2, ConfigAssumption DEF Holds, OutboxRow
    <3>2. /\ row \in OutboxRow
          /\ row.hash = outbox[i].hash
          /\ row.status # "PUBLISHED"
          /\ row.status = "BLOCKED" <=> row.retries >= MaxRetries
      BY <3>1, ChargedRow
    <3> QED
      BY <1>5, <1>6, <1>16, <2>1, <2>2, <3>2 DEF Released
  <2>3. CASE ~ Holds(w, i)
    BY <1>4, <1>6, <1>16, <2>3 DEF Released
  <2> QED
    BY <2>2, <2>3
<1>17. GiveUpClaim(w) => Released(w)
  BY OnlyReleased
<1>18. CASE StoreWriteFails(w)
  BY <1>4, <1>6, <1>18 DEF StoreWriteFails
<1>19. CASE Crash(w)
  BY <1>4, <1>6, <1>19 DEF Crash
<1> QED
  BY <1>7, <1>8, <1>9, <1>10, <1>11, <1>13, <1>14, <1>15, <1>16, <1>17, <1>18, <1>19
     DEF WorkerStep

(* The registration of a document and the sweep of stale claims.           *)
LEMMA SweepPreserves ==
  ASSUME InductiveInvariant,
         RecoverStaleOutbox \/ (\E i \in DOMAIN outbox : ClaimAges(i))
  PROVE  InductiveInvariant'
<1> USE DEF InductiveInvariant
<1>1. /\ outbox \in Seq(OutboxRow)
      /\ \A i \in DOMAIN outbox : outbox[i] \in OutboxRow
      /\ DOMAIN outbox = 1 .. Len(outbox) /\ Len(outbox) \in Nat
  BY RowType, LenProperties DEF TypeOK
<1>2. /\ \A i \in DOMAIN outbox : (Latest(i) /\ outbox[i].status = "PUBLISHED") =>
           [hash |-> outbox[i].hash, attempts |-> documents[outbox[i].hash].retries] \in ingest
      /\ \A i \in DOMAIN outbox :
           (outbox[i].status = "BLOCKED") <=> (outbox[i].retries >= MaxRetries)
      /\ \A e \in ingest : /\ documents[e.hash].status # "ABSENT"
                           /\ e.attempts <= documents[e.hash].retries
      /\ \A s \in statuses : [hash |-> s.hash, attempts |-> s.attempts] \in ingest
      /\ ingest \subseteq IngestEvent /\ statuses \subseteq StatusEvent
      /\ lost \subseteq IngestEvent \cup StatusEvent
      /\ worker \in [Worker -> OutboxWorker]
  BY DEF TypeOK, NoEventAhead, PublishedIsDelivered, RetryBudget
(* Every row is left alone, or is a claim that ages or is charged.         *)
<1>3. ASSUME UNCHANGED <<documents, ingest, statuses, lost, worker>>,
             outbox' \in Seq(OutboxRow),
             DOMAIN outbox' = DOMAIN outbox,
             \A i \in DOMAIN outbox :
               \/ outbox'[i] = outbox[i]
               \/ /\ outbox'[i].hash = outbox[i].hash
                  /\ outbox'[i].status # "PUBLISHED"
                  /\ (outbox'[i].status = "BLOCKED") <=> (outbox'[i].retries >= MaxRetries)
      PROVE  InductiveInvariant'
  BY <1>2, <1>3, TableStep
<1>4. CASE RecoverStaleOutbox
  <2>1. \A i \in DOMAIN outbox : Stale(outbox[i]) =>
          /\ Charged(outbox[i]) \in OutboxRow
          /\ Charged(outbox[i]).hash = outbox[i].hash
          /\ Charged(outbox[i]).status # "PUBLISHED"
          /\ Charged(outbox[i]).status = "BLOCKED" <=> Charged(outbox[i]).retries >= MaxRetries
    <3> SUFFICES ASSUME NEW i \in DOMAIN outbox, Stale(outbox[i])
                 PROVE  /\ outbox[i] \in OutboxRow
                        /\ outbox[i].retries < MaxRetries
      BY ChargedRow
    <3> QED
      BY <1>1, <1>2, ConfigAssumption DEF Stale, OutboxRow
  <2>2. outbox' \in [1 .. Len(outbox) -> OutboxRow]
    BY <1>1, <1>4, <2>1 DEF RecoverStaleOutbox
  <2>3. outbox' \in Seq(OutboxRow) /\ DOMAIN outbox' = DOMAIN outbox
    BY <1>1, <2>2, SeqDef
  <2> QED
    BY <1>3, <1>4, <2>1, <2>3 DEF RecoverStaleOutbox
<1>5. ASSUME NEW i \in DOMAIN outbox, ClaimAges(i)
      PROVE  InductiveInvariant'
  <2> DEFINE row == [outbox[i] EXCEPT !.stale = TRUE]
  <2>1. row \in OutboxRow /\ outbox' = [outbox EXCEPT ![i] = row]
    BY <1>1, <1>5 DEF ClaimAges, OutboxRow
  <2>2. /\ outbox' \in Seq(OutboxRow)
        /\ DOMAIN outbox' = DOMAIN outbox
        /\ \A j \in DOMAIN outbox : outbox'[j] = IF j = i THEN row ELSE outbox[j]
    BY <1>1, <2>1, UpdateRow
  <2>3. /\ row.hash = outbox[i].hash /\ row.status = "CLAIMED"
        /\ row.retries = outbox[i].retries
    BY <1>1, <1>5 DEF ClaimAges, OutboxRow
  <2> QED
    BY <1>2, <1>3, <1>5, <2>2, <2>3 DEF ClaimAges
<1> QED
  BY <1>4, <1>5

(* The streams: an answer to an event, and the loss of an event.           *)
LEMMA StreamPreserves ==
  ASSUME InductiveInvariant,
         \/ \E e \in ingest, v \in Verdict : ReportStatus(e, v)
         \/ \E e \in ingest \cup statuses : LoseEvent(e)
  PROVE  InductiveInvariant'
<1> USE DEF InductiveInvariant
<1>1. /\ outbox \in Seq(OutboxRow)
      /\ \A i \in DOMAIN outbox : (Latest(i) /\ outbox[i].status = "PUBLISHED") =>
           [hash |-> outbox[i].hash, attempts |-> documents[outbox[i].hash].retries] \in ingest
      /\ \A i \in DOMAIN outbox :
           (outbox[i].status = "BLOCKED") <=> (outbox[i].retries >= MaxRetries)
      /\ \A e \in ingest : /\ documents[e.hash].status # "ABSENT"
                           /\ e.attempts <= documents[e.hash].retries
      /\ \A s \in statuses : [hash |-> s.hash, attempts |-> s.attempts] \in ingest
      /\ ingest \subseteq IngestEvent /\ statuses \subseteq StatusEvent
      /\ lost \subseteq IngestEvent \cup StatusEvent
      /\ worker \in [Worker -> OutboxWorker]
  BY DEF TypeOK, NoEventAhead, PublishedIsDelivered, RetryBudget
<1>2. ASSUME NEW e \in ingest, NEW v \in Verdict, ReportStatus(e, v)
      PROVE  InductiveInvariant'
  <2>1. /\ StatusOf(e, v) \in StatusEvent
        /\ [hash |-> StatusOf(e, v).hash, attempts |-> StatusOf(e, v).attempts] = e
    BY <1>1 DEF StatusOf, StatusEvent, IngestEvent
  <2>2. /\ statuses' \subseteq StatusEvent
        /\ \A s \in statuses' : [hash |-> s.hash, attempts |-> s.attempts] \in ingest
        /\ lost' \subseteq IngestEvent \cup StatusEvent
    BY <1>1, <1>2, <2>1 DEF ReportStatus
  <2> QED
    BY <1>1, <1>2, <2>2, TableStep DEF ReportStatus
<1>3. ASSUME NEW e \in ingest \cup statuses, LoseEvent(e)
      PROVE  InductiveInvariant'
  <2>1. lost' \subseteq IngestEvent \cup StatusEvent
    BY <1>1, <1>3 DEF LoseEvent
  <2> QED
    BY <1>1, <1>3, <2>1, TableStep DEF LoseEvent
<1> QED
  BY <1>2, <1>3

(* ApplyIndexed and ApplyFailed, which finish an attempt or queue the next. *)
LEMMA DocumentPreserves ==
  ASSUME InductiveInvariant,
         \/ \E h \in Hash : StartIngestion(h)
         \/ \E s \in statuses : ApplyIndexed(s) \/ ApplyFailed(s)
  PROVE  InductiveInvariant'
<1> USE DEF InductiveInvariant
<1>1. /\ documents \in [Hash -> Document]
      /\ statuses \subseteq StatusEvent
      /\ \A s \in statuses : [hash |-> s.hash, attempts |-> s.attempts] \in ingest
  BY DEF TypeOK, NoEventAhead
<1>2. ASSUME NEW h \in Hash, StartIngestion(h)
      PROVE  InductiveInvariant'
  <2> DEFINE doc == [status |-> "PROCESSING", retries |-> 0]
  <2>1. doc \in Document
    BY ConfigAssumption DEF Document, DocumentStatus, Attempt
  <2>2. documents[h].retries <= doc.retries
    BY <1>2 DEF StartIngestion, RowsLinked
  <2> QED
    BY <1>2, <2>1, <2>2, AttemptStep DEF StartIngestion
<1>3. ASSUME NEW s \in statuses, ApplyIndexed(s)
      PROVE  InductiveInvariant'
  BY <1>1, <1>3, FinishStep DEF ApplyIndexed, Current, StatusEvent
<1>4. ASSUME NEW s \in statuses, ApplyFailed(s)
      PROVE  InductiveInvariant'
  <2> DEFINE doc == [status |-> "PROCESSING", retries |-> s.attempts + 1]
  <2>1. s.hash \in Hash /\ s.attempts \in Attempt
    BY <1>1 DEF StatusEvent
  <2>2. CASE Retry(s)
    <3>1. doc \in Document
      BY <2>1, <2>2, ConfigAssumption DEF Document, DocumentStatus, Attempt, Retry
    <3>2. documents' = [documents EXCEPT ![s.hash] = doc]
      BY <1>1, <1>4, <2>1, <2>2 DEF ApplyFailed, Current, Document
    <3>3. documents[s.hash].retries <= doc.retries
      BY <1>4, <2>1 DEF ApplyFailed, Current, Attempt
    <3> QED
      BY <1>4, <2>1, <2>2, <3>1, <3>2, <3>3, AttemptStep DEF ApplyFailed
  <2>3. CASE ~ Retry(s)
    BY <1>4, <2>1, <2>3, FinishStep DEF ApplyFailed, Current
  <2> QED
    BY <2>2, <2>3
<1> QED
  BY <1>2, <1>3, <1>4

(* The invariant is inductive. *)
LEMMA InvariantStep ==
  ASSUME InductiveInvariant, [Next]_vars
  PROVE  InductiveInvariant'
<1>1. CASE Next
  BY <1>1, WorkerStepPreserves, SweepPreserves, StreamPreserves, DocumentPreserves DEF Next
<1>2. CASE UNCHANGED vars
  BY <1>2 DEF vars, InductiveInvariant, TypeOK, RowsLinked, ReadIsFresh, PublishedIsDelivered,
              NoEventAhead, RetryBudget, Event, Latest
<1> QED
  BY <1>1, <1>2

(* The inductive invariant holds in every reachable state. *)
THEOREM Invariance == Spec => []InductiveInvariant
<1>1. Init => InductiveInvariant
  BY InvariantInit
<1>2. InductiveInvariant /\ [Next]_vars => InductiveInvariant'
  BY InvariantStep
<1> QED
  BY <1>1, <1>2, PTL DEF Spec

(* The tables, the streams and the workers keep their types; in particular *)
(* no attempt number reaches MaxAttempts and no row is charged more than   *)
(* MaxRetries times.                                                       *)
THEOREM TypeCorrectness == Spec => []TypeOK
<1>1. InductiveInvariant => TypeOK
  BY DEF InductiveInvariant
<1> QED
  BY <1>1, Invariance, PTL

(* A document never waits for an attempt of which no ingest event was      *)
(* published although its row says PUBLISHED.                              *)
THEOREM AttemptsAreNotLost == Spec => []NoLostAttempt
<1>1. InductiveInvariant => NoLostAttempt
  BY DEF InductiveInvariant, PublishedIsDelivered, NoLostAttempt
<1> QED
  BY <1>1, Invariance, PTL

(* No event and no worker is ahead of its document, and every status       *)
(* answers a published event.                                              *)
THEOREM EventsAreNotAhead == Spec => []NoEventAhead
<1>1. InductiveInvariant => NoEventAhead
  BY DEF InductiveInvariant
<1> QED
  BY <1>1, Invariance, PTL

(* A row is BLOCKED exactly when its budget of charged claims is spent.    *)
THEOREM BudgetIsKept == Spec => []RetryBudget
<1>1. InductiveInvariant => RetryBudget
  BY DEF InductiveInvariant
<1> QED
  BY <1>1, Invariance, PTL

-----------------------------------------------------------------------------
(* The state of a document follows from verdicts about its own attempts.   *)

LEMMA JustifiedStep ==
  ASSUME InductiveInvariant, JustifiedOutcome, [Next]_vars
  PROVE  JustifiedOutcome'
<1>1. /\ documents \in [Hash -> Document]
      /\ statuses \subseteq StatusEvent
  BY DEF InductiveInvariant, TypeOK
<1>2. ASSUME UNCHANGED documents, statuses \subseteq statuses'
      PROVE  JustifiedOutcome'
  BY <1>2 DEF JustifiedOutcome, Reported
<1>3. ASSUME NEW h \in Hash, StartIngestion(h)
      PROVE  JustifiedOutcome'
  <2>1. documents'[h] = [status |-> "PROCESSING", retries |-> 0]
    BY <1>1, <1>3 DEF StartIngestion
  <2>2. \A g \in Hash \ {h} : documents'[g] = documents[g]
    BY <1>1, <1>3 DEF StartIngestion
  <2> QED
    BY <1>3, <2>1, <2>2 DEF StartIngestion, JustifiedOutcome, Reported, Attempt
<1>4. ASSUME NEW s \in statuses, ApplyIndexed(s)
      PROVE  JustifiedOutcome'
  <2>1. /\ s.hash \in Hash
        /\ s = [hash |-> s.hash, attempts |-> s.attempts, verdict |-> "INDEXED"]
    BY <1>1, <1>4 DEF ApplyIndexed, StatusEvent
  <2>2. /\ documents'[s.hash].status = "INDEXED"
        /\ documents'[s.hash].retries = s.attempts
        /\ documents[s.hash].retries = s.attempts
        /\ \A g \in Hash \ {s.hash} : documents'[g] = documents[g]
    BY <1>1, <1>4, <2>1 DEF ApplyIndexed, Current, Document
  <2> QED
    BY <1>4, <2>1, <2>2 DEF ApplyIndexed, JustifiedOutcome, Reported
<1>5. ASSUME NEW s \in statuses, ApplyFailed(s)
      PROVE  JustifiedOutcome'
  <2>1. /\ s.hash \in Hash /\ s.attempts \in Attempt
        /\ s = [hash |-> s.hash, attempts |-> s.attempts, verdict |-> s.verdict]
        /\ s.verdict \in {"RETRYABLE", "PERMANENT"}
        /\ UNCHANGED statuses
    BY <1>1, <1>5 DEF ApplyFailed, StatusEvent, Verdict
  <2>2. /\ documents[s.hash].retries = s.attempts
        /\ documents[s.hash].status = "PROCESSING"
        /\ \A g \in Hash \ {s.hash} : documents'[g] = documents[g]
    BY <1>1, <1>5, <2>1 DEF ApplyFailed, Current
  <2>3. CASE Retry(s)
    <3>1. /\ documents'[s.hash].retries = s.attempts + 1
          /\ documents'[s.hash].status = "PROCESSING"
          /\ s.verdict = "RETRYABLE"
      BY <1>1, <1>5, <2>1, <2>2, <2>3 DEF ApplyFailed, Retry, Document
    <3>2. \A a \in Attempt : a < s.attempts + 1 => a < s.attempts \/ a = s.attempts
      BY <2>1 DEF Attempt
    <3> QED
      BY <2>1, <2>2, <3>1, <3>2 DEF JustifiedOutcome, Reported
  <2>4. CASE ~ Retry(s)
    <3>1. /\ documents'[s.hash].retries = s.attempts
          /\ documents'[s.hash].status = "FAILED"
      BY <1>1, <1>5, <2>1, <2>2, <2>4 DEF ApplyFailed, Document
    <3>2. s.verdict = "PERMANENT" \/ (s.verdict = "RETRYABLE" /\ s.attempts + 1 = MaxAttempts)
      BY <2>1, <2>4, ConfigAssumption DEF Retry, Attempt
    <3> QED
      BY <2>1, <2>2, <3>1, <3>2 DEF JustifiedOutcome, Reported
  <2> QED
    BY <2>3, <2>4
<1>6. CASE UNCHANGED vars
  BY <1>2, <1>6 DEF vars
<1>7. ASSUME NEW w \in Worker, WorkerStep(w)
      PROVE  UNCHANGED <<documents, statuses>>
  BY <1>7 DEF WorkerStep, FetchCandidates, ClaimOutboxMessage, ClaimFails, GetDocument,
              GetDocumentFails, PublishIngestionEvent, PublishFails, MarkPublished,
              GiveUpClaim, StoreWriteFails, Crash
<1>8. CASE Next
  BY <1>2, <1>3, <1>4, <1>5, <1>7, <1>8
     DEF Next, ClaimAges, RecoverStaleOutbox, ReportStatus, LoseEvent
<1> QED
  BY <1>6, <1>8

(* Whatever is delivered late, twice or out of order, INDEXED, FAILED and  *)
(* the attempt count rest on reports about the document's own attempts.    *)
THEOREM OutcomesAreJustified == Spec => []JustifiedOutcome
<1>1. Init => JustifiedOutcome
  BY ConfigAssumption DEF Init, JustifiedOutcome, Attempt
<1>2. InductiveInvariant /\ JustifiedOutcome /\ [Next]_vars => JustifiedOutcome'
  BY JustifiedStep
<1> QED
  BY <1>1, <1>2, Invariance, PTL DEF Spec

-----------------------------------------------------------------------------
(* One outbox row for every attempt a document has reached.                *)

RowCount(h) == IF documents[h].status = "ABSENT" THEN 0 ELSE documents[h].retries + 1

(* A document has finitely many rows, so they can be counted.              *)
LEMMA RowsAreFinite ==
  ASSUME outbox \in Seq(OutboxRow), NEW h
  PROVE  IsFiniteSet(RowsOf(h))
<1>1. DOMAIN outbox = 1 .. Len(outbox) /\ Len(outbox) \in Nat
  BY LenProperties
<1>2. IsFiniteSet(1 .. Len(outbox))
  BY <1>1, FS_Interval
<1> QED
  BY <1>1, <1>2, FS_Subset DEF RowsOf

(* Steps that add no row and keep every row's hash keep every row set.     *)
LEMMA SameRows ==
  ASSUME OneRowPerAttempt,
         UNCHANGED documents \/ \A h \in Hash : RowCount(h)' = RowCount(h),
         DOMAIN outbox' = DOMAIN outbox,
         \A i \in DOMAIN outbox : outbox'[i].hash = outbox[i].hash
  PROVE  OneRowPerAttempt'
<1>1. \A h \in Hash : RowsOf(h)' = RowsOf(h)
  BY DEF RowsOf
<1>2. \A h \in Hash : RowCount(h)' = RowCount(h)
  BY DEF RowCount
<1> QED
  BY <1>1, <1>2 DEF OneRowPerAttempt, RowCount

(* The rows and the count of h grow by one together. *)
LEMMA OneMoreRow ==
  ASSUME OneRowPerAttempt, outbox \in Seq(OutboxRow), NEW h \in Hash,
         RowCount(h) \in Nat,
         RowCount(h)' = RowCount(h) + 1,
         \A g \in Hash \ {h} : RowCount(g)' = RowCount(g),
         outbox' = Append(outbox, NewRow(h))
  PROVE  OneRowPerAttempt'
<1> DEFINE n == Len(outbox) + 1
<1>1. /\ n \notin DOMAIN outbox
      /\ DOMAIN outbox' = DOMAIN outbox \cup {n}
      /\ \A i \in DOMAIN outbox : outbox'[i] = outbox[i]
      /\ outbox'[n].hash = h
  BY InsertRow DEF NewRow
<1>2. RowsOf(h)' = RowsOf(h) \cup {n} /\ n \notin RowsOf(h)
  BY <1>1 DEF RowsOf
<1>3. \A g \in Hash \ {h} : RowsOf(g)' = RowsOf(g)
  BY <1>1 DEF RowsOf
<1>4. Cardinality(RowsOf(h)') = Cardinality(RowsOf(h)) + 1
  BY <1>2, RowsAreFinite, FS_AddElement
<1>5. \A g \in Hash : Cardinality(RowsOf(g)) = RowCount(g)
  BY DEF OneRowPerAttempt, RowCount
<1>6. \A g \in Hash : Cardinality(RowsOf(g)') = RowCount(g)'
  BY <1>3, <1>4, <1>5
<1> QED
  BY <1>6 DEF OneRowPerAttempt, RowCount

(* Every step keeps one row per attempt.                                   *)
LEMMA RowCountStep ==
  ASSUME InductiveInvariant, OneRowPerAttempt, [Next]_vars
  PROVE  OneRowPerAttempt'
<1>1. /\ documents \in [Hash -> Document]
      /\ statuses \subseteq StatusEvent
      /\ outbox \in Seq(OutboxRow)
      /\ \A w \in Worker : worker[w].batch \subseteq DOMAIN outbox
      /\ \A h \in Hash : RowCount(h) \in Nat
  BY DEF InductiveInvariant, TypeOK, RowsLinked, Document, Attempt, RowCount
<1>2. ASSUME NEW h \in Hash, StartIngestion(h)
      PROVE  OneRowPerAttempt'
  <2>1. RowCount(h)' = RowCount(h) + 1 /\ \A g \in Hash \ {h} : RowCount(g)' = RowCount(g)
    BY <1>1, <1>2 DEF StartIngestion, RowCount
  <2> QED
    BY <1>1, <1>2, <2>1, OneMoreRow DEF StartIngestion
<1>3. ASSUME NEW s \in statuses, ApplyIndexed(s)
      PROVE  OneRowPerAttempt'
  <2>1. \A g \in Hash : RowCount(g)' = RowCount(g)
    BY <1>1, <1>3 DEF ApplyIndexed, Current, StatusEvent, RowCount, Document
  <2> QED
    BY <1>3, <2>1, SameRows DEF ApplyIndexed
<1>4. ASSUME NEW s \in statuses, ApplyFailed(s)
      PROVE  OneRowPerAttempt'
  <2>1. s.hash \in Hash /\ s.attempts \in Nat
    BY <1>1 DEF StatusEvent, Attempt
  <2>2. CASE Retry(s)
    <3>1. /\ RowCount(s.hash)' = RowCount(s.hash) + 1
          /\ \A g \in Hash \ {s.hash} : RowCount(g)' = RowCount(g)
      BY <1>1, <1>4, <2>1, <2>2 DEF ApplyFailed, Current, RowCount, Document
    <3> QED
      BY <1>1, <1>4, <2>1, <2>2, <3>1, OneMoreRow DEF ApplyFailed
  <2>3. CASE ~ Retry(s)
    <3>1. \A g \in Hash : RowCount(g)' = RowCount(g)
      BY <1>1, <1>4, <2>1, <2>3 DEF ApplyFailed, Current, RowCount, Document
    <3> QED
      BY <1>4, <2>3, <3>1, SameRows DEF ApplyFailed
  <2> QED
    BY <2>2, <2>3
(* Every other step rewrites rows in place or does not touch them.         *)
<1>5. ASSUME UNCHANGED <<documents, outbox>>
      PROVE  OneRowPerAttempt'
  BY <1>5, SameRows
<1>6. ASSUME NEW i \in DOMAIN outbox, NEW row, row.hash = outbox[i].hash,
             outbox' = [outbox EXCEPT ![i] = row], UNCHANGED documents
      PROVE  OneRowPerAttempt'
  BY <1>6, SameRows
<1>7. ASSUME NEW w \in Worker, WorkerStep(w)
      PROVE  OneRowPerAttempt'
  <2>1. ASSUME NEW i \in worker[w].batch, ClaimOutboxMessage(w, i)
        PROVE  OneRowPerAttempt'
    BY <1>1, <1>5, <1>6, <2>1 DEF ClaimOutboxMessage, ClaimedRow
  <2>2. CASE MarkPublished(w)
    <3>1. worker[w].msg \in DOMAIN outbox
      BY <2>2 DEF MarkPublished, InductiveInvariant, RowsLinked
    <3> QED
      BY <1>5, <1>6, <2>2, <3>1 DEF MarkPublished, FreedRow
  <2>3. CASE Released(w)
    <3>1. worker[w].msg \in DOMAIN outbox
      BY <2>3 DEF Released, InductiveInvariant, RowsLinked
    <3> QED
      BY <1>5, <1>6, <2>3, <3>1 DEF Released, Charged, FreedRow
  <2>4. GiveUpClaim(w) => Released(w)
    BY OnlyReleased DEF InductiveInvariant
  <2> QED
    BY <1>5, <1>7, <2>1, <2>2, <2>3, <2>4
       DEF WorkerStep, FetchCandidates, ClaimFails, GetDocument, GetDocumentFails,
           PublishIngestionEvent, PublishFails, StoreWriteFails, Crash
<1>8. ASSUME NEW i \in DOMAIN outbox, ClaimAges(i)
      PROVE  OneRowPerAttempt'
  <2>1. outbox' = [outbox EXCEPT ![i] = [outbox[i] EXCEPT !.stale = TRUE]]
    BY <1>1, <1>8, RowType DEF ClaimAges
  <2>2. [outbox[i] EXCEPT !.stale = TRUE].hash = outbox[i].hash
    BY <1>1, RowType DEF OutboxRow
  <2> QED
    BY <1>6, <1>8, <2>1, <2>2 DEF ClaimAges
<1>9. CASE RecoverStaleOutbox
  <2>1. /\ DOMAIN outbox' = DOMAIN outbox
        /\ \A i \in DOMAIN outbox : outbox'[i].hash = outbox[i].hash
    BY <1>9 DEF RecoverStaleOutbox, Charged, FreedRow
  <2> QED
    BY <1>9, <2>1, SameRows DEF RecoverStaleOutbox
<1>10. CASE UNCHANGED vars
  BY <1>5, <1>10 DEF vars
<1>11. CASE Next
  BY <1>2, <1>3, <1>4, <1>5, <1>7, <1>8, <1>9, <1>11 DEF Next, ReportStatus, LoseEvent
<1> QED
  BY <1>10, <1>11

(* A document at attempt n has exactly n + 1 outbox rows. *)
THEOREM RowsMatchAttempts == Spec => []OneRowPerAttempt
<1>1. Init => OneRowPerAttempt
  <2> SUFFICES ASSUME Init PROVE OneRowPerAttempt
    OBVIOUS
  <2>1. DOMAIN outbox = {}
    BY EmptySeq, LenProperties DEF Init
  <2>2. \A h \in Hash : RowsOf(h) = {} /\ documents[h].status = "ABSENT"
    BY <2>1 DEF RowsOf, Init
  <2> QED
    BY <2>2, FS_EmptySet DEF OneRowPerAttempt
<1>2. InductiveInvariant /\ OneRowPerAttempt /\ [Next]_vars => OneRowPerAttempt'
  BY RowCountStep
<1> QED
  BY <1>1, <1>2, Invariance, PTL DEF Spec

-----------------------------------------------------------------------------
(* A claim is ended by its owner or, once stale, by the sweeper.           *)

EndsByOwner ==
    \A i \in DOMAIN outbox :
      (outbox[i].status = "CLAIMED" /\ outbox'[i].status # "CLAIMED") =>
        \/ Stale(outbox[i]) /\ outbox'[i].status # "PUBLISHED"
        \/ LET w == outbox[i].claimedBy IN
             /\ worker[w].msg = i
             /\ worker[w].pc \in {"mark", "release", "block"}
             /\ worker'[w].pc = "pass"

(* Every step that ends a claim is the owner's last one, or a sweep.       *)
LEMMA ClaimStep ==
  ASSUME InductiveInvariant, Next
  PROVE  EndsByOwner
<1>1. /\ outbox \in Seq(OutboxRow)
      /\ worker \in [Worker -> OutboxWorker]
      /\ \A w \in Worker : worker[w].batch \subseteq DOMAIN outbox
  BY DEF InductiveInvariant, TypeOK, RowsLinked
<1>2. ASSUME \A i \in DOMAIN outbox : outbox'[i] = outbox[i]
      PROVE  EndsByOwner
  BY <1>2 DEF EndsByOwner
<1>3. ASSUME NEW h \in Hash, outbox' = Append(outbox, NewRow(h))
      PROVE  EndsByOwner
  BY <1>1, <1>2, <1>3, InsertRow
<1>4. ASSUME NEW w \in Worker, worker[w].msg \in DOMAIN outbox,
             worker[w].pc \in {"mark", "release"},
             worker' = [worker EXCEPT ![w] = Idle(@)],
             NEW row,
             outbox' = IF Holds(w, worker[w].msg)
                         THEN [outbox EXCEPT ![worker[w].msg] = row] ELSE outbox
      PROVE  EndsByOwner
  <2>1. worker'[w].pc = "pass"
    BY <1>1, <1>4 DEF Idle
  <2>2. \A i \in DOMAIN outbox : outbox'[i] = outbox[i] \/ (i = worker[w].msg /\ Holds(w, i))
    BY <1>4
  <2> QED
    BY <1>4, <2>1, <2>2 DEF EndsByOwner, Holds
<1>5. ASSUME NEW w \in Worker, WorkerStep(w)
      PROVE  EndsByOwner
  <2>1. ASSUME NEW i \in worker[w].batch, ClaimOutboxMessage(w, i)
        PROVE  EndsByOwner
    <3>1. \A j \in DOMAIN outbox : outbox'[j] = outbox[j] \/ outbox[j].status = "PENDING"
      BY <1>1, <2>1 DEF ClaimOutboxMessage
    <3> QED
      BY <3>1 DEF EndsByOwner
  <2>2. CASE MarkPublished(w)
    BY <1>4, <2>2 DEF MarkPublished, InductiveInvariant, RowsLinked
  <2>3. CASE Released(w)
    BY <1>4, <2>3 DEF Released, InductiveInvariant, RowsLinked
  <2>4. GiveUpClaim(w) => Released(w)
    BY OnlyReleased DEF InductiveInvariant
  <2> QED
    BY <1>2, <1>5, <2>1, <2>2, <2>3, <2>4
       DEF WorkerStep, FetchCandidates, ClaimFails, GetDocument, GetDocumentFails,
           PublishIngestionEvent, PublishFails, StoreWriteFails, Crash
<1>6. ASSUME NEW i \in DOMAIN outbox, ClaimAges(i)
      PROVE  EndsByOwner
  <2>1. \A j \in DOMAIN outbox : outbox'[j].status = outbox[j].status
    BY <1>1, <1>6, RowType DEF ClaimAges, OutboxRow
  <2> QED
    BY <2>1 DEF EndsByOwner
<1>7. CASE RecoverStaleOutbox
  <2>1. \A j \in DOMAIN outbox :
          outbox'[j] = outbox[j] \/ (Stale(outbox[j]) /\ outbox'[j].status # "PUBLISHED")
    BY <1>7 DEF RecoverStaleOutbox, Charged, FreedRow
  <2> QED
    BY <2>1 DEF EndsByOwner
<1>8. ASSUME NEW s \in statuses, ApplyFailed(s)
      PROVE  EndsByOwner
  <2>1. s.hash \in Hash
    BY DEF InductiveInvariant, TypeOK, StatusEvent
  <2> QED
    BY <1>2, <1>3, <1>8, <2>1 DEF ApplyFailed
<1> QED
  BY <1>2, <1>3, <1>5, <1>6, <1>7, <1>8
     DEF Next, StartIngestion, ReportStatus, LoseEvent, ApplyIndexed

(* No worker ends the claim of another one. *)
THEOREM ClaimsEndByOwner == Spec => ClaimEndsByOwner
<1>1. InductiveInvariant /\ [Next]_vars => [EndsByOwner]_vars
  BY ClaimStep
<1> QED
  BY <1>1, Invariance, PTL DEF Spec, ClaimEndsByOwner, EndsByOwner

-----------------------------------------------------------------------------
(* The loop implements the life cycle of DocumentLifecycle.                *)

LEMMA LifecycleStep ==
  ASSUME InductiveInvariant, [Next]_vars
  PROVE  [Lifecycle!Next]_(Lifecycle!lifecycleVars)
<1> USE DEF Lifecycle!lifecycleVars
<1>1. /\ documents \in [Hash -> Document]
      /\ statuses \subseteq StatusEvent
      /\ ingest \subseteq IngestEvent
      /\ \A w \in Worker : worker[w].pc = "publish" => worker[w].msg \in DOMAIN outbox
  BY DEF InductiveInvariant, TypeOK, RowsLinked
<1>2. ASSUME NEW h \in Hash, StartIngestion(h)
      PROVE  Lifecycle!Register(h)
  BY <1>2 DEF StartIngestion, Lifecycle!Register
(* A publication issues the attempt the worker read, current or not. *)
<1>3. ASSUME NEW w \in Worker, worker[w].pc = "publish",
             ingest' = ingest \cup {Event(w)}, UNCHANGED <<documents, statuses>>
      PROVE  Lifecycle!Next
  <2> DEFINE h == Event(w).hash
             a == Event(w).attempts
  <2>1. h \in Hash /\ documents[h].status # "ABSENT"
    BY <1>1, <1>3, RowType DEF InductiveInvariant, TypeOK, RowsLinked, Event, OutboxRow
  <2>2. a \in Attempt /\ a <= documents[h].retries
    BY <1>3 DEF InductiveInvariant, TypeOK, ReadIsFresh, Event, OutboxWorker
  <2>3. Event(w) = [hash |-> h, attempts |-> a]
    BY DEF Event
  <2>4. Lifecycle!Issue(h, a)
    BY <1>3, <2>1, <2>2, <2>3 DEF Lifecycle!Issue
  <2> QED
    BY <2>1, <2>2, <2>4 DEF Lifecycle!Next, Attempt
<1>4. ASSUME NEW e \in ingest, NEW v \in Verdict, ReportStatus(e, v)
      PROVE  Lifecycle!Report(e, v)
  BY <1>4 DEF ReportStatus, StatusOf, Lifecycle!Report
<1>5. ASSUME NEW s \in statuses, ApplyIndexed(s) \/ ApplyFailed(s)
      PROVE  Lifecycle!Judge(s.hash, s.verdict)
  <2>1. /\ s.hash \in Hash /\ s.verdict \in Verdict
        /\ s = [hash |-> s.hash, attempts |-> s.attempts, verdict |-> s.verdict]
        /\ documents[s.hash].status = "PROCESSING"
        /\ documents[s.hash].retries = s.attempts
        /\ documents[s.hash] \in Document
    BY <1>1, <1>5 DEF ApplyIndexed, ApplyFailed, Current, StatusEvent
  <2> DEFINE d == documents[s.hash]
  <2>2. documents' = [documents EXCEPT ![s.hash] = Lifecycle!After(d, s.verdict)]
    <3>1. CASE ApplyIndexed(s)
      BY <1>1, <2>1, <3>1 DEF ApplyIndexed, Lifecycle!After
    <3>2. CASE ApplyFailed(s) /\ Retry(s)
      <4>1. Lifecycle!After(d, s.verdict) = [d EXCEPT !.retries = s.attempts + 1]
        BY <2>1, <3>2 DEF Retry, Lifecycle!After, Document
      <4> QED
        BY <1>1, <2>1, <3>2, <4>1 DEF ApplyFailed
    <3>3. CASE ApplyFailed(s) /\ ~ Retry(s)
      <4>1. Lifecycle!After(d, s.verdict) = [d EXCEPT !.status = "FAILED"]
        BY <2>1, <3>3 DEF ApplyFailed, Retry, Lifecycle!After, Document
      <4> QED
        BY <1>1, <2>1, <3>3, <4>1 DEF ApplyFailed
    <3> QED
      BY <1>5, <3>1, <3>2, <3>3
  <2> QED
    BY <1>5, <2>1, <2>2 DEF ApplyIndexed, ApplyFailed, Lifecycle!Judge
<1>6. ASSUME NEW w \in Worker, WorkerStep(w)
      PROVE  Lifecycle!Next \/ UNCHANGED <<documents, ingest, statuses>>
  <2>1. CASE PublishIngestionEvent(w)
    BY <1>3, <2>1 DEF PublishIngestionEvent
  <2>2. CASE PublishFails(w)
    BY <1>3, <2>2 DEF PublishFails
  <2> QED
    BY <1>6, <2>1, <2>2
       DEF WorkerStep, FetchCandidates, ClaimOutboxMessage, ClaimFails, GetDocument,
           GetDocumentFails, MarkPublished, GiveUpClaim, StoreWriteFails, Crash
<1>7. CASE UNCHANGED vars
  BY <1>7 DEF vars
<1>8. CASE Next
  <2>1. \A s \in statuses : s.hash \in Hash /\ s.verdict \in Lifecycle!Verdict
    BY <1>1 DEF StatusEvent, Verdict, Lifecycle!Verdict
  <2>2. Lifecycle!Verdict = Verdict
    BY DEF Verdict, Lifecycle!Verdict
  <2> QED
    BY <1>2, <1>4, <1>5, <1>6, <1>8, <2>1, <2>2
       DEF Next, ClaimAges, RecoverStaleOutbox, LoseEvent, Lifecycle!Next
<1> QED
  BY <1>7, <1>8

(* Outbox, workers, sweeper and redelivered status events together show a  *)
(* document nothing but the life cycle: attempts one by one, each judged   *)
(* at most once and only after it was issued, and final outcomes.          *)
THEOREM LoopImplementsLifecycle == Spec => ImplementsLifecycle
<1>1. Init => Lifecycle!Init
  BY DEF Init, Lifecycle!Init
<1>2. InductiveInvariant /\ [Next]_vars => [Lifecycle!Next]_(Lifecycle!lifecycleVars)
  BY LifecycleStep
<1> QED
  BY <1>1, <1>2, Invariance, PTL DEF Spec, ImplementsLifecycle, Lifecycle!Spec
=============================================================================
