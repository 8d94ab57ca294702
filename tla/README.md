# TLA+ models of the RAG POC

This directory holds TLA+ models of the code in `src/`, TLC configurations that
check them on small instances, and TLAPS proofs about every module that describes
code rather than a promise. Names in the models are the names of the code
(`StartIngestion`, `ClaimOutbox`, `_cleanup_consumers` becomes
`XInfo`/`DelConsumer`, ...), and `PROJECT.json` gives, for every definition, the
lines it stands for.

    tlc -workers 2 -config MCIngestionLoop_safety.cfg MCIngestionLoop
    tlapm IngestionLoopProofs.tla

## 1. The system

Two services and the things between them:

    client ──HTTP──> center (Go) ──XADD──> ingest.docs ──> rag-service (Python)
       │               │  SQLite               Redis            │ SQLite registry
       └──PUT──> MinIO │  <───────── ingest.status <────────────┘ Qdrant
                 buckets

1. A client asks the center for an upload intent, PUTs the file with a presigned
   URL, confirms, and polls.
2. Hash workers of the center hash the uploaded object, move it to the ingestion
   bucket under its hash, and record the document together with an outbox row.
3. Outbox workers publish an ingest event per outbox row to a Redis stream.
4. Consumers of the RAG service fetch, parse, chunk, embed and index the
   document and publish a status event to a second stream.
5. Status workers of the center apply the event: the document becomes INDEXED or
   FAILED, or gets another attempt and another outbox row.

Everything is at-least-once and nothing is transactional across stores; claims,
fences, compare-and-swaps and the order of the steps make it correct.

### Inventory

| component | state | operations | hard part | what makes it correct |
|---|---|---|---|---|
| Upload service, `center/internal/upload` | `upload_intent` rows | create intent, confirm (gate, `resolveLostGate`), poll | gates and polls of several requests race, time is read before the update it guards | an answer once given stays true; the poll agrees with the gate |
| Hash worker and sweeper, `center/internal/hashing` | claim of a row, position in the move | claim, exists, hash, copy, verify, remove, record, release, fail, sweep | workers that lost their claim go on; a crash between any two calls | a document row has an object; an upload is never in neither bucket; only owner or sweeper ends a claim |
| Object storage adapter | two buckets | presigned PUT, copy, stat, remove | PUT again during the move | keys are content hashes |
| Intent, document and outbox store (SQLite) | three tables | each statement with its WHERE clause | the fences | atomic with one writer |
| Outbox worker and sweeper, `center/internal/outbox` | claim of a row, the attempt it read | fetch, claim, read document, publish, mark, release, block, sweep | the attempt number is read from the document at publish time, not from the row | no attempt is lost, one row per attempt, budget |
| Stream producer | stream | XADD MAXLEN | an XADD that errors may have been executed; trimming | see the loop and the consumers |
| Status worker and handler, `center/internal/status` | group, batch in hand, `retriedWhileHealthy` | read, claim, probe, apply, ack, poison, cleanup | a store outage must not make entries poison; batches after a crash | no status lost; the poison clock |
| Event payloads, `transport/status_event.py`, `center/internal/events/status.go` | none | parse an ingest event, build a status event, decode it | two languages and two sets of rules for one payload | what one side builds the other reads as it was meant; nothing that is accepted cannot be reported |
| Ingest consumer, `rag/transport/stream_consumer.py` | group, entry in hand, `_held` | read, recover, run, publish, ack, renew, cleanup | reclaim against a live job, held status during an outage | no entry lost; poison is earned; jobs do not overlap |
| Time limits, `core/deadline`, `transport/watchdog.py` | deadline, timer threads, generation | arm, disarm, fire, check, retry | a timer that fires against a disarm; idle time against job time | a live job is never reclaimable; exits are for stuck jobs |
| Ingest service, vector index, registry | points, rows | exists, delete, batched upsert, register | no transaction; overlapping jobs; changes of chunking, filenames of different kinds | a row means completely indexed |
| `reset_index` | the same | clear rows, clear points | crash in between | the same |
| Errors and outcomes, `rag/ingest` | none | classify what a step raised, report it | one wrong class loses a document or its attempts | a final verdict is about the document, never about an outage |
| `ingest_file` tool | newest status id, its own event | upload, XADD, wait | the status may be there before the wait begins | it never reads past its own status |
| Query service, gRPC server | the pool's threads, one generator chain per call | Ask, AskStream | a client leaves, or Groq fails, between any two messages | the protocol of the messages; no stream left open; no text sent for nobody |
| Adapters of embedder, LLM, parsers, blobs | none | I/O and conversions | closing what was opened | errors keep their class |
| Configuration, `rag/core/config_reader.py`, `center/internal/config` | none | read, validate, warn | two readers of one file; rules that compare keys | one run reports everything; both services give the same verdict |
| RAG migrations, startup checks, entry points | SQLite table, Qdrant collection and its index | migrate, check, serve, exit | two runs at once, a changed setup, an outage during the checks | data is never replaced; exit 2 only for what a fix helps |
| Center's main program, HTTP routing, its migrations, evaluation, deployment | – | – | – | – |

`PROJECT.json` lists the same components with what is modelled of each, and the
hazards at their lines with the properties that cover them.

## 2. The modules

| module | models | composed with |
|---|---|---|
| `DocumentLifecycle` | abstract: what the center promises about a document | refined by `IngestionLoop` |
| `IngestionLoop` | document and outbox tables, outbox workers, both streams as sets, application of status events | – |
| `UploadLifecycle` | abstract: what the center promises about an upload | refined by `Upload` |
| `Upload` | intents, requests, hash workers, buckets | – |
| `ConsumerGroup` | external: a Redis stream with its group, one operator per command | used by the next two |
| `IngestConsumer` | the Python consumer loop | extends `ConsumerGroup` |
| `StatusWorker` | the Go consumer loop | extends `ConsumerGroup` |
| `IngestJob` | one process's jobs in time: deadline, watchdog threads, publish retries | – |
| `DocumentIndex` | vector store, registry, ingest jobs, `reset_index` | – |
| `AnswerProtocol` | abstract: what a client of `Ask` and `AskStream` may observe | refined by `QueryStream` |
| `QueryStream` | the query server: pool, retrieval, generator chain, Groq stream, clients that leave | – |
| `EventContract` | the two payloads: parse, construct, decode, as predicates | used by the next one |
| `IngestPipeline` | one document from payload to verdict: consumer, ingest service, center, `ingest_file`, other producers | extends `EventContract` |
| `ConfigReader` | `config.toml` in both readers, the operator who repairs it | used by the next one |
| `ServiceStartup` | migrations, consumer and server as they start and restart | extends `ConfigReader` |
| `IngestionLoopProofs`, `UploadProofs`, `IngestConsumerProofs`, `StatusWorkerProofs`, `DocumentIndexProofs` | theorems about the module they are named after | extend it and TLAPS |
| `RagServiceProofs` | theorems about `IngestPipeline` and `QueryStream` | extends both |
| `SettingsProofs` | theorems about `ConfigReader`, `ServiceStartup` and `IngestJob` | extends the last two |
| `ConsumerGroupProofs` | lemmas about the commands of a group | used by the proofs of both consumers |
| `MC*` | model values and symmetry; `MCRagService` and `MCSettings` put parts that share no moving state side by side | extend their modules |

Operators with a suffix (`Charged_OffByOne`, `Holds_AnyOwner`, ...) that are
marked *Variant* are not part of a specification: each is a plausible defect of
the definition that follows it, and the property it is paired with in
`PROJECT.json` fails when it takes that definition's place. They show that the
property depends on that detail of the code.

### State and actions against the code

**IngestionLoop.** A store call is one step, because `db.go` opens one
connection and SQLite has one writer; the steps of a worker between two calls
interleave with everything else.
- `outbox` is a sequence whose position is the AUTOINCREMENT id; rows are never
  deleted. `claimed_at` is replaced by `stale`: `ClaimAges` may turn it on at
  any moment, since the code does nothing to hold off the sweeper while a worker
  is slow.
- A stream is the set of events ever added: a consumer may be handed any of them
  in any order and any number of times. This covers reclaimed entries and groups
  that are created again at ID 0. `lost` holds events nobody will be handed any
  more, i.e. trimmed ones.
- The status FAILED is split by its `retryable` flag into RETRYABLE and
  PERMANENT, which is all that `ApplyFailed` looks at.
- A worker that dies is a new id afterwards (the code draws a fresh uuid).
- `PublishFails` may have added the event or not. A failing SQLite call is taken
  to have changed nothing.

**Upload.** `clock` is the time of the process; `ConfirmUpload` and the poll
read it in one step (`now`) and use it in later ones. A PUT may arrive at any
time, also after expiry or after confirmation, because a presigned URL that was
opened in time may complete late. SHA-256 is taken to be injective: the hash
stands for the bytes. The list that a hash worker fetches is a hint and folded
into its claim, which checks the same condition again. The buckets are
functions from key to content, and a copy or removal that errors may have been
executed.

**ConsumerGroup / IngestConsumer / StatusWorker.** `pel` keeps owner, delivery
count and whether the entry is idle for `min_idle`. `asleep` are consumers idle
past `consumer_cleanup_idle`. A command is a step; a command whose reply is lost
may have been executed. An entry that a process works on ages only when that
process was suspended (or its command before the job was very slow): this is L15,
which `IngestJob` examines in time. The entries of one group come in any order
in `IngestConsumer` (the code handles one at a time) and in stream order within
a batch in `StatusWorker`. `maxRecoveryRounds` (10) is not reached by the
instances. What the job does to the index is in `DocumentIndex`, what an applied
status does to a document is in `IngestionLoop`. In `IngestConsumer` the read
of an entry and the beginning of its job are one step.

**IngestJob.** Time is discrete. A thread that can run does so before time
passes; calls, pauses, and stretches of the job between two deadline checks take
time. `threads` are the timer threads: waiting, firing (past the wait, not yet
at the lock), acting (past the comparison, not yet at `exit_fn`).
A publish attempt is bounded by `CallTimeout`, as `attempt_bound` is.

**DocumentIndex.** A point is a chunk number together with the way its document
was split (`Splitting`): the chunk configuration of the process, and the kind of
filename that the event named (`Format`), whose extension chooses the parser and
the splitter. The center and `ingest_file` may name the same bytes differently.
The id in the vector store is derived from the hash and the number only, so an
upsert replaces points of another splitting. The filename that a point carries in
its payload is left out. Fetching, parsing, chunking and embedding are one step. A
vector-store call that fails was executed or was not; it is not executed later.
`torn`, `overlapped` and `swept` are history variables: documents one of whose
jobs ended between its delete and its registration, documents two of whose jobs
ran at one time, and documents that had a job while `reset_index` was between
its two steps. Nothing stops the consumers during a reset. A reset that finds a
document without a job clears its history, because it makes up for all of it.

**QueryStream.** A call is one RPC; its handler runs on a thread of the pool.
The answer is a chain of three generators (`AskStream`, `_answer`,
`GroqLLM.stream`); `hand` is the message the inner two have produced and the
outer one has not yet sent. `Check` is `context.is_active()`, `Send` the yield to
gRPC, and only when gRPC resumes the handler does the inner generator go on
(`AfterMessage`). Closing the outer generator closes the others and the HTTP
stream in one step (`Finish`), because nothing else holds them. `Leave` is a
cancel or a deadline of the client and may come at any moment; the handler learns
of it at its next look. `late` counts messages produced after that. For `Ask`,
`list()` drives the same generators without a look at the client.

**EventContract / IngestPipeline.** A payload is a function from the keys present
to tagged JSON values, so a missing key, null, a wrong type and a value out of
range are different things; texts are told apart only as far as a rule does
(empty, not encodable, a timestamp, any other). `Parses`, `Constructs` and
`Decodes` are the three validations, field by field. Around them runs one
document: `Exists` ... `Register` are the steps of `IngestService.process`,
each of which may fail (`Fault`) and is classified as `run_job` does. The center
is reduced to the compare-and-swap of `Handle`; `IngestionLoop` has the rest of
it. `ingest_file` is a second producer and a second reader of the status
stream. There is one consumer and every entry arrives once: redelivery is
`IngestConsumer`'s subject.

**ConfigReader / ServiceStartup.** A file is a function from the paths of its
leaves to tagged TOML values. `BadKeys` is what the typed readers report,
`Problems` adds the timing rules, `Validates` is the center's answer to the same
file. The operator sets each reported key to a suitable value and starts again.
Of the `[go]` table only that it is the center's is modelled; it is taken to be
right. In `ServiceStartup` every call of a migration or of a startup check to
SQLite, Qdrant or Ollama is a step, and a process keeps what it read from the
file (`read`), while the operator changes file, model, collection or key in
between. A collection has a size and a shape (`cosine` for one unnamed dense
cosine vector, `other` for the rest of what `_check_existing` refuses). `seen`
is a history variable: nothing a process looks at has changed since it loaded its
file.

### Composition

`MCRagService` and `MCSettings` each check several modules in one run. The
parts have no moving state in common, so their interleavings would only multiply
the states: the variable `part` picks one part per behaviour and the others hold
still. In `MCSettings` the part `reader` reads and repairs files, `race` runs two
migrations, `consumer` and `server` run one migration and that service, and
`limits` is `IngestJob` under the limits. Real interaction is inside the
modules: `IngestionLoop` contains the center's two halves and both streams,
`IngestPipeline` the consumer, the center and the tool, `ServiceStartup` the
migrations, the services and the operator.

`Upload` and `IngestionLoop` are not put together: what they share is the
transaction `StartIngestion`, and `IngestionLoop` takes it at any moment and for
any document, so the upload adds no behaviour to the loop.

## 3. The runs

All instances are complete state spaces: TLC stops because nothing new is found.
Deadlock is not checked: the bounds on crashes, retries and clocks let the
modelled system come to rest, and so does the real one when no event arrives.

| run | bounds | shows |
|---|---|---|
| `loop_safety` | 1 document, 2 outbox workers, 1 death, 2 attempts, 2 charged claims per row, 2 verdicts per attempt | the safety properties of the loop, the refinement of `DocumentLifecycle` |
| `loop_liveness` | 1 verdict per attempt, 1 lost event, 1 death | `EveryDocumentSettles` |
| `upload_hashing` | 2 intents, 2 contents, 2 PUTs of a content that is new to its URL, 2 hash workers, 1 death, no clock | the move between the buckets, claims, the refinement of `UploadLifecycle` |
| `upload_requests` | 1 intent, 1 worker, 2 requests, clock 0..2 with expiry at 1 | answers of racing requests on both sides of `expires_at` and at it; requests and uploads come to an end |
| `ingest_delivery` | a good and a malformed entry, 2 consumers, poison threshold 3, 3 mishaps, 1 loss of the group, 1 trim | no entry lost, poison is earned, jobs do not overlap |
| `ingest_liveness` | the same entries, threshold 1, 1 mishap, 1 loss | `EveryEntryReported` |
| `status_batches` | batches of 2, one entry malformed, 2 workers, 2 failures, 1 outage, 1 loss, 1 trim, 1 mishap | no status lost, `PoisonClock` |
| `status_liveness` | 1 entry, 2 workers, 1 failure, 1 outage, 1 loss, 1 mishap | `EveryStatusApplied` |
| `index_rows` | 1 document, 3 processes, 2 chunk configurations (3 chunks, then 2), 2 kinds of filename, requests of 2 points, resets at any time | a row means complete |
| `index_resting` | 1 document, 2 processes | violation: `RestingRowsComplete` |
| `rag_parts`, part `query` | a unary and a streaming call, 1 thread, 2 chunks | the properties of `QueryStream`, the refinement of `AnswerProtocol`, `EveryCallEnds` |
| `rag_parts`, part `ingest` | 1 document of 4 kinds under 2 names, 2 attempts, 2 failed calls, 1 entry of another producer out of 8, integers up to 3 | `EveryEntryIsAnswerable`, `VerdictFitsDocument`, `ToolMissesNothing`, `VerdictReached` |
| `settings`, part `reader` | every key of the file with each of 19 other values or none, pairs of keys that rules compare, nested and unknown keys | `ReportIsComplete`, `SameVerdict` |
| `settings`, parts `race`, `consumer`, `server` | 5 files, 2 sizes, 1 change of the setup, 1 outage or crash | `MigrationsKeepData`, `ReportsAreTrue`, `ServesAgain` |
| `settings`, part `limits` | limits 4 + 2 against 10, dispatch up to 5, 3 publish attempts of up to 3, 2 jobs | live jobs are not reclaimable, retries end in time, exits are earned |

Why the bounds are enough:

- *Loop.* Two workers and the sweeper are the actors a claim can have. Two
  attempts are the least in which a late worker publishes the number of a newer
  attempt, or a verdict of an old attempt arrives at a newer one. Two verdicts
  per attempt give contradictory statuses; every status may be applied any
  number of times. The safety properties are also proved for every value of the
  bounds (section 5).
- *Upload.* Two intents for the same content meet in the ingestion bucket; two
  workers and the sweeper contend for one intent. Two PUTs are one of each client,
  or two different ones with one URL. The requests run fixes one worker, because what it is about are
  the two gates. Safety is also proved for every number of each (section 5).
- *Consumers.* A *mishap* is a death, a lost reply or a suspension. Deliveries
  beyond the first are paid for by mishaps, so three reach the poison threshold
  of three exactly. Outages of XADD are unbounded in number and length. Safety is
  also proved for every value.
- *Status.* A batch of two has a neighbour that a failing entry could take with
  it; two failures are what a healthy store lets an entry have in one pass. Safety
  is also proved for every value.
- *Jobs.* Two jobs are the least in which a timer of one meets the next. The
  limits leave room for a dispatch of 3; one of 4 or 5 makes a live job
  reclaimable, and the run has both. Proved for all times (section 5).
- *Query.* Two calls and one thread are the least in which one is refused or waits
  for the other's slot; two chunks have one before and one after a client that
  leaves in the middle. Proved for every value (section 5).
- *Pipeline.* Two failed calls use up two attempts, one leaves an attempt. The
  entries of other producers are a right one for another document, one for the
  same document (which may arrive before the object is stored) and one per field
  and direction in which a field may be wrong; what they can do to a document is
  done by one. Proved for any number of all of them (section 5).
- *Files.* Every rule looks at one key or compares two, so all single keys and the
  pairs that a rule compares cover them; the pairs also contain an unrelated key.
  Proved for every TOML file (section 5).
- *Startup.* The checks run once in a row, so one change or one mishap can fall
  between any two of them, and two of them (one of each) on both sides of one.
  Proved for any number of both.
- *Index.* Requests of two points leave a document of three half-written; one that
  shrinks from three chunks to two shows leftovers; under each configuration two
  kinds of filename give different points of the same numbers. `VIEW` leaves out
  what an idle process remembers of its last job, which no step reads. Documents
  share nothing but the processes and the reset, so one is enough; three processes
  let a job begin while one of two others is cut short. `RowMeansComplete` and
  `QuietRowsComplete` are also proved for every number.

The properties (what is proved of the types of a module is not checked again by
a run; the types of the other modules are a part of `ObjectsAreKept`,
`NoEntryLost`, `NoStatusLost`, `ReportsAreTrue` and `EveryEntryIsAnswerable`):

- `OneRowPerAttempt`, `NoLostAttempt`, `JustifiedOutcome`,
  `RetryBudget`: outbox rows, events, attempts and outcomes agree under late,
  repeated and contradictory deliveries. `ClaimEndsByOwner` (both in the loop and
  in the upload): a worker whose claim was swept ends nobody else's claim.
- `EveryDocumentSettles`: apart from a BLOCKED row and a lost event, the two cases
  the backlog names (B1, B2), no document stays PROCESSING.
- `ObjectsAreKept` (`DocumentHasObject`, `UploadIsKept`): a document row never precedes its object,
  an upload is in one of the buckets at every moment, and an object differs from
  its key only when one client PUT both contents.
- `AnswersHold`, `PollMatchesGate`, `CallsAnswered`, `UploadSettles`: what a
  request was told stays true, and requests and uploads come to an end.
- `NoEntryLost`, `NoStatusLost`: acknowledgement comes after the effect. They
  except entries that Redis trimmed, and those that left with a deleted consumer.
- `PoisonIsEarned`, `PoisonClock`: outages and neighbours do not poison entries. A
  store that comes back between a failed attempt and the probe makes the outage
  look like a fault of the entry, but a worker takes one outage for one fault only.
- `JobsDoNotOverlap`, `LiveJobNotReclaimable`: L15, in events and in time. The
  second one excepts a job whose own dispatch took all that `min_idle` has beyond
  the two limits.
- `RetriesEndInTime`, `ExitsAreEarned`: the publish retries and the watchdog.
- `RowMeansComplete`, `QuietRowsComplete`: a registered document has all chunks of
  one splitting and no other, while its jobs never overlapped, and also when they
  overlapped, split it alike (one configuration and one kind of filename) and none
  was cut short. Both except jobs
  during a reset, and start again with a reset of the document at rest.
- `ImplementsProtocol`: what a client sees of its call is the protocol of
  `rag.proto`, whatever fails (`CompleteMeansAnswered`, an OK had its sources, is
  proved).
- `NoStreamLeftOpen`, `AbandonedStreamStops`, `TextLeavesForAClient`,
  `EveryCallEnds`: what a client that left still costs: at most one message, no
  open stream, no Groq call if it left during retrieval, and no thread. A client
  that stays connected and does not read keeps its thread; `EveryCallEnds` says
  that nothing else does.
- `EveryEntryIsAnswerable` (`NoEntryStuck`, `CenterReadsEveryStatus`): the three
  validations fit together.
- `VerdictFitsDocument` (`FinalStatusFits`, `OutageNeverCondemns`) and
  `VerdictReached`: a verdict is
  about the document, outages fail it only by using up its attempts, and there is
  one in the end. An event of another producer with the document's hash may
  bring a verdict of its own, which the first one excepts by name. Such an event
  that arrives before the center has stored the object is answered "missing
  object, retry", whatever attempt it names, and the center takes that for an
  answer to its own: it uses up an attempt as an outage does (`Premature`).
- `ToolMissesNothing`: the tool's wait cannot miss its own status.
- `ReportIsComplete`: after a repair of everything reported nothing new turns up,
  except a rule that could not compare its keys because one had no usable value
  (`OneRunReportsAll`); no key is silently ignored (`NoKeyIgnored`); an accepted
  file has what the other modules assume (`AcceptedIsSafe`).
- `SameVerdict`: the two readers agree on the keys both insist on.
- `MigrationsKeepData`: migrations may race, die and be repeated.
- `ReportsAreTrue`: a migration that completed left what the services need
  (`DoneMeansMigrated`), a service that runs has its key and a model of the expected
  size, and a collection to match if it was migrated with the same file
  (`RunningFits`),
  and one that gives up with exit 2 has not (`Exit2IsEarned`). `ServesAgain`:
  outages pass.

### Where the code and its comments differ

One run is a violation: it checks a statement that the repository makes and the
code does not keep. `PROJECT.json` ("findings") quotes the lines.

- `index_resting`. Two jobs of one hash "can both finish". When the second one
  deletes the points of the registered document and then fails, the row stays,
  the points are gone, and no later event repairs it.

Others were met while modelling and have no run of their own:

- `hashing/worker.go` says of `ErrNoTempObject` that the uploaded object is gone and
  retrying cannot help. The move removes the original before `StartIngestion`
  commits; when the transaction fails, the retry finds no original and fails the
  upload, although its bytes are in the ingestion bucket under their hash.
- `check_embedding_dim` says that the model's size "must match the collection's"; it
  compares the model with `[rag].embedding_dim`, and `check_collection` looks only
  whether the collection exists. `RunningFits` therefore speaks of the collection's size only after a
  migration that completed with the same file; a size edited afterwards is found by
  the first upsert.
- `load` catches `OSError` and `TOMLDecodeError`; a file that is not UTF-8 ends in
  a traceback.
- The center accepts any `go.outbox.schema_version` of at least 1; the consumer
  accepts 1 only and acknowledges the rest unseen.
- `_cleanup_consumers` and its counterpart in the center read the pending counts
  and delete in two commands; a consumer that was idle for the whole cleanup
  period and takes an entry in between is deleted with it (`dropped` in
  `ConsumerGroup`), although "a consumer with pending entries is never deleted".
- `_renew` claims with min-idle 0 from any owner; the PRD (B11) says "only if
  owned". `JobsDoNotOverlap` holds regardless, because a claimant looks at the
  owner again before it starts a job.
- `_check_timing` asks for `job_timeout + watchdog_grace < min_idle`; the idle
  time starts at the claim, and XPENDING comes before the job. With the times of
  `config.e2e.toml` (5 + 2 against 10) a round trip of 3 s makes a live job
  reclaimable, although the two limits "guarantee" that it is not.
  `LiveJobNotReclaimable` holds of every configuration that `_check_timing` accepts
  because it excepts exactly the jobs whose dispatch took that long; the corollary
  `RoomForDispatch` says which configurations have none.
- `Watchdog._fire` compares the generation under the lock and exits after it: a
  job that returns just then is disarmed and the process exits nevertheless.
  `ExitsAreEarned` is about the comparison.
- `hashAndRecord` copies what the key holds at that time: a client that PUTs
  again with the same URL between hash and copy has the newer bytes stored under
  the older hash, also for others who uploaded the older document. `UploadIsKept`
  says that nobody else can cause that, and that no bytes are lost.
- Overlapping jobs of different chunk configurations (a rolling change of
  `chunk_size`), or of one configuration under filenames of different kinds (the
  center's `.md` and the tool's `.txt` of the same bytes), can leave a mixture of
  both under one row, also when no job is cut short; `QuietRowsComplete` excepts
  them. "Two jobs for the same hash can both finish" takes it that they write the
  same points.
- `serve()` refuses calls beyond the pool at once, so that they do not wait behind
  long streams, but bounds no stream: a client that stays connected and stops
  reading holds its handler at the `yield` (gRPC waits for flow control), with the
  thread and the open Groq stream, and no deadline or keepalive ends that.
- `config.e2e.toml` says that a failed publish is left to redelivery; the consumer
  holds the status and publishes it again itself.

## 4. Fairness

- `IngestionLoop`, `Upload`: weak fairness of what a worker does next, of the
  sweeper and of the ageing of a claim: tickers fire for ever and each pass
  handles its batch. In the loop also strong fairness of a claim by *some*
  worker, since a store that fails some claims does not fail all of them, and
  weak fairness of an answer to each delivered event and of applying a status.
  Calls may fail and claims may be swept at any time; both charge the row, so
  budgets end it. Nothing is assumed of clients, crashes and losses.
- `IngestConsumer`, `StatusWorker`: weak fairness of what a live process simply
  does next; strong fairness of reading, of beginning a recovery pass and of
  claiming, because the loop alternates between them and each is disabled in
  between; strong fairness of publishing, which may fail many times but not for
  ever. The store comes back from its (bounded) outages. Entries that nobody
  works on grow old, because Redis' clock runs. The bound on mishaps leaves at
  least one process alive.
- `QueryStream`: weak fairness of what a handler does by itself (`OwnStep`): every
  call it makes to Ollama, Qdrant or Groq is bounded by `call_timeout`, so its step
  is taken or fails. The hand-over of a message to gRPC (`Send`) is fair only when
  the client is gone, since gRPC then closes the handler; while it is there, the
  hand-over waits until it reads, and nothing is assumed of clients.
- `IngestPipeline`: weak fairness of the consumer and of the center's reading;
  both loop until they are stopped. Nothing is assumed of the tool, of other
  producers, or of whether the center sends the document at all.
- `ServiceStartup`: weak fairness of a service's next check or restart (compose:
  `restart: unless-stopped`) and of the end of an outage. Nothing is assumed of
  migrations or the operator.
- `IngestJob`, `DocumentIndex` and `ConfigReader` have no liveness properties.

## 5. What is proved

For every set of hashes and workers and every value of the limits that satisfies
`ConfigAssumption` (attempts, retries and batch size are positive, which
`Config.Validate` enforces), `IngestionLoopProofs` proves of `IngestionLoop!Spec`:

| theorem | property |
|---|---|
| `Invariance` | `InductiveInvariant` |
| `TypeCorrectness` | `TypeOK` |
| `AttemptsAreNotLost` | `NoLostAttempt` |
| `EventsAreNotAhead` | `NoEventAhead` |
| `BudgetIsKept` | `RetryBudget` |
| `OutcomesAreJustified` | `JustifiedOutcome` |
| `RowsMatchAttempts` | `OneRowPerAttempt` |
| `ClaimsEndByOwner` | `ClaimEndsByOwner` |
| `LoopImplementsLifecycle` | `ImplementsLifecycle`, safety of the refinement |

The argument. `NoLostAttempt` is not inductive: a worker reads `document.Retries`,
may lose its claim, and marks the row later, so one must know what its number is
worth by then. `ReadIsFresh` says it: the number is one the document has reached,
and if the worker's row is still the latest of its document the number is the
current one. That holds because a document moves to its next attempt only in the
transaction that inserts the next row, after which the worker's row is not the
latest. `PublishedIsDelivered` is `NoLostAttempt` without the condition on the
document's status; `RowsLinked` ties rows, documents and workers together.
Three lemmas, one per kind of step, carry the proof: `TableStep` (one row and at
most one worker change), `FinishStep` (a verdict ends a document) and
`AttemptStep` (a document reaches an attempt and its row appears); the actions
are instances of them. `JustifiedOutcome`, `OneRowPerAttempt` and
`ClaimEndsByOwner` are proved from the invariant by a step lemma each.

For every set of intents, contents, workers and requests and every value of the
limits that satisfies `ConfigAssumption` (retries and the upload window are
positive), `UploadProofs` proves of `Upload!Spec`:

| theorem | property |
|---|---|
| `BytesAreKept` | `ObjectsAreKept` |
| `ClaimsEndByOwner` | `ClaimEndsByOwner` |
| `AnswersStayTrue` | `AnswersHold` |
| `PollsMatchTheGate` | `PollMatchesGate` |
| `UploadImplementsLifecycle` | `ImplementsLifecycle`, safety of the refinement |

The invariant has three layers. `RowsInv` bounds the retries and says that only a
linked row has a hash. `BucketsInv` is about the move: the hash a worker carries
is of bytes its client PUT, also after the worker lost its claim, and from the copy
on an object is under that key. No worker takes an object out of the ingestion
bucket, so this needs no claim, and a late worker does no harm. For
`UploadIsKept` it remains that a removal comes after a copy under a hash of the
same client.
`CallsInv` is about racing requests: an EXPIRED row was expired by a request that
read the clock at `expires_at` or later, and who was told to wait read it earlier.

The two consumers are proved for every set of entries and consumers (a finite
one of status workers) and every value of thresholds, batch sizes and bounds
that is positive where the configuration insists on it.

| module | theorem | property |
|---|---|---|
| `IngestConsumerProofs` | `Invariance` | `IInv` |
| | `EntriesAreKept` | `NoEntryLost` |
| | `PoisonTakesMishaps` | `PoisonIsEarned` |
| | `JobsAreAlone` | `JobsDoNotOverlap` |
| `StatusWorkerProofs` | `Invariance` | `IInv` |
| | `StatusesAreKept` | `NoStatusLost` |
| | `PoisonClockIsFair` | `PoisonClock` |

`ConsumerGroupProofs` shows what any command does to the group: types, `InOnePlace`
(an entry that was not delivered yet is not pending), and `EntryStays`: only XACK
takes an entry from the stream's group for good while the group is there. No
entry is lost because who stands at XACK has published its status (`Told`) or
applied or given it up (`Finished`).

For `PoisonIsEarned` one has to know who pays for a delivery: an entry whose
owner no longer has it in hand, or which is idle, has cost a mishap already
(`Paid`), so the next claim adds a delivery that is paid for. `Alone` is the
argument for `JobsDoNotOverlap`: an entry that is being run is not idle, so nobody
can claim it, and a process that claimed it before and has not looked yet finds
another owner, since a renewal by force makes the renewing process the owner.

`PoisonClock` counts more. A worker whose first attempt failed owes a fault of the
entry, its own failure or an outage. `Account` says that there is a set of
charges, pairs of a worker and an outage, such that deliveries and debts are at
most workers that have the entry, mishaps, failures and charges. While an outage lasts, a worker that
charged it waits for its end, and thus cannot charge it again. The pass that a
retry on a healthy store ends pays the debt with the worker's place.

For every finite set of calls, every subset of streaming ones and every number of
threads and chunks (`QueryAssumption`), `RagServiceProofs` proves of
`QueryStream!Spec`:

| theorem | property |
|---|---|
| `Invariance` | `IInv` |
| `TypeCorrect` | `TypeOK` |
| `StreamsAreClosed` | `NoStreamLeftOpen` |
| `TextLeavesEarned` | `TextLeavesForAClient` |
| `AbandonedStops` | `AbandonedStreamStops` |
| `CompleteIsAnswered` | `CompleteMeansAnswered` |
| `Refinement` | `ImplementsProtocol` |

Its invariant says for each place a handler can be in what the generators have
produced, what the client has, and what the model's stream is: for instance that
a handler which reads from Groq for a stream has sent the sources, and that
`late` is one only between the message that was produced for nobody and the look
that ends the call. The bound on open streams follows from the bound on running
handlers, which needs the cardinality of finite sets.

For every set of names, every set of entries that other producers may send, any
number of them, and every number of faults and attempts (`PipelineAssumption`),
`RagServiceProofs` proves of `PipelineSpec`:

| theorem | property |
|---|---|
| `EntriesAnswerable` | `EveryEntryIsAnswerable` |
| `VerdictsFit` | `VerdictFitsDocument` |
| `ToolNeverMisses` | `ToolMissesNothing` |

`PipelineAssumption` asks of the entries of other producers only that those which
parse name the one object that the model has (`bucket_path`), and of the limits
that attempts are numbers the payloads can carry. The
contract of the payloads is a lemma without state (`StatusIsRead`): every status
that the consumer can build of an event that parsed is accepted by the
constructor and by the center, and says there what it said here. The invariant
`PInv` then follows one verdict: a job's status is about the entry read last
(`JobAnswersEntry`) and true of the document (`JobIsHonest`), and, for
`OutageNeverCondemns`, who pays for a retry: every status that allows one was
caused by a fault or by a premature request (`RetriesPaid`), the center counts
at most those it has read (`AttemptsCounted`), and no request is premature once
the center or the tool has sent its own (`StoredFirst`). The sums over both
streams need the cardinality of finite sets. `ToolIsAhead` says that an answer to
the tool's entry is after the id the tool noted, because it notes the id first.

For every set of documents and processes, every number of chunk configurations and
every set of kinds of filename (`IndexAssumption`), `DocumentIndexProofs` proves of `DocumentIndex!Spec`:

| theorem | property |
|---|---|
| `TypeCorrect` | `TypeOK` |
| `RowsComplete` | `RowMeansComplete` |
| `QuietRows` | `QuietRowsComplete` |

The invariant describes an undisturbed document (neither `overlapped` nor `swept`)
by its one active job: between delete and register exactly the points of the
batches already upserted are there, all of that job's splitting. Between the two
steps of `reset_index` it has no job and no row, which is why clearing the points
then harms nobody.

`QuietRowsComplete` is about jobs that do overlap, and needs an invariant of its
own (`QInv`). All those that overlapped since the last reset have one splitting, so
they write the same points, and what one job has written is only ever taken away
by the delete of another. While jobs are between their delete and their end
(`Writers`), the points are all there, or at least those that the job which
deleted last has written since (`Rewritten`); that job writes the rest before it
registers, so they are all there when the last of them ends (`Kept`). A job that
is cut short in between (`torn`) breaks this, which is the violation of
`index_resting`.

What depends on `config.toml` is in `SettingsProofs`. Of `ConfigSpec`, for every
set of files that satisfies `ReaderAssumption`:

| theorem | property |
|---|---|
| `CompleteReports` | `ReportIsComplete` |
| `VerdictsAgree` | `SameVerdict` |

`ReaderAssumption` says that the files are TOML (`IsToml`: no path is a leaf and a
table at once, an integer is one), that the repository's own file is accepted, and
that `job_timeout` and `watchdog_grace` are short enough for their sum to be
written as the six digits of a duration in seconds, since that is how the operator
of the model writes it (`IsShort`, five days each). Nothing is assumed of how
many keys are missing, wrong or misspelled. The argument is about one repair:
keys that were right keep their value, although what stood in the way of another
key is removed (`OtherKeys`; no known key is a prefix of another, `KnownApart`),
and keys that were set are accepted (`SuitedSuits`). What can still be wrong after
it is an overlap against a chunk size that was set as well, or two durations one
of which was not usable before (`OnlyOverlap`, `TimingSettled`); both are what
`hidden` records, and the second repair leaves nothing (`SecondRun`). `NoKeyIgnored`
needs that an accepted file has no leaf under a key and none in place of a table
(`NoKeyTable`, `NoTableLeaf`). `VerdictsAgree` compares the two validations key by
key; that Python accepts nothing which Go cannot decode (`AcceptedDecodes`) needs
the bounds of the integers.

Of `StartupSpec`, for every set of migrations, files and sizes and every number of
changes and mishaps (`StartupAssumption`):

| theorem | property |
|---|---|
| `TrueReports` | `ReportsAreTrue` |
| `DataKept` | `MigrationsKeepData` |

The invariant `SInv` says for each place a migration or a service can be in what
it has passed (`Passed`, `Checked`): while nothing it looks at has changed, the
file is the one it read, the table, the collection and the index are as it saw or
made them, and the model is there and fits. Another migration cannot disturb that, because it
adds only what was missing, and with the same size as long as the file is the
same.

For all times that satisfy `TimingAssumption` (`_check_timing`: positive limits,
`job_timeout + watchdog_grace < min_idle`), it proves of `IngestJob!Spec`:

| theorem | property |
|---|---|
| `JobInvariance` | `IInv` |
| `JobTypeCorrectness` | `TypeOK` |
| `LiveJobsAreNotReclaimed` | `LiveJobNotReclaimable` |
| `RetriesAreOver` | `RetriesEndInTime` |
| `ExitsAreForStuckJobs` | `ExitsAreEarned` |

Its invariant ties the idle time to the time since the start of the job
(`Dispatched`: they differ by what the dispatch took, which `busy` keeps while the
job runs), says that while a job runs past the limit a thread of its own
generation is on its way to exit (`Guarded`), and that a thread which is acting
belongs to a generation that was armed when it was compared (`Generations`,
`Timers`). The corollary `RoomForDispatch` draws the conclusion for a `min_idle`
that also has room for every dispatch: no live job is reclaimable. `_check_timing`
does not ask for that (section 3).

Only model-checked: all liveness (`EveryDocumentSettles`, `UploadSettles`,
`CallsAnswered`, `EveryEntryReported`, `EveryStatusApplied`, `EveryCallEnds`,
`VerdictReached`, `ServesAgain`), which under fairness is out of the prover's
reach. Every invariant, action property and refinement that a passing run checks
is stated by a theorem.

## 6. What is not modelled

- Vectors, scores, prompt text, citations, chunk boundaries: conversions whose
  result no property tells apart. `build_user_message` in particular is a pure
  function on text.
- The center's main program, HTTP routing, request validation and its own
  migrations: run before or around what is modelled; `Init` is the state they
  leave. The stub mode of the consumer (`RAG_STUB_MODE`) is a test aid.
- The `[go]` table of `config.toml`, which only the center reads.
- The retrieval evaluation, generated gRPC stubs, JSON schemas as files, scripts.
- Failures of SQLite files and of Redis beyond trimming and the loss of the group.
