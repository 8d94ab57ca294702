---------------------------- MODULE IngestPipeline ----------------------------
(***************************************************************************)
(* What becomes of one document's events from the payload to the verdict:  *)
(* the consumer parses an entry, the ingest service runs its steps, every  *)
(* error is classified and reported, and two readers wait for the report:  *)
(* the center, which retries or gives up, and the ingest_file tool.  Other *)
(* producers may put anything on the ingest stream.                        *)
(*                                                                         *)
(* One consumer and no lost entries: redelivery is IngestConsumer's        *)
(* subject, the row and the points are DocumentIndex's.                    *)
(***************************************************************************)
EXTENDS EventContract, Sequences, FiniteSets

CONSTANTS
    Documents,      \* what "doc" may be: its kind, its name at the center and the tool
    Foreign,        \* payloads of other producers; one that parses names the object "doc"
    MaxAttempts,    \* [ingestion].max_attempts
    MaxFaults,      \* bound: failed calls to a dependency, timeouts included
    MaxForeign      \* bound: entries of other producers

Kind == {"sound", "large", "corrupt", "empty"}
Name == {"a.pdf", "a.bin"}

ASSUME PipelineAssumption ==
    /\ Documents \subseteq [kind : Kind, center : Name, tool : Name]
    /\ MaxAttempts \in 1 .. MaxInteger
    /\ MaxFaults \in Nat /\ MaxForeign \in Nat
    /\ \A payload \in Foreign : Parses(payload) => payload.fields.bucket_path.text = "doc"

VARIABLES
    document,   \* what the bytes of "doc" are, and the names it was sent under
    objects,    \* keys in the ingestion bucket
    ingest,     \* payloads on the ingest stream
    statuses,   \* payloads on the status stream
    job,        \* the consumer: step, event, the status to publish, entries read
    rows,       \* hashes in indexed_documents
    center,     \* the center's row of "doc" and the statuses it has read
    tool,       \* ingest_file: step, status ids, exit code, its entry (ghost)
    answered,   \* ghost: the id of the status of the tool's entry, 0 before
    faults      \* ghost: failed calls so far

pvars == <<document, objects, ingest, statuses, job, rows, center, tool, answered, faults>>

MaxFileBytes == 1
NoEvent == [hash |-> "", filename |-> "", size |-> 0, attempts |-> 0]
NoStatus == << >>

Payload(hash, filename, size, attempts) ==
    [fields |-> [id |-> [text |-> "uuid"], hash |-> [text |-> hash],
                 filename |-> [text |-> filename], bucket_path |-> [text |-> "doc"],
                 size |-> [int |-> size], attempts |-> [int |-> attempts],
                 created_at |-> [text |-> "stamp"], schema_version |-> [int |-> 1]]]

SizeOf(kind) == IF kind = "large" THEN MaxFileBytes + 1 ELSE MaxFileBytes
Sent(filename, attempts) == Payload("doc", filename, SizeOf(document.kind), attempts)

EventsOf(hash) ==
    {ParsedEvent(ingest[i]) : i \in {j \in DOMAIN ingest :
        Parses(ingest[j]) /\ ParsedEvent(ingest[j]).hash = hash}}

(* A row is of a hash that some event had. *)
PipelineTypeOK ==
    /\ document \in Documents
    /\ objects \subseteq {"doc"}
    /\ \A hash \in rows : EventsOf(hash) # {}
    /\ job.step \in {"idle", "exists", "fetch", "embed", "register", "publish", "stuck"}
    /\ job.read \in 0 .. Len(ingest)
    /\ center.status \in {"NEW", "PROCESSING", "INDEXED", "FAILED"}
    /\ center.attempts \in 0 .. (MaxAttempts - 1)
    /\ center.read \in 0 .. Len(statuses)
    /\ tool.step \in {"put", "look", "add", "wait", "ended"}
    /\ tool.exit \in {0, 1}
    /\ answered \in 0 .. Len(statuses)
    /\ faults \in 0 .. MaxFaults

PipelineInit ==
    /\ document \in Documents
    /\ objects = {}
    /\ ingest = << >> /\ statuses = << >>
    /\ job = [step |-> "idle", event |-> NoEvent, status |-> NoStatus, read |-> 0]
    /\ rows = {}
    /\ center = [status |-> "NEW", attempts |-> 0, read |-> 0]
    /\ tool = [step |-> "put", after |-> 0, last |-> 0, exit |-> 0, entry |-> 0]
    /\ answered = 0
    /\ faults = 0

-----------------------------------------------------------------------------
(* The consumer.  An entry that does not parse is acknowledged and gone.   *)

Take ==
    /\ job.step = "idle" /\ job.read < Len(ingest)
    /\ LET payload == ingest[job.read + 1]
       IN  job' = IF Parses(payload)
                  THEN [job EXCEPT !.read = @ + 1, !.step = "exists", !.event = ParsedEvent(payload)]
                  ELSE [job EXCEPT !.read = @ + 1]
    /\ UNCHANGED <<document, objects, ingest, statuses, rows, center, tool, answered, faults>>

At(step) == job.step = step
To(step) == job' = [job EXCEPT !.step = step]
Report(status) == job' = [job EXCEPT !.step = "publish", !.status = status]
Permanent(reason) == Report(Failed(job.event, FALSE, reason))
others == <<document, objects, ingest, statuses, center, tool, answered>>

(* A row means INDEXED without redoing the work.  An unsupported or an     *)
(* oversized file is refused before the fetch, so it costs nothing.        *)
Exists ==
    /\ At("exists")
    /\ IF job.event.hash \in rows THEN Report(Indexed(job.event, << >>))
       ELSE IF job.event.filename = "a.bin" \/ job.event.size > MaxFileBytes
            THEN Permanent("UNSUPPORTED_TYPE")
       ELSE To("fetch")
    /\ UNCHANGED <<rows, faults, others>>

(* Variant: text of blanks only is indexed. *)
Parsed_Blank(kind) == IF kind = "corrupt" THEN Permanent("CORRUPT_FILE") ELSE To("embed")

(* The parser's text is chunked unless it is blank. *)
Parsed(kind) ==
    IF kind = "corrupt" THEN Permanent("CORRUPT_FILE")
    ELSE IF kind = "empty" THEN Permanent("EMPTY_TEXT")
    ELSE To("embed")

(* The cap holds for the bytes read, whatever size the event claims. *)
Fetch ==
    /\ At("fetch")
    /\ IF "doc" \notin objects THEN Report(Failed(job.event, TRUE, "INTERNAL"))
       ELSE IF document.kind = "large" THEN Permanent("UNSUPPORTED_TYPE")
       ELSE Parsed(document.kind)
    /\ UNCHANGED <<rows, faults, others>>

(* Embed the batches, delete the old points, upsert the new ones. *)
EmbedAndUpsert ==
    /\ At("embed")
    /\ To("register")
    /\ UNCHANGED <<rows, faults, others>>

Register ==
    /\ At("register")
    /\ rows' = rows \cup {job.event.hash}
    /\ Report(Indexed(job.event, [chunk_count |-> 1]))
    /\ UNCHANGED <<faults, others>>

(* A failing call, or the deadline before it.  SQLite errors are           *)
(* unclassified; nobody tells JOB_TIMEOUT from the reason given here.      *)
FaultReason(step) ==
    IF step \in {"exists", "register"} THEN "INTERNAL" ELSE "DEPENDENCY_UNAVAILABLE"

RunJobFailed(reason) == Report(Failed(job.event, TRUE, reason))

Fault ==
    /\ job.step \in {"exists", "fetch", "embed", "register"}
    /\ faults < MaxFaults
    /\ faults' = faults + 1
    /\ RunJobFailed(FaultReason(job.step))
    /\ UNCHANGED <<rows, others>>

(* StatusEvent is built outside run_job: what it refuses is logged, and    *)
(* the entry stays pending; a poison report would fail in the same way.    *)
Publish ==
    /\ At("publish")
    /\ IF Constructs(job.status)
       THEN /\ statuses' = Append(statuses, [fields |-> ToDict(job.status)])
            /\ job' = [job EXCEPT !.step = "idle", !.event = NoEvent, !.status = NoStatus]
            /\ answered' = IF job.read = tool.entry THEN Len(statuses) + 1 ELSE answered
       ELSE /\ To("stuck")
            /\ UNCHANGED <<statuses, answered>>
    /\ UNCHANGED <<document, objects, ingest, rows, center, tool, faults>>

Consumer ==
    Take \/ Exists \/ Fetch \/ EmbedAndUpsert \/ Register \/ Fault \/ Publish

-----------------------------------------------------------------------------
(* The center stores the object before it publishes the first event.       *)

CenterSends ==
    /\ center.status = "NEW"
    /\ center' = [center EXCEPT !.status = "PROCESSING"]
    /\ objects' = objects \cup {"doc"}
    /\ ingest' = Append(ingest, Sent(document.center, 0))
    /\ UNCHANGED <<document, statuses, job, rows, tool, answered, faults>>

MayRetry(ev) == ev.retryable /\ ev.attempts + 1 < MaxAttempts

(* Variant: the next attempt is counted and not sent. *)
Resent_Not(attempts) == ingest

Resent(attempts) == Append(ingest, Sent(document.center, attempts))

(* Handle: only a valid status of the current attempt of a document that   *)
(* is being processed changes anything.                                    *)
CenterReads ==
    /\ center.read < Len(statuses)
    /\ LET payload == statuses[center.read + 1]
           ev == Decoded(payload)
           current == /\ Decodes(payload)
                      /\ ev.hash = "doc" /\ center.status = "PROCESSING"
                      /\ ev.attempts = center.attempts
           retry == current /\ ev.status = "FAILED" /\ MayRetry(ev)
       IN  /\ center' = [status |-> IF ~ current \/ retry THEN center.status ELSE ev.status,
                         attempts |-> IF retry THEN center.attempts + 1 ELSE center.attempts,
                         read |-> center.read + 1]
           /\ ingest' = IF retry THEN Resent(center.attempts + 1) ELSE ingest
    /\ UNCHANGED <<document, objects, statuses, job, rows, tool, answered, faults>>

ForeignEntry ==
    /\ Cardinality({i \in DOMAIN ingest : ingest[i] \in Foreign}) < MaxForeign
    /\ \E payload \in Foreign : ingest' = Append(ingest, payload)
    /\ UNCHANGED <<document, objects, statuses, job, rows, center, tool, answered, faults>>

-----------------------------------------------------------------------------
(* The ingest_file tool: put the object, note the newest status id, add    *)
(* the event, wait.  It reads the status stream without a group.           *)

(* Variant: the newest status id is noted after the event is added. *)
Following_AddFirst(step) ==
    IF step = "put" THEN "add" ELSE IF step = "add" THEN "look" ELSE "wait"

Following(step) ==
    IF step = "put" THEN "look" ELSE IF step = "look" THEN "add" ELSE "wait"

ToolPut ==
    /\ tool.step = "put"
    /\ objects' = objects \cup {"doc"}
    /\ tool' = [tool EXCEPT !.step = Following("put")]
    /\ UNCHANGED <<document, ingest, statuses, job, rows, center, answered, faults>>

ToolLook ==
    /\ tool.step = "look"
    /\ tool' = [tool EXCEPT !.step = Following("look"), !.after = Len(statuses), !.last = Len(statuses)]
    /\ UNCHANGED <<document, objects, ingest, statuses, job, rows, center, answered, faults>>

ToolAdd ==
    /\ tool.step = "add"
    /\ ingest' = Append(ingest, Sent(document.tool, 0))
    /\ tool' = [tool EXCEPT !.step = Following("add"), !.entry = Len(ingest) + 1]
    /\ UNCHANGED <<document, objects, statuses, job, rows, center, answered, faults>>

(* One XREAD: the entries after the last one seen, up to a match. *)
ToolReads ==
    /\ tool.step = "wait" /\ tool.last < Len(statuses)
    /\ LET matching == {i \in (tool.last + 1) .. Len(statuses) :
                            Decoded(statuses[i]).hash = "doc"}
       IN  IF matching = {}
           THEN tool' = [tool EXCEPT !.last = Len(statuses)]
           ELSE LET first == CHOOSE i \in matching : \A j \in matching : i <= j
                IN  tool' = [tool EXCEPT !.step = "ended", !.last = first,
                               !.exit = IF Decoded(statuses[first]).status = "INDEXED" THEN 0 ELSE 1]
    /\ UNCHANGED <<document, objects, ingest, statuses, job, rows, center, answered, faults>>

(* Nobody waits for the tool: one that fails or whose time is over takes   *)
(* no further step.                                                        *)
Tool == ToolPut \/ ToolLook \/ ToolAdd \/ ToolReads

PipelineNext == Consumer \/ CenterSends \/ CenterReads \/ ForeignEntry \/ Tool

PipelineSpec == PipelineInit /\ [][PipelineNext]_pvars

(* The consumer and the center's status worker run until they are stopped. *)
PipelineFair == PipelineSpec /\ WF_pvars(Consumer) /\ WF_pvars(CenterReads)

-----------------------------------------------------------------------------
(* Safety.                                                                 *)

(* No content of an entry leaves it pending for good: the status of        *)
(* whatever parse accepts is one that StatusEvent's constructor accepts.   *)
NoEntryStuck == job.step # "stuck"

(* What the consumer publishes the center accepts, and under the hash the  *)
(* event had.                                                              *)
CenterReadsEveryStatus ==
    \A i \in DOMAIN statuses :
      /\ Decodes(statuses[i])
      /\ Decoded(statuses[i]).hash = statuses[i].fields.hash.text

(* Both halves of the contract: whatever text, number or null another      *)
(* producer puts in a field, the entry gets a status, and the center can   *)
(* read it (with the types of the state).                                  *)
EveryEntryIsAnswerable == PipelineTypeOK /\ NoEntryStuck /\ CenterReadsEveryStatus

Refusable(hash) ==
    \E ev \in EventsOf(hash) : ev.filename = "a.bin" \/ ev.size > MaxFileBytes

(* A verdict that no retry follows is about the document: INDEXED for text *)
(* that was found, a permanent failure for the defect it names.            *)
FinalStatusFits ==
    \A i \in DOMAIN statuses :
      LET ev == Decoded(statuses[i])
      IN  /\ ev.status = "INDEXED" => document.kind = "sound"
          /\ ev.status = "FAILED" /\ ~ ev.retryable =>
               \/ ev.reason = "CORRUPT_FILE" /\ document.kind = "corrupt"
               \/ ev.reason = "EMPTY_TEXT" /\ document.kind = "empty"
               \/ ev.reason = "UNSUPPORTED_TYPE" /\
                    (document.kind = "large" \/ Refusable(ev.hash))

(* The entries of other producers that ask for the object before the       *)
(* center and the tool, who store it first, have sent anything.            *)
Premature ==
    {i \in DOMAIN ingest :
        /\ \A j \in 1 .. i : ingest[j] \in Foreign
        /\ Parses(ingest[i]) /\ ParsedEvent(ingest[i]).hash = "doc"}

(* Outages fail a sound document only by using up every attempt; another   *)
(* producer's premature request can use up one, under whatever attempt it  *)
(* names, since the center does not know whose entry a status answers.     *)
OutageNeverCondemns ==
    center.status = "FAILED" =>
        \/ document.kind # "sound" \/ Refusable("doc")
        \/ faults + Cardinality(Premature) >= MaxAttempts

(* What the adapters raise, run_job classifies and the center counts ends  *)
(* in a verdict about the document, never about the dependencies.          *)
VerdictFitsDocument == FinalStatusFits /\ OutageNeverCondemns

(* The tool never reads past the status of its own event: while it waits,  *)
(* however long, that status is still to come.                             *)
ToolMissesNothing ==
    tool.step = "wait" /\ answered # 0 => answered > tool.last

-----------------------------------------------------------------------------
(* Liveness: the center gets a final verdict for a document it sent,       *)
(* whatever other producers put on the stream.                             *)
VerdictReached == []<>(center.status # "PROCESSING")
==============================================================================
