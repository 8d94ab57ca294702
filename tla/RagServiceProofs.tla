--------------------------- MODULE RagServiceProofs ---------------------------
(***************************************************************************)
(* Proofs about the two halves of the RAG service.  IngestPipeline: for    *)
(* every set of names, entries of other producers, faults and attempts,    *)
(* the reports that let the center try again are paid for by faults and    *)
(* early requests, and each is read as it was meant.  QueryStream: below.  *)
(***************************************************************************)
EXTENDS IngestPipeline, QueryStream, FiniteSetTheorems, TLAPS

(***************************************************************************)
(* The pipeline.  Its payloads, and the statuses the consumer can build.   *)
(***************************************************************************)
Payloads ==
    Foreign \cup {Payload("doc", n, s, a) : n \in Name, s \in {MaxFileBytes, MaxFileBytes + 1},
                                            a \in 0 .. (MaxAttempts - 1)}
Events == {ParsedEvent(payload) : payload \in {p \in Payloads : Parses(p)}}
Successes == {Indexed(e, m) : e \in Events, m \in {<< >>, [chunk_count |-> 1]}}
Failures == {Failed(e, b, r) : e \in Events, b \in BOOLEAN, r \in Reasons}
Statuses == Successes \cup Failures
Sending(s) == [fields |-> ToDict(s)]

(* The constructor accepts s, and the center reads it as the event ev.     *)
ReadAs(s, ev) ==
    /\ Constructs(s) /\ Decodes(Sending(s))
    /\ Decoded(Sending(s)) = ev /\ Sending(s).fields.hash.text = ev.hash

Busy == job.step \in {"exists", "fetch", "embed", "register"}

PipelineShape ==
    /\ ingest \in Seq(Payloads)
    /\ statuses \in Seq({Sending(s) : s \in Statuses})
    /\ job \in [step : {"idle", "exists", "fetch", "embed", "register", "publish"},
                event : Events \cup {NoEvent}, status : Statuses \cup {NoStatus}, read : Nat]
    /\ center \in [status : {"NEW", "PROCESSING", "INDEXED", "FAILED"},
                   attempts : 0 .. (MaxAttempts - 1), read : Nat]
    /\ tool \in [step : {"put", "look", "add", "wait", "ended"}, after : Nat, last : Nat,
                 exit : {0, 1}, entry : Nat]
    /\ job.read <= Len(ingest) /\ center.read <= Len(statuses) /\ tool.last <= Len(statuses)

(* The event of the job is the one of the entry read last. *)
JobAnswersEntry ==
    Busy \/ job.step = "publish" =>
      /\ job.read \in DOMAIN ingest
      /\ Parses(ingest[job.read]) /\ job.event = ParsedEvent(ingest[job.read])

(* What the center will read when the job's status is published. *)
Coming == Decoded(Sending(job.status))
Fits(ev) ==
    /\ ev.status = "INDEXED" => document.kind = "sound"
    /\ ev.status = "FAILED" /\ ~ ev.retryable =>
         \/ ev.reason = "CORRUPT_FILE" /\ document.kind = "corrupt"
         \/ ev.reason = "EMPTY_TEXT" /\ document.kind = "empty"
         \/ ev.reason = "UNSUPPORTED_TYPE" /\
              (document.kind = "large" \/ Refusable(ev.hash))

JobIsHonest ==
    /\ job.step \in {"embed", "register"} \/ rows # {} => document.kind = "sound"
    /\ job.step = "publish" =>
         job.status \in Statuses /\ Coming.hash = job.event.hash /\ Fits(Coming)

(* Whoever sends an event has stored the object. *)
StoredFirst ==
    "doc" \notin objects =>
      /\ center.status = "NEW" /\ tool.step = "put"
      /\ \A i \in DOMAIN ingest : ingest[i] \in Foreign

Retry(ev) == ev.hash = "doc" /\ ev.status = "FAILED" /\ ev.retryable
Retries(n) == {i \in 1 .. n : Retry(Decoded(statuses[i]))}
PrematureTo(n) == {i \in Premature : i <= n}
Pending == IF job.step = "publish" /\ Retry(Coming) THEN 1 ELSE 0
Answered == IF Busy THEN job.read - 1 ELSE job.read

(* Every report that lets the center try again was paid for. *)
RetriesPaid ==
    Cardinality(Retries(Len(statuses))) + Pending
      <= faults + Cardinality(PrematureTo(Answered))

(* Every attempt of the center answers such a report. *)
AttemptsCounted ==
    /\ center.attempts <= Cardinality(Retries(center.read))
    /\ center.status = "FAILED" =>
         \/ document.kind # "sound" \/ Refusable("doc")
         \/ MaxAttempts <= Cardinality(Retries(center.read))

(* The tool's entry has one status, and it is for the tool. *)
ToolIsAhead ==
    /\ tool.entry # 0 =>
         /\ tool.step \in {"wait", "ended"}
         /\ tool.entry \in DOMAIN ingest /\ ParsedEvent(ingest[tool.entry]).hash = "doc"
    /\ answered # 0 => /\ answered \in DOMAIN statuses /\ tool.entry # 0
                       /\ Decoded(statuses[answered]).hash = "doc"
    /\ tool.step = "wait" /\ answered # 0 => answered > tool.last

PInv ==
    /\ PipelineTypeOK /\ PipelineShape /\ JobAnswersEntry /\ JobIsHonest /\ StoredFirst
    /\ RetriesPaid /\ AttemptsCounted /\ ToolIsAhead /\ FinalStatusFits

-----------------------------------------------------------------------------
(* The contract of the two payloads.                                       *)

(* What the constructor accepts goes out under its own keys, tagged. *)
LEMMA DictOf ==
    ASSUME NEW s
    PROVE  /\ DOMAIN ToDict(s) = DOMAIN s \cup {"id", "created_at", "schema_version"}
           /\ \A k \in DOMAIN s : ToDict(s)[k] = Tagged(k, s[k])
           /\ "schema_version" \notin DOMAIN s => ToDict(s).schema_version = [int |-> SchemaVersion]
           /\ "id" \notin DOMAIN s => ToDict(s).id = [text |-> "uuid"]
  BY DEF ToDict, Merged

LEMMA FailedDict ==
    ASSUME NEW e, NEW b, NEW r
    PROVE  LET d == ToDict(Failed(e, b, r))
           IN  /\ DOMAIN d = {"hash", "attempts", "status", "retryable", "reason", "id",
                              "created_at", "schema_version"}
               /\ d.hash = [text |-> e.hash] /\ d.attempts = [int |-> e.attempts]
               /\ d.status = [text |-> "FAILED"] /\ d.retryable = [bool |-> b]
               /\ d.reason = [text |-> r] 
               /\ d.id = [text |-> "uuid"]
               /\ d.schema_version = [int |-> SchemaVersion]
  <1> DEFINE s == Failed(e, b, r)
  <1>1. /\ DOMAIN s = {"hash", "attempts", "status", "retryable", "reason"}
        /\ s["hash"] = e.hash /\ s["attempts"] = e.attempts /\ s["status"] = "FAILED"
        /\ s["retryable"] = b /\ s["reason"] = r
    BY DEF Failed
  <1> HIDE DEF s
  <1>2. /\ Tagged("hash", e.hash) = [text |-> e.hash]
        /\ Tagged("attempts", e.attempts) = [int |-> e.attempts]
        /\ Tagged("status", "FAILED") = [text |-> "FAILED"]
        /\ Tagged("retryable", b) = [bool |-> b]
        /\ Tagged("reason", r) = [text |-> r]
    BY DEF Tagged
  <1>3. /\ DOMAIN ToDict(s) = {"hash", "attempts", "status", "retryable", "reason", "id",
                              "created_at", "schema_version"}
        /\ ToDict(s).hash = [text |-> e.hash] /\ ToDict(s).attempts = [int |-> e.attempts]
        /\ ToDict(s).status = [text |-> "FAILED"] /\ ToDict(s).retryable = [bool |-> b]
        /\ ToDict(s).reason = [text |-> r] 
        /\ ToDict(s).id = [text |-> "uuid"]
        /\ ToDict(s).schema_version = [int |-> SchemaVersion]
    BY <1>1, <1>2, DictOf, SMTT(30)
  <1> QED BY <1>3 DEF s

(* The same for a success; "more" is nothing or a count of chunks.         *)
LEMMA IndexedDict ==
    ASSUME NEW e, NEW more, DOMAIN more \subseteq {"chunk_count"}
    PROVE  LET d == ToDict(Indexed(e, more))
           IN  /\ DOMAIN d = {"hash", "attempts", "status", "id", "created_at", "schema_version"}
                             \cup DOMAIN more
               /\ d.hash = [text |-> e.hash] /\ d.attempts = [int |-> e.attempts]
               /\ d.status = [text |-> "INDEXED"]
               /\ "chunk_count" \in DOMAIN more => d.chunk_count = [int |-> more.chunk_count]
               /\ d.id = [text |-> "uuid"]
               /\ d.schema_version = [int |-> SchemaVersion]
  <1> DEFINE s == Indexed(e, more)
  <1>1. /\ DOMAIN s = {"hash", "attempts", "status"} \cup DOMAIN more
        /\ s["hash"] = e.hash /\ s["attempts"] = e.attempts /\ s["status"] = "INDEXED"
        /\ "chunk_count" \in DOMAIN more => s["chunk_count"] = more.chunk_count
    BY DEF Indexed, Merged
  <1> HIDE DEF s
  <1>2. /\ Tagged("hash", e.hash) = [text |-> e.hash]
        /\ Tagged("attempts", e.attempts) = [int |-> e.attempts]
        /\ Tagged("status", "INDEXED") = [text |-> "INDEXED"]
        /\ Tagged("chunk_count", more.chunk_count) = [int |-> more.chunk_count]
    BY DEF Tagged
  <1>4. "id" \notin DOMAIN s /\ "schema_version" \notin DOMAIN s
    BY <1>1
  <1>5. "chunk_count" \in DOMAIN more => ToDict(s).chunk_count = [int |-> more.chunk_count]
    <2>1. SUFFICES ASSUME "chunk_count" \in DOMAIN more
                   PROVE  ToDict(s)["chunk_count"] = [int |-> more.chunk_count]
      OBVIOUS
    <2>2. "chunk_count" \in DOMAIN s /\ s["chunk_count"] = more.chunk_count
      BY <1>1, <2>1
    <2>3. ToDict(s)["chunk_count"] = Tagged("chunk_count", s["chunk_count"])
      BY <2>2, DictOf
    <2> QED BY <1>2, <2>2, <2>3
  <1>6. DOMAIN ToDict(s) = {"hash", "attempts", "status", "id", "created_at", "schema_version"}
                           \cup DOMAIN more
    <2>1. DOMAIN ToDict(s) = DOMAIN s \cup {"id", "created_at", "schema_version"}
      BY DictOf
    <2> QED BY <1>1, <2>1, Zenon
  <1>3. /\ ToDict(s).hash = [text |-> e.hash] /\ ToDict(s).attempts = [int |-> e.attempts]
        /\ ToDict(s).status = [text |-> "INDEXED"]
        /\ ToDict(s).id = [text |-> "uuid"]
        /\ ToDict(s).schema_version = [int |-> SchemaVersion]
    <2>1. "hash" \in DOMAIN s /\ "attempts" \in DOMAIN s /\ "status" \in DOMAIN s
      BY <1>1
    <2>2. \A k \in DOMAIN s : ToDict(s)[k] = Tagged(k, s[k])
      BY DictOf
    <2>3. ToDict(s).id = [text |-> "uuid"] /\ ToDict(s).schema_version = [int |-> SchemaVersion]
      BY <1>4, DictOf
    <2> QED BY <1>1, <1>2, <2>1, <2>2, <2>3
  <1> QED BY <1>3, <1>5, <1>6 DEF s

(* What parse accepts can be reported: the ranges of the two sides agree.  *)
LEMMA EventShape ==
    ASSUME NEW e \in Events
    PROVE  e.hash \notin {"", "surrogate"} /\ e.attempts \in 0 .. MaxInteger
  <1>1. PICK p \in Payloads : Parses(p) /\ e = ParsedEvent(p)
    BY DEF Events
  <1>2. IsName(p.fields["hash"]) /\ IsAttempts(p.fields.attempts)
    BY <1>1 DEF Parses
  <1>3. e.hash = p.fields.hash.text /\ e.attempts = p.fields.attempts.int
    BY <1>1 DEF ParsedEvent
  <1> QED BY <1>2, <1>3 DEF IsName, IsAttempts

LEMMA RangeHolds == 1 \in 0 .. MaxInteger /\ \A n \in 0 .. MaxInteger : InRange(n) /\ n >= 0
  BY ContractAssumption DEF InRange

(* A failure is one that the constructor accepts and the center reads as   *)
(* it was meant.                                                           *)
LEMMA FailureIsRead ==
    ASSUME NEW e \in Events, NEW b \in BOOLEAN, NEW r \in Reasons
    PROVE  ReadAs(Failed(e, b, r), [hash |-> e.hash, attempts |-> e.attempts,
                                    status |-> "FAILED", retryable |-> b, reason |-> r])
  <1>1. e.hash \notin {"", "surrogate"} /\ e.attempts \in 0 .. MaxInteger
    BY EventShape
  <1>2. Constructs(Failed(e, b, r))
    BY <1>1 DEF Constructs, Failed
  <1> DEFINE d == ToDict(Failed(e, b, r))
  <1>3. /\ DOMAIN d = {"hash", "attempts", "status", "retryable", "reason", "id",
                       "created_at", "schema_version"}
        /\ d.hash = [text |-> e.hash] /\ d.attempts = [int |-> e.attempts]
        /\ d.status = [text |-> "FAILED"] /\ d.retryable = [bool |-> b]
        /\ d.reason = [text |-> r]
        /\ d.id = [text |-> "uuid"]
        /\ d.schema_version = [int |-> SchemaVersion]
    BY FailedDict
  <1>4. Sending(Failed(e, b, r)) = [fields |-> d]
    BY DEF Sending
  <1> HIDE DEF d
  <1>5. r # "surrogate" /\ r # ""
    BY DEF Reasons
  <1>6. /\ Has(d, "hash") /\ Has(d, "attempts") /\ Has(d, "status") /\ Has(d, "retryable")
        /\ Has(d, "reason") /\ Has(d, "id") /\ Has(d, "schema_version")
        /\ ~ Has(d, "detail") /\ ~ Has(d, "chunk_count")
    BY <1>3 DEF Has
  <1>7. /\ GoText(d, "hash") = e.hash /\ GoText(d, "status") = "FAILED" /\ GoText(d, "reason") = r
    <2>1. d["hash"].text = e.hash /\ d["status"].text = "FAILED" /\ d["reason"].text = r
      BY <1>3
    <2> QED BY <1>1, <1>5, <1>6, <2>1 DEF GoText
  <1>8. Decoded([fields |-> d]) = [hash |-> e.hash, attempts |-> e.attempts,
                                   status |-> "FAILED", retryable |-> b, reason |-> r]
    BY <1>3, <1>6, <1>7 DEF Decoded
  <1>9. /\ \A k \in {"id", "hash", "status", "reason", "detail"} : Has(d, k) => IsText(d[k])
        /\ IsBool(d.retryable)
    BY <1>3, <1>6 DEF IsText, IsBool
  <1>10. InRange(e.attempts) /\ InRange(SchemaVersion) /\ e.attempts >= 0
    BY <1>1, RangeHolds DEF SchemaVersion
  <1>11. \A k \in {"attempts", "chunk_count", "schema_version"} :
           Has(d, k) => IsInt(d[k]) /\ InRange(d[k].int)
    BY <1>3, <1>6, <1>10 DEF IsInt
  <1>12. Decodes([fields |-> d])
    <2>1. d.schema_version.int = SchemaVersion /\ d.attempts.int >= 0
      BY <1>3, <1>10
    <2>2. Has(d, "chunk_count") => d.chunk_count.int >= 0
      BY <1>6, <1>10
    <2> DEFINE p == [fields |-> d]
    <2>3. DOMAIN p = {"fields"} /\ p.fields = d
      OBVIOUS
    <2> HIDE DEF p
    <2> QED BY <1>1, <1>5, <1>6, <1>7, <1>9, <1>11, <2>1, <2>2, <2>3 DEF Decodes
  <1>13. [fields |-> d].fields.hash.text = e.hash
    BY <1>3
  <1> QED BY <1>2, <1>4, <1>8, <1>12, <1>13 DEF ReadAs

(* The same for a success.                                                 *)
LEMMA SuccessIsRead ==
    ASSUME NEW e \in Events, NEW more \in {<< >>, [chunk_count |-> 1]}
    PROVE  ReadAs(Indexed(e, more), [hash |-> e.hash, attempts |-> e.attempts,
                                     status |-> "INDEXED", retryable |-> FALSE, reason |-> ""])
  <1>1. e.hash \notin {"", "surrogate"} /\ e.attempts \in 0 .. MaxInteger
    BY EventShape
  <1>0. /\ DOMAIN more \subseteq {"chunk_count"}
        /\ "chunk_count" \in DOMAIN more => more.chunk_count = 1
    OBVIOUS
  <1>2. Constructs(Indexed(e, more))
    <2>1. /\ DOMAIN Indexed(e, more) = {"hash", "attempts", "status"} \cup DOMAIN more
          /\ Indexed(e, more)["hash"] = e.hash /\ Indexed(e, more)["attempts"] = e.attempts
          /\ Indexed(e, more)["status"] = "INDEXED"
          /\ "chunk_count" \in DOMAIN more => Indexed(e, more)["chunk_count"] = more.chunk_count
      BY <1>0 DEF Indexed, Merged
    <2>2. "reason" \notin DOMAIN Indexed(e, more)
      BY <1>0, <2>1
    <2> QED BY <1>0, <1>1, <2>1, <2>2, RangeHolds DEF Constructs
  <1> DEFINE d == ToDict(Indexed(e, more))
  <1>3. /\ DOMAIN d = {"hash", "attempts", "status", "id", "created_at", "schema_version"}
                      \cup DOMAIN more
        /\ d.hash = [text |-> e.hash] /\ d.attempts = [int |-> e.attempts]
        /\ d.status = [text |-> "INDEXED"]
        /\ "chunk_count" \in DOMAIN more => d.chunk_count = [int |-> 1]
        /\ d.id = [text |-> "uuid"]
        /\ d.schema_version = [int |-> SchemaVersion]
    BY <1>0, IndexedDict
  <1>4. Sending(Indexed(e, more)) = [fields |-> d]
    BY DEF Sending
  <1> HIDE DEF d
  <1>6. /\ Has(d, "hash") /\ Has(d, "attempts") /\ Has(d, "status")
        /\ Has(d, "id") /\ Has(d, "schema_version")
        /\ ~ Has(d, "detail") /\ ~ Has(d, "reason") /\ ~ Has(d, "retryable")
        /\ Has(d, "chunk_count") => d.chunk_count = [int |-> 1]
    <2>1. "detail" \notin DOMAIN d /\ "reason" \notin DOMAIN d /\ "retryable" \notin DOMAIN d
      BY <1>0, <1>3
    <2> QED BY <1>3, <2>1 DEF Has
  <1>7. /\ GoText(d, "hash") = e.hash /\ GoText(d, "status") = "INDEXED" /\ GoText(d, "reason") = ""
    <2>1. d["hash"].text = e.hash /\ d["status"].text = "INDEXED"
      BY <1>3
    <2> QED BY <1>1, <1>6, <2>1 DEF GoText
  <1>8. Decoded([fields |-> d]) = [hash |-> e.hash, attempts |-> e.attempts,
                                   status |-> "INDEXED", retryable |-> FALSE, reason |-> ""]
    <2>1. d.attempts.int = e.attempts
      BY <1>3
    <2>2. (Has(d, "retryable") /\ d.retryable.bool) = FALSE
      BY <1>6
    <2> QED BY <1>7, <2>1, <2>2 DEF Decoded
  <1>9. \A k \in {"id", "hash", "status", "reason", "detail"} : Has(d, k) => IsText(d[k])
    BY <1>3, <1>6 DEF IsText
  <1>10. /\ InRange(e.attempts) /\ InRange(SchemaVersion) /\ InRange(1)
         /\ e.attempts >= 0 /\ 1 >= 0
    BY <1>1, RangeHolds DEF SchemaVersion
  <1>11. \A k \in {"attempts", "chunk_count", "schema_version"} :
           Has(d, k) => IsInt(d[k]) /\ InRange(d[k].int)
    BY <1>3, <1>6, <1>10 DEF IsInt
  <1>12. Decodes([fields |-> d])
    <2>1. d.schema_version.int = SchemaVersion /\ d.attempts.int >= 0
      BY <1>3, <1>10
    <2>2. Has(d, "chunk_count") => d.chunk_count.int >= 0
      BY <1>6, <1>10
    <2> DEFINE p == [fields |-> d]
    <2>3. DOMAIN p = {"fields"} /\ p.fields = d
      OBVIOUS
    <2> HIDE DEF p
    <2> QED BY <1>1, <1>6, <1>7, <1>9, <1>11, <2>1, <2>2, <2>3 DEF Decodes
  <1>13. [fields |-> d].fields.hash.text = e.hash
    BY <1>3
  <1> QED BY <1>2, <1>4, <1>8, <1>12, <1>13 DEF ReadAs

(* Whatever the consumer built can be sent and read.                       *)
LEMMA StatusIsRead ==
    ASSUME NEW s \in Statuses
    PROVE  /\ Constructs(s) /\ Decodes(Sending(s))
           /\ Decoded(Sending(s)).hash = Sending(s).fields.hash.text
  <1>1. CASE s \in Successes
    <2>1. PICK e \in Events, more \in {<< >>, [chunk_count |-> 1]} : s = Indexed(e, more)
      BY <1>1 DEF Successes
    <2> QED BY <2>1, SuccessIsRead DEF ReadAs
  <1>2. CASE s \in Failures
    <2>1. PICK e \in Events, b \in BOOLEAN, r \in Reasons : s = Failed(e, b, r)
      BY <1>2 DEF Failures
    <2> QED BY <2>1, FailureIsRead DEF ReadAs
  <1> QED BY <1>1, <1>2 DEF Statuses

-----------------------------------------------------------------------------
(* Counting.                                                               *)

LEMMA SubsetCount ==
    ASSUME NEW n \in Nat, NEW T \in SUBSET (1 .. n), NEW S \in SUBSET T
    PROVE  /\ Cardinality(S) \in Nat /\ Cardinality(T) \in Nat
           /\ Cardinality(S) <= Cardinality(T)
  <1>1. IsFiniteSet(1 .. n)
    BY FS_Interval
  <1>2. IsFiniteSet(T)
    BY <1>1, FS_Subset
  <1> QED BY <1>2, FS_Subset, FS_CardinalityType

LEMMA NextCount ==
    ASSUME NEW n \in Nat, NEW S \in SUBSET (1 .. n)
    PROVE  Cardinality(S \cup {n + 1}) = Cardinality(S) + 1 /\ Cardinality(S) \in Nat
  <1>1. IsFiniteSet(1 .. n)
    BY FS_Interval
  <1>2. IsFiniteSet(S)
    BY <1>1, FS_Subset
  <1>3. n + 1 \notin S
    OBVIOUS
  <1> QED BY <1>2, <1>3, FS_AddElement, FS_CardinalityType

-----------------------------------------------------------------------------
(* The ingest stream only grows, and with it what is known of an entry.    *)

EventsKept ==
    /\ ingest' \in Seq(Payloads) /\ Len(ingest) <= Len(ingest')
    /\ \A i \in DOMAIN ingest : i \in DOMAIN ingest' /\ ingest'[i] = ingest[i]
    /\ \A h : EventsOf(h) \subseteq EventsOf(h)'
    /\ \A h : Refusable(h) => Refusable(h)'
    /\ Premature \subseteq Premature'

LEMMA IngestGrows ==
    ASSUME PipelineShape, ingest' = ingest \/ \E p \in Payloads : ingest' = Append(ingest, p)
    PROVE  EventsKept
  <1>1. /\ ingest' \in Seq(Payloads) /\ Len(ingest) <= Len(ingest')
        /\ \A i \in DOMAIN ingest : i \in DOMAIN ingest' /\ ingest'[i] = ingest[i]
    <2>1. ingest \in Seq(Payloads)
      BY DEF PipelineShape
    <2>2. CASE ingest' = ingest
      BY <2>1, <2>2
    <2>3. CASE \E p \in Payloads : ingest' = Append(ingest, p)
      BY <2>1, <2>3
    <2> QED BY <2>2, <2>3
  <1>2. ASSUME NEW h PROVE EventsOf(h) \subseteq EventsOf(h)'
    BY <1>1 DEF EventsOf
  <1>3. ASSUME NEW h PROVE Refusable(h) => Refusable(h)'
    BY <1>2 DEF Refusable
  <1>4. ASSUME NEW i \in Premature PROVE i \in Premature'
    <2>1. i \in DOMAIN ingest /\ DOMAIN ingest = 1 .. Len(ingest) /\ Len(ingest) \in Nat
      BY DEF Premature, PipelineShape
    <2>2. \A j \in 1 .. i : j \in DOMAIN ingest
      BY <2>1
    <2> QED BY <1>1, <2>1, <2>2 DEF Premature
  <1> QED BY <1>1, <1>2, <1>3, <1>4 DEF EventsKept

LEMMA PrematureCount ==
    ASSUME PipelineShape
    PROVE  \A n \in Nat :
             /\ Cardinality(PrematureTo(n)) \in Nat
             /\ Cardinality(PrematureTo(n)) <= Cardinality(PrematureTo(n + 1))
             /\ n + 1 \in Premature =>
                  Cardinality(PrematureTo(n + 1)) = Cardinality(PrematureTo(n)) + 1
             /\ Cardinality(PrematureTo(n)) <= Cardinality(Premature)
             /\ Cardinality(Premature) \in Nat
  <1> SUFFICES ASSUME NEW n \in Nat
               PROVE  /\ Cardinality(PrematureTo(n)) \in Nat
                      /\ Cardinality(PrematureTo(n)) <= Cardinality(PrematureTo(n + 1))
                      /\ n + 1 \in Premature =>
                           Cardinality(PrematureTo(n + 1)) = Cardinality(PrematureTo(n)) + 1
                      /\ Cardinality(PrematureTo(n)) <= Cardinality(Premature)
                      /\ Cardinality(Premature) \in Nat
    OBVIOUS
  <1>1. Len(ingest) \in Nat /\ Premature \in SUBSET (1 .. Len(ingest))
    BY DEF PipelineShape, Premature
  <1>0. \A i \in Premature : i \in Nat /\ i >= 1
    BY <1>1
  <1>2. PrematureTo(n) \in SUBSET PrematureTo(n + 1) /\ PrematureTo(n + 1) \in SUBSET (1 .. (n + 1))
    BY <1>0 DEF PrematureTo
  <1>3. PrematureTo(n) \in SUBSET (1 .. n) /\ PrematureTo(n) \in SUBSET Premature
    BY <1>0 DEF PrematureTo
  <1>4. n + 1 \in Premature => PrematureTo(n + 1) = PrematureTo(n) \cup {n + 1}
    BY <1>0 DEF PrematureTo
  <1>5. n + 1 \in Nat
    OBVIOUS
  <1>6. Cardinality(PrematureTo(n)) \in Nat
        /\ Cardinality(PrematureTo(n)) <= Cardinality(PrematureTo(n + 1))
    BY <1>2, <1>5, SubsetCount
  <1>7. /\ Cardinality(PrematureTo(n)) <= Cardinality(Premature)
        /\ Cardinality(Premature) \in Nat
    BY <1>1, <1>3, SubsetCount
  <1>8. n + 1 \in Premature =>
          Cardinality(PrematureTo(n + 1)) = Cardinality(PrematureTo(n)) + 1
    BY <1>3, <1>4, NextCount
  <1> QED BY <1>6, <1>7, <1>8

LEMMA PrematureKept ==
    ASSUME PipelineShape, EventsKept, NEW n \in Nat
    PROVE  Cardinality(PrematureTo(n)) <= Cardinality(PrematureTo(n)')
           /\ Cardinality(PrematureTo(n)) \in Nat /\ Cardinality(PrematureTo(n)') \in Nat
  <1>1. PrematureTo(n) \in SUBSET (PrematureTo(n)')
    BY DEF EventsKept, PrematureTo
  <1>2. DOMAIN ingest' = 1 .. Len(ingest')
    BY DEF EventsKept
  <1>3. PrematureTo(n)' \in SUBSET (1 .. n)
    BY <1>2 DEF PrematureTo, Premature
  <1> QED BY <1>1, <1>3, SubsetCount

(* A status read, or published, adds at most one report to the count.      *)
LEMMA RetriesCount ==
    ASSUME NEW n \in Nat
    PROVE  /\ Cardinality(Retries(n)) \in Nat /\ Cardinality(Retries(n + 1)) \in Nat
           /\ Cardinality(Retries(n)) <= Cardinality(Retries(n + 1))
           /\ Retry(Decoded(statuses[n + 1])) =>
                Cardinality(Retries(n + 1)) = Cardinality(Retries(n)) + 1
  <1>1. Retries(n) \in SUBSET (1 .. n) /\ Retries(n) \in SUBSET Retries(n + 1)
    BY DEF Retries
  <1>2. Retries(n + 1) \in SUBSET (1 .. (n + 1)) /\ n + 1 \in Nat
    BY DEF Retries
  <1>3. Retry(Decoded(statuses[n + 1])) => Retries(n + 1) = Retries(n) \cup {n + 1}
    BY DEF Retries
  <1> QED BY <1>1, <1>2, <1>3, SubsetCount, NextCount

LEMMA RetriesUpTo ==
    ASSUME NEW m \in Nat, NEW n \in 0 .. m
    PROVE  Cardinality(Retries(n)) <= Cardinality(Retries(m))
  <1>1. Retries(n) \in SUBSET Retries(m) /\ Retries(m) \in SUBSET (1 .. m)
    BY DEF Retries
  <1> QED BY <1>1, SubsetCount

-----------------------------------------------------------------------------
(* Initially, and the steps of the consumer.                               *)

LEMMA PipelineStarts == PipelineInit => PInv
  <1> SUFFICES ASSUME PipelineInit PROVE PInv
    OBVIOUS
  <1>1. PipelineTypeOK /\ PipelineShape
    BY PipelineAssumption DEF PipelineInit, PipelineTypeOK, PipelineShape
  <1>2. JobAnswersEntry /\ JobIsHonest /\ StoredFirst /\ ToolIsAhead /\ FinalStatusFits
    BY DEF PipelineInit, JobAnswersEntry, JobIsHonest, StoredFirst, ToolIsAhead,
           FinalStatusFits, Busy
  <1>3. Retries(0) = {} /\ Cardinality({}) = 0
    BY FS_EmptySet DEF Retries
  <1>4. Cardinality(PrematureTo(0)) \in Nat
    BY <1>1, PrematureCount
  <1>5. Len(statuses) = 0 /\ center.read = 0 /\ center.attempts = 0 /\ faults = 0
        /\ center.status = "NEW" /\ Pending = 0 /\ Answered = 0
    BY DEF PipelineInit, Pending, Answered, Busy
  <1>6. RetriesPaid /\ AttemptsCounted
    <2>1. Cardinality(Retries(0)) = 0
      BY <1>3
    <2> QED BY <1>4, <1>5, <2>1 DEF RetriesPaid, AttemptsCounted
  <1> QED BY <1>1, <1>2, <1>6 DEF PInv

(* What no step of the job itself touches.                                 *)
LEMMA JobStep ==
    ASSUME PInv, UNCHANGED others
    PROVE  StoredFirst' /\ AttemptsCounted' /\ ToolIsAhead' /\ FinalStatusFits'
           /\ \A h : EventsOf(h)' = EventsOf(h) /\ (Refusable(h) <=> Refusable(h)')
           /\ Premature' = Premature
  <1> USE DEF others
  <1>1. \A h : EventsOf(h)' = EventsOf(h)
    BY DEF EventsOf
  <1>2. \A h : Refusable(h) <=> Refusable(h)'
    BY <1>1 DEF Refusable
  <1>3. Premature' = Premature
    BY DEF Premature
  <1>4. \A n : Retries(n)' = Retries(n)
    BY DEF Retries
  <1>5. StoredFirst' /\ ToolIsAhead'
    BY DEF PInv, StoredFirst, ToolIsAhead
  <1>6. AttemptsCounted'
    BY <1>2, <1>4 DEF PInv, AttemptsCounted
  <1>7. FinalStatusFits'
    BY <1>2 DEF PInv, FinalStatusFits
  <1> QED BY <1>1, <1>2, <1>3, <1>5, <1>6, <1>7

(* The job goes on to its next call.                                       *)
LEMMA GoesOn ==
    ASSUME PInv, Busy, UNCHANGED <<rows, faults, others>>,
           NEW step \in {"fetch", "embed", "register"}, To(step),
           step # "fetch" => document.kind = "sound"
    PROVE  PInv'
  <1>0. job.step # "publish" /\ job.step # "stuck"
    BY DEF Busy
  <1>1. /\ StoredFirst' /\ AttemptsCounted' /\ ToolIsAhead' /\ FinalStatusFits'
        /\ \A h : EventsOf(h)' = EventsOf(h) /\ Premature' = Premature
    BY JobStep
  <1>2. /\ job' = [job EXCEPT !.step = step] /\ job'.step = step
        /\ job'.read = job.read /\ job'.event = job.event /\ job'.status = job.status
    BY DEF To, PInv, PipelineShape
  <1>3. PipelineTypeOK'
    BY <1>1, <1>2 DEF PInv, PipelineTypeOK, others
  <1>4. PipelineShape'
    BY <1>2 DEF PInv, PipelineShape, others
  <1>5. JobAnswersEntry'
    BY <1>2 DEF PInv, JobAnswersEntry, Busy, others
  <1>6. JobIsHonest'
    BY <1>2 DEF PInv, JobIsHonest, others
  <1>7. RetriesPaid'
    <2>1. Pending' = 0 /\ Pending = 0
      BY <1>0, <1>2 DEF Pending
    <2>2. Answered' = Answered
      BY <1>2 DEF Answered, Busy
    <2>3. \A n : PrematureTo(n)' = PrematureTo(n) /\ Retries(n)' = Retries(n)
      BY <1>1 DEF PrematureTo, Retries, others
    <2>4. statuses' = statuses /\ faults' = faults
      BY DEF others
    <2>5. RetriesPaid
      BY DEF PInv
    <2> QED BY <2>1, <2>2, <2>3, <2>4, <2>5 DEF RetriesPaid
  <1> QED BY <1>1, <1>3, <1>4, <1>5, <1>6, <1>7 DEF PInv

(* The job reports.  A report that lets the center try again is paid for   *)
(* by a fault, or by the entry if that is a premature one.                 *)
LEMMA Reports ==
    ASSUME PInv, Busy, UNCHANGED others,
           NEW s \in Statuses, Report(s),
           Decoded(Sending(s)).hash = job.event.hash, Fits(Decoded(Sending(s))),
           \/ rows' = rows
           \/ rows' = rows \cup {job.event.hash} /\ document.kind = "sound",
           faults' \in 0 .. MaxFaults,
           \/ faults' = faults + 1
           \/ faults' = faults /\ (Retry(Decoded(Sending(s))) => job.read \in Premature)
    PROVE  PInv'
  <1>0. job.step # "publish" /\ job.step # "stuck"
    BY DEF Busy
  <1>1. /\ StoredFirst' /\ AttemptsCounted' /\ ToolIsAhead' /\ FinalStatusFits'
        /\ \A h : EventsOf(h)' = EventsOf(h) /\ (Refusable(h) <=> Refusable(h)')
        /\ Premature' = Premature
    BY JobStep
  <1>2. /\ job'.step = "publish" /\ job'.status = s
        /\ job'.read = job.read /\ job'.event = job.event
        /\ job' = [job EXCEPT !.step = "publish", !.status = s]
    BY DEF Report, PInv, PipelineShape
  <1>3. /\ job.read \in DOMAIN ingest /\ Parses(ingest[job.read])
        /\ job.event = ParsedEvent(ingest[job.read])
    BY DEF PInv, JobAnswersEntry
  <1>4. job.event \in EventsOf(job.event.hash)
    BY <1>3 DEF EventsOf
  <1>5. PipelineTypeOK'
    <2>1. \A hash \in rows' : EventsOf(hash)' # {}
      BY <1>1, <1>4 DEF PInv, PipelineTypeOK
    <2> QED BY <1>2, <2>1 DEF PInv, PipelineTypeOK, others
  <1>6. PipelineShape'
    BY <1>2 DEF PInv, PipelineShape, others
  <1>7. JobAnswersEntry'
    BY <1>2, <1>3 DEF JobAnswersEntry, others
  <1>8. JobIsHonest'
    <2>1. Coming' = Decoded(Sending(s))
      BY <1>2 DEF Coming, Sending
    <2>2. Fits(Decoded(Sending(s)))'
      BY <1>1 DEF Fits, others
    <2> QED BY <1>2, <2>1, <2>2 DEF PInv, JobIsHonest, others
  <1>9. RetriesPaid'
    <2>1. Pending = 0 /\ Pending' = IF Retry(Decoded(Sending(s))) THEN 1 ELSE 0
      BY <1>0, <1>2 DEF Pending, Coming
    <2>2. Answered = job.read - 1 /\ Answered' = job.read /\ job.read - 1 \in Nat /\ job.read \in Nat
      BY <1>2, <1>3 DEF Answered, Busy, PInv, PipelineShape
    <2>3. \A n : PrematureTo(n)' = PrematureTo(n) /\ Retries(n)' = Retries(n)
      BY <1>1 DEF PrematureTo, Retries, others
    <2>4. statuses' = statuses /\ Len(statuses) \in Nat /\ faults \in Nat
      BY DEF others, PInv, PipelineShape, PipelineTypeOK
    <2> DEFINE before == Cardinality(PrematureTo(job.read - 1))
               after == Cardinality(PrematureTo(job.read))
               known == Cardinality(Retries(Len(statuses)))
    <2>5. /\ before \in Nat /\ after \in Nat /\ before <= after
          /\ job.read \in Premature => after = before + 1
      BY <2>2, PrematureCount DEF PInv
    <2>6. known \in Nat /\ known <= faults + before
      BY <2>1, <2>2, <2>4, RetriesCount DEF PInv, RetriesPaid
    <2>7. (Cardinality(Retries(Len(statuses))) + Pending <= faults + Cardinality(PrematureTo(Answered)))'
            <=> known + Pending' <= faults' + after
      BY <2>2, <2>3, <2>4
    <2> HIDE DEF before, after, known
    <2>8. known + Pending' <= faults' + after
      <3>1. CASE faults' = faults + 1
        <4>1. Pending' \in {0, 1}
          BY <2>1
        <4> QED BY <2>4, <2>5, <2>6, <3>1, <4>1
      <3>2. CASE faults' = faults /\ job.read \in Premature
        <4>1. Pending' \in {0, 1}
          BY <2>1
        <4> QED BY <2>4, <2>5, <2>6, <3>2, <4>1
      <3>3. CASE faults' = faults /\ Pending' = 0
        BY <2>4, <2>5, <2>6, <3>3
      <3> QED BY <2>1, <3>1, <3>2, <3>3
    <2> QED BY <2>7, <2>8 DEF RetriesPaid
  <1> QED BY <1>1, <1>5, <1>6, <1>7, <1>8, <1>9 DEF PInv

LEMMA ReadStep == PInv /\ Take => PInv'
  <1> SUFFICES ASSUME PInv, Take PROVE PInv'
    OBVIOUS
  <1> DEFINE n == job.read + 1
             payload == ingest[n]
  <1>0. UNCHANGED others /\ rows' = rows /\ faults' = faults /\ job.step = "idle"
        /\ job.read < Len(ingest)
    BY DEF Take, others
  <1>1. /\ StoredFirst' /\ AttemptsCounted' /\ ToolIsAhead' /\ FinalStatusFits'
        /\ \A h : EventsOf(h)' = EventsOf(h) /\ Premature' = Premature
    BY <1>0, JobStep
  <1>2. n \in DOMAIN ingest /\ payload \in Payloads /\ job.read \in Nat /\ n \in Nat
    BY <1>0 DEF PInv, PipelineShape
  <1>3. \/ /\ Parses(payload)
           /\ job' = [job EXCEPT !.read = n, !.step = "exists", !.event = ParsedEvent(payload)]
        \/ /\ ~ Parses(payload)
           /\ job' = [job EXCEPT !.read = n]
    BY DEF Take
  <1>4. /\ job'.read = n /\ job'.status = job.status
        /\ \/ job'.step = "exists" /\ Parses(payload) /\ job'.event = ParsedEvent(payload)
           \/ job'.step = "idle" /\ job'.event = job.event
    BY <1>0, <1>3 DEF PInv, PipelineShape
  <1>5. Parses(payload) => ParsedEvent(payload) \in Events
    BY <1>2 DEF Events
  <1>6. PipelineTypeOK'
    BY <1>0, <1>1, <1>2, <1>4 DEF PInv, PipelineTypeOK, others
  <1>7. PipelineShape'
    <2>1. job' \in [step : {"idle", "exists", "fetch", "embed", "register", "publish"},
                    event : Events \cup {NoEvent}, status : Statuses \cup {NoStatus}, read : Nat]
      BY <1>2, <1>3, <1>5 DEF PInv, PipelineShape
    <2> QED BY <1>0, <1>2, <1>4, <2>1 DEF PInv, PipelineShape, others
  <1>8. JobAnswersEntry'
    BY <1>0, <1>2, <1>4 DEF JobAnswersEntry, Busy, others
  <1>9. JobIsHonest'
    BY <1>0, <1>4 DEF PInv, JobIsHonest, others
  <1>10. RetriesPaid'
    <2>1. Pending = 0 /\ Pending' = 0
      BY <1>0, <1>4 DEF Pending
    <2>2. Answered = job.read /\ Answered' \in {job.read, job.read + 1}
      BY <1>0, <1>2, <1>4 DEF Answered, Busy
    <2>3. \A m : PrematureTo(m)' = PrematureTo(m) /\ Retries(m)' = Retries(m)
      BY <1>0, <1>1 DEF PrematureTo, Retries, others
    <2>4. statuses' = statuses /\ Len(statuses) \in Nat /\ faults \in Nat
      BY <1>0 DEF others, PInv, PipelineShape, PipelineTypeOK
    <2>5. /\ Cardinality(PrematureTo(job.read)) \in Nat
          /\ Cardinality(PrematureTo(job.read + 1)) \in Nat
          /\ Cardinality(PrematureTo(job.read)) <= Cardinality(PrematureTo(job.read + 1))
      BY <1>2, PrematureCount DEF PInv
    <2>6. Cardinality(Retries(Len(statuses))) \in Nat
      BY <2>4, RetriesCount
    <2>7. Cardinality(Retries(Len(statuses))) <= faults + Cardinality(PrematureTo(job.read))
      BY <2>1, <2>2, <2>6 DEF PInv, RetriesPaid
    <2>8. /\ (Cardinality(Retries(Len(statuses))))' = Cardinality(Retries(Len(statuses)))
          /\ (Cardinality(PrematureTo(Answered)))' = Cardinality(PrematureTo(Answered'))
      BY <2>3, <2>4
    <2>9. Cardinality(PrematureTo(Answered')) \in Nat
          /\ Cardinality(Retries(Len(statuses))) <= faults + Cardinality(PrematureTo(Answered'))
      BY <2>2, <2>4, <2>5, <2>6, <2>7
    <2> QED BY <1>0, <2>1, <2>6, <2>8, <2>9 DEF RetriesPaid
  <1> QED BY <1>1, <1>6, <1>7, <1>8, <1>9, <1>10 DEF PInv

LEMMA JobEvent ==
    ASSUME PInv, Busy
    PROVE  /\ job.read \in DOMAIN ingest /\ Parses(ingest[job.read])
           /\ job.event = ParsedEvent(ingest[job.read]) /\ job.event \in Events
           /\ faults \in 0 .. MaxFaults
  <1>1. /\ job.read \in DOMAIN ingest /\ Parses(ingest[job.read])
        /\ job.event = ParsedEvent(ingest[job.read])
    BY DEF PInv, JobAnswersEntry
  <1>2. ingest[job.read] \in Payloads
    BY <1>1 DEF PInv, PipelineShape
  <1> QED BY <1>1, <1>2 DEF Events, PInv, PipelineTypeOK

LEMMA ReportsSuccess ==
    ASSUME PInv, Busy, UNCHANGED <<faults, others>>, document.kind = "sound",
           NEW more \in {<< >>, [chunk_count |-> 1]}, Report(Indexed(job.event, more)),
           rows' = rows \/ rows' = rows \cup {job.event.hash}
    PROVE  PInv'
  <1> DEFINE s == Indexed(job.event, more)
             ev == Decoded(Sending(s))
  <1>1. job.event \in Events /\ faults \in 0 .. MaxFaults
    BY JobEvent
  <1>2. s \in Statuses /\ Report(s)
    BY <1>1 DEF Statuses, Successes
  <1>3. ev = [hash |-> job.event.hash, attempts |-> job.event.attempts,
              status |-> "INDEXED", retryable |-> FALSE, reason |-> ""]
    BY <1>1, SuccessIsRead DEF ReadAs
  <1> HIDE DEF ev
  <1>4. ev.hash = job.event.hash /\ ev.status = "INDEXED"
    BY <1>3
  <1>5. Fits(ev) /\ ~ Retry(ev)
    BY <1>4 DEF Fits, Retry
  <1>6. Decoded(Sending(s)) = ev
    BY DEF ev
  <1> HIDE DEF s
  <1> QED BY <1>1, <1>2, <1>4, <1>5, <1>6, Reports

LEMMA ReportsFailure ==
    ASSUME PInv, Busy, UNCHANGED <<rows, others>>,
           NEW b \in BOOLEAN, NEW r \in Reasons, Report(Failed(job.event, b, r)),
           \/ b
           \/ r = "CORRUPT_FILE" /\ document.kind = "corrupt"
           \/ r = "EMPTY_TEXT" /\ document.kind = "empty"
           \/ r = "UNSUPPORTED_TYPE" /\ (document.kind = "large" \/ Refusable(job.event.hash)),
           faults' \in 0 .. MaxFaults,
           \/ faults' = faults + 1
           \/ faults' = faults /\ (b /\ job.event.hash = "doc" => job.read \in Premature)
    PROVE  PInv'
  <1> DEFINE s == Failed(job.event, b, r)
             ev == Decoded(Sending(s))
  <1>1. job.event \in Events
    BY JobEvent
  <1>2. s \in Statuses /\ Report(s)
    BY <1>1 DEF Statuses, Failures
  <1>3. ev = [hash |-> job.event.hash, attempts |-> job.event.attempts,
              status |-> "FAILED", retryable |-> b, reason |-> r]
    BY <1>1, FailureIsRead DEF ReadAs
  <1> HIDE DEF ev
  <1>4. ev.hash = job.event.hash /\ ev.status = "FAILED" /\ ev.retryable = b /\ ev.reason = r
    BY <1>3
  <1>5. Fits(ev) /\ (Retry(ev) => b /\ job.event.hash = "doc")
    BY <1>4 DEF Fits, Retry
  <1>6. Decoded(Sending(s)) = ev
    BY DEF ev
  <1> HIDE DEF s
  <1> QED BY <1>2, <1>4, <1>5, <1>6, Reports

LEMMA ExistsStep == PInv /\ Exists => PInv'
  <1> SUFFICES ASSUME PInv, Exists PROVE PInv'
    OBVIOUS
  <1>0. Busy /\ UNCHANGED <<rows, faults, others>>
    BY DEF Exists, At, Busy
  <1>1. /\ job.read \in DOMAIN ingest /\ Parses(ingest[job.read])
        /\ job.event = ParsedEvent(ingest[job.read]) /\ faults \in 0 .. MaxFaults
    BY <1>0, JobEvent
  <1>4. CASE job.event.hash \in rows
    <2>1. Report(Indexed(job.event, << >>))
      BY <1>4 DEF Exists
    <2>2. document.kind = "sound"
      BY <1>4 DEF PInv, JobIsHonest
    <2> QED BY <1>0, <2>1, <2>2, ReportsSuccess
  <1>5. CASE /\ job.event.hash \notin rows
             /\ job.event.filename = "a.bin" \/ job.event.size > MaxFileBytes
    <2>1. Report(Failed(job.event, FALSE, "UNSUPPORTED_TYPE"))
      BY <1>5 DEF Exists, Permanent
    <2>2. Refusable(job.event.hash)
      BY <1>1, <1>5 DEF Refusable, EventsOf
    <2>3. "UNSUPPORTED_TYPE" \in Reasons
      BY DEF Reasons
    <2> QED BY <1>0, <1>1, <2>1, <2>2, <2>3, ReportsFailure
  <1>6. CASE /\ job.event.hash \notin rows
             /\ ~ (job.event.filename = "a.bin" \/ job.event.size > MaxFileBytes)
    <2>1. To("fetch")
      BY <1>6 DEF Exists
    <2> QED BY <1>0, <2>1, GoesOn
  <1> QED BY <1>4, <1>5, <1>6

(* Either the object is not there, and the entry was premature; or the     *)
(* verdict is about its bytes.                                             *)
LEMMA FetchStep == PInv /\ Fetch => PInv'
  <1> SUFFICES ASSUME PInv, Fetch PROVE PInv'
    OBVIOUS
  <1>0. Busy /\ UNCHANGED <<rows, faults, others>>
    BY DEF Fetch, At, Busy
  <1>1. /\ job.read \in DOMAIN ingest /\ Parses(ingest[job.read])
        /\ job.event = ParsedEvent(ingest[job.read]) /\ faults \in 0 .. MaxFaults
    BY <1>0, JobEvent
  <1>2. {"UNSUPPORTED_TYPE", "CORRUPT_FILE", "EMPTY_TEXT", "INTERNAL"} \subseteq Reasons
    BY DEF Reasons
  <1>5. CASE "doc" \notin objects
    <2>1. Report(Failed(job.event, TRUE, "INTERNAL"))
      BY <1>5 DEF Fetch
    <2>2. job.event.hash = "doc" => job.read \in Premature
      <3>1. \A i \in DOMAIN ingest : ingest[i] \in Foreign
        BY <1>5 DEF PInv, StoredFirst
      <3>2. \A j \in 1 .. job.read : j \in DOMAIN ingest
        BY <1>1 DEF PInv, PipelineShape
      <3> QED BY <1>1, <3>1, <3>2 DEF Premature
    <2> QED BY <1>0, <1>1, <1>2, <2>1, <2>2, ReportsFailure
  <1>6. CASE "doc" \in objects /\ document.kind = "large"
    <2>1. Report(Failed(job.event, FALSE, "UNSUPPORTED_TYPE"))
      BY <1>6 DEF Fetch, Permanent
    <2> QED BY <1>0, <1>1, <1>2, <1>6, <2>1, ReportsFailure
  <1>7. CASE "doc" \in objects /\ document.kind = "corrupt"
    <2>1. Report(Failed(job.event, FALSE, "CORRUPT_FILE"))
      BY <1>7 DEF Fetch, Parsed, Permanent
    <2> QED BY <1>0, <1>1, <1>2, <1>7, <2>1, ReportsFailure
  <1>8. CASE "doc" \in objects /\ document.kind = "empty"
    <2>1. Report(Failed(job.event, FALSE, "EMPTY_TEXT"))
      BY <1>8 DEF Fetch, Parsed, Permanent
    <2> QED BY <1>0, <1>1, <1>2, <1>8, <2>1, ReportsFailure
  <1>9. CASE "doc" \in objects /\ document.kind = "sound"
    <2>1. To("embed")
      BY <1>9 DEF Fetch, Parsed
    <2> QED BY <1>0, <1>9, <2>1, GoesOn
  <1> QED BY <1>5, <1>6, <1>7, <1>8, <1>9, PipelineAssumption DEF PInv, PipelineTypeOK, Kind

LEMMA EmbedStep == PInv /\ EmbedAndUpsert => PInv'
  BY GoesOn DEF EmbedAndUpsert, At, Busy, PInv, JobIsHonest

LEMMA RegisterStep == PInv /\ Register => PInv'
  BY ReportsSuccess DEF Register, At, Busy, PInv, JobIsHonest

LEMMA FaultStep == PInv /\ Fault => PInv'
  <1> SUFFICES ASSUME PInv, Fault PROVE PInv'
    OBVIOUS
  <1> DEFINE r == FaultReason(job.step)
  <1>0. /\ Busy /\ UNCHANGED <<rows, others>> /\ faults' = faults + 1 /\ faults < MaxFaults
        /\ Report(Failed(job.event, TRUE, r))
    BY DEF Fault, Busy, RunJobFailed
  <1>2. r \in Reasons
    BY DEF FaultReason, Reasons
  <1>6. faults' \in 0 .. MaxFaults
    BY <1>0, PipelineAssumption DEF PInv, PipelineTypeOK
  <1> HIDE DEF r
  <1> QED BY <1>0, <1>2, <1>6, ReportsFailure

(* The status goes out: the report is one the constructor accepts, so the  *)
(* job never gets stuck on it.                                             *)
LEMMA PublishStep == PInv /\ Publish => PInv'
  <1> SUFFICES ASSUME PInv, Publish PROVE PInv'
    OBVIOUS
  <1> DEFINE sent == Sending(job.status)
  <1>n. PICK n \in Nat : n = Len(statuses)
    BY DEF PInv, PipelineShape
  <1>0. /\ job.step = "publish" /\ job.status \in Statuses /\ Coming.hash = job.event.hash
        /\ Fits(Coming) /\ Coming = Decoded(sent)
    BY DEF Publish, At, PInv, JobIsHonest, Coming
  <1>1. Constructs(job.status) /\ Decodes(sent)
    BY <1>0, StatusIsRead
  <1>2. /\ statuses' = Append(statuses, sent)
        /\ job' = [job EXCEPT !.step = "idle", !.event = NoEvent, !.status = NoStatus]
        /\ answered' = IF job.read = tool.entry THEN n + 1 ELSE answered
        /\ UNCHANGED <<document, objects, ingest, rows, center, tool, faults>>
    BY <1>1, <1>n DEF Publish, Sending
  <1>3. /\ job'.step = "idle" /\ job'.read = job.read /\ n \in Nat
        /\ statuses \in Seq({Sending(s) : s \in Statuses})
    BY <1>2, <1>n DEF PInv, PipelineShape
  <1>4. statuses' \in Seq({Sending(s) : s \in Statuses})
    BY <1>0, <1>2, <1>3
  <1>5. /\ Len(statuses') = n + 1 /\ statuses'[n + 1] = sent
        /\ \A i \in 1 .. n : statuses'[i] = statuses[i]
        /\ DOMAIN statuses' = 1 .. (n + 1) /\ DOMAIN statuses = 1 .. n
    BY <1>2, <1>3, <1>n
  <1>6. /\ job.read \in DOMAIN ingest /\ job.event = ParsedEvent(ingest[job.read])
        /\ job.read \in Nat /\ job.read # 0
    BY <1>0 DEF PInv, JobAnswersEntry, PipelineShape
  <1>7. \A h : EventsOf(h)' = EventsOf(h) /\ (Refusable(h) <=> Refusable(h)')
    BY <1>2 DEF EventsOf, Refusable
  <1>8. Premature' = Premature
    BY <1>2 DEF Premature
  <1>9. \A m \in 0 .. n : Retries(m)' = Retries(m)
    BY <1>3, <1>5 DEF Retries
  <1> HIDE DEF sent
  <1>10. PipelineTypeOK'
    BY <1>2, <1>3, <1>5, <1>7, <1>n DEF PInv, PipelineTypeOK
  <1>11. PipelineShape'
    <2>1. job' \in [step : {"idle", "exists", "fetch", "embed", "register", "publish"},
                    event : Events \cup {NoEvent}, status : Statuses \cup {NoStatus}, read : Nat]
      BY <1>2 DEF PInv, PipelineShape
    <2>2. job'.read <= Len(ingest) /\ center.read <= n + 1 /\ tool.last <= n + 1
      BY <1>3, <1>n DEF PInv, PipelineShape
    <2> QED BY <1>2, <1>4, <1>5, <2>1, <2>2 DEF PInv, PipelineShape
  <1>12. JobAnswersEntry' /\ JobIsHonest' /\ StoredFirst'
    BY <1>2, <1>3 DEF PInv, JobAnswersEntry, JobIsHonest, StoredFirst, Busy
  <1>13. RetriesPaid'
    <2>1. Pending = (IF Retry(Coming) THEN 1 ELSE 0) /\ Pending' = 0
      BY <1>0, <1>3 DEF Pending
    <2>2. Answered = job.read /\ Answered' = job.read
      BY <1>0, <1>3 DEF Answered, Busy
    <2>3. PrematureTo(job.read)' = PrematureTo(job.read)
      BY <1>3, <1>8 DEF PrematureTo
    <2>4. faults' = faults /\ faults \in Nat /\ Cardinality(PrematureTo(job.read)) \in Nat
      BY <1>2, <1>6, PrematureCount DEF PInv, PipelineTypeOK
    <2>5. Cardinality(Retries(n)) + Pending <= faults + Cardinality(PrematureTo(job.read))
      BY <2>2, <1>n DEF PInv, RetriesPaid
    <2>6. Cardinality(Retries(n)) \in Nat /\ Cardinality(Retries(n + 1)') \in Nat
          /\ Cardinality(Retries(n + 1)') <= Cardinality(Retries(n)) + Pending
      <3>1. Retries(n) \in SUBSET (1 .. n) /\ Retries(n + 1)' \in SUBSET (1 .. (n + 1))
        BY DEF Retries
      <3>2. CASE Retry(Coming)
        <4>1. Retries(n + 1)' = Retries(n) \cup {n + 1}
          BY <1>0, <1>3, <1>5, <3>2 DEF Retries
        <4> QED BY <1>3, <2>1, <3>1, <3>2, <4>1, NextCount
      <3>3. CASE ~ Retry(Coming)
        <4>1. Retries(n + 1)' = Retries(n)
          BY <1>0, <1>3, <1>5, <3>3 DEF Retries
        <4>2. Cardinality(Retries(n)) \in Nat
          BY <1>3, <3>1, SubsetCount
        <4> QED BY <2>1, <3>3, <4>1, <4>2
      <3> QED BY <3>2, <3>3
    <2>7. Retries(Len(statuses))' = Retries(n + 1)'
      BY <1>5 DEF Retries
    <2>8. PrematureTo(Answered)' = PrematureTo(job.read)
      BY <1>8, <2>2 DEF PrematureTo
    <2> DEFINE paid == Cardinality(PrematureTo(job.read))
               sum == Cardinality(Retries(n + 1)')
    <2>9. /\ Cardinality(Retries(Len(statuses)))' = sum
          /\ Cardinality(PrematureTo(Answered))' = paid
      BY <2>7, <2>8
    <2>10. sum \in Nat /\ sum <= faults + paid
      <3>1. Pending \in {0, 1}
        BY <2>1
      <3> QED BY <2>4, <2>5, <2>6, <3>1
    <2> HIDE DEF paid, sum
    <2> QED BY <2>1, <2>4, <2>9, <2>10 DEF RetriesPaid
  <1>14. AttemptsCounted'
    <2>1. center' = center /\ center.read \in 0 .. n /\ document' = document
      BY <1>2, <1>n DEF PInv, PipelineTypeOK
    <2>2. Retries(center.read)' = Retries(center.read)
      <3>1. Retries(center.read)' = {i \in 1 .. center.read : Retry(Decoded(statuses'[i]))}
        BY <2>1 DEF Retries
      <3> QED BY <1>3, <1>5, <2>1, <3>1 DEF Retries
    <2> QED BY <1>7, <2>1, <2>2 DEF PInv, AttemptsCounted
  <1>15. ToolIsAhead'
    <2>1. CASE job.read = tool.entry
      <3>1. tool.entry # 0 /\ answered' = n + 1 /\ Decoded(statuses'[n + 1]).hash = "doc"
        BY <1>0, <1>2, <1>5, <1>6, <2>1 DEF PInv, ToolIsAhead
      <3>2. tool.last \in Nat /\ tool.last <= n /\ tool' = tool /\ ingest' = ingest
        BY <1>2, <1>n DEF PInv, PipelineShape
      <3>3. n + 1 \in DOMAIN statuses' /\ n + 1 > tool.last
        BY <1>3, <1>5, <3>2
      <3> QED BY <3>1, <3>2, <3>3 DEF PInv, ToolIsAhead
    <2>2. CASE job.read # tool.entry
      <3>1. answered' = answered /\ tool' = tool /\ ingest' = ingest
        BY <1>2, <2>2
      <3>2. answered \in 1 .. n => answered \in DOMAIN statuses' /\ statuses'[answered] = statuses[answered]
        BY <1>3, <1>5
      <3> QED BY <1>5, <3>1, <3>2 DEF PInv, ToolIsAhead
    <2> QED BY <2>1, <2>2
  <1>16. FinalStatusFits'
    <2>1. \A i \in DOMAIN statuses' : Fits(Decoded(statuses'[i]))
      <3>1. \A i \in 1 .. n : Fits(Decoded(statuses[i]))
        BY <1>5 DEF PInv, FinalStatusFits, Fits
      <3> QED BY <1>0, <1>3, <1>5, <3>1
    <2>2. \A h : Refusable(h) <=> Refusable(h)'
      BY <1>7
    <2> QED BY <1>2, <2>1, <2>2 DEF FinalStatusFits, Fits
  <1> QED BY <1>10, <1>11, <1>12, <1>13, <1>14, <1>15, <1>16 DEF PInv

-----------------------------------------------------------------------------
(* The steps of the center, of other producers and of the tool.            *)

(* What none of them touches: the job, the statuses and the rows.          *)
LEMMA WorldStep ==
    ASSUME PInv, UNCHANGED <<document, statuses, job, rows, answered, faults>>, EventsKept
    PROVE  /\ JobAnswersEntry' /\ JobIsHonest' /\ RetriesPaid' /\ FinalStatusFits'
           /\ \A hash \in rows' : EventsOf(hash)' # {}
           /\ \A m \in Nat : Retries(m)' = Retries(m)
           /\ \A h : Refusable(h) => Refusable(h)'
  <1>1. JobAnswersEntry'
    BY DEF PInv, JobAnswersEntry, Busy, EventsKept
  <1>2. \A h : Refusable(h) => Refusable(h)'
    BY DEF EventsKept
  <1>3. JobIsHonest'
    <2>1. Coming' = Coming
      BY DEF Coming, Sending
    <2>2. Fits(Coming) => Fits(Coming)'
      BY <1>2, <2>1 DEF Fits
    <2> QED BY <2>1, <2>2 DEF PInv, JobIsHonest
  <1>4. FinalStatusFits'
    BY <1>2 DEF PInv, FinalStatusFits
  <1>5. \A hash \in rows' : EventsOf(hash)' # {}
    BY DEF PInv, PipelineTypeOK, EventsKept
  <1>6. \A m \in Nat : Retries(m)' = Retries(m)
    BY DEF Retries
  <1>7. RetriesPaid'
    <2>1. PICK a \in Nat : a = Answered
      BY DEF Answered, Busy, PInv, PipelineShape, JobAnswersEntry
    <2>2. Answered' = a /\ Pending' = Pending /\ Pending \in {0, 1}
      BY <2>1 DEF Answered, Busy, Pending, Coming, Sending
    <2>3. Cardinality(PrematureTo(a)) <= Cardinality(PrematureTo(a)')
          /\ Cardinality(PrematureTo(a)) \in Nat /\ Cardinality(PrematureTo(a)') \in Nat
      BY PrematureKept DEF PInv
    <2>4. Cardinality(PrematureTo(Answered)') = Cardinality(PrematureTo(a)')
      BY <2>2 DEF PrematureTo
    <2>5. Len(statuses) \in Nat /\ faults \in Nat
      BY DEF PInv, PipelineShape, PipelineTypeOK
    <2>6. Cardinality(Retries(Len(statuses))) \in Nat
      BY <2>5, RetriesCount
    <2>7. Cardinality(Retries(Len(statuses)))' = Cardinality(Retries(Len(statuses)))
      BY DEF Retries
    <2>8. Cardinality(Retries(Len(statuses))) + Pending <= faults + Cardinality(PrematureTo(a))
      BY <2>1 DEF PInv, RetriesPaid
    <2> DEFINE now == Cardinality(PrematureTo(a))
               then == Cardinality(PrematureTo(a)')
               sum == Cardinality(Retries(Len(statuses)))
    <2> HIDE DEF now, then, sum
    <2>9. sum + Pending <= faults + then
      BY <2>2, <2>3, <2>5, <2>6, <2>8 DEF now, then, sum
    <2> QED BY <2>2, <2>4, <2>7, <2>9 DEF RetriesPaid, then, sum
  <1> QED BY <1>1, <1>2, <1>3, <1>4, <1>5, <1>6, <1>7

LEMMA SentIsPayload ==
    ASSUME PipelineTypeOK, NEW name \in Name, NEW a \in 0 .. (MaxAttempts - 1)
    PROVE  Sent(name, a) \in Payloads
  <1>1. SizeOf(document.kind) \in {MaxFileBytes, MaxFileBytes + 1}
    BY DEF SizeOf
  <1> QED BY <1>1 DEF Sent, Payloads

LEMMA NamesOfDocument ==
    ASSUME PipelineTypeOK
    PROVE  document.center \in Name /\ document.tool \in Name
  BY PipelineAssumption DEF PipelineTypeOK

LEMMA CenterSendsStep == PInv /\ CenterSends => PInv'
  <1> SUFFICES ASSUME PInv, CenterSends PROVE PInv'
    OBVIOUS
  <1>0. /\ UNCHANGED <<document, statuses, job, rows, answered, faults, tool>>
        /\ center' = [center EXCEPT !.status = "PROCESSING"]
        /\ objects' = objects \cup {"doc"}
        /\ ingest' = Append(ingest, Sent(document.center, 0))
    BY DEF CenterSends
  <1>1. Sent(document.center, 0) \in Payloads
    BY SentIsPayload, NamesOfDocument, PipelineAssumption DEF PInv
  <1>2. EventsKept
    BY <1>0, <1>1, IngestGrows DEF PInv
  <1>3. /\ JobAnswersEntry' /\ JobIsHonest' /\ RetriesPaid' /\ FinalStatusFits'
        /\ \A hash \in rows' : EventsOf(hash)' # {}
        /\ \A m \in Nat : Retries(m)' = Retries(m)
    BY <1>0, <1>2, WorldStep
  <1>4. /\ center'.status = "PROCESSING" /\ center'.attempts = center.attempts
        /\ center'.read = center.read /\ center.read \in Nat
    BY <1>0 DEF PInv, PipelineShape
  <1>5. PipelineTypeOK'
    BY <1>0, <1>2, <1>3, <1>4 DEF PInv, PipelineTypeOK, EventsKept, PipelineShape
  <1>6. PipelineShape'
    <2>1. center' \in [status : {"NEW", "PROCESSING", "INDEXED", "FAILED"},
                       attempts : 0 .. (MaxAttempts - 1), read : Nat]
      BY <1>0 DEF PInv, PipelineShape
    <2>2. job.read <= Len(ingest')
      BY <1>2 DEF PInv, PipelineShape, EventsKept
    <2> QED BY <1>0, <1>2, <1>4, <2>1, <2>2 DEF PInv, PipelineShape, EventsKept
  <1>7. StoredFirst'
    BY <1>0 DEF StoredFirst
  <1>8. AttemptsCounted'
    BY <1>3, <1>4 DEF PInv, AttemptsCounted
  <1>9. ToolIsAhead'
    BY <1>0, <1>2 DEF PInv, ToolIsAhead, EventsKept
  <1> QED BY <1>3, <1>5, <1>6, <1>7, <1>8, <1>9 DEF PInv

LEMMA ForeignStep == PInv /\ ForeignEntry => PInv'
  <1> SUFFICES ASSUME PInv, ForeignEntry PROVE PInv'
    OBVIOUS
  <1>0. UNCHANGED <<document, objects, statuses, job, rows, center, answered, faults, tool>>
    BY DEF ForeignEntry
  <1>1. PICK payload \in Foreign : ingest' = Append(ingest, payload)
    BY DEF ForeignEntry
  <1>2. EventsKept
    BY <1>1, IngestGrows DEF PInv, Payloads
  <1>3. /\ JobAnswersEntry' /\ JobIsHonest' /\ RetriesPaid' /\ FinalStatusFits'
        /\ \A hash \in rows' : EventsOf(hash)' # {}
        /\ \A m \in Nat : Retries(m)' = Retries(m)
        /\ \A h : Refusable(h) => Refusable(h)'
    BY <1>0, <1>2, WorldStep
  <1>4. PipelineTypeOK'
    BY <1>0, <1>2, <1>3 DEF PInv, PipelineTypeOK, EventsKept, PipelineShape
  <1>5. PipelineShape'
    BY <1>0, <1>2 DEF PInv, PipelineShape, EventsKept
  <1>6. StoredFirst'
    <2>1. ingest \in Seq(Payloads)
      BY DEF PInv, PipelineShape
    <2>2. \A i \in DOMAIN ingest' : i \in DOMAIN ingest \/ ingest'[i] = payload
      BY <1>1, <2>1
    <2> QED BY <1>0, <1>2, <2>2 DEF PInv, StoredFirst, EventsKept
  <1>7. AttemptsCounted'
    <2>1. center.read \in Nat
      BY DEF PInv, PipelineShape
    <2> QED BY <1>0, <1>3, <2>1 DEF PInv, AttemptsCounted
  <1>8. ToolIsAhead'
    BY <1>0, <1>2 DEF PInv, ToolIsAhead, EventsKept
  <1> QED BY <1>3, <1>4, <1>5, <1>6, <1>7, <1>8 DEF PInv

(* A status that counts against the center's attempts is one more report   *)
(* of that kind; a permanent one fits the document.                        *)
LEMMA CenterReadsStep == PInv /\ CenterReads => PInv'
  <1> SUFFICES ASSUME PInv, CenterReads PROVE PInv'
    OBVIOUS
  <1>r. PICK n \in Nat : n = center.read
    BY DEF PInv, PipelineShape
  <1>a. PICK a \in 0 .. (MaxAttempts - 1) : a = center.attempts
    BY DEF PInv, PipelineShape
  <1> DEFINE payload == statuses[n + 1]
             ev == Decoded(payload)
             current == /\ Decodes(payload)
                        /\ ev.hash = "doc" /\ center.status = "PROCESSING"
                        /\ ev.attempts = a
             retry == current /\ ev.status = "FAILED" /\ MayRetry(ev)
  <1>0. /\ UNCHANGED <<document, objects, statuses, job, rows, tool, answered, faults>>
        /\ center' = [status |-> IF ~ current \/ retry THEN center.status ELSE ev.status,
                      attempts |-> IF retry THEN a + 1 ELSE a,
                      read |-> n + 1]
        /\ ingest' = IF retry THEN Append(ingest, Sent(document.center, a + 1)) ELSE ingest
        /\ n < Len(statuses)
    BY <1>r, <1>a DEF CenterReads, Resent
  <1>1. n + 1 \in DOMAIN statuses /\ DOMAIN statuses = 1 .. Len(statuses) /\ Len(statuses) \in Nat
    BY <1>0 DEF PInv, PipelineShape
  <1>2. Fits(ev)
    BY <1>1 DEF PInv, FinalStatusFits, Fits
  <1>3. Decodes(payload) /\ ev.status \in {"INDEXED", "FAILED"} /\ ev.retryable \in BOOLEAN
    <2>1. PICK s \in Statuses : payload = Sending(s)
      BY <1>1 DEF PInv, PipelineShape
    <2>2. Decodes(payload)
      BY <2>1, StatusIsRead
    <2>3. GoText(payload.fields, "status") \in {"INDEXED", "FAILED"}
      BY <2>2 DEF Decodes
    <2>4. ev.status = GoText(payload.fields, "status")
          /\ ev.retryable = (Has(payload.fields, "retryable") /\ payload.fields.retryable.bool)
      BY DEF Decoded
    <2>5. (Has(payload.fields, "retryable") /\ payload.fields.retryable.bool) \in BOOLEAN
      OBVIOUS
    <2> QED BY <2>2, <2>3, <2>4, <2>5
  <1> HIDE DEF ev, payload
  <1>4. retry => a + 1 \in 0 .. (MaxAttempts - 1) /\ Retry(ev)
    BY <1>3, PipelineAssumption DEF MayRetry, Retry
  <1>5. EventsKept
    <2>1. CASE retry
      <3>1. Sent(document.center, a + 1) \in Payloads
        BY <1>4, <2>1, SentIsPayload, NamesOfDocument DEF PInv
      <3>2. ingest' = Append(ingest, Sent(document.center, a + 1))
        BY <1>0, <2>1
      <3> QED BY <3>1, <3>2, IngestGrows DEF PInv
    <2>2. CASE ~ retry
      <3>1. ingest' = ingest
        BY <1>0, <2>2
      <3> QED BY <3>1, IngestGrows DEF PInv
    <2> QED BY <2>1, <2>2
  <1>6. /\ JobAnswersEntry' /\ JobIsHonest' /\ RetriesPaid' /\ FinalStatusFits'
        /\ \A hash \in rows' : EventsOf(hash)' # {}
        /\ \A m \in Nat : Retries(m)' = Retries(m)
        /\ \A h : Refusable(h) => Refusable(h)'
    BY <1>0, <1>5, WorldStep
  <1>7. /\ center'.read = n + 1 /\ n + 1 \in 0 .. Len(statuses)
        /\ center'.status \in {"NEW", "PROCESSING", "INDEXED", "FAILED"}
        /\ center'.attempts \in 0 .. (MaxAttempts - 1)
    BY <1>0, <1>1, <1>3, <1>4 DEF PInv, PipelineTypeOK
  <1>8. PipelineTypeOK'
    BY <1>0, <1>5, <1>6, <1>7 DEF PInv, PipelineTypeOK, EventsKept, PipelineShape
  <1>9. PipelineShape'
    <2>1. center' \in [status : {"NEW", "PROCESSING", "INDEXED", "FAILED"},
                       attempts : 0 .. (MaxAttempts - 1), read : Nat]
      BY <1>0, <1>7
    <2>2. job.read <= Len(ingest') /\ center'.read <= Len(statuses')
      BY <1>0, <1>5, <1>7 DEF PInv, PipelineShape, EventsKept
    <2> QED BY <1>0, <1>5, <2>1, <2>2 DEF PInv, PipelineShape, EventsKept
  <1>10. StoredFirst'
    BY <1>0 DEF PInv, StoredFirst
  <1>11. ToolIsAhead'
    BY <1>0, <1>5 DEF PInv, ToolIsAhead, EventsKept
  <1>12. AttemptsCounted'
    <2> DEFINE before == Cardinality(Retries(n))
               after == Cardinality(Retries(n + 1))
    <2>1. /\ before \in Nat /\ after \in Nat /\ before <= after
          /\ Retry(ev) => after = before + 1
      BY RetriesCount DEF ev, payload
    <2>2. Retries(center.read)' = Retries(n + 1)
      <3>1. Retries(center.read)' = Retries(n + 1)'
        BY <1>7 DEF Retries
      <3> QED BY <1>6, <3>1
    <2>3. a <= before
      BY <1>r, <1>a DEF PInv, AttemptsCounted
    <2> HIDE DEF before, after
    <2>4. center'.attempts <= after
      BY <1>0, <1>4, <2>1, <2>3
    <2>5. center'.status = "FAILED" =>
            document.kind # "sound" \/ Refusable("doc")' \/ MaxAttempts <= after
      <3> SUFFICES ASSUME center'.status = "FAILED", document.kind = "sound", ~ Refusable("doc")'
                   PROVE  MaxAttempts <= after
        OBVIOUS
      <3>0. ~ Refusable("doc")
        BY <1>6
      <3>1. CASE center.status = "FAILED"
        <4>1. MaxAttempts <= before
          BY <1>r, <3>0, <3>1 DEF PInv, AttemptsCounted, before
        <4> QED BY <2>1, <4>1, PipelineAssumption
      <3>2. CASE center.status # "FAILED"
        <4>1. current /\ ~ retry /\ ev.status = "FAILED"
          BY <1>0, <3>2
        <4>2. ev.retryable
          BY <1>2, <1>3, <3>0, <4>1 DEF Fits
        <4>3. ~ (ev.attempts + 1 < MaxAttempts) /\ Retry(ev)
          BY <4>1, <4>2 DEF MayRetry, Retry
        <4> QED BY <2>1, <2>3, <4>1, <4>3, PipelineAssumption
      <3> QED BY <3>1, <3>2
    <2>6. Cardinality(Retries(center.read))' = after /\ document' = document
      BY <1>0, <2>2 DEF after
    <2> QED BY <2>4, <2>5, <2>6 DEF AttemptsCounted
  <1> QED BY <1>6, <1>8, <1>9, <1>10, <1>11, <1>12 DEF PInv

LEMMA LeastElement ==
    ASSUME NEW T \in SUBSET Nat, T # {}
    PROVE  \E x \in T : \A y \in T : x <= y
  <1> DEFINE R == {ss \in Nat \X Nat : ss[1] < ss[2]}
  <1>1. IsWellFoundedOn(R, Nat)
    BY NatLessThanWellFounded DEF OpToRel
  <1>2. \A x, y \in Nat : <<y, x>> \in R <=> y < x
    OBVIOUS
  <1> HIDE DEF R
  <1>3. PICK x \in T : \A y \in T : ~ (<<y, x>> \in R)
    BY <1>1, WFMin
  <1>4. x \in Nat /\ \A y \in T : y \in Nat /\ ~ (y < x)
    BY <1>2, <1>3
  <1> QED BY <1>4

(* What every step of the tool leaves alone.                               *)
LEMMA ToolStep ==
    ASSUME PInv, UNCHANGED <<document, statuses, job, rows, center, answered, faults>>,
           ingest' = ingest \/ \E p \in Payloads : ingest' = Append(ingest, p),
           objects' \in {objects, objects \cup {"doc"}},
           "doc" \in objects' \/ ingest' = ingest,
           tool' \in [step : {"put", "look", "add", "wait", "ended"}, after : Nat, last : Nat,
                      exit : {0, 1}, entry : Nat],
           tool'.last <= Len(statuses), tool'.step = "put" => "doc" \in objects' \/ tool.step = "put",
           tool'.step # "put" => "doc" \in objects',
           ToolIsAhead'
    PROVE  PInv'
  <1>1. EventsKept
    BY IngestGrows DEF PInv
  <1>2. /\ JobAnswersEntry' /\ JobIsHonest' /\ RetriesPaid' /\ FinalStatusFits'
        /\ \A hash \in rows' : EventsOf(hash)' # {}
        /\ \A m \in Nat : Retries(m)' = Retries(m)
        /\ \A h : Refusable(h) => Refusable(h)'
    BY <1>1, WorldStep
  <1>3. PipelineTypeOK'
    BY <1>1, <1>2 DEF PInv, PipelineTypeOK, EventsKept, PipelineShape
  <1>4. PipelineShape'
    <2>1. job.read <= Len(ingest')
      BY <1>1 DEF PInv, PipelineShape, EventsKept
    <2> QED BY <1>1, <2>1 DEF PInv, PipelineShape, EventsKept
  <1>5. StoredFirst'
    BY DEF PInv, StoredFirst
  <1>6. AttemptsCounted'
    <2>1. center.read \in Nat
      BY DEF PInv, PipelineShape
    <2> QED BY <1>2, <2>1 DEF PInv, AttemptsCounted
  <1> QED BY <1>2, <1>3, <1>4, <1>5, <1>6 DEF PInv

LEMMA ToolPreserves == PInv /\ Tool => PInv'
  <1> SUFFICES ASSUME PInv, Tool PROVE PInv'
    OBVIOUS
  <1> USE DEF Following
  <1>t. /\ tool \in [step : {"put", "look", "add", "wait", "ended"}, after : Nat, last : Nat,
                     exit : {0, 1}, entry : Nat]
        /\ tool.last <= Len(statuses) /\ Len(statuses) \in Nat
        /\ tool.step # "put" => "doc" \in objects
    BY DEF PInv, PipelineShape, StoredFirst
  <1>1. CASE ToolPut
    <2>1. tool' = [tool EXCEPT !.step = "look"] /\ "doc" \in objects'
      BY <1>1 DEF ToolPut
    <2>2. ToolIsAhead'
      BY <1>1, <1>t, <2>1 DEF PInv, ToolIsAhead, ToolPut
    <2> QED BY <1>1, <1>t, <2>1, <2>2, ToolStep DEF ToolPut
  <1>2. CASE ToolLook
    <2>1. tool' = [tool EXCEPT !.step = "add", !.after = Len(statuses), !.last = Len(statuses)]
      BY <1>2 DEF ToolLook
    <2>2. ToolIsAhead'
      BY <1>2, <1>t, <2>1 DEF PInv, ToolIsAhead, ToolLook
    <2>3. /\ tool' \in [step : {"put", "look", "add", "wait", "ended"}, after : Nat, last : Nat,
                         exit : {0, 1}, entry : Nat]
          /\ tool'.step = "add" /\ tool'.last = Len(statuses) /\ "doc" \in objects
      BY <1>2, <1>t, <2>1 DEF ToolLook
    <2> QED BY <1>2, <1>t, <2>2, <2>3, ToolStep DEF ToolLook
  <1>3. CASE ToolAdd
    <2>1. /\ tool' = [tool EXCEPT !.step = "wait", !.entry = Len(ingest) + 1]
          /\ ingest' = Append(ingest, Sent(document.tool, 0)) /\ tool.step = "add"
      BY <1>3 DEF ToolAdd
    <2>2. Sent(document.tool, 0) \in Payloads
      BY SentIsPayload, NamesOfDocument, PipelineAssumption DEF PInv
    <2>3. Len(ingest) + 1 \in DOMAIN ingest' /\ ingest'[Len(ingest) + 1] = Sent(document.tool, 0)
          /\ Len(ingest) \in Nat
      BY <2>1 DEF PInv, PipelineShape
    <2>4. ParsedEvent(Sent(document.tool, 0)).hash = "doc"
      BY DEF ParsedEvent, Sent, Payload
    <2>5. answered = 0
      BY <2>1 DEF PInv, ToolIsAhead
    <2>6. ToolIsAhead'
      BY <1>3, <1>t, <2>1, <2>3, <2>4, <2>5 DEF ToolIsAhead, ToolAdd
    <2>7. /\ tool' \in [step : {"put", "look", "add", "wait", "ended"}, after : Nat, last : Nat,
                         exit : {0, 1}, entry : Nat]
          /\ tool'.step = "wait" /\ tool'.last = tool.last /\ "doc" \in objects
      <3>1. "doc" \in objects /\ Len(ingest) + 1 \in Nat
        BY <1>t, <2>1, <2>3
      <3> QED BY <1>t, <2>1, <3>1
    <2> QED BY <1>3, <1>t, <2>1, <2>2, <2>6, <2>7, ToolStep DEF ToolAdd
  <1>4. CASE ToolReads
    <2> DEFINE matching == {i \in (tool.last + 1) .. Len(statuses) : Decoded(statuses[i]).hash = "doc"}
    <2>0. /\ tool.step = "wait"
          /\ UNCHANGED <<document, objects, ingest, statuses, job, rows, center, answered, faults>>
      BY <1>4 DEF ToolReads
    <2>1. CASE matching = {}
      <3>1. tool' = [tool EXCEPT !.last = Len(statuses)]
        BY <1>4, <2>1 DEF ToolReads
      <3>2. answered = 0
        <4> SUFFICES ASSUME answered # 0 PROVE FALSE
          OBVIOUS
        <4>1. /\ answered \in DOMAIN statuses /\ answered > tool.last
              /\ Decoded(statuses[answered]).hash = "doc"
          BY <2>0 DEF PInv, ToolIsAhead
        <4>2. answered \in (tool.last + 1) .. Len(statuses)
          BY <1>t, <4>1 DEF PInv, PipelineShape
        <4> QED BY <2>1, <4>1, <4>2
      <3>3. ToolIsAhead'
        BY <1>t, <2>0, <3>1, <3>2 DEF PInv, ToolIsAhead
      <3> QED BY <1>t, <2>0, <3>1, <3>3, ToolStep
    <2>2. CASE matching # {}
      <3> DEFINE first == CHOOSE i \in matching : \A j \in matching : i <= j
                 exit == IF Decoded(statuses[first]).status = "INDEXED" THEN 0 ELSE 1
      <3>1. tool' = [tool EXCEPT !.step = "ended", !.last = first, !.exit = exit]
        BY <1>4, <2>2 DEF ToolReads
      <3>2. first \in matching
        <4>1. matching \subseteq Nat /\ matching # {}
          BY <1>t, <2>2
        <4>2. \E i \in matching : \A j \in matching : i <= j
          <5> HIDE DEF matching
          <5> QED BY <4>1, LeastElement
        <4> HIDE DEF matching
        <4> QED BY <4>2
      <3>3. first \in Nat /\ first <= Len(statuses)
        BY <1>t, <3>2
      <3>4. exit \in {0, 1}
        OBVIOUS
      <3> HIDE DEF first, exit
      <3>5. ToolIsAhead'
        BY <1>t, <2>0, <3>1 DEF PInv, ToolIsAhead
      <3> QED BY <1>t, <2>0, <3>1, <3>3, <3>4, <3>5, ToolStep
    <2> QED BY <2>1, <2>2
  <1> QED BY <1>1, <1>2, <1>3, <1>4 DEF Tool

-----------------------------------------------------------------------------
LEMMA PipelineInvariance == PInv /\ [PipelineNext]_pvars => PInv'
  <1> SUFFICES ASSUME PInv, [PipelineNext]_pvars PROVE PInv'
    OBVIOUS
  <1>1. CASE Consumer
    BY <1>1, ReadStep, ExistsStep, FetchStep, EmbedStep, RegisterStep, FaultStep, PublishStep
       DEF Consumer
  <1>2. CASE UNCHANGED pvars
    <2>1. UNCHANGED <<document, statuses, job, rows, center, answered, faults>>
          /\ tool' = tool /\ ingest' = ingest /\ objects' = objects
      BY <1>2 DEF pvars
    <2>2. ToolIsAhead'
      BY <2>1 DEF PInv, ToolIsAhead
    <2> QED BY <2>1, <2>2, ToolStep DEF PInv, PipelineShape, StoredFirst
  <1> QED
    BY <1>1, <1>2, CenterSendsStep, CenterReadsStep, ForeignStep, ToolPreserves DEF PipelineNext

LEMMA PipelineHolds == PipelineSpec => []PInv
  BY PipelineStarts, PipelineInvariance, PTL DEF PipelineSpec

(* Every entry that parses is answered, and every answer can be read: the  *)
(* bounds that IngestEvent.parse enforces are those of StatusEvent and of  *)
(* DecodeStatus, whatever other producers send.                            *)
THEOREM EntriesAnswerable == PipelineSpec => []EveryEntryIsAnswerable
  <1>1. PInv => EveryEntryIsAnswerable
    <2> SUFFICES ASSUME PInv PROVE EveryEntryIsAnswerable
      OBVIOUS
    <2>1. ASSUME NEW i \in DOMAIN statuses
          PROVE  /\ Decodes(statuses[i])
                 /\ Decoded(statuses[i]).hash = statuses[i].fields.hash.text
      <3>1. PICK s \in Statuses : statuses[i] = Sending(s)
        BY DEF PInv, PipelineShape
      <3> QED BY <3>1, StatusIsRead
    <2>2. NoEntryStuck
      BY DEF PInv, PipelineShape, NoEntryStuck
    <2> QED BY <2>1, <2>2 DEF PInv, EveryEntryIsAnswerable, CenterReadsEveryStatus
  <1> QED BY <1>1, PipelineHolds, PTL

(* A final verdict is about the document: INDEXED means text was found, a  *)
(* permanent failure names a defect the document or an event for it has,   *)
(* and a sound one fails only after MaxAttempts outages or premature       *)
(* requests of other producers.                                            *)
THEOREM VerdictsFit == PipelineSpec => []VerdictFitsDocument
  <1>1. PInv => VerdictFitsDocument
    <2> SUFFICES ASSUME PInv, center.status = "FAILED", document.kind = "sound", ~ Refusable("doc")
                 PROVE  faults + Cardinality(Premature) >= MaxAttempts
      BY DEF PInv, VerdictFitsDocument, OutageNeverCondemns
    <2>1. MaxAttempts <= Cardinality(Retries(center.read))
      BY DEF PInv, AttemptsCounted
    <2>2. Len(statuses) \in Nat /\ center.read \in 0 .. Len(statuses) /\ faults \in Nat
      BY DEF PInv, PipelineTypeOK, PipelineShape
    <2>3. Cardinality(Retries(center.read)) <= Cardinality(Retries(Len(statuses)))
      BY <2>2, RetriesUpTo
    <2>4. Cardinality(Retries(Len(statuses))) \in Nat /\ Cardinality(Retries(center.read)) \in Nat
      <3>1. center.read \in Nat
        BY <2>2
      <3> QED BY <2>2, <3>1, RetriesCount
    <2>5. Answered \in Nat /\ Pending \in {0, 1}
      BY DEF Answered, Busy, Pending, PInv, PipelineShape, JobAnswersEntry
    <2>6. /\ Cardinality(PrematureTo(Answered)) <= Cardinality(Premature)
          /\ Cardinality(PrematureTo(Answered)) \in Nat /\ Cardinality(Premature) \in Nat
      BY <2>5, PrematureCount DEF PInv
    <2>7. Cardinality(Retries(Len(statuses))) + Pending <= faults + Cardinality(PrematureTo(Answered))
      BY DEF PInv, RetriesPaid
    <2> QED BY <2>1, <2>2, <2>3, <2>4, <2>5, <2>6, <2>7, PipelineAssumption
  <1> QED BY <1>1, PipelineHolds, PTL

(* ingest_file never reads past the status of its own entry.               *)
THEOREM ToolNeverMisses == PipelineSpec => []ToolMissesNothing
  <1>1. PInv => ToolMissesNothing
    BY DEF PInv, ToolIsAhead, ToolMissesNothing
  <1> QED BY <1>1, PipelineHolds, PTL

-----------------------------------------------------------------------------
(***************************************************************************)
(* The query server, for every set of calls, every number of threads and   *)
(* every length of an answer: what a call has produced, sent and opened at *)
(* each place of its handler; a step of one call leaves every other as it  *)
(* is.                                                                     *)
(***************************************************************************)
(* Nothing happened before the generator runs. *)
Fresh(c) ==
    /\ pc[c] \in {"new", "validate", "embed", "search"} => hand[c] = "none"
    /\ pc[c] # "over" /\ hand[c] = "none" =>
         llm[c] = "none" /\ late[c] = 0 /\ sources[c] = 0 /\ deltas[c] = 0
    /\ pc[c] \in {"groq", "read"} => hand[c] # "none"

(* What the search found decides the branch, and only one opens a stream. *)
Branch(c) ==
    /\ pc[c] \in {"groq", "read"} \/ hand[c] = "delta" \/ llm[c] # "none" => found[c]
    /\ hand[c] = "nothing" \/ (pc[c] = "sources" /\ hand[c] = "sources") => ~ found[c]
    /\ llm[c] = "open" => pc[c] = "read" \/ (pc[c] \in {"check", "send"} /\ hand[c] = "delta")

(* The messages of a stream, in the order in which they are sent. *)
Order(c) ==
    /\ pc[c] \in {"check", "send"} => c \in Streaming /\ hand[c] # "none"
    /\ c \notin Streaming /\ pc[c] # "over" => sources[c] = 0 /\ deltas[c] = 0
    /\ c \in Streaming /\ pc[c] # "over" =>
         /\ pc[c] \in {"check", "send"} /\ hand[c] = "sources" =>
              sources[c] = 0 /\ deltas[c] = 0 /\ llm[c] = "none"
         /\ pc[c] \notin {"check", "send"} /\ hand[c] # "none" => sources[c] = 1
         /\ hand[c] \in {"nothing", "delta"} => sources[c] = 1
         /\ pc[c] = "sources" /\ hand[c] = "sources" => deltas[c] = 0
         /\ pc[c] \in {"check", "send"} /\ hand[c] = "nothing" => deltas[c] = 0
         /\ pc[c] = "sources" /\ hand[c] = "nothing" => deltas[c] = 1
    /\ c \in Streaming /\ llm[c] # "none" => sources[c] = 1

(* A client that left is noticed at the next look. *)
Noticed(c) ==
    c \in Streaming =>
      /\ late[c] <= 1
      /\ late[c] = 1 => status[c] # "none"
      /\ pc[c] \notin {"check", "send", "over"} => late[c] = 0

(* A status other than the client's own comes with the end of the handler. *)
Ended(c) ==
    /\ pc[c] = "over" => status[c] # "none"
    /\ pc[c] = "new" => status[c] = "none"
    /\ status[c] \notin {"none", "CANCELLED"} => pc[c] = "over"
    /\ status[c] = "OK" => sources[c] = 1 /\ (~ found[c] => deltas[c] = 1 /\ llm[c] = "none")

CallInv(c) == Fresh(c) /\ Branch(c) /\ Order(c) /\ Noticed(c) /\ Ended(c)

AtWork == {c \in Call : Running(c)}
Slots == Cardinality(AtWork) <= MaxWorkers

IInv == TypeOK /\ Slots /\ \A c \in Call : CallInv(c)

-----------------------------------------------------------------------------
Step(c) == Arrive(c) \/ Leave(c) \/ Work(c)
Same(d) ==
    /\ pc'[d] = pc[d] /\ hand'[d] = hand[d] /\ found'[d] = found[d] /\ llm'[d] = llm[d]
    /\ chunks'[d] = chunks[d] /\ late'[d] = late[d]
    /\ sources'[d] = sources[d] /\ deltas'[d] = deltas[d] /\ status'[d] = status[d]

USE DEF Phase, Message, Goto, Active, Running, Told, Closed, Finish, Produce, AfterMessage, observed

LEMMA InitIInv == Init => IInv
<1> SUFFICES ASSUME Init PROVE IInv
  OBVIOUS
<1>1. TypeOK
  BY QueryAssumption DEF Init, TypeOK
<1>2. Slots
  <2>1. AtWork = {}
    BY DEF AtWork, Init
  <2> QED
    BY <2>1, FS_EmptySet, QueryAssumption DEF Slots
<1>3. \A c \in Call : CallInv(c)
  BY DEF Init, CallInv, Fresh, Branch, Order, Noticed, Ended
<1> QED
  BY <1>1, <1>2, <1>3 DEF IInv

(* A step keeps the types. *)
LEMMA StepTypeOK ==
    ASSUME TypeOK, NEW c \in Call, Step(c)
    PROVE  TypeOK'
<1> USE QueryAssumption DEF TypeOK
<1>1. CASE Arrive(c)
  BY <1>1 DEF Arrive
<1>2. CASE Leave(c)
  BY <1>2 DEF Leave
<1>3. CASE Validate(c)
  BY <1>3 DEF Validate
<1>4. CASE Embed(c)
  BY <1>4 DEF Embed
<1>5. CASE Search(c)
  BY <1>5 DEF Search
<1>6. CASE CallFails(c)
  BY <1>6 DEF CallFails
<1>7. CASE ProduceSources(c)
  BY <1>7 DEF ProduceSources
<1>8. CASE ProduceNothing(c)
  BY <1>8 DEF ProduceNothing
<1>9. CASE Connect(c)
  BY <1>9 DEF Connect
<1>10. CASE ReadEmpty(c)
  BY <1>10 DEF ReadEmpty
<1>11. CASE ReadDelta(c)
  BY <1>11 DEF ReadDelta
<1>12. CASE StreamEnds(c)
  BY <1>12 DEF StreamEnds
<1>13. CASE Respond(c)
  BY <1>13 DEF Respond
<1>14. CASE Check(c)
  BY <1>14 DEF Check
<1>15. CASE Send(c)
  BY <1>15 DEF Send, Resumes
<1> QED
  BY <1>1, <1>2, <1>3, <1>4, <1>5, <1>6, <1>7, <1>8, <1>9, <1>10, <1>11, <1>12, <1>13,
     <1>14, <1>15 DEF Step, Work, OwnStep

(* A step of one call leaves the others as they are. *)
LEMMA OthersSame ==
    ASSUME TypeOK, NEW c \in Call, Step(c), NEW d \in Call, d # c
    PROVE  Same(d)
<1> USE DEF TypeOK, Same
<1>1. CASE Arrive(c)
  BY <1>1 DEF Arrive
<1>2. CASE Leave(c)
  BY <1>2 DEF Leave
<1>3. CASE Validate(c)
  BY <1>3 DEF Validate
<1>4. CASE Embed(c)
  BY <1>4 DEF Embed
<1>5. CASE Search(c)
  BY <1>5 DEF Search
<1>6. CASE CallFails(c)
  BY <1>6 DEF CallFails
<1>7. CASE ProduceSources(c) \/ ProduceNothing(c) \/ ReadDelta(c)
  BY <1>7 DEF ProduceSources, ProduceNothing, ReadDelta
<1>8. CASE Connect(c) \/ ReadEmpty(c)
  BY <1>8 DEF Connect, ReadEmpty
<1>9. CASE StreamEnds(c) \/ Respond(c)
  BY <1>9 DEF StreamEnds, Respond
<1>10. CASE Check(c) \/ Send(c)
  BY <1>10 DEF Check, Send, Resumes
<1> QED
  BY <1>1, <1>2, <1>3, <1>4, <1>5, <1>6, <1>7, <1>8, <1>9, <1>10 DEF Step, Work, OwnStep

(* The step of a call keeps its own invariant, one that stays as it is     *)
(* does too.                                                               *)
LEMMA StepCallInv ==
    ASSUME IInv, NEW c \in Call, Step(c)
    PROVE  CallInv(c)'
<1> USE DEF TypeOK, CallInv, Fresh, Branch, Order, Noticed, Ended
<1>0. TypeOK /\ CallInv(c)
  BY DEF IInv
<1> USE <1>0
<1>1. CASE Arrive(c)
  BY <1>1 DEF Arrive
<1>2. CASE Leave(c)
  BY <1>2 DEF Leave
<1>3. CASE Validate(c)
  BY <1>3 DEF Validate
<1>4. CASE Embed(c)
  BY <1>4 DEF Embed
<1>5. CASE Search(c)
  BY <1>5 DEF Search
<1>6. CASE CallFails(c)
  BY <1>6 DEF CallFails
<1>7. CASE ProduceSources(c)
  BY <1>7 DEF ProduceSources
<1>8. CASE ProduceNothing(c)
  BY <1>8 DEF ProduceNothing
<1>9. CASE Connect(c)
  BY <1>9 DEF Connect
<1>10. CASE ReadEmpty(c)
  BY <1>10 DEF ReadEmpty
<1>11. CASE ReadDelta(c)
  BY <1>11 DEF ReadDelta
<1>12. CASE StreamEnds(c)
  BY <1>12 DEF StreamEnds, Exhausted
<1>13. CASE Respond(c)
  BY <1>13 DEF Respond, Exhausted
<1>14. CASE Check(c)
  BY <1>14 DEF Check
<1>15. CASE Send(c)
  BY <1>15 DEF Send, Resumes
<1> QED
  BY <1>1, <1>2, <1>3, <1>4, <1>5, <1>6, <1>7, <1>8,
     <1>9, <1>10, <1>11, <1>12, <1>13, <1>14, <1>15 DEF Step, Work, OwnStep

LEMMA SameCallInv ==
    ASSUME NEW d \in Call, CallInv(d), Same(d)
    PROVE  CallInv(d)'
  BY DEF CallInv, Fresh, Branch, Order, Noticed, Ended, Same

(* A thread is taken only when one is free. *)
LEMMA StepSlots ==
    ASSUME IInv, NEW c \in Call, Step(c)
    PROVE  Slots'
<1>1. IsFiniteSet(AtWork) /\ Cardinality(AtWork) \in Nat
  BY QueryAssumption, FS_Subset, FS_CardinalityType DEF AtWork
<1>2. \A d \in Call : d # c => (Running(d)' <=> Running(d))
  BY OthersSame DEF IInv, Same
<1>3. CASE Arrive(c) /\ HasSlot
  <2>1. AtWork' \subseteq AtWork \cup {c}
    BY <1>2 DEF AtWork
  <2>2. Cardinality(AtWork \cup {c}) <= Cardinality(AtWork) + 1 /\ IsFiniteSet(AtWork \cup {c})
    <3>1. /\ IsFiniteSet(AtWork \cup {c})
          /\ Cardinality(AtWork \cup {c}) =
               IF c \in AtWork THEN Cardinality(AtWork) ELSE Cardinality(AtWork) + 1
      BY <1>1, FS_AddElement
    <3> QED
      BY <1>1, <3>1
  <2>3. Cardinality(AtWork') <= Cardinality(AtWork \cup {c}) /\ IsFiniteSet(AtWork')
    BY <2>1, <2>2, FS_Subset
  <2>4. Cardinality(AtWork) < MaxWorkers
    BY <1>3 DEF HasSlot, AtWork
  <2>5. Cardinality(AtWork') \in Nat /\ Cardinality(AtWork \cup {c}) \in Nat
    BY <2>2, <2>3, FS_CardinalityType
  <2> QED
    BY <1>1, <2>2, <2>3, <2>4, <2>5, QueryAssumption DEF Slots
<1>4. CASE ~ (Arrive(c) /\ HasSlot)
  <2>1. Running(c)' => Running(c)
    BY <1>4 DEF IInv, TypeOK, Step, Work, OwnStep, Arrive, Leave, Validate, Embed, Search, CallFails,
         ProduceSources, ProduceNothing, Connect, ReadEmpty, ReadDelta, StreamEnds, Respond,
         Check, Send, Resumes
  <2>2. AtWork' \subseteq AtWork
    BY <1>2, <2>1 DEF AtWork
  <2>3. Cardinality(AtWork') <= Cardinality(AtWork) /\ IsFiniteSet(AtWork')
    BY <1>1, <2>2, FS_Subset
  <2>4. Cardinality(AtWork') \in Nat
    BY <2>3, FS_CardinalityType
  <2> QED
    BY <1>1, <2>3, <2>4, QueryAssumption DEF IInv, Slots
<1> QED
  BY <1>3, <1>4

LEMMA NextIInv == IInv /\ [Next]_vars => IInv'
<1> SUFFICES ASSUME IInv, [Next]_vars PROVE IInv'
  OBVIOUS
<1>1. CASE Next
  <2>1. PICK c \in Call : Step(c)
    BY <1>1 DEF Next, Step
  <2>2. TypeOK'
    BY <2>1, StepTypeOK DEF IInv
  <2>3. Slots'
    BY <2>1, StepSlots
  <2>4. ASSUME NEW d \in Call PROVE CallInv(d)'
    <3>1. CASE d = c
      BY <2>1, <3>1, StepCallInv
    <3>2. CASE d # c
      BY <2>1, <3>2, OthersSame, SameCallInv DEF IInv
    <3> QED
      BY <3>1, <3>2
  <2> QED
    BY <2>2, <2>3, <2>4 DEF IInv
<1>2. CASE UNCHANGED vars
  BY <1>2 DEF vars, IInv, TypeOK, Slots, AtWork, CallInv, Fresh, Branch, Order, Noticed, Ended
<1> QED
  BY <1>1, <1>2

THEOREM Invariance == Spec => []IInv
  BY InitIInv, NextIInv, PTL DEF Spec

-----------------------------------------------------------------------------
(* Every handler, message and status is of its type (TypeOK). *)
THEOREM TypeCorrect == Spec => []TypeOK
<1>1. IInv => TypeOK
  BY DEF IInv
<1> QED
  BY <1>1, Invariance, PTL

(* The model's stream is closed when its call's handler is over, and there *)
(* are never more of them than threads (NoStreamLeftOpen).                 *)
THEOREM StreamsAreClosed == Spec => []NoStreamLeftOpen
<1>1. ASSUME IInv PROVE NoStreamLeftOpen
  <2> DEFINE OpenStreams == {c \in Call : llm[c] = "open"}
  <2>1. \A c \in Call : llm[c] = "open" => Running(c)
    BY <1>1 DEF IInv, CallInv, Branch
  <2>2. OpenStreams \subseteq AtWork /\ IsFiniteSet(AtWork)
    BY <2>1, QueryAssumption, FS_Subset DEF AtWork
  <2>3. Cardinality(OpenStreams) <= Cardinality(AtWork) /\ IsFiniteSet(OpenStreams)
    BY <2>2, FS_Subset
  <2>4. Cardinality(OpenStreams) \in Nat /\ Cardinality(AtWork) \in Nat
    BY <2>2, <2>3, FS_CardinalityType
  <2>5. Cardinality(OpenStreams) <= MaxWorkers
    BY <1>1, <2>3, <2>4, QueryAssumption DEF IInv, Slots
  <2> QED
    BY <2>1, <2>5 DEF NoStreamLeftOpen
<1> QED
  BY <1>1, Invariance, PTL

(* Document text leaves only after a hit, and for a stream only after its  *)
(* client received the sources (TextLeavesForAClient).                     *)
THEOREM TextLeavesEarned == Spec => []TextLeavesForAClient
<1>1. IInv => TextLeavesForAClient
  BY DEF IInv, CallInv, Branch, Order, TextLeavesForAClient
<1> QED
  BY <1>1, Invariance, PTL

(* At most one message of a stream is produced for a client that left      *)
(* (AbandonedStreamStops).                                                 *)
THEOREM AbandonedStops == Spec => []AbandonedStreamStops
<1>1. IInv => AbandonedStreamStops
  BY QueryAssumption DEF IInv, CallInv, Noticed, AbandonedStreamStops
<1> QED
  BY <1>1, Invariance, PTL

(* OK means that the sources were sent, and without a hit exactly the      *)
(* fixed answer (CompleteMeansAnswered).                                   *)
THEOREM CompleteIsAnswered == Spec => []CompleteMeansAnswered
<1>1. IInv => CompleteMeansAnswered
  BY DEF IInv, CallInv, Ended, CompleteMeansAnswered
<1> QED
  BY <1>1, Invariance, PTL

-----------------------------------------------------------------------------
(* Every step of a handler or a client is a step of the protocol, or the   *)
(* client sees nothing of it.                                              *)
LEMMA StepRefines ==
    ASSUME IInv, NEW c \in Call, Step(c)
    PROVE  [Protocol!Next]_(Protocol!observed)
<1> USE DEF TypeOK, CallInv, Fresh, Branch, Order, Ended
<1>0. TypeOK /\ CallInv(c)
  BY DEF IInv
<1> USE <1>0
<1>1. CASE Arrive(c)
  <2>1. Protocol!Refused(c) \/ UNCHANGED observed
    BY <1>1 DEF Arrive, Protocol!Refused, Protocol!Open, Protocol!End, Protocol!Status
  <2> QED
    BY <2>1 DEF Protocol!Next, Protocol!observed
<1>2. CASE Leave(c)
  <2>1. Protocol!Cancel(c)
    BY <1>2 DEF Leave, Protocol!Cancel, Protocol!Open, Protocol!End
  <2> QED
    BY <2>1 DEF Protocol!Next
<1>3. CASE Validate(c)
  <2>1. Protocol!Refused(c) \/ UNCHANGED observed
    BY <1>3 DEF Validate, Protocol!Refused, Protocol!Open, Protocol!End, Protocol!Status
  <2> QED
    BY <2>1 DEF Protocol!Next, Protocol!observed
<1>4. CASE CallFails(c)
  <2>1. Protocol!Refused(c) \/ Protocol!Broken(c) \/ UNCHANGED observed
    BY <1>4 DEF CallFails, Protocol!Refused, Protocol!Broken, Protocol!Open, Protocol!End,
         Protocol!Status
  <2> QED
    BY <2>1 DEF Protocol!Next, Protocol!observed
<1>5. CASE Embed(c) \/ Search(c) \/ Connect(c) \/ ReadEmpty(c)
  BY <1>5 DEF Embed, Search, Connect, ReadEmpty, Protocol!observed
<1>6. CASE ProduceSources(c) \/ ProduceNothing(c) \/ ReadDelta(c)
  BY <1>6 DEF ProduceSources, ProduceNothing, ReadDelta, Protocol!observed
<1>7. CASE StreamEnds(c)
  <2>1. Protocol!Complete(c) \/ UNCHANGED observed
    BY <1>7 DEF StreamEnds, Exhausted, Protocol!Complete, Protocol!Open, Protocol!End
  <2> QED
    BY <2>1 DEF Protocol!Next, Protocol!observed
<1>8. CASE Respond(c)
  <2>1. Protocol!Response(c) \/ UNCHANGED observed
    BY <1>8 DEF Respond, Protocol!Response, Protocol!Open, Protocol!End
  <2> QED
    BY <2>1 DEF Protocol!Next, Protocol!observed
<1>9. CASE Check(c)
  BY <1>9 DEF Check, Protocol!observed
<1>10. CASE Send(c)
  <2>1. Protocol!Sources(c) \/ Protocol!Delta(c) \/ UNCHANGED observed
    BY <1>10 DEF Send, Resumes, Protocol!Sources, Protocol!Delta, Protocol!Open
  <2> QED
    BY <2>1 DEF Protocol!Next, Protocol!observed
<1> QED
  BY <1>1, <1>2, <1>3, <1>4, <1>5, <1>6, <1>7, <1>8, <1>9, <1>10 DEF Step, Work, OwnStep

(* The handlers implement the protocol of rag.proto (ImplementsProtocol).  *)
THEOREM Refinement == Spec => ImplementsProtocol
<1>1. Init => Protocol!Init
  BY DEF Init, Protocol!Init
<1>2. IInv /\ [Next]_vars => [Protocol!Next]_(Protocol!observed)
  <2>1. CASE UNCHANGED vars
    BY <2>1 DEF vars, Protocol!observed
  <2>2. ASSUME IInv, Next PROVE [Protocol!Next]_(Protocol!observed)
    BY <2>2, StepRefines DEF Next, Step
  <2> QED
    BY <2>1, <2>2
<1> QED
  BY <1>1, <1>2, Invariance, PTL DEF Spec, ImplementsProtocol, Protocol!Spec
===============================================================================
