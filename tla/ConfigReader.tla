----------------------------- MODULE ConfigReader -----------------------------
(***************************************************************************)
(* config.toml as the RAG service reads it, the center's validation of the *)
(* same file, and the operator who runs a service, repairs what it reports *)
(* and runs it again.                                                      *)
(*                                                                         *)
(* A file is a function from the paths of its leaves to TOML values.  A    *)
(* value is tagged: [text |-> s], [digits |-> n, unit |-> u] (the text     *)
(* "15m"), [int |-> n], [tenths |-> n] (a float), [bool |-> b] or          *)
(* [list |-> s], a sequence of values; an extension ".a.b" is              *)
(* [dotted |-> <<"a", "b">>].                                              *)
(***************************************************************************)
EXTENDS Integers, Sequences, FiniteSets, TLC

CONSTANTS
    Sound,      \* the file of the repository
    Files,      \* the files an operator may start from
    MaxInt,     \* the largest 64-bit integer
    MaxPort     \* 65535

VARIABLES
    file,       \* config.toml
    phase,      \* "edited", or what load() last made of it: "loaded", "refused"
    report,     \* the keys of reader.problems
    attempts,   \* starts that were refused
    hidden      \* ghost: one of them could not compare two keys

cvars == <<file, phase, report, attempts, hidden>>

-----------------------------------------------------------------------------
(* Keys by the reader that build() gives them.                             *)

In(table, names) == {Append(table, n) : n \in names}
Consumer == <<"rag", "consumer">>

Texts ==
    In(<<"minio">>, {"url", "access_key", "secret_key", "ingestion_bucket"})
    \cup {<<"sqlite", "dir">>, <<"qdrant", "url">>, <<"ollama", "url">>}
    \cup In(<<"rag">>, {"collection", "embedding_model", "llm_model", "query_instruction",
                        "system_prompt"})
    \cup In(<<"redis">>, {"host", "stream", "consumer_group", "status_stream",
                          "status_consumer_group"})
OptionalTexts == {<<"minio", "upload_bucket">>}
Timing == In(Consumer, {"job_timeout", "watchdog_grace", "min_idle", "consumer_cleanup_idle"})
Durations == Timing \cup {<<"rag", "consumer", "recovery_interval">>, <<"rag", "call_timeout">>}
Ports == {<<"rag_grpc", "port">>, <<"redis", "port">>}
Dim == <<"rag", "embedding_dim">>
Size == <<"rag", "chunk_size">>
Overlap == <<"rag", "chunk_overlap">>
Integers1 ==
    In(Consumer, {"poison_threshold", "max_file_bytes"}) \cup Ports
    \cup In(<<"rag">>, {"top_k", "chunk_size", "embed_batch_size", "max_query_chars",
                        "max_document_ids"})
    \cup {<<"rag_grpc", "max_workers">>, <<"redis", "stream_max_len">>,
          <<"ingestion", "max_attempts">>}
Score == <<"rag", "min_score">>
Effort == <<"rag", "reasoning_effort">>
Flag == <<"rag", "consumer", "allow_skip_dim_check">>
Extensions == <<"ingestion", "allowed_extensions">>

(* _KNOWN: its leaves and, as prefixes of them, its tables. *)
Known == Texts \cup OptionalTexts \cup Durations \cup Integers1
         \cup {Dim, Overlap, Score, Effort, Flag, Extensions}
Prefixes(p) == {SubSeq(p, 1, n) : n \in 1 .. Len(p)}
KnownTables == UNION {Prefixes(p) \ {p} : p \in Known}

-----------------------------------------------------------------------------
(* The value at a path: a leaf, a table where a leaf is expected, or none. *)
Value(f, p) ==
    IF p \in DOMAIN f THEN f[p]
    ELSE IF \E q \in DOMAIN f : p \in Prefixes(q) THEN [table |-> TRUE] ELSE [none |-> TRUE]

Tag(v) == DOMAIN v
IsText(v) == Tag(v) \in {{"text"}, {"digits", "unit"}, {"dotted"}}
Absent(v) == Tag(v) = {"none"}

(* parse_duration: one to six digits and a unit. *)
IsDuration(v) ==
    /\ Tag(v) = {"digits", "unit"} /\ v.digits \in Nat /\ v.digits <= 999999
    /\ v.unit \in {"s", "m", "h"}
Seconds(v) == v.digits * (CASE v.unit = "s" -> 1 [] v.unit = "m" -> 60 [] v.unit = "h" -> 3600)
PositiveDuration(v) == IsDuration(v) /\ Seconds(v) > 0

NonEmpty(v) == IsText(v) /\ v # [text |-> ""]
IsInteger(v, low, high) == Tag(v) = {"int"} /\ low <= v.int /\ v.int <= high
Highest(p) == IF p \in Ports THEN MaxPort ELSE MaxInt

(* 0, which compares as a number, or a float below 1. *)
IsScore(v) == v = [int |-> 0] \/ (Tag(v) = {"tenths"} /\ v.tenths \in 0 .. 9)
IsEffort(v) == v \in {[text |-> "low"], [text |-> "medium"], [text |-> "high"]}

IsExtension(v) == Tag(v) = {"dotted"} /\ Len(v.dotted) = 1 /\ v.dotted[1] # ""
AreExtensions(v) ==
    Tag(v) = {"list"} /\ v.list # << >> /\ \A i \in DOMAIN v.list : IsExtension(v.list[i])
IsSwitch(v) == Tag(v) = {"bool"}

(* An overlap as large as the chunk would never advance.  integer() goes   *)
(* on with the minimum for a chunk_size that is no integer at all.         *)
ChunkSize(f) == IF Tag(Value(f, Size)) = {"int"} THEN Value(f, Size).int ELSE 1
MaxOverlap(f) == IF ChunkSize(f) > 0 THEN ChunkSize(f) - 1 ELSE 0

(* The keys the typed readers report. *)
BadKeys(f) ==
    {p \in Texts : ~ NonEmpty(Value(f, p))}
    \cup {p \in OptionalTexts : ~ Absent(Value(f, p)) /\ ~ IsText(Value(f, p))}
    \cup {p \in Durations : ~ PositiveDuration(Value(f, p))}
    \cup {p \in Integers1 : ~ IsInteger(Value(f, p), 1, Highest(p))}
    \cup {p \in {Dim} : ~ IsInteger(Value(f, p), 0, MaxInt)}
    \cup {p \in {Overlap} : ~ IsInteger(Value(f, p), 0, MaxOverlap(f))}
    \cup {p \in {Score} : ~ IsScore(Value(f, p))}
    \cup {p \in {Effort} : ~ IsEffort(Value(f, p))}
    \cup {p \in {Flag} : ~ Absent(Value(f, p)) /\ ~ IsSwitch(Value(f, p))}
    \cup {p \in {Extensions} : ~ AreExtensions(Value(f, p))}

-----------------------------------------------------------------------------
(* _check_timing.                                                          *)
T(f, name) == Seconds(Value(f, Append(Consumer, name)))
Reclaimable(f) == T(f, "job_timeout") + T(f, "watchdog_grace") >= T(f, "min_idle")
DeletedAtWork(f) == T(f, "consumer_cleanup_idle") <= T(f, "job_timeout")
BadTiming(f) ==
    {p \in {Append(Consumer, "min_idle")} : Reclaimable(f)}
    \cup {p \in {Append(Consumer, "consumer_cleanup_idle")} : DeletedAtWork(f)}

InvalidTiming(f) == {p \in Timing : ~ PositiveDuration(Value(f, p))}

(* Variants: no timing rules at all; only for a file with no other problem. *)
Problems_NoTiming(f) == BadKeys(f)
Problems_CleanFile(f) == BadKeys(f) \cup (IF BadKeys(f) = {} THEN BadTiming(f) ELSE {})

(* An unrelated problem must not hide a timing violation. *)
Problems(f) == BadKeys(f) \cup (IF InvalidTiming(f) = {} THEN BadTiming(f) ELSE {})

(* TOML: a path is a leaf or a table. *)
IsToml(f) ==
    /\ f = [p \in DOMAIN f |-> f[p]]
    /\ \A p \in DOMAIN f :
         /\ Prefixes(p) \cap DOMAIN f = {p}
         /\ DOMAIN f[p] = {"int"} => f[p].int \in Int

(* What the two come to can be written in seconds: six digits, five days.  *)
Brief(v) == PositiveDuration(v) => Seconds(v) < 500000
IsShort(f) == \A p \in In(Consumer, {"job_timeout", "watchdog_grace"}) : Brief(Value(f, p))

(* The repository's file is accepted, and has the center's upload bucket. *)
ASSUME ReaderAssumption ==
    /\ MaxInt \in Nat /\ MaxPort \in 0 .. MaxInt
    /\ \A f \in Files \cup {Sound} : IsToml(f) /\ IsShort(f)
    /\ Problems(Sound) = {} /\ OptionalTexts \subseteq DOMAIN Sound

(* The leaves that are neither modelled nor under a modelled leaf. *)
UnknownKeys(f) ==
    {p \in DOMAIN f : p[1] # "go" /\ Prefixes(p) \cap Known = {} /\ p \notin KnownTables}

-----------------------------------------------------------------------------
(* The center: types are checked while decoding, then Validate.            *)

Decodable(f) ==
    /\ DOMAIN f \cap KnownTables = {}
    /\ \A p \in Texts \cup OptionalTexts \cup {Effort} : Absent(Value(f, p)) \/ IsText(Value(f, p))
    /\ \A p \in Durations : Absent(Value(f, p)) \/ IsDuration(Value(f, p))
    /\ \A p \in Integers1 \cup {Dim, Overlap} :
         Absent(Value(f, p)) \/ IsInteger(Value(f, p), -MaxInt - 1, MaxInt)
    /\ Tag(Value(f, Score)) \in {{"none"}, {"int"}, {"tenths"}}
    /\ Tag(Value(f, Flag)) \in {{"none"}, {"bool"}}
    /\ Absent(Value(f, Extensions)) \/ Tag(Value(f, Extensions)) = {"list"}

(* What Validate does not look at, or Python does not insist on. *)
PythonOnly ==
    {<<"sqlite", "dir">>, <<"qdrant", "url">>, <<"ollama", "url">>,
     <<"redis", "consumer_group">>, Dim, Size, Overlap, Score, Effort,
     <<"rag_grpc", "max_workers">>, <<"rag", "consumer", "max_file_bytes">>}
    \cup In(<<"rag">>, {"llm_model", "query_instruction", "system_prompt", "top_k",
                        "embed_batch_size", "max_query_chars", "max_document_ids"})

GoSeconds(f, name) ==
    LET v == Value(f, Append(Consumer, name)) IN IF Absent(v) THEN 0 ELSE Seconds(v)

Validates(f) ==
    /\ Decodable(f)
    /\ \A p \in (Texts \cup OptionalTexts) \ PythonOnly :
         ~ Absent(Value(f, p)) /\ Value(f, p) # [text |-> ""]
    /\ \A p \in Durations : PositiveDuration(Value(f, p))
    /\ \A p \in Integers1 \ PythonOnly :
         IsInteger(Value(f, p), 1, Highest(p))
    /\ AreExtensions(Value(f, Extensions))
    /\ GoSeconds(f, "job_timeout") + GoSeconds(f, "watchdog_grace") < GoSeconds(f, "min_idle")
    /\ GoSeconds(f, "consumer_cleanup_idle") > GoSeconds(f, "job_timeout")

-----------------------------------------------------------------------------
(* The operator.                                                           *)

ConfigInit ==
    /\ file \in Files
    /\ phase = "edited"
    /\ report = {}
    /\ attempts = 0
    /\ hidden = FALSE

With(f, p, v) == [q \in (DOMAIN f \cup {p}) |-> IF q = p THEN v ELSE f[q]]

(* What the messages ask for: the value of the repository's file, and for  *)
(* a limit that depends on another key the smallest one that satisfies it. *)
Suited(f, p) ==
    IF p = Overlap THEN [int |-> 0]
    ELSE IF p = Flag THEN [bool |-> FALSE]
    ELSE IF p \notin Timing \/ p \in InvalidTiming(f) THEN Sound[p]
    ELSE [digits |-> T(f, "job_timeout") + T(f, "watchdog_grace") + 1, unit |-> "s"]

(* A key under a scalar, or a scalar under a table, goes when p is set. *)
InTheWay(f, p) == {q \in DOMAIN f : q # p /\ (q \in Prefixes(p) \/ p \in Prefixes(q))}

Repaired(f, problems) ==
    LET keep == DOMAIN f \ UNION {InTheWay(f, p) : p \in problems}
    IN  [q \in keep \cup problems |-> IF q \in problems THEN Suited(f, q) ELSE f[q]]

(* load(): the config, or ConfigError with every problem. *)
LoadConfig ==
    /\ phase = "edited"
    /\ report' = Problems(file)
    /\ phase' = IF report' = {} THEN "loaded" ELSE "refused"
    /\ attempts' = IF report' = {} THEN attempts ELSE attempts + 1
    /\ hidden' = (hidden \/ InvalidTiming(file) # {} \/ Size \in report')
    /\ UNCHANGED file

Repair ==
    /\ phase = "refused"
    /\ file' = Repaired(file, report)
    /\ phase' = "edited"
    /\ UNCHANGED <<report, attempts, hidden>>

ConfigNext == LoadConfig \/ Repair

ConfigSpec == ConfigInit /\ [][ConfigNext]_cvars

-----------------------------------------------------------------------------
(* One run reports everything that is wrong: once the operator has         *)
(* repaired what it reported, nothing new turns up.  A rule that compares  *)
(* two keys takes one more run if one of the two was no usable value: the  *)
(* timing durations, and chunk_overlap against chunk_size.                 *)
OneRunReportsAll ==
    /\ attempts <= 2
    /\ attempts = 2 => hidden

(* A file never starts one service and breaks the other on a key both      *)
(* read: the center refuses it if and only if the RAG service reports a    *)
(* key that both insist on, or the center's upload bucket is missing.      *)
SameVerdict ==
    LET bucket == Value(file, <<"minio", "upload_bucket">>)
        decodable == Decodable(file)
    IN  phase # "edited" =>
          /\ ~ Validates(file) <=>
               \/ report \ PythonOnly # {} \/ ~ decodable
               \/ Absent(bucket) \/ bucket = [text |-> ""]
          /\ ~ decodable => report # {}

(* An accepted file has no leaf that is silently ignored: each is read, or *)
(* warned of, or the center's.                                             *)
NoKeyIgnored ==
    phase = "loaded" =>
      \A p \in DOMAIN file : p \in Known \/ p \in UnknownKeys(file) \/ p[1] = "go"

(* What the ingest consumer and the chunker rely on: a live job is neither *)
(* reclaimed nor its consumer deleted, and chunks advance.                 *)
AcceptedIsSafe ==
    phase = "loaded" =>
      /\ T(file, "job_timeout") + T(file, "watchdog_grace") < T(file, "min_idle")
      /\ T(file, "job_timeout") < T(file, "consumer_cleanup_idle")
      /\ Value(file, Overlap).int < Value(file, Size).int

(* Nothing that is wrong with a file goes unreported for long: not what a  *)
(* second run would find, not a rule that the accepted file breaks, not a  *)
(* key that nobody reads.                                                  *)
ReportIsComplete == OneRunReportsAll /\ NoKeyIgnored /\ AcceptedIsSafe
===============================================================================
