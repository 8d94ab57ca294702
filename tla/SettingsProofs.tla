---------------------------- MODULE SettingsProofs ----------------------------
(***************************************************************************)
(* Proofs about what depends on config.toml.  ConfigReader: for every TOML *)
(* file, what one start reports is all that is wrong with it, and both     *)
(* services agree on it.  ServiceStartup: for every set of files, sizes    *)
(* and migrations, and any number of changes and mishaps, what a process   *)
(* has passed still holds unless the setup was changed since it loaded its *)
(* file.  IngestJob: at the end.                                           *)
(***************************************************************************)
EXTENDS ServiceStartup, IngestJob, SequenceTheorems, TLAPS

-----------------------------------------------------------------------------
(* Paths of two and of three names, and their prefixes.                    *)

LEMMA One == ASSUME NEW S, NEW a \in S PROVE <<a>> \in Seq(S) /\ Len(<<a>>) = 1 /\ <<a>>[1] = a
  OBVIOUS
LEMMA Two ==
    ASSUME NEW S, NEW a \in S, NEW b \in S
    PROVE  <<a, b>> \in Seq(S) /\ Len(<<a, b>>) = 2 /\ <<a, b>>[1] = a /\ <<a, b>>[2] = b
  OBVIOUS
LEMMA Three ==
    ASSUME NEW S, NEW a \in S, NEW b \in S, NEW c \in S
    PROVE  /\ <<a, b, c>> \in Seq(S) /\ Len(<<a, b, c>>) = 3
           /\ <<a, b, c>>[1] = a /\ <<a, b, c>>[2] = b /\ <<a, b, c>>[3] = c
  OBVIOUS
LEMMA Appended ==
    ASSUME NEW S, NEW s \in Seq(S), NEW e \in S, NEW n, n = Len(s) + 1
    PROVE  /\ Append(s, e) \in Seq(S) /\ Len(Append(s, e)) = n
           /\ \A i \in 1 .. Len(s) : Append(s, e)[i] = s[i]
           /\ Append(s, e)[n] = e
  <1>1. Append(s, e) \in Seq(S)
    BY AppendProperties, Zenon
  <1>2. Len(Append(s, e)) = Len(s) + 1
    BY AppendProperties, Zenon
  <1>3. \A i \in 1 .. Len(s) : Append(s, e)[i] = s[i]
    BY AppendProperties
  <1>4. Append(s, e)[Len(s) + 1] = e
    BY AppendProperties, Zenon
  <1> QED BY <1>1, <1>2, <1>3, <1>4, Zenon

LEMMA AppendTwo ==
    ASSUME NEW a, NEW b
    PROVE  Append(<<a>>, b) = <<a, b>>
  <1> DEFINE S == {a, b}
             s == <<a>>
             t == <<a, b>>
             u == Append(<<a>>, b)
  <1>1. s \in Seq(S) /\ Len(s) = 1 /\ s[1] = a
    BY One
  <1>2. t \in Seq(S) /\ Len(t) = 2 /\ t[1] = a /\ t[2] = b
    BY Two
  <1>3. u \in Seq(S) /\ Len(u) = 2 /\ (\A i \in 1 .. Len(s) : u[i] = s[i]) /\ u[2] = b
    <2>1. 2 = Len(s) + 1 /\ b \in S
      BY <1>1
    <2> HIDE DEF S
    <2> QED BY <1>1, <2>1, Appended
  <1> HIDE DEF s, t, u, S
  <1>4. \A i \in 1 .. Len(t) : u[i] = t[i]
    BY <1>1, <1>2, <1>3
  <1>5. u = t
    BY <1>2, <1>3, <1>4, SeqEqual
  <1> QED BY <1>5 DEF s, t, u

LEMMA AppendThree ==
    ASSUME NEW a, NEW b, NEW c
    PROVE  Append(<<a, b>>, c) = <<a, b, c>>
  <1> DEFINE S == {a, b, c}
             s == <<a, b>>
             t == <<a, b, c>>
             u == Append(<<a, b>>, c)
  <1>1. s \in Seq(S) /\ Len(s) = 2 /\ s[1] = a /\ s[2] = b
    BY Two
  <1>2. t \in Seq(S) /\ Len(t) = 3 /\ t[1] = a /\ t[2] = b /\ t[3] = c
    BY Three
  <1>3. u \in Seq(S) /\ Len(u) = 3 /\ (\A i \in 1 .. Len(s) : u[i] = s[i]) /\ u[3] = c
    <2>1. 3 = Len(s) + 1 /\ c \in S
      BY <1>1
    <2> HIDE DEF S
    <2> QED BY <1>1, <2>1, Appended
  <1> HIDE DEF s, t, u, S
  <1>4. \A i \in 1 .. Len(t) : u[i] = t[i]
    BY <1>1, <1>2, <1>3
  <1>5. u = t
    BY <1>2, <1>3, <1>4, SeqEqual
  <1> QED BY <1>5 DEF s, t, u

LEMMA PrefixesOfTwo ==
    ASSUME NEW a, NEW b
    PROVE  Prefixes(<<a, b>>) = {<<a>>, <<a, b>>}
  <1> DEFINE S == {a, b}
             t == <<a, b>>
             s == <<a>>
  <1>1. s \in Seq(S) /\ Len(s) = 1 /\ s[1] = a
    BY One
  <1>2. t \in Seq(S) /\ Len(t) = 2 /\ t[1] = a /\ t[2] = b
    BY Two
  <1> HIDE DEF s, t, S
  <1>3. /\ SubSeq(t, 1, 1) \in Seq(S) /\ Len(SubSeq(t, 1, 1)) = 1 /\ SubSeq(t, 1, 1)[1] = a
        /\ SubSeq(t, 1, 2) \in Seq(S) /\ Len(SubSeq(t, 1, 2)) = 2
        /\ SubSeq(t, 1, 2)[1] = a /\ SubSeq(t, 1, 2)[2] = b
    BY <1>2, SubSeqProperties
  <1>4. SubSeq(t, 1, 1) = s
    <2>1. \A i \in 1 .. Len(s) : SubSeq(t, 1, 1)[i] = s[i]
      BY <1>1, <1>3
    <2> QED BY <1>1, <1>3, <2>1, SeqEqual
  <1>5. SubSeq(t, 1, 2) = t
    <2>1. \A i \in 1 .. Len(t) : SubSeq(t, 1, 2)[i] = t[i]
      BY <1>2, <1>3
    <2> QED BY <1>2, <1>3, <2>1, SeqEqual
  <1>6. 1 .. Len(t) = {1, 2}
    BY <1>2
  <1>7. Prefixes(t) = {SubSeq(t, 1, 1), SubSeq(t, 1, 2)}
    BY <1>6 DEF Prefixes
  <1> QED BY <1>4, <1>5, <1>7 DEF s, t

LEMMA PrefixesOfThree ==
    ASSUME NEW a, NEW b, NEW c
    PROVE  Prefixes(<<a, b, c>>) = {<<a>>, <<a, b>>, <<a, b, c>>}
  <1> DEFINE S == {a, b, c}
             t == <<a, b, c>>
             s == <<a, b>>
             r == <<a>>
  <1>0. r \in Seq(S) /\ Len(r) = 1 /\ r[1] = a
    BY One
  <1>1. s \in Seq(S) /\ Len(s) = 2 /\ s[1] = a /\ s[2] = b
    BY Two
  <1>2. t \in Seq(S) /\ Len(t) = 3 /\ t[1] = a /\ t[2] = b /\ t[3] = c
    BY Three
  <1> HIDE DEF r, s, t, S
  <1>3. /\ SubSeq(t, 1, 1) \in Seq(S) /\ Len(SubSeq(t, 1, 1)) = 1 /\ SubSeq(t, 1, 1)[1] = a
        /\ SubSeq(t, 1, 2) \in Seq(S) /\ Len(SubSeq(t, 1, 2)) = 2
        /\ SubSeq(t, 1, 2)[1] = a /\ SubSeq(t, 1, 2)[2] = b
    BY <1>2, SubSeqProperties
  <1>4. SubSeq(t, 1, 1) = r
    <2>1. \A i \in 1 .. Len(r) : SubSeq(t, 1, 1)[i] = r[i]
      BY <1>0, <1>3
    <2> QED BY <1>0, <1>3, <2>1, SeqEqual
  <1>5. SubSeq(t, 1, 2) = s
    <2>1. \A i \in 1 .. Len(s) : SubSeq(t, 1, 2)[i] = s[i]
      BY <1>1, <1>3
    <2> QED BY <1>1, <1>3, <2>1, SeqEqual
  <1>6. SubSeq(t, 1, 3) = t /\ 1 .. Len(t) = {1, 2, 3}
    BY <1>2, SubSeqFull
  <1>7. Prefixes(t) = {SubSeq(t, 1, 1), SubSeq(t, 1, 2), SubSeq(t, 1, 3)}
    BY <1>6 DEF Prefixes
  <1> QED BY <1>4, <1>5, <1>6, <1>7 DEF r, s, t

(* Its keys have two names, or three in the table rag.consumer. *)
Pair(p) == \E a, b : p = <<a, b>> /\ ~ (a = "rag" /\ b = "consumer")
Triple(p) == \E c : p = <<"rag", "consumer", c>>

LEMMA InOne == ASSUME NEW t, NEW S PROVE In(<<t>>, S) = {<<t, n>> : n \in S}
  BY AppendTwo DEF In

LEMMA InConsumer == ASSUME NEW S PROVE In(Consumer, S) = {<<"rag", "consumer", n>> : n \in S}
  BY AppendThree DEF In, Consumer

LEMMA KeysOf ==
    /\ Texts =
         {<<"minio", n>> : n \in {"url", "access_key", "secret_key", "ingestion_bucket"}}
         \cup {<<"sqlite", "dir">>, <<"qdrant", "url">>, <<"ollama", "url">>}
         \cup {<<"rag", n>> : n \in {"collection", "embedding_model", "llm_model",
                                     "query_instruction", "system_prompt"}}
         \cup {<<"redis", n>> : n \in {"host", "stream", "consumer_group", "status_stream",
                                       "status_consumer_group"}}
    /\ Timing = {<<"rag", "consumer", n>> : n \in {"job_timeout", "watchdog_grace", "min_idle",
                                                   "consumer_cleanup_idle"}}
    /\ Integers1 =
         {<<"rag", "consumer", n>> : n \in {"poison_threshold", "max_file_bytes"}}
         \cup {<<"rag_grpc", "port">>, <<"redis", "port">>}
         \cup {<<"rag", n>> : n \in {"top_k", "chunk_size", "embed_batch_size", "max_query_chars",
                                     "max_document_ids"}}
         \cup {<<"rag_grpc", "max_workers">>, <<"redis", "stream_max_len">>,
               <<"ingestion", "max_attempts">>}
  BY InOne, InConsumer DEF Texts, Timing, Integers1, Ports

LEMMA KnownShape == \A p \in Known : Pair(p) \/ Triple(p)
  <1>1. ASSUME NEW p \in Texts PROVE Pair(p)
    BY KeysOf DEF Pair
  <1>2. ASSUME NEW p \in Timing PROVE Triple(p)
    BY KeysOf DEF Triple
  <1>3. ASSUME NEW p \in Integers1 PROVE Pair(p) \/ Triple(p)
    BY KeysOf DEF Pair, Triple
  <1>4. ASSUME NEW p \in Durations \ Timing PROVE Pair(p) \/ Triple(p)
    BY DEF Durations, Pair, Triple
  <1>5. ASSUME NEW p \in OptionalTexts \cup {Dim, Overlap, Score, Effort, Extensions} PROVE Pair(p)
    BY DEF OptionalTexts, Dim, Overlap, Score, Effort, Extensions, Pair
  <1>6. Triple(Flag)
    BY DEF Flag, Triple
  <1> QED BY <1>1, <1>2, <1>3, <1>4, <1>5, <1>6 DEF Known

LEMMA KnownApart ==
    ASSUME NEW p \in Known, NEW q \in Known, p \in Prefixes(q)
    PROVE  p = q
  <1>1. CASE Pair(q)
    <2>1. PICK a, b : q = <<a, b>>
      BY <1>1 DEF Pair
    <2>2. p = <<a>> \/ p = q
      BY <2>1, PrefixesOfTwo
    <2>3. p # <<a>>
      BY KnownShape DEF Pair, Triple
    <2> QED BY <2>2, <2>3
  <1>2. CASE Triple(q)
    <2>1. PICK c : q = <<"rag", "consumer", c>>
      BY <1>2 DEF Triple
    <2>2. p = <<"rag">> \/ p = <<"rag", "consumer">> \/ p = q
      BY <2>1, PrefixesOfThree
    <2>3. p # <<"rag">> /\ p # <<"rag", "consumer">>
      BY KnownShape DEF Pair, Triple
    <2> QED BY <2>2, <2>3
  <1> QED BY <1>1, <1>2, KnownShape

(* What is wrong with a file: the value of a key, or an overlap that does  *)
(* not fit the chunk size.                                                 *)
Suits(p, v) ==
    /\ p \in Texts => NonEmpty(v)
    /\ p \in OptionalTexts => Absent(v) \/ IsText(v)
    /\ p \in Durations => PositiveDuration(v)
    /\ p \in Integers1 => IsInteger(v, 1, Highest(p))
    /\ p = Dim => IsInteger(v, 0, MaxInt)
    /\ p = Score => IsScore(v)
    /\ p = Effort => IsEffort(v)
    /\ p = Flag => Absent(v) \/ IsSwitch(v)
    /\ p = Extensions => AreExtensions(v)

FitsChunk(f) == IsInteger(Value(f, Overlap), 0, MaxOverlap(f))

LEMMA BadIff ==
    ASSUME NEW f
    PROVE  /\ BadKeys(f) \subseteq Known
           /\ \A p \in Known : p \in BadKeys(f) <=>
                ~ Suits(p, Value(f, p)) \/ (p = Overlap /\ ~ FitsChunk(f))
           /\ InvalidTiming(f) \subseteq BadKeys(f)
  <1>1. BadKeys(f) \subseteq Known
    BY SMT DEF BadKeys, Known
  <1>2. ASSUME NEW p \in Known PROVE p \in BadKeys(f) <=>
                ~ Suits(p, Value(f, p)) \/ (p = Overlap /\ ~ FitsChunk(f))
    BY SMT DEF BadKeys, FitsChunk, Suits
  <1>3. InvalidTiming(f) \subseteq BadKeys(f)
    BY SMT DEF InvalidTiming, BadKeys, Durations
  <1> QED BY <1>1, <1>2, <1>3

(* Durations, the overlap and the flag are of no other kind. *)
LEMMA Special ==
    /\ Timing \cap (Texts \cup OptionalTexts \cup Integers1
         \cup {Dim, Score, Effort, Flag, Extensions, Overlap, Size}) = {}
    /\ Overlap \notin Texts \cup OptionalTexts \cup Durations \cup Integers1
         \cup {Dim, Score, Effort, Flag, Extensions}
    /\ Flag \notin Texts \cup OptionalTexts \cup Durations \cup Integers1
         \cup {Dim, Score, Effort, Extensions}
    /\ Size \in Integers1
  <1> DEFINE Names == {"job_timeout", "watchdog_grace", "min_idle", "consumer_cleanup_idle"}
  <1>1. ASSUME NEW n \in Names
        PROVE  <<"rag", "consumer", n>> \notin Texts \cup OptionalTexts \cup {Dim, Score, Effort, Extensions, Overlap, Size}
    BY KeysOf, SMT DEF OptionalTexts, Dim, Score, Effort, Extensions, Overlap, Size
  <1>2. ASSUME NEW n \in Names
        PROVE  <<"rag", "consumer", n>> \notin Integers1 \cup {Flag}
    BY KeysOf, SMT DEF Flag
  <1>3. Timing = {<<"rag", "consumer", n>> : n \in Names}
    BY KeysOf, SMT
  <1> HIDE DEF Names
  <1>4. Timing \cap (Texts \cup OptionalTexts \cup Integers1 \cup {Dim, Score, Effort, Flag, Extensions, Overlap, Size}) = {}
    BY <1>1, <1>2, <1>3, SMT
  <1>5. Overlap \notin Texts \cup OptionalTexts
    BY KeysOf, SMT DEF OptionalTexts, Overlap
  <1>6. Overlap \notin Durations \cup Integers1 \cup {Dim, Score, Effort, Flag, Extensions}
    BY KeysOf, SMT DEF Durations, Dim, Score, Effort, Flag, Extensions, Overlap
  <1>7. Flag \notin Texts \cup OptionalTexts \cup {Dim, Score, Effort, Extensions}
    BY KeysOf, SMT DEF OptionalTexts, Dim, Score, Effort, Extensions, Flag
  <1>8. Flag \notin Durations \cup Integers1
    BY KeysOf, SMT DEF Durations, Flag
  <1>9. Size \in Integers1
    BY KeysOf, SMT DEF Size
  <1> QED BY <1>4, <1>5, <1>6, <1>7, <1>8, <1>9, SMT

(* None or a table suits no key but the two that may be left out. *)
LEMMA Missing ==
    ASSUME NEW p \in Known \ {Overlap}, NEW v, Tag(v) \in {{"none"}, {"table"}}, Suits(p, v)
    PROVE  p \in {Flag} \cup OptionalTexts /\ Absent(v)
  <1>1. /\ Tag(v) # {"int"} /\ Tag(v) # {"text"} /\ Tag(v) # {"digits", "unit"}
        /\ Tag(v) # {"dotted"} /\ Tag(v) # {"list"} /\ Tag(v) # {"tenths"} /\ Tag(v) # {"bool"}
    BY SMT
  <1>2. /\ ~ IsText(v) /\ ~ NonEmpty(v)
        /\ ~ PositiveDuration(v)
        /\ ~ AreExtensions(v)
        /\ ~ IsSwitch(v)
    <2>1. ~ IsText(v)
      BY <1>1, SMT DEF IsText
    <2>2. ~ NonEmpty(v)
      BY <2>1, Zenon DEF NonEmpty
    <2>3. ~ PositiveDuration(v)
      BY <1>1, SMT DEF PositiveDuration, IsDuration
    <2>4. ~ AreExtensions(v) /\ ~ IsSwitch(v)
      BY <1>1, Zenon DEF AreExtensions, IsSwitch
    <2> QED BY <2>1, <2>2, <2>3, <2>4
  <1>3. \A low, high : ~ IsInteger(v, low, high)
    BY <1>1, SMT DEF IsInteger
  <1>4. ~ IsScore(v)
    BY <1>1, SMT DEF IsScore, Tag
  <1>5. ~ IsEffort(v)
    BY <1>1, SMT DEF IsEffort, Tag
  <1>6. p \notin Texts \cup Durations \cup Integers1 \cup {Dim, Score, Effort, Extensions}
    <2>1. p \notin Texts \cup Durations \cup Integers1
      BY <1>2, <1>3, SMT DEF Suits
    <2>2. p \notin {Dim, Score, Effort, Extensions}
      BY <1>2, <1>3, <1>4, <1>5, SMT DEF Suits
    <2> QED BY <2>1, <2>2
  <1>7. p \in {Flag} \cup OptionalTexts
    BY <1>6, SMT DEF Known
  <1> QED BY <1>2, <1>7, SMT DEF Suits

LEMMA MissingOverlap == ASSUME NEW f, FitsChunk(f) PROVE Tag(Value(f, Overlap)) = {"int"}
  BY SMT DEF FitsChunk, IsInteger

-----------------------------------------------------------------------------
(* The four durations.                                                     *)

Job == <<"rag", "consumer", "job_timeout">>
Grace == <<"rag", "consumer", "watchdog_grace">>
Idle == <<"rag", "consumer", "min_idle">>
Cleanup == <<"rag", "consumer", "consumer_cleanup_idle">>

LEMMA Durations4 ==
    /\ Timing = {Job, Grace, Idle, Cleanup}
    /\ Job # Grace /\ Job # Idle /\ Job # Cleanup /\ Grace # Idle /\ Grace # Cleanup /\ Idle # Cleanup
    /\ In(Consumer, {"job_timeout", "watchdog_grace"}) = {Job, Grace}
    /\ \A f : /\ T(f, "job_timeout") = Seconds(Value(f, Job))
              /\ T(f, "watchdog_grace") = Seconds(Value(f, Grace))
              /\ T(f, "min_idle") = Seconds(Value(f, Idle))
              /\ T(f, "consumer_cleanup_idle") = Seconds(Value(f, Cleanup))
    /\ \A f : BadTiming(f) = {p \in {Idle} : Reclaimable(f)} \cup {p \in {Cleanup} : DeletedAtWork(f)}
  <1>1. Timing = {Job, Grace, Idle, Cleanup}
    BY KeysOf, SMT DEF Job, Grace, Idle, Cleanup
  <1>2. Job # Grace /\ Job # Idle /\ Job # Cleanup /\ Grace # Idle /\ Grace # Cleanup /\ Idle # Cleanup
    BY SMT DEF Job, Grace, Idle, Cleanup
  <1>3. In(Consumer, {"job_timeout", "watchdog_grace"}) = {Job, Grace}
    BY InConsumer, SMT DEF Job, Grace
  <1>4. \A n : Append(Consumer, n) = <<"rag", "consumer", n>>
    BY AppendThree DEF Consumer
  <1>5. \A f : /\ T(f, "job_timeout") = Seconds(Value(f, Job))
               /\ T(f, "watchdog_grace") = Seconds(Value(f, Grace))
               /\ T(f, "min_idle") = Seconds(Value(f, Idle))
               /\ T(f, "consumer_cleanup_idle") = Seconds(Value(f, Cleanup))
    BY <1>4 DEF T, Job, Grace, Idle, Cleanup
  <1>6. \A f : BadTiming(f) = {p \in {Idle} : Reclaimable(f)} \cup {p \in {Cleanup} : DeletedAtWork(f)}
    <2>1. Append(Consumer, "min_idle") = Idle /\ Append(Consumer, "consumer_cleanup_idle") = Cleanup
      BY <1>4 DEF Idle, Cleanup
    <2> QED BY <2>1, Zenon DEF BadTiming
  <1> QED BY <1>1, <1>2, <1>3, <1>5, <1>6

LEMMA PositiveSeconds ==
    ASSUME NEW v, PositiveDuration(v)
    PROVE  Seconds(v) \in Nat \ {0}
  <1>1. v.digits \in Nat /\ v.unit \in {"s", "m", "h"} /\ Seconds(v) > 0
    BY SMT DEF PositiveDuration, IsDuration
  <1>2. Seconds(v) \in Int
    BY <1>1, SMT DEF Seconds
  <1> QED BY <1>1, <1>2, SMT

(* A length of some seconds, in seconds. *)
LEMMA InSeconds ==
    ASSUME NEW n \in Nat \ {0}, n <= 999999
    PROVE  /\ PositiveDuration([digits |-> n, unit |-> "s"])
           /\ Seconds([digits |-> n, unit |-> "s"]) = n
  <1> DEFINE v == [digits |-> n, unit |-> "s"]
  <1>1. v.digits = n /\ v.unit = "s" /\ DOMAIN v = {"digits", "unit"}
    BY SMT
  <1> HIDE DEF v
  <1>2. Seconds(v) = n
    BY <1>1, SMT DEF Seconds
  <1>3. IsDuration(v)
    BY <1>1, SMT DEF IsDuration, Tag
  <1>4. PositiveDuration(v)
    BY <1>2, <1>3, SMT DEF PositiveDuration
  <1> QED BY <1>2, <1>4 DEF v

LEMMA TimingBad ==
    ASSUME NEW f, NEW p \in Timing
    PROVE  /\ p \in BadKeys(f) <=> ~ PositiveDuration(Value(f, p))
           /\ p \in BadKeys(f) <=> p \in InvalidTiming(f)
  <1>1. p \in Durations /\ p \in Known
    BY SMT DEF Durations, Known
  <1>2. p \in BadKeys(f) <=> ~ PositiveDuration(Value(f, p))
    <2>1. p # Overlap
      BY Special, SMT
    <2>2. p \notin Texts /\ p \notin OptionalTexts /\ p \notin Integers1
          /\ p # Dim /\ p # Score /\ p # Effort /\ p # Flag /\ p # Extensions
      BY Special, SMT
    <2>3. Suits(p, Value(f, p)) <=> PositiveDuration(Value(f, p))
      BY <1>1, <2>2, Zenon DEF Suits
    <2> QED BY <1>1, <2>1, <2>3, BadIff
  <1> QED BY <1>2 DEF InvalidTiming

-----------------------------------------------------------------------------
(* The repository's file has every key that is set from it.                *)

LEMMA SoundFile ==
    ASSUME NEW p \in Known, p # Flag, p # Overlap, ReaderAssumption
    PROVE  /\ p \in DOMAIN Sound /\ Value(Sound, p) = Sound[p] /\ Suits(p, Sound[p])
  <1>1. BadKeys(Sound) = {}
    BY SMT DEF ReaderAssumption, Problems
  <1>2. Suits(p, Value(Sound, p))
    BY <1>1, BadIff, Zenon
  <1>3. p \in DOMAIN Sound
    <2>1. CASE p \in OptionalTexts
      BY <2>1, SMT DEF ReaderAssumption
    <2>2. CASE p \notin OptionalTexts
      <3>1. SUFFICES ASSUME p \notin DOMAIN Sound PROVE FALSE
        OBVIOUS
      <3>2. Value(Sound, p) \in {[none |-> TRUE], [table |-> TRUE]}
        BY <3>1, SMT DEF Value
      <3>3. Tag(Value(Sound, p)) \in {{"none"}, {"table"}}
        BY <3>2, SMT DEF Tag
      <3> QED BY <1>2, <2>2, <3>3, Missing
    <2> QED BY <2>1, <2>2
  <1>4. Value(Sound, p) = Sound[p]
    BY <1>3, SMT DEF Value
  <1> QED BY <1>2, <1>3, <1>4

-----------------------------------------------------------------------------
(* A repair: it sets the keys of the report and leaves the others alone.   *)

LEMMA Own == ASSUME NEW p \in Known PROVE p \in Prefixes(p)
  <1>1. CASE Pair(p)
    BY <1>1, PrefixesOfTwo DEF Pair
  <1>2. CASE Triple(p)
    BY <1>2, PrefixesOfThree DEF Triple
  <1> QED BY <1>1, <1>2, KnownShape

LEMMA Domain ==
    ASSUME NEW f, NEW problems
    PROVE  /\ DOMAIN Repaired(f, problems) =
                (DOMAIN f \ UNION {InTheWay(f, p) : p \in problems}) \cup problems
           /\ \A q \in DOMAIN Repaired(f, problems) :
                /\ q \in problems => Repaired(f, problems)[q] = Suited(f, q)
                /\ q \notin problems => Repaired(f, problems)[q] = f[q]
  BY SMT DEF Repaired

LEMMA LeftAlone ==
    ASSUME NEW f, NEW problems, NEW q \in DOMAIN Repaired(f, problems), q \notin problems
    PROVE  Repaired(f, problems)[q] = f[q]
  BY Domain

LEMMA IsFunction ==
    ASSUME NEW f, NEW problems, NEW g, g = Repaired(f, problems)
    PROVE  g = [q \in DOMAIN g |-> g[q]]
  BY SMT DEF Repaired

LEMMA InDomain ==
    ASSUME NEW f, NEW problems, NEW p
    PROVE  p \in DOMAIN Repaired(f, problems) <=>
             \/ p \in DOMAIN f /\ \A q \in problems : p \notin InTheWay(f, q)
             \/ p \in problems
  <1> DEFINE D == DOMAIN Repaired(f, problems)
             W == UNION {InTheWay(f, q) : q \in problems}
  <1>1. D = (DOMAIN f \ W) \cup problems
    BY Domain
  <1>2. p \in W <=> \E q \in problems : p \in InTheWay(f, q)
    BY SMT
  <1> HIDE DEF W, D
  <1>3. p \in D <=> (p \in DOMAIN f /\ p \notin W) \/ p \in problems
    BY <1>1, SMT
  <1> QED BY <1>2, <1>3, Zenon DEF D

LEMMA ValueIn == ASSUME NEW f, NEW p \in DOMAIN f PROVE Value(f, p) = f[p]
  BY SMT DEF Value

LEMMA ValueOut ==
    ASSUME NEW f, NEW p, p \notin DOMAIN f, \A q \in DOMAIN f : p \notin Prefixes(q)
    PROVE  Value(f, p) = [none |-> TRUE]
  BY SMT DEF Value

LEMMA SetKeys ==
    ASSUME NEW f, NEW problems, NEW p \in problems
    PROVE  Value(Repaired(f, problems), p) = Suited(f, p)
  <1>1. p \in DOMAIN Repaired(f, problems)
    BY InDomain, Zenon
  <1>2. Repaired(f, problems)[p] = Suited(f, p)
    BY <1>1, Domain, Zenon
  <1> QED BY <1>1, <1>2, ValueIn, Zenon

LEMMA OtherKeys ==
    ASSUME NEW f, NEW problems \in SUBSET Known, BadKeys(f) \subseteq problems,
           NEW p \in Known \ problems
    PROVE  Value(Repaired(f, problems), p) = Value(f, p)
  <1> DEFINE g == Repaired(f, problems)
  <1>1. Suits(p, Value(f, p)) /\ (p = Overlap => FitsChunk(f))
    BY BadIff, Zenon
  <1>2. CASE p \in DOMAIN f
    <2>1. \A q \in problems : p \notin InTheWay(f, q)
      BY KnownApart, SMT DEF InTheWay
    <2>3. p \in DOMAIN g
      BY <1>2, <2>1, InDomain, Zenon
    <2>4. g[p] = f[p]
      BY <2>3, Domain, Zenon
    <2> QED BY <1>2, <2>3, <2>4, ValueIn, Zenon
  <1>3. CASE p \notin DOMAIN f
    <2>1. Value(f, p) \in {[none |-> TRUE], [table |-> TRUE]}
      BY <1>3, SMT DEF Value
    <2>2. Tag(Value(f, p)) \in {{"none"}, {"table"}}
      BY <2>1, SMT DEF Tag
    <2>3. p # Overlap
      <3>1. SUFFICES ASSUME p = Overlap PROVE FALSE
        OBVIOUS
      <3>2. Tag(Value(f, p)) = {"int"}
        BY <1>1, <3>1, MissingOverlap
      <3> QED BY <2>2, <3>2, SMT
    <2>4. Absent(Value(f, p))
      BY <1>1, <2>2, <2>3, Missing
    <2>5. Value(f, p) = [none |-> TRUE]
      BY <2>1, <2>4, SMT DEF Absent, Tag
    <2>6. \A q \in DOMAIN f : p \notin Prefixes(q)
      <3>1. SUFFICES ASSUME NEW q \in DOMAIN f, p \in Prefixes(q) PROVE FALSE
        OBVIOUS
      <3>2. Value(f, p) = [table |-> TRUE]
        BY <1>3, <3>1, SMT DEF Value
      <3>3. DOMAIN Value(f, p) = {"table"}
        BY <3>2, SMT
      <3> QED BY <2>5, <3>3, SMT
    <2>7. \A q \in problems : p \notin Prefixes(q)
      BY KnownApart
    <2>8. p \notin DOMAIN g /\ \A q \in DOMAIN g : p \notin Prefixes(q)
      BY <1>3, <2>6, <2>7, InDomain, Zenon
    <2> QED BY <2>5, <2>8, ValueOut, Zenon
  <1> QED BY <1>2, <1>3

LEMMA SetToSound ==
    ASSUME NEW f, NEW p, p # Overlap, p # Flag, p \in Timing => p \in InvalidTiming(f)
    PROVE  Suited(f, p) = Sound[p]
  BY SMT DEF Suited

LEMMA SetToSum ==
    ASSUME NEW f, NEW p \in Timing \ InvalidTiming(f)
    PROVE  Suited(f, p) = [digits |-> T(f, "job_timeout") + T(f, "watchdog_grace") + 1, unit |-> "s"]
  BY Special, SMT DEF Suited

LEMMA Sum ==
    ASSUME NEW f, IsShort(f), InvalidTiming(f) = {}
    PROVE  /\ T(f, "job_timeout") \in Nat \ {0} /\ T(f, "watchdog_grace") \in Nat \ {0}
           /\ T(f, "min_idle") \in Nat \ {0} /\ T(f, "consumer_cleanup_idle") \in Nat \ {0}
           /\ T(f, "job_timeout") + T(f, "watchdog_grace") + 1 <= 999999
  <1>1. \A p \in Timing : PositiveDuration(Value(f, p))
    BY SMT DEF InvalidTiming
  <1>2. \A p \in Timing : Seconds(Value(f, p)) \in Nat \ {0}
    BY <1>1, PositiveSeconds
  <1>3. Seconds(Value(f, Job)) < 500000 /\ Seconds(Value(f, Grace)) < 500000
    <2>1. Brief(Value(f, Job)) /\ Brief(Value(f, Grace))
      BY Durations4, SMT DEF IsShort
    <2>2. PositiveDuration(Value(f, Job)) /\ PositiveDuration(Value(f, Grace))
      BY <1>1, Durations4, SMT
    <2> QED BY <2>1, <2>2, SMT DEF Brief
  <1> QED BY <1>2, <1>3, Durations4, SMT

(* What is reported is a key; a duration is reported for its value or for  *)
(* a rule.                                                                 *)
LEMMA Reported ==
    ASSUME NEW f
    PROVE  /\ Problems(f) \subseteq Known /\ BadKeys(f) \subseteq Problems(f)
           /\ \A p \in Problems(f) \ BadKeys(f) :
                InvalidTiming(f) = {} /\ p \in BadTiming(f) /\ p \in {Idle, Cleanup}
  <1>1. BadTiming(f) \subseteq {Idle, Cleanup} /\ {Idle, Cleanup} \subseteq Known
    BY Durations4, SMT DEF Known, Durations
  <1>2. BadKeys(f) \subseteq Known
    BY BadIff
  <1> QED BY <1>1, <1>2, SMT DEF Problems

LEMMA StillToml ==
    ASSUME ReaderAssumption, NEW f, IsToml(f), IsShort(f)
    PROVE  IsToml(Repaired(f, Problems(f)))
  <1> DEFINE P == Problems(f)
             g == Repaired(f, P)
  <1>1. P \subseteq Known
    BY Reported
  <1>2. g = [q \in DOMAIN g |-> g[q]]
    BY IsFunction
  <1>3. ASSUME NEW p \in DOMAIN g PROVE Prefixes(p) \cap DOMAIN g = {p}
    <2>1. p \in Prefixes(p)
      <3>1. CASE p \in P
        BY <1>1, <3>1, Own
      <3>2. CASE p \notin P
        <4>1. p \in DOMAIN f
          BY <1>3, <3>2, InDomain, Zenon
        <4> QED BY <4>1, SMT DEF IsToml
      <3> QED BY <3>1, <3>2
    <2>2. ASSUME NEW q \in DOMAIN g, q \in Prefixes(p), q # p PROVE FALSE
      <3>1. CASE p \in P /\ q \in P
        BY <1>1, <2>2, <3>1, KnownApart
      <3>2. CASE p \in P /\ q \notin P
        <4>1. q \in DOMAIN f /\ q \notin InTheWay(f, p)
          BY <2>2, <3>2, InDomain, Zenon
        <4> QED BY <2>2, <4>1, SMT DEF InTheWay
      <3>3. CASE p \notin P /\ q \in P
        <4>1. p \in DOMAIN f /\ p \notin InTheWay(f, q)
          BY <1>3, <3>3, InDomain, Zenon
        <4> QED BY <2>2, <4>1, SMT DEF InTheWay
      <3>4. CASE p \notin P /\ q \notin P
        <4>1. p \in DOMAIN f /\ q \in DOMAIN f
          BY <1>3, <2>2, <3>4, InDomain, Zenon
        <4> QED BY <2>2, <4>1, SMT DEF IsToml
      <3> QED BY <3>1, <3>2, <3>3, <3>4
    <2> HIDE DEF g
    <2> QED BY <1>3, <2>1, <2>2, SMT
  <1>4. ASSUME NEW p \in DOMAIN g, DOMAIN g[p] = {"int"} PROVE g[p].int \in Int
    <2>1. CASE p \in P
      <3>1. g[p] = Suited(f, p)
        BY <1>4, <2>1, Domain, Zenon
      <3>2. CASE p = Overlap
        <4>1. g[p] = [int |-> 0]
          BY <3>1, <3>2, SMT DEF Suited
        <4> HIDE DEF g
        <4> QED BY <4>1, SMT
      <3>3. CASE p = Flag
        <4>1. g[p] = [bool |-> FALSE]
          BY <3>1, <3>3, Special, SMT DEF Suited
        <4>2. DOMAIN g[p] = {"bool"}
          BY <4>1, SMT
        <4> HIDE DEF g
        <4> QED BY <1>4, <4>2, SMT
      <3>4. CASE p \in Timing \ InvalidTiming(f)
        <4>1. DOMAIN g[p] = {"digits", "unit"}
          BY <3>1, <3>4, SetToSum, SMT
        <4> HIDE DEF g
        <4> QED BY <1>4, <4>1, SMT
      <3>5. CASE p # Overlap /\ p # Flag /\ p \notin Timing \ InvalidTiming(f)
        <4>1. g[p] = Sound[p]
          BY <3>1, <3>5, SetToSound
        <4>2. p \in DOMAIN Sound
          BY <1>1, <2>1, <3>5, SoundFile
        <4>3. IsToml(Sound)
          BY SMT DEF ReaderAssumption
        <4>4. DOMAIN Sound[p] = {"int"} => Sound[p].int \in Int
          BY <4>2, <4>3, SMT DEF IsToml
        <4> HIDE DEF g
        <4> QED BY <1>4, <4>1, <4>4, Zenon
      <3> QED BY <3>2, <3>3, <3>4, <3>5
    <2>2. CASE p \notin P
      <3>1. p \in DOMAIN f /\ g[p] = f[p]
        <4>1. p \in DOMAIN f
          BY <1>4, <2>2, InDomain, Zenon
        <4>3. g[p] = f[p]
          BY <2>2, LeftAlone
        <4> QED BY <4>1, <4>3
      <3>2. DOMAIN f[p] = {"int"} => f[p].int \in Int
        BY <3>1, SMT DEF IsToml
      <3> HIDE DEF g
      <3> QED BY <1>4, <3>1, <3>2, Zenon
    <2> QED BY <2>1, <2>2
  <1> HIDE DEF g
  <1>5. IsToml(g)
    BY <1>2, <1>3, <1>4, Zenon DEF IsToml
  <1> QED BY <1>5 DEF g

(* A reported key gets a value that its reader accepts. *)
LEMMA SuitedSuits ==
    ASSUME ReaderAssumption, NEW f, IsShort(f), NEW p \in Problems(f)
    PROVE  Suits(p, Suited(f, p))
  <1>1. p \in Known
    BY Reported, SMT
  <1>2. CASE p = Overlap
    <2>1. p \notin Texts /\ p \notin OptionalTexts /\ p \notin Durations /\ p \notin Integers1
          /\ p # Dim /\ p # Score /\ p # Effort /\ p # Flag /\ p # Extensions
      BY <1>2, Special, SMT
    <2> QED BY <2>1, Zenon DEF Suits
  <1>3. CASE p = Flag
    <2>1. p \notin Texts /\ p \notin OptionalTexts /\ p \notin Durations /\ p \notin Integers1
          /\ p # Dim /\ p # Score /\ p # Effort /\ p # Extensions /\ p # Overlap
      BY <1>3, Special, SMT
    <2>2. Suited(f, p) = [bool |-> FALSE]
      BY <1>3, <2>1, SMT DEF Suited
    <2>3. IsSwitch(Suited(f, p))
      BY <2>2, SMT DEF IsSwitch, Tag
    <2> QED BY <2>1, <2>3, Zenon DEF Suits
  <1>4. CASE p \in Timing \ InvalidTiming(f)
    <2>1. InvalidTiming(f) = {}
      BY <1>4, TimingBad, Reported, SMT
    <2>2. PositiveDuration(Suited(f, p))
      <3> DEFINE n == T(f, "job_timeout") + T(f, "watchdog_grace") + 1
      <3>1. n \in Nat \ {0} /\ n <= 999999
        BY <2>1, Sum, SMT
      <3> QED BY <1>4, <3>1, SetToSum, InSeconds
    <2>3. p \notin Texts /\ p \notin OptionalTexts /\ p \notin Integers1
          /\ p # Dim /\ p # Score /\ p # Effort /\ p # Flag /\ p # Extensions
      BY <1>4, Special, SMT
    <2> QED BY <2>2, <2>3, Zenon DEF Suits
  <1>5. CASE p # Overlap /\ p # Flag /\ p \notin Timing \ InvalidTiming(f)
    BY <1>1, <1>5, SetToSound, SoundFile, Zenon
  <1> QED BY <1>2, <1>3, <1>4, <1>5

LEMMA StillShort ==
    ASSUME ReaderAssumption, NEW f, IsShort(f)
    PROVE  IsShort(Repaired(f, Problems(f)))
  <1> DEFINE g == Repaired(f, Problems(f))
  <1>1. SUFFICES ASSUME NEW p \in {Job, Grace} PROVE Brief(Value(g, p))
    BY Durations4, Zenon DEF IsShort
  <1>2. p \in Timing /\ p \in Known /\ p # Overlap /\ p # Flag
    BY Durations4, Special, SMT DEF Known, Durations
  <1>3. CASE p \in Problems(f)
    <2>1. p \in BadKeys(f)
      BY <1>3, Reported, Durations4, SMT
    <2>2. Value(g, p) = Sound[p]
      <3>1. p \in InvalidTiming(f)
        BY <1>2, <2>1, TimingBad, Zenon
      <3>2. Suited(f, p) = Sound[p]
        BY <1>2, <3>1, SetToSound, Zenon
      <3> QED BY <1>3, <3>2, SetKeys, Zenon
    <2>3. Value(g, p) = Value(Sound, p)
      BY <1>2, <2>2, SoundFile, Zenon
    <2>4. IsShort(Sound)
      BY SMT DEF ReaderAssumption
    <2>5. Brief(Value(Sound, p))
      BY <2>4, Durations4, Zenon DEF IsShort
    <2> QED BY <2>3, <2>5, Zenon
  <1>4. CASE p \notin Problems(f)
    <2>1. Value(g, p) = Value(f, p)
      BY <1>2, <1>4, Reported, OtherKeys
    <2>2. Brief(Value(f, p))
      BY Durations4, Zenon DEF IsShort
    <2> QED BY <2>1, <2>2, Zenon
  <1> QED BY <1>3, <1>4

(* After a repair every key has a value of its own that is accepted; only  *)
(* the overlap may not fit a chunk size that was repaired too.             *)
LEMMA OnlyOverlap ==
    ASSUME ReaderAssumption, NEW f, IsToml(f), IsShort(f)
    PROVE  /\ BadKeys(Repaired(f, Problems(f))) \subseteq {Overlap}
           /\ InvalidTiming(Repaired(f, Problems(f))) = {}
           /\ Size \notin Problems(f) => BadKeys(Repaired(f, Problems(f))) = {}
  <1> DEFINE P == Problems(f)
             g == Repaired(f, P)
  <1>1. P \in SUBSET Known /\ BadKeys(f) \subseteq P
    BY Reported
  <1>2. ASSUME NEW p \in Known PROVE Suits(p, Value(g, p))
    <2>1. CASE p \in P
      BY <2>1, SetKeys, SuitedSuits
    <2>2. CASE p \notin P
      <3>1. Value(g, p) = Value(f, p)
        BY <1>1, <2>2, OtherKeys
      <3>2. Suits(p, Value(f, p))
        BY <1>1, <2>2, BadIff, Zenon
      <3> QED BY <3>1, <3>2, Zenon
    <2> QED BY <2>1, <2>2
  <1>3. BadKeys(g) \subseteq {Overlap}
    <2>1. SUFFICES ASSUME NEW p \in BadKeys(g), p # Overlap PROVE FALSE
      BY Zenon
    <2>2. p \in Known
      BY BadIff, Zenon
    <2> QED BY <1>2, <2>1, <2>2, BadIff, Zenon
  <1>4. InvalidTiming(g) = {}
    BY <1>3, BadIff, Special, SMT DEF InvalidTiming
  <1>5. ASSUME Size \notin P PROVE FitsChunk(g)
    <2>1. Overlap \in Known /\ Size \in Known
      BY Special, SMT DEF Known
    <2>2. Value(g, Size) = Value(f, Size)
      BY <1>1, <1>5, <2>1, OtherKeys
    <2>3. MaxOverlap(g) = MaxOverlap(f)
      BY <2>2, Zenon DEF MaxOverlap, ChunkSize
    <2>4. CASE Overlap \notin P
      <3>1. Value(g, Overlap) = Value(f, Overlap)
        BY <1>1, <2>1, <2>4, OtherKeys
      <3>2. FitsChunk(f)
        BY <1>1, <2>1, <2>4, BadIff, Zenon
      <3> QED BY <2>3, <3>1, <3>2, Zenon DEF FitsChunk
    <2>5. CASE Overlap \in P
      <3>1. Value(g, Overlap) = Suited(f, Overlap)
        BY <2>5, SetKeys
      <3>2. Value(g, Overlap) = [int |-> 0]
        BY <3>1, SMT DEF Suited
      <3>3. MaxOverlap(f) \in Int /\ MaxOverlap(f) >= 0
        <4>1. Suits(Size, Value(f, Size))
          BY <1>1, <1>5, <2>1, BadIff, Zenon
        <4>2. IsInteger(Value(f, Size), 1, Highest(Size))
          BY <4>1, Special, Zenon DEF Suits
        <4>3. Tag(Value(f, Size)) = {"int"}
          BY <4>2, Zenon DEF IsInteger
        <4>4. Size \in DOMAIN f
          <5>1. SUFFICES ASSUME Size \notin DOMAIN f PROVE FALSE
            OBVIOUS
          <5>2. Value(f, Size) \in {[none |-> TRUE], [table |-> TRUE]}
            BY <5>1, SMT DEF Value
          <5> QED BY <4>3, <5>2, SMT DEF Tag
        <4>5. Value(f, Size).int \in Int
          BY <4>3, <4>4, ValueIn, SMT DEF IsToml, Tag
        <4> QED BY <4>2, <4>3, <4>5, SMT DEF MaxOverlap, ChunkSize, IsInteger
      <3>4. IsInteger([int |-> 0], 0, MaxOverlap(f))
        BY <3>3, SMT DEF IsInteger, Tag
      <3> QED BY <2>3, <3>2, <3>4, Zenon DEF FitsChunk
    <2> QED BY <2>4, <2>5
  <1>6. ASSUME Size \notin P PROVE BadKeys(g) = {}
    <2>1. Overlap \in Known
      BY SMT DEF Known
    <2>2. Overlap \notin BadKeys(g)
      BY <1>2, <1>5, <1>6, <2>1, BadIff, Zenon
    <2> HIDE DEF g
    <2> QED BY <1>3, <2>2, SMT
  <1> QED BY <1>3, <1>4, <1>6

(* If the durations are usable, one repair also settles what relates them. *)
LEMMA TimingSettled ==
    ASSUME NEW f, IsShort(f), InvalidTiming(f) = {}
    PROVE  BadTiming(Repaired(f, Problems(f))) = {}
  <1> DEFINE P == Problems(f)
             g == Repaired(f, P)
             need == T(f, "job_timeout") + T(f, "watchdog_grace")
  <1>1. P \in SUBSET Known /\ BadKeys(f) \subseteq P /\ {Job, Grace, Idle, Cleanup} \subseteq Known
    BY Reported, Durations4, SMT DEF Known, Durations
  <1>2. \A p \in {Job, Grace, Idle, Cleanup} : p \notin BadKeys(f)
    BY TimingBad, Durations4, Zenon
  <1>3. Job \notin P /\ Grace \notin P /\ (Idle \in P <=> Reclaimable(f))
        /\ (Cleanup \in P <=> DeletedAtWork(f))
    BY <1>2, Durations4, SMT DEF Problems
  <1>4. /\ T(g, "job_timeout") = T(f, "job_timeout")
        /\ T(g, "watchdog_grace") = T(f, "watchdog_grace")
    <2>1. Value(g, Job) = Value(f, Job) /\ Value(g, Grace) = Value(f, Grace)
      BY <1>1, <1>3, OtherKeys
    <2> QED BY <2>1, Durations4, Zenon
  <1>5. ASSUME NEW p \in {Idle, Cleanup}, p \in P PROVE Seconds(Value(g, p)) = need + 1
    <2>1. p \in Timing \ InvalidTiming(f)
      BY <1>5, Durations4, SMT
    <2>2. Value(g, p) = [digits |-> need + 1, unit |-> "s"]
      BY <1>5, <2>1, SetKeys, SetToSum, Zenon
    <2>3. need + 1 \in Nat \ {0} /\ need + 1 <= 999999
      BY Sum, SMT
    <2> QED BY <2>2, <2>3, InSeconds
  <1>6. ASSUME NEW p \in {Idle, Cleanup}, p \notin P PROVE Value(g, p) = Value(f, p)
    BY <1>1, <1>6, OtherKeys
  <1>7. need \in Nat /\ need >= T(f, "job_timeout") /\ T(f, "job_timeout") \in Nat
    BY Sum, SMT
  <1>8. ~ Reclaimable(g)
    <2>1. CASE Idle \in P
      <3>1. T(g, "min_idle") = need + 1
        BY <1>5, <2>1, Durations4, Zenon
      <3> QED BY <1>4, <1>7, <3>1, SMT DEF Reclaimable
    <2>2. CASE Idle \notin P
      <3>1. T(g, "min_idle") = T(f, "min_idle")
        BY <1>6, <2>2, Durations4, Zenon
      <3> QED BY <1>3, <1>4, <2>2, <3>1, Zenon DEF Reclaimable
    <2> QED BY <2>1, <2>2
  <1>9. ~ DeletedAtWork(g)
    <2>1. CASE Cleanup \in P
      <3>1. T(g, "consumer_cleanup_idle") = need + 1
        BY <1>5, <2>1, Durations4, Zenon
      <3> QED BY <1>4, <1>7, <3>1, SMT DEF DeletedAtWork
    <2>2. CASE Cleanup \notin P
      <3>1. T(g, "consumer_cleanup_idle") = T(f, "consumer_cleanup_idle")
        BY <1>6, <2>2, Durations4, Zenon
      <3> QED BY <1>3, <1>4, <2>2, <3>1, Zenon DEF DeletedAtWork
    <2> QED BY <2>1, <2>2
  <1> HIDE DEF g
  <1>10. BadTiming(g) = {}
    BY <1>8, <1>9, Durations4, SMT
  <1> QED BY <1>10 DEF g

LEMMA AllSettled ==
    ASSUME ReaderAssumption, NEW f, IsToml(f), IsShort(f),
           InvalidTiming(f) = {}, Size \notin Problems(f)
    PROVE  Problems(Repaired(f, Problems(f))) = {}
  <1> DEFINE g == Repaired(f, Problems(f))
  <1>1. BadKeys(g) = {} /\ BadTiming(g) = {}
    BY OnlyOverlap, TimingSettled
  <1> HIDE DEF g
  <1>2. Problems(g) = {}
    BY <1>1, SMT DEF Problems
  <1> QED BY <1>2 DEF g

LEMMA SecondRun ==
    ASSUME ReaderAssumption, NEW f, IsToml(f), IsShort(f), BadKeys(f) \subseteq {Overlap}
    PROVE  Problems(Repaired(f, Problems(f))) = {}
  <1>1. InvalidTiming(f) = {}
    BY BadIff, Special, SMT DEF InvalidTiming
  <1>2. Size \notin Problems(f)
    <2>1. Size # Overlap /\ Size \notin Timing
      BY Special, SMT
    <2> QED BY <2>1, Reported, Durations4, SMT
  <1> QED BY <1>1, <1>2, AllSettled

-----------------------------------------------------------------------------
(* An accepted file.                                                       *)

LEMMA KeyThere ==
    ASSUME NEW f, BadKeys(f) = {}, NEW p \in Known, p # Flag, p \notin OptionalTexts
    PROVE  p \in DOMAIN f
  <1>1. SUFFICES ASSUME p \notin DOMAIN f PROVE FALSE
    OBVIOUS
  <1>2. Value(f, p) \in {[none |-> TRUE], [table |-> TRUE]}
    BY <1>1, SMT DEF Value
  <1>3. Tag(Value(f, p)) \in {{"none"}, {"table"}}
    BY <1>2, SMT DEF Tag
  <1>4. Suits(p, Value(f, p)) /\ (p = Overlap => FitsChunk(f))
    BY BadIff, Zenon
  <1>5. p # Overlap
    <2>1. SUFFICES ASSUME p = Overlap PROVE FALSE
      OBVIOUS
    <2>2. Tag(Value(f, p)) = {"int"}
      BY <1>4, <2>1, MissingOverlap
    <2> QED BY <1>3, <2>2, SMT
  <1> QED BY <1>3, <1>4, <1>5, Missing

(* No table of an accepted file is a leaf, and no key a table. *)
LEMMA NoTableLeaf ==
    ASSUME NEW f, IsToml(f), BadKeys(f) = {}
    PROVE  DOMAIN f \cap KnownTables = {}
  <1>1. SUFFICES ASSUME NEW p \in DOMAIN f, NEW k \in Known, p \in Prefixes(k), p # k PROVE FALSE
    BY Zenon DEF KnownTables
  <1>2. \A q \in Known : p \in Prefixes(q) /\ q # p => q \notin DOMAIN f
    BY SMT DEF IsToml
  <1>3. CASE k # Flag /\ k \notin OptionalTexts
    BY <1>1, <1>2, <1>3, KeyThere
  <1>4. CASE k = Flag
    <2>1. p \in {<<"rag">>, <<"rag", "consumer">>}
      BY <1>1, <1>4, PrefixesOfThree, SMT DEF Flag
    <2>2. p \in Prefixes(Job) /\ p # Job
      BY <2>1, PrefixesOfThree, SMT DEF Job
    <2>3. Job \in Known /\ Job # Flag /\ Job \notin OptionalTexts
      BY Durations4, Special, SMT DEF Known, Durations
    <2> QED BY <1>2, <2>2, <2>3, KeyThere
  <1>5. CASE k \in OptionalTexts
    <2> DEFINE url == <<"minio", "url">>
    <2>1. k = <<"minio", "upload_bucket">>
      BY <1>5, SMT DEF OptionalTexts
    <2>2. p = <<"minio">>
      BY <1>1, <2>1, PrefixesOfTwo, SMT
    <2>3. p \in Prefixes(url) /\ p # url
      BY <2>2, PrefixesOfTwo, SMT
    <2>4. url \in Texts
      BY KeysOf, SMT
    <2>5. url # Flag /\ url \notin OptionalTexts
      BY SMT DEF Flag, OptionalTexts
    <2>6. url \in Known
      BY <2>4, Zenon DEF Known
    <2> HIDE DEF url
    <2> QED BY <1>2, <2>3, <2>5, <2>6, KeyThere
  <1> QED BY <1>3, <1>4, <1>5

LEMMA NoKeyTable ==
    ASSUME NEW f, IsToml(f), BadKeys(f) = {}, NEW p \in DOMAIN f, p \notin Known
    PROVE  Prefixes(p) \cap Known = {}
  <1>1. SUFFICES ASSUME NEW k \in Known, k \in Prefixes(p) PROVE FALSE
    BY Zenon
  <1>2. k \notin DOMAIN f
    BY <1>1, SMT DEF IsToml
  <1>3. Value(f, k) = [table |-> TRUE]
    BY <1>1, <1>2, SMT DEF Value
  <1>4. Tag(Value(f, k)) = {"table"}
    BY <1>3, SMT DEF Tag
  <1>5. Suits(k, Value(f, k)) /\ (k = Overlap => FitsChunk(f))
    BY BadIff, Zenon
  <1>6. k # Overlap
    <2>1. SUFFICES ASSUME k = Overlap PROVE FALSE
      OBVIOUS
    <2>2. Tag(Value(f, k)) = {"int"}
      BY <1>5, <2>1, MissingOverlap
    <2> QED BY <1>4, <2>2, SMT
  <1>7. Absent(Value(f, k))
    BY <1>4, <1>5, <1>6, Missing
  <1> QED BY <1>4, <1>7, SMT DEF Absent

LEMMA ChunksAdvance ==
    ASSUME NEW f, IsToml(f), BadKeys(f) = {}
    PROVE  /\ Tag(Value(f, Size)) = {"int"} /\ Value(f, Size).int \in Int
           /\ IsInteger(Value(f, Size), 1, Highest(Size))
           /\ Tag(Value(f, Overlap)) = {"int"} /\ Value(f, Overlap).int \in Int
           /\ 0 <= Value(f, Overlap).int /\ Value(f, Overlap).int < Value(f, Size).int
  <1>1. /\ Size \in Known /\ Size # Flag /\ Size \notin OptionalTexts
        /\ Overlap \in Known /\ Overlap # Flag /\ Overlap \notin OptionalTexts
    <2>1. Size # Flag /\ Size \notin OptionalTexts
      BY SMT DEF Size, Flag, OptionalTexts
    <2> QED BY <2>1, Special, SMT DEF Known
  <1>2. Size \in DOMAIN f /\ Overlap \in DOMAIN f
    BY <1>1, KeyThere
  <1>3. IsInteger(Value(f, Size), 1, Highest(Size))
    BY <1>1, BadIff, Special, Zenon DEF Suits
  <1>4. FitsChunk(f)
    BY <1>1, BadIff, Zenon
  <1>5. Tag(Value(f, Size)) = {"int"} /\ 1 <= Value(f, Size).int
    BY <1>3, SMT DEF IsInteger
  <1>6. Tag(Value(f, Overlap)) = {"int"} /\ 0 <= Value(f, Overlap).int
        /\ Value(f, Overlap).int <= MaxOverlap(f)
    BY <1>4, SMT DEF FitsChunk, IsInteger
  <1>7. Value(f, Size).int \in Int /\ Value(f, Overlap).int \in Int
    BY <1>2, <1>5, <1>6, ValueIn, SMT DEF IsToml, Tag
  <1>8. MaxOverlap(f) = Value(f, Size).int - 1
    BY <1>5, <1>7, SMT DEF MaxOverlap, ChunkSize
  <1> QED BY <1>3, <1>5, <1>6, <1>7, <1>8, SMT

-----------------------------------------------------------------------------
(* The operator: what a refused start still leaves to be found.            *)

Reading(f) == IsToml(f) /\ IsShort(f)

Verdict ==
    phase # "edited" => report = Problems(file) /\ (phase = "loaded" <=> report = {})

FirstRepair ==
    /\ attempts = 0 => phase # "refused"
    /\ phase = "edited" /\ attempts = 1 /\ ~ hidden => Problems(file) = {}
    /\ phase = "edited" /\ attempts = 1 => BadKeys(file) \subseteq {Overlap}
    /\ phase = "refused" /\ attempts = 1 /\ ~ hidden => InvalidTiming(file) = {} /\ Size \notin report

SecondRepair ==
    /\ attempts = 2 => hidden
    /\ phase = "edited" /\ attempts = 2 => Problems(file) = {}
    /\ phase = "refused" /\ attempts = 2 => BadKeys(file) \subseteq {Overlap}

CInv ==
    /\ Reading(file)
    /\ phase \in {"edited", "loaded", "refused"} /\ attempts \in {0, 1, 2}
    /\ Verdict
    /\ FirstRepair
    /\ SecondRepair

LEMMA LoadKeeps ==
    ASSUME ReaderAssumption, CInv, LoadConfig
    PROVE  CInv'
  <1>1. Reading(file)'
    BY Zenon DEF CInv, LoadConfig, Reading
  <1>2. phase = "edited" /\ report' = Problems(file) /\ file' = file
    BY Zenon DEF LoadConfig
  <1>3. CASE report' = {}
    <2>1. phase' = "loaded" /\ attempts' = attempts /\ (hidden => hidden')
      <3>1. phase' = "loaded" /\ attempts' = attempts
        BY <1>3, SMT DEF LoadConfig
      <3>2. hidden => hidden'
        BY Zenon DEF LoadConfig
      <3> QED BY <3>1, <3>2
    <2>2. phase' \in {"edited", "loaded", "refused"} /\ attempts' \in {0, 1, 2}
      BY <2>1, SMT DEF CInv
    <2>3. Verdict'
      BY <1>2, <1>3, <2>1, SMT DEF Verdict
    <2>4. FirstRepair'
      BY <2>1, SMT DEF FirstRepair
    <2>5. SecondRepair'
      BY <2>1, SMT DEF SecondRepair, CInv
    <2> QED BY <1>1, <2>2, <2>3, <2>4, <2>5 DEF CInv
  <1>4. CASE report' # {}
    <2>1. phase' = "refused" /\ attempts' = attempts + 1
      BY <1>4, SMT DEF LoadConfig
    <2>2. attempts \in {0, 1}
      BY <1>2, <1>4, SMT DEF CInv, SecondRepair
    <2>3. phase' \in {"edited", "loaded", "refused"} /\ attempts' \in {0, 1, 2}
      BY <2>1, <2>2, SMT
    <2>4. Verdict'
      BY <1>2, <1>4, <2>1, SMT DEF Verdict
    <2>5. hidden' <=> hidden \/ InvalidTiming(file) # {} \/ Size \in report'
      BY Zenon DEF LoadConfig
    <2>6. FirstRepair'
      BY <1>2, <2>1, <2>2, <2>5, SMT DEF FirstRepair
    <2>7. SecondRepair'
      <3>1. attempts = 1 => hidden
        BY <1>2, <1>4, SMT DEF CInv, FirstRepair
      <3>2. attempts = 1 => BadKeys(file) \subseteq {Overlap}
        BY <1>2, SMT DEF CInv, FirstRepair
      <3> QED BY <1>2, <2>1, <2>2, <2>5, <3>1, <3>2, SMT DEF SecondRepair
    <2> QED BY <1>1, <2>3, <2>4, <2>6, <2>7 DEF CInv
  <1> QED BY <1>3, <1>4

LEMMA RepairKeeps ==
    ASSUME ReaderAssumption, CInv, Repair
    PROVE  CInv'
  <1>1. /\ phase = "refused" /\ phase' = "edited" /\ file' = Repaired(file, report)
        /\ attempts' = attempts /\ hidden' = hidden
    BY Zenon DEF Repair
  <1>2. report = Problems(file) /\ IsToml(file) /\ IsShort(file)
    BY <1>1, SMT DEF CInv, Verdict, Reading
  <1>3. file' = Repaired(file, Problems(file))
    BY <1>1, <1>2, Zenon
  <1>4. Reading(file)'
    BY <1>2, <1>3, StillToml, StillShort DEF Reading
  <1>5. phase' \in {"edited", "loaded", "refused"} /\ attempts' \in {1, 2}
    BY <1>1, SMT DEF CInv, FirstRepair
  <1>6. Verdict'
    BY <1>1, SMT DEF Verdict
  <1>7. BadKeys(file') \subseteq {Overlap}
    BY <1>2, <1>3, OnlyOverlap
  <1>8. ASSUME attempts = 1, ~ hidden PROVE Problems(file') = {}
    <2>1. InvalidTiming(file) = {} /\ Size \notin Problems(file)
      BY <1>1, <1>2, <1>8, SMT DEF CInv, FirstRepair
    <2> QED BY <1>2, <1>3, <2>1, AllSettled
  <1>9. ASSUME attempts = 2 PROVE Problems(file') = {}
    <2>1. BadKeys(file) \subseteq {Overlap}
      BY <1>1, <1>9, SMT DEF CInv, SecondRepair
    <2> QED BY <1>2, <1>3, <2>1, SecondRun
  <1>10. FirstRepair'
    BY <1>1, <1>5, <1>7, <1>8, SMT DEF FirstRepair
  <1>11. SecondRepair'
    BY <1>1, <1>9, SMT DEF SecondRepair, CInv
  <1> QED BY <1>4, <1>5, <1>6, <1>10, <1>11 DEF CInv

LEMMA ReaderInvariance == ConfigSpec => []CInv
  <1>1. ConfigInit => CInv
    <2>1. SUFFICES ASSUME ConfigInit PROVE CInv
      OBVIOUS
    <2>2. Reading(file)
      BY <2>1, ReaderAssumption, SMT DEF ConfigInit, ReaderAssumption, Reading
    <2> QED BY <2>1, <2>2, SMT DEF CInv, ConfigInit, Verdict, FirstRepair, SecondRepair
  <1>2. CInv /\ [ConfigNext]_cvars => CInv'
    <2>1. SUFFICES ASSUME CInv, [ConfigNext]_cvars PROVE CInv'
      OBVIOUS
    <2>2. CASE LoadConfig
      BY <2>1, <2>2, ReaderAssumption, LoadKeeps
    <2>3. CASE Repair
      BY <2>1, <2>3, ReaderAssumption, RepairKeeps
    <2>4. CASE UNCHANGED cvars
      BY <2>1, <2>4, SMT DEF cvars, CInv, Reading, Verdict, FirstRepair, SecondRepair
    <2> QED BY <2>1, <2>2, <2>3, <2>4 DEF ConfigNext
  <1> QED BY <1>1, <1>2, PTL DEF ConfigSpec

LEMMA LoadedFile ==
    ASSUME NEW f, Problems(f) = {}
    PROVE  BadKeys(f) = {} /\ InvalidTiming(f) = {} /\ BadTiming(f) = {}
  <1>1. BadKeys(f) = {}
    BY SMT DEF Problems
  <1>2. InvalidTiming(f) = {}
    BY <1>1, BadIff, SMT
  <1> QED BY <1>1, <1>2, SMT DEF Problems

(* One run of load() reports everything that is wrong with a file, up to   *)
(* the rules that compare two keys of which one is unusable; an accepted   *)
(* file has no leaf that is ignored, and keeps the relations the consumer  *)
(* and the chunker rest on: whatever TOML files there are.                 *)
THEOREM CompleteReports == ConfigSpec => []ReportIsComplete
  <1>1. CInv => ReportIsComplete
    <2>1. SUFFICES ASSUME CInv PROVE ReportIsComplete
      OBVIOUS
    <2>2. OneRunReportsAll
      BY <2>1, SMT DEF CInv, SecondRepair, OneRunReportsAll
    <2>3. phase = "loaded" => /\ IsToml(file) /\ IsShort(file) /\ BadKeys(file) = {}
                              /\ InvalidTiming(file) = {} /\ BadTiming(file) = {}
      <3>1. phase = "loaded" => Problems(file) = {}
        BY <2>1, SMT DEF CInv, Verdict
      <3> QED BY <2>1, <3>1, LoadedFile DEF CInv, Reading
    <2>4. NoKeyIgnored
      <3>1. SUFFICES ASSUME phase = "loaded", NEW p \in DOMAIN file, p \notin Known, p[1] # "go"
                     PROVE  p \in UnknownKeys(file)
        BY Zenon DEF NoKeyIgnored
      <3>2. Prefixes(p) \cap Known = {}
        BY <2>3, <3>1, NoKeyTable
      <3>3. p \notin KnownTables
        BY <2>3, <3>1, NoTableLeaf, SMT
      <3> QED BY <3>1, <3>2, <3>3, Zenon DEF UnknownKeys
    <2>5. AcceptedIsSafe
      <3>1. SUFFICES ASSUME phase = "loaded"
                     PROVE  /\ T(file, "job_timeout") + T(file, "watchdog_grace") < T(file, "min_idle")
                            /\ T(file, "job_timeout") < T(file, "consumer_cleanup_idle")
                            /\ Value(file, Overlap).int < Value(file, Size).int
        BY Zenon DEF AcceptedIsSafe
      <3>2. ~ Reclaimable(file) /\ ~ DeletedAtWork(file)
        BY <2>3, <3>1, Durations4, SMT
      <3>3. Value(file, Overlap).int < Value(file, Size).int
        BY <2>3, <3>1, ChunksAdvance
      <3>4. /\ T(file, "job_timeout") \in Nat /\ T(file, "watchdog_grace") \in Nat
            /\ T(file, "min_idle") \in Nat /\ T(file, "consumer_cleanup_idle") \in Nat
        BY <2>3, <3>1, Sum, SMT
      <3> QED BY <3>2, <3>3, <3>4, SMT DEF Reclaimable, DeletedAtWork
    <2> QED BY <2>2, <2>4, <2>5 DEF ReportIsComplete
  <1> QED BY <1>1, ReaderInvariance, PTL

-----------------------------------------------------------------------------
(* The center's reading of the same file.                                  *)

LEMMA PythonKeys ==
    /\ Durations \cap PythonOnly = {} /\ OptionalTexts \cap PythonOnly = {}
    /\ Flag \notin PythonOnly /\ Extensions \notin PythonOnly
    /\ Dim \in PythonOnly /\ Overlap \in PythonOnly /\ Score \in PythonOnly /\ Effort \in PythonOnly
  <1> DEFINE Short == {<<"sqlite", "dir">>, <<"qdrant", "url">>, <<"ollama", "url">>,
                       <<"redis", "consumer_group">>, Dim, Size, Overlap, Score, Effort,
                       <<"rag_grpc", "max_workers">>, <<"rag", "consumer", "max_file_bytes">>}
             Names == {"llm_model", "query_instruction", "system_prompt", "top_k",
                       "embed_batch_size", "max_query_chars", "max_document_ids"}
             Rag == {<<"rag", n>> : n \in Names}
  <1>1. PythonOnly = Short \cup Rag
    BY InOne, SMT DEF PythonOnly
  <1>2. Durations = {Job, Grace, Idle, Cleanup}
                    \cup {<<"rag", "consumer", "recovery_interval">>, <<"rag", "call_timeout">>}
    BY Durations4, SMT DEF Durations
  <1>3. ASSUME NEW p \in {Job, Grace, Idle, Cleanup, <<"rag", "consumer", "recovery_interval">>}
        PROVE  p \notin Short /\ p \notin Rag
    BY SMT DEF Job, Grace, Idle, Cleanup, Dim, Size, Overlap, Score, Effort
  <1>4. ASSUME NEW p \in {<<"rag", "call_timeout">>, <<"minio", "upload_bucket">>, Flag, Extensions}
        PROVE  p \notin Short /\ p \notin Rag
    BY SMT DEF Flag, Extensions, Dim, Size, Overlap, Score, Effort
  <1>5. {Dim, Overlap, Score, Effort} \subseteq Short
    BY Zenon
  <1> HIDE DEF Short, Rag
  <1>6. Durations \cap PythonOnly = {}
    BY <1>1, <1>2, <1>3, <1>4, SMT
  <1>7. OptionalTexts \cap PythonOnly = {} /\ Flag \notin PythonOnly /\ Extensions \notin PythonOnly
    BY <1>1, <1>4, SMT DEF OptionalTexts
  <1>8. Dim \in PythonOnly /\ Overlap \in PythonOnly /\ Score \in PythonOnly /\ Effort \in PythonOnly
    BY <1>1, <1>5, SMT
  <1> QED BY <1>6, <1>7, <1>8

LEMMA GoTimes ==
    ASSUME NEW f, InvalidTiming(f) = {}
    PROVE  /\ GoSeconds(f, "job_timeout") = T(f, "job_timeout")
           /\ GoSeconds(f, "watchdog_grace") = T(f, "watchdog_grace")
           /\ GoSeconds(f, "min_idle") = T(f, "min_idle")
           /\ GoSeconds(f, "consumer_cleanup_idle") = T(f, "consumer_cleanup_idle")
  <1>1. ASSUME NEW n, Append(Consumer, n) \in Timing PROVE GoSeconds(f, n) = T(f, n)
    <2>1. PositiveDuration(Value(f, Append(Consumer, n)))
      BY <1>1, SMT DEF InvalidTiming
    <2>2. ~ Absent(Value(f, Append(Consumer, n)))
      BY <2>1, SMT DEF PositiveDuration, IsDuration, Absent
    <2> QED BY <2>2, Zenon DEF GoSeconds, T
  <1>2. \A n : Append(Consumer, n) = <<"rag", "consumer", n>>
    BY AppendThree DEF Consumer
  <1>3. \A n \in {"job_timeout", "watchdog_grace", "min_idle", "consumer_cleanup_idle"} :
          Append(Consumer, n) \in Timing
    BY <1>2, KeysOf, SMT
  <1> QED BY <1>1, <1>3

(* What both check alike once the types are right. *)
Filled(v) == ~ Absent(v) /\ v # [text |-> ""]

LEMMA CenterTexts ==
    ASSUME NEW f, Validates(f)
    PROVE  \A p \in (Texts \cup OptionalTexts) \ PythonOnly : Filled(Value(f, p))
  BY Zenon DEF Validates, Filled

LEMMA CenterRefuses ==
    ASSUME NEW f, Decodable(f), \A p \in OptionalTexts : Filled(Value(f, p))
    PROVE  Validates(f) <=> Problems(f) \ PythonOnly = {}
  <1> DEFINE Rules == /\ T(f, "job_timeout") + T(f, "watchdog_grace") < T(f, "min_idle")
                      /\ T(f, "consumer_cleanup_idle") > T(f, "job_timeout")
  <1>1. ASSUME NEW p \in Texts \cup OptionalTexts
        PROVE  p \in Texts => (Filled(Value(f, p)) <=> NonEmpty(Value(f, p)))
    <2>1. Absent(Value(f, p)) \/ IsText(Value(f, p))
      BY SMT DEF Decodable
    <2>2. IsText(Value(f, p)) => ~ Absent(Value(f, p))
      <3>1. \A t \in {{"text"}, {"digits", "unit"}, {"dotted"}} : t # {"none"}
        BY SMT
      <3> QED BY <3>1, SMT DEF IsText, Absent
    <2> QED BY <2>1, <2>2, Zenon DEF NonEmpty, Filled
  <1>2. ASSUME InvalidTiming(f) = {} PROVE BadTiming(f) = {} <=> Rules
    <2>1. /\ T(f, "job_timeout") \in Nat /\ T(f, "watchdog_grace") \in Nat
          /\ T(f, "min_idle") \in Nat /\ T(f, "consumer_cleanup_idle") \in Nat
      <3>1. \A p \in Timing : PositiveDuration(Value(f, p))
        BY <1>2, SMT DEF InvalidTiming
      <3>2. \A p \in Timing : Seconds(Value(f, p)) \in Nat \ {0}
        BY <3>1, PositiveSeconds
      <3> QED BY <3>2, Durations4, SMT
    <2>2. BadTiming(f) = {} <=> ~ Reclaimable(f) /\ ~ DeletedAtWork(f)
      BY Durations4, SMT
    <2> QED BY <2>1, <2>2, SMT DEF Reclaimable, DeletedAtWork
  <1>3. ASSUME Validates(f) PROVE Problems(f) \ PythonOnly = {}
    <2>1. \A p \in Durations : PositiveDuration(Value(f, p))
      BY <1>3, Zenon DEF Validates
    <2>2. InvalidTiming(f) = {}
      BY <2>1, SMT DEF InvalidTiming, Durations
    <2>3. Rules
      <3>1. /\ GoSeconds(f, "job_timeout") + GoSeconds(f, "watchdog_grace") < GoSeconds(f, "min_idle")
            /\ GoSeconds(f, "consumer_cleanup_idle") > GoSeconds(f, "job_timeout")
        BY <1>3, Zenon DEF Validates
      <3> QED BY <2>2, <3>1, GoTimes
    <2>4. BadTiming(f) = {}
      BY <1>2, <2>2, <2>3
    <2>5. \A p \in Texts \ PythonOnly : NonEmpty(Value(f, p))
      BY <1>1, <1>3, CenterTexts, Zenon
    <2>6. \A p \in OptionalTexts : Absent(Value(f, p)) \/ IsText(Value(f, p))
      BY Zenon DEF Decodable
    <2>7. \A p \in Integers1 \ PythonOnly : IsInteger(Value(f, p), 1, Highest(p))
      BY <1>3, Zenon DEF Validates
    <2>8. AreExtensions(Value(f, Extensions))
      BY <1>3, Zenon DEF Validates
    <2>9. Absent(Value(f, Flag)) \/ IsSwitch(Value(f, Flag))
      BY SMT DEF Decodable, Absent, IsSwitch
    <2>10. BadKeys(f) \ PythonOnly = {}
      BY <2>1, <2>5, <2>6, <2>7, <2>8, <2>9, PythonKeys, SMT DEF BadKeys
    <2> QED BY <2>4, <2>10, SMT DEF Problems
  <1>4. ASSUME Problems(f) \ PythonOnly = {} PROVE Validates(f)
    <2>1. BadKeys(f) \ PythonOnly = {}
      BY <1>4, SMT DEF Problems
    <2>2. \A p \in Durations : PositiveDuration(Value(f, p))
      BY <2>1, PythonKeys, SMT DEF BadKeys
    <2>3. InvalidTiming(f) = {}
      BY <2>2, SMT DEF InvalidTiming, Durations
    <2>4. BadTiming(f) = {}
      <3>1. BadTiming(f) \subseteq Durations
        BY Durations4, SMT DEF Durations
      <3>2. BadTiming(f) \subseteq Problems(f)
        BY <2>3, SMT DEF Problems
      <3> QED BY <1>4, <3>1, <3>2, PythonKeys, SMT
    <2>5. Rules
      BY <1>2, <2>3, <2>4
    <2>6. \A p \in Texts \ PythonOnly : NonEmpty(Value(f, p))
      BY <2>1, SMT DEF BadKeys
    <2>7. \A p \in (Texts \cup OptionalTexts) \ PythonOnly :
            ~ Absent(Value(f, p)) /\ Value(f, p) # [text |-> ""]
      BY <1>1, <2>6, Zenon DEF Filled
    <2>8. \A p \in Integers1 \ PythonOnly : IsInteger(Value(f, p), 1, Highest(p))
      BY <2>1, SMT DEF BadKeys
    <2>9. AreExtensions(Value(f, Extensions))
      BY <2>1, PythonKeys, SMT DEF BadKeys
    <2>10. /\ GoSeconds(f, "job_timeout") + GoSeconds(f, "watchdog_grace") < GoSeconds(f, "min_idle")
           /\ GoSeconds(f, "consumer_cleanup_idle") > GoSeconds(f, "job_timeout")
      BY <2>3, <2>5, GoTimes
    <2> QED BY <2>2, <2>7, <2>8, <2>9, <2>10, Zenon DEF Validates
  <1> QED BY <1>3, <1>4

LEMMA AcceptedDecodes ==
    ASSUME ReaderAssumption, NEW f, IsToml(f), BadKeys(f) = {}
    PROVE  Decodable(f)
  <1>1. \A p \in Known : Suits(p, Value(f, p))
    BY BadIff, Zenon
  <1>2. DOMAIN f \cap KnownTables = {}
    BY NoTableLeaf
  <1>3. \A p \in Texts \cup OptionalTexts : Absent(Value(f, p)) \/ IsText(Value(f, p))
    BY <1>1, Zenon DEF Suits, NonEmpty, Known
  <1>4. IsText(Value(f, Effort))
    <2>1. IsEffort(Value(f, Effort))
      BY <1>1, Zenon DEF Suits, Known
    <2> QED BY <2>1, SMT DEF IsEffort, IsText, Tag
  <1>5. \A p \in Durations : IsDuration(Value(f, p))
    BY <1>1, SMT DEF Suits, Known, PositiveDuration
  <1>6. MaxInt \in Nat /\ MaxPort \in Int /\ MaxPort <= MaxInt
    BY SMT DEF ReaderAssumption
  <1>7. ASSUME NEW p \in Integers1 PROVE IsInteger(Value(f, p), -MaxInt - 1, MaxInt)
    <2>1. IsInteger(Value(f, p), 1, Highest(p)) /\ p \in Known
      BY <1>1, SMT DEF Suits, Known
    <2>2. p # Flag /\ p \notin OptionalTexts
      BY KeysOf, Special, SMT DEF OptionalTexts
    <2>3. p \in DOMAIN f
      BY <2>1, <2>2, KeyThere
    <2>4. Tag(Value(f, p)) = {"int"}
      BY <2>1, SMT DEF IsInteger
    <2>5. Value(f, p).int \in Int
      BY <2>3, <2>4, ValueIn, SMT DEF IsToml, Tag
    <2>6. Highest(p) \in Int /\ Highest(p) <= MaxInt
      BY <1>6, SMT DEF Highest
    <2> QED BY <1>6, <2>1, <2>5, <2>6, SMT DEF IsInteger
  <1>8. IsInteger(Value(f, Dim), -MaxInt - 1, MaxInt)
    <2>1. IsInteger(Value(f, Dim), 0, MaxInt) /\ Dim \in Known
      BY <1>1, SMT DEF Suits, Known
    <2>2. Dim # Flag /\ Dim \notin OptionalTexts
      BY SMT DEF Dim, Flag, OptionalTexts
    <2>3. Dim \in DOMAIN f
      BY <2>1, <2>2, KeyThere
    <2>4. Tag(Value(f, Dim)) = {"int"}
      BY <2>1, SMT DEF IsInteger
    <2>5. Value(f, Dim).int \in Int
      BY <2>3, <2>4, ValueIn, SMT DEF IsToml, Tag
    <2> QED BY <1>6, <2>1, <2>5, SMT DEF IsInteger
  <1>9. IsInteger(Value(f, Overlap), -MaxInt - 1, MaxInt)
    <2>1. Highest(Size) \in Int /\ Highest(Size) <= MaxInt
      BY <1>6, SMT DEF Highest
    <2> QED BY <1>6, <2>1, ChunksAdvance, SMT DEF IsInteger
  <1>10. Tag(Value(f, Score)) \in {{"none"}, {"int"}, {"tenths"}}
    <2>1. IsScore(Value(f, Score))
      BY <1>1, Zenon DEF Suits, Known
    <2> QED BY <2>1, SMT DEF IsScore, Tag
  <1>11. Tag(Value(f, Flag)) \in {{"none"}, {"bool"}}
    <2>1. Absent(Value(f, Flag)) \/ IsSwitch(Value(f, Flag))
      BY <1>1, Zenon DEF Suits, Known
    <2> QED BY <2>1, SMT DEF Absent, IsSwitch
  <1>12. Tag(Value(f, Extensions)) = {"list"}
    <2>1. AreExtensions(Value(f, Extensions))
      BY <1>1, Zenon DEF Suits, Known
    <2> QED BY <2>1, Zenon DEF AreExtensions
  <1> QED BY <1>2, <1>3, <1>4, <1>5, <1>7, <1>8, <1>9, <1>10, <1>11, <1>12, SMT DEF Decodable

(* The two services give a file the same verdict on the keys both insist   *)
(* on, and the center decodes every file the RAG service accepts: for      *)
(* every TOML file, not the edits of the bounded run.                      *)
THEOREM VerdictsAgree == ConfigSpec => []SameVerdict
  <1>1. CInv => SameVerdict
    <2> DEFINE key == <<"minio", "upload_bucket">>
               bucket == Value(file, key)
               given == Filled(bucket)
    <2>1. SUFFICES ASSUME CInv, phase # "edited"
                   PROVE  /\ ~ Validates(file) <=>
                               \/ report \ PythonOnly # {} \/ ~ Decodable(file)
                               \/ ~ given
                          /\ ~ Decodable(file) => report # {}
      BY Zenon DEF SameVerdict, Filled
    <2>2. report = Problems(file) /\ IsToml(file)
      BY <2>1, SMT DEF CInv, Verdict, Reading
    <2>3. OptionalTexts = {key} /\ key \notin PythonOnly
      BY PythonKeys, SMT DEF OptionalTexts
    <2> HIDE DEF key
    <2>4. Validates(file) => Decodable(file) /\ given
      <3>1. Validates(file) => Decodable(file)
        BY Zenon DEF Validates
      <3> QED BY <2>3, <3>1, CenterTexts, SMT
    <2>5. ASSUME Decodable(file), given PROVE Validates(file) <=> Problems(file) \ PythonOnly = {}
      BY <2>3, <2>5, CenterRefuses, SMT
    <2>6. Problems(file) = {} => Decodable(file)
      BY <2>2, ReaderAssumption, LoadedFile, AcceptedDecodes
    <2> QED BY <2>2, <2>4, <2>5, <2>6
  <1> QED BY <1>1, ReaderInvariance, PTL

-----------------------------------------------------------------------------

(***************************************************************************)
(* The processes that start.  What a process has seen since it loaded the  *)
(* file is still so.                                                       *)
(***************************************************************************)
Looking == {"inspect", "create", "index", "createIndex", "done"}
Past == Looking \cup {"table", "collection", "model", "running"}

(* It goes by the file as it is. *)
ReadsFile ==
    /\ read \in [Process -> [dim : Nat, marker : BOOLEAN]]
    /\ \A p \in Process : seen[p] /\ step[p] \in Past =>
         file \in Valid /\ read[p] = [dim |-> DimOf(file), marker |-> MarkerOf(file)]

(* A migration left of it what it passed: another one can only have added  *)
(* what was missing.                                                       *)
Passed(m) ==
    /\ step[m] \notin {"model", "running", "exit1", "exit2"}
    /\ step[m] \in Looking \cup {"collection"} => table = "current"
    /\ step[m] \in Looking => read[m].dim # 0
    /\ seen[m] /\ step[m] \in {"index", "createIndex", "done"} =>
         collection = [size |-> read[m].dim, shape |-> "cosine"]
    /\ step[m] = "createIndex" => payloadIndex # "other"
    /\ seen[m] /\ step[m] = "done" => payloadIndex = "keyword"

(* A service goes by the setup as it is. *)
Checked(s) ==
    /\ step[s] \notin {"table", "done", "failed"} \cup (Looking \ {"collection"})
    /\ seen[s] /\ step[s] \in {"model", "running"} /\ s = "server" => setup.key
    /\ seen[s] /\ step[s] = "running" =>
         ModelFits(read[s].dim) \/ (s = "consumer" /\ read[s].marker)
    /\ seen[s] /\ step[s] = "exit2" => ~ SetupFits(s)

SInv ==
    /\ StartupTypeOK /\ ReadsFile
    /\ file \in Configs /\ changes \in Nat
    /\ \A m \in Migration : Passed(m)
    /\ \A s \in Service : Checked(s)
-----------------------------------------------------------------------------
(* What a valid file says about the size is a number.                      *)
LEMMA ValidSizes == \A f \in Valid : DimOf(f) \in Nat /\ f \in Configs
  <1> SUFFICES ASSUME NEW f \in Valid PROVE DimOf(f) \in Nat /\ f \in Configs
    OBVIOUS
  <1>1. f \in Configs /\ Problems(f) = {}
    BY DEF Valid
  <1>2. Dim \notin BadKeys(f)
    BY <1>1 DEF Problems
  <1>3. IsInteger(Value(f, Dim), 0, MaxInt)
    BY <1>2 DEF BadKeys
  <1>4. DOMAIN Value(f, Dim) = {"int"} /\ 0 <= Value(f, Dim).int
    BY <1>3 DEF IsInteger, Tag
  <1>5. Dim \in DOMAIN f /\ Value(f, Dim) = f[Dim]
    BY <1>4 DEF Value
  <1>6. Dim \in Known
    BY DEF Known
  <1> QED BY <1>1, <1>4, <1>5, <1>6, StartupAssumption DEF DimOf

LEMMA StartupStarts == StartupInit => SInv
  <1> SUFFICES ASSUME StartupInit PROVE SInv
    OBVIOUS
  <1>1. StartupTypeOK
    <2>1. /\ collection \in [size : Nat, shape : {"cosine", "other"}]
          /\ collection.size = 0 => payloadIndex = "none"
      <3>1. CASE collection = NoCollection
        BY <3>1 DEF NoCollection, StartupInit
      <3>2. CASE collection \in [size : Sizes, shape : {"cosine", "other"}]
        <4>1. collection.size \in Nat \ {0}
          BY <3>2, StartupAssumption
        <4>2. collection = [size |-> collection.size, shape |-> collection.shape]
              /\ collection.shape \in {"cosine", "other"}
          BY <3>2
        <4> QED BY <4>1, <4>2
      <3> QED BY <3>1, <3>2 DEF StartupInit
    <2>2. payloadIndex \in {"none", "keyword", "other"} /\ table \in {"none", "old", "current"}
      BY DEF StartupInit
    <2>3. setup \in [model : Sizes \cup {0}, key : BOOLEAN, skip : BOOLEAN]
      BY DEF StartupInit
    <2>4. down \subseteq {"qdrant", "ollama"}
      BY DEF StartupInit
    <2>5. /\ step \in [Process -> {"off"}] /\ seen \in [Process -> BOOLEAN]
          /\ \A p \in Process : step[p] = "off"
      BY DEF StartupInit
    <2> QED BY <2>1, <2>2, <2>3, <2>4, <2>5 DEF StartupTypeOK, Process
  <1>2. ReadsFile
    BY DEF StartupInit, ReadsFile
  <1>3. \A m \in Migration : Passed(m)
    BY DEF StartupInit, Passed, Looking, Process
  <1>4. \A s \in Service : Checked(s)
    BY DEF StartupInit, Checked, Looking, Process
  <1> QED BY <1>1, <1>2, <1>3, <1>4 DEF SInv, StartupInit

Steps == {"off", "config", "table", "collection", "inspect", "create", "index",
          "createIndex", "done", "failed", "model", "running", "exit1", "exit2"}

(* One process goes on, by a file and a setup that stay; only the table    *)
(* and the index may gain something.                                       *)
LEMMA GoesOnTo ==
    ASSUME SInv, NEW p \in Process, NEW t \in Steps, To(p, t),
           UNCHANGED <<collection, read, rest>>,
           table' = table \/ (table # "old" /\ table' = "current"),
           payloadIndex' = payloadIndex \/ (collection.size # 0 /\ payloadIndex' = "keyword"),
           t \in Past /\ seen[p] => step[p] \in Past,
           p \in Migration => Passed(p)',
           p \in Service => Checked(p)' /\ t # "failed"
    PROVE  SInv'
  <1> USE DEF rest
  <1>1. /\ step \in [Process -> Steps] /\ step'[p] = t
        /\ \A q \in Process : q # p => step'[q] = step[q]
        /\ step' \in [Process -> Steps]
    BY DEF SInv, StartupTypeOK, To, Steps
  <1>2. StartupTypeOK'
    BY <1>1 DEF SInv, StartupTypeOK, Steps, Process
  <1>3. ReadsFile'
    BY <1>1 DEF SInv, ReadsFile
  <1>4. ASSUME NEW m \in Migration PROVE Passed(m)'
    <2>1. CASE m = p
      BY <2>1
    <2>2. CASE m # p
      <3>1. step'[m] = step[m] /\ Passed(m)
        BY <1>1, <2>2 DEF SInv, Process
      <3> QED BY <3>1 DEF Passed
    <2> QED BY <2>1, <2>2
  <1>5. ASSUME NEW s \in Service PROVE Checked(s)'
    <2>1. CASE s = p
      BY <2>1
    <2>2. CASE s # p
      <3>1. step'[s] = step[s] /\ Checked(s)
        BY <1>1, <2>2 DEF SInv, Process
      <3> QED BY <3>1 DEF Checked, SetupFits, ModelFits
    <2> QED BY <2>1, <2>2
  <1> QED BY <1>2, <1>3, <1>4, <1>5 DEF SInv

LEMMA StepAt ==
    ASSUME SInv, NEW p \in Process, NEW t, To(p, t)
    PROVE  step'[p] = t
  BY DEF SInv, StartupTypeOK, To

-----------------------------------------------------------------------------
(* The steps of a migration.                                               *)

LEMMA LoadStep == ASSUME SInv, NEW p \in Process, Load(p) PROVE SInv'
  <1>1. /\ step[p] = "config" /\ seen' = [seen EXCEPT ![p] = TRUE]
        /\ UNCHANGED <<World, file, setup, down, changes, mishaps>>
    BY DEF Load, At
  <1>w. UNCHANGED <<table, collection, payloadIndex>>
    BY <1>1 DEF World
  <1>2. PICK t \in Steps :
          /\ To(p, t)
          /\ \/ /\ file \in Valid /\ t = IF p \in Migration THEN "table" ELSE "collection"
                /\ read' = [read EXCEPT ![p] = [dim |-> DimOf(file), marker |-> MarkerOf(file)]]
             \/ file \notin Valid /\ t = RefusedWith(p) /\ read' = read
    BY DEF Load, RefusedWith, Steps
  <1>3. /\ step \in [Process -> Steps] /\ step'[p] = t /\ step' \in [Process -> Steps]
        /\ \A q \in Process : q # p => step'[q] = step[q]
    BY <1>2 DEF SInv, StartupTypeOK, To, Steps
  <1>4. /\ seen' \in [Process -> BOOLEAN] /\ \A q \in Process : q # p => seen'[q] = seen[q]
    BY <1>1 DEF SInv, StartupTypeOK
  <1>5. file \in Valid => DimOf(file) \in Nat /\ MarkerOf(file) \in BOOLEAN
    BY ValidSizes DEF MarkerOf
  <1>6. /\ read' \in [Process -> [dim : Nat, marker : BOOLEAN]]
        /\ \A q \in Process : q # p => read'[q] = read[q]
        /\ t \in Past => file \in Valid
             /\ read'[p] = [dim |-> DimOf(file), marker |-> MarkerOf(file)]
    BY <1>2, <1>5 DEF SInv, ReadsFile, RefusedWith, Past, Looking
  <1>7. p \in Migration <=> p \notin Service
    BY StartupAssumption DEF Process
  <1>8. StartupTypeOK'
    BY <1>1, <1>w, <1>2, <1>3, <1>4, <1>7 DEF SInv, StartupTypeOK, Steps, RefusedWith, Process
  <1>9. ReadsFile'
    BY <1>1, <1>3, <1>4, <1>6 DEF SInv, ReadsFile
  <1>10. ASSUME NEW m \in Migration PROVE Passed(m)'
    <2>1. CASE m = p
      BY <1>2, <1>3, <2>1 DEF Passed, Looking, RefusedWith
    <2>2. CASE m # p
      <3>1. step'[m] = step[m] /\ seen'[m] = seen[m] /\ read'[m] = read[m] /\ Passed(m)
        BY <1>3, <1>4, <1>6, <2>2 DEF SInv, Process
      <3> QED BY <1>w, <3>1 DEF Passed
    <2> QED BY <2>1, <2>2
  <1>11. ASSUME NEW s \in Service PROVE Checked(s)'
    <2>1. CASE s = p
      <3>1. \/ t = "collection"
            \/ t = "exit2" /\ file \notin Valid
        BY <1>2, <1>7, <2>1 DEF RefusedWith
      <3> QED BY <1>1, <1>3, <2>1, <3>1 DEF Checked, Looking, SetupFits, ModelFits, Valid
    <2>2. CASE s # p
      <3>1. step'[s] = step[s] /\ seen'[s] = seen[s] /\ read'[s] = read[s] /\ Checked(s)
        BY <1>3, <1>4, <1>6, <2>2 DEF SInv, Process
      <3> QED BY <1>1, <1>w, <3>1 DEF Checked, SetupFits, ModelFits
    <2> QED BY <2>1, <2>2
  <1> QED BY <1>1, <1>8, <1>9, <1>10, <1>11 DEF SInv

LEMMA MigrationStep ==
    ASSUME SInv, NEW m \in Migration,
           \/ CreateTable(m) \/ LookForCollection(m) \/ Inspect(m) \/ LookForIndex(m)
           \/ CreateIndex(m)
    PROVE  SInv'
  <1>0. m \in Process /\ m \notin Service /\ Passed(m)
    BY StartupAssumption DEF Process, SInv
  <1>1. CASE CreateTable(m)
    <2>1. PICK t \in Steps : /\ To(m, t) /\ step[m] = "table"
                             /\ \/ t = "failed" /\ table' = table
                                \/ t = "collection" /\ table # "old" /\ table' = "current"
      BY <1>1 DEF CreateTable, At, Steps
    <2>2. UNCHANGED <<collection, payloadIndex, read, rest>>
      BY <1>1 DEF CreateTable
    <2>3. step'[m] = t
      BY <1>0, <2>1, StepAt
    <2>4. Passed(m)'
      BY <2>1, <2>3 DEF Passed, Looking
    <2> QED BY <1>0, <2>1, <2>2, <2>4, GoesOnTo DEF Past
  <1>2. CASE LookForCollection(m)
    <2>1. PICK t \in {"failed", "create", "inspect"} :
            To(m, t) /\ step[m] = "collection" /\ (t # "failed" => read[m].dim # 0)
      BY <1>2 DEF LookForCollection, At
    <2>2. UNCHANGED <<table, collection, payloadIndex, read, rest>>
      BY <1>2 DEF LookForCollection, World
    <2>3. step'[m] = t
      BY <1>0, <2>1, StepAt
    <2>4. Passed(m)'
      BY <1>0, <2>1, <2>2, <2>3 DEF Passed, Looking
    <2> QED BY <1>0, <2>1, <2>2, <2>4, GoesOnTo DEF Past, Steps
  <1>3. CASE Inspect(m)
    <2>1. PICK t \in {"failed", "index"} :
            To(m, t) /\ step[m] = "inspect" /\ (t = "index" => Fits(collection, read[m].dim))
      BY <1>3 DEF Inspect, At
    <2>2. UNCHANGED <<table, collection, payloadIndex, read, rest>>
      BY <1>3 DEF Inspect, World
    <2>3. step'[m] = t
      BY <1>0, <2>1, StepAt
    <2>4. t = "index" => collection = [size |-> read[m].dim, shape |-> "cosine"]
      BY <2>1 DEF Fits, SInv, StartupTypeOK
    <2>5. Passed(m)'
      BY <1>0, <2>1, <2>2, <2>3, <2>4 DEF Passed, Looking
    <2> QED BY <1>0, <2>1, <2>2, <2>5, GoesOnTo DEF Past, Looking, Steps
  <1>4. CASE LookForIndex(m)
    <2>1. PICK t \in {"failed", "done", "createIndex"} :
            /\ To(m, t) /\ step[m] = "index"
            /\ t # "failed" => payloadIndex # "other"
            /\ t = "done" => payloadIndex = "keyword"
      BY <1>4 DEF LookForIndex, At
    <2>2. UNCHANGED <<table, collection, payloadIndex, read, rest>>
      BY <1>4 DEF LookForIndex, World
    <2>3. step'[m] = t
      BY <1>0, <2>1, StepAt
    <2>4. Passed(m)'
      BY <1>0, <2>1, <2>2, <2>3 DEF Passed, Looking, rest
    <2> QED BY <1>0, <2>1, <2>2, <2>4, GoesOnTo DEF Past, Looking, Steps
  <1>5. CASE CreateIndex(m)
    <2>1. PICK t \in {"failed", "done"} :
            /\ To(m, t) /\ step[m] = "createIndex"
            /\ \/ t = "failed" /\ payloadIndex' = payloadIndex
               \/ t = "done" /\ collection.size # 0 /\ payloadIndex' = "keyword"
      BY <1>5 DEF CreateIndex, At
    <2>2. UNCHANGED <<table, collection, read, rest>>
      BY <1>5 DEF CreateIndex
    <2>3. step'[m] = t
      BY <1>0, <2>1, StepAt
    <2>4. Passed(m)'
      BY <1>0, <2>1, <2>2, <2>3 DEF Passed, Looking, rest
    <2> QED BY <1>0, <2>1, <2>2, <2>4, GoesOnTo DEF Past, Looking, Steps
  <1> QED BY <1>1, <1>2, <1>3, <1>4, <1>5

(* Qdrant creates a collection only where there is none, so no migration   *)
(* that went by the setup as it is had got further.                        *)
LEMMA CreateStep == ASSUME SInv, NEW m \in Migration, CreateCollection(m) PROVE SInv'
  <1>0. m \in Process /\ m \notin Service /\ Passed(m) /\ step[m] = "create"
    BY StartupAssumption DEF Process, SInv, CreateCollection, At
  <1>1. CASE Reaches("qdrant") /\ MayCreate
    <2>1. /\ collection.size = 0
          /\ collection' = [size |-> read[m].dim, shape |-> "cosine"]
          /\ payloadIndex' = "none"
          /\ seen' = [p \in Process |-> p \in Migration /\ seen[p]]
          /\ To(m, "index")
          /\ UNCHANGED <<table, read, file, setup, down, changes, mishaps>>
      BY <1>1 DEF CreateCollection, MayCreate
    <2>2. /\ step \in [Process -> Steps] /\ step'[m] = "index" /\ step' \in [Process -> Steps]
          /\ \A q \in Process : q # m => step'[q] = step[q]
      BY <1>0, <2>1 DEF SInv, StartupTypeOK, To, Steps
    <2>3. /\ seen' \in [Process -> BOOLEAN]
          /\ \A q \in Migration : seen'[q] = seen[q]
          /\ \A q \in Service : ~ seen'[q]
      BY <2>1, StartupAssumption DEF SInv, StartupTypeOK, Process
    <2>4. read[m] \in [dim : Nat, marker : BOOLEAN] /\ read[m].dim # 0
      BY <1>0 DEF SInv, ReadsFile, Passed, Looking
    <2>5. collection' \in [size : Nat, shape : {"cosine", "other"}] /\ collection'.size # 0
      BY <2>1, <2>4
    <2>6. StartupTypeOK'
      <3>1. \A q \in Service : step'[q] # "failed"
        BY <1>0, <2>2 DEF SInv, StartupTypeOK, Process
      <3>2. collection'.size = 0 => payloadIndex' = "none"
        BY <2>5
      <3>3. table' \in {"none", "old", "current"} /\ down' \subseteq {"qdrant", "ollama"}
            /\ setup' \in [model : Sizes \cup {0}, key : BOOLEAN, skip : BOOLEAN]
        BY <2>1 DEF SInv, StartupTypeOK
      <3> QED BY <2>1, <2>2, <2>3, <2>5, <3>1, <3>2, <3>3 DEF StartupTypeOK, Steps
    <2>7. ReadsFile'
      BY <1>0, <2>1, <2>2, <2>3 DEF SInv, ReadsFile, Process, Past, Looking
    <2>8. ASSUME NEW q \in Migration PROVE Passed(q)'
      <3>1. CASE q = m
        BY <1>0, <2>1, <2>2, <2>4, <3>1 DEF Passed, Looking
      <3>2. CASE q # m
        <4>1. step'[q] = step[q] /\ seen'[q] = seen[q] /\ read' = read /\ Passed(q)
          BY <2>1, <2>2, <2>3, <3>2 DEF SInv, Process
        <4>2. ~ (seen[q] /\ step[q] \in {"index", "createIndex", "done"})
          BY <2>1, <4>1 DEF Passed, Looking
        <4> QED BY <2>1, <4>1, <4>2 DEF Passed
      <3> QED BY <3>1, <3>2
    <2>9. ASSUME NEW s \in Service PROVE Checked(s)'
      <3>1. step'[s] = step[s] /\ Checked(s)
        BY <1>0, <2>2 DEF SInv, Process
      <3> QED BY <2>3, <3>1 DEF Checked
    <2> QED BY <2>1, <2>6, <2>7, <2>8, <2>9 DEF SInv
  <1>2. CASE ~ (Reaches("qdrant") /\ MayCreate)
    <2>1. To(m, "failed") /\ UNCHANGED <<table, collection, payloadIndex, read, rest>>
      BY <1>2 DEF CreateCollection, rest
    <2>2. step'[m] = "failed"
      BY <1>0, <2>1, StepAt
    <2>3. Passed(m)'
      BY <2>2 DEF Passed, Looking
    <2> QED BY <1>0, <2>1, <2>3, GoesOnTo DEF Past, Looking, Steps
  <1> QED BY <1>1, <1>2

-----------------------------------------------------------------------------
(* The steps of a service, and those of either.                            *)

LEMMA ServiceStep ==
    ASSUME SInv, NEW s \in Service,
           CheckCollection(s) \/ CheckDimension(s) \/ Restart(s)
    PROVE  SInv'
  <1>0. s \in Process /\ s \notin Migration /\ Checked(s)
    BY StartupAssumption DEF Process, SInv
  <1>1. CASE CheckCollection(s)
    <2>1. PICK t \in {"exit1", "exit2", "model"} :
            /\ To(s, t) /\ step[s] = "collection"
            /\ t = "exit2" => ~ SetupFits(s)
            /\ t = "model" /\ s = "server" => setup.key
      BY <1>1 DEF CheckCollection, At, SetupFits, ModelFits
    <2>2. UNCHANGED <<table, collection, payloadIndex, read, rest>>
      BY <1>1 DEF CheckCollection, World
    <2>3. step'[s] = t
      BY <1>0, <2>1, StepAt
    <2>4. Checked(s)'
      BY <1>0, <2>1, <2>2, <2>3 DEF Checked, Looking, SetupFits, ModelFits, rest
    <2> QED BY <1>0, <2>1, <2>2, <2>4, GoesOnTo DEF Past, Looking, Steps
  <1>2. CASE CheckDimension(s)
    <2>1. PICK t \in {"exit1", "exit2", "running"} :
            /\ To(s, t) /\ step[s] = "model"
            /\ t = "exit2" => ~ ModelFits(read[s].dim)
            /\ t = "running" => ModelFits(read[s].dim) \/ (s = "consumer" /\ read[s].marker)
      BY <1>2 DEF CheckDimension, At, Skips, Outage
    <2>2. UNCHANGED <<table, collection, payloadIndex, read, rest>>
      BY <1>2 DEF CheckDimension, World
    <2>3. step'[s] = t
      BY <1>0, <2>1, StepAt
    <2>4. seen[s] => read[s].dim = DimOf(file)
      BY <1>0, <2>1 DEF SInv, ReadsFile, Past
    <2>5. Checked(s)'
      BY <1>0, <2>1, <2>2, <2>3, <2>4 DEF Checked, Looking, SetupFits, ModelFits, rest
    <2> QED BY <1>0, <2>1, <2>2, <2>5, GoesOnTo DEF Past, Looking, Steps
  <1>3. CASE Restart(s)
    <2>1. To(s, "config") /\ UNCHANGED <<table, collection, payloadIndex, read, rest>>
      BY <1>3 DEF Restart, World
    <2>2. step'[s] = "config"
      BY <1>0, <2>1, StepAt
    <2>3. Checked(s)'
      BY <2>2 DEF Checked, Looking
    <2> QED BY <1>0, <2>1, <2>3, GoesOnTo DEF Past, Looking, Steps
  <1> QED BY <1>1, <1>2, <1>3

LEMMA BeginStep == ASSUME SInv, NEW p \in Process, Begin(p) PROVE SInv'
  <1>1. To(p, "config") /\ UNCHANGED <<table, collection, payloadIndex, read, rest>>
    BY DEF Begin, World
  <1>2. step'[p] = "config"
    BY <1>1, StepAt
  <1>3. Passed(p)' /\ Checked(p)'
    BY <1>2 DEF Passed, Checked, Looking
  <1> QED BY <1>1, <1>3, GoesOnTo DEF Past, Looking, Steps

-----------------------------------------------------------------------------
(* What happens around them.                                               *)

(* What an operator changes, nobody has seen.                              *)
LEMMA ChangeStep == ASSUME SInv, Change PROVE SInv'
  <1>1. /\ changes' = changes + 1 /\ UNCHANGED <<down, step, read, mishaps>>
        /\ seen' = [p \in Process |-> FALSE]
    BY DEF Change
  <1>2. /\ file' \in Configs
        /\ setup' \in [model : Sizes \cup {0}, key : BOOLEAN, skip : BOOLEAN]
        /\ table' = table \/ (table = "old" /\ table' = "none")
        /\ \/ collection' = collection /\ payloadIndex' = payloadIndex
           \/ collection' = NoCollection /\ payloadIndex' = "none"
    <2>1. setup \in [model : Sizes \cup {0}, key : BOOLEAN, skip : BOOLEAN] /\ file \in Configs
      BY DEF SInv, StartupTypeOK
    <2>2. setup' \in [model : Sizes \cup {0}, key : BOOLEAN, skip : {setup.skip}] =>
            setup' \in [model : Sizes \cup {0}, key : BOOLEAN, skip : BOOLEAN]
      BY <2>1
    <2> QED BY <2>1, <2>2 DEF Change, World
  <1>3. /\ seen' \in [Process -> BOOLEAN] /\ \A p \in Process : ~ seen'[p]
    BY <1>1
  <1>4. NoCollection \in [size : Nat, shape : {"cosine", "other"}] /\ NoCollection.size = 0
    BY DEF NoCollection
  <1>5. StartupTypeOK'
    BY <1>1, <1>2, <1>3, <1>4 DEF SInv, StartupTypeOK
  <1>6. ReadsFile'
    BY <1>1, <1>3 DEF SInv, ReadsFile
  <1>7. ASSUME NEW m \in Migration PROVE Passed(m)'
    <2>1. Passed(m) /\ ~ seen'[m]
      BY <1>3 DEF SInv, Process
    <2> QED BY <1>1, <1>2, <2>1 DEF Passed, Looking
  <1>8. ASSUME NEW s \in Service PROVE Checked(s)'
    <2>1. Checked(s) /\ ~ seen'[s]
      BY <1>3 DEF SInv, Process
    <2> QED BY <1>1, <2>1 DEF Checked
  <1> QED BY <1>1, <1>2, <1>5, <1>6, <1>7, <1>8 DEF SInv

LEMMA BreakStep == ASSUME SInv, Break PROVE SInv'
  <1>1. UNCHANGED <<table, collection, payloadIndex, file, setup, read, seen, changes>>
    BY DEF Break, World
  <1>2. CASE step' = step /\ down' \subseteq {"qdrant", "ollama"}
    <2>1. \A m \in Migration : Passed(m)'
      BY <1>1, <1>2 DEF SInv, Passed
    <2>2. \A s \in Service : Checked(s)'
      BY <1>1, <1>2 DEF SInv, Checked, SetupFits, ModelFits
    <2>3. ReadsFile' /\ StartupTypeOK'
      BY <1>1, <1>2 DEF SInv, ReadsFile, StartupTypeOK
    <2> QED BY <1>1, <2>1, <2>2, <2>3 DEF SInv
  <1>3. ASSUME NEW p \in Process, To(p, IF p \in Migration THEN "failed" ELSE "exit1"), down' = down
        PROVE  SInv'
    <2> DEFINE t == IF p \in Migration THEN "failed" ELSE "exit1"
    <2>1. /\ step \in [Process -> Steps] /\ step'[p] = t /\ step' \in [Process -> Steps]
          /\ \A q \in Process : q # p => step'[q] = step[q]
      BY <1>3 DEF SInv, StartupTypeOK, To, Steps
    <2>2. p \in Migration <=> p \notin Service
      BY StartupAssumption DEF Process
    <2>3. StartupTypeOK'
      BY <1>1, <1>3, <2>1, <2>2 DEF SInv, StartupTypeOK, Steps, Process
    <2>4. ReadsFile'
      BY <1>1, <2>1 DEF SInv, ReadsFile, Past, Looking
    <2>5. ASSUME NEW m \in Migration PROVE Passed(m)'
      <3>1. Passed(m) /\ (m = p \/ step'[m] = step[m])
        BY <2>1 DEF SInv, Process
      <3> QED BY <1>1, <2>1, <3>1 DEF Passed, Looking
    <2>6. ASSUME NEW s \in Service PROVE Checked(s)'
      <3>1. Checked(s) /\ (s = p \/ step'[s] = step[s])
        BY <2>1 DEF SInv, Process
      <3> QED BY <1>1, <2>1, <2>2, <3>1 DEF Checked, Looking, SetupFits, ModelFits
    <2> QED BY <1>1, <2>3, <2>4, <2>5, <2>6 DEF SInv
  <1>4. \/ step' = step /\ down' \subseteq {"qdrant", "ollama"}
        \/ \E p \in Process : To(p, IF p \in Migration THEN "failed" ELSE "exit1") /\ down' = down
    <2>1. \/ \E d \in {"qdrant", "ollama"} : down' = down \cup {d} /\ UNCHANGED step
          \/ \E p \in Process : To(p, IF p \in Migration THEN "failed" ELSE "exit1") /\ down' = down
      BY DEF Break
    <2>2. down \subseteq {"qdrant", "ollama"}
      BY DEF SInv, StartupTypeOK
    <2> QED BY <2>1, <2>2
  <1> QED BY <1>2, <1>3, <1>4

LEMMA StillStep ==
    ASSUME SInv, UNCHANGED <<World, file, setup, step, read, seen, changes>>,
           down' \subseteq {"qdrant", "ollama"}
    PROVE  SInv'
  <1>1. UNCHANGED <<table, collection, payloadIndex>>
    BY DEF World
  <1>2. \A m \in Migration : Passed(m)'
    BY <1>1 DEF SInv, Passed
  <1>3. \A s \in Service : Checked(s)'
    BY <1>1 DEF SInv, Checked, SetupFits, ModelFits
  <1>4. ReadsFile' /\ StartupTypeOK'
    BY <1>1 DEF SInv, ReadsFile, StartupTypeOK
  <1> QED BY <1>1, <1>2, <1>3, <1>4 DEF SInv

LEMMA StartupPreserves == SInv /\ [StartupNext]_svars => SInv'
  <1> SUFFICES ASSUME SInv, [StartupNext]_svars PROVE SInv'
    OBVIOUS
  <1>1. ASSUME NEW m \in Migration, Migrate(m) PROVE SInv'
    <2>1. m \in Process
      BY DEF Process
    <2> QED BY <1>1, <2>1, LoadStep, MigrationStep, CreateStep DEF Migrate
  <1>2. ASSUME NEW s \in Service, Serve(s) PROVE SInv'
    <2>1. s \in Process
      BY DEF Process
    <2> QED BY <1>2, <2>1, LoadStep, ServiceStep DEF Serve
  <1>3. ASSUME Recover PROVE SInv'
    BY <1>3, StillStep DEF Recover
  <1>4. ASSUME UNCHANGED svars PROVE SInv'
    BY <1>4, StillStep DEF svars, World, SInv, StartupTypeOK
  <1> QED BY <1>1, <1>2, <1>3, <1>4, BeginStep, ChangeStep, BreakStep DEF StartupNext

LEMMA StartupHolds == StartupSpec => []SInv
  BY StartupStarts, StartupPreserves, PTL DEF StartupSpec

-----------------------------------------------------------------------------
(* What the processes report is true: a migration that is done has left    *)
(* everything the services need, a service that runs fits the collection   *)
(* and the model, and exit 2 is never the answer to an outage, although    *)
(* each looks call by call while the others and the operator act.          *)
THEOREM TrueReports == StartupSpec => []ReportsAreTrue
  <1>1. SInv => ReportsAreTrue
    <2> SUFFICES ASSUME SInv PROVE ReportsAreTrue
      OBVIOUS
    <2>1. DoneMeansMigrated
      BY DEF SInv, Passed, Looking, DoneMeansMigrated, At
    <2>2. RunningFits
      <3> SUFFICES ASSUME NEW s \in Service, step[s] = "running", seen[s]
                   PROVE  /\ ModelFits(read[s].dim) \/ (s = "consumer" /\ MarkerOf(file))
                          /\ s = "server" => setup.key
                          /\ \A m \in Migration : step[m] = "done" /\ seen[m] =>
                               collection.size = read[s].dim
        BY DEF RunningFits, At
      <3>1. Checked(s) /\ s \in Process
        BY DEF SInv, Process
      <3>2. read[s] = [dim |-> DimOf(file), marker |-> MarkerOf(file)]
        BY <3>1 DEF SInv, ReadsFile, Past, Looking
      <3>3. ASSUME NEW m \in Migration, step[m] = "done", seen[m]
            PROVE  collection.size = read[s].dim
        <4>1. Passed(m) /\ m \in Process
          BY DEF SInv, Process
        <4>2. read[m] = [dim |-> DimOf(file), marker |-> MarkerOf(file)]
          BY <3>3, <4>1 DEF SInv, ReadsFile, Past, Looking
        <4> QED BY <3>2, <3>3, <4>1, <4>2 DEF Passed
      <3> QED BY <3>1, <3>2, <3>3 DEF Checked
    <2>3. Exit2IsEarned
      BY DEF SInv, Checked, Exit2IsEarned, At
    <2> QED BY <2>1, <2>2, <2>3 DEF ReportsAreTrue, SInv
  <1> QED BY <1>1, StartupHolds, PTL

(* However many migrations run at once and wherever they die, they add     *)
(* what is missing and leave what is there: a collection, an index of      *)
(* another type and an old table go only by the operator's hand.           *)
THEOREM DataKept == StartupSpec => MigrationsKeepData
  <1>1. SInv /\ [StartupNext]_svars =>
          [changes' = changes =>
             /\ collection.size # 0 => collection' = collection
             /\ payloadIndex = "other" => payloadIndex' = "other"
             /\ table = "old" => table' = "old"]_svars
    <2> SUFFICES ASSUME SInv, StartupNext, changes' = changes
                 PROVE  /\ collection.size # 0 => collection' = collection
                        /\ payloadIndex = "other" => payloadIndex' = "other"
                        /\ table = "old" => table' = "old"
      OBVIOUS
    <2>1. ~ Change
      BY DEF Change, SInv
    <2>2. ASSUME NEW m \in Migration, CreateTable(m) PROVE
            collection' = collection /\ payloadIndex' = payloadIndex /\ (table = "old" => table' = "old")
      BY <2>2 DEF CreateTable
    <2>3. ASSUME NEW m \in Migration, CreateCollection(m) PROVE
            /\ collection.size # 0 => collection' = collection
            /\ payloadIndex = "other" => payloadIndex' = "other"
            /\ table' = table
      BY <2>3 DEF CreateCollection, MayCreate, SInv, StartupTypeOK
    <2>4. ASSUME NEW m \in Migration, CreateIndex(m) PROVE
            /\ collection' = collection /\ table' = table
            /\ payloadIndex = "other" => payloadIndex' = "other"
      BY <2>4 DEF CreateIndex, SInv, Passed, At
    <2>5. CASE UNCHANGED World
      BY <2>5 DEF World
    <2>6. \/ \E m \in Migration : CreateTable(m) \/ CreateCollection(m) \/ CreateIndex(m)
          \/ UNCHANGED World
      BY <2>1 DEF StartupNext, Migrate, Serve, Load, LookForCollection, Inspect, LookForIndex,
                  CheckCollection, CheckDimension, Restart, Begin, Break, Recover
    <2> QED BY <2>2, <2>3, <2>4, <2>5, <2>6
  <1> QED BY <1>1, StartupHolds, PTL DEF StartupSpec, MigrationsKeepData

-----------------------------------------------------------------------------
(***************************************************************************)
(* The limits of a job, for every value of the configured times.  The      *)
(* inductive invariant ties the three clocks together: while the job runs, *)
(* the timer of this arm is there and not late, the time since the last    *)
(* deadline check makes up for what the job ran past its deadline, and the *)
(* idle time is ahead of the job's clock by at most its dispatch.          *)
(***************************************************************************)
Running == stage \in {"job", "returned"}

Generations ==
    /\ stage = "dispatch" => generation = 2 * jobs - 2
    /\ Running => generation = 2 * jobs - 1
    /\ stage \in {"ready", "publish", "pause", "held"} => generation = 2 * jobs

Timers ==
    \A t \in threads :
      /\ t.generation <= generation
      /\ ~ Running => t.generation < generation
      /\ (Running /\ t.at # "waiting" /\ t.generation = generation) => elapsed >= Limit

Guarded ==
    Running =>
      /\ \E t \in threads : t.generation = generation
      /\ elapsed <= Limit
      /\ stretch <= elapsed /\ elapsed < JobTimeout + stretch
      /\ idle <= elapsed + busy /\ busy <= Dispatch

Dispatched ==
    stage = "dispatch" => jobs > 0 /\ idle <= busy /\ busy <= Dispatch

Retrying ==
    (stage = "publish" /\ tries > 0) =>
      elapsed + CallTimeout < MinIdle + busy /\ busy <= CallTimeout

Trying ==
    /\ stage \in {"publish", "pause"} => tries < PublishAttempts
    /\ stage \in {"dispatch", "job", "returned"} => tries = 0

IInv == TypeOK /\ Generations /\ Timers /\ Guarded /\ Dispatched /\ Retrying /\ Trying

(* The parts of the invariant. *)
USE DEF Stage, Thread, Limit, Running

(* A clock moves by at most one step, and never past the horizon. *)
LEMMA LaterBounds ==
    ASSUME NEW clock \in 0 .. Horizon
    PROVE  /\ Later(clock) \in 0 .. Horizon
           /\ clock <= Later(clock) /\ Later(clock) <= clock + 1
           /\ clock < Horizon => Later(clock) = clock + 1
  BY TimingAssumption DEF Later, Horizon

LEMMA InitIInv == Init => IInv
  BY TimingAssumption DEF Init, IInv, TypeOK, Generations, Timers, Guarded, Dispatched,
       Retrying, Trying, Horizon

LEMMA NextIInv == IInv /\ [Next]_vars => IInv'
  <1> SUFFICES ASSUME IInv, [Next]_vars PROVE IInv'
    OBVIOUS
  <1> USE TimingAssumption DEF IInv, TypeOK, Generations, Timers, Guarded, Dispatched,
            Retrying, Trying, Horizon
  <1>1. CASE stage # "exited" /\ Deliver
    BY <1>1 DEF Deliver, watchdog
  <1>2. CASE stage # "exited" /\ Start
    <2>1. /\ generation' \in 1 .. 2 * MaxJobs /\ generation' = generation + 1
          /\ timer' = generation'
          /\ threads' \subseteq threads \cup {Timer(generation', "waiting")}
          /\ Timer(generation', "waiting") \in threads'
      BY <1>2 DEF Start, Cancelled, Armed
    <2>2. Timer(generation', "waiting") \in Thread
      BY <2>1 DEF Timer
    <2>3. TypeOK'
      BY <1>2, <2>1, <2>2 DEF Start, Cancelled, Timer
    <2>4. Timers'
      BY <1>2, <2>1 DEF Start, Timer
    <2>5. Guarded'
      BY <1>2, <2>1 DEF Start, Timer
    <2>6. QED
      BY <1>2, <2>3, <2>4, <2>5 DEF Start
  <1>3. CASE stage # "exited" /\ CheckDeadline
    BY <1>3 DEF CheckDeadline, DeadlinePassed, watchdog
  <1>4. CASE stage # "exited" /\ Return
    BY <1>4 DEF Return, watchdog
  <1>5. CASE stage # "exited" /\ Disarm
    BY <1>5 DEF Disarm, Cancelled, Timer
  <1>6. CASE stage # "exited" /\ Publish
    BY <1>6 DEF Publish, watchdog
  <1>7. CASE stage # "exited" /\ PublishFails
    BY <1>7 DEF PublishFails, watchdog
  <1>8. CASE stage # "exited" /\ Retry
    BY <1>8 DEF Retry, AttemptFits, watchdog
  <1>9. ASSUME NEW t \in threads, Fire(t) PROVE IInv'
    <2>1. /\ Timer(t.generation, "firing") \in Thread
          /\ threads' = (threads \ {t}) \cup {Timer(t.generation, "firing")}
      BY <1>9 DEF Fire, Timer
    <2>2. TypeOK'
      BY <1>9, <2>1 DEF Fire, Timer, main
    <2>3. Timers'
      BY <1>9, <2>1 DEF Fire, Timer, main
    <2>4. Guarded'
      <3>1. ASSUME Running
            PROVE  \E u \in threads' : u.generation = generation
        <4>1. PICK u \in threads : u.generation = generation
          BY <3>1
        <4>2. CASE u = t
          BY <4>1, <4>2, <2>1 DEF Timer
        <4>3. CASE u # t
          BY <4>1, <4>3, <2>1
        <4>4. QED
          BY <4>2, <4>3
      <3>2. QED
        BY <1>9, <3>1 DEF Fire, main
    <2>5. QED
      BY <1>9, <2>2, <2>3, <2>4 DEF Fire, main
  <1>10. ASSUME NEW t \in threads, Compare(t) PROVE IInv'
    <2>1. /\ Timer(t.generation, "acting") \in Thread
          /\ threads' \subseteq (threads \ {t}) \cup {Timer(t.generation, "acting")}
          /\ t.generation = generation => Timer(t.generation, "acting") \in threads'
          /\ threads \ {t} \subseteq threads'
      BY <1>10 DEF Compare, StillCurrent, Timer
    <2>2. TypeOK'
      BY <1>10, <2>1 DEF Compare, Timer, main
    <2>3. Timers'
      BY <1>10, <2>1 DEF Compare, Timer, main
    <2>4. Guarded'
      BY <1>10, <2>1 DEF Compare, Timer, main
    <2>5. QED
      BY <1>10, <2>2, <2>3, <2>4 DEF Compare, main
  <1>11. ASSUME NEW t \in threads, Exit(t) PROVE IInv'
    BY <1>11 DEF Exit
  <1>12. CASE Tick
    BY <1>12, LaterBounds DEF Tick, TimerDue, MayWait, watchdog
  <1>13. CASE UNCHANGED vars
    BY <1>13 DEF vars, main, watchdog
  <1>14. QED
    BY <1>1, <1>2, <1>3, <1>4, <1>5, <1>6, <1>7, <1>8, <1>9, <1>10, <1>11, <1>12, <1>13
      DEF Next, MainStep

-----------------------------------------------------------------------------
(* The invariant holds of every reachable state, whatever the times are,   *)
(* as long as job_timeout + watchdog_grace < min_idle.                     *)
THEOREM JobInvariance == Spec => []IInv
  BY InitIInv, NextIInv, PTL DEF Spec

(* Types, and _timer is set exactly while the job runs: disarm leaves no   *)
(* timer of an earlier job waiting.                                        *)
THEOREM JobTypeCorrectness == Spec => []TypeOK
  <1>1. IInv => TypeOK
    BY DEF IInv
  <1>2. QED
    BY JobInvariance, <1>1, PTL

(* L15: whatever the configured times, while a job is live, stuck or not,  *)
(* its entry is not reclaimable, unless the dispatch of this very job used *)
(* up all that min_idle has beyond job_timeout + watchdog_grace.           *)
THEOREM LiveJobsAreNotReclaimed == Spec => []LiveJobNotReclaimable
  <1>1. IInv => LiveJobNotReclaimable
    BY TimingAssumption
      DEF IInv, TypeOK, Guarded, LiveJobNotReclaimable, Horizon
  <1>2. QED
    BY JobInvariance, <1>1, PTL

(* So no live job is reclaimable at all where min_idle has room for every  *)
(* dispatch, which Config._check_timing does not ask for.                  *)
COROLLARY RoomForDispatch ==
    ASSUME JobTimeout + WatchdogGrace + Dispatch < MinIdle
    PROVE  Spec => [](stage \in {"job", "returned"} => idle < MinIdle)
  <1>1. IInv => (stage \in {"job", "returned"} => idle < MinIdle)
    BY TimingAssumption DEF IInv, TypeOK, Guarded, Horizon
  <1>2. QED
    BY JobInvariance, <1>1, PTL

(* A further publish attempt always ends within min_idle of the start of   *)
(* the job (_publish).                                                     *)
THEOREM RetriesAreOver == Spec => []RetriesEndInTime
  <1>1. IInv => RetriesEndInTime
    BY TimingAssumption
      DEF IInv, TypeOK, Retrying, RetriesEndInTime, Horizon
  <1>2. QED
    BY JobInvariance, <1>1, PTL

(* The watchdog decides to exit only for the job it is armed for, and only *)
(* when that job went longer than watchdog_grace without a deadline check. *)
THEOREM ExitsAreForStuckJobs == Spec => ExitsAreEarned
  <1> DEFINE Acts(t) == t.at = "acting" /\ t \in threads' \ threads
  <1>1. ASSUME IInv, Next, NEW t \in Thread, Acts(t)
        PROVE  stage \in {"job", "returned"} /\ stretch > WatchdogGrace
    <2> USE DEF IInv, TypeOK, Timers, Guarded, Timer
    <2>1. CASE MainStep
      BY <1>1, <2>1 DEF MainStep, Deliver, Start, CheckDeadline, Return, Disarm, Publish,
           PublishFails, Retry, Cancelled, watchdog
    <2>2. CASE \E u \in threads : Fire(u) \/ Exit(u)
      BY <1>1, <2>2 DEF Fire, Exit
    <2>3. CASE \E u \in threads : Compare(u)
      <3>1. PICK u \in threads : Compare(u)
        BY <2>3
      <3>2. u.generation = generation /\ u.at = "firing"
        BY <1>1, <3>1 DEF Compare, StillCurrent
      <3>3. Running /\ elapsed >= Limit
        BY <1>1, <3>2
      <3>4. QED
        BY <1>1, <3>3, TimingAssumption DEF Horizon
    <2>4. CASE Tick
      BY <1>1, <2>4 DEF Tick, watchdog
    <2>5. QED
      BY <1>1, <2>1, <2>2, <2>3, <2>4 DEF Next
  <1>2. IInv /\ [Next]_vars =>
          [\A t \in Thread : Acts(t) =>
             stage \in {"job", "returned"} /\ stretch > WatchdogGrace]_vars
    BY <1>1
  <1>3. QED
    BY JobInvariance, <1>2, PTL DEF Spec, ExitsAreEarned
===============================================================================
