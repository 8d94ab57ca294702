------------------------------ MODULE MCSettings ------------------------------
(***************************************************************************)
(* Instances for what depends on config.toml: the reader, the processes    *)
(* that start from it, and the job limits it sets.  A behaviour runs one   *)
(* of them (part); what two parts share does not change in the one that is *)
(* not about it.                                                           *)
(***************************************************************************)
EXTENDS ServiceStartup, IngestJob

VARIABLE part

Time(n, u) == [digits |-> n, unit |-> u]
Dot(s) == [dotted |-> <<s>>]

(* The repository's config.toml; the center's keys are left out. *)
ConfigToml ==
    [p \in Texts \cup OptionalTexts |-> [text |-> "some text"]]
    @@ (Effort :> [text |-> "low"]) @@ (Score :> [tenths |-> 4])
    @@ (Dim :> [int |-> 2560]) @@ (Size :> [int |-> 1000]) @@ (Overlap :> [int |-> 150])
    @@ (Extensions :> [list |-> <<Dot("pdf"), Dot("txt"), Dot("md")>>])
    @@ (Append(Consumer, "job_timeout") :> Time(15, "m"))
    @@ (Append(Consumer, "watchdog_grace") :> Time(2, "m"))
    @@ (Append(Consumer, "min_idle") :> Time(20, "m"))
    @@ (Append(Consumer, "consumer_cleanup_idle") :> Time(1, "h"))
    @@ [p \in Durations \ Timing |-> Time(1, "m")]
    @@ [p \in Integers1 |-> [int |-> 8]]

Other == {[int |-> -1], [int |-> 0], [int |-> 1], [int |-> 65536], [int |-> MaxInt + 1],
          [text |-> ""], [text |-> "x"], [bool |-> TRUE], [tenths |-> 10],
          Time(0, "m"), Time(1, "s"), Time(17, "m"), Time(9, "h"), Time(1000000, "s"), Time(1, "d"),
          [list |-> << >>], [list |-> <<Dot("pdf"), [text |-> "pdf"]>>],
          [list |-> <<[dotted |-> <<"tar", "gz">>]>>], [list |-> <<Dot("")>>]}

Drop(f, P) == [q \in DOMAIN f \ P |-> f[q]]
Set(f, p) == {With(f, p, v) : v \in Other} \cup {Drop(f, {p})}
Nested(f, p) == Drop(f, {p}) @@ (Append(p, "x") :> [int |-> 1])
Shapes ==
    {Nested(ConfigToml, p) : p \in {Flag, Dim, <<"redis", "host">>, <<"minio", "upload_bucket">>}}
    \cup {Drop(ConfigToml, {q \in DOMAIN ConfigToml : t \in Prefixes(q)}) @@ (t :> [int |-> 5])
            : t \in KnownTables}
    \cup {With(ConfigToml, p, [int |-> 1]) : p \in {<<"typo">>, <<"rag", "typo">>, <<"server", "port">>,
                                                    <<"rag", "consumer", "typo">>, <<"go", "port">>}}
(* Two keys at once: one that other rules depend on, or none does. *)
Few == {[int |-> 0], [int |-> MaxInt + 1], [int |-> 65536], Time(0, "m"), Time(9, "h"), Time(1, "s")}
Pairs ==
    UNION {{With(f, q, v) : v \in Few} :
      f \in UNION {{With(ConfigToml, p, v) : v \in Few}
                   : p \in {Size, <<"redis", "port">>, Append(Consumer, "job_timeout")}},
      q \in Timing \cup {Overlap}}
MadeFiles == UNION {Set(ConfigToml, p) : p \in Known} \cup Pairs \cup Shapes

(* Another model's size, no size, the fault runbook's marker, a bad file. *)
UsedConfigs ==
    {ConfigToml, With(ConfigToml, Dim, [int |-> 4096]), With(ConfigToml, Dim, [int |-> 0]),
     With(ConfigToml, Flag, [bool |-> TRUE]), With(ConfigToml, Overlap, [int |-> 1000])}

Runs == {"migrate1", "migrate2"}
ModelSizes == {2560, 4096}

(* Two migrations race, or one is followed by a service: the services      *)
(* change nothing that the other reads.  What a migration refuses, and     *)
(* what only a service looks at, varies only where it is looked at.        *)
Starting == [race |-> Runs, consumer |-> {"migrate1", "consumer"}, server |-> {"migrate1", "server"}]

(* The ones that are not running hold still. *)
reader == <<phase, report, attempts, hidden>>
ReaderRests == phase = "edited" /\ report = {} /\ attempts = 0 /\ hidden = FALSE
StartupRests ==
    /\ table = "none" /\ collection = NoCollection /\ payloadIndex = "none"
    /\ setup = [model |-> 0, key |-> TRUE, skip |-> FALSE] /\ down = {}
    /\ step = [p \in Process |-> "off"]
    /\ read = [p \in Process |-> [dim |-> 0, marker |-> FALSE]]
    /\ seen = [p \in Process |-> FALSE] /\ changes = 0 /\ mishaps = 0
world == <<table, collection, payloadIndex, setup, down, step, read, seen, changes, mishaps>>

MCInit ==
    /\ Init
    /\ \/ part = "reader" /\ ConfigInit /\ StartupRests
       \/ part = "race" /\ StartupInit /\ setup.model = 2560 /\ ~ setup.skip /\ ReaderRests
       \/ /\ part \in Service /\ StartupInit /\ table = "none" /\ ReaderRests
          /\ collection.shape = "cosine" /\ payloadIndex = "none"
       \/ part = "limits" /\ file = ConfigToml /\ ReaderRests /\ StartupRests
MCNext ==
    /\ UNCHANGED part
    /\ \/ part = "reader" /\ ConfigNext /\ UNCHANGED <<world, vars>>
       \/ /\ part \in DOMAIN Starting /\ StartupNext /\ UNCHANGED <<reader, vars>>
          /\ \A p \in Process \ Starting[part] : step'[p] = "off"
       \/ part = "limits" /\ Next /\ UNCHANGED <<world, cvars>>
MCSpec ==
    /\ MCInit /\ [][MCNext]_<<world, cvars, vars, part>>
    /\ \A s \in Service : WF_svars(part = s /\ Serve(s))
    /\ WF_svars(part \in Service /\ Recover)
================================================================================
