---------------------------- MODULE ServiceStartup ----------------------------
(***************************************************************************)
(* Migrations and the two RAG services as they start: each reads           *)
(* config.toml once and looks at the collection, the model and the key     *)
(* call by call, while an operator changes the setup, dependencies come    *)
(* and go, a second migration races the first and processes die.           *)
(***************************************************************************)
EXTENDS ConfigReader

CONSTANTS
    Migration,      \* runs of `python -m migration.main`
    Configs,        \* config files the operator uses
    Sizes,          \* output sizes of the embedding models
    MaxChanges,     \* bound: changes of the setup
    MaxMishaps      \* bound: outages and crashes

VARIABLES
    table,          \* indexed_documents: "none", "old" or "current"
    collection,     \* the vectors' size and shape; size 0 when there is none
    payloadIndex,   \* on "hash": "none", "keyword" or "other"
    setup,          \* model: size of the installed one or 0; key, skip: environment
    down,           \* unreachable services
    step,           \* where each process is
    read,           \* what the process read: embedding_dim and the marker
    seen,           \* ghost: what it looks at was not changed since it loaded its file
    changes, mishaps

svars == <<file, table, collection, payloadIndex, setup, down, step, read, seen, changes, mishaps>>

Service == {"consumer", "server"}
Process == Migration \cup Service
NoCollection == [size |-> 0, shape |-> "cosine"]
World == <<table, collection, payloadIndex>>

(* The values of a file are those that ConfigReader describes. *)
ASSUME StartupAssumption ==
    /\ Migration \cap Service = {}
    /\ Sizes \subseteq Nat \ {0}
    /\ \A f \in Configs, p \in Known :
         p \in DOMAIN f /\ DOMAIN f[p] = {"int"} => f[p].int \in Int
    /\ MaxChanges \in Nat /\ MaxMishaps \in Nat

StartupTypeOK ==
    /\ table \in {"none", "old", "current"}
    /\ collection \in [size : Nat, shape : {"cosine", "other"}]
    /\ payloadIndex \in {"none", "keyword", "other"}
    /\ setup \in [model : Sizes \cup {0}, key : BOOLEAN, skip : BOOLEAN]
    /\ down \subseteq {"qdrant", "ollama"}
    /\ step \in [Process -> {"off", "config", "table", "collection", "inspect", "create", "index",
                             "createIndex", "done", "failed", "model", "running", "exit1", "exit2"}]
    /\ seen \in [Process -> BOOLEAN]
    /\ \A p \in Service : step[p] # "failed"
    /\ collection.size = 0 => payloadIndex = "none"

(* Nothing is there yet, or what an older version or another hand left. *)
StartupInit ==
    /\ file \in Configs
    /\ table \in {"none", "old"}
    /\ collection \in {NoCollection} \cup [size : Sizes, shape : {"cosine", "other"}]
    /\ payloadIndex \in IF collection.size = 0 THEN {"none"} ELSE {"none", "other"}
    /\ setup \in [model : Sizes \cup {0}, key : {TRUE}, skip : BOOLEAN]
    /\ down = {}
    /\ step = [p \in Process |-> "off"]
    /\ read = [p \in Process |-> [dim |-> 0, marker |-> FALSE]]
    /\ seen = [p \in Process |-> FALSE]
    /\ changes = 0
    /\ mishaps = 0

-----------------------------------------------------------------------------
At(p, s) == step[p] = s
To(p, s) == step' = [step EXCEPT ![p] = s]
rest == <<file, setup, down, seen, changes, mishaps>>

(* A migration that cannot reach Qdrant fails like one that finds fault.   *)
Reaches(service) == service \notin down
Valid == {f \in Configs : Problems(f) = {}}
DimOf(f) == Value(f, Dim).int
MarkerOf(f) == Value(f, Flag) = [bool |-> TRUE]

RefusedWith(p) == IF p \in Migration THEN "failed" ELSE "exit2"

(* Every process: load() or exit. *)
Load(p) ==
    /\ At(p, "config")
    /\ IF file \in Valid
       THEN /\ To(p, IF p \in Migration THEN "table" ELSE "collection")
            /\ read' = [read EXCEPT ![p] = [dim |-> DimOf(file), marker |-> MarkerOf(file)]]
       ELSE To(p, RefusedWith(p)) /\ UNCHANGED read
    /\ seen' = [seen EXCEPT ![p] = TRUE]
    /\ UNCHANGED <<World, file, setup, down, changes, mishaps>>

(* One transaction.  CREATE TABLE IF NOT EXISTS would keep an old table.   *)
CreateTable(m) ==
    /\ At(m, "table")
    /\ IF table = "old" THEN To(m, "failed") /\ UNCHANGED table
                        ELSE To(m, "collection") /\ table' = "current"
    /\ UNCHANGED <<collection, payloadIndex, read, rest>>

LookForCollection(m) ==
    /\ At(m, "collection") /\ m \in Migration
    /\ To(m, IF read[m].dim = 0 \/ ~ Reaches("qdrant") THEN "failed"
             ELSE IF collection.size = 0 THEN "create" ELSE "inspect")
    /\ UNCHANGED <<World, read, rest>>

(* _check_existing; a collection that is gone by now is an error too. *)
Fits(c, n) == c.size = n /\ c.shape = "cosine"

Inspect(m) ==
    /\ At(m, "inspect")
    /\ To(m, IF Reaches("qdrant") /\ Fits(collection, read[m].dim) THEN "index" ELSE "failed")
    /\ UNCHANGED <<World, read, rest>>

(* Variant: recreate_collection. *)
MayCreate_Always == TRUE

(* Qdrant refuses to create one that exists by now. *)
MayCreate == collection.size = 0

(* The reply may be lost: then the collection is there and the run failed. *)
CreateCollection(m) ==
    /\ At(m, "create")
    /\ IF Reaches("qdrant") /\ MayCreate
       THEN /\ collection' = [size |-> read[m].dim, shape |-> "cosine"]
            /\ payloadIndex' = "none"
            /\ seen' = [p \in Process |-> p \in Migration /\ seen[p]]
            /\ To(m, "index")
       ELSE To(m, "failed") /\ UNCHANGED <<collection, payloadIndex, seen>>
    /\ UNCHANGED <<table, read, file, setup, down, changes, mishaps>>

LookForIndex(m) ==
    /\ At(m, "index")
    /\ To(m, IF ~ Reaches("qdrant") \/ collection.size = 0 \/ payloadIndex = "other" THEN "failed"
             ELSE IF payloadIndex = "keyword" THEN "done" ELSE "createIndex")
    /\ UNCHANGED <<World, read, rest>>

CreateIndex(m) ==
    /\ At(m, "createIndex")
    /\ IF Reaches("qdrant") /\ collection.size # 0
       THEN payloadIndex' = "keyword" /\ To(m, "done")
       ELSE To(m, "failed") /\ UNCHANGED payloadIndex
    /\ UNCHANGED <<table, collection, read, rest>>

Migrate(m) ==
    \/ Load(m) \/ CreateTable(m) \/ LookForCollection(m) \/ Inspect(m)
    \/ CreateCollection(m) \/ LookForIndex(m) \/ CreateIndex(m)

-----------------------------------------------------------------------------
(* The services.  Exit 1: a restart may help; exit 2: only a fix does.     *)

(* The server asks for its key before anything else. *)
CheckCollection(s) ==
    /\ At(s, "collection") /\ s \in Service
    /\ To(s, IF s = "server" /\ ~ setup.key THEN "exit2"
             ELSE IF ~ Reaches("qdrant") THEN "exit1"
             ELSE IF collection.size = 0 THEN "exit2" ELSE "model")
    /\ UNCHANGED <<World, read, rest>>

(* Variant: the variable alone turns the check off. *)
Skips_Variable(s) == s = "consumer" /\ setup.skip

(* RAG_SKIP_DIM_CHECK takes effect only with the marker in the file. *)
Skips(s) == s = "consumer" /\ setup.skip /\ read[s].marker

Outage == "exit1"

(* A missing model is an error of its own, whatever size is expected.      *)
ModelFits(dim) == setup.model # 0 /\ setup.model = dim

CheckDimension(s) ==
    /\ At(s, "model")
    /\ To(s, IF Skips(s) THEN "running"
             ELSE IF ~ Reaches("ollama") THEN Outage
             ELSE IF ModelFits(read[s].dim) THEN "running" ELSE "exit2")
    /\ UNCHANGED <<World, read, rest>>

(* Variant: restart: only for exit 1. *)
Restarts_Unavailable == {"exit1"}

(* restart: unless-stopped, whatever the exit code. *)
Restarts == {"exit1", "exit2"}

Restart(s) ==
    /\ step[s] \in Restarts
    /\ To(s, "config")
    /\ UNCHANGED <<World, read, rest>>

Serve(s) == Load(s) \/ CheckCollection(s) \/ CheckDimension(s) \/ Restart(s)

(* Compose starts the services after a migration has completed. *)
Begin(p) ==
    /\ At(p, "off")
    /\ p \in Service => \E m \in Migration : At(m, "done")
    /\ To(p, "config")
    /\ UNCHANGED <<World, read, rest>>

-----------------------------------------------------------------------------
(* What happens around them.                                               *)

(* The operator edits the file, installs or removes a model, drops the     *)
(* collection, or removes the old database.                                *)
Change ==
    /\ changes < MaxChanges
    /\ changes' = changes + 1
    /\ seen' = [p \in Process |-> FALSE]
    /\ \/ file' \in Configs /\ UNCHANGED <<setup, World>>
       \/ setup' \in [model : Sizes \cup {0}, key : BOOLEAN, skip : {setup.skip}] /\ UNCHANGED <<file, World>>
       \/ /\ collection' = NoCollection /\ payloadIndex' = "none"
          /\ UNCHANGED <<file, setup, table>>
       \/ table = "old" /\ table' = "none" /\ UNCHANGED <<file, setup, collection, payloadIndex>>
    /\ UNCHANGED <<down, step, read, mishaps>>

Break ==
    /\ mishaps < MaxMishaps
    /\ mishaps' = mishaps + 1
    /\ \/ \E d \in {"qdrant", "ollama"} : down' = down \cup {d} /\ UNCHANGED step
       \/ \E p \in Process : /\ step[p] \notin {"off", "done", "failed"}
                             /\ To(p, IF p \in Migration THEN "failed" ELSE "exit1")
                             /\ UNCHANGED down
    /\ UNCHANGED <<World, file, setup, read, seen, changes>>

Recover ==
    /\ down # {}
    /\ down' = {}
    /\ UNCHANGED <<World, file, setup, step, read, seen, changes, mishaps>>

StartupNext ==
    \/ \E m \in Migration : Migrate(m)
    \/ \E s \in Service : Serve(s)
    \/ \E p \in Process : Begin(p)
    \/ Change \/ Break \/ Recover

StartupSpec == StartupInit /\ [][StartupNext]_svars

-----------------------------------------------------------------------------
(* Safety.                                                                 *)

(* A migration never changes what it finds: only the operator removes a    *)
(* collection, an index of another type or an old table, however many      *)
(* migrations run at once and wherever they die.                           *)
MigrationsKeepData ==
    [][changes' = changes =>
         /\ collection.size # 0 => collection' = collection
         /\ payloadIndex = "other" => payloadIndex' = "other"
         /\ table = "old" => table' = "old"]_svars

(* "finished steps are safe to repeat": a migration that completed left    *)
(* everything the services need, as long as nobody changed the setup.      *)
DoneMeansMigrated ==
    \A m \in Migration : At(m, "done") /\ seen[m] =>
      /\ table = "current"
      /\ collection = [size |-> read[m].dim, shape |-> "cosine"]
      /\ payloadIndex = "keyword"

(* A service that runs, with nothing changed since it loaded its file, has *)
(* the key and the model of the expected size; a stray RAG_SKIP_DIM_CHECK  *)
(* does nothing without the marker.  After a migration of the same file    *)
(* the collection has that size too.                                       *)
RunningFits ==
    \A s \in Service : At(s, "running") /\ seen[s] =>
      /\ ModelFits(read[s].dim) \/ (s = "consumer" /\ MarkerOf(file))
      /\ s = "server" => setup.key
      /\ \A m \in Migration : At(m, "done") /\ seen[m] => collection.size = read[s].dim

(* Exit 2 means that only a fix helps: with nothing changed since, the     *)
(* setup is wrong even for a service that reaches everything.              *)
SetupFits(s) ==
    /\ file \in Valid
    /\ collection.size # 0
    /\ ModelFits(DimOf(file))
    /\ s = "server" => setup.key
Exit2IsEarned == \A s \in Service : At(s, "exit2") /\ seen[s] => ~ SetupFits(s)

(* What the processes report is true, although each of them looks at the   *)
(* file, the collection, the index and the model one after the other while *)
(* the others and the operator act (with the types of the state).          *)
ReportsAreTrue == StartupTypeOK /\ DoneMeansMigrated /\ RunningFits /\ Exit2IsEarned

-----------------------------------------------------------------------------
(* Liveness: once the setup is right for good, the services that were      *)
(* started run for good: an outage or a crash never leaves one stopped.    *)
Steady(s) == ~ At(s, "off") /\ SetupFits(s)
ServesAgain == \A s \in Service : <>[]Steady(s) => <>[]At(s, "running")

StartupFairness ==
    /\ \A s \in Service : WF_svars(Serve(s))
    /\ WF_svars(Recover)
===============================================================================
