---------------------------- MODULE DocumentIndex ----------------------------
(***************************************************************************)
(* The RAG service's index: the points of a document in the vector store,  *)
(* its row in the registry ("a row means fully indexed"), the ingest jobs  *)
(* that write both without a transaction, and the tool that empties them.  *)
(*                                                                         *)
(* A document is split differently after a change of chunk_size or         *)
(* chunk_overlap, and under a filename of another kind: the extension of   *)
(* the event's filename chooses the parser and the splitter.  A point is   *)
(* the chunk number and the splitting it is of.                            *)
(* A call to the vector store that fails was executed, or was not.         *)
(***************************************************************************)
EXTENDS Naturals

CONSTANTS
    Hash,               \* documents
    Process,            \* that run ingest jobs
    Configs,            \* how many chunk configurations there are over time
    Format,             \* kinds of filename that are parsed and split alike
    ChunkCount,         \* chunks of a document under each way of splitting it
    UpsertBatch         \* points of one upsert request

Splitting == [config : 1 .. Configs, format : Format]

ASSUME IndexAssumption ==
    /\ Hash # {}
    /\ Configs \in Nat \ {0}
    /\ Format # {}
    /\ ChunkCount \in [Splitting -> Nat \ {0}]
    /\ UpsertBatch \in Nat \ {0}

VARIABLES
    points,     \* the points of every document in the vector store
    registry,   \* documents that have a row in indexed_documents
    job,        \* the local state of every process
    current,    \* the chunk configuration a process starts with
    resetting,  \* reset_index has cleared the rows and not yet the points
    (* What happened to a document since reset_index last found it at rest:  *)
    torn,       \* documents one of whose jobs ended between delete and register
    overlapped, \* documents two of whose jobs ran at one time, with their splittings
    swept       \* documents that had a job while reset_index was between its steps

history == <<torn, overlapped, swept>>
vars == <<points, registry, job, current, history, resetting>>

-----------------------------------------------------------------------------
Point == [chunk : Nat, splitting : Splitting]
Chunks(v, from, to) == {[chunk |-> i, splitting |-> v] : i \in from .. to - 1}
Document(v) == Chunks(v, 0, ChunkCount[v])

Stage == {"idle", "exists", "prepare", "delete", "upsert", "register"}
Job(hashes) == [pc : Stage, hash : hashes, splitting : Splitting, next : Nat]

Active(p) == job[p].pc # "idle"
ActiveOn(h) == {p \in Process : Active(p) /\ job[p].hash = h}

(* Types; the next chunk to write is one of the document's, and a document *)
(* has at most one point per chunk number: ids are derived from it.        *)
TypeOK ==
    /\ points \in [Hash -> SUBSET Point]
    /\ \A h \in Hash : \A a, b \in points[h] : a.chunk = b.chunk => a = b
    /\ registry \subseteq Hash /\ torn \subseteq Hash /\ swept \subseteq Hash
    /\ overlapped \in [Hash -> SUBSET Splitting]
    /\ job \in [Process -> Job(Hash)]
    /\ \A p \in Process : job[p].pc = "upsert" => job[p].next < ChunkCount[job[p].splitting]
    /\ current \in 1 .. Configs
    /\ resetting \in BOOLEAN

Init ==
    /\ points = [h \in Hash |-> {}]
    /\ registry = {} /\ torn = {} /\ overlapped = [h \in Hash |-> {}] /\ swept = {}
    /\ job = [p \in Process |-> [pc |-> "idle", hash |-> CHOOSE h \in Hash : TRUE,
                               splitting |-> [config |-> 1, format |-> CHOOSE f \in Format : TRUE],
                               next |-> 0]]
    /\ current = 1
    /\ resetting = FALSE

-----------------------------------------------------------------------------
(* IngestService.process.                                                  *)

Goto(p, pc) == job' = [job EXCEPT ![p].pc = pc]
At(p, pc) == job[p].pc = pc
HashOf(p) == job[p].hash

(* An event of the center or of the ingest_file tool.  The process has one *)
(* configuration, but the same bytes may come under filenames of different *)
(* kinds.                                                                  *)
Begin(p, h, v) ==
    /\ At(p, "idle")
    /\ v.config = job[p].splitting.config
    /\ job' = [job EXCEPT ![p] = [pc |-> "exists", hash |-> h, splitting |-> v, next |-> 0]]
    /\ overlapped' = [overlapped EXCEPT ![h] =
         IF ActiveOn(h) # {} THEN @ \cup {v} \cup {job[q].splitting : q \in ActiveOn(h)} ELSE @]
    /\ swept' = IF resetting THEN swept \cup {h} ELSE swept
    /\ UNCHANGED <<points, registry, current, torn, resetting>>

(* A document that has a row is reported INDEXED without any work. *)
Exists(p) ==
    /\ At(p, "exists")
    /\ Goto(p, IF HashOf(p) \in registry THEN "idle" ELSE "prepare")
    /\ UNCHANGED <<points, registry, current, history, resetting>>

(* Parser, size, fetch, split, embeddings, and the deadline checks between *)
(* them: nothing is written before all of it is done.                      *)
Prepare(p) ==
    /\ At(p, "prepare")
    /\ Goto(p, "delete")
    /\ UNCHANGED <<points, registry, current, history, resetting>>

PrepareFails(p) ==
    /\ At(p, "prepare")
    /\ Goto(p, "idle")
    /\ UNCHANGED <<points, registry, current, history, resetting>>

(* Variant: points are left in place for upsert to overwrite. *)
Emptied_Kept(h) == points

Emptied(h) == [points EXCEPT ![h] = {}]

DeleteByHash(p) ==
    /\ At(p, "delete")
    /\ points' = Emptied(HashOf(p))
    /\ Goto(p, "upsert")
    /\ UNCHANGED <<registry, current, history, resetting>>

DeleteFails(p) ==
    /\ At(p, "delete")
    /\ points' \in {points, Emptied(HashOf(p))}
    /\ torn' = torn \cup {HashOf(p)}
    /\ Goto(p, "idle")
    /\ UNCHANGED <<registry, current, overlapped, swept, resetting>>

(* The document after the next batch: a point replaces the one with its id. *)
BatchEnd(s) ==
    IF s.next + UpsertBatch < ChunkCount[s.splitting] THEN s.next + UpsertBatch
                                                      ELSE ChunkCount[s.splitting]
Written(s) ==
    {a \in points[s.hash] : a.chunk \notin s.next .. BatchEnd(s) - 1}
      \cup Chunks(s.splitting, s.next, BatchEnd(s))

(* Variant: the batches after the first are left out. *)
AfterBatch_First(s) == [s EXCEPT !.pc = "register"]

AfterBatch(s) ==
    [s EXCEPT !.pc = IF BatchEnd(s) = ChunkCount[s.splitting] THEN "register" ELSE "upsert",
              !.next = BatchEnd(s)]

Upsert(p) ==
    /\ At(p, "upsert")
    /\ points' = [points EXCEPT ![HashOf(p)] = Written(job[p])]
    /\ job' = [job EXCEPT ![p] = AfterBatch(@)]
    /\ UNCHANGED <<registry, current, history, resetting>>

UpsertFails(p) ==
    /\ At(p, "upsert")
    /\ points' \in {points, [points EXCEPT ![HashOf(p)] = Written(job[p])]}
    /\ torn' = torn \cup {HashOf(p)}
    /\ Goto(p, "idle")
    /\ UNCHANGED <<registry, current, overlapped, swept, resetting>>

(* ON CONFLICT DO NOTHING: the first row stays. *)
Register(p) ==
    /\ At(p, "register")
    /\ registry' = registry \cup {HashOf(p)}
    /\ Goto(p, "idle")
    /\ UNCHANGED <<points, current, history, resetting>>

RegisterFails(p) ==
    /\ At(p, "register")
    /\ Goto(p, "idle")
    /\ UNCHANGED <<points, registry, current, history, resetting>>

(* The process ends anywhere, and starts again with the configuration of   *)
(* the day.                                                                *)
Restart(p) ==
    /\ job' = [job EXCEPT ![p].pc = "idle", ![p].splitting.config = current]
    /\ torn' = IF At(p, "upsert") THEN torn \cup {HashOf(p)} ELSE torn
    /\ UNCHANGED <<points, registry, current, overlapped, swept, resetting>>

ChangeConfig ==
    /\ current < Configs
    /\ current' = current + 1
    /\ UNCHANGED <<points, registry, job, history, resetting>>

-----------------------------------------------------------------------------
(* reset_index: rows first, "a crash in between leaves points without      *)
(* rows, which re-ingest replaces".  Nothing keeps the consumers from      *)
(* working meanwhile.                                                      *)

ClearRegistry ==
    LET busy == {h \in Hash : ActiveOn(h) # {}} IN
    /\ ~ resetting
    /\ registry' = {}
    /\ resetting' = TRUE
    /\ swept' = busy /\ torn' = torn \cap busy
    /\ overlapped' = [h \in Hash |-> IF h \in busy THEN overlapped[h] ELSE {}]
    /\ UNCHANGED <<points, job, current>>

ClearIndex ==
    /\ resetting
    /\ points' = [h \in Hash |-> {}]
    /\ resetting' = FALSE
    /\ UNCHANGED <<registry, job, current, history>>

ResetDies ==
    /\ resetting
    /\ resetting' = FALSE
    /\ UNCHANGED <<points, registry, job, current, history>>

-----------------------------------------------------------------------------
JobStep(p) ==
    \/ \E h \in Hash, v \in Splitting : Begin(p, h, v)
    \/ Exists(p) \/ Prepare(p) \/ PrepareFails(p)
    \/ DeleteByHash(p) \/ DeleteFails(p)
    \/ Upsert(p) \/ UpsertFails(p)
    \/ Register(p) \/ RegisterFails(p)
    \/ Restart(p)

Next ==
    \/ \E p \in Process : JobStep(p)
    \/ ChangeConfig
    \/ ClearRegistry \/ ClearIndex \/ ResetDies

Spec == Init /\ [][Next]_vars

-----------------------------------------------------------------------------
(* Safety.                                                                 *)

Whole(h) == \E v \in Splitting : points[h] = Document(v)

(* "A row means the document is completely indexed": all its chunks of one *)
(* splitting and no other are in the vector store, whatever call failed or *)
(* process died before, and whatever configuration and filename it came    *)
(* with, unless two of its jobs, or a job and reset_index, ran at the same *)
(* time; and a reset_index while it has no job makes up for that.  Nothing *)
(* else would: such a document is not ingested again.                      *)
RowMeansComplete == \A h \in registry : overlapped[h] = {} /\ h \notin swept => Whole(h)

SplitAlike(h) == \A v, w \in overlapped[h] : v = w

(* "Two jobs for the same hash can both finish": when jobs of a document   *)
(* overlap but none is cut short and all split it alike, under one chunk   *)
(* configuration and one kind of filename, it is complete once they are    *)
(* over.                                                                   *)
QuietRowsComplete ==
    \A h \in registry :
      h \notin torn \cup swept /\ SplitAlike(h) /\ ActiveOn(h) = {} => Whole(h)

(* What the two comments say together: the row of a document at rest, none *)
(* of whose jobs is running, means that it is completely indexed, unless   *)
(* it was reset while it had a job.                                        *)
RestingRowsComplete == \A h \in registry \ swept : ActiveOn(h) = {} => Whole(h)
=============================================================================
