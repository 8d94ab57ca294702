------------------------- MODULE DocumentIndexProofs -------------------------
(***************************************************************************)
(* Proofs about DocumentIndex, for every set of documents and processes,   *)
(* every sequence of chunk configurations and every batch size.  While one *)
(* job works on a document that has no row, the vector store holds the     *)
(* batches it has written and nothing else; the row comes after the last.  *)
(***************************************************************************)
EXTENDS DocumentIndex, TLAPS

Begins(p, h) == \E v \in Splitting : Begin(p, h, v)

(* A job starts at its first chunk. *)
Started ==
    \A p \in Process : job[p].pc \in {"exists", "prepare", "delete"} => job[p].next = 0

Working == {"prepare", "delete", "upsert", "register"}

(* What a job has written, and that its document has no row. *)
WorkFits(p) ==
    /\ job[p].pc \in Working => HashOf(p) \notin registry
    /\ At(p, "upsert") => points[HashOf(p)] = Chunks(job[p].splitting, 0, job[p].next)
    /\ At(p, "register") => points[HashOf(p)] = Document(job[p].splitting)

(* A document whose jobs ran neither at the same time nor during a reset;  *)
(* a reset finds it at rest and without a row.                             *)
Undisturbed(h) == overlapped[h] = {} /\ h \notin swept
Clean(h) ==
    Undisturbed(h) =>
      /\ h \in registry => Whole(h)
      /\ \A p, q \in ActiveOn(h) : p = q
      /\ \A p \in ActiveOn(h) : WorkFits(p)
      /\ resetting => h \notin registry /\ ActiveOn(h) = {}

TInv == TypeOK /\ Started
IInv == TypeOK /\ Started /\ \A h \in Hash : Clean(h)

-----------------------------------------------------------------------------
(* What a batch does.                                                      *)

USE DEF Stage, Job, At, HashOf, Goto, Active

LEMMA ChunksType ==
    ASSUME NEW v \in Splitting, NEW from \in Nat, NEW to \in Nat
    PROVE  /\ Chunks(v, from, to) \subseteq Point
           /\ \A a \in Chunks(v, from, to) : a.chunk \in from .. to - 1 /\ a.splitting = v
           /\ \A a, b \in Chunks(v, from, to) : a.chunk = b.chunk => a = b
  BY DEF Chunks, Point

LEMMA ChunksEmpty == \A v \in Splitting : Chunks(v, 0, 0) = {}
  BY DEF Chunks

(* The next batch is not empty and ends at the last chunk at most. *)
LEMMA BatchBounds ==
    ASSUME NEW s \in Job(Hash), s.next < ChunkCount[s.splitting]
    PROVE  /\ BatchEnd(s) \in Nat
           /\ s.next < BatchEnd(s) /\ BatchEnd(s) <= ChunkCount[s.splitting]
  BY IndexAssumption DEF BatchEnd

LEMMA WrittenType ==
    ASSUME TypeOK, NEW s \in Job(Hash), s.next < ChunkCount[s.splitting]
    PROVE  /\ Written(s) \in SUBSET Point
           /\ \A a, b \in Written(s) : a.chunk = b.chunk => a = b
<1>1. /\ points[s.hash] \subseteq Point
      /\ \A a, b \in points[s.hash] : a.chunk = b.chunk => a = b
  BY DEF TypeOK
<1>2. /\ Chunks(s.splitting, s.next, BatchEnd(s)) \subseteq Point
      /\ \A a \in Chunks(s.splitting, s.next, BatchEnd(s)) : a.chunk \in s.next .. BatchEnd(s) - 1
      /\ \A a, b \in Chunks(s.splitting, s.next, BatchEnd(s)) : a.chunk = b.chunk => a = b
  BY BatchBounds, ChunksType
<1> QED
  BY <1>1, <1>2 DEF Written

(* A batch after the ones before it. *)
LEMMA WrittenExtends ==
    ASSUME TypeOK, NEW s \in Job(Hash), s.next < ChunkCount[s.splitting],
           points[s.hash] = Chunks(s.splitting, 0, s.next)
    PROVE  Written(s) = Chunks(s.splitting, 0, BatchEnd(s))
<1> DEFINE v == s.splitting
           n == s.next
           m == BatchEnd(s)
<1>1. n \in Nat /\ m \in Nat /\ n < m
  BY BatchBounds
<1>2. \A i \in Nat : i \in 0 .. m - 1 <=> i \in 0 .. n - 1 \/ i \in n .. m - 1
  BY <1>1
<1>3. \A a \in Chunks(v, 0, n) : a.chunk \notin n .. m - 1
  BY <1>1, ChunksType
<1>4. Written(s) = Chunks(v, 0, n) \cup Chunks(v, n, m)
  BY <1>3 DEF Written
<1>5. Chunks(v, 0, n) \cup Chunks(v, n, m) = Chunks(v, 0, m)
  BY <1>1, <1>2 DEF Chunks
<1> QED
  BY <1>4, <1>5

-----------------------------------------------------------------------------
(* Types.                                                                  *)

LEMMA InitTInv == Init => TInv
<1> SUFFICES ASSUME Init PROVE TInv
  OBVIOUS
<1>1. /\ (CHOOSE h \in Hash : TRUE) \in Hash /\ 1 \in 1 .. Configs
      /\ [config |-> 1, format |-> CHOOSE f \in Format : TRUE] \in Splitting
  BY IndexAssumption DEF Splitting
<1>2. job \in [Process -> Job(Hash)] /\ \A p \in Process : job[p].pc = "idle"
  BY <1>1 DEF Init
<1>3. /\ points \in [Hash -> SUBSET Point] /\ overlapped \in [Hash -> SUBSET Splitting]
      /\ \A h \in Hash : points[h] = {}
  BY DEF Init
<1> QED
  BY <1>1, <1>2, <1>3 DEF Init, TInv, TypeOK, Started

(* What the steps do to the points, as far as types go. *)
PointsType == points \in [Hash -> SUBSET Point]
OnePerId == \A h \in Hash : \A a, b \in points[h] : a.chunk = b.chunk => a = b
NextInside == \A p \in Process : job[p].pc = "upsert" => job[p].next < ChunkCount[job[p].splitting]

LEMMA EmptiedType ==
    ASSUME PointsType, OnePerId, NEW h \in Hash, points' = Emptied(h)
    PROVE  PointsType' /\ OnePerId'
  BY DEF PointsType, OnePerId, Emptied

LEMMA UpsertedType ==
    ASSUME TypeOK, NEW s \in Job(Hash), s.next < ChunkCount[s.splitting],
           points' = [points EXCEPT ![s.hash] = Written(s)]
    PROVE  PointsType' /\ OnePerId'
<1>1. /\ Written(s) \in SUBSET Point
      /\ \A a, b \in Written(s) : a.chunk = b.chunk => a = b
  BY WrittenType
<1>2. s.hash \in Hash
  OBVIOUS
<1> DEFINE W == Written(s)
<1>3. points' = [points EXCEPT ![s.hash] = W] /\ W \in SUBSET Point
      /\ \A a, b \in W : a.chunk = b.chunk => a = b
  BY <1>1
<1> HIDE DEF W
<1>4. \A h \in Hash : points'[h] = IF h = s.hash THEN W ELSE points[h]
  BY <1>3 DEF TypeOK
<1>5. points' \in [Hash -> SUBSET Point]
  BY <1>2, <1>3 DEF TypeOK
<1>6. \A h \in Hash : \A a, b \in points'[h] : a.chunk = b.chunk => a = b
  BY <1>3, <1>4 DEF TypeOK
<1> QED
  BY <1>5, <1>6 DEF PointsType, OnePerId

LEMMA SamePointsType ==
    ASSUME TypeOK, points' = points
    PROVE  PointsType' /\ OnePerId'
  BY DEF TypeOK, PointsType, OnePerId

LEMMA TypeParts ==
    TypeOK <=> /\ PointsType /\ OnePerId /\ NextInside
               /\ registry \subseteq Hash /\ torn \subseteq Hash /\ swept \subseteq Hash
               /\ overlapped \in [Hash -> SUBSET Splitting]
               /\ job \in [Process -> Job(Hash)]
               /\ current \in 1 .. Configs /\ resetting \in BOOLEAN
  BY DEF TypeOK, PointsType, OnePerId, NextInside

(* A process that moves on to pc with the rest of its job unchanged. *)
LEMMA GotoType ==
    ASSUME TypeOK, NEW p \in Process, NEW pc \in Stage, Goto(p, pc)
    PROVE  /\ job' \in [Process -> Job(Hash)]
           /\ job'[p] = [job[p] EXCEPT !.pc = pc]
           /\ \A q \in Process : q # p => job'[q] = job[q]
           /\ \A q \in Process : /\ job'[q].pc = IF q = p THEN pc ELSE job[q].pc
                                 /\ job'[q].next = job[q].next
                                 /\ job'[q].hash = job[q].hash
                                 /\ job'[q].splitting = job[q].splitting
  BY DEF TypeOK

LEMMA JobTInv ==
    ASSUME TInv, NEW p \in Process, JobStep(p)
    PROVE  TInv'
<1>0. TypeOK /\ Started /\ job[p] \in Job(Hash) /\ job[p].hash \in Hash
  BY DEF TInv, TypeOK
<1>t. /\ PointsType /\ OnePerId /\ NextInside
      /\ registry \subseteq Hash /\ torn \subseteq Hash /\ swept \subseteq Hash
      /\ overlapped \in [Hash -> SUBSET Splitting]
      /\ job \in [Process -> Job(Hash)]
      /\ current \in 1 .. Configs /\ resetting \in BOOLEAN
  BY <1>0, TypeParts
<1> SUFFICES TypeOK' /\ Started'
  BY DEF TInv
<1>1. ASSUME NEW h \in Hash, NEW v \in Splitting, Begin(p, h, v) PROVE TypeOK' /\ Started'
  <2>1. PointsType' /\ OnePerId'
    BY <1>0, <1>1, SamePointsType DEF Begin
  <2>2. overlapped' \in [Hash -> SUBSET Splitting] /\ swept' \subseteq Hash
    BY <1>1, <1>t DEF Begin, ActiveOn
  <2>3. job' \in [Process -> Job(Hash)]
    BY <1>1, <1>t DEF Begin
  <2>4. NextInside' /\ Started'
    BY <1>0, <1>1, <1>t DEF Begin, NextInside, Started
  <2> QED
    BY <1>1, <1>t, <2>1, <2>2, <2>3, <2>4 DEF Begin, history, TypeOK, PointsType, OnePerId, NextInside
<1>2. CASE Exists(p) \/ Prepare(p) \/ PrepareFails(p) \/ Register(p) \/ RegisterFails(p)
  <2>1. PointsType' /\ OnePerId'
    BY <1>0, <1>2, SamePointsType DEF Exists, Prepare, PrepareFails, Register, RegisterFails
  <2>2. \E pc \in {"idle", "prepare", "delete"} : Goto(p, pc) /\ (pc # "idle" => job[p].next = 0)
    BY <1>0, <1>2 DEF Exists, Prepare, PrepareFails, Register, RegisterFails, Started
  <2>3. job' \in [Process -> Job(Hash)] /\ NextInside' /\ Started'
    <3>1. PICK pc \in {"idle", "prepare", "delete"} : Goto(p, pc) /\ (pc # "idle" => job[p].next = 0)
      BY <2>2
    <3>2. pc \in Stage
      OBVIOUS
    <3> HIDE DEF Goto, Job, Stage
    <3>3. /\ job' \in [Process -> Job(Hash)]
          /\ \A q \in Process : /\ job'[q].pc = IF q = p THEN pc ELSE job[q].pc
                                /\ job'[q].next = job[q].next
                                /\ job'[q].splitting = job[q].splitting
      BY <1>0, <3>1, <3>2, GotoType
    <3> QED
      BY <1>0, <1>t, <3>1, <3>3 DEF NextInside, Started
  <2>4. /\ registry' \subseteq Hash
        /\ UNCHANGED <<torn, overlapped, swept, current, resetting>>
    BY <1>0, <1>2, <1>t DEF Exists, Prepare, PrepareFails, Register, RegisterFails, history
  <2> QED
    BY <1>t, <2>1, <2>3, <2>4 DEF TypeOK, PointsType, OnePerId, NextInside
<1>3. CASE DeleteByHash(p) \/ DeleteFails(p)
  <2>1. points' \in {points, Emptied(HashOf(p))}
    BY <1>3 DEF DeleteByHash, DeleteFails
  <2>2. PointsType' /\ OnePerId'
    BY <1>0, <1>t, <2>1, SamePointsType, EmptiedType
  <2>3. (Goto(p, "upsert") /\ job[p].next = 0) \/ Goto(p, "idle")
    BY <1>0, <1>3 DEF DeleteByHash, DeleteFails, Started
  <2>4. ChunkCount[job[p].splitting] > 0
    BY <1>0, IndexAssumption
  <2>5. job' \in [Process -> Job(Hash)] /\ NextInside' /\ Started'
    <3>1. CASE Goto(p, "upsert") /\ job[p].next = 0
      BY <1>0, <1>t, <2>4, <3>1, GotoType DEF NextInside, Started
    <3>2. CASE Goto(p, "idle")
      <4>1. "idle" \in Stage
        OBVIOUS
      <4> HIDE DEF Goto, Job, Stage
      <4>2. /\ job' \in [Process -> Job(Hash)]
            /\ \A q \in Process : /\ job'[q].pc = IF q = p THEN "idle" ELSE job[q].pc
                                  /\ job'[q].next = job[q].next
                                  /\ job'[q].splitting = job[q].splitting
        BY <1>0, <3>2, <4>1, GotoType
      <4> QED
        BY <1>0, <1>t, <4>2 DEF NextInside, Started
    <3> QED
      BY <2>3, <3>1, <3>2
  <2>6. torn' \subseteq Hash /\ UNCHANGED <<registry, overlapped, swept, current, resetting>>
    BY <1>0, <1>3, <1>t DEF DeleteByHash, DeleteFails, history
  <2> QED
    BY <1>t, <2>2, <2>5, <2>6 DEF TypeOK, PointsType, OnePerId, NextInside
<1>4. CASE Upsert(p) \/ UpsertFails(p)
  <2>1. job[p].next < ChunkCount[job[p].splitting]
    BY <1>4, <1>t DEF Upsert, UpsertFails, NextInside
  <2>2. points' = points \/ points' = [points EXCEPT ![job[p].hash] = Written(job[p])]
    BY <1>4 DEF Upsert, UpsertFails
  <2>3. PointsType' /\ OnePerId'
    BY <1>0, <2>1, <2>2, SamePointsType, UpsertedType
  <2>4. BatchEnd(job[p]) \in Nat /\ BatchEnd(job[p]) <= ChunkCount[job[p].splitting]
    BY <1>0, <2>1, BatchBounds
  <2>5. job' \in [Process -> Job(Hash)] /\ NextInside' /\ Started'
    <3>1. CASE Upsert(p)
      <4>1. /\ AfterBatch(job[p]) \in Job(Hash)
            /\ AfterBatch(job[p]).pc \in {"upsert", "register"}
            /\ AfterBatch(job[p]).splitting = job[p].splitting
            /\ AfterBatch(job[p]).next = BatchEnd(job[p])
            /\ AfterBatch(job[p]).pc = "upsert" =>
                 BatchEnd(job[p]) # ChunkCount[job[p].splitting]
        BY <1>0, <2>4 DEF AfterBatch
      <4>2. ChunkCount[job[p].splitting] \in Nat
        BY <1>0, IndexAssumption
      <4>3. job' = [job EXCEPT ![p] = AfterBatch(job[p])]
        BY <3>1 DEF Upsert
      <4>4. job' \in [Process -> Job(Hash)]
        BY <1>t, <4>1, <4>3
      <4>5. ASSUME NEW q \in Process
            PROVE  /\ job'[q].pc = "upsert" => job'[q].next < ChunkCount[job'[q].splitting]
                   /\ job'[q].pc \in {"exists", "prepare", "delete"} => job'[q].next = 0
        <5>1. CASE q = p
          <6>1. job'[q] = AfterBatch(job[p])
            BY <1>t, <4>3, <5>1
          <6> QED
            BY <2>4, <4>1, <4>2, <6>1
        <5>2. CASE q # p
          <6>1. job'[q] = job[q]
            BY <1>t, <4>3, <5>2
          <6> QED
            BY <1>0, <1>t, <6>1 DEF NextInside, Started
        <5> QED
          BY <5>1, <5>2
      <4> QED
        BY <4>4, <4>5 DEF NextInside, Started
    <3>2. CASE UpsertFails(p)
      <4>1. Goto(p, "idle") /\ "idle" \in Stage
        BY <3>2 DEF UpsertFails
      <4> HIDE DEF Goto, Job, Stage
      <4>2. /\ job' \in [Process -> Job(Hash)]
            /\ \A q \in Process : /\ job'[q].pc = IF q = p THEN "idle" ELSE job[q].pc
                                  /\ job'[q].next = job[q].next
                                  /\ job'[q].splitting = job[q].splitting
        BY <1>0, <4>1, GotoType
      <4> QED
        BY <1>0, <1>t, <4>2 DEF NextInside, Started
    <3> QED
      BY <1>4, <3>1, <3>2
  <2>6. torn' \subseteq Hash /\ UNCHANGED <<registry, overlapped, swept, current, resetting>>
    BY <1>0, <1>4, <1>t DEF Upsert, UpsertFails, history
  <2> QED
    BY <1>t, <2>3, <2>5, <2>6 DEF TypeOK, PointsType, OnePerId, NextInside
<1>5. CASE Restart(p)
  <2>1. PointsType' /\ OnePerId'
    BY <1>0, <1>5, SamePointsType DEF Restart
  <2>2. [job[p] EXCEPT !.pc = "idle", !.splitting.config = current] \in Job(Hash)
    BY <1>0, <1>t DEF Splitting
  <2>4. /\ job' \in [Process -> Job(Hash)] /\ job'[p].pc = "idle"
        /\ \A q \in Process : q # p => job'[q] = job[q]
    BY <1>5, <1>t, <2>2 DEF Restart
  <2>5. NextInside' /\ Started'
    BY <1>0, <1>t, <2>4 DEF NextInside, Started
  <2>3. torn' \subseteq Hash /\ UNCHANGED <<registry, overlapped, swept, current, resetting>>
    BY <1>0, <1>5, <1>t DEF Restart
  <2> QED
    BY <1>t, <2>1, <2>3, <2>4, <2>5 DEF TypeOK, PointsType, OnePerId, NextInside
<1> QED
  BY <1>1, <1>2, <1>3, <1>4, <1>5 DEF JobStep, Begins

LEMMA NextTInv == TInv /\ [Next]_vars => TInv'
<1> SUFFICES ASSUME TInv, [Next]_vars PROVE TypeOK' /\ Started'
  BY DEF TInv
<1>0. TypeOK /\ Started
  BY DEF TInv
<1>1. CASE \E p \in Process : JobStep(p)
  BY <1>1, JobTInv DEF TInv
<1>2. CASE ChangeConfig
  <2>1. current' \in 1 .. Configs
    BY <1>0, <1>2, IndexAssumption DEF ChangeConfig, TypeOK, Splitting
  <2> QED
    BY <1>0, <1>2, <2>1 DEF ChangeConfig, TypeOK, Started, history
<1>3. CASE ClearRegistry
  BY <1>0, <1>3 DEF ClearRegistry, TypeOK, Started
<1>5. CASE ClearIndex \/ ResetDies
  BY <1>0, <1>5 DEF ClearIndex, ResetDies, TypeOK, Started, history
<1>4. CASE UNCHANGED vars
  BY <1>0, <1>4 DEF vars, history, TypeOK, Started
<1> QED
  BY <1>1, <1>2, <1>3, <1>4, <1>5 DEF Next

(* Every point, row and job is of its type, one point per chunk number     *)
(* (TypeOK).                                                               *)
THEOREM TypeCorrect == Spec => []TypeOK
<1>1. TInv => TypeOK
  BY DEF TInv
<1> QED
  BY <1>1, InitTInv, NextTInv, PTL DEF Spec

-----------------------------------------------------------------------------
(* A row means a complete document.                                        *)

(* A step touches the job, the points and the row of one document.         *)
LEMMA OthersUntouched ==
    ASSUME TInv, NEW p \in Process, JobStep(p)
    PROVE  /\ \A q \in Process : q # p => job'[q] = job[q]
           /\ \A h \in Hash : Undisturbed(h)' => Undisturbed(h)
           /\ \A h \in Hash : h # HashOf(p) =>
                points'[h] = points[h] /\ (h \in registry' <=> h \in registry)
           /\ (\E h \in Hash : Begins(p, h)) \/ HashOf(p)' = HashOf(p)
           /\ UNCHANGED resetting
<1> USE DEF TInv, TypeOK, history, Undisturbed
<1>1. ASSUME NEW h \in Hash, Begins(p, h)
      PROVE  /\ \A q \in Process : q # p => job'[q] = job[q]
             /\ \A g \in Hash : Undisturbed(g)' => Undisturbed(g)
             /\ UNCHANGED <<points, registry, resetting>>
  BY <1>1 DEF Begins, Begin
<1>2. CASE Exists(p) \/ Prepare(p) \/ PrepareFails(p) \/ RegisterFails(p)
  BY <1>2 DEF Exists, Prepare, PrepareFails, RegisterFails
<1>3. CASE DeleteByHash(p) \/ DeleteFails(p)
  BY <1>3 DEF DeleteByHash, DeleteFails, Emptied
<1>4. CASE Upsert(p) \/ UpsertFails(p)
  <2> DEFINE W == Written(job[p])
  <2>1. AfterBatch(job[p]).hash = job[p].hash
    BY DEF AfterBatch
  <2>2. points' = points \/ points' = [points EXCEPT ![HashOf(p)] = W]
    BY <1>4 DEF Upsert, UpsertFails
  <2>3. job' = [job EXCEPT ![p] = AfterBatch(job[p])] \/ Goto(p, "idle")
    BY <1>4 DEF Upsert, UpsertFails
  <2> HIDE DEF W
  <2>4. UNCHANGED <<registry, overlapped, swept, resetting>>
    BY <1>4 DEF Upsert, UpsertFails
  <2>5. \A h \in Hash : h # HashOf(p) => points'[h] = points[h]
    BY <2>2
  <2>6. /\ \A q \in Process : q # p => job'[q] = job[q]
        /\ HashOf(p)' = HashOf(p)
    BY <2>1, <2>3
  <2> QED
    BY <2>4, <2>5, <2>6
<1>5. CASE Register(p)
  BY <1>5 DEF Register
<1>6. CASE Restart(p)
  BY <1>6 DEF Restart
<1> QED
  BY <1>1, <1>2, <1>3, <1>4, <1>5, <1>6 DEF JobStep, Begins

(* The document a step works on, when p is the only one on it. *)
LEMMA OwnDocument ==
    ASSUME TInv, NEW p \in Process, JobStep(p), Active(p),
           HashOf(p) \in registry => Whole(HashOf(p)), WorkFits(p)
    PROVE  /\ HashOf(p)' = HashOf(p)
           /\ HashOf(p) \in registry' => Whole(HashOf(p))'
           /\ Active(p)' => WorkFits(p)'
<1> DEFINE g == HashOf(p)
<1>0. g \in Hash /\ job[p] \in Job(Hash) /\ TypeOK /\ Started /\ job \in [Process -> Job(Hash)]
  BY DEF TInv, TypeOK
<1> USE DEF WorkFits, Whole
<1>1. ~ \E h \in Hash : Begins(p, h)
  BY DEF Begins, Begin
<1>2. CASE Exists(p) \/ Prepare(p) \/ PrepareFails(p) \/ RegisterFails(p)
  BY <1>0, <1>2 DEF Exists, Prepare, PrepareFails, RegisterFails, Working
<1>3. CASE DeleteByHash(p)
  <2>1. /\ job'[p].pc = "upsert" /\ job'[p].hash = g /\ job'[p].next = 0
        /\ job'[p].splitting \in Splitting
    BY <1>0, <1>3 DEF DeleteByHash, Started
  <2>2. points'[g] = {} /\ registry' = registry
    BY <1>0, <1>3 DEF DeleteByHash, Emptied, TypeOK
  <2>3. g \notin registry
    BY <1>3 DEF DeleteByHash, Working
  <2> QED
    BY <2>1, <2>2, <2>3, ChunksEmpty
<1>4. CASE DeleteFails(p) \/ UpsertFails(p)
  BY <1>0, <1>4 DEF DeleteFails, UpsertFails, Working
<1>5. CASE Upsert(p)
  <2>1. g \notin registry /\ points[g] = Chunks(job[p].splitting, 0, job[p].next)
    BY <1>5 DEF Upsert, Working
  <2>2. job[p].next < ChunkCount[job[p].splitting]
    BY <1>0, <1>5 DEF Upsert, TypeOK
  <2>3. points'[g] = Written(job[p])
    BY <1>0, <1>5 DEF Upsert, TypeOK
  <2>4. Written(job[p]) = Chunks(job[p].splitting, 0, BatchEnd(job[p]))
    BY <1>0, <2>1, <2>2, WrittenExtends
  <2>5. job'[p] = AfterBatch(job[p]) /\ registry' = registry
    BY <1>0, <1>5 DEF Upsert
  <2>6. /\ job'[p].hash = g
        /\ job'[p].splitting = job[p].splitting
        /\ job'[p].next = BatchEnd(job[p])
        /\ job'[p].pc = IF BatchEnd(job[p]) = ChunkCount[job[p].splitting] THEN "register"
                                                                       ELSE "upsert"
    BY <1>0, <2>5 DEF AfterBatch
  <2> QED
    BY <2>1, <2>3, <2>4, <2>5, <2>6 DEF Document
<1>6. CASE Register(p)
  <2>1. points' = points /\ job'[p].pc = "idle" /\ job'[p].hash = g
    BY <1>0, <1>6 DEF Register
  <2>2. points[g] = Document(job[p].splitting) /\ job[p].splitting \in Splitting
    BY <1>0, <1>6 DEF Register
  <2> QED
    BY <2>1, <2>2
<1>7. CASE Restart(p)
  BY <1>0, <1>7 DEF Restart
<1> QED
  BY <1>1, <1>2, <1>3, <1>4, <1>5, <1>6, <1>7 DEF JobStep, Begins

(* A job begins alone on a document whose jobs do not overlap. *)
LEMMA BeginsAlone ==
    ASSUME TInv, NEW p \in Process, NEW h \in Hash, Begins(p, h), Undisturbed(h)'
    PROVE  /\ ActiveOn(h) = {} /\ ~ resetting
           /\ job'[p].hash = h /\ job'[p].pc = "exists"
           /\ \A q \in Process : q # p => job'[q] = job[q]
<1>1. ActiveOn(h) # {} => overlapped'[h] # {}
  BY DEF Begins, Begin, TInv, TypeOK
<1>2. overlapped'[h] = {} /\ h \notin swept'
  BY DEF Undisturbed
<1>3. ~ resetting
  BY <1>2 DEF Begins, Begin
<1>4. ActiveOn(h) = {}
  BY <1>1, <1>2
<1> QED
  BY <1>3, <1>4 DEF Begins, Begin, TInv, TypeOK

LEMMA JobClean ==
    ASSUME TInv, NEW p \in Process, JobStep(p), NEW h \in Hash, Clean(h), Undisturbed(h)'
    PROVE  Clean(h)'
<1>0. Undisturbed(h) /\ resetting' = resetting
  BY OthersUntouched
<1>1. /\ h \in registry => Whole(h)
      /\ \A q, r \in ActiveOn(h) : q = r
      /\ \A q \in ActiveOn(h) : WorkFits(q)
      /\ resetting => h \notin registry /\ ActiveOn(h) = {}
  BY <1>0 DEF Clean
<1>2. \A q \in Process : q # p => job'[q] = job[q]
  BY OthersUntouched
<1>3. CASE Begins(p, h)
  <2>1. /\ ActiveOn(h) = {} /\ job'[p].hash = h /\ job'[p].pc = "exists"
        /\ ~ resetting /\ UNCHANGED <<points, registry>>
    BY <1>3, BeginsAlone DEF Begins, Begin
  <2>2. ActiveOn(h)' = {p}
    BY <1>2, <2>1 DEF ActiveOn
  <2> QED
    BY <1>0, <1>1, <2>1, <2>2 DEF Clean, Whole, WorkFits, Working
<1>4. CASE ~ Begins(p, h) /\ p \in ActiveOn(h)
  <2>1. /\ job'[p].hash = h
        /\ h \in registry' => Whole(h)'
        /\ Active(p)' => WorkFits(p)'
    BY <1>1, <1>4, OwnDocument DEF ActiveOn
  <2>2. ActiveOn(h) = {p}
    BY <1>1, <1>4
  <2>3. ActiveOn(h)' \subseteq {p}
    BY <1>2, <2>2 DEF ActiveOn
  <2>4. \A q \in ActiveOn(h)' : Active(p)' /\ q = p
    BY <2>3 DEF ActiveOn
  <2>5. ASSUME NEW q \in ActiveOn(h)' PROVE WorkFits(q)'
    <3>1. q = p /\ WorkFits(p)'
      BY <2>1, <2>4
    <3> QED
      BY <3>1
  <2>6. \A q, r \in ActiveOn(h)' : q = r
    BY <2>3
  <2> QED
    BY <1>0, <1>1, <1>4, <2>1, <2>5, <2>6 DEF Clean
<1>5. CASE ~ Begins(p, h) /\ p \notin ActiveOn(h)
  <2>1. p \notin ActiveOn(h)' /\ points'[h] = points[h] /\ (h \in registry' <=> h \in registry)
    <3>1. CASE \E g \in Hash : Begins(p, g)
      <4>1. PICK g \in Hash : Begins(p, g) /\ g # h
        BY <1>5, <3>1
      <4>2. job'[p].hash = g /\ UNCHANGED <<points, registry>>
        BY <4>1 DEF Begins, Begin, TInv, TypeOK
      <4> QED
        BY <4>1, <4>2 DEF ActiveOn
    <3>2. CASE HashOf(p) # h /\ HashOf(p)' = HashOf(p)
      BY <3>2, OthersUntouched DEF ActiveOn
    <3>3. CASE ~ Active(p) /\ ~ \E g \in Hash : Begins(p, g)
      <4>1. Restart(p)
        BY <3>3 DEF JobStep, Begins, Exists, Prepare, PrepareFails, DeleteByHash, DeleteFails, Upsert,
             UpsertFails, Register, RegisterFails
      <4> QED
        BY <4>1 DEF Restart, ActiveOn, TInv, TypeOK
    <3> QED
      BY <1>5, <3>1, <3>2, <3>3, OthersUntouched DEF ActiveOn
  <2>2. ActiveOn(h)' = ActiveOn(h)
    BY <1>2, <1>5, <2>1 DEF ActiveOn
  <2>3. ASSUME NEW q \in ActiveOn(h) PROVE WorkFits(q)'
    <3>1. q \in Process /\ q # p /\ job'[q] = job[q] /\ job[q].hash = h /\ WorkFits(q)
      BY <1>1, <1>2, <1>5 DEF ActiveOn
    <3> QED
      BY <2>1, <3>1 DEF WorkFits
  <2> QED
    BY <1>0, <1>1, <2>1, <2>2, <2>3 DEF Clean, Whole
<1> QED
  BY <1>3, <1>4, <1>5

LEMMA NextIInv == IInv /\ [Next]_vars => IInv'
<1> SUFFICES ASSUME IInv, [Next]_vars PROVE IInv'
  OBVIOUS
<1>0. TInv /\ TInv' /\ \A h \in Hash : Clean(h)
  BY NextTInv DEF IInv, TInv
<1> SUFFICES ASSUME NEW h \in Hash, Undisturbed(h)' PROVE Clean(h)'
  BY <1>0 DEF IInv, TInv, Clean
<1>1. CASE \E p \in Process : JobStep(p)
  BY <1>0, <1>1, JobClean
<1>2. CASE ChangeConfig \/ UNCHANGED vars
  BY <1>0, <1>2 DEF ChangeConfig, vars, history, Clean, Undisturbed, Whole, WorkFits, ActiveOn
<1>3. CASE ClearRegistry
  <2>1. h \notin registry' /\ ActiveOn(h)' = {}
    BY <1>3 DEF ClearRegistry, Undisturbed, ActiveOn
  <2> QED
    BY <2>1 DEF Clean
<1>4. CASE ClearIndex \/ ResetDies
  <2>1. Undisturbed(h) /\ resetting /\ registry' = registry /\ ActiveOn(h)' = ActiveOn(h)
    BY <1>4 DEF ClearIndex, ResetDies, history, Undisturbed, ActiveOn
  <2> QED
    BY <1>0, <2>1 DEF Clean
<1> QED
  BY <1>1, <1>2, <1>3, <1>4 DEF Next

(* A row means that the document is completely indexed, whatever fails or  *)
(* dies, unless two of its jobs, or a job and reset_index, ran at the same *)
(* time and no reset found it at rest since (RowMeansComplete).            *)
THEOREM RowsComplete == Spec => []RowMeansComplete
<1>1. Init => IInv
  <2> SUFFICES ASSUME Init PROVE IInv
    OBVIOUS
  <2>1. registry = {} /\ resetting = FALSE /\ \A p \in Process : job[p].pc = "idle"
    BY DEF Init
  <2>2. TInv /\ \A h \in Hash : ActiveOn(h) = {}
    BY <2>1, InitTInv DEF ActiveOn
  <2> QED
    BY <2>1, <2>2 DEF IInv, TInv, Clean
<1>2. IInv => RowMeansComplete
  BY DEF IInv, Clean, Undisturbed, RowMeansComplete, TypeOK
<1> QED
  BY <1>1, <1>2, NextIInv, PTL DEF Spec

-----------------------------------------------------------------------------
(* Jobs of a document at one time.                                         *)

(* None was cut short, and those that overlapped split it one way.         *)
Quiet(h) == h \notin torn \cup swept /\ SplitAlike(h)

(* Those that have deleted its points and not finished. *)
Writers(h) == {p \in ActiveOn(h) : job[p].pc \in {"upsert", "register"}}

(* Its points are those of one splitting: all, or at least what the job    *)
(* that deleted them last has written since.                               *)
Rewritten(h, v) ==
    /\ points[h] \subseteq Document(v)
    /\ \/ points[h] = Document(v)
       \/ \E p \in Writers(h) : Chunks(v, 0, job[p].next) \subseteq points[h]

Overlap(h) == \A p, q \in ActiveOn(h) : p # q => job[p].splitting \in overlapped[h]
AtRest(h) == resetting /\ h \notin swept => h \notin registry /\ ActiveOn(h) = {}
Kept(h) ==
    /\ \A p \in Writers(h) : Rewritten(h, job[p].splitting)
    /\ h \in registry /\ Writers(h) = {} => Whole(h)

Complete == \A p \in Process : At(p, "register") => job[p].next = ChunkCount[job[p].splitting]
Shared(h) == Overlap(h) /\ AtRest(h) /\ (Quiet(h) => Kept(h))
QInv == TInv /\ Complete /\ \A h \in Hash : Shared(h)

(* A batch of the splitting that is there replaces points by themselves. *)
LEMMA WrittenAgain ==
    ASSUME TypeOK, NEW s \in Job(Hash), s.next < ChunkCount[s.splitting],
           points[s.hash] \subseteq Document(s.splitting)
    PROVE  /\ Written(s) \subseteq Document(s.splitting) /\ points[s.hash] \subseteq Written(s)
           /\ Chunks(s.splitting, 0, s.next) \subseteq points[s.hash] =>
                Chunks(s.splitting, 0, BatchEnd(s)) \subseteq Written(s)
<1> DEFINE v == s.splitting
           n == s.next
           m == BatchEnd(s)
<1>1. /\ n \in Nat /\ m \in Nat /\ n < m /\ m <= ChunkCount[v] /\ ChunkCount[v] \in Nat
      /\ v \in Splitting
  BY BatchBounds, IndexAssumption
<1>2. \A a \in Document(v) : a.chunk \in 0 .. ChunkCount[v] - 1 /\ a = [chunk |-> a.chunk, splitting |-> v]
  BY DEF Document, Chunks
<1>3. Chunks(v, n, m) \subseteq Document(v)
  <2>1. \A i \in n .. m - 1 : i \in 0 .. ChunkCount[v] - 1
    BY <1>1
  <2> QED
    BY <2>1 DEF Document, Chunks
<1>4. \A a \in Document(v) : a.chunk \in n .. m - 1 => a \in Chunks(v, n, m)
  BY <1>2 DEF Chunks
<1>5. \A a \in Chunks(v, 0, m) : a \in Chunks(v, 0, n) \/ a \in Chunks(v, n, m)
  <2>1. \A i \in 0 .. m - 1 : i \in 0 .. n - 1 \/ i \in n .. m - 1
    BY <1>1
  <2> QED
    BY <2>1 DEF Chunks
<1>6. Written(s) = {a \in points[s.hash] : a.chunk \notin n .. m - 1} \cup Chunks(v, n, m)
  BY DEF Written
<1> HIDE DEF v, n, m
<1>7. points[s.hash] \subseteq Document(v)
  BY DEF v
<1>8. /\ Written(s) \subseteq Document(v) /\ points[s.hash] \subseteq Written(s)
      /\ Chunks(v, 0, n) \subseteq points[s.hash] => Chunks(v, 0, m) \subseteq Written(s)
  BY <1>3, <1>4, <1>5, <1>6, <1>7
<1> QED
  BY <1>8 DEF v, n, m

(* A step ends no overlap and heals no document. *)
LEMMA QuietBefore ==
    ASSUME TInv, NEW p \in Process, JobStep(p), NEW h \in Hash
    PROVE  /\ overlapped[h] \subseteq overlapped'[h] /\ overlapped'[h] \subseteq Splitting
           /\ torn \subseteq torn' /\ swept \subseteq swept'
           /\ Quiet(h)' => Quiet(h)
<1>0. TInv' /\ overlapped \in [Hash -> SUBSET Splitting]
  BY JobTInv DEF TInv, TypeOK
<1>1. overlapped[h] \subseteq overlapped'[h] /\ overlapped'[h] \subseteq Splitting
  <2>1. CASE \E g \in Hash : Begins(p, g)
    BY <1>0, <2>1 DEF Begins, Begin, TInv, TypeOK
  <2>2. CASE UNCHANGED overlapped
    BY <1>0, <2>2
  <2> QED
    BY <2>1, <2>2 DEF JobStep, Begins, Exists, Prepare, PrepareFails, DeleteByHash, DeleteFails, Upsert,
       UpsertFails, Register, RegisterFails, Restart, history
<1>2. torn \subseteq torn' /\ swept \subseteq swept'
  BY DEF JobStep, Begins, Begin, Exists, Prepare, PrepareFails, DeleteByHash, DeleteFails, Upsert,
     UpsertFails, Register, RegisterFails, Restart, history
<1> QED
  BY <1>1, <1>2 DEF Quiet, SplitAlike

(* A job begins. *)
LEMMA BeginShared ==
    ASSUME TInv, NEW p \in Process, NEW h \in Hash, Begins(p, h), Shared(h)
    PROVE  Shared(h)'
<1>0. job \in [Process -> Job(Hash)] /\ overlapped \in [Hash -> SUBSET Splitting] /\ p \notin ActiveOn(h)
  BY DEF Begins, Begin, ActiveOn, TInv, TypeOK
<1>v. PICK v \in Splitting : Begin(p, h, v)
  BY DEF Begins
<1>1. /\ job'[p] = [pc |-> "exists", hash |-> h, splitting |-> v, next |-> 0]
      /\ \A q \in Process : q # p => job'[q] = job[q]
      /\ UNCHANGED <<points, registry, resetting>>
      /\ overlapped'[h] = IF ActiveOn(h) # {}
                          THEN overlapped[h] \cup {v} \cup {job[q].splitting : q \in ActiveOn(h)}
                          ELSE overlapped[h]
      /\ resetting => h \in swept'
  BY <1>0, <1>v DEF Begin
<1>2. ActiveOn(h)' = ActiveOn(h) \cup {p} /\ Writers(h)' = Writers(h)
  BY <1>0, <1>1 DEF ActiveOn, Writers
<1>3. Overlap(h)'
  <2> SUFFICES ASSUME NEW q \in ActiveOn(h) \cup {p}, NEW r \in ActiveOn(h) \cup {p}, q # r
               PROVE  job'[q].splitting \in overlapped'[h]
    BY <1>2 DEF Overlap
  <2>1. /\ ActiveOn(h) # {}
        /\ job'[q].splitting = v \/ (q \in ActiveOn(h) /\ job'[q].splitting = job[q].splitting)
    BY <1>1 DEF ActiveOn
  <2> QED
    BY <1>1, <2>1
<1>4. AtRest(h)'
  BY <1>1 DEF AtRest
<1>5. ASSUME Quiet(h)' PROVE Kept(h)'
  <2>1. JobStep(p)
    BY DEF JobStep, Begins
  <2>2. Kept(h)
    BY <1>5, <2>1, QuietBefore DEF Shared
  <2>3. \A q \in Writers(h) : job'[q] = job[q]
    BY <1>0, <1>1 DEF Writers, ActiveOn
  <2> QED
    BY <1>1, <1>2, <2>2, <2>3 DEF Kept, Rewritten, Whole
<1> QED
  BY <1>3, <1>4, <1>5 DEF Shared

(* A step on another document, or of a process that is idle. *)
LEMMA ElsewhereShared ==
    ASSUME TInv, NEW p \in Process, JobStep(p), NEW h \in Hash, Shared(h),
           ~ Begins(p, h), p \notin ActiveOn(h)
    PROVE  Shared(h)'
<1>1. /\ p \notin ActiveOn(h)' /\ points'[h] = points[h] /\ (h \in registry' <=> h \in registry)
      /\ resetting' = resetting /\ \A q \in Process : q # p => job'[q] = job[q]
  <2>1. CASE \E g \in Hash : Begins(p, g)
    <3>1. PICK g \in Hash : Begins(p, g) /\ g # h
      BY <2>1
    <3>2. job'[p].hash = g /\ UNCHANGED <<points, registry>>
      BY <3>1 DEF Begins, Begin, TInv, TypeOK
    <3> QED
      BY <3>1, <3>2, OthersUntouched DEF ActiveOn
  <2>2. CASE HashOf(p) # h /\ HashOf(p)' = HashOf(p)
    BY <2>2, OthersUntouched DEF ActiveOn
  <2>3. CASE ~ Active(p) /\ ~ \E g \in Hash : Begins(p, g)
    <3>1. Restart(p)
      BY <2>3 DEF JobStep, Begins, Exists, Prepare, PrepareFails, DeleteByHash, DeleteFails, Upsert,
           UpsertFails, Register, RegisterFails
    <3> QED
      BY <3>1, OthersUntouched DEF Restart, ActiveOn, TInv, TypeOK
  <2> QED
    BY <2>1, <2>2, <2>3, OthersUntouched DEF ActiveOn
<1>2. ActiveOn(h)' = ActiveOn(h) /\ \A q \in ActiveOn(h) : job'[q] = job[q]
  BY <1>1 DEF ActiveOn
<1>3. Writers(h)' = Writers(h) /\ \A q \in Writers(h) : job'[q] = job[q]
  BY <1>2 DEF Writers
<1>4. Overlap(h)'
  BY <1>2, QuietBefore DEF Overlap, Shared
<1>5. AtRest(h)'
  BY <1>1, <1>2, QuietBefore DEF AtRest, Shared
<1>6. ASSUME Quiet(h)' PROVE Kept(h)'
  <2>1. Kept(h)
    BY <1>6, QuietBefore DEF Shared
  <2> QED
    BY <1>1, <1>3, <2>1 DEF Kept, Rewritten, Whole
<1> QED
  BY <1>4, <1>5, <1>6 DEF Shared

(* A step of a job on its own document: what it deletes or writes is what  *)
(* the others on it write, and it leaves only when its part is there.      *)
LEMMA OwnShared ==
    ASSUME TInv, Complete, NEW p \in Process, JobStep(p), NEW h \in Hash, Shared(h),
           p \in ActiveOn(h)
    PROVE  Shared(h)'
<1> DEFINE v == job[p].splitting
<1>0. /\ job \in [Process -> Job(Hash)] /\ job[p] \in Job(Hash) /\ TypeOK /\ Started
      /\ job[p].hash = h /\ Active(p) /\ v \in Splitting /\ ~ \E g \in Hash : Begins(p, g)
  BY DEF TInv, TypeOK, ActiveOn, Begins, Begin
<1>1. /\ \A q \in Process : q # p => job'[q] = job[q]
      /\ HashOf(p)' = h /\ resetting' = resetting
  BY <1>0, OthersUntouched
<1>2. Active(p)' => job'[p].splitting = v
  <2>1. CASE Upsert(p)
    BY <1>0, <2>1 DEF Upsert, AfterBatch
  <2>2. CASE Restart(p)
    BY <1>0, <2>2 DEF Restart
  <2>3. CASE \E pc \in Stage : Goto(p, pc)
    BY <1>0, <2>3
  <2> QED
    BY <1>0, <2>1, <2>2, <2>3 DEF JobStep, Begins, Exists, Prepare, PrepareFails, DeleteByHash,
       DeleteFails, UpsertFails, Register, RegisterFails
<1>3. /\ ActiveOn(h)' \subseteq ActiveOn(h)
      /\ \A q \in ActiveOn(h)' : job'[q].splitting = job[q].splitting
  BY <1>0, <1>1, <1>2 DEF ActiveOn
<1>4. Overlap(h)'
  BY <1>3, QuietBefore DEF Overlap, Shared
<1>5. AtRest(h)'
  BY <1>1, QuietBefore DEF AtRest, Shared
<1>6. ASSUME Quiet(h)' PROVE Kept(h)'
  <2>1. Kept(h) /\ Quiet(h)
    BY <1>6, QuietBefore DEF Shared
  <2>2. \A q \in ActiveOn(h) : job[q].splitting = v
    <3> SUFFICES ASSUME NEW q \in ActiveOn(h), q # p PROVE job[q].splitting = v
      OBVIOUS
    <3>1. job[q].splitting \in overlapped[h] /\ v \in overlapped[h]
      BY DEF Shared, Overlap
    <3> QED
      BY <2>1, <3>1 DEF Quiet, SplitAlike
  <2>3. h \notin torn'
    BY <1>6 DEF Quiet
  <2>4. /\ Writers(h)' \ {p} = Writers(h) \ {p}
        /\ p \in Writers(h) /\ p \in Writers(h)' => Writers(h)' = Writers(h)
        /\ p \notin Writers(h) /\ p \notin Writers(h)' => Writers(h)' = Writers(h)
        /\ \A q \in Writers(h) \ {p} : job'[q] = job[q] /\ job[q].splitting = v
        /\ p \in Writers(h) <=> job[p].pc \in {"upsert", "register"}
        /\ p \in Writers(h)' <=> job'[p].pc \in {"upsert", "register"}
    BY <1>0, <1>1, <2>2 DEF Writers, ActiveOn
  <2>5. CASE \/ Exists(p) \/ Prepare(p) \/ PrepareFails(p)
             \/ Restart(p) /\ job[p].pc \notin {"upsert", "register"}
    <3>1. /\ UNCHANGED <<points, registry>> /\ job[p].pc \notin {"upsert", "register"}
          /\ job'[p].pc \notin {"upsert", "register"}
      BY <1>0, <2>5 DEF Exists, Prepare, PrepareFails, Restart
    <3>2. Writers(h)' = Writers(h)
      BY <2>4, <3>1
    <3> QED
      BY <2>1, <2>4, <3>1, <3>2 DEF Kept, Rewritten, Whole
  <2>6. CASE DeleteByHash(p)
    <3>1. points'[h] = {} /\ job'[p].pc = "upsert" /\ job'[p].splitting = v /\ job'[p].next = 0
      BY <1>0, <2>6 DEF DeleteByHash, Emptied, TypeOK, Started
    <3>2. p \in Writers(h)' /\ \A q \in Writers(h)' : job'[q].splitting = v
      BY <2>4, <3>1
    <3>3. Rewritten(h, v)'
      BY <1>0, <3>1, <3>2, ChunksEmpty DEF Rewritten
    <3> QED
      BY <3>1, <3>2, <3>3 DEF Kept, Rewritten
  <2>7. CASE DeleteFails(p) \/ UpsertFails(p) \/ (Restart(p) /\ At(p, "upsert"))
    BY <1>0, <2>3, <2>7 DEF DeleteFails, UpsertFails, Restart
  <2>8. CASE Upsert(p)
    <3>1. /\ job[p].pc = "upsert" /\ job[p].next < ChunkCount[v]
          /\ points'[h] = Written(job[p]) /\ job'[p] = AfterBatch(job[p])
      BY <1>0, <2>8 DEF Upsert, TypeOK
    <3>2. /\ job'[p].pc \in {"upsert", "register"} /\ job'[p].splitting = v
          /\ job'[p].next = BatchEnd(job[p])
      BY <1>0, <3>1 DEF AfterBatch
    <3>3. p \in Writers(h) /\ Writers(h)' = Writers(h)
      BY <2>4, <3>1, <3>2
    <3>4. Rewritten(h, v)
      BY <2>1, <3>3 DEF Kept
    <3>5. /\ points'[h] \subseteq Document(v) /\ points[h] \subseteq points'[h]
          /\ Chunks(v, 0, job[p].next) \subseteq points[h] => Chunks(v, 0, job'[p].next) \subseteq points'[h]
      BY <1>0, <3>1, <3>2, <3>4, WrittenAgain DEF Rewritten
    <3>6. /\ points'[h] \subseteq Document(v)
          /\ points'[h] = Document(v) \/ \E q \in Writers(h)' : Chunks(v, 0, job'[q].next) \subseteq points'[h]
      BY <2>4, <3>3, <3>4, <3>5 DEF Rewritten
    <3>7. Writers(h)' # {} /\ \A q \in Writers(h)' : job'[q].splitting = v
      BY <2>4, <3>2, <3>3
    <3> QED
      BY <3>6, <3>7 DEF Kept, Rewritten
  <2>9. CASE Register(p) \/ RegisterFails(p) \/ (Restart(p) /\ At(p, "register"))
    <3>1. points' = points /\ job[p].pc = "register" /\ job'[p].pc = "idle"
      BY <1>0, <2>9 DEF Register, RegisterFails, Restart
    <3>2. p \in Writers(h) /\ Writers(h)' = Writers(h) \ {p}
      BY <2>4, <3>1
    <3>3. Rewritten(h, v)
      BY <2>1, <3>2 DEF Kept
    <3>4. Chunks(v, 0, job[p].next) = Document(v)
      BY <3>1 DEF Complete, Document
    <3>5. \/ points[h] = Document(v)
          \/ \E q \in Writers(h) \ {p} : Chunks(v, 0, job[q].next) \subseteq points[h]
      BY <3>3, <3>4 DEF Rewritten
    <3>6. /\ points'[h] \subseteq Document(v)
          /\ points'[h] = Document(v) \/ \E q \in Writers(h)' : Chunks(v, 0, job'[q].next) \subseteq points'[h]
      BY <2>4, <3>1, <3>2, <3>3, <3>5 DEF Rewritten
    <3>7. \A q \in Writers(h)' : job'[q].splitting = v
      BY <2>4, <3>2
    <3>8. Writers(h)' = {} => Whole(h)'
      BY <1>0, <3>6 DEF Whole
    <3> QED
      BY <3>6, <3>7, <3>8 DEF Kept, Rewritten
  <2> QED
    BY <1>0, <2>5, <2>6, <2>7, <2>8, <2>9 DEF JobStep, Begins
<1> QED
  BY <1>4, <1>5, <1>6 DEF Shared

LEMMA JobComplete == ASSUME TInv, Complete, NEW p \in Process, JobStep(p) PROVE Complete'
<1>0. job \in [Process -> Job(Hash)] /\ job[p] \in Job(Hash)
  BY DEF TInv, TypeOK
<1>1. \A q \in Process : q # p => job'[q] = job[q]
  BY OthersUntouched
<1>2. job'[p].pc = "register" => job'[p].next = ChunkCount[job'[p].splitting]
  <2>1. CASE Upsert(p)
    <3>1. job'[p] = AfterBatch(job[p])
      BY <1>0, <2>1 DEF Upsert
    <3>2. /\ AfterBatch(job[p]).splitting = job[p].splitting
          /\ AfterBatch(job[p]).next = BatchEnd(job[p])
          /\ AfterBatch(job[p]).pc = "register" => BatchEnd(job[p]) = ChunkCount[job[p].splitting]
      BY <1>0 DEF AfterBatch
    <3> QED
      BY <3>1, <3>2
  <2>2. CASE job'[p].pc # "register"
    BY <2>2
  <2>3. CASE Exists(p) \/ Prepare(p) \/ PrepareFails(p) \/ DeleteByHash(p) \/ DeleteFails(p)
             \/ UpsertFails(p) \/ Register(p) \/ RegisterFails(p) \/ Restart(p)
    BY <1>0, <2>2, <2>3 DEF Exists, Prepare, PrepareFails, DeleteByHash, DeleteFails, UpsertFails,
       Register, RegisterFails, Restart
  <2>4. CASE \E h \in Hash : Begins(p, h)
    BY <1>0, <2>2, <2>4 DEF Begins, Begin
  <2> QED
    BY <2>1, <2>3, <2>4 DEF JobStep, Begins
<1> QED
  BY <1>1, <1>2 DEF Complete

LEMMA NextQInv == QInv /\ [Next]_vars => QInv'
<1> SUFFICES ASSUME QInv, [Next]_vars PROVE QInv'
  OBVIOUS
<1>0. TInv /\ TInv' /\ Complete /\ \A h \in Hash : Shared(h)
  BY NextTInv DEF QInv
<1>1. CASE \E p \in Process : JobStep(p)
  <2>1. PICK p \in Process : JobStep(p)
    BY <1>1
  <2>2. Complete'
    BY <1>0, <2>1, JobComplete
  <2>3. \A h \in Hash : Shared(h)'
    BY <1>0, <2>1, BeginShared, ElsewhereShared, OwnShared
  <2> QED
    BY <1>0, <2>2, <2>3 DEF QInv
<1>2. CASE ChangeConfig \/ UNCHANGED vars
  <2>1. UNCHANGED <<points, registry, job, torn, overlapped, swept, resetting>>
    BY <1>2 DEF ChangeConfig, vars, history
  <2>2. \A h \in Hash : Shared(h)'
    BY <1>0, <2>1 DEF Shared, Overlap, AtRest, Kept, Quiet, SplitAlike, Rewritten, Writers, Whole, ActiveOn
  <2> QED
    BY <1>0, <2>1, <2>2 DEF QInv, Complete
<1>3. CASE ClearRegistry
  <2>1. /\ registry' = {} /\ UNCHANGED <<points, job>>
        /\ \A h \in Hash : ActiveOn(h)' = ActiveOn(h) /\ Writers(h)' = Writers(h)
    BY <1>3 DEF ClearRegistry, ActiveOn, Writers
  <2>2. ASSUME NEW h \in Hash PROVE Shared(h)'
    <3>1. CASE ActiveOn(h) # {}
      <4>1. h \in swept' /\ overlapped'[h] = overlapped[h]
        BY <1>3, <3>1 DEF ClearRegistry
      <4> QED
        BY <1>0, <2>1, <4>1 DEF Shared, Overlap, AtRest, Quiet
    <3>2. CASE ActiveOn(h) = {}
      BY <2>1, <3>2 DEF Shared, Overlap, AtRest, Kept, Writers
    <3> QED
      BY <3>1, <3>2
  <2> QED
    BY <1>0, <2>1, <2>2 DEF QInv, Complete
<1>4. CASE ClearIndex \/ ResetDies
  <2>1. /\ resetting /\ ~ resetting' /\ UNCHANGED <<registry, job, torn, overlapped, swept>>
        /\ \A h \in Hash : ActiveOn(h)' = ActiveOn(h) /\ Writers(h)' = Writers(h)
    BY <1>4 DEF ClearIndex, ResetDies, history, ActiveOn, Writers
  <2>2. ASSUME NEW h \in Hash PROVE Shared(h)'
    <3>1. Overlap(h)' /\ AtRest(h)'
      BY <1>0, <2>1 DEF Shared, Overlap, AtRest
    <3>2. Quiet(h)' => h \notin registry /\ Writers(h) = {}
      BY <1>0, <2>1 DEF Shared, AtRest, Quiet, Writers
    <3> QED
      BY <2>1, <3>1, <3>2 DEF Shared, Kept
  <2> QED
    BY <1>0, <2>1, <2>2 DEF QInv, Complete
<1> QED
  BY <1>1, <1>2, <1>3, <1>4 DEF Next

(* Jobs of one document that overlap leave it complete when they are over, *)
(* if none was cut short and all split it one way: whichever of them       *)
(* deletes last writes every chunk afterwards, and the others write the    *)
(* same points (QuietRowsComplete).                                        *)
THEOREM QuietRows == Spec => []QuietRowsComplete
<1>1. Init => QInv
  <2> SUFFICES ASSUME Init PROVE QInv
    OBVIOUS
  <2>1. registry = {} /\ resetting = FALSE /\ \A p \in Process : job[p].pc = "idle"
    BY DEF Init
  <2>2. TInv /\ \A h \in Hash : ActiveOn(h) = {} /\ Writers(h) = {}
    BY <2>1, InitTInv DEF ActiveOn, Writers
  <2> QED
    BY <2>1, <2>2 DEF QInv, Complete, Shared, Overlap, AtRest, Kept
<1>2. QInv => QuietRowsComplete
  BY DEF QInv, Shared, Kept, Quiet, Writers, QuietRowsComplete, TInv, TypeOK
<1> QED
  BY <1>1, <1>2, NextQInv, PTL DEF Spec
=============================================================================
