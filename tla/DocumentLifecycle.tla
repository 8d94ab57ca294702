------------------------- MODULE DocumentLifecycle -------------------------
(***************************************************************************)
(* What the center promises about a document, without tables, workers or   *)
(* delivery: a registered document is PROCESSING its attempt number        *)
(* retries; an attempt is issued to the RAG service only once the document *)
(* has reached it; a verdict is about an attempt that was issued; and a    *)
(* document moves only on a verdict about the attempt it is at, one        *)
(* attempt at a time, until it is INDEXED or FAILED for good.              *)
(***************************************************************************)
EXTENDS Naturals

CONSTANTS Hash, MaxAttempts

VARIABLES
    documents,  \* by hash: [status, retries]
    issued,     \* [hash, attempts] handed to the RAG service so far
    reported    \* [hash, attempts, verdict] received back so far

lifecycleVars == <<documents, issued, reported>>

Verdict == {"INDEXED", "RETRYABLE", "PERMANENT"}

Init ==
    /\ documents = [h \in Hash |-> [status |-> "ABSENT", retries |-> 0]]
    /\ issued = {}
    /\ reported = {}

Register(h) ==
    /\ documents[h].status = "ABSENT"
    /\ documents' = [documents EXCEPT ![h] = [status |-> "PROCESSING", retries |-> 0]]
    /\ UNCHANGED <<issued, reported>>

(* Any attempt reached so far, again included: delivery is at least once.  *)
Issue(h, a) ==
    /\ documents[h].status # "ABSENT"
    /\ a <= documents[h].retries
    /\ issued' = issued \cup {[hash |-> h, attempts |-> a]}
    /\ UNCHANGED <<documents, reported>>

Report(e, v) ==
    /\ e \in issued
    /\ reported' = reported \cup {[hash |-> e.hash, attempts |-> e.attempts, verdict |-> v]}
    /\ UNCHANGED <<documents, issued>>

After(doc, v) ==
    CASE v = "INDEXED" -> [doc EXCEPT !.status = "INDEXED"]
      [] v = "RETRYABLE" /\ doc.retries + 1 < MaxAttempts -> [doc EXCEPT !.retries = @ + 1]
      [] OTHER -> [doc EXCEPT !.status = "FAILED"]

Judge(h, v) ==
    /\ documents[h].status = "PROCESSING"
    /\ [hash |-> h, attempts |-> documents[h].retries, verdict |-> v] \in reported
    /\ documents' = [documents EXCEPT ![h] = After(@, v)]
    /\ UNCHANGED <<issued, reported>>

Next ==
    \/ \E h \in Hash : Register(h)
    \/ \E h \in Hash, a \in 0 .. (MaxAttempts - 1) : Issue(h, a)
    \/ \E e \in issued, v \in Verdict : Report(e, v)
    \/ \E h \in Hash, v \in Verdict : Judge(h, v)

Spec == Init /\ [][Next]_lifecycleVars
=============================================================================
