----------------------------- MODULE MCRagService -----------------------------
(***************************************************************************)
(* Instances for the two halves of the RAG service.  Its query server and  *)
(* its ingest consumer are processes of their own that share no state of   *)
(* these models, so one behaviour runs one of them (part).                 *)
(***************************************************************************)
EXTENDS QueryStream, IngestPipeline

VARIABLE part

Calls == {"ask", "stream"}
Streams == {"stream"}

(* Every kind under good names, and every pair of names of a sound one but *)
(* the one where both are refused.                                         *)
Files ==
    [kind : Kind, center : {"a.pdf"}, tool : {"a.pdf"}]
    \cup {[kind |-> "sound", center |-> "a.bin", tool |-> "a.pdf"],
          [kind |-> "sound", center |-> "a.pdf", tool |-> "a.bin"]}

(* One entry that is right, and one for each field that is wrong. *)
Good == Payload("doc", "a.pdf", 1, 1)
Field(k, v) == [fields |-> [Good.fields EXCEPT ![k] = v]]
Without(k) == [fields |-> [f \in DOMAIN Good.fields \ {k} |-> Good.fields[f]]]
OtherProducers ==
    {Good, Payload("doc", "a.pdf", 1, 0), Payload("doc", "a.bin", 1, 0),
     Payload("other", "a.pdf", 2, 0), Without("hash")}
    \cup {Field("attempts", v) : v \in {[int |-> MaxInteger], [int |-> MaxInteger + 1]}}
    \cup {Field("hash", [text |-> "surrogate"])}

MCInit == Init /\ PipelineInit /\ part \in {"query", "ingest"}
MCNext ==
    \/ part = "query" /\ Next /\ UNCHANGED <<pvars, part>>
    \/ part = "ingest" /\ PipelineNext /\ UNCHANGED <<vars, part>>
MCSpec ==
    /\ MCInit /\ [][MCNext]_<<vars, pvars, part>>
    /\ \A c \in Call : /\ WF_vars(part = "query" /\ OwnStep(c))
                       /\ WF_vars(part = "query" /\ ~ Active(c) /\ Send(c))
    /\ WF_pvars(part = "ingest" /\ Consumer)
    /\ WF_pvars(part = "ingest" /\ CenterReads)
===============================================================================
