----------------------------- MODULE QueryStream -----------------------------
(***************************************************************************)
(* The query server: Ask and AskStream on a bounded pool of threads, the   *)
(* retrieval, the answer generator over the language model's stream, and   *)
(* clients that leave at any moment.                                       *)
(*                                                                         *)
(* The answer is a chain of generators.  A handler holds a message (hand), *)
(* looks whether the client is there, hands the message to gRPC, and only  *)
(* then the generators go on.  Closing the outer generator closes the      *)
(* model's HTTP stream within the same step: nothing else refers to it.    *)
(***************************************************************************)
EXTENDS Naturals, FiniteSets

CONSTANTS
    Call,           \* RPCs
    Streaming,      \* the AskStream ones; the others are Ask
    MaxWorkers,     \* [rag_grpc].max_workers
    MaxChunks       \* bound: chunks the model sends for one answer

ASSUME QueryAssumption ==
    /\ IsFiniteSet(Call)
    /\ Streaming \subseteq Call
    /\ MaxWorkers \in Nat \ {0}
    /\ MaxChunks \in Nat

VARIABLES
    pc,         \* where the handler of a call is
    hand,       \* the message the generator produced last
    found,      \* whether the search returned a hit
    llm,        \* the model's HTTP stream: "none", "open" or "closed"
    chunks,     \* chunks read from it
    late,       \* messages produced after the client had left
    sources, deltas, status     \* what the client sees (AnswerProtocol)

observed == <<sources, deltas, status>>
vars == <<pc, hand, found, llm, chunks, late, observed>>

Phase == {"new", "validate", "embed", "search", "sources", "groq", "read",
          "check", "send", "over"}
Message == {"none", "sources", "nothing", "delta"}

TypeOK ==
    /\ pc \in [Call -> Phase]
    /\ hand \in [Call -> Message]
    /\ found \in [Call -> BOOLEAN]
    /\ llm \in [Call -> {"none", "open", "closed"}]
    /\ chunks \in [Call -> 0 .. MaxChunks]
    /\ late \in [Call -> Nat]
    /\ sources \in [Call -> {0, 1}] /\ deltas \in [Call -> Nat]
    /\ status \in [Call -> {"none", "OK", "CANCELLED", "RESOURCE_EXHAUSTED",
                            "INVALID_ARGUMENT", "UNAVAILABLE", "INTERNAL"}]

Init ==
    /\ pc = [c \in Call |-> "new"]
    /\ hand = [c \in Call |-> "none"]
    /\ found = [c \in Call |-> FALSE]
    /\ llm = [c \in Call |-> "none"]
    /\ chunks = [c \in Call |-> 0]
    /\ late = [c \in Call |-> 0]
    /\ sources = [c \in Call |-> 0]
    /\ deltas = [c \in Call |-> 0]
    /\ status = [c \in Call |-> "none"]

-----------------------------------------------------------------------------
Running(c) == pc[c] \notin {"new", "over"}
Active(c) == status[c] = "none"         \* context.is_active()
Goto(c, p) == pc' = [pc EXCEPT ![c] = p]

(* Variant: the stream is left to the garbage collector. *)
Closed_Left(c) == llm

(* The handler ends: its generators are closed, its slot is free, and a    *)
(* client that is still there gets the status.                             *)
Closed(c) == [llm EXCEPT ![c] = IF @ = "open" THEN "closed" ELSE @]

Told(c, s) == IF Active(c) THEN [status EXCEPT ![c] = s] ELSE status
Finish(c, s) ==
    /\ Goto(c, "over")
    /\ llm' = Closed(c)
    /\ status' = Told(c, s)

(* maximum_concurrent_rpcs: beyond the threads a call is refused at once. *)
HasSlot == Cardinality({c \in Call : Running(c)}) < MaxWorkers

Arrive(c) ==
    /\ pc[c] = "new"
    /\ IF HasSlot THEN Goto(c, "validate") /\ UNCHANGED status
                  ELSE Goto(c, "over") /\ status' = Told(c, "RESOURCE_EXHAUSTED")
    /\ UNCHANGED <<hand, found, llm, chunks, late, sources, deltas>>

(* The client's cancel or deadline; the handler finds out when it looks. *)
Leave(c) ==
    /\ Running(c) /\ Active(c)
    /\ status' = [status EXCEPT ![c] = "CANCELLED"]
    /\ UNCHANGED <<pc, hand, found, llm, chunks, late, sources, deltas>>

Validate(c) ==
    /\ pc[c] = "validate"
    /\ \/ Goto(c, "embed") /\ UNCHANGED <<llm, status>>
       \/ Finish(c, "INVALID_ARGUMENT")
    /\ UNCHANGED <<hand, found, chunks, late, sources, deltas>>

Embed(c) ==
    /\ pc[c] = "embed"
    /\ Goto(c, "search")
    /\ UNCHANGED <<hand, found, llm, chunks, late, observed>>

Search(c) ==
    /\ pc[c] = "search"
    /\ found' \in {[found EXCEPT ![c] = b] : b \in BOOLEAN}
    /\ Goto(c, "sources")
    /\ UNCHANGED <<hand, llm, chunks, late, observed>>

(* Variant: an error only ends the stream. *)
CallFails_Silent(c) ==
    /\ pc[c] \in {"embed", "search", "groq", "read"}
    /\ Finish(c, "OK")
    /\ UNCHANGED <<hand, found, chunks, late, sources, deltas>>

(* DependencyUnavailable becomes UNAVAILABLE; anything else is INTERNAL. *)
CallFails(c) ==
    /\ pc[c] \in {"embed", "search", "groq", "read"}
    /\ \E s \in {"UNAVAILABLE", "INTERNAL"} : Finish(c, s)
    /\ UNCHANGED <<hand, found, chunks, late, sources, deltas>>

-----------------------------------------------------------------------------
(* The answer generator.  For Ask, list() consumes the messages as they    *)
(* come; for AskStream each is looked at and sent.                         *)

AfterMessage(c, m) ==
    IF m = "delta" THEN "read"
    ELSE IF m = "sources" /\ found[c] THEN "groq"
    ELSE "sources"

Produce(c, m) ==
    /\ hand' = [hand EXCEPT ![c] = m]
    /\ late' = [late EXCEPT ![c] = IF Active(c) THEN @ ELSE @ + 1]
    /\ Goto(c, IF c \in Streaming THEN "check" ELSE AfterMessage(c, m))

ProduceSources(c) ==
    /\ pc[c] = "sources" /\ hand[c] = "none"
    /\ Produce(c, "sources")
    /\ UNCHANGED <<found, llm, chunks, observed>>

(* Nothing passed the threshold: say so without calling Groq. *)
ProduceNothing(c) ==
    /\ pc[c] = "sources" /\ hand[c] = "sources"
    /\ Produce(c, "nothing")
    /\ UNCHANGED <<found, llm, chunks, observed>>

Connect(c) ==
    /\ pc[c] = "groq"
    /\ llm' = [llm EXCEPT ![c] = "open"]
    /\ Goto(c, "read")
    /\ UNCHANGED <<hand, found, chunks, late, observed>>

(* A chunk without content (a role, reasoning) is skipped unseen. *)
ReadEmpty(c) ==
    /\ pc[c] = "read" /\ chunks[c] < MaxChunks
    /\ chunks' = [chunks EXCEPT ![c] = @ + 1]
    /\ UNCHANGED <<pc, hand, found, llm, late, observed>>

ReadDelta(c) ==
    /\ pc[c] = "read" /\ chunks[c] < MaxChunks
    /\ chunks' = [chunks EXCEPT ![c] = @ + 1]
    /\ Produce(c, "delta")
    /\ UNCHANGED <<found, llm, observed>>

(* The generator is exhausted: the loop's else branch, or list() returns. *)
Exhausted(c) == pc[c] = "read" \/ (pc[c] = "sources" /\ hand[c] = "nothing")

StreamEnds(c) ==
    /\ c \in Streaming /\ Exhausted(c)
    /\ Finish(c, "OK")
    /\ UNCHANGED <<hand, found, chunks, late, sources, deltas>>

Respond(c) ==
    /\ c \notin Streaming /\ Exhausted(c)
    /\ sources' = IF Active(c) THEN [sources EXCEPT ![c] = 1] ELSE sources
    /\ deltas' = IF Active(c) THEN [deltas EXCEPT ![c] = 1] ELSE deltas
    /\ Finish(c, "OK")
    /\ UNCHANGED <<hand, found, chunks, late>>

(* Variants: continue instead of break; a handler that waits for its client. *)
Check_Continue(c) ==
    /\ pc[c] = "check"
    /\ Goto(c, IF Active(c) THEN "send" ELSE AfterMessage(c, hand[c]))
    /\ UNCHANGED <<hand, found, llm, chunks, late, observed>>
Check_Wait(c) ==
    /\ pc[c] = "check" /\ Active(c)
    /\ Goto(c, "send")
    /\ UNCHANGED <<hand, found, llm, chunks, late, observed>>

Check(c) ==
    /\ pc[c] = "check"
    /\ IF Active(c) THEN Goto(c, "send") /\ UNCHANGED <<llm, status>>
                    ELSE Finish(c, "CANCELLED")
    /\ UNCHANGED <<hand, found, chunks, late, sources, deltas>>

(* Variant: gRPC resumes the generator whatever became of the client. *)
Resumes_Always(c) == TRUE

(* gRPC sends the message and resumes the handler's generator, or closes   *)
(* it when the client is gone.                                             *)
Resumes(c) == Active(c)

Send(c) ==
    /\ pc[c] = "send"
    /\ sources' = IF Active(c) /\ hand[c] = "sources" THEN [sources EXCEPT ![c] = 1]
                                                      ELSE sources
    /\ deltas' = IF Active(c) /\ hand[c] # "sources" THEN [deltas EXCEPT ![c] = @ + 1]
                                                     ELSE deltas
    /\ IF Resumes(c) THEN Goto(c, AfterMessage(c, hand[c])) /\ UNCHANGED <<llm, status>>
                     ELSE Finish(c, "CANCELLED")
    /\ UNCHANGED <<hand, found, chunks, late>>

(* What the handler does without its client. *)
OwnStep(c) ==
    \/ Validate(c) \/ Embed(c) \/ Search(c) \/ CallFails(c)
    \/ ProduceSources(c) \/ ProduceNothing(c)
    \/ Connect(c) \/ ReadEmpty(c) \/ ReadDelta(c) \/ StreamEnds(c) \/ Respond(c)
    \/ Check(c)

Work(c) == OwnStep(c) \/ Send(c)

Next == \E c \in Call : Arrive(c) \/ Leave(c) \/ Work(c)

Spec == Init /\ [][Next]_vars

(* Every call the handler makes to Ollama, Qdrant and Groq is bounded by   *)
(* call_timeout, so that its step is taken or fails.  Nothing bounds the   *)
(* hand-over to gRPC: it waits for flow control as long as the client is   *)
(* there and does not read, and is over when the client is gone.           *)
FairSpec ==
    Spec /\ \A c \in Call : WF_vars(OwnStep(c)) /\ WF_vars(~ Active(c) /\ Send(c))

-----------------------------------------------------------------------------
(* Safety.                                                                 *)

(* "No more Groq reads" after a call: the model's stream is open only      *)
(* while the handler of its call runs, however the call ended, and calls   *)
(* never hold more streams than there are threads.                         *)
NoStreamLeftOpen ==
    /\ \A c \in Call : llm[c] = "open" => Running(c)
    /\ Cardinality({c \in Call : llm[c] = "open"}) <= MaxWorkers

(* D1: document text leaves for Groq only when the search found something, *)
(* and for a stream only when its client has received the sources: one     *)
(* that left during retrieval costs no Groq call.                          *)
TextLeavesForAClient ==
    \A c \in Call : llm[c] # "none" =>
      /\ found[c]
      /\ c \in Streaming => sources[c] = 1

(* A client that left is noticed at the next message: at most one is       *)
(* produced for nobody, whenever it leaves between two looks at it.        *)
AbandonedStreamStops == \A c \in Streaming : late[c] <= 1

(* A successful stream said something or found something to say it from:   *)
(* the sources came first, and an answer without sources is the fixed one. *)
CompleteMeansAnswered ==
    \A c \in Call : status[c] = "OK" =>
      /\ sources[c] = 1
      /\ ~ found[c] => deltas[c] = 1 /\ llm[c] = "none"

(* What clients see is the protocol of rag.proto, whatever fails and       *)
(* whoever leaves in the middle.                                           *)
Protocol == INSTANCE AnswerProtocol
ImplementsProtocol == Protocol!Spec

-----------------------------------------------------------------------------
(* Liveness.                                                               *)

(* A call that got a thread gives it back, whatever fails and wherever its *)
(* client leaves.  One client alone can keep a slot of the pool: one that  *)
(* stays connected and stops reading, and the handler then waits to send.  *)
Unread(c) == c \in Streaming /\ pc[c] = "send" /\ Active(c)
EveryCallEnds == \A c \in Call : []<>(~ Running(c)) \/ <>[]Unread(c)
=============================================================================
