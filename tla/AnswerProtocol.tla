---------------------------- MODULE AnswerProtocol ----------------------------
(***************************************************************************)
(* What a client of RagEngineService may observe of its call: the message  *)
(* that carries the sources, then answer deltas, then one final status     *)
(* (streaming), or one response with both (unary).                         *)
(***************************************************************************)
EXTENDS Naturals

CONSTANT Call

VARIABLES
    sources,    \* messages with sources received
    deltas,     \* messages with a part of the answer received
    status      \* "none" while the call is open

observed == <<sources, deltas, status>>

Status == {"OK", "CANCELLED", "RESOURCE_EXHAUSTED", "INVALID_ARGUMENT",
           "UNAVAILABLE", "INTERNAL"}

Init ==
    /\ sources = [c \in Call |-> 0]
    /\ deltas = [c \in Call |-> 0]
    /\ status = [c \in Call |-> "none"]

Open(c) == status[c] = "none"
End(c, s) == status' = [status EXCEPT ![c] = s]

(* Message 1, once. *)
Sources(c) ==
    /\ Open(c) /\ sources[c] = 0 /\ deltas[c] = 0
    /\ sources' = [sources EXCEPT ![c] = 1]
    /\ UNCHANGED <<deltas, status>>

Delta(c) ==
    /\ Open(c) /\ sources[c] = 1
    /\ deltas' = [deltas EXCEPT ![c] = @ + 1]
    /\ UNCHANGED <<sources, status>>

(* A bad query, a retrieval outage or a full server: before any message. *)
Refused(c) ==
    /\ Open(c) /\ sources[c] = 0
    /\ \E s \in Status \ {"OK", "CANCELLED"} : End(c, s)
    /\ UNCHANGED <<sources, deltas>>

(* After the first message only the model, or the server itself, can fail. *)
Broken(c) ==
    /\ Open(c) /\ sources[c] = 1
    /\ \E s \in {"UNAVAILABLE", "INTERNAL"} : End(c, s)
    /\ UNCHANGED <<sources, deltas>>

Complete(c) ==
    /\ Open(c) /\ sources[c] = 1
    /\ End(c, "OK")
    /\ UNCHANGED <<sources, deltas>>

(* The unary call has its sources and its whole answer at once. *)
Response(c) ==
    /\ Open(c) /\ sources[c] = 0 /\ deltas[c] = 0
    /\ sources' = [sources EXCEPT ![c] = 1]
    /\ deltas' = [deltas EXCEPT ![c] = 1]
    /\ End(c, "OK")

Cancel(c) ==
    /\ Open(c)
    /\ End(c, "CANCELLED")
    /\ UNCHANGED <<sources, deltas>>

Next == \E c \in Call :
    Sources(c) \/ Delta(c) \/ Refused(c) \/ Broken(c) \/ Complete(c) \/ Response(c) \/ Cancel(c)

Spec == Init /\ [][Next]_observed
===============================================================================
