--------------------------- MODULE UploadLifecycle ---------------------------
(***************************************************************************)
(* What the center promises about an upload, without claims, buckets or    *)
(* clocks: an open intent is accepted or expires, once; an accepted one is *)
(* linked, for good, to the document of bytes that its client PUT, or      *)
(* fails for good; and a document exists only because an upload was linked *)
(* to it.                                                                  *)
(***************************************************************************)
CONSTANTS Intent, Hash, None

VARIABLES
    uploads,    \* by intent: [status, hash]
    documents,  \* hashes with a document row
    puts        \* by intent: the contents that were PUT

lifecycleVars == <<uploads, documents, puts>>

Init ==
    /\ uploads = [i \in Intent |-> [status |-> "ABSENT", hash |-> None]]
    /\ documents = {}
    /\ puts = [i \in Intent |-> {}]

Move(i, from, to) ==
    /\ uploads[i].status = from
    /\ uploads' = [uploads EXCEPT ![i] = [status |-> to, hash |-> None]]
    /\ UNCHANGED <<documents, puts>>

Open(i) == Move(i, "ABSENT", "OPEN")
Accept(i) == Move(i, "OPEN", "ACCEPTED")
Expire(i) == Move(i, "OPEN", "EXPIRED")

(* One sweep may give up several accepted uploads. *)
Fail(given) ==
    /\ \A i \in given : uploads[i].status = "ACCEPTED"
    /\ uploads' = [i \in Intent |-> IF i \in given THEN [status |-> "FAILED", hash |-> None]
                                                   ELSE uploads[i]]
    /\ UNCHANGED <<documents, puts>>

Supply(i, content) ==
    /\ uploads[i].status # "ABSENT"
    /\ puts' = [puts EXCEPT ![i] = @ \cup {content}]
    /\ UNCHANGED <<uploads, documents>>

Register(i, h) ==
    /\ uploads[i].status = "ACCEPTED"
    /\ h \in puts[i]
    /\ uploads' = [uploads EXCEPT ![i] = [status |-> "HASHED", hash |-> h]]
    /\ documents' = documents \cup {h}
    /\ UNCHANGED puts

Next ==
    \/ \E i \in Intent : Open(i) \/ Accept(i) \/ Expire(i)
    \/ \E given \in SUBSET Intent : Fail(given)
    \/ \E i \in Intent, h \in Hash : Supply(i, h) \/ Register(i, h)

Spec == Init /\ [][Next]_lifecycleVars
=============================================================================
