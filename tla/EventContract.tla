---------------------------- MODULE EventContract ----------------------------
(***************************************************************************)
(* The two payloads that cross between the services: the ingest event, as  *)
(* the consumer parses it, and the status event, as the consumer builds it *)
(* and the center decodes it.                                              *)
(*                                                                         *)
(* A payload is [broken |-> TRUE] (no JSON object) or [fields |-> f], f a  *)
(* function from the keys present to tagged JSON values: [text |-> s],     *)
(* [int |-> n], [bool |-> b] or [null |-> TRUE].  "" is the empty text,    *)
(* "surrogate" one that UTF-8 cannot encode, "stamp" a valid created_at.   *)
(***************************************************************************)
EXTENDS Integers

CONSTANT MaxInteger     \* the bound both sides put on integer fields

ASSUME ContractAssumption == MaxInteger \in Nat \ {0}

SchemaVersion == 1
Reasons == {"UNSUPPORTED_TYPE", "CORRUPT_FILE", "EMPTY_TEXT",
            "DEPENDENCY_UNAVAILABLE", "JOB_TIMEOUT", "POISON_MESSAGE", "INTERNAL"}

IsText(v) == DOMAIN v = {"text"}
IsInt(v) == DOMAIN v = {"int"}          \* never a bool
IsBool(v) == DOMAIN v = {"bool"}

-----------------------------------------------------------------------------
(* IngestEvent.parse.                                                      *)

EventKeys == {"id", "hash", "filename", "bucket_path", "size", "attempts",
              "created_at", "schema_version"}

IsName(v) == IsText(v) /\ v.text \notin {"", "surrogate"}

(* Variant: attempts without an upper limit. *)
IsAttempts_AnySize(v) == IsInt(v) /\ v.int >= 0

IsAttempts(v) == IsInt(v) /\ v.int \in 0 .. MaxInteger
IsStamp(v) == IsText(v) /\ v.text = "stamp"

Parses(payload) ==
    /\ DOMAIN payload = {"fields"}
    /\ EventKeys \subseteq DOMAIN payload.fields
    /\ LET f == payload.fields
       IN  /\ IsInt(f.schema_version) /\ f.schema_version.int = SchemaVersion
           /\ IsInt(f.size) /\ f.size.int >= 0
           /\ \A k \in {"id", "hash", "filename", "bucket_path"} : IsName(f[k])
           /\ IsAttempts(f.attempts)
           /\ IsStamp(f.created_at)

ParsedEvent(payload) ==
    LET f == payload.fields
    IN  [hash |-> f.hash.text, filename |-> f.filename.text, size |-> f.size.int,
         attempts |-> f.attempts.int]

-----------------------------------------------------------------------------
(* StatusEvent.  Absent options (None) are keys that are not there, as in  *)
(* to_dict; the constructor refuses what it could not send.                *)

Merged(f, g) == [k \in DOMAIN f \cup DOMAIN g |-> IF k \in DOMAIN f THEN f[k] ELSE g[k]]

Indexed(event, more) ==
    Merged([hash |-> event.hash, attempts |-> event.attempts, status |-> "INDEXED"], more)
Failed(event, retryable, reason) ==
    [hash |-> event.hash, attempts |-> event.attempts, status |-> "FAILED",
     retryable |-> retryable, reason |-> reason]

Constructs(s) ==
    /\ s.hash # ""
    /\ s.status \in {"INDEXED", "FAILED"}
    /\ s.attempts \in 0 .. MaxInteger
    /\ "reason" \in DOMAIN s => s.reason \in Reasons
    /\ "chunk_count" \in DOMAIN s => s.chunk_count \in 0 .. MaxInteger
    /\ s.status = "FAILED" => {"retryable", "reason"} \subseteq DOMAIN s

Tagged(k, v) ==
    IF k \in {"attempts", "chunk_count"} THEN [int |-> v]
    ELSE IF k = "retryable" THEN [bool |-> v] ELSE [text |-> v]

ToDict(s) ==
    Merged([k \in DOMAIN s |-> Tagged(k, s[k])],
           [id |-> [text |-> "uuid"], created_at |-> [text |-> "stamp"],
            schema_version |-> [int |-> SchemaVersion]])

-----------------------------------------------------------------------------
(* DecodeStatus of the center: null counts as absent, a wrong type or a    *)
(* missing field makes the payload invalid, and a lone surrogate is read   *)
(* as U+FFFD.                                                              *)

Has(f, k) == k \in DOMAIN f /\ DOMAIN f[k] # {"null"}
GoText(f, k) ==
    IF ~ Has(f, k) THEN "" ELSE IF f[k].text = "surrogate" THEN "U+FFFD" ELSE f[k].text
InRange(n) == -MaxInteger <= n /\ n <= MaxInteger

Decodes(payload) ==
    /\ DOMAIN payload = {"fields"}
    /\ LET f == payload.fields
       IN  /\ \A k \in {"id", "hash", "status", "reason", "detail"} : Has(f, k) => IsText(f[k])
           /\ Has(f, "retryable") => IsBool(f.retryable)
           /\ \A k \in {"attempts", "chunk_count", "schema_version"} :
                 Has(f, k) => IsInt(f[k]) /\ InRange(f[k].int)
           /\ Has(f, "schema_version") /\ f.schema_version.int = SchemaVersion
           /\ GoText(f, "hash") # ""
           /\ Has(f, "attempts") /\ f.attempts.int >= 0
           /\ Has(f, "chunk_count") => f.chunk_count.int >= 0
           /\ GoText(f, "reason") \in Reasons \cup {""}
           /\ GoText(f, "status") \in {"INDEXED", "FAILED"}
           /\ GoText(f, "status") = "FAILED" =>
                 Has(f, "retryable") /\ GoText(f, "reason") # ""

(* What the center acts on: the CAS key and the verdict. *)
Decoded(payload) ==
    LET f == payload.fields
    IN  [hash |-> GoText(f, "hash"), attempts |-> f.attempts.int,
         status |-> GoText(f, "status"),
         retryable |-> Has(f, "retryable") /\ f.retryable.bool,
         reason |-> GoText(f, "reason")]
==============================================================================
