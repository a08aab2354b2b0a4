----------------------------- MODULE S3WriteSession -----------------------------
(***************************************************************************)
(* The write session of the S3 fixture (s3_write_session.rs): bytes are    *)
(* buffered and published by one conditional PUT.                          *)
(*                                                                         *)
(* The PUT travels on its own: the server may receive it after the caller  *)
(* has dropped the future that sent it, or never, and its answer may be    *)
(* lost.  Another client replaces and deletes the object meanwhile.  The   *)
(* facade and the caller are external: they write, commit and abort one    *)
(* call at a time, drop a call at any await, and end a session with a      *)
(* commit or an abort that succeeds.                                       *)
(***************************************************************************)
EXTENDS Integers

CONSTANTS MaxBytes,   \* the buffer limit (1 MiB)
          MaxPuts,    \* bound: PUT requests of the session
          MaxOthers   \* bound: changes by the other client

ASSUME BoundsAssumption == MaxBytes \in Nat /\ MaxPuts \in Nat /\ MaxOthers \in Nat

VARIABLES
    options,   \* disposition and precondition of the request
    mode,      \* PutMode, or "none" before the session is open
    state,     \* State of the session
    data,      \* the buffered bytes
    op,        \* the call in progress and the await it is at
    payload,   \* the bytes the commit in progress has copied
    failAbort, \* TestControl: the next abort fails
    puts,      \* TestControl: PUT requests
    request,   \* the PUT on the wire: its fate, and its bytes
    object,    \* the object: its writer, its bytes and its version
    others,    \* changes by the other client
    acked,     \* history: the bytes acknowledged to the caller
    landed,    \* history: bytes of the PUT the server applied, or -1
    claim      \* what the last commit or abort said of the target

remote == <<request, object, others>>
vars == <<options, mode, state, data, op, payload, failAbort, puts, remote,
          acked, landed, claim>>

Dispositions == {"CreateNew", "CreateOrReplace", "Append"}
Preconditions == {"None", "IfAbsent", "IfMatch"}
Missing == [writer |-> "nobody", bytes |-> 0, version |-> 0]
NoRequest == [fate |-> "none", bytes |-> 0]
MatchedVersion == 1  \* the version IfMatch names

Init ==
    /\ options \in [disposition : Dispositions, precondition : Preconditions, strong : BOOLEAN]
    /\ mode = "none" /\ state = "Open" /\ data = 0 /\ op = "idle" /\ payload = 0
    /\ failAbort = FALSE /\ puts = 0
    /\ request = NoRequest
    /\ object \in {Missing, [writer |-> "other", bytes |-> 1, version |-> 1]}
    /\ others = 0 /\ acked = 0 /\ landed = -1 /\ claim = "none"

-----------------------------------------------------------------------------
(* Opening.                                                                *)

\* Mutant: a conditional replacement is sent without its version.
PutModeForgets ==
    CASE options.disposition = "CreateNew" -> "Create"
      [] options.disposition = "CreateOrReplace" -> "Overwrite"
      [] OTHER -> "unsupported"

PutMode ==
    CASE \/ options.disposition = "CreateNew" /\ options.precondition \in {"None", "IfAbsent"}
         \/ options.disposition = "CreateOrReplace" /\ options.precondition = "IfAbsent" -> "Create"
      [] options.disposition = "CreateOrReplace" /\ options.precondition = "IfMatch" -> "Update"
      [] OTHER -> "unsupported"

\* Strong guarantees, content types, checksums and metadata are refused.
Open ==
    /\ mode = "none" /\ op = "idle"
    /\ IF PutMode = "unsupported" \/ options.strong THEN op' = "rejected" /\ UNCHANGED mode
                                                    ELSE mode' = PutMode /\ UNCHANGED op
    /\ UNCHANGED <<options, state, data, payload, failAbort, puts, remote, acked, landed, claim>>

Idle == mode # "none" /\ op = "idle"

-----------------------------------------------------------------------------
(* Writing.                                                                *)

\* A byte is buffered and acknowledged, or refused: the session has sent its
\* bytes, or the buffer is full.
Write ==
    /\ Idle
    /\ state = "Open" /\ data + 1 <= MaxBytes
    /\ data' = data + 1 /\ acked' = acked + 1
    /\ UNCHANGED <<options, mode, state, op, payload, failAbort, puts, remote, landed, claim>>

-----------------------------------------------------------------------------
(* Committing.                                                             *)

\* A session that has sent its bytes only repeats what it knows.
CommitAgain ==
    /\ Idle /\ state # "Open"
    /\ claim' = IF state = "Published" THEN "Published" ELSE "Indeterminate"
    /\ UNCHANGED <<options, mode, state, data, op, payload, failAbort, puts, remote, acked, landed>>

Commit ==
    /\ Idle /\ state = "Open" /\ puts < MaxPuts
    /\ payload' = data /\ op' = "beforePut"
    /\ UNCHANGED <<options, mode, state, data, failAbort, puts, remote, acked, landed, claim>>

\* Mutant: the state changes only with the answer.
SendPutLate ==
    /\ op = "beforePut"
    /\ puts' = puts + 1
    /\ request' = [fate |-> "sent", bytes |-> payload]
    /\ op' = "put"
    /\ UNCHANGED <<options, mode, state, data, payload, failAbort, object, others, acked, landed, claim>>

SendPut ==
    /\ op = "beforePut"
    /\ state' = "Indeterminate"
    /\ puts' = puts + 1
    /\ request' = [fate |-> "sent", bytes |-> payload]
    /\ op' = "put"
    /\ UNCHANGED <<options, mode, data, payload, failAbort, object, others, acked, landed, claim>>

\* Mutant: any answer counts as a publication.
PutOkAny ==
    /\ op = "put" /\ request.fate \in {"applied", "refused"}
    /\ data' = 0 /\ state' = "Published" /\ op' = "afterPut"
    /\ UNCHANGED <<options, mode, payload, failAbort, puts, remote, acked, landed, claim>>

\* The answer is Ok: published, and the result still has to be delivered.
PutOk ==
    /\ op = "put" /\ request.fate = "applied"
    /\ data' = 0 /\ state' = "Published" /\ op' = "afterPut"
    /\ UNCHANGED <<options, mode, payload, failAbort, puts, remote, acked, landed, claim>>

\* Mutant: the buffer is cleared whatever the answer is.
PutRefusedClears ==
    /\ op = "put" /\ request.fate = "refused"
    /\ state' = "Open" /\ claim' = "NotPublished" /\ op' = "idle" /\ data' = 0
    /\ UNCHANGED <<options, mode, payload, failAbort, puts, remote, acked, landed>>

\* AlreadyExists or Precondition: nothing was published, and the session may
\* commit again.
PutRefused ==
    /\ op = "put" /\ request.fate = "refused"
    /\ state' = "Open" /\ claim' = "NotPublished" /\ op' = "idle"
    /\ UNCHANGED <<options, mode, data, payload, failAbort, puts, remote, acked, landed>>

\* Any other error says nothing of the request.  The client does not retry.
PutFails ==
    /\ op = "put"
    /\ state' = "Indeterminate" /\ claim' = "Indeterminate" /\ op' = "idle"
    /\ UNCHANGED <<options, mode, data, payload, failAbort, puts, remote, acked, landed>>

Deliver ==
    /\ op = "afterPut"
    /\ op' = "ended" /\ claim' = "Published"
    /\ UNCHANGED <<options, mode, state, data, payload, failAbort, puts, remote, acked, landed>>

-----------------------------------------------------------------------------
(* Aborting, and dropped calls.                                            *)

FailNextAbort ==
    /\ ~failAbort /\ failAbort' = TRUE
    /\ UNCHANGED <<options, mode, state, data, op, payload, puts, remote, acked, landed, claim>>

Abort ==
    /\ Idle
    /\ op' = IF failAbort THEN "failing" ELSE "aborting"
    /\ failAbort' = FALSE
    /\ UNCHANGED <<options, mode, state, data, payload, puts, remote, acked, landed, claim>>

AbortFails ==
    /\ op = "failing" /\ op' = "idle"
    /\ UNCHANGED <<options, mode, state, data, payload, failAbort, puts, remote, acked, landed, claim>>

AbortEnds ==
    /\ op = "aborting" /\ op' = "ended"
    /\ data' = IF state = "Open" THEN 0 ELSE data
    /\ claim' = IF state = "Open" THEN "NotPublished" ELSE state
    /\ UNCHANGED <<options, mode, state, payload, failAbort, puts, remote, acked, landed>>

DropCall ==
    /\ op \in {"beforePut", "put", "afterPut", "failing", "aborting"}
    /\ op' = "idle"
    /\ UNCHANGED <<options, mode, state, data, payload, failAbort, puts, remote, acked, landed, claim>>

-----------------------------------------------------------------------------
(* The server, the wire and the other client.                              *)

Permits ==
    CASE mode = "Create" -> object.version = 0
      [] mode = "Update" -> object.version = MatchedVersion
      [] OTHER -> TRUE

\* Versions are never reused.
NextVersion == 2 + puts + others

\* The condition is checked and the object replaced in one step, once for a
\* request (max_retries is 0).
ServerApplies ==
    /\ request.fate = "sent"
    /\ \/ /\ Permits
          /\ object' = [writer |-> "session", bytes |-> request.bytes, version |-> NextVersion]
          /\ landed' = request.bytes
          /\ request' = [request EXCEPT !.fate = "applied"]
       \/ /\ ~Permits
          /\ request' = [request EXCEPT !.fate = "refused"]
          /\ UNCHANGED <<object, landed>>
    /\ UNCHANGED <<options, mode, state, data, op, payload, failAbort, puts, others, acked, claim>>

RequestLost ==
    /\ request.fate = "sent"
    /\ request' = [request EXCEPT !.fate = "lost"]
    /\ UNCHANGED <<options, mode, state, data, op, payload, failAbort, puts, object, others, acked,
                   landed, claim>>

OtherClient ==
    /\ others < MaxOthers /\ others' = others + 1
    /\ object' \in {Missing, [writer |-> "other", bytes |-> 1, version |-> NextVersion]}
    /\ UNCHANGED <<options, mode, state, data, op, payload, failAbort, puts, request, acked,
                   landed, claim>>

Next ==
    \/ Open \/ Write \/ Commit \/ CommitAgain \/ SendPut \/ PutOk \/ PutRefused \/ PutFails
    \/ Deliver \/ FailNextAbort \/ Abort \/ AbortFails \/ AbortEnds \/ DropCall
    \/ ServerApplies \/ RequestLost \/ OtherClient

Spec == Init /\ [][Next]_vars

-----------------------------------------------------------------------------
(* Properties.                                                             *)

\* While the session has not committed again, NotPublished stays true whatever
\* becomes of a PUT on the wire: no byte of it was or will be applied.
ClaimIsTrue ==
    op \in {"idle", "ended"} /\ state = "Open" /\ claim = "NotPublished" =>
       landed = -1 /\ request.fate # "sent"

\* A session that says Published has been published, even when the call that
\* did it was dropped before it could return.
PublishedIsTrue == state = "Published" \/ claim = "Published" => landed # -1

\* An abort is indeterminate only when a PUT has left: up to then the session
\* knows that nothing was published.
IndeterminateMeansSent == claim = "Indeterminate" => puts > 0

\* What the server has applied are the bytes the caller was told are accepted.
PublishedIsAcknowledged == landed # -1 => landed = acked

\* The session replaces an object only where its request allows it: never for
\* CreateNew or IfAbsent, and only the named version for IfMatch.
ReplacesOnlyMatch ==
    [][landed' # landed =>
          IF options.precondition = "IfMatch" THEN object.version = MatchedVersion
          ELSE object.version = 0]_vars
=============================================================================
