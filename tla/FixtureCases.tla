------------------------------ MODULE FixtureCases ------------------------------
(***************************************************************************)
(* The default prepare hooks of FileSystemFixture and                      *)
(* AsyncFileSystemFixture, the payloads the checks hand to them, and how   *)
(* the checks vet the answer.                                              *)
(*                                                                         *)
(* A fixture supports some of the primitive hooks.  A prepare hook calls   *)
(* them in order; the first unsupported one makes it Unavailable and the   *)
(* first failing one makes it fail, with what was seeded left behind.      *)
(* Bytes are a text, or the letter that fills them, and a length; they     *)
(* depend on the declared write limit.                                     *)
(***************************************************************************)
EXTENDS WriteChecks, CopyRenameChecks, DirectoryDeleteChecks, QueryChecks, Naturals

CONSTANT WriteLimits  \* the values of max_write_bytes; the largest is no limit

ASSUME WriteLimitsAssumption == WriteLimits \subseteq Nat

VARIABLES
    request,   \* the check that prepares, and its suite
    limit,     \* max_write_bytes
    supports,  \* the primitive hooks of the fixture
    calls,     \* the calls the prepare hook has still to make
    contents,  \* what has been seeded
    answer     \* "pending", "Ready", "Unavailable", "Error", "accepted", "rejected"

caseVars == <<request, limit, supports, calls, contents, answer>>

Bytes(text, length) == [text |-> IF length = 0 THEN "" ELSE text, length |-> length]
Empty == Bytes("", 0)
Absent == [text |-> "absent", length |-> 0]
Dir == [text |-> "directory", length |-> 0]

-----------------------------------------------------------------------------
(* The payloads.                                                           *)

\* Mutant: a payload that does not fit is one byte too short.
FilledShort(text, length, letter) ==
    IF length <= limit THEN Bytes(text, length)
    ELSE Bytes(letter, IF limit = 0 THEN 0 ELSE limit - 1)

\* bounded_payload of write.rs: the text, or the letter repeated.
Filled(text, length, letter) ==
    IF length <= limit THEN Bytes(text, length) ELSE Bytes(letter, limit)
\* bounded_payload of limit_probe_plan.rs: a prefix of the text.
Prefix(text, length) == Bytes(text, IF length <= limit THEN length ELSE limit)

Payload(id) ==
    CASE id = "WriteBasic" -> IF request.mode = "async" THEN Filled("async written", 13, "a")
                                                        ELSE Filled("written", 7, "x")
      [] id = "WriteCreateConflict" -> Filled("unexpected", 10, "u")
      [] id = "WriteReplace" -> Filled("new", 3, "n")
      [] id = "WriteAbort" -> Filled("aborted", 7, "a")
      [] id = "AppendBasic" -> Filled("-after", 6, "a")
      [] id \in {"WriteAtomicReplaceExisting", "WriteDurable"} -> Filled("b", 1, "b")
      [] id \in {"WriteIfAbsent", "WriteIfMatch"} -> Filled("conditional", 11, "c")
      [] id \in OwningWriteIds -> Filled("owning write", 12, "o")
      [] id \in {"CopyBasic", "CopyRepeatedExecute", "CopyFallbackOverwriteRejected"} ->
            Prefix("copy bytes", 10)
      [] id \in DOMAIN ReadCapability -> Bytes("read contract bytes", 19)
      [] id \in {"DeleteBasic", "DeleteIfMatch"} -> Bytes("delete evidence", 15)
      [] OTHER -> Bytes("strong copy contents", 20)

-----------------------------------------------------------------------------
(* The default hooks: their calls, and the options of a ready case.        *)

Seed(hook, role, content) == [hook |-> hook, role |-> role, content |-> content]
SeedFile(role, content) == Seed("seed_file", role, content)
SeedDirectory(role) == Seed("seed_empty_directory", role, Dir)
\* A scenario without default preparation.
Undefined == <<Seed("none", "target", Absent)>>
\* fixture.path(..)?
MapPath == Seed("path", "target", Absent)

Default == [disposition |-> "CreateOrReplace", atomic |-> FALSE, durable |-> FALSE]

\* Mutant: the conflict is seeded with the byte that fills a short payload.
ConflictSeedUnlucky == SeedFile("target", Bytes("u", 1))
ConflictSeed == SeedFile("target", Bytes("a", 1))

Creation == <<MapPath>>

PrepareWrite(id) ==
    CASE id = "WriteReplace" ->
            [calls |-> <<SeedFile("target", Bytes("previous contents", 17))>>,
             options |-> Default]
      [] id = "WriteCreateConflict" ->
            [calls |-> <<ConflictSeed>>,
             options |-> [Default EXCEPT !.disposition = "CreateNew"]]
      [] id = "AppendBasic" ->
            [calls |-> <<SeedFile("target", Bytes("before", 6))>>,
             options |-> [Default EXCEPT !.disposition = "Append"]]
      [] id = "WriteAtomicReplaceExisting" ->
            [calls |-> <<SeedFile("target", Bytes("a", 1))>>,
             options |-> [Default EXCEPT !.atomic = TRUE]]
      [] id = "WriteDurable" ->
            [calls |-> Creation,
             options |-> [Default EXCEPT !.disposition = "CreateNew", !.durable = TRUE]]
      [] id \in {"WriteIfAbsent", "WriteIfMatch"} ->
            [calls |-> Undefined, options |-> Default]
      [] OTHER ->
            [calls |-> Creation, options |-> [Default EXCEPT !.disposition = "CreateNew"]]
SyncPrepareWrite(id) == PrepareWrite(id)

CopyOptions(mode) == [mode |-> mode, atomic |-> FALSE, durable |-> FALSE, serverSide |-> FALSE]
TreeCopyIds == {"CopyAtomicTree", "CopyDurableTree"}
Required(id, options) ==
    [options EXCEPT !.atomic = id \in {"CopyAtomicFile", "CopyAtomicTree"},
                    !.durable = id \in {"CopyDurableFile", "CopyDurableTree"}]

PrepareCopy(id) ==
    CASE id = "CopyServerSide" ->
            [calls |-> <<Seed("copy_fast_path_case", "source", Payload(id))>>,
             options |-> [CopyOptions("file") EXCEPT !.serverSide = TRUE]]
      [] id \in TreeCopyIds ->
            [calls |-> <<SeedDirectory("source"), SeedDirectory("sourceSub"),
                         SeedFile("sourceChild", Payload(id)), MapPath>>,
             options |-> Required(id, CopyOptions("tree"))]
      [] id = "CopyFallbackOverwriteRejected" ->
            [calls |-> <<SeedFile("source", Payload(id)),
                         SeedFile("target", Bytes("existing", 8))>>,
             options |-> CopyOptions("file")]
      [] OTHER ->
            [calls |-> <<SeedFile("source", Payload(id)), MapPath>>,
             options |-> Required(id, CopyOptions("file"))]
SyncPrepareCopy(id) == PrepareCopy(id)

PrepareDelete(id) == [calls |-> <<SeedFile("target", Payload(id))>>, options |-> {}]
SyncPrepareDelete(id) == PrepareDelete(id)

PrepareRead(id) ==
    [calls |-> <<IF id = "ReadChecksumCorruption"
                 THEN Seed("checksum_failure_case", "target", Payload(id))
                 ELSE SeedFile("target", Payload(id))>>,
     options |-> {}]
SyncPrepareRead(id) == PrepareRead(id)

\* The program whose preparation this is, where every capability is there.
WriteCapabilities ==
    {"Write", "FiniteWriteLimit", "ConditionalWrite", "Append", "AtomicReplace", "DurableWrite"}
WriteRequestIds == (WriteCheckIds \cup OwningWriteIds) \ {"WriteLimit"}
CopyRequestIds == CopyIds \cup {"CopyRepeatedExecute"}
DeleteRequestIds == {"DeleteBasic", "DeleteIfMatch"}

ProgramOf(id) ==
    CASE id \in WriteRequestIds -> WriteCheck(id, WriteCapabilities)
      [] id \in CopyRequestIds ->
            CopyCheck(id, CopyPrerequisites \cup {"ServerSideCopy", "AtomicFileCopy",
                             "DurableFileCopy", "AtomicTreeCopy", "DurableTreeCopy"})
      [] id \in DeleteRequestIds -> SeededDelete(id)
      [] OTHER -> Read(id, {"Read", "FiniteRange", ReadCapability[id]})

DefaultCase(id, mode) ==
    CASE id \in WriteRequestIds -> IF mode = "async" THEN PrepareWrite(id) ELSE SyncPrepareWrite(id)
      [] id \in CopyRequestIds -> IF mode = "async" THEN PrepareCopy(id) ELSE SyncPrepareCopy(id)
      [] id \in DeleteRequestIds ->
            IF mode = "async" THEN PrepareDelete(id) ELSE SyncPrepareDelete(id)
      [] OTHER -> IF mode = "async" THEN PrepareRead(id) ELSE SyncPrepareRead(id)
Case == DefaultCase(request.check, request.mode)

-----------------------------------------------------------------------------
(* Execution.                                                              *)

CaseRoles == {"source", "sourceSub", "sourceChild", "target"}
Hooks == {"seed_file", "seed_empty_directory", "copy_fast_path_case", "checksum_failure_case"}
Requests ==
    [check : WriteRequestIds \cup CopyRequestIds \cup DeleteRequestIds \cup DOMAIN ReadCapability,
     mode : {"async", "sync"}]

CaseInit ==
    /\ request \in Requests /\ limit \in WriteLimits
    /\ supports \in SUBSET Hooks
    /\ calls = Case.calls
    /\ contents = [r \in CaseRoles |-> Absent]
    /\ answer = "pending"

Supported(call) == call.hook \in supports \cup {"path"}

\* One primitive hook: it seeds, is unsupported, or fails with or without
\* having seeded.
CallHook ==
    /\ answer = "pending" /\ calls # <<>>
    /\ LET call == Head(calls)
           seeded == [contents EXCEPT ![call.role] = call.content]
       IN \/ /\ Supported(call)
             /\ contents' = seeded /\ calls' = Tail(calls) /\ UNCHANGED answer
          \/ /\ ~Supported(call)
             /\ answer' = "Unavailable" /\ UNCHANGED <<calls, contents>>
          \/ /\ Supported(call)
             /\ answer' = "Error" /\ contents' \in {contents, seeded} /\ UNCHANGED calls
    /\ UNCHANGED <<request, limit, supports>>

AnswerReady ==
    /\ answer = "pending" /\ calls = <<>>
    /\ answer' = "Ready"
    /\ UNCHANGED <<request, limit, supports, calls, contents>>

\* What the check compares before it uses the case; observations included.
VettedWrite(id, options) ==
    LET before == contents["target"] IN
    CASE id = "WriteCreateConflict" ->
            options.disposition = "CreateNew" /\ before # Payload(id)
      [] id = "WriteReplace" ->
            options.disposition = "CreateOrReplace" /\ before.length > Payload(id).length
      [] id = "WriteAbort" -> options.disposition = "CreateNew" /\ before = Absent
      [] id = "AppendBasic" -> options.disposition = "Append" /\ before # Empty
      [] id = "WriteAtomicReplaceExisting" ->
            /\ options.disposition = "CreateOrReplace" /\ options.atomic
            /\ before \notin {Absent, Payload(id)}
      [] id = "WriteDurable" -> options.disposition = "CreateNew" /\ options.durable
      [] OTHER -> options.disposition \in {"CreateNew", "CreateOrReplace"}

VettedCopy(id, options) ==
    CASE id \in {"CopyBasic", "CopyRepeatedExecute"} ->
            options = CopyOptions("file") /\ contents["source"] = Payload(id)
      [] id = "CopyFallbackOverwriteRejected" ->
            /\ options = CopyOptions("file") /\ contents["source"] = Payload(id)
            /\ contents["target"] = Bytes("existing", 8)
      [] id = "CopyServerSide" ->
            options.mode = "file" /\ options.serverSide /\ contents["target"] = Absent
      [] id \in TreeCopyIds ->
            /\ options = Required(id, CopyOptions("tree"))
            /\ contents["source"] # Absent /\ contents["sourceSub"] # Absent
            /\ contents["sourceChild"] = Payload(id) /\ contents["target"] = Absent
      [] OTHER ->
            /\ options = Required(id, CopyOptions("file"))
            /\ contents["source"] = Payload(id) /\ contents["target"] = Absent

Vetted(id) ==
    CASE id \in WriteRequestIds -> VettedWrite(id, Case.options)
      [] id \in CopyRequestIds -> VettedCopy(id, Case.options)
      [] id \in DeleteRequestIds -> contents["target"] = Payload(id)
      [] OTHER -> TRUE

VetCase ==
    /\ answer = "Ready"
    /\ answer' = IF Vetted(request.check) THEN "accepted" ELSE "rejected"
    /\ UNCHANGED <<request, limit, supports, calls, contents>>

CaseNext == CallHook \/ AnswerReady \/ VetCase

CaseSpec == CaseInit /\ [][CaseNext]_caseVars

-----------------------------------------------------------------------------
(* Properties.                                                             *)

\* What the program of a check takes for granted after its preparation.
Assumed ==
    LET steps == ProgramOf(request.check).sections[1]
    IN steps[CHOOSE i \in DOMAIN steps :
               steps[i].kind = "prepare" /\ \A j \in 1 .. i - 1 : steps[j].kind # "prepare"].seed

Agrees(assumed, content) ==
    CASE assumed = "absent" -> content = Absent
      [] assumed = "dir" -> content = Dir
      [] assumed = "new" -> content = Payload(request.check)
      [] OTHER -> content \notin {Absent, Dir}

\* At every write limit the default case passes the vetting of the check that
\* asked for it, so a fixture that only implements primitive hooks is not
\* failed; and it is the state from which the program of the check starts in
\* CheckRunner: every role of the program holds what its preparation promises.
DefaultCaseFits ==
    /\ answer # "rejected"
    /\ answer = "accepted" =>
          \A r \in DOMAIN Assumed \cap CaseRoles : Agrees(Assumed[r], contents[r])

\* What the accepted write leaves in its target.
Appends == request.check = "AppendBasic"
Publishes == <<IF Appends THEN contents["target"] ELSE Absent, Payload(request.check)>>
Untouched == IF Appends THEN <<contents["target"], Empty>> ELSE <<Absent, contents["target"]>>

\* The content that shows a publication differs from the content before it, so
\* the observation can tell them apart.  An append at a write limit of zero
\* appends nothing; it is the only case without evidence.
EvidenceDistinguishes ==
    answer = "accepted" /\ request.check \in WriteRequestIds =>
       Publishes # Untouched \/ (Appends /\ limit = 0)
=============================================================================
