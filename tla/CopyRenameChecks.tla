--------------------------- MODULE CopyRenameChecks ---------------------------
(***************************************************************************)
(* The checks of FileSystemContract::Copy, except the cancellation probes, *)
(* and of FileSystemContract::Rename.  Besides capabilities, `has` may     *)
(* hold "CopyFallbackOnly" (fixture.copy_fallback_only()).                 *)
(*                                                                         *)
(* The source holds "new", the payload; a conflicting target holds "old".  *)
(* Of a tree the root is one role and everything below it another.         *)
(***************************************************************************)
EXTENDS CheckSteps

Both(source, target) == [source |-> source, target |-> target]
Copied == Both("new", "new")

\* execute_copy (internal/execute_copy.rs) and FileSystem::copy: the failure
\* keeps the operation and with it a writer that is open on the target.
CopyFile == Publish(Both("source", "source"), "target")

\* A copy that must be refused and leave both sides alone.
RefusedCopy(gate) == RefuseOn({"source", "target"}, {}, {"target"}, {}, gate)

\* A copy without its capability; only the target is recorded.
RejectedCopy ==
    Rejected(<<Path, Path, Record({"target"}), RefusedCopy(TRUE)>>)

CopyPrerequisites == {"Read", "Write", "Copy"}

\* check_copy_capability: the target is recorded before the request is made.
UnavailableBasicCopy(id) ==
    IF id # "CopyBasic" THEN Check(<<Path, Record({"target"})>>, "NotApplicable", Nothing)
    ELSE Rejected(<<Path, Record({"target"}), Path, RefusedCopy(TRUE)>>)

\* prepare_basic_copy, and the checks of the prepared case: the source is
\* recorded once the options have been vetted.
BasicCopyCase ==
    <<PrepareOr(Both("new", "absent"), {"target"}, "Unverified", "Unverified"),
      Vet, Record({"source"}), Vet>>

\* verify_copy_contents.
CopyContents(want) == Observe(want, "Unverified")

\* execute_basic_copy.  Executing the completed operation again is refused.
BasicCopyExecution(id) ==
    <<CopyFile>>
      \o (IF id = "CopyRepeatedExecute" THEN <<CopyContents(Copied), RefusedCopy(FALSE)>>
                                        ELSE <<>>)
      \o <<CopyContents(Copied)>>

BasicCopy(id, has) ==
    IF ~(CopyPrerequisites \subseteq has) THEN UnavailableBasicCopy(id)
    ELSE Check(<<Path, Record({"target"})>> \o BasicCopyCase
                 \o <<CopyContents([source |-> "new"])>> \o BasicCopyExecution(id),
               "Passed", Copied)

SyncBasicCopy(id, has) == BasicCopy(id, has)

\* check_copy_conflict_policy with verify_copy_conflict_result_contents.
ConflictPolicy(policy, fallback) ==
    LET refused == policy = "Fail" \/ (policy = "Overwrite" /\ fallback)
        effect == IF policy = "Skip" THEN Same({"source", "target"})
                                     ELSE Both("source", "source")
        left == IF policy = "Overwrite" /\ ~fallback THEN "new" ELSE "old"
    IN <<IF refused THEN RefusedCopy(FALSE) ELSE Publish(effect, "target"),
         CopyContents(Both("new", left))>>
SyncConflictPolicy(policy, fallback) == ConflictPolicy(policy, fallback)

CopyConflictOf(has, Policy(_, _)) ==
    LET fallback == "CopyFallbackOnly" \in has IN
    IF ~(CopyPrerequisites \subseteq has) THEN Outright("NotApplicable")
    ELSE Check(<<Prepare(Both("new", "old"), "Unverified"), Vet,
                 CopyContents(Both("new", "old"))>>
                 \o Policy("Fail", fallback) \o Policy("Skip", fallback)
                 \o Policy("Overwrite", fallback),
               IF fallback THEN "RejectedAsExpected" ELSE "Passed",
               Both("new", IF fallback THEN "old" ELSE "new"))

CopyConflict(has) == CopyConflictOf(has, ConflictPolicy)
SyncCopyConflict(has) == CopyConflictOf(has, SyncConflictPolicy)

\* Source contents and absence of the target before, both contents after.
StrongCopy ==
    <<Prepare(Both("new", "absent"), "Unverified"), Vet,
      Observe(Both("new", "absent"), "Unverified"),
      CopyFile, Observe(Copied, "Failed")>>

CopyServerSide(has) ==
    CASE "Copy" \notin has -> Outright("NotApplicable")
      [] "Copy" \in has /\ "ServerSideCopy" \notin has -> RejectedCopy
      [] OTHER -> Check(StrongCopy, "Passed", Copied)
SyncCopyServerSide(has) == CopyServerSide(has)

\* verify_available_copy_guarantee.
AvailableFileGuarantee == Check(StrongCopy, "Passed", Copied)

StrongFileCopy(capability, has) ==
    CASE "Copy" \notin has -> Outright("NotApplicable")
      [] "Copy" \in has /\ capability \notin has -> RejectedCopy
      [] OTHER -> AvailableFileGuarantee
SyncStrongFileCopy(capability, has) == StrongFileCopy(capability, has)

Tree(source, target, sourceChild, targetChild) ==
    [source |-> source, target |-> target,
     sourceChild |-> sourceChild, targetChild |-> targetChild]

TreeCopied == Tree("present", "present", "new", "new")

\* The entries below the two roots are recorded after the options are vetted.
StrongTreeSteps ==
    <<PrepareOr(Tree("dir", "absent", "new", "absent"), {"source", "target"},
                "Unverified", "Unverified"),
      Vet, Record({"sourceChild", "targetChild"}),
      Observe([source |-> "present", sourceChild |-> "new", target |-> "absent"], "Unverified"),
      Publish(Tree("source", "source", "sourceChild", "sourceChild"), "target"),
      Observe(TreeCopied, "Failed")>>

StrongTreeCopy(capability, has) ==
    CASE "Copy" \notin has -> Outright("NotApplicable")
      [] "Copy" \in has /\ capability \notin has -> RejectedCopy
      [] OTHER -> Check(StrongTreeSteps, "Passed", TreeCopied)
SyncStrongTreeCopy(capability, has) == StrongTreeCopy(capability, has)

-----------------------------------------------------------------------------

Moved == Both("absent", "new")

RenamePublication ==
    <<Call(Both("absent", "source")), Observe(Moved, "Failed")>>
SyncRenamePublication == RenamePublication

\* Without overwrite the rename must be refused, before it is repeated with it.
RenameRefusal ==
    <<Observe([target |-> "old"], "Failed"), Refuse({"source", "target"}),
      Observe(Both("new", "old"), "Failed")>>
SyncRenameRefusal == RenameRefusal

RenameOf(id, capability, has, refusal, publication) ==
    CASE id = "RenameConflict" /\ capability \notin has -> Outright("NotApplicable")
      [] id # "RenameConflict" /\ capability \notin has ->
            Rejected(<<Path, Path, Gate({"source", "target"})>>)
      [] OTHER ->
            Check(<<Prepare([source |-> "new"], "Unverified")>>
                    \o (IF id = "RenameConflict" THEN <<Prepare([target |-> "old"], "Unverified")>>
                                                 ELSE <<Path, Record({"target"})>>)
                    \o <<Vet, Observe([source |-> "new"], "Failed")>>
                    \o (IF id = "RenameConflict" THEN refusal
                                                 ELSE <<Observe([target |-> "absent"], "Failed")>>)
                    \o publication,
                  "Passed", Moved)

Rename(id, capability, has) ==
    RenameOf(id, capability, has, RenameRefusal, RenamePublication)
SyncRename(id, capability, has) ==
    RenameOf(id, capability, has, SyncRenameRefusal, SyncRenamePublication)

-----------------------------------------------------------------------------

\* The capability a check is about (internal/check_catalog.rs).
CopyRenameCapability ==
    [CopyAtomicFile |-> "AtomicFileCopy", CopyDurableFile |-> "DurableFileCopy",
     CopyAtomicTree |-> "AtomicTreeCopy", CopyDurableTree |-> "DurableTreeCopy",
     RenameBasic |-> "Rename", RenameConflict |-> "Rename",
     RenameAtomic |-> "AtomicRename", RenameDurable |-> "DurableRename"]
RenameIds == {"RenameBasic", "RenameConflict", "RenameAtomic", "RenameDurable"}

\* check_copy_item.
CopyCheck(id, has) ==
    CASE id \in {"CopyBasic", "CopyRepeatedExecute"} -> BasicCopy(id, has)
      [] id = "CopyFallbackOverwriteRejected" -> CopyConflict(has)
      [] id = "CopyServerSide" -> CopyServerSide(has)
      [] id \in {"CopyAtomicFile", "CopyDurableFile"} ->
            StrongFileCopy(CopyRenameCapability[id], has)
      [] OTHER -> StrongTreeCopy(CopyRenameCapability[id], has)

SyncCopyCheck(id, has) ==
    CASE id = "CopyBasic" -> SyncBasicCopy(id, has)
      [] id = "CopyFallbackOverwriteRejected" -> SyncCopyConflict(has)
      [] id = "CopyServerSide" -> SyncCopyServerSide(has)
      [] id \in {"CopyAtomicFile", "CopyDurableFile"} ->
            SyncStrongFileCopy(CopyRenameCapability[id], has)
      [] OTHER -> SyncStrongTreeCopy(CopyRenameCapability[id], has)

CopyIds == {"CopyBasic", "CopyFallbackOverwriteRejected", "CopyServerSide",
            "CopyAtomicFile", "CopyDurableFile", "CopyAtomicTree", "CopyDurableTree"}

\* Nothing, the prerequisites alone, everything, everything over a fallback.
CopyFeatures ==
    LET all == CopyPrerequisites \cup {"ServerSideCopy", "AtomicFileCopy", "DurableFileCopy",
                                       "AtomicTreeCopy", "DurableTreeCopy"}
    IN {{}, CopyPrerequisites, all, all \cup {"CopyFallbackOnly"}}
RenameFeatures == {{}, {"Rename"}, {"Rename", "AtomicRename", "DurableRename"}}

CopyKeys ==
    [mode : {"async"}, check : CopyIds \cup {"CopyRepeatedExecute"}, has : CopyFeatures]
    \cup [mode : {"sync"}, check : CopyIds, has : CopyFeatures]
RenameKeys == [mode : {"async", "sync"}, check : RenameIds, has : RenameFeatures]

CopyRenameProgram(k) ==
    CASE k.check \in RenameIds /\ k.mode = "async" ->
            Rename(k.check, CopyRenameCapability[k.check], k.has)
      [] k.check \in RenameIds /\ k.mode = "sync" ->
            SyncRename(k.check, CopyRenameCapability[k.check], k.has)
      [] k.check \notin RenameIds /\ k.mode = "async" -> CopyCheck(k.check, k.has)
      [] OTHER -> SyncCopyCheck(k.check, k.has)
=============================================================================
