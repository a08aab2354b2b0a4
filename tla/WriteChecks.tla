------------------------------ MODULE WriteChecks ------------------------------
(***************************************************************************)
(* The checks of FileSystemContract::Write, except the cancellation probes *)
(* (module CancellationProbe).  `has` is the set of advertised             *)
(* capabilities and, as "FiniteWriteLimit", whether the declared write     *)
(* limit fits the probe budget.                                            *)
(*                                                                         *)
(* A Sync operator is the check of FileSystemContractSuite.  Where the two *)
(* suites differ only in their awaits and in the whole-file write they     *)
(* call (execute_write, write_all) it is the asynchronous program.         *)
(***************************************************************************)
EXTENDS CheckSteps

\* execute_write (internal/execute_write.rs) and FileSystem::write_all.
WriteAll(content) == Publish([target |-> content], "target")

\* Without the capability a writer must not open; the failed comparison keeps
\* the error, and no path is recorded.
RejectedOpening == Rejected(<<Path, GateOpen("target")>>)

\* The request of the case is vetted either after or before its path is
\* recorded; in between there is no await.
RecordedCase(seed) == <<Prepare([target |-> seed], "Unverified"), Vet>>
VettedCase(seed) ==
    <<Unrecorded([target |-> seed], "Unverified"), Vet, Record({"target"})>>

Holds(content) == [target |-> content]
Published(content) == Observe(Holds(content), "Failed")

\* An expected refusal, its recovery session, and the independent evidence
\* that nothing was published.
RefusedWrite(content) ==
    <<RefuseWrite("target"), Settle("target"), Published(content)>>

WriteBasic(has) ==
    IF "Write" \notin has THEN RejectedOpening
    ELSE Check(VettedCase("absent")
                 \o <<OpenWriter("target"), Stream("target"), Commit("target"),
                      Published("new")>>,
               "Passed", Holds("new"))

SyncWriteBasic(has) ==
    IF "Write" \notin has THEN RejectedOpening
    ELSE Check(VettedCase("absent") \o <<WriteAll("new"), Published("new")>>,
               "Passed", Holds("new"))

WriteCreateConflict(has) ==
    Check(RecordedCase("old") \o <<Observe(Holds("old"), "Unverified")>>
            \o RefusedWrite("old"),
          "RejectedAsExpected", Holds("old"))
SyncWriteCreateConflict(has) == WriteCreateConflict(has)

WriteReplace(has) ==
    Check(RecordedCase("old")
            \o <<Observe(Holds("old"), "Unverified"), WriteAll("new"), Published("new")>>,
          "Passed", Holds("new"))
SyncWriteReplace(has) == WriteReplace(has)

WriteAbort(has) ==
    Check(RecordedCase("absent")
            \o <<Observe(Holds("absent"), "Unverified"),
                 OpenWriter("target"), Stream("target"), Abort("target"),
                 Observe(Holds("claimed"), "Unverified")>>,
          "Passed", Holds("claimed"))
SyncWriteAbort(has) == WriteAbort(has)

\* One turn of the loop over the boundary and its successor.
LimitCase(role) ==
    <<PrepareOr([r \in {role} |-> "absent"], {}, "SkippedOptional", "Unverified"),
      Vet, Record({role})>>

\* The write above the limit is not observed after its refusal.
WriteLimit(has) ==
    IF "FiniteWriteLimit" \notin has THEN Outright("SkippedOptional")
    ELSE Check(LimitCase("target") \o <<WriteAll("new"), Published("new")>>
                 \o LimitCase("over") \o <<RefuseWrite("over"), Settle("over")>>,
               "Passed", Holds("new"))
SyncWriteLimit(has) == WriteLimit(has)

WriteIfAbsent(has) ==
    IF "ConditionalWrite" \notin has THEN RejectedOpening
    ELSE Check(VettedCase("absent") \o <<WriteAll("new"), Published("new")>>
                 \o RefusedWrite("new"),
               "Passed", Holds("new"))
SyncWriteIfAbsent(has) == WriteIfAbsent(has)

WriteIfMatch(has) ==
    IF "ConditionalWrite" \notin has THEN RejectedOpening
    ELSE Check(<<Prepare(Holds("old"), "Unverified"), Ask("Unverified"), Vet,
                 WriteAll("new"), Published("new"), Ask("Unverified")>>
                 \o RefusedWrite("new"),
               "Passed", Holds("new"))

\* The synchronous suite splits the check into helpers.
SyncIfMatchCase == <<Prepare(Holds("old"), "Unverified")>>
SyncIfMatchPublication == <<Ask("Unverified"), Vet, WriteAll("new"), Published("new")>>
SyncIfMatchRejection == <<Ask("Unverified")>> \o RefusedWrite("new")

SyncWriteIfMatch(has) ==
    IF "ConditionalWrite" \notin has THEN RejectedOpening
    ELSE Check(SyncIfMatchCase \o SyncIfMatchPublication \o SyncIfMatchRejection,
               "Passed", Holds("new"))

AppendBasic(has) ==
    IF "Append" \notin has THEN RejectedOpening
    ELSE Check(RecordedCase("old")
                 \o <<Observe(Holds("old"), "Unverified"), WriteAll("both"), Published("both")>>,
               "Passed", Holds("both"))
SyncAppendBasic(has) == AppendBasic(has)

\* execute_write_guarantee, for an atomic replacement and a durable creation.
AtomicReplacement ==
    RecordedCase("old") \o <<Observe(Holds("old"), "Failed"), WriteAll("new"), Published("new")>>
DurableCreation == RecordedCase("absent") \o <<WriteAll("new"), Published("new")>>

WriteGuarantee(capability, steps, has) ==
    IF capability \notin has THEN RejectedOpening
    ELSE Check(steps, "Passed", Holds("new"))
SyncWriteGuarantee(capability, steps, has) == WriteGuarantee(capability, steps, has)

\* The operation object of begin_write_all owns the recovery.
WriteOwning(id, has) ==
    IF "Write" \notin has THEN Rejected(<<Path, GateOpen("target")>>)
    ELSE Check(VettedCase("absent") \o <<WriteAll("new"), Published("new")>>
                 \o (IF id = "WriteOwningOperation" THEN <<>>
                     ELSE <<RefuseOn({"target"}, {}, {"target"}, {}, FALSE), Published("new")>>),
               "Passed", Holds("new"))

\* check_write_item.
NeedsNoWrite == {"WriteBasic", "WriteOwningOperation"}

WriteCheck(id, has) ==
    IF "Write" \notin has /\ id \notin NeedsNoWrite THEN Outright("NotApplicable")
    ELSE CASE id = "WriteBasic" -> WriteBasic(has)
           [] id = "WriteCreateConflict" -> WriteCreateConflict(has)
           [] id = "WriteReplace" -> WriteReplace(has)
           [] id = "WriteAbort" -> WriteAbort(has)
           [] id = "WriteLimit" -> WriteLimit(has)
           [] id = "WriteIfAbsent" -> WriteIfAbsent(has)
           [] id = "WriteIfMatch" -> WriteIfMatch(has)
           [] id = "AppendBasic" -> AppendBasic(has)
           [] id = "WriteAtomicReplaceExisting" ->
                 WriteGuarantee("AtomicReplace", AtomicReplacement, has)
           [] id = "WriteDurable" -> WriteGuarantee("DurableWrite", DurableCreation, has)
           [] OTHER -> WriteOwning(id, has)

SyncWriteCheck(id, has) ==
    IF "Write" \notin has /\ id \notin NeedsNoWrite THEN Outright("NotApplicable")
    ELSE CASE id = "WriteBasic" -> SyncWriteBasic(has)
           [] id = "WriteCreateConflict" -> SyncWriteCreateConflict(has)
           [] id = "WriteReplace" -> SyncWriteReplace(has)
           [] id = "WriteAbort" -> SyncWriteAbort(has)
           [] id = "WriteLimit" -> SyncWriteLimit(has)
           [] id = "WriteIfAbsent" -> SyncWriteIfAbsent(has)
           [] id = "WriteIfMatch" -> SyncWriteIfMatch(has)
           [] id = "AppendBasic" -> SyncAppendBasic(has)
           [] id = "WriteAtomicReplaceExisting" ->
                 SyncWriteGuarantee("AtomicReplace", AtomicReplacement, has)
           [] OTHER -> SyncWriteGuarantee("DurableWrite", DurableCreation, has)

WriteCheckIds == {"WriteBasic", "WriteCreateConflict", "WriteReplace", "WriteAbort",
    "WriteLimit", "WriteIfAbsent", "WriteIfMatch", "AppendBasic",
    "WriteAtomicReplaceExisting", "WriteDurable"}
OwningWriteIds == {"WriteOwningOperation", "WriteRepeatedExecute"}

\* The advertised capabilities a check reads.
WriteFeatures == {{}} \cup {{"Write"} \cup f : f \in
    {{}, {"FiniteWriteLimit", "ConditionalWrite", "Append", "AtomicReplace", "DurableWrite"}}}

WriteKeys ==
    [mode : {"async"}, check : WriteCheckIds \cup OwningWriteIds, has : WriteFeatures]
    \cup [mode : {"sync"}, check : WriteCheckIds, has : WriteFeatures]

WriteProgram(k) == IF k.mode = "async" THEN WriteCheck(k.check, k.has)
                                       ELSE SyncWriteCheck(k.check, k.has)
=============================================================================
