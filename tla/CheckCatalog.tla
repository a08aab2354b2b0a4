----------------------------- MODULE CheckCatalog -----------------------------
(***************************************************************************)
(* The catalog of contract checks (internal/check_catalog.rs): for every   *)
(* identity its phase, the capability it is about, whether it needs an     *)
(* asynchronous suite and whether it is optional; the orders in which      *)
(* phases and checks execute; and the loops of the phase drivers, which    *)
(* repeat parts of the catalog.  The scenario fields of an entry only      *)
(* choose the fixture case that the programs of the checks start with.     *)
(***************************************************************************)
EXTENDS SequencesExt

Entry(contract, capability) ==
    [contract |-> contract, capability |-> capability,
     asynchronousOnly |-> FALSE, optional |-> FALSE]
Optional(entry) == [entry EXCEPT !.optional = TRUE]
AsyncOnly(entry) == [entry EXCEPT !.asynchronousOnly = TRUE]
CancelProbe(contract) == Optional(AsyncOnly(Entry(contract, contract)))

-----------------------------------------------------------------------------
(* specification, by phase.                                                *)

PropertiesSpecs ==
    [PropertiesCapabilityDependencies |-> Entry("Properties", "None"),
     PropertiesLimitComponentAdmission |-> Optional(Entry("Properties", "None")),
     PropertiesLimitListPage |-> Optional(Entry("Properties", "None")),
     PropertiesLimitPathAdmission |-> Optional(Entry("Properties", "None")),
     PropertiesLimits |-> Entry("Properties", "None"),
     PropertiesPathConstraints |-> Entry("Properties", "None"),
     PropertiesSnapshot |-> Entry("Properties", "Read"),
     PropertiesSymlinkPolicy |-> Entry("Properties", "None")]

StatSpecs ==
    [StatBasic |-> Entry("Stat", "Read"), StatFileKind |-> Entry("Stat", "None")]

ReadSpecs ==
    [ReadBasic |-> Entry("Read", "Read"),
     ReadChecksum |-> Entry("Read", "ChecksumValidation"),
     ReadChecksumCorruption |-> Optional(Entry("Read", "ChecksumValidation")),
     ReadIfMatchCurrent |-> Entry("Read", "ConditionalRead"),
     ReadIfMatchStale |-> Entry("Read", "ConditionalRead"),
     ReadIfNoneMatchCurrent |-> Entry("Read", "ConditionalRead"),
     ReadIfNoneMatchStale |-> Entry("Read", "ConditionalRead"),
     ReadRange |-> Entry("Read", "RangeRead"),
     ReadRangeLimit |-> Optional(Entry("Read", "RangeRead"))]

WriteSpecs ==
    [WriteAtomicReplaceExisting |-> Entry("Write", "AtomicReplace"),
     WriteBasic |-> Entry("Write", "Write"),
     WriteAbort |-> Entry("Write", "Write"),
     WriteReplace |-> Entry("Write", "Write"),
     WriteCreateConflict |-> Entry("Write", "Write"),
     WriteCancelCommit |-> CancelProbe("Write"),
     WriteCancelFlush |-> CancelProbe("Write"),
     WriteCancelOpen |-> CancelProbe("Write"),
     WriteCancelWrite |-> CancelProbe("Write"),
     WriteDurable |-> Entry("Write", "DurableWrite"),
     WriteIfAbsent |-> Entry("Write", "ConditionalWrite"),
     WriteIfMatch |-> Entry("Write", "ConditionalWrite"),
     WriteLimit |-> Optional(Entry("Write", "Write")),
     WriteOwningOperation |-> AsyncOnly(Entry("Write", "Write")),
     WriteRepeatedExecute |-> AsyncOnly(Entry("Write", "Write"))]

AppendSpecs == [AppendBasic |-> Entry("Write", "Append")]

ListSpecs ==
    [id \in {"ListBasic", "ListLiteralPrefix", "ListNamespace", "ListRawRootPrefix",
             "ListPagination", "ListPrefix"} |-> Entry("List", "List")]

DirectorySpecs ==
    [id \in {"DirectoryCreate", "DirectoryRecursive"} |->
       Entry("CreateDirectory", "CreateDirectory")]

RepresentationSpecs ==
    [RepresentationEmpty |-> Entry("Representations", "EmptyDirectory"),
     RepresentationSymlink |-> Entry("Representations", "Symlink")]

DeleteSpecs ==
    [DeleteBasic |-> Entry("Delete", "Delete"),
     DeleteIfMatch |-> Entry("Delete", "ConditionalDelete"),
     DeleteMissingOk |-> Entry("Delete", "Delete"),
     DeleteTree |-> Entry("Delete", "RecursiveDelete")]

CopySpecs ==
    [AsyncCopyCancelCommit |-> CancelProbe("Copy"),
     AsyncCopyCancelNativeAttempt |-> CancelProbe("Copy"),
     AsyncCopyCancelReader |-> CancelProbe("Copy"),
     AsyncCopyCancelWriter |-> CancelProbe("Copy"),
     CopyAtomicFile |-> Entry("Copy", "AtomicFileCopy"),
     CopyAtomicTree |-> Entry("Copy", "AtomicTreeCopy"),
     CopyBasic |-> Entry("Copy", "Copy"),
     CopyDurableFile |-> Entry("Copy", "DurableFileCopy"),
     CopyDurableTree |-> Entry("Copy", "DurableTreeCopy"),
     CopyFallbackOverwriteRejected |-> Entry("Copy", "Copy"),
     CopyRepeatedExecute |-> AsyncOnly(Entry("Copy", "Copy")),
     CopyServerSide |-> Entry("Copy", "ServerSideCopy")]

RenameSpecs ==
    [RenameAtomic |-> Entry("Rename", "AtomicRename"),
     RenameBasic |-> Entry("Rename", "Rename"),
     RenameConflict |-> Entry("Rename", "Rename"),
     RenameDurable |-> Entry("Rename", "DurableRename")]

TempSpecs ==
    [TempAtomic |-> Entry("TempResources", "AtomicTempPersist"),
     TempDirectory |-> Entry("TempResources", "TempDirectory"),
     TempFile |-> Entry("TempResources", "TempFile"),
     TempRepeatedLifecycle |-> Entry("TempResources", "None")]

ErrorContextSpecs == [ErrorContext |-> Entry("ErrorContext", "None")]

\* ContractCheckId::ALL.
AllIds == <<"AppendBasic", "AsyncCopyCancelCommit", "AsyncCopyCancelNativeAttempt",
    "AsyncCopyCancelReader", "AsyncCopyCancelWriter", "CopyAtomicFile", "CopyAtomicTree",
    "CopyBasic", "CopyDurableFile", "CopyDurableTree", "CopyFallbackOverwriteRejected",
    "CopyRepeatedExecute", "CopyServerSide", "DeleteBasic", "DeleteIfMatch",
    "DeleteMissingOk", "DeleteTree", "DirectoryCreate", "DirectoryRecursive",
    "ErrorContext", "ListBasic", "ListLiteralPrefix", "ListNamespace",
    "ListRawRootPrefix", "ListPagination", "ListPrefix",
    "PropertiesCapabilityDependencies", "PropertiesLimitComponentAdmission",
    "PropertiesLimitListPage", "PropertiesLimitPathAdmission", "PropertiesLimits",
    "PropertiesPathConstraints", "PropertiesSnapshot", "PropertiesSymlinkPolicy",
    "ReadBasic", "ReadChecksum", "ReadChecksumCorruption", "ReadIfMatchCurrent",
    "ReadIfMatchStale", "ReadIfNoneMatchCurrent", "ReadIfNoneMatchStale", "ReadRange",
    "ReadRangeLimit", "RenameAtomic", "RenameBasic", "RenameConflict", "RenameDurable",
    "RepresentationEmpty", "RepresentationSymlink", "StatBasic", "StatFileKind",
    "TempAtomic", "TempDirectory", "TempFile", "TempRepeatedLifecycle",
    "WriteAtomicReplaceExisting", "WriteBasic", "WriteCreateConflict", "WriteReplace",
    "WriteAbort", "WriteCancelCommit", "WriteCancelFlush", "WriteCancelOpen",
    "WriteCancelWrite", "WriteDurable", "WriteIfAbsent", "WriteIfMatch", "WriteLimit",
    "WriteOwningOperation", "WriteRepeatedExecute">>

Specification ==
    PropertiesSpecs @@ StatSpecs @@ ReadSpecs @@ WriteSpecs @@ AppendSpecs @@ ListSpecs
    @@ DirectorySpecs @@ RepresentationSpecs @@ DeleteSpecs @@ CopySpecs @@ RenameSpecs
    @@ TempSpecs @@ ErrorContextSpecs

OptionalIds == {id \in DOMAIN Specification : Specification[id].optional}
SupportsSynchronous(id) == ~Specification[id].asynchronousOnly

-----------------------------------------------------------------------------
(* Orders.                                                                 *)

\* FileSystemContract::ALL.
AllContracts == <<"Properties", "Stat", "Read", "Write", "List", "CreateDirectory",
    "Representations", "Delete", "Copy", "Rename", "TempResources", "ErrorContext">>

\* WRITE_CHECKS and COPY_CHECKS.
WriteOrder == <<"WriteBasic", "WriteCreateConflict", "WriteReplace", "WriteAbort",
    "WriteLimit", "WriteIfAbsent", "WriteIfMatch", "WriteAtomicReplaceExisting",
    "WriteDurable", "WriteOwningOperation", "WriteRepeatedExecute", "WriteCancelOpen",
    "WriteCancelWrite", "WriteCancelFlush", "WriteCancelCommit", "AppendBasic">>
CopyOrder == <<"CopyBasic", "CopyRepeatedExecute", "CopyFallbackOverwriteRejected",
    "CopyServerSide", "CopyAtomicFile", "CopyAtomicTree", "CopyDurableFile",
    "CopyDurableTree", "AsyncCopyCancelNativeAttempt", "AsyncCopyCancelReader",
    "AsyncCopyCancelWriter", "AsyncCopyCancelCommit">>

ForContract(contract, asynchronous) ==
    LET ids == CASE contract = "Write" -> WriteOrder
                 [] contract = "Copy" -> CopyOrder
                 [] OTHER -> AllIds
        Applies(id) == /\ Specification[id].contract = contract
                       /\ asynchronous \/ SupportsSynchronous(id)
    IN SelectSeq(ids, Applies)

\* CheckSpec::prerequisites: the evidence a check builds on.
Prerequisites(id) ==
    CASE id \in {"CopyRepeatedExecute", "CopyFallbackOverwriteRejected", "CopyServerSide",
                 "CopyAtomicFile", "CopyAtomicTree", "CopyDurableFile", "CopyDurableTree"} ->
            {"CopyBasic"}
      [] id = "WriteRepeatedExecute" -> {"WriteBasic"}
      [] id \in {"TempAtomic", "TempRepeatedLifecycle"} -> {"TempFile", "TempDirectory"}
      [] OTHER -> {}

-----------------------------------------------------------------------------
(* The loops of the drivers.                                               *)

CheckStat == <<"StatBasic", "StatFileKind">>
CheckList == <<"ListBasic", "ListPrefix", "ListPagination", "ListLiteralPrefix",
               "ListNamespace", "ListRawRootPrefix">>
CheckCreateDirectory == <<"DirectoryCreate", "DirectoryRecursive">>
CheckRepresentations == <<"RepresentationEmpty", "RepresentationSymlink">>
\* check_delete, then check_delete_tree.
CheckDelete == <<"DeleteBasic", "DeleteMissingOk", "DeleteIfMatch", "DeleteTree">>
CheckRename == <<"RenameBasic", "RenameConflict", "RenameAtomic", "RenameDurable">>
CheckTempResources == <<"TempFile", "TempDirectory", "TempAtomic", "TempRepeatedLifecycle">>

\* dispatch_contract.
DispatchContract(contract, asynchronous) ==
    CASE contract \in {"Properties", "Read", "Write", "Copy"} ->
            ForContract(contract, asynchronous)
      [] contract = "Stat" -> CheckStat
      [] contract = "List" -> CheckList
      [] contract = "CreateDirectory" -> CheckCreateDirectory
      [] contract = "Representations" -> CheckRepresentations
      [] contract = "Delete" -> CheckDelete
      [] contract = "Rename" -> CheckRename
      [] contract = "TempResources" -> CheckTempResources
      [] contract = "ErrorContext" -> <<"ErrorContext">>
=============================================================================
