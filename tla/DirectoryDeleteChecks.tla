------------------------- MODULE DirectoryDeleteChecks -------------------------
(***************************************************************************)
(* The checks of FileSystemContract::CreateDirectory and ::Delete.  In a   *)
(* tree "target" is the root, or the requested ancestor, and "targetChild" *)
(* what lies below it.                                                     *)
(***************************************************************************)
EXTENDS CheckSteps

\* Without the capability the request is refused by the facade.
RejectedRequest(roles) == Rejected(<<Path, Gate(roles)>>)

All(roles, content) == [r \in roles |-> content]

-----------------------------------------------------------------------------
(* create_directory.                                                       *)

\* The created paths: the target and, for a recursive request, its parent.
DirectoryPaths(id) ==
    IF id = "DirectoryRecursive" THEN {"target", "targetChild"} ELSE {"target"}
DirectoryTarget(id) ==
    IF id = "DirectoryRecursive" THEN "targetChild" ELSE "target"

CreateDirectoryRejected(id) == RejectedRequest(DirectoryPaths(id))

\* Only an observed absence is a premise; the paths are recorded after it.
TargetsAbsent(id) ==
    <<Path, Observe(All(DirectoryPaths(id), "absent"), "Unverified"),
      Record(DirectoryPaths(id))>>

\* The parent and then the target: it exists, and stat calls it a directory.
DirectoryPublication(id) ==
    <<Observe([target |-> "present"], "Unverified"), Query,
      Observe(All({DirectoryTarget(id)}, "present"), "Unverified"), Query>>

\* The directory is created again and must be reported as existing.
DirectoryExistsOk(id) == <<Call(Same(DirectoryPaths(id)))>>

\* Nothing looks at the directories after the second creation.
CreateDirectory(id, has) ==
    IF "CreateDirectory" \notin has THEN CreateDirectoryRejected(id)
    ELSE Check(TargetsAbsent(id) \o <<Call(All(DirectoryPaths(id), "dir"))>>
                 \o DirectoryPublication(id) \o DirectoryExistsOk(id),
               "Passed", Nothing)

\* The synchronous check is one function in the same order.
SyncCreateDirectory(id, has) == CreateDirectory(id, has)

-----------------------------------------------------------------------------
(* delete_file.                                                            *)

UnavailableDelete(id) ==
    IF id # "DeleteBasic" THEN Outright("NotApplicable") ELSE RejectedRequest({"target"})
SyncUnavailableDelete(id) == UnavailableDelete(id)

MissingDelete ==
    Check(<<Path, Observe([target |-> "absent"], "Unverified"), Record({"target"}),
            Call([target |-> "absent"]), Observe([target |-> "absent"], "Unverified")>>,
          "Passed", [target |-> "absent"])
SyncMissingDelete == MissingDelete

\* delete_file with if_match where ConditionalDelete is not advertised.
UnavailableConditionalDelete == RejectedRequest({"target"})

\* Both versions are asked for before either answer is looked at.
StaleDelete ==
    <<Ask("Unverified"), Vet, Refuse({"target"}), Observe([target |-> "old"], "Failed")>>

SeededDelete(id) ==
    Check(<<Prepare([target |-> "old"], "Unverified"), Observe([target |-> "old"], "Failed")>>
            \o (IF id = "DeleteIfMatch" THEN StaleDelete ELSE <<>>)
            \o <<Call([target |-> "absent"]), Observe([target |-> "absent"], "Failed")>>,
          "Passed", [target |-> "absent"])
SyncSeededDelete(id) == SeededDelete(id)

\* execute_delete.
Delete(id, has) ==
    CASE "Delete" \notin has -> UnavailableDelete(id)
      [] "Delete" \in has /\ id = "DeleteMissingOk" -> MissingDelete
      [] "Delete" \in has /\ id = "DeleteIfMatch" /\ "ConditionalDelete" \notin has ->
            UnavailableConditionalDelete
      [] OTHER -> SeededDelete(id)
SyncDelete(id, has) ==
    CASE "Delete" \notin has -> SyncUnavailableDelete(id)
      [] "Delete" \in has /\ id = "DeleteMissingOk" -> SyncMissingDelete
      [] "Delete" \in has /\ id = "DeleteIfMatch" /\ "ConditionalDelete" \notin has ->
            UnavailableConditionalDelete
      [] OTHER -> SyncSeededDelete(id)

-----------------------------------------------------------------------------
(* delete_directory.                                                       *)

DeletedTree == {"target", "targetChild"}

DeleteTree(has) ==
    IF "RecursiveDelete" \notin has THEN RejectedRequest(DeletedTree)
    ELSE Check(<<Prepare([target |-> "dir"], "Unverified"),
                 Prepare([targetChild |-> "old"], "Unverified"),
                 Observe(All(DeletedTree, "present"), "Unverified"),
                 Call(All(DeletedTree, "absent")),
                 Observe(All(DeletedTree, "absent"), "Unverified")>>,
               "Passed", All(DeletedTree, "absent"))
SyncDeleteTree(has) == DeleteTree(has)

-----------------------------------------------------------------------------
DirectoryKeys ==
    [mode : {"async", "sync"}, check : {"DirectoryCreate", "DirectoryRecursive"},
     has : {{}, {"CreateDirectory"}}]
DeleteKeys ==
    [mode : {"async", "sync"}, check : {"DeleteBasic", "DeleteMissingOk", "DeleteIfMatch"},
     has : {{}, {"Delete"}, {"Delete", "ConditionalDelete"}}]
    \cup [mode : {"async", "sync"}, check : {"DeleteTree"}, has : {{}, {"RecursiveDelete"}}]

\* check_create_directory_item and check_delete_item.
DirectoryProgram(k) ==
    IF k.mode = "async" THEN CreateDirectory(k.check, k.has)
                        ELSE SyncCreateDirectory(k.check, k.has)
DeleteProgram(k) ==
    CASE k.check = "DeleteTree" ->
            IF k.mode = "async" THEN DeleteTree(k.has) ELSE SyncDeleteTree(k.has)
      [] OTHER ->
            IF k.mode = "async" THEN Delete(k.check, k.has) ELSE SyncDelete(k.check, k.has)
=============================================================================
