------------------------------ MODULE TempChecks ------------------------------
(***************************************************************************)
(* The checks of FileSystemContract::TempResources, for temporary files    *)
(* and for temporary directories.                                          *)
(*                                                                         *)
(* `hook` is what a suite does when the fixture cannot write or read the   *)
(* content of a temporary resource: the asynchronous suite returns the     *)
(* reason ("Unverified") or keeps it for later ("defer"); the synchronous  *)
(* one completes the check and goes on ("note") or returns ("quit").       *)
(***************************************************************************)
EXTENDS CheckSteps

\* The resources of one run: `named` is created with parent, prefix and
\* suffix, `temp` is kept as `kept`, `source` persisted as `target`,
\* `replacement` persisted over `over`; `payload` is written below directories.
F == [parent |-> "fileParent", named |-> "fileNamed", temp |-> "fileTemp",
      kept |-> "fileKept", cleaned |-> "fileCleaned", first |-> "fileFirst",
      second |-> "fileSecond", third |-> "fileThird", source |-> "fileSource",
      target |-> "fileTarget", payload |-> {}]
D == [parent |-> "dirParent", named |-> "dirNamed", temp |-> "dirTemp",
      kept |-> "dirKept", cleaned |-> "dirCleaned", first |-> "dirFirst",
      second |-> "dirSecond", third |-> "dirThird", source |-> "dirSource",
      target |-> "dirTarget", replacement |-> "dirReplacement", over |-> "dirOver",
      payload |-> {"payload"}]

Is(role, content) == [r \in {role} |-> content]
Relocated(from, to) == [r \in {from, to} |-> IF r = from THEN "absent" ELSE "present"]

-----------------------------------------------------------------------------
(* The parts of the lifecycle.                                             *)

\* A parent of the wrong path semantics is refused; a resource created all the
\* same is owned by the failure.
InvalidParent(t) == <<RefuseOn({t.named}, {}, {t.named}, {t.named}, TRUE)>>

RequestedParent(t, has) ==
    IF "CreateDirectory" \in has THEN <<Prepare(Is(t.parent, "dir"), "Failed")>> ELSE <<>>

\* The requested parent, prefix and suffix show in the path; then cleanup.
NamedResource(t) ==
    <<CreateJudged(t.named), CleanTemp(t.named), Observe(Is(t.named, "absent"), "Failed")>>

Keeping(t, hook) ==
    <<Furnish(t.temp, t.payload, hook), Keep(t.temp, t.kept),
      Observe(Relocated(t.temp, t.kept), "Failed"), Confirm(t.kept, hook)>>

\* A call on a resource that is already kept or cleaned.  The failure of a
\* wrong refusal owns the resource, that of an accepted call does not.
RefuseAgain(role, touches) == RefuseOn(touches, {}, {role}, {}, FALSE)

\* Keep and cleanup of the kept resource, then cleanup of a cleaned one.
Repeating(t, hook) ==
    <<RefuseAgain(t.temp, {t.temp, t.kept}), RefuseAgain(t.temp, {t.temp, t.kept}),
      Observe(Is(t.kept, "present"), "Failed"), Confirm(t.kept, hook),
      CreateTemp(t.cleaned), CleanTemp(t.cleaned), Observe(Is(t.cleaned, "absent"), "Failed"),
      RefuseAgain(t.cleaned, {t.cleaned})>>

\* Cleaning the first file and creating a third leave the second alone.
InterleavedFiles(late, hook) ==
    <<CreateTemp(F.first), CreateTemp(F.second), Furnish(F.second, {}, late),
      CleanTemp(F.first), CreateJudged(F.third), Confirm(F.second, hook),
      CleanTemp(F.second), CleanTemp(F.third)>>

\* The same for directories, with a sentinel below the second.
InterleavedDirectories(hook) ==
    <<CreateTemp(D.first), CreateTemp(D.second), Furnish(D.second, {"sentinel"}, hook),
      CleanTemp(D.first),
      Observe([r \in {D.second, "sentinel"} |-> "present"], hook), Confirm(D.second, hook),
      CreateJudged(D.third), Confirm(D.second, hook),
      CleanTree(D.second, {"sentinel"}), CleanTemp(D.third)>>

PersistTarget(t) == <<Path, Record({t.target})>>

\* Atomic persistence that is not advertised leaves everything in place.
AtomicRefusal(t) ==
    <<RefuseOn({t.source, t.target}, {}, {t.source}, {}, FALSE),
      Observe(Is(t.source, "present"), "Failed"), Observe(Is(t.target, "absent"), "Failed"),
      CleanTree(t.source, t.payload), Observe(Is(t.source, "absent"), "Failed")>>

Publication(t, hook) ==
    <<Persist(t.source, t.target), Observe(Relocated(t.source, t.target), "Failed"),
      Confirm(t.target, hook)>>

Refusing(id, has) == id = "TempAtomic" /\ "AtomicTempPersist" \notin has

Persisting(t, id, has, hook) ==
    <<Furnish(t.source, t.payload, hook)>> \o PersistTarget(t)
      \o (IF Refusing(id, has) THEN AtomicRefusal(t) ELSE Publication(t, hook))

Overwriting(unready, hook) ==
    <<Prepare(Is(D.over, "dir"), unready), CreateTemp(D.replacement),
      Furnish(D.replacement, D.payload, hook), Persist(D.replacement, D.over),
      Observe(Relocated(D.replacement, D.over), "Failed"), Confirm(D.over, hook)>>

-----------------------------------------------------------------------------
(* execute_temp_file.                                                      *)

FileOptions(has) == InvalidParent(F) \o RequestedParent(F, has)
FileCreation == NamedResource(F)
FileKeep == Keeping(F, "Unverified")
FileRepeated == Repeating(F, "Unverified") \o InterleavedFiles("defer", "Unverified")
FilePersist(id, has) == Persisting(F, id, has, "Unverified")

SyncFileOptions(has) == InvalidParent(F) \o RequestedParent(F, has)
SyncFileCreation == NamedResource(F)
SyncFileKeep == Keeping(F, "note")
SyncFileRepeated == Repeating(F, "note") \o InterleavedFiles("note", "note")
SyncFilePersist(id, has) == Persisting(F, id, has, "note")

ExecuteTempFile(id, has) ==
    CASE "TempFile" \notin has -> <<GateTemp(F.named)>>
      [] "TempFile" \in has /\ id = "TempAtomic" ->
            <<CreateTemp(F.source)>> \o FilePersist(id, has)
      [] "TempFile" \in has /\ id = "TempRepeatedLifecycle" ->
            <<CreateTemp(F.temp)>> \o FileKeep \o FileRepeated
      [] OTHER ->
            FileOptions(has) \o FileCreation \o <<CreateTemp(F.temp)>> \o FileKeep
              \o <<CreateTemp(F.source)>> \o FilePersist(id, has)

SyncExecuteTempFile(id, has) ==
    CASE "TempFile" \notin has -> <<GateTemp(F.named)>>
      [] "TempFile" \in has /\ id = "TempAtomic" ->
            <<CreateTemp(F.source)>> \o SyncFilePersist(id, has)
      [] "TempFile" \in has /\ id = "TempRepeatedLifecycle" ->
            <<CreateTemp(F.temp)>> \o SyncFileKeep \o SyncFileRepeated
      [] OTHER ->
            SyncFileOptions(has) \o SyncFileCreation \o <<CreateTemp(F.temp)>> \o SyncFileKeep
              \o <<CreateTemp(F.source)>> \o SyncFilePersist(id, has)

-----------------------------------------------------------------------------
(* execute_temp_directory.                                                 *)

DirectoryOptions(has) == InvalidParent(D) \o RequestedParent(D, has) \o NamedResource(D)
\* prepare_temp_directory_persistence.
DirectoryKeep == Keeping(D, "Unverified")
DirectoryRepeated == Repeating(D, "Unverified")
DirectoryInterleaved == InterleavedDirectories("Unverified")
DirectoryPersist(id, has) == Persisting(D, id, has, "Unverified")
DirectoryOverwrite == Overwriting("Unverified", "Unverified")

SyncDirectoryOptions(has) ==
    InvalidParent(D) \o RequestedParent(D, has) \o NamedResource(D)
SyncDirectoryKeep == Keeping(D, "note")
SyncDirectoryRepeated == Repeating(D, "note")
SyncDirectoryInterleaved == InterleavedDirectories("quit")
SyncDirectoryPersist(id, has) == Persisting(D, id, has, "note")
SyncDirectoryOverwrite == Overwriting("Failed", "note")

\* For TempAtomic the asynchronous suite writes the content twice.
ExecuteTempDirectory(id, has) ==
    CASE "TempDirectory" \notin has -> <<GateTemp(D.named)>>
      [] "TempDirectory" \in has /\ id = "TempAtomic" ->
            <<CreateTemp(D.source), Furnish(D.source, D.payload, "Unverified")>>
              \o DirectoryPersist(id, has)
      [] "TempDirectory" \in has /\ id = "TempRepeatedLifecycle" ->
            <<CreateTemp(D.temp)>> \o DirectoryKeep \o DirectoryRepeated
              \o DirectoryInterleaved
      [] OTHER ->
            DirectoryOptions(has) \o <<CreateTemp(D.temp)>> \o DirectoryKeep
              \o <<CreateTemp(D.source)>> \o DirectoryPersist(id, has) \o DirectoryOverwrite

SyncExecuteTempDirectory(id, has) ==
    CASE "TempDirectory" \notin has -> <<GateTemp(D.named)>>
      [] "TempDirectory" \in has /\ id = "TempAtomic" ->
            <<CreateTemp(D.source)>> \o SyncDirectoryPersist(id, has)
      [] "TempDirectory" \in has /\ id = "TempRepeatedLifecycle" ->
            <<CreateTemp(D.temp)>> \o SyncDirectoryKeep \o SyncDirectoryRepeated
              \o SyncDirectoryInterleaved
      [] OTHER ->
            SyncDirectoryOptions(has) \o <<CreateTemp(D.temp)>> \o SyncDirectoryKeep
              \o <<CreateTemp(D.source)>> \o SyncDirectoryPersist(id, has)
              \o SyncDirectoryOverwrite

-----------------------------------------------------------------------------
(* check_temp_item.                                                        *)

\* What a section that ran to its end has seen of its resources.
Evidence(t, id, has) ==
    CASE Refusing(id, has) -> [r \in {t.source, t.target} |-> "absent"]
      [] ~Refusing(id, has) /\ id = "TempAtomic" ->
            [r \in {t.source, t.target} |-> IF r = t.source THEN "absent" ELSE "data"]
      [] id = "TempRepeatedLifecycle" -> Is(t.kept, "data")
      [] OTHER ->
            [r \in {t.named, t.temp, t.kept, t.source, t.target} |->
               IF r \in {t.kept, t.target} THEN "data" ELSE "absent"]

Merged(f, g) == [r \in DOMAIN f \cup DOMAIN g |-> IF r \in DOMAIN f THEN f[r] ELSE g[r]]

TempItem(id, has, file, directory) ==
    LET runs == CASE id = "TempFile" -> {"TempFile"}
                  [] id = "TempDirectory" -> {"TempDirectory"}
                  [] OTHER -> {"TempFile", "TempDirectory"} \cap has
        outcome ==
            CASE id \in {"TempFile", "TempDirectory"} ->
                    IF id \in has THEN "Passed" ELSE "RejectedAsExpected"
              [] OTHER ->
                    IF runs = {} THEN "NotApplicable"
                    ELSE IF Refusing(id, has) THEN "RejectedAsExpected" ELSE "Passed"
        Seen(c, t) == IF c \in runs \cap has THEN Evidence(t, id, has) ELSE Nothing
    IN Program((IF "TempFile" \in runs THEN <<file>> ELSE <<>>)
                 \o (IF "TempDirectory" \in runs THEN <<directory>> ELSE <<>>),
               outcome, Merged(Seen("TempFile", F), Seen("TempDirectory", D)))

CheckTempItem(id, has) ==
    TempItem(id, has, ExecuteTempFile(id, has), ExecuteTempDirectory(id, has))
SyncCheckTempItem(id, has) ==
    TempItem(id, has, SyncExecuteTempFile(id, has), SyncExecuteTempDirectory(id, has))

\* Both kinds of resource in one check: the short program shows how the two
\* sections combine.
TempKeys ==
    [mode : {"async", "sync"}, check : {"TempFile", "TempDirectory"},
     has : {{}, {"TempFile", "TempDirectory", "CreateDirectory"}}]
    \cup [mode : {"async", "sync"}, check : {"TempRepeatedLifecycle"},
          has : {{}, {"TempFile"}, {"TempDirectory"}}]
    \cup [mode : {"async", "sync"}, check : {"TempAtomic"},
          has : {{}, {"TempFile"}, {"TempDirectory"}, {"TempFile", "TempDirectory"},
                 {"TempFile", "TempDirectory", "AtomicTempPersist"}}]

TempProgram(k) == IF k.mode = "async" THEN CheckTempItem(k.check, k.has)
                                      ELSE SyncCheckTempItem(k.check, k.has)
=============================================================================
