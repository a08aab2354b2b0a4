---------------------------- MODULE AsyncCleanup ----------------------------
(***************************************************************************)
(* The resource ledger of the asynchronous suite and one cleanup attempt   *)
(* over it: ContractContext::cleanup_async (contract_context.rs) driven by *)
(* AsyncFileSystemContractSuite::finish_capture (support.rs).              *)
(*                                                                         *)
(* Every `.await` of the code is a value of pc, so that another actor can  *)
(* act while the future is suspended: the provider answers in any way, an  *)
(* outside process removes a path, or the caller drops the future.         *)
(***************************************************************************)
EXTENDS Integers, Sequences, SequencesExt, ProviderStore

CONSTANT MaxAttempts  \* bound: cleanup attempts

ASSUME AttemptBoundAssumption == MaxAttempts \in Nat

VARIABLES
    resources,          \* ContractContext.resources, in insertion order
    resourceIndex,      \* ContractContext.resource_index
    attempts,           \* CleanupReport.attempts
    completed,          \* CleanupReport.completed
    failures,           \* CleanupReport.failures
    teardownCompleted,  \* AsyncFileSystemContractSuite.teardown_completed
    pc,                 \* the await at which finish_capture is suspended
    cursor,             \* the loop index of cleanup_async; 0 outside the loop
    failureStart,       \* failure_start of the latest attempt
    recorded,           \* history: the paths ever pushed to the ledger
    clean               \* history: see Begin

ledgerVars == <<resources, resourceIndex, recorded>>
reportVars == <<attempts, completed, failures, failureStart>>
ghostVars  == <<clean, faults>>
cleanupVars == <<ledgerVars, reportVars, storeVars, ghostVars,
                 teardownCompleted, pc, cursor>>

LedgerPaths == {resources[i].path : i \in DOMAIN resources}

CleanupInit ==
    /\ resources = <<>> /\ resourceIndex = 0 /\ recorded = {}
    /\ attempts = 0 /\ completed = FALSE
    /\ failures = <<>> /\ failureStart = 0
    /\ teardownCompleted = FALSE
    /\ pc = "idle" /\ cursor = 0
    /\ clean = FALSE
    /\ StoreInit

-----------------------------------------------------------------------------
(* What a check does between two cleanups.                                 *)

\* A fixture hook or a provider call creates p.  Names are unique within a
\* suite (name_counter), so a path appears once, and no cleanup runs between
\* recording a path and staging it.
Stage(p) ==
    /\ p \in recorded => p \in LedgerPaths
    /\ Appear(p)
    /\ UNCHANGED <<ledgerVars, reportVars, ghostVars, teardownCompleted, pc, cursor>>

\* record_created -> record_resource: a path already in the ledger keeps its
\* entry.
RecordCreated(p) ==
    /\ IF p \in LedgerPaths
       THEN UNCHANGED ledgerVars
       ELSE /\ resourceIndex' = resourceIndex + 1
            /\ resources' = Append(resources, [path |-> p, index |-> resourceIndex + 1])
            /\ recorded' = recorded \cup {p}
    /\ UNCHANGED <<reportVars, storeVars, ghostVars, teardownCompleted, pc, cursor>>

-----------------------------------------------------------------------------
(* finish_capture and cleanup_async.                                       *)

Resource == resources[cursor]

\* Mutants: the verdict ignores the failures; teardown is skipped.
ProceedComplete(next, fs, start) ==
    /\ failures' = fs
    /\ cursor' = next
    /\ \/ next > 0 /\ pc' = "stat" /\ completed' = FALSE
       \/ next = 0 /\ ~teardownCompleted /\ pc' = "teardown" /\ completed' = FALSE
       \/ next = 0 /\ teardownCompleted /\ pc' = "idle" /\ completed' = TRUE

ProceedUntorn(next, fs, start) ==
    /\ failures' = fs
    /\ cursor' = next
    /\ \/ next > 0 /\ pc' = "stat" /\ completed' = FALSE
       \/ next = 0 /\ pc' = "idle" /\ completed' = (Len(fs) = start)

\* The rest of the loop body's path to the next await: the next lower index,
\* or teardown unless an earlier attempt did it, or the end of the attempt,
\* which completes exactly when nothing was pushed since `start`.
Proceed(next, fs, start) ==
    /\ failures' = fs
    /\ cursor' = next
    /\ \/ next > 0 /\ pc' = "stat" /\ completed' = FALSE
       \/ next = 0 /\ ~teardownCompleted /\ pc' = "teardown" /\ completed' = FALSE
       \/ next = 0 /\ teardownCompleted /\ pc' = "idle" /\ completed' = (Len(fs) = start)

\* The entry under the cursor leaves the ledger: Vec::remove(index).
Release ==
    /\ resources' = RemoveAt(resources, cursor)
    /\ Proceed(cursor - 1, failures, failureStart)
    /\ UNCHANGED <<resourceIndex, recorded, attempts, failureStart, teardownCompleted>>

\* The entry stays and record_cleanup_failure reports it.
Retain(operation) ==
    /\ Proceed(cursor - 1, Append(failures, Failure(operation, Resource.path)),
               failureStart)
    /\ UNCHANGED <<ledgerVars, attempts, failureStart, teardownCompleted>>

\* The future stays alive and suspends at its next await for the same entry.
Suspend(await) ==
    /\ pc' = await
    /\ UNCHANGED <<ledgerVars, reportVars, teardownCompleted, cursor>>

Fault == CountFault /\ clean' = FALSE

\* Every path that can hinder a deletion is itself in the ledger.
LedgerCloses ==
    CanDeleteTree \/ \A d \in LedgerPaths : Under[d] \cap present \subseteq LedgerPaths

\* finish_capture is entered.  The history variable `clean` says that this
\* attempt began with a ledger that closes and has met no fault yet.
Begin ==
    /\ pc = "idle"
    /\ attempts < MaxAttempts
    /\ attempts' = attempts + 1
    /\ failureStart' = Len(failures)
    /\ Proceed(IF CanDelete THEN Len(resources) ELSE 0, failures, Len(failures))
    /\ clean' = LedgerCloses
    /\ UNCHANGED <<ledgerVars, storeVars, faults, teardownCompleted>>

\* Mutants: NotFound is an error like any other; any error means missing.
StatMissingFails ==
    pc = "stat" /\ Resource.path \notin present /\ Retain("stat")
        /\ UNCHANGED <<storeVars, ghostVars>>

StatFaultReleases == pc = "stat" /\ Fault /\ Release /\ UNCHANGED storeVars

\* stat(&path) answers metadata, NotFound, or an error or a panic.
StatFound ==
    /\ pc = "stat"
    /\ Resource.path \in present
    /\ Suspend("delete")
    /\ UNCHANGED <<storeVars, ghostVars>>

StatMissing ==
    /\ pc = "stat"
    /\ Resource.path \notin present
    /\ Release
    /\ UNCHANGED <<storeVars, ghostVars>>

StatFault ==
    /\ pc = "stat"
    /\ Fault
    /\ Retain("stat")
    /\ UNCHANGED storeVars

\* Mutants: a path that went missing fails; a success is believed unseen.
DeleteMissingFails ==
    pc = "delete" /\ Resource.path \notin present /\ Retain("delete")
        /\ UNCHANGED <<storeVars, ghostVars>>

DeleteFaultBelieved ==
    /\ pc = "delete"
    /\ Fault
    /\ LoseSome(Reclaimed(Resource.path))
    /\ Retain("delete") \/ Release
    /\ UNCHANGED staged

\* delete_directory or delete_file does its work, or finds the path missing
\* because someone else removed it since the stat (an idempotent provider
\* may report that as a success), or refuses a directory that is not empty.
DeleteDone ==
    /\ pc = "delete"
    /\ Deletable(Resource.path)
    /\ present' = present \ Reclaimed(Resource.path)
    /\ Suspend("verify")
    /\ UNCHANGED <<staged, ghostVars>>

DeleteMissing ==
    /\ pc = "delete"
    /\ Resource.path \notin present
    /\ Release
    /\ UNCHANGED <<storeVars, ghostVars>>

DeleteRefused ==
    /\ pc = "delete"
    /\ ~Deletable(Resource.path)
    /\ Retain("delete")
    /\ UNCHANGED <<storeVars, ghostVars>>

\* It does some of it and reports an error, panics or claims success.
DeleteFault ==
    /\ pc = "delete"
    /\ Fault
    /\ LoseSome(Reclaimed(Resource.path))
    /\ \/ Retain("delete")
       \/ Suspend("verify")
    /\ UNCHANGED staged

\* Mutant: a deletion that did nothing is retained without a failure.
VerifyFoundSilent ==
    /\ pc = "verify"
    /\ Resource.path \in present
    /\ Proceed(cursor - 1, failures, failureStart)
    /\ UNCHANGED <<ledgerVars, attempts, failureStart, teardownCompleted,
                   storeVars, ghostVars>>

\* The second stat decides whether a successful deletion is believed.
VerifyMissing ==
    /\ pc = "verify"
    /\ Resource.path \notin present
    /\ Release
    /\ UNCHANGED <<storeVars, ghostVars>>

VerifyFound ==
    /\ pc = "verify"
    /\ Resource.path \in present
    /\ Retain("delete")
    /\ UNCHANGED <<storeVars, ghostVars>>

VerifyFault ==
    /\ pc = "verify"
    /\ Fault
    /\ Retain("delete")
    /\ UNCHANGED storeVars

\* The fixture's independent teardown reclaims everything, or fails with any
\* part of it done; either way the attempt ends here.
TeardownDone ==
    /\ pc = "teardown"
    /\ present' = {}
    /\ teardownCompleted' = TRUE
    /\ completed' = (Len(failures) = failureStart)
    /\ pc' = "idle"
    /\ UNCHANGED <<ledgerVars, attempts, failures, failureStart, staged,
                   ghostVars, cursor>>

TeardownFault ==
    /\ pc = "teardown"
    /\ Fault
    /\ LoseSome(present)
    /\ failures' = Append(failures, Failure("teardown", NoPath))
    /\ completed' = FALSE
    /\ pc' = "idle"
    /\ UNCHANGED <<ledgerVars, attempts, failureStart, staged,
                   teardownCompleted, cursor>>

\* The caller drops the future at an await: the suspended provider call has
\* had any part of its effect and has no other; nothing else of the code runs.
Cancel ==
    /\ pc # "idle"
    /\ Fault
    /\ LoseSome(CASE pc = "delete"   -> Reclaimed(Resource.path)
                  [] pc = "teardown" -> present
                  [] OTHER           -> {})
    /\ pc' = "idle"
    /\ cursor' = 0
    /\ UNCHANGED <<ledgerVars, reportVars, staged, teardownCompleted>>

\* Somebody outside the suite removes p and what is below it.
Vanish(p) ==
    /\ p \in present
    /\ present' = present \ ({p} \cup Under[p])
    /\ UNCHANGED <<ledgerVars, reportVars, staged, ghostVars,
                   teardownCompleted, pc, cursor>>

\* A resumption of the suspended future.
Resume ==
    \/ StatFound \/ StatMissing \/ StatFault
    \/ DeleteDone \/ DeleteMissing \/ DeleteRefused \/ DeleteFault
    \/ VerifyMissing \/ VerifyFound \/ VerifyFault
    \/ TeardownDone \/ TeardownFault

\* Checks record a directory before anything below it.
ParentsFirst(p) == recorded \cap Under[p] = {}

\* Here the checks are over when cleanup begins, as in a suite whose finish is
\* not called before its run; SuiteSession also lets it be called earlier.
Setup ==
    /\ pc = "idle"
    /\ attempts = 0
    /\ \E p \in Paths : Stage(p) \/ (ParentsFirst(p) /\ RecordCreated(p))

CleanupNext ==
    \/ Setup
    \/ Begin
    \/ Resume
    \/ Cancel
    \/ \E p \in Paths : Vanish(p)

CleanupSpec == CleanupInit /\ [][CleanupNext]_cleanupVars

\* The runtime polls a live future until it is done, and the owner of the
\* suite retries an attempt that did not complete.
FairCleanupSpec ==
    CleanupSpec /\ WF_cleanupVars(Resume) /\ WF_cleanupVars(~completed /\ Begin)

-----------------------------------------------------------------------------
(* Properties.                                                             *)

\* The types of the variables; failure_start is a position in the failures.
CleanupTypeOK ==
    /\ resources \in Seq(TrackedResource)
    /\ resourceIndex \in Nat
    /\ attempts \in 0 .. MaxAttempts
    /\ completed \in BOOLEAN
    /\ failures \in Seq(CleanupFailure)
    /\ failureStart \in 0 .. Len(failures)
    /\ teardownCompleted \in BOOLEAN
    /\ pc \in {"idle", "stat", "delete", "verify", "teardown"}
    /\ cursor \in Nat
    /\ recorded \subseteq Paths
    /\ clean \in BOOLEAN
    /\ StoreTypeOK

\* The loop index still names an entry after every removal (`resources[index]`
\* in cleanup_async would panic otherwise), and the loop is where it says.
CursorInLedger ==
    /\ pc \in {"stat", "delete", "verify"} => cursor \in 1 .. Len(resources)
    /\ pc \in {"idle", "teardown"} => cursor = 0

\* Cleanup never forgets a resource that still exists: whatever the provider
\* answered and wherever an attempt was dropped, a path that was recorded and
\* is still there is in the ledger for the next finish (cleanup_async's
\* "without losing any other resource").
LedgerKeepsPresent == recorded \cap present \subseteq LedgerPaths

\* Retained entries stay in creation order and are unique, through removals
\* in the middle (cleanup_async's "Failed entries remain in creation order").
LedgerOrdered ==
    /\ \A i, j \in DOMAIN resources :
          i < j => /\ resources[i].index < resources[j].index
                   /\ resources[i].path # resources[j].path
    /\ \A i \in DOMAIN resources : resources[i].index <= resourceIndex

\* An entry the loop has passed and not released was reported in this very
\* attempt: no resource is retained silently.
RetainedIsReported ==
    pc \in {"stat", "delete", "verify", "teardown"} /\ CanDelete =>
        \A i \in (cursor + 1) .. Len(resources) :
            \E k \in (failureStart + 1) .. Len(failures) :
                failures[k].path = resources[i].path

\* An attempt in which the provider does not fault reports nothing: deleting
\* in reverse creation order empties a directory before removing it.  The
\* premise LedgerCloses is taken when the attempt begins.
CleanAttemptReportsNothing == clean => Len(failures) = failureStart

\* CleanupReport.completed turns true only for an attempt that left nothing
\* in the ledger (when it may delete at all) and a torn-down fixture.
CompletedMeansReclaimed ==
    [][~completed /\ completed' => /\ CanDelete => resources' = <<>>
                                   /\ teardownCompleted']_cleanupVars

\* Cleanup keeps the promise of CleanupLedger: see there.
Ledger == INSTANCE CleanupLedger WITH ledger <- LedgerPaths
KeepsLedger == Ledger!LedgerSpec

\* Once cleanup has begun, an owner who retries reaches a completed attempt:
\* no sequence of faults and dropped futures leaves the ledger in a state
\* from which it cannot be emptied.
CleanupEventuallyCompletes == attempts = 1 ~> completed

=============================================================================
