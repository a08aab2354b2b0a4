----------------------------- MODULE SyncCleanup -----------------------------
(***************************************************************************)
(* The resource ledger of the synchronous suite: ContractContext::cleanup  *)
(* (contract_context.rs) driven by FileSystemContractSuite::finish_capture *)
(* (support.rs).  Unlike the asynchronous one it moves the whole ledger    *)
(* out of the context, pops it from the back, collects what must stay in   *)
(* reverse order and sorts it before putting it back.  It runs to the end  *)
(* once entered, but each provider call is a step of its own, because an   *)
(* outside process may act between two calls.                              *)
(***************************************************************************)
EXTENDS Integers, Sequences, SequencesExt, ProviderStore, Sorting

CONSTANT MaxAttempts  \* bound: cleanup attempts

ASSUME AttemptBoundAssumption == MaxAttempts \in Nat

VARIABLES
    resources,          \* ContractContext.resources
    resourceIndex,      \* ContractContext.resource_index
    pending, retained,  \* the local vectors of cleanup
    resource,           \* the popped entry being worked on, in a sequence
    attempts, completed, failures,  \* CleanupReport
    teardownCompleted,  \* FileSystemContractSuite.teardown_completed
    failureStart,       \* failure_start of the latest attempt
    pc,                 \* the provider or fixture call about to answer
    recorded,           \* history: the paths ever recorded
    clean               \* history: no fault yet in this attempt

vectors == <<resources, pending, retained, resource>>
vars == <<vectors, resourceIndex, attempts, completed, failures, failureStart,
          teardownCompleted, pc, recorded, clean, storeVars, faults>>

PathsOf(seq) == {seq[i].path : i \in DOMAIN seq}
Path == resource[1].path

\* Everything cleanup is still responsible for, wherever it holds it.
Held == PathsOf(resources) \cup PathsOf(pending) \cup PathsOf(retained)
            \cup PathsOf(resource)

Init ==
    /\ resources = <<>> /\ pending = <<>> /\ retained = <<>> /\ resource = <<>>
    /\ resourceIndex = 0 /\ recorded = {}
    /\ attempts = 0 /\ completed = FALSE
    /\ failures = <<>> /\ failureStart = 0
    /\ teardownCompleted = FALSE
    /\ pc = "idle" /\ clean = FALSE
    /\ StoreInit

-----------------------------------------------------------------------------
\* What the checks do before cleanup: create a path, or record one, parents
\* first (record_resource).
Setup(p) ==
    /\ pc = "idle" /\ attempts = 0
    /\ \/ Appear(p) /\ UNCHANGED <<resources, resourceIndex, recorded>>
       \/ /\ p \notin recorded
          /\ recorded \cap Under[p] = {}
          /\ recorded' = recorded \cup {p}
          /\ resourceIndex' = resourceIndex + 1
          /\ resources' = Append(resources, [path |-> p, index |-> resourceIndex + 1])
          /\ UNCHANGED storeVars
    /\ UNCHANGED <<pending, retained, resource, attempts, completed, failures,
                   failureStart, teardownCompleted, pc, clean, faults>>

ByCreation(a, b) == a.index < b.index

\* Mutants: the entries come back in the order they were retained, or not.
RestoreUnsorted(kept) == kept
RestoreNothing(kept) == <<>>

\* retained.sort_by_key(creation_index); self.resources = retained.
Restore(kept) == SortBy(kept, ByCreation)

\* After cleanup: teardown unless an earlier attempt did it, or the verdict.
AfterLoop(fs, start) ==
    \/ ~teardownCompleted /\ pc' = "teardown" /\ completed' = FALSE
    \/ teardownCompleted /\ pc' = "idle" /\ completed' = (Len(fs) = start)

\* The head of the loop: pop the next entry, or restore what was retained.
NextEntry(waiting, kept, fs, start) ==
    /\ failures' = fs
    /\ \/ /\ waiting # <<>>
          /\ pending' = Front(waiting) /\ resource' = <<Last(waiting)>>
          /\ retained' = kept /\ resources' = <<>>
          /\ pc' = "stat" /\ completed' = FALSE
       \/ /\ waiting = <<>>
          /\ pending' = <<>> /\ resource' = <<>> /\ retained' = <<>>
          /\ resources' = Restore(kept)
          /\ AfterLoop(fs, start)

\* finish_capture is entered; without Delete the ledger is left alone.
Begin ==
    /\ pc = "idle" /\ attempts < MaxAttempts
    /\ attempts' = attempts + 1
    /\ failureStart' = Len(failures)
    /\ clean' = (CanDeleteTree \/ \A d \in Held : Under[d] \cap present \subseteq Held)
    /\ \/ CanDelete /\ NextEntry(resources, <<>>, failures, Len(failures))
       \/ ~CanDelete /\ AfterLoop(failures, Len(failures))
                     /\ UNCHANGED <<vectors, failures>>
    /\ UNCHANGED <<resourceIndex, recorded, teardownCompleted, storeVars, faults>>

frame == <<attempts, failureStart, resourceIndex, recorded, teardownCompleted, staged>>

Release == NextEntry(pending, retained, failures, failureStart) /\ UNCHANGED frame

\* Mutant: an entry that could not be cleaned is reported and dropped.
RetainDrops(operation) ==
    /\ NextEntry(pending, retained, Append(failures, Failure(operation, Path)), failureStart)
    /\ UNCHANGED frame

Retain(operation) ==
    /\ NextEntry(pending, retained \o resource,
                 Append(failures, Failure(operation, Path)), failureStart)
    /\ UNCHANGED frame

Call(call) == pc' = call /\ UNCHANGED <<vectors, completed, failures, frame>>

Conforming == UNCHANGED <<clean, faults>>
Fault      == clean' = FALSE /\ CountFault

\* stat(&path): metadata, NotFound, or an error or a panic.
Stat ==
    /\ pc = "stat"
    /\ \/ Path \in present /\ Call("delete") /\ Conforming
       \/ Path \notin present /\ Release /\ Conforming
       \/ Retain("stat") /\ Fault
    /\ UNCHANGED present

\* delete_directory or delete_file: done, already missing, refused because
\* the directory is not empty, or done in part with any answer.
Delete ==
    /\ pc = "delete"
    /\ \/ /\ Deletable(Path)
          /\ present' = present \ Reclaimed(Path)
          /\ Call("verify") /\ Conforming
       \/ Path \notin present /\ Release /\ Conforming /\ UNCHANGED present
       \/ ~Deletable(Path) /\ Retain("delete") /\ Conforming /\ UNCHANGED present
       \/ /\ LoseSome(Reclaimed(Path))
          /\ Retain("delete") \/ Call("verify")
          /\ Fault

\* The second stat decides whether a successful deletion is believed.
Verify ==
    /\ pc = "verify"
    /\ \/ Path \notin present /\ Release /\ Conforming
       \/ Path \in present /\ Retain("delete") /\ Conforming
       \/ Retain("delete") /\ Fault
    /\ UNCHANGED present

Teardown ==
    /\ pc = "teardown"
    /\ pc' = "idle"
    /\ \/ /\ present' = {}
          /\ teardownCompleted' = TRUE
          /\ completed' = (Len(failures) = failureStart)
          /\ Conforming /\ UNCHANGED failures
       \/ /\ LoseSome(present)
          /\ failures' = Append(failures, Failure("teardown", NoPath))
          /\ completed' = FALSE
          /\ Fault /\ UNCHANGED teardownCompleted
    /\ UNCHANGED <<vectors, attempts, failureStart, resourceIndex, recorded, staged>>

Vanish(p) ==
    /\ p \in present
    /\ present' = present \ ({p} \cup Under[p])
    /\ Conforming
    /\ UNCHANGED <<vectors, completed, failures, frame, pc>>

Next ==
    \/ \E p \in Paths : Setup(p) \/ Vanish(p)
    \/ Begin \/ Stat \/ Delete \/ Verify \/ Teardown

Spec == Init /\ [][Next]_vars

-----------------------------------------------------------------------------
\* Moving the ledger out of the context loses nothing: a recorded path that
\* still exists is in one of the vectors, and back in the ledger between
\* attempts.
NothingDropped ==
    /\ recorded \cap present \subseteq Held
    /\ pc \in {"idle", "teardown"} => Held = PathsOf(resources)

\* An attempt without a provider fault reports nothing, and that holds for a
\* retry over the entries an earlier attempt retained: they are deleted in
\* reverse creation order again.
CleanAttemptReportsNothing == clean => Len(failures) = failureStart

\* Synchronous cleanup keeps the promise of CleanupLedger.
Ledger == INSTANCE CleanupLedger WITH ledger <- Held
KeepsLedger == Ledger!LedgerSpec

=============================================================================
