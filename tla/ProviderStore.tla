---------------------------- MODULE ProviderStore ----------------------------
(***************************************************************************)
(* The file system under test as cleanup meets it, modelled from the calls *)
(* contract_context.rs makes: stat, delete_file, delete_directory and the  *)
(* fixture's teardown.                                                     *)
(*                                                                         *)
(* `present` is what really exists.  The suite never reads it; it only     *)
(* sees answers, and the properties compare the two.  The provider may     *)
(* fail, panic, half-do or fake a deletion, but an answer about existence  *)
(* (metadata or NotFound) is true when it is given.                        *)
(***************************************************************************)
EXTENDS Naturals

CONSTANTS Paths,          \* the paths the checks may stage or record
          Directories,    \* those for which stat reports a directory
          Under,          \* Under[d]: the paths strictly below d
          NoPath,         \* the path of a failure that concerns none
          CanDelete,      \* FileSystemCapability::Delete is advertised
          CanDeleteTree,  \* FileSystemCapability::RecursiveDelete is
          MaxFaults       \* bound: provider faults and dropped futures

ASSUME PathsAssumption ==
    /\ NoPath \notin Paths
    /\ Directories \subseteq Paths
    /\ Under \in [Paths -> SUBSET Paths]
    /\ \A p \in Paths : p \notin Under[p]
    /\ \A p \in Paths : \A q \in Under[p] : Under[q] \subseteq Under[p]
    /\ \A p \in Paths \ Directories : Under[p] = {}

ASSUME CapabilityAssumption == CanDelete \in BOOLEAN /\ CanDeleteTree \in BOOLEAN

ASSUME FaultBoundAssumption == MaxFaults \in Nat

VARIABLES present,  \* the paths that exist
          staged,   \* history: the paths that ever existed
          faults    \* the faults so far, up to MaxFaults

storeVars == <<present, staged>>

\* internal/tracked_resource.rs and the fields of internal/cleanup_failure.rs
\* that identify a failure; owner labels and causes are wording.
TrackedResource == [path : Paths, index : Nat]
CleanupFailure  == [operation : {"stat", "delete", "teardown", "disarm"},
                    path : Paths \cup {NoPath}]

Failure(operation, path) == [operation |-> operation, path |-> path]

StoreInit == present = {} /\ staged = {} /\ faults = 0

StoreTypeOK ==
    /\ present \subseteq Paths
    /\ staged \subseteq Paths
    /\ faults \in 0 .. MaxFaults

\* A fixture hook or a provider call brings p into existence, once.
Appear(p) ==
    /\ p \notin staged
    /\ present' = present \cup {p}
    /\ staged' = staged \cup {p}

\* Some of the paths in S are gone.
LoseSome(S) == \E gone \in SUBSET S : present' = present \ gone

\* What deleting p takes away when it does all it was asked to do.
Reclaimed(p) == IF CanDeleteTree THEN {p} \cup Under[p] ELSE {p}

\* A conforming provider refuses the plain deletion of a non-empty directory.
Deletable(p) == CanDeleteTree \/ Under[p] \cap present = {}

\* The provider does not do what it was asked to, or the caller drops the
\* future that is asking.
CountFault == faults < MaxFaults /\ faults' = faults + 1

=============================================================================
