---------------------------- MODULE CleanupLedger ----------------------------
(***************************************************************************)
(* What cleanup promises to the owner of a suite, in both runtimes: a path *)
(* leaves the ledger only while it does not exist, and cleanup is reported *)
(* complete only over an empty ledger (doc/file_system_testkit_design.md,  *)
(* "Lifecycle and failures").  How entries are visited, which failures are *)
(* met and when an attempt stops is left to the implementation.            *)
(***************************************************************************)
CONSTANTS Paths, CanDelete

VARIABLES ledger,    \* the paths cleanup is responsible for
          present,   \* the paths that exist in the provider
          completed  \* the latest attempt completed

LedgerInit == ledger = {} /\ present = {} /\ completed = FALSE

\* A check creates a path, or makes cleanup responsible for one.
Create(p) == present' = present \cup {p} /\ UNCHANGED <<ledger, completed>>

Track(p) == ledger' = ledger \cup {p} /\ UNCHANGED <<present, completed>>

\* One step of an attempt, or of anyone else who removes paths: the paths in
\* `gone` stop existing, and the ledger may drop absent paths.
Progress(gone, dropped) ==
    /\ present' = present \ gone
    /\ dropped \cap present' = {}
    /\ ledger' = ledger \ dropped
    /\ completed' \in BOOLEAN
    /\ ~completed /\ completed' /\ CanDelete => ledger' = {}

LedgerNext ==
    \/ \E p \in Paths : Create(p) \/ Track(p)
    \/ \E gone, dropped \in SUBSET Paths : Progress(gone, dropped)

LedgerSpec == LedgerInit /\ [][LedgerNext]_<<ledger, present, completed>>

=============================================================================
