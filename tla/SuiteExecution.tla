---------------------------- MODULE SuiteExecution ----------------------------
(***************************************************************************)
(* One execution session of either suite over a catalog: run_all,          *)
(* run_contract and run_check (run_selected), dispatch_check,              *)
(* dispatch_contract and the loops of the phase drivers.                   *)
(*                                                                         *)
(* What is registered comes from the catalog, what is executed from the    *)
(* drivers; CheckCatalog has the lists of the two.  A check completes,     *)
(* fails or panics; finish, which SyncCleanup and AsyncCleanup model,      *)
(* returns or fails.  Dropped futures of the asynchronous suite are in     *)
(* SuiteSession.                                                           *)
(***************************************************************************)
EXTENDS ContractReport, SequencesExt

CONSTANTS
    Phases,        \* the contracts in the order of run_all
    Listed(_, _),  \* the checks the catalog has for a contract and a suite
    Driven(_, _),  \* the checks the driver of a contract executes, in order
    PhaseOf(_),    \* the contract a check belongs to
    Synchronous(_),\* whether a check runs in the synchronous suite
    BuildsOn(_),   \* the checks whose evidence a check builds on
    Noting         \* the checks that record what they could not observe at
                   \* once in the synchronous suite, and are recorded again

Contracts == ToSet(Phases)

\* The driver of a contract executes, once, what the catalog has for it, and a
\* check after those it builds on, which belong to the same contract.
DriverAgrees(c, async) ==
    LET driven == Driven(c, async) IN
    /\ driven \in Seq(CheckIds) /\ IsInjective(driven)
    /\ ToSet(driven) = ToSet(Listed(c, async))
    /\ \A i \in DOMAIN driven :
          /\ PhaseOf(driven[i]) = c
          /\ async \/ Synchronous(driven[i])
          /\ BuildsOn(driven[i]) \subseteq {driven[j] : j \in 1 .. i - 1}

\* The catalog and the drivers are kept in different files.
ASSUME DriversAssumption ==
    /\ "none" \notin CheckIds
    /\ Phases \in Seq(Contracts) /\ IsInjective(Phases)
    /\ \A id \in CheckIds : PhaseOf(id) \in Contracts
    /\ \A c \in Contracts, async \in BOOLEAN : DriverAgrees(c, async)

VARIABLES
    suite,         \* "sync" or "async"
    instrumented,  \* whether the fixture supports the optional checks
    contentHooks,  \* whether it writes and reads content out of band
    stage,         \* where run_selected is
    selected,      \* the check run_check was asked for, or "none"
    phases,        \* the phases still to dispatch
    todo,          \* the rest of the driver's loop
    ran,           \* history: the checks that were entered
    report,        \* ContractRun.report
    failures,      \* ContractRun.failures: the checks they name, or "none"
    runCompleted   \* ContractRun.completed

setting == <<suite, instrumented, contentHooks>>
vars == <<setting, stage, selected, phases, todo, ran, report, failures,
          runCompleted>>

Async == suite = "async"

Init ==
    /\ suite \in {"sync", "async"}
    /\ instrumented \in BOOLEAN /\ contentHooks \in BOOLEAN
    /\ stage = "new" /\ selected = "none"
    /\ phases = <<>> /\ todo = <<>> /\ ran = <<>>
    /\ report = EmptyReport /\ failures = {}
    /\ runCompleted = FALSE

\* Everything that is selected is registered before anything executes.
Registered(contracts, selection) ==
    IF selection # "none" THEN {selection}
    ELSE UNION {ToSet(Listed(c, Async)) : c \in ToSet(contracts)}

Start(contracts, selection) ==
    /\ stage = "new"
    /\ stage' = "dispatching"
    /\ selected' = selection
    /\ phases' = contracts
    /\ report' = Register(report, Registered(contracts, selection))
    /\ UNCHANGED <<setting, todo, ran, failures, runCompleted>>

RunAll == Start(Phases, "none")
RunContract == \E c \in Contracts : Start(<<c>>, "none")
RunCheck == \E id \in CheckIds : Start(<<PhaseOf(id)>>, id)

\* A second run only adds a failure.
RunAgain ==
    /\ stage = "ended"
    /\ failures' = failures \cup {"none"}
    /\ UNCHANGED <<setting, stage, selected, phases, todo, ran, report,
                   runCompleted>>

-----------------------------------------------------------------------------

\* Mutant: the loops go on after a failure.
FailRunContinues(r, id) ==
    /\ failures' = failures \cup {id}
    /\ report' = IF id = "none" THEN r ELSE Record(r, id, Reasoned("Failed"))
    /\ UNCHANGED stage

\* ContractContext::fail on the report r, and the loop over the phases breaks.
FailRun(r, id) ==
    /\ failures' = failures \cup {id}
    /\ report' = IF id = "none" THEN r ELSE Record(r, id, Reasoned("Failed"))
    /\ stage' = "finishing"

\* Mutant: the synchronous suite executes whatever is selected.
DispatchCheckUnguarded ==
    /\ todo' = <<selected>>
    /\ stage' = "executing"
    /\ UNCHANGED <<report, failures>>

\* dispatch_check: the synchronous suite refuses what needs the other one.
DispatchCheck ==
    \/ /\ Async \/ Synchronous(selected)
       /\ todo' = <<selected>>
       /\ stage' = "executing"
       /\ UNCHANGED <<report, failures>>
    \/ /\ ~Async /\ ~Synchronous(selected)
       /\ FailRun(report, selected)
       /\ UNCHANGED todo

Dispatch ==
    /\ stage = "dispatching" /\ phases # <<>>
    /\ phases' = Tail(phases)
    /\ \/ selected # "none" /\ DispatchCheck
       \/ /\ selected = "none"
          /\ todo' = Driven(Head(phases), Async)
          /\ stage' = "executing"
          /\ UNCHANGED <<report, failures>>
    /\ UNCHANGED <<setting, selected, ran, runCompleted>>

\* The next check of the loop.
Enter ==
    /\ stage = "executing" /\ todo # <<>>
    /\ ran' = Append(ran, Head(todo))
    /\ todo' = Tail(todo)
    /\ UNCHANGED <<setting, selected, phases, runCompleted>>

\* The report when the body of a check ends.  Without the content hooks a
\* synchronous temporary check has recorded itself as Unverified, each time it
\* missed one; further notes change nothing more.
Noted(id) ==
    LET Note(r) == Record(r, id, Reasoned("Unverified")) IN
    {report} \cup (IF ~Async /\ ~contentHooks /\ id \in Noting
                   THEN {Note(report), Note(Note(report))} ELSE {})

\* What is recorded at its end: a note that is in the report goes before.
Outcome(r, id) ==
    IF r.outcome[id].kind = "Unverified" THEN "Unverified"
    ELSE IF id \in OptionalChecks /\ ~instrumented THEN "SkippedOptional"
    ELSE "Passed"

\* The end of a check: record_check, Err, or a panic that names the check only
\* if it was selected.
Complete ==
    /\ Enter
    /\ \E r \in Noted(Head(todo)) :
          report' = Record(r, Head(todo), Reasoned(Outcome(r, Head(todo))))
    /\ UNCHANGED <<stage, failures>>

ReturnErr == Enter /\ \E r \in Noted(Head(todo)) : FailRun(r, Head(todo))

Panic == Enter /\ \E r \in Noted(Head(todo)) : FailRun(r, selected)

EndPhase ==
    /\ stage = "executing" /\ todo = <<>>
    /\ stage' = "dispatching"
    /\ UNCHANGED <<setting, selected, phases, todo, ran, report, failures,
                   runCompleted>>

\* The end of run_selected: finish, and its panic is caught.
Finish ==
    /\ stage = "finishing" \/ (stage = "dispatching" /\ phases = <<>>)
    /\ stage' = "ended" /\ runCompleted' = TRUE
    /\ failures' \in {failures, failures \cup {"none"}}
    /\ UNCHANGED <<setting, selected, phases, todo, ran, report>>

RunStep == Dispatch \/ Complete \/ ReturnErr \/ Panic \/ EndPhase \/ Finish

Next == RunAll \/ RunContract \/ RunCheck \/ RunAgain \/ RunStep

Spec == Init /\ [][Next]_vars

-----------------------------------------------------------------------------
(* Properties.                                                             *)

\* The checks the drivers have still to execute.
Ahead ==
    IF selected # "none" THEN (IF phases = <<>> THEN {} ELSE {selected}) \cup ToSet(todo)
    ELSE ToSet(todo) \cup UNION {ToSet(Driven(c, Async)) : c \in ToSet(phases)}

\* Through every entry point, and whatever fails: what is registered and not
\* yet complete is what is still ahead, no check is entered twice or completed
\* without registration, a run that ends without failure has executed what it
\* registered and leaves nothing NotRun, and the synchronous suite never enters
\* a check that needs the asynchronous facade.  Of the transitions the report
\* charges only one can occur: a synchronous check that was executed and has
\* noted what it could not observe is completed again (CheckRunner's
\* CompletesOnce is about that).
RegisteredIsExecuted ==
    /\ report.violations \subseteq
          (IF Async \/ contentHooks THEN {}
           ELSE (Noting \cap ToSet(ran)) \X {"duplicate completion"})
    /\ failures = {} => report.pending = Ahead
    /\ IsInjective(ran)
    /\ runCompleted /\ failures = {} =>
          report.pending = {} /\ ToSet(ran) = report.expected
    /\ ~Async => \A i \in DOMAIN ran : Synchronous(ran[i])

\* In a run of phases a check comes after the checks its evidence builds on
\* (internal/check_spec.rs, "Prerequisites describe evidence ordering only"),
\* and never over one of them that has failed.
PrerequisitesFirst ==
    selected = "none" =>
       \A i \in DOMAIN ran :
          BuildsOn(ran[i]) \subseteq ToSet(SubSeq(ran, 1, i - 1)) \ failures
=============================================================================
