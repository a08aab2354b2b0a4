---------------------------- MODULE SuiteSession ----------------------------
(***************************************************************************)
(* One execution session of AsyncFileSystemContractSuite: run_all,         *)
(* run_contract and run_check (run_selected), the checks they dispatch,    *)
(* the finish at the end of a run and the finish a caller may ask for, and *)
(* the verdict of the resulting ContractRun.                               *)
(*                                                                         *)
(* It composes the ledger and the cleanup attempts of AsyncCleanup with    *)
(* the evidence report of ContractReport.  A check is its effect on the    *)
(* two: it stages and records resources, then completes with an outcome,   *)
(* returns a failure, panics, or is dropped with the run's future.         *)
(***************************************************************************)
EXTENDS AsyncCleanup, ContractReport

CONSTANTS Contracts,    \* the phases
          ForContract,  \* the checks of each phase, in execution order
          AllChecks,    \* those of all phases, in execution order
          ProbeChecks,  \* the checks that arm a cancellation probe
          NoCheck,      \* the check of a failure that is attributed to none
          Required,     \* the optional checks the caller asks evidence for
          EarlyFinish   \* whether a caller may call finish before the run

\* The catalog (internal/check_catalog.rs) lists no check twice.
ASSUME CatalogAssumption ==
    /\ ForContract \in [Contracts -> Seq(CheckIds)]
    /\ \A c \in Contracts : IsInjective(ForContract[c])
    /\ AllChecks \in Seq(CheckIds)
    /\ IsInjective(AllChecks)
    /\ ProbeChecks \subseteq CheckIds
    /\ NoCheck \notin CheckIds
    /\ Required \subseteq CheckIds
    /\ EarlyFinish \in BOOLEAN

VARIABLES
    stage,        \* where run_selected is, or how it ended
    selected,     \* the check run_check was asked for, or NoCheck
    todo,         \* the checks still to execute; the head is executing
    report,       \* ContractRun.report
    started,      \* ContractRun.started
    runCompleted, \* ContractRun.completed
    runFailures,  \* ContractRun.failures
    incidents,    \* history: what went wrong while the checks ran
    verdict       \* history: the verdict when the run returned

runVars == <<stage, selected, todo, report, started, runCompleted, runFailures>>
vars == <<runVars, incidents, verdict, cleanupVars>>

RunFail(check, cause) == [check |-> check, cause |-> cause]

Init ==
    /\ stage = "new" /\ selected = NoCheck /\ todo = <<>>
    /\ report = EmptyReport
    /\ started = FALSE /\ runCompleted = FALSE /\ runFailures = {}
    /\ incidents = {} /\ verdict = FALSE
    /\ CleanupInit

\* Mutants: a session that never returned counts; only the latest cleanup does.
ExecutionSatisfiedDropped == runFailures = {} /\ completed /\ failures = <<>>
ExecutionSatisfiedLatest  == runCompleted /\ completed

\* execution_satisfied and requirements_satisfied_with (contract_run.rs).
ExecutionSatisfied ==
    /\ runCompleted
    /\ runFailures = {}
    /\ completed
    /\ failures = <<>>

Satisfied == ExecutionSatisfied /\ ReportSatisfied(report, Required)

-----------------------------------------------------------------------------
(* Starting.                                                               *)

\* The first part of run_selected: everything selected is registered before
\* anything executes.
Start(checks, selection) ==
    /\ stage = "new" /\ pc = "idle"
    /\ started' = TRUE
    /\ selected' = selection
    /\ report' = Register(report, ToSet(checks))
    /\ todo' = checks
    /\ stage' = "checking"
    /\ UNCHANGED <<runCompleted, runFailures, incidents, verdict, cleanupVars>>

RunAll == Start(AllChecks, NoCheck)
RunContract == \E c \in Contracts : Start(ForContract[c], NoCheck)
RunCheck == \E id \in CheckIds : Start(<<id>>, id)

\* A run on a session that has already started only adds a failure.
RunAgain ==
    /\ stage \in {"ended", "dropped"} /\ pc = "idle"
    /\ runFailures' = runFailures \cup {RunFail(NoCheck, "restart")}
    /\ incidents' = incidents \cup {"restart"}
    /\ UNCHANGED <<stage, selected, todo, report, started, runCompleted,
                   verdict, cleanupVars>>

-----------------------------------------------------------------------------
(* Executing the check at the head of todo.                                *)

Checking == stage = "checking" /\ todo # <<>>

CheckStages ==
    /\ Checking
    /\ \E p \in Paths : Stage(p) \/ (ParentsFirst(p) /\ RecordCreated(p))
    /\ UNCHANGED <<runVars, incidents, verdict>>

\* The outcomes a check may hand to record_check; only optional checks skip,
\* and a reason that a fixture gives for not running may be blank.
CheckOutcomes(check) ==
    {Reasoned(k) : k \in {"Passed", "RejectedAsExpected", "NotApplicable", "Unverified"}}
    \cup {[kind |-> k, reasoned |-> r] :
            k \in IF check \in OptionalChecks THEN {"SkippedOptional"} ELSE {},
            r \in BOOLEAN}

CompleteCheck ==
    /\ Checking
    /\ \E outcome \in CheckOutcomes(Head(todo)) :
          /\ report' = Record(report, Head(todo), outcome)
          /\ incidents' = IF outcome.kind = "Unverified"
                          THEN incidents \cup {"unverified"} ELSE incidents
    /\ todo' = Tail(todo)
    /\ UNCHANGED <<stage, selected, started, runCompleted, runFailures,
                   verdict, cleanupVars>>

\* ProbeDisarmGuard, when a check leaves an armed probe behind: a failing
\* disarm is a cleanup failure, whichever way the check ended.
Disarm(check) ==
    \/ UNCHANGED failures
    \/ check \in ProbeChecks /\ failures' = Append(failures, Failure("disarm", NoPath))

checkFrame == <<ledgerVars, attempts, completed, failureStart, storeVars,
                teardownCompleted, pc, cursor>>

\* Mutant: the failure is kept but the report is not told.
FailUnrecorded(check, cause) ==
    /\ runFailures' = runFailures \cup {RunFail(check, cause)}
    /\ todo' = Tail(todo)
    /\ UNCHANGED report

\* ContractContext::fail for an attributed failure: the check completes as
\* Failed, the failure is kept, and the loop over the phases breaks.
FailAttributed(check, cause) ==
    /\ report' = Record(report, check, Reasoned("Failed"))
    /\ runFailures' = runFailures \cup {RunFail(check, cause)}
    /\ todo' = Tail(todo)

\* The check returns Err.
FailCheck ==
    /\ Checking
    /\ FailAttributed(Head(todo), "check")
    /\ Disarm(Head(todo))
    /\ stage' = "broken"
    /\ incidents' = incidents \cup {"failed"}
    /\ UNCHANGED <<selected, started, runCompleted, verdict, ghostVars, checkFrame>>

\* The check panics: the failure is attributed only if the check was selected
\* by identity; otherwise the check stays pending.
PanicCheck ==
    /\ Checking
    /\ \/ selected # NoCheck /\ FailAttributed(selected, "panic")
       \/ /\ selected = NoCheck
          /\ runFailures' = runFailures \cup {RunFail(NoCheck, "panic")}
          /\ UNCHANGED <<report, todo>>
    /\ Disarm(Head(todo))
    /\ stage' = "broken"
    /\ incidents' = incidents \cup {"failed"}
    /\ UNCHANGED <<selected, started, runCompleted, verdict, ghostVars, checkFrame>>

\* The caller drops the run's future inside a check.  Only destructors run:
\* the probe is disarmed, and ExpectedWriteCleanupGuard keeps the rejected
\* write whose abort was under way.
DropInCheck ==
    /\ Checking
    /\ Fault
    /\ Disarm(Head(todo))
    /\ runFailures' \in {runFailures, runFailures \cup {RunFail(Head(todo), "retained")}}
    /\ stage' = "dropped"
    /\ incidents' = incidents \cup {"dropped"}
    /\ UNCHANGED <<selected, todo, report, started, runCompleted, verdict, checkFrame>>

-----------------------------------------------------------------------------
(* Finishing.                                                              *)

\* The end of run_selected, once its finish has returned or panicked.
Return ==
    /\ stage' = "ended"
    /\ runCompleted' = TRUE
    /\ runFailures' = IF completed' THEN runFailures
                      ELSE runFailures \cup {RunFail(NoCheck, "cleanup")}
    /\ UNCHANGED <<selected, todo, report, started, incidents>>
    /\ verdict' = Satisfied'

\* run_selected waits for its finish, or has it done.
FinishOrReturn ==
    \/ pc' = "idle" /\ Return
    \/ pc' # "idle" /\ stage' = "finishing"
         /\ UNCHANGED <<selected, todo, report, started, runCompleted,
                        runFailures, incidents, verdict>>

\* Mutant: a run that broke off does not finish.
RunFinishUnbroken == stage = "checking" /\ todo = <<>> /\ Begin /\ FinishOrReturn

\* The end of the loop over the phases, with all of them done or broken off.
RunFinish ==
    /\ stage = "broken" \/ (stage = "checking" /\ todo = <<>>)
    /\ Begin
    /\ FinishOrReturn

ResumeFinish == stage = "finishing" /\ Resume /\ FinishOrReturn

\* The caller drops the run's future inside its finish.
DropInFinish ==
    /\ stage = "finishing"
    /\ Cancel
    /\ stage' = "dropped"
    /\ incidents' = incidents \cup {"dropped"}
    /\ UNCHANGED <<selected, todo, report, started, runCompleted, runFailures, verdict>>

\* The caller's own finish: on a session that is over, or, where EarlyFinish
\* allows it, on one whose run has not started.
CallerMayFinish == stage \in {"ended", "dropped"} \/ (EarlyFinish /\ stage = "new")

CallerFinish ==
    /\ CallerMayFinish
    /\ Begin \/ Resume \/ Cancel
    /\ UNCHANGED <<runVars, incidents, verdict>>

-----------------------------------------------------------------------------
OutsideRemoval ==
    /\ \E p \in Paths : Vanish(p)
    /\ UNCHANGED <<runVars, incidents, verdict>>

CheckEnds == CompleteCheck \/ FailCheck \/ PanicCheck \/ DropInCheck

Next ==
    \/ RunAll \/ RunContract \/ RunCheck \/ RunAgain
    \/ CheckStages \/ CheckEnds
    \/ RunFinish \/ ResumeFinish \/ DropInFinish
    \/ CallerFinish
    \/ OutsideRemoval

Spec == Init /\ [][Next]_vars

\* The runtime polls the run until it returns or is dropped: a check that is
\* executing ends, and the run's finish goes on.
FairSpec == Spec /\ WF_vars(CheckEnds) /\ WF_vars(RunFinish) /\ WF_vars(ResumeFinish)

-----------------------------------------------------------------------------
(* Properties.                                                             *)

\* The verdict is sound for the checks: a session is only ever satisfied when
\* every check it registered ended with evidence, and no check failed,
\* panicked or was dropped, no run was attempted twice (contract_run.rs,
\* "execution, required evidence, and cleanup all succeeded").
SatisfiedMeansEvidence ==
    Satisfied => /\ incidents = {}
                 /\ todo = <<>>
                 /\ \A c \in Required : /\ c \in report.expected
                                        /\ report.outcome[c].kind # "SkippedOptional"

\* The verdict is sound for the resources: when a session is satisfied,
\* nothing that a check ever created still exists, recorded or not.
SatisfiedMeansReclaimed == Satisfied => present = {}

\* No later finish and no later run turns a run that was not satisfied when
\* it returned, or that never returned, into a satisfied one.
VerdictNeverImproves == Satisfied => verdict

\* A check is reported Failed exactly when a failure names it, except for the
\* failure a destructor keeps, which no outcome can record any more.
FailedIsAttributed ==
    {c \in report.expected : report.outcome[c].kind = "Failed"}
        = {f.check : f \in {g \in runFailures : g.cause \in {"check", "panic"}}} \ {NoCheck}

\* The panic of assert_satisfied_with always names a reason, and never
\* appears for a satisfied report, whatever checks the caller requires.
DiagnosisIsComplete ==
    \A required \in SUBSET CheckIds :
        ReportSatisfied(report, required) <=> Issues(report, required) = NoIssues

\* A run that starts returns, or its future is dropped: no answer of the
\* provider and no failing check leaves it without an end.
RunEnds == stage = "checking" ~> stage \in {"ended", "dropped"}

=============================================================================
