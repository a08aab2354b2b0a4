--------------------------- MODULE ContractReport ---------------------------
(***************************************************************************)
(* The evidence report of one contract run (contract_report.rs) as a value *)
(* and the operations on it.  A report is a record                         *)
(*                                                                         *)
(*   expected    the check identities registered from the catalog,         *)
(*   pending     the registered ones that have no completion yet,          *)
(*   outcome     the outcome kept for every registered check,              *)
(*   violations  the invalid registrations and completions.                *)
(*                                                                         *)
(* The code keeps vectors; their order and the multiplicity of violations  *)
(* reach no decision, so they are sets and a function here.  Wording is    *)
(* left out except for the one fact a verdict reads: whether an            *)
(* applicability reason is blank after trimming.                           *)
(***************************************************************************)
EXTENDS Naturals

CONSTANTS CheckIds,        \* every ContractCheckId of the catalog
          OptionalChecks   \* those whose CheckSpec says optional

ASSUME OptionalAssumption == OptionalChecks \subseteq CheckIds

OutcomeKinds == {"Passed", "RejectedAsExpected", "NotApplicable",
                 "Unverified", "SkippedOptional", "Failed", "NotRun"}

\* ContractCheckOutcome: its variant, and whether its reason has any text.
Outcomes == [kind : OutcomeKinds, reasoned : BOOLEAN]

Reasoned(kind) == [kind |-> kind, reasoned |-> TRUE]
NotRun == Reasoned("NotRun")

ViolationKinds == {"duplicate registration", "core check skipped",
                   "duplicate completion", "unregistered check"}

\* ContractReport::new.  A check that is not expected has no entry in the
\* code; the value the function gives it is never read.
EmptyReport == [expected |-> {}, pending |-> {},
                outcome |-> [c \in CheckIds |-> NotRun], violations |-> {}]

(***************************************************************************)
(* register, for the identities of a phase at once (prepare_phase) or for  *)
(* one selected check.                                                     *)
(***************************************************************************)
Register(report, ids) ==
    LET new == ids \ report.expected IN
    [expected   |-> report.expected \cup ids,
     pending    |-> report.pending \cup new,
     outcome    |-> [c \in CheckIds |-> IF c \in new THEN NotRun
                                                     ELSE report.outcome[c]],
     violations |-> report.violations
                      \cup ((ids \cap report.expected)
                               \X {"duplicate registration"})]

\* The transition violations that one completion is charged with.
CompletionViolations(report, id, outcome) ==
    {<<id, v>> : v \in
        (IF outcome.kind = "SkippedOptional" /\ id \notin OptionalChecks
         THEN {"core check skipped"} ELSE {})
        \cup
        (IF id \in report.pending THEN {}
         ELSE IF id \in report.expected THEN {"duplicate completion"}
         ELSE {"unregistered check"})}

\* record: completes a pending check; any other completion changes nothing
\* but the violations.
Record(report, id, outcome) ==
    [expected   |-> report.expected,
     pending    |-> report.pending \ {id},
     outcome    |-> IF id \in report.pending
                    THEN [report.outcome EXCEPT ![id] = outcome]
                    ELSE report.outcome,
     violations |-> report.violations
                      \cup CompletionViolations(report, id, outcome)]

\* Mutant: a skipped check needs no reason.
OutcomeSatisfiesBlank(id, outcome, required) ==
    \/ outcome.kind \in {"Passed", "RejectedAsExpected", "NotApplicable"}
    \/ outcome.kind = "SkippedOptional" /\ id \notin required

\* The match on one outcome in requirements_satisfied_with.
OutcomeSatisfies(id, outcome, required) ==
    \/ outcome.kind \in {"Passed", "RejectedAsExpected"}
    \/ outcome.kind = "NotApplicable" /\ outcome.reasoned
    \/ outcome.kind = "SkippedOptional" /\ outcome.reasoned /\ id \notin required

ReportSatisfied(report, required) ==
    /\ report.expected # {}
    /\ report.pending = {}
    /\ report.violations = {}
    /\ \A c \in report.expected :
          OutcomeSatisfies(c, report.outcome[c], required)
    /\ required \subseteq report.expected

\* What assert_satisfied_with puts into its panic message: the violations, an
\* empty registration, every outcome that is no evidence, every requested
\* check outside the run.
Issues(report, required) ==
    [violated |-> report.violations,
     empty    |-> report.expected = {},
     unproven |-> {c \in report.expected :
                     LET outcome == report.outcome[c] IN
                     \/ outcome.kind \in {"Unverified", "Failed", "NotRun"}
                     \/ outcome.kind = "SkippedOptional" /\ c \in required
                     \/ outcome.kind \in {"SkippedOptional", "NotApplicable"}
                            /\ ~outcome.reasoned},
     outside  |-> required \ report.expected]

NoIssues == [violated |-> {}, empty |-> FALSE, unproven |-> {}, outside |-> {}]

=============================================================================
