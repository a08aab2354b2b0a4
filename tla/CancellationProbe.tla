-------------------------- MODULE CancellationProbe --------------------------
(***************************************************************************)
(* The cancellation checks of the asynchronous suite: write_cancellation.rs *)
(* and copy_cancellation.rs, which differ in what `kind` is asked.         *)
(*                                                                         *)
(* A fixture arms a gate inside the provider.  The check starts an owning  *)
(* operation, polls it until the gate is reached, drops the execution,     *)
(* disarms the gate, inspects and repeats the operation, and aborts the    *)
(* writer it still owns.  The provider and the fixture may give any answer *)
(* at any point, panic, or go on publishing in the background, and the     *)
(* caller may drop the check at every await.                               *)
(***************************************************************************)
EXTENDS Naturals

VARIABLES
    kind,       \* "write" or "copy"
    stage,      \* the stage under test
    pc,         \* the next await or synchronous part of the check
    operation,  \* state() of the owning operation
    execution,  \* the future returned by operation.execute()
    reached,    \* what poll_fn returned
    repeats,    \* repeated executions so far
    claimed,    \* the outcome the abort reported
    seen,       \* history: the target when the check observed it after the abort
    holder,     \* who can still recover the operation or its writer
    armed,      \* ProbeDisarmGuard.armed
    disarms,    \* history: calls of the probe's disarm
    reports,    \* disarm failures pushed to the cleanup report
    outcome,    \* what the check reported
    ended,      \* how the check ended
    session,    \* the provider's writer: its existence is has_recovery()
    before,     \* the target when the check observed it first
    target,     \* the target now
    intact,     \* the copy source is as the check observed it first
    conforming  \* whether provider and fixture keep their promises

checkVars    == <<kind, stage, pc, operation, execution, reached, repeats, claimed, seen>>
guardVars    == <<armed, disarms, reports>>
providerVars == <<session, before, target, intact>>
vars == <<checkVars, guardVars, providerVars, holder, outcome, ended, conforming>>

Contents == {"absent", "old", "new"}

Stages == [write |-> {"Open", "Write", "Flush", "Commit"},
           copy  |-> {"NativeAttempt", "Reader", "Writer", "Commit"}]

\* The stages at which the operation owns an opened writer.
HasWriter == stage \in {"Write", "Flush", "Writer", "Commit"}

Init ==
    /\ kind \in DOMAIN Stages /\ stage \in Stages[kind]
    /\ pc = "prepare"
    /\ operation = "none" /\ execution = "none" /\ reached = "no"
    /\ repeats = 0 /\ claimed = "none" /\ seen = "unseen"
    /\ holder = "nobody"
    /\ armed = FALSE /\ disarms = 0 /\ reports = 0
    /\ outcome = "none" /\ ended = "no"
    /\ session = "none"
    /\ before \in {"absent", "old"} /\ target = before
    /\ intact = TRUE /\ conforming \in BOOLEAN

Fault == ~conforming

-----------------------------------------------------------------------------
(* ProbeDisarmGuard and the ways a check ends.                             *)

\* Mutant: the guard forgets that it was disarmed.
DisarmGuardTwice ==
    \/ ~armed /\ UNCHANGED guardVars
    \/ armed /\ disarms' = disarms + 1 /\ UNCHANGED <<armed, reports>>

\* disarm: once, whoever calls it; a failure goes to the cleanup report.
DisarmGuard ==
    \/ ~armed /\ UNCHANGED guardVars
    \/ /\ armed
       /\ armed' = FALSE /\ disarms' = disarms + 1
       /\ reports' = reports \/ (Fault /\ reports' = reports + 1)

\* The destructors of a scope that is left, in reverse order of declaration:
\* a live execution first, the guard last.
Unwind(how) ==
    /\ pc' = "end"
    /\ ended' = how
    /\ execution' = IF execution = "live" THEN "dropped" ELSE execution
    /\ DisarmGuard
    /\ UNCHANGED <<kind, stage, operation, reached, repeats, claimed, seen, providerVars,
                   conforming>>

Return(result, keeper) == Unwind("returned") /\ outcome' = result /\ holder' = keeper

\* A failure drops the operation, or its source keeps it.
Fail         == Return("Failed", "nobody")
FailRetained == Return("Failed", "failure")

\* The check goes on and neither ends nor disarms.
Advance(next) == pc' = next /\ UNCHANGED <<kind, stage, outcome, ended, conforming>>

-----------------------------------------------------------------------------
(* From the preparation to the repeated execution.                         *)

\* Without the capability or without a probe nothing is armed; with a probe
\* the guard is made before the next await.
Prepare ==
    /\ pc = "prepare"
    /\ \/ Return("NotApplicable", "nobody")
       \/ Return("SkippedOptional", "nobody")
       \/ Fault /\ Fail
       \/ /\ Advance("observe")
          /\ armed' = TRUE
          /\ UNCHANGED <<operation, execution, reached, repeats, claimed, seen, disarms,
                         reports, holder, providerVars>>

\* The target, and for a copy its source, are observed independently.
ObserveBefore ==
    /\ pc = "observe"
    /\ \/ Fault /\ Fail
       \/ /\ Advance("admit")
          /\ before' = target /\ intact' = TRUE
          /\ UNCHANGED <<operation, execution, reached, repeats, claimed, seen, guardVars,
                         holder, session, target>>

\* begin_write_all or begin_copy; an execution is made and dropped unpolled.
Admit ==
    /\ pc = "admit"
    /\ \/ Fault /\ Fail
       \/ /\ Advance("unpolled")
          /\ operation' = "Ready" /\ holder' = "check"
          /\ UNCHANGED <<execution, reached, repeats, claimed, seen, guardVars, providerVars>>

\* The unpolled execution left the operation Ready, and a copy without a
\* writer; otherwise the operation goes with the failure's scope.
VerifyUnpolled ==
    /\ pc = "unpolled"
    /\ \/ Fault /\ Fail
       \/ kind = "copy" /\ session = "open" /\ Fail
       \/ /\ kind = "copy" => session = "none"
          /\ Advance("poll")
          /\ execution' = "live"
          /\ UNCHANGED <<operation, reached, repeats, claimed, seen, guardVars, holder,
                         providerVars>>

\* While the execution is pending the provider opens the writer it needs, or,
\* breaking its promises, one that is not needed or before it is polled.
OpenWriter ==
    /\ session = "none"
    /\ \/ pc = "poll" /\ HasWriter
       \/ pc \in {"unpolled", "poll"} /\ Fault
    /\ session' = "open"
    /\ UNCHANGED <<checkVars, guardVars, before, target, intact, holder, outcome,
                   ended, conforming>>

RecoveryMatches == (session = "open") = HasWriter

\* poll_fn: the execution is polled before the probe.  It ends with the
\* acknowledgement of the stage, an error of the probe, or an execution that
\* was over too early.
Poll ==
    /\ pc = "poll"
    /\ \/ /\ RecoveryMatches \/ Fault
          /\ reached' = "stage" /\ UNCHANGED <<operation, session, target>>
       \/ Fault /\ reached' = "probe error" /\ UNCHANGED <<operation, session, target>>
       \/ /\ Fault /\ reached' = "completed" /\ operation' = "Completed"
          /\ session' = "settled" /\ target' = "new"
       \/ /\ Fault /\ reached' = "failed" /\ operation' = "Failed"
          /\ UNCHANGED <<session, target>>
    /\ Advance("drop")
    /\ UNCHANGED <<execution, repeats, claimed, seen, guardVars, holder, before, intact>>

\* drop(execution): a pending operation becomes indeterminate.
DropExecution ==
    /\ pc = "drop"
    /\ Advance("disarm")
    /\ execution' = "dropped"
    /\ operation' = IF operation = "Ready" THEN "Indeterminate" ELSE operation
    /\ UNCHANGED <<reached, repeats, claimed, seen, guardVars, holder, providerVars>>

\* Mutant: disarming is left to the destructor.
DisarmLate ==
    /\ pc = "disarm"
    /\ Advance("inspect")
    /\ UNCHANGED <<operation, execution, reached, repeats, claimed, seen, guardVars, holder,
                   providerVars>>

\* guard.disarm(); drop(guard).
Disarm ==
    /\ pc = "disarm"
    /\ Advance("inspect")
    /\ DisarmGuard
    /\ UNCHANGED <<operation, execution, reached, repeats, claimed, seen, holder, providerVars>>

\* Mutant: a failed disarm returns at once and drops the operation.
InspectDrops ==
    /\ pc = "inspect"
    /\ \/ reports > 0 /\ Fail
       \/ reports = 0 /\ reached # "stage" /\ FailRetained
       \/ /\ reports = 0 /\ reached = "stage" /\ RecoveryMatches
          /\ Advance("repeat")
          /\ UNCHANGED <<operation, execution, reached, repeats, claimed, seen, guardVars,
                         holder, providerVars>>

\* Everything that is asked of the cancelled operation before it is repeated:
\* the stage was reached, the disarm succeeded, and its state, its byte count
\* and its recovery are right.
Inspect ==
    /\ pc = "inspect"
    /\ \/ reached # "stage" /\ FailRetained
       \/ reached = "stage" /\ reports > 0 /\ FailRetained
       \/ reached = "stage" /\ reports = 0 /\ (~RecoveryMatches \/ Fault) /\ FailRetained
       \/ /\ reached = "stage" /\ reports = 0 /\ RecoveryMatches
          /\ Advance("repeat")
          /\ UNCHANGED <<operation, execution, reached, repeats, claimed, seen, guardVars,
                         holder, providerVars>>

\* operation.execute().await again, twice for a copy: it must refuse and
\* report the same facts.  The provider answers only through an open gate.
Repeat ==
    /\ pc = "repeat" /\ ~armed
    /\ \/ Fault /\ FailRetained
       \/ /\ repeats' = repeats + 1
          /\ Advance(IF kind = "copy" /\ repeats = 0 THEN "repeat" ELSE "recover")
          /\ UNCHANGED <<operation, execution, reached, claimed, seen, guardVars, holder,
                         providerVars>>

-----------------------------------------------------------------------------
(* Recovery.                                                               *)

\* take_recovery: nothing to recover, a validated writer, or one whose
\* identity the facade rejected.
TakeRecovery ==
    /\ pc = "recover"
    /\ \/ /\ session = "open" /\ Advance("abort")
          /\ UNCHANGED <<operation, execution, reached, repeats, claimed, seen, guardVars,
                         holder, providerVars>>
       \/ session = "open" /\ Fault /\ FailRetained
       \/ /\ session # "open"
          /\ Advance(IF kind = "copy" THEN "source" ELSE "pass")
          /\ UNCHANGED <<operation, execution, reached, repeats, claimed, seen, guardVars,
                         holder, providerVars>>

\* What an honest provider may report of the target.
Honest(report) ==
    CASE report = "NotPublished" -> target = before
      [] report = "Published"    -> target = "new"
      [] OTHER                   -> TRUE

\* abort_async: a failure keeps the writer; an acknowledged abort settles it.
Abort ==
    /\ pc = "abort"
    /\ \/ Fault /\ FailRetained
       \/ \E report \in {"NotPublished", "Published", "Indeterminate"} :
             /\ Honest(report) \/ Fault
             /\ claimed' = report
             /\ session' = "settled"
             /\ Advance("verify")
             /\ UNCHANGED <<operation, execution, reached, repeats, seen, guardVars,
                            holder, before, target, intact>>

\* A write whose outcome is indeterminate makes no claim and is not observed.
Observes == kind = "copy" \/ claimed # "Indeterminate"

\* Mutants: an indeterminate outcome is held to be unpublished; no outcome is
\* compared with the target.
ObserveAfterStrict ==
    /\ pc = "verify"
    /\ \/ claimed # "Published" /\ target # before /\ Fail
       \/ /\ claimed # "Published" => target = before
          /\ seen' = target
          /\ Advance(IF kind = "copy" THEN "source" ELSE "pass")
          /\ UNCHANGED <<operation, execution, reached, repeats, claimed, guardVars,
                         holder, providerVars>>

ObserveAfterTrusting ==
    /\ pc = "verify"
    /\ seen' = target
    /\ Advance(IF kind = "copy" THEN "source" ELSE "pass")
    /\ UNCHANGED <<operation, execution, reached, repeats, claimed, guardVars,
                   holder, providerVars>>

\* The writer's state must match the outcome, and the target the claim.
ObserveAfter ==
    /\ pc = "verify"
    /\ \/ Fault /\ Fail
       \/ claimed = "NotPublished" /\ target # before /\ Fail
       \/ claimed = "Published" /\ target = "absent" /\ Fail
       \/ /\ claimed = "NotPublished" => target = before
          /\ claimed = "Published" => target # "absent"
          /\ seen' = IF Observes THEN target ELSE seen
          /\ Advance(IF kind = "copy" THEN "source" ELSE "pass")
          /\ UNCHANGED <<operation, execution, reached, repeats, claimed, guardVars,
                         holder, providerVars>>

\* A copy observes its source once more.
ObserveSource ==
    /\ pc = "source"
    /\ \/ (~intact \/ Fault) /\ Fail
       \/ intact /\ Return("Passed", "nobody")

Pass == pc = "pass" /\ Return("Passed", "nobody")

-----------------------------------------------------------------------------
(* The other actors.                                                       *)

\* The provider publishes what the operation asked for until it has claimed what
\* became of it; one that keeps no promises may do so at any time, and do harm.
Publish ==
    /\ ended = "no"
    /\ \/ /\ stage \in {"Commit", "NativeAttempt"} /\ execution # "none"
          /\ session # "settled" \/ claimed = "Indeterminate"
          /\ target' = "new" /\ UNCHANGED intact
       \/ Fault /\ target' \in Contents /\ UNCHANGED intact
       \/ Fault /\ kind = "copy" /\ intact' = FALSE /\ UNCHANGED target
    /\ UNCHANGED <<checkVars, guardVars, session, before, holder, outcome, ended, conforming>>

Awaiting ==
    \/ pc \in {"prepare", "observe", "poll", "repeat", "abort", "source"}
    \/ pc = "verify" /\ Observes

\* At an await the caller drops the check; a call it makes may panic.
Interrupted ==
    /\ \/ Awaiting /\ Unwind("dropped")
       \/ Fault /\ pc \notin {"drop", "disarm", "pass", "end"} /\ Unwind("panicked")
    /\ holder' = "nobody"
    /\ UNCHANGED outcome

Step ==
    \/ Prepare \/ ObserveBefore \/ Admit \/ VerifyUnpolled \/ Poll
    \/ DropExecution \/ Disarm \/ Inspect \/ Repeat
    \/ TakeRecovery \/ Abort \/ ObserveAfter \/ ObserveSource \/ Pass

Next == Step \/ OpenWriter \/ Publish \/ Interrupted

Spec == Init /\ [][Next]_vars

\* The runtime polls the check, and the provider reaches the armed stage.
FairSpec == Spec /\ WF_vars(Step) /\ WF_vars(OpenWriter)

-----------------------------------------------------------------------------
(* Properties.                                                             *)

\* Once an execution was polled, a check that returns leaves no open writer
\* behind that nobody can abort: it was aborted, or the failure owns the
\* operation (user_guide.md, "retain the owning operation").
RecoveryNeverLost ==
    ended = "returned" /\ execution # "none" /\ session = "open" => holder = "failure"

\* The gate is lifted exactly once, however the check ends, and never while
\* the execution that waits at it is alive: it would go on and publish.
GateLiftedOnce ==
    /\ ended # "no" => ~armed
    /\ disarms <= 1
    /\ disarms = 1 => execution # "live"

\* A provider and a fixture that keep their promises never fail the check,
\* also when the provider publishes in the background while it is cancelled.
ConformingPasses ==
    conforming /\ ended = "returned" => outcome # "Failed"

\* A check that passes has seen, after the abort and whatever the provider does
\* in the background, a target that bears out what the abort claimed; the source
\* of a copy is then as it was, the gate could be lifted and no writer is open.
PassedMeansHonest ==
    outcome = "Passed" =>
        /\ claimed = "NotPublished" => seen = before
        /\ claimed = "Published" => seen \in Contents \ {"absent"}
        /\ kind = "copy" => intact
        /\ reports = 0
        /\ session # "open"

\* A failure of the acknowledgement, of the disarm or of the operation's state
\* keeps the operation (user_guide.md, "Cancellation acknowledgement, disarm,
\* or state-diagnostic failures retain the owning operation").
OperationRetained ==
    [][(ended' = "returned" /\ pc \in {"unpolled", "inspect", "repeat"})
           => holder' = "failure"]_vars

\* The check ends: repeated executions do not wait at the gate.
CheckEnds == <>(ended # "no")

=============================================================================
