# Verification of qubit-fs-testkit

qubit-fs-testkit is a contract-test kit: it drives a file system provider through a
catalog of checks and says whether the provider keeps the contract of `qubit-fs`.  A test
kit is only worth its verdicts, so the question of this project is when a verdict can be
trusted, and whether the kit cleans up after itself, when the provider under test errs,
panics, lies or is interrupted.  Paths below are relative to the repository.

- [1 Inventory](#1-inventory)
- [2 Modules and how they correspond to the code](#2-modules-and-how-they-correspond-to-the-code)
- [3 What is model-checked](#3-what-is-model-checked)
- [4 What is proved](#4-what-is-proved)
- [5 Findings](#5-findings)
- [6 Not modelled](#6-not-modelled)
- [7 Plan](#7-plan)

## 1 Inventory

| Component | State | Operations | Correct when |
| --- | --- | --- | --- |
| Suite session, async and sync (`src/async_file_system_contract_suite.rs`, `src/file_system_contract_suite.rs`) | `started`, `teardown_completed`, the `ContractRun` | `run_all`, `run_contract`, `run_check`, `finish`, `run` | the verdict is sound for checks and resources, never improves, and a run always ends |
| Evidence report (`src/contract_report.rs`, `contract_check*.rs`) | registered checks, pending identities, violations | `register`, `record`, `requirements_satisfied_with`, `assert_satisfied_with` | only registered checks complete, and the first completion counts; the diagnosis and the verdict agree |
| Run (`src/contract_run.rs`, `contract_failure.rs`) | report, failures, cleanup report, `started`, `completed` | `execution_satisfied` and the verdicts built on it | see the session |
| Cleanup ledger (`src/contract_context.rs`, `cleanup_report.rs`, both `support.rs`) | tracked resources in creation order, attempts, failures, `completed` | `record_created`, `cleanup`, `cleanup_async`, `finish_capture` | nothing that exists is forgotten; nothing is retained silently; completion is earned; retries converge |
| Destructor guards (`src/internal/probe_disarm_guard.rs`, `expected_write_cleanup_guard.rs`) | armed flag; the failure to keep | `disarm`, `Drop` | exactly once, on every path out |
| Cancellation probes (`.../write_cancellation.rs`, `.../copy_cancellation.rs`) | operation, execution, gate, recovery writer | eight checks, one per stage | gate lifted after the execution is dropped; no open writer lost; a conforming provider passes |
| Write, copy, rename, read, stat, list, directory, delete checks | the resources they stage | one function per check and runtime | outcome sound and complete for the property named |
| Temporary resource checks (`temp*.rs`) | temporary file or directory, its published target | keep, persist, discard, overwrite, repeated lifecycle | content and ownership are accounted for on every path |
| Limit probes (`src/internal/limit_probe_plan.rs`, `property_expectations.rs`, `read_expectations.rs`) | none | plan a value at a limit and one beyond it, submit both | a verdict is about the selected limit and no other |
| Properties and representations | none | comparisons of declared properties | complete case analysis |
| Check catalog (`src/internal/check_catalog.rs`) | constant table | `for_contract`, `specification`, `all` | no identity twice, phases partition the table |
| Failure ownership (`contract_source.rs`, `contract_*_failure.rs`) | an owned source, taken once | `take_source`, `operation_mut`, `writer_mut` | one owner at any time |
| Fixture interface (`*_fixture.rs`, `fixture_*.rs`) | external | primitive hooks (seed, observe, `teardown`); default prepare hooks built from them | a default case is one the check that asked for it accepts |
| S3 fixture (`fixtures/s3-contract/`) | buffered write session with one conditional PUT, gate of the tests | open, write, commit, abort; arm, park, observe, release | it says of its target what is true, also after a dropped call; no wake-up is lost |

**Interactions.** A session registers the selected checks in the report, then calls the
checks one after the other; a check calls the provider and the fixture, pushes paths to the
ledger and completes its identity in the report.  The run ends in `finish`, which walks the
ledger in reverse creation order, calls the fixture's teardown unless an earlier attempt has
done it, and sets `CleanupReport::completed`.  The owner may call `finish` again to retry.
The verdict reads the report, the run's failures and the cleanup report.

**What is hard.** The suites run on one thread; concurrency enters through the awaits of the
asynchronous suite.  At each of them the provider may answer in any way, go on in the
background, or panic; another process may remove a path; and the caller may drop the future,
after which only destructors run.  Cleanup must survive this at every point and be
repeatable.  The checks themselves are sequential, but each has many ways out, and what it
has created, opened and reported must add up on all of them.  `PROJECT.json` lists the hazards, each at its line.

## 2 Modules and how they correspond to the code

| Module | Models | Kind |
| --- | --- | --- |
| `ProviderStore` | the provider and the fixture as cleanup meets them | state and operators |
| `AsyncCleanup` | `record_resource`, `cleanup_async`, async `finish_capture` | state machine |
| `SyncCleanup` | `cleanup`, sync `finish_capture` | state machine |
| `CleanupLedger` | what cleanup promises its owner | abstract specification |
| `ContractReport` | `ContractReport` | operators on a value |
| `SuiteSession` | one session of the async suite; composes `AsyncCleanup` and `ContractReport` | state machine |
| `CheckCatalog` | the catalog table, its lists, and the lists of the drivers | operators |
| `SuiteExecution` | registration and dispatch in both suites, over any catalog and drivers; composes `ContractReport` | state machine |
| `CheckSteps` | the vocabulary of the checks | operators |
| `WriteChecks`, `CopyRenameChecks`, `DirectoryDeleteChecks`, `QueryChecks`, `TempChecks` | the checks of both suites, one program each | operators |
| `CheckRunner` | the execution of a check against provider and fixture | state machine |
| `CancellationProbe` | the write and copy cancellation checks with `ProbeDisarmGuard` | state machine |
| `FixtureCases` | the payloads, the default prepare hooks and the vetting of their answers | state machine |
| `LimitProbes` | the checks that probe a limit, and their arithmetic | state machine |
| `ListingChecks` | collection and comparison of a listing; beside `LimitProbes` | state machine |
| `S3WriteSession` | the write session of the S3 fixture with its remote store | state machine |
| `TestControl` | the gate of the S3 fixture | state machine |
| `S3Fixture` | the session behind the gate; composes the two | state machine |
| `Sorting` | the sorts of the standard library that cleanup and listings call (external) | operators |
| `SyncCleanupProofs`, `SuiteSessionProofs` (also of `AsyncCleanup`), `SuiteExecutionProofs`, `CancellationProbeProofs`, `CheckRunnerProofs`, `ListingChecksProofs`, `FixtureCasesProofs`, `S3FixtureProofs` | theorems | proofs |
| `MCAsyncCleanup`, `MCSyncCleanup`, `MCSuiteSession`, `MCChecks`, `MCSuiteExecution` | instances | constants |
| `MCAllChecks` | `MCChecks`, `ListingChecks` and `FixtureCases` side by side, one of them per behaviour | instance |

A definition called "Mutant" in a comment is a deliberately wrong variant of the definition
after it; no specification uses it, and `PROJECT.json` says which property notices it.

**ProviderStore.** `present` is what really exists; the suite never reads it.  A provider may
fail, panic, half-do or fake a deletion, up to `MaxFaults` times; an answer about existence
(metadata or `NotFound`) is true when it is given, since no ledger can be kept against a
provider that denies what exists.  `staged` makes every path appear once, which the suite's
unique names guarantee.

**AsyncCleanup.** `resources`, `resourceIndex`, `attempts`, `completed`, `failures` and
`teardownCompleted` are the fields of `ContractContext`, `CleanupReport` and the suite; `pc`
is the await at which the attempt is suspended, `cursor` the loop index, `failureStart` the
local of that name.  The code between two awaits is one action: `Begin` enters
`finish_capture`, `Stat*`, `Delete*` and `Verify*` are the answers to the three provider
calls, `Teardown*` those to teardown, `Cancel` drops the future.  `Release` and `Retain` are
`Vec::remove` and `record_cleanup_failure`; `Proceed` is the code to the next await,
including the verdict of the attempt.  A panic is caught by `CatchUnwindFuture` and handled
like an error, so both are one action.  `recorded` and `clean` are history.

**SyncCleanup.** The same contract with a different algorithm: `mem::take` moves the ledger
into the local `pending`, which is popped; entries to keep are pushed to `retained`, which is
sorted by index at the end.  A step is one provider call.

**CleanupLedger.** Three variables, the ledger as a set, `present` and `completed`: a path
leaves the ledger only while it does not exist, and completion is only reported over an
empty ledger.  Both cleanups are checked to implement it, with `ledger` mapped to the set of
the paths they hold.

**ContractReport.** A report is a record; `Register`, `Record`, `ReportSatisfied` and `Issues`
are `register`, `record`, `requirements_satisfied_with` and `assert_satisfied_with`.  Vectors
become sets since neither order nor multiplicity reaches a decision.  An outcome is its
variant and whether its reason is blank after trimming.

**SuiteSession.** `stage` is the place of `run_selected`; `todo` holds the checks not executed
yet.  A check is abstracted to its effect: it stages and records resources, then completes,
returns `Err`, panics, or is dropped with the run's future.  The finish at the end of a run
and the one a caller asks for are the actions of `AsyncCleanup`.  Attribution follows the
code: an error carries its check, a panic only when the check was selected by identity.

**CheckCatalog and SuiteExecution.** The catalog is written out in full: contract, capability,
optional and asynchronous-only for every identity, the orders of the lists, the prerequisites.
Beside it stand the lists the drivers of both suites iterate, which the code keeps in other
files.  `SuiteExecution` registers from the former and executes from the latter, for every
entry point of both suites, so that a disagreement shows as a check that is registered and
never run, or run and never registered.  It has both as constants (`Listed`, `Driven` and the
rest), which `MCSuiteExecution` and its configuration take from `CheckCatalog`; what the two
have to agree on is its assumption `DriversAssumption`.  A check is abstracted to how it ends, but not
to one completion: a synchronous temporary check of a fixture without content hooks records
`Unverified` on the spot (`Noted`, for the checks of `Noting`), and at its end again what the
report then shows (`Outcome`).

**CheckSteps, the check modules and CheckRunner.** A check is a line of fixture hooks,
provider calls and comparisons with early returns.  It is written as a program: a sequence of
sections, each a sequence of steps in the order of the code.  A step says what is asked, what
is accepted and how the check leaves otherwise: with an outcome, with an error, with an error
that owns a session.  Each program is a function of the advertised capabilities, and carries
the outcome the check exists for and the contents it vouches for (`promise`).  `CheckRunner`
gives a step its meaning once: one action per kind of step, plus the end, a panic at any step
and a dropped future at any await.  A resource is a role; its content is one of eight values,
enough to tell what was seeded, what the check wrote and what neither did.  The provider
either conforms or does anything to the resources a call names and answers anything.  The
fixture may lack any hook, or have any hook fail; what it reports is true, because the
kit has no other evidence.  Where the two suites differ in control there is a `Sync`
operator; where they differ only in awaits the programs coincide.  The report is
seen through two variables: `entry`, what it shows for the check, and `completions`, how often
the check has completed it (`RecordCheck`: the first completion counts).  A step says which
sessions its failure keeps; a call whose answer is compared afterwards (`judged`) may fail over
a wrong answer, with what it opened still alive and in nobody's hands.  The constants of
`CheckRunner` are the programs (`Checks`), which of them the catalog calls optional
(`OptionalChecks`), which roles are temporary resources (`Temporaries`) and an outline of each
program (`Outline`, see section 3).

**CancellationProbe.** Both checks are one module since they differ only in what `kind` is
asked.  `execution` is the pinned future, `operation` the state of the owning operation,
`session` the provider's writer, `holder` who can still recover it.  `conforming` chooses
once whether provider and fixture keep their promises: `ConformingPasses` is about those that
do, the other properties about all.  A provider that breaks its promises may publish at any
time, also after it has acknowledged the abort, so `PassedMeansHonest` is about what the check
observed (`seen`), not about what the target holds later.  Destructors run in reverse order of declaration
(`Unwind`), so a live execution goes before the guard.

**FixtureCases.** A default prepare hook is the list of primitive calls it makes, in order;
the first unsupported one makes the case `Unavailable`, the first failing one fails it, with
what was seeded left behind.  Payloads are a text and a length, cut or filled to the declared
write limit as in the code.  `Vetted*` is what the check asks of the answer.  The module
extends the check modules so that what a default case prepares can be compared with what the
program of the check takes for granted (`Assumed`).

**LimitProbes and ListingChecks.** Limits and lengths are numbers, with `MaxU64` standing for
`u64::MAX`; `declared` is what the provider says and `actual` what it enforces.
`BoundedSuccessor`, `Window`, `PlanAdmission` (with the masking of one limit by another) and
`Clamped` are the arithmetic; the actions submit what it plans.  A listing is collected from a
stream that may come in any order, repeat, invent, omit metadata, fail or never end.  A
behaviour of `QuerySpec` is one probe or one listing.

**S3WriteSession, TestControl, S3Fixture.** The session buffers bytes and publishes them with
one PUT; `op` is the await of the call in progress, `request` the PUT on the wire, which the
server may apply after the call was dropped, refuse, or never receive.  The other client
changes the object in between.  The gate has the four fields of `Gate`; `task` and `watch`
are the two futures that use it, each with the fact whether it was woken.  `S3Fixture` lets
every call of the session come to its stage of the gate: the test then sees the session only
through arrivals.

## 3 What is model-checked

| Run | Shows | Bounds |
| --- | --- | --- |
| `async_cleanup` | no live resource is forgotten, none retained silently, completion is earned, `CleanupLedger` is implemented, and an owner who retries reaches a completed attempt | a tree of depth three, plain deletion, 5 attempts, 3 faults |
| `sync_cleanup` | nothing dropped by `mem::take`, a clean retry reports nothing, `CleanupLedger` is implemented | the same tree, 3 attempts, 3 faults |
| `suite_session` | soundness and stability of the verdict, agreement of report and session, a polled run ends | 3 checks in 2 phases, 2 paths, recursive deletion, 2 attempts, 1 fault |
| `cancellation_probe` | verdict, gate and recovery of the cancellation checks, and their end | none: the state space is finite |
| `checks` | every other check of both suites: whatever it leaves is in the ledger or owned, a conforming provider passes, an outcome is earned and is what the report shows, no writer is lost; a verdict on a limit is about the selected one, a provider that enforces what it declares passes, a listing is judged in full and its collection ends; a default case passes the vetting of its check and is the state its program starts from, and what shows a publication differs from what was there before | programs: none, every check with and without each capability it asks about; probes: budget 5 bytes, 3 entries, `u64::MAX` as 10; listings of up to 3 of 3 entries; cases: write limits from 0 to more than every payload, every set of supported hooks |
| `suite_execution` | only what is registered is executed, nothing twice, all of it unless something fails, the report charges nothing but the second completion of finding 4, and prerequisites come first, for every entry point | none: the whole catalog |
| `s3_fixture` | what the session says of its target is true, what is published is what was acknowledged, an arrival tells how far the session is, no wake-up is lost | 1 byte, 2 PUTs, 1 change by another client, 2 armed gates |
| `suite_session_early` | finding 1 | as `suite_session` |
| `cancellation_retains` | finding 2 | none |
| `write_limit_unobserved` | finding 3 | as the programs of `checks` |
| `temp_completes_twice` | finding 4 | as the programs of `checks` |
| `temp_retained` | finding 5 | as the programs of `checks` |

`checks` explores three specifications that do not interact: in each of its behaviours one of
them runs while the others rest in a final state (`MCAllChecks`).

**Bounds.** A tree of depth three is the smallest in which a removal happens in the middle of
the ledger with entries on both sides and a directory is both parent and child.  The retries
need one attempt per fault, one that may be refused because an unrecorded path keeps a
directory non-empty until teardown, and one to complete.  The session has a phase with a
required optional probe check after a core check, so that breaking off leaves pending checks;
two attempts are the run's own finish and one retry; one fault is enough to spoil a check or
a finish, and the theorems cover the rest.  The limits of the probes take every
value from 0 to beyond the budget and up to the largest integer, so that every comparison is
met from both sides and with equality.  The write limits of the cases lie below, at and
above the length of each payload and of the pairs of payloads that are compared.  In
`s3_fixture` two PUTs are a refused one and the repeated commit after it, and two gates a
gate armed after an earlier one was released.

**Deadlock** is not checked: an attempt, a session, a check and a test end, and nothing is
left to do.  That they end as they should is stated by the liveness properties.

**Fairness.** The code has no timer and no scheduler of its own; progress comes from
outside.

- `FairCleanupSpec` assumes that the runtime polls a live future until it is done and the
  provider answers (`WF(Resume)`), and that the owner of a suite whose attempt did not
  complete calls `finish` again (`WF(~completed /\ Begin)`), as the user guide asks
  (`doc/user_guide.md:197`).
- `SuiteSession!FairSpec` assumes that an executing check ends in one of its ways and that
  the run's finish is polled; nothing is assumed of callers.
- `CancellationProbe!FairSpec` assumes that the check is polled and that the provider opens
  the writer the stage needs.
- `QuerySpec`, and `AllSpec` for its part, assumes that the stream answers each time it is asked, never that it
  ends: an endless stream is one of the behaviours.
- `FixtureSpec` assumes that the executor polls a task that was *woken*.  A task that lost
  its wake-up may sleep for ever, which is what `WakeupsArrive` excludes.

No assumption is made that a provider succeeds.  A provider that never answers hangs the
suite: the code has no timeout, and the assumption is exactly what it relies on.

**Assumptions TLC evaluates.** Some of what makes the suites correct is in their data: the
programs of the checks and the lists of the drivers.  It is stated as assumptions on the
constants, which TLC evaluates for the real programs and lists, and the theorems are about
all that meet them.

- `ProgramsAssumption` of `CheckRunner` is the discipline the authors of the checks follow.
  It says of every program that a call touches only what its section has recorded before it
  (or what only the other side can know); that what a hook seeded is recorded before the next
  await; that a section closes the sessions it opens; that the failure of a step keeps the open
  writers, what its call opened and what its call was to close (`Retains`), and that no other
  step fails while a writer is open; and that a check either can give up only as `Unverified`,
  or gives up only where it has no session open and has not completed its report entry.
  Of the temporary resources `Retains` asks only for the one a call is made on; finding 5 shows
  that the others are dropped.
- `EvidenceAssumption` says of what a check looks at: no step gives up with an outcome that
  claims evidence, `SkippedOptional` is given only by optional checks, and each content the
  outcome vouches for has a conclusive step (`Conclusive`), one that compares it and after which nothing
  the check asks for can alter it.
- `OutlineAssumption` says that every program has an outline: what each role holds before
  each step when all goes as it should.  It starts from nothing, follows the effect of each
  step, and meets every comparison of the program.  An outline is the result of a recursion
  along the program, so it is a constant, `MCOutline` computes it, and its
  equations are what is assumed.  TLC finds them met by every program with all capabilities.
- `DriversAssumption` of `SuiteExecution` says that the driver of each contract executes once
  each check the catalog lists for it, those of its suite only, and a check after the ones it
  builds on.

## 4 What is proved

TLAPS checks every proof.  The theorems hold for every value of the constants that the named
assumptions of the modules allow:

| Assumption | Leaves open |
| --- | --- |
| `PathsAssumption`, `CapabilityAssumption` | any set of paths, any tree over them, with or without (recursive) deletion |
| `FaultBoundAssumption`, `AttemptBoundAssumption` | any number of provider faults and of attempts |
| `OptionalAssumption`, `CatalogAssumption` | any catalog whose lists name no check twice, any required set |
| `ProgramsAssumption`, `RolesAssumption` | any set of checks whose programs keep the discipline above |
| `EvidenceAssumption`, `OutlineAssumption` | any such programs that look at what they vouch for, and compare with what a conforming provider leaves |
| `DriversAssumption` | any catalog, and any drivers that agree with it |
| `BudgetAssumption`, `EntriesAssumption` | any probe budget, width of the integers, and listing |
| `WriteLimitsAssumption` | any set of declared write limits |
| `BoundsAssumption`, `StagesAssumption` | any buffer limit, number of PUTs, of other clients' changes, and of further stages |

TLC evaluates each of them in the runs.

| Module | Theorem | States |
| --- | --- | --- |
| `SyncCleanupProofs` | `NothingDroppedTheorem` | `mem::take` and the way back lose no recorded path that exists |
| | `CleanAttemptTheorem` | an attempt without a provider fault reports nothing, also over retained entries |
| | `ImplementsLedger` | `SyncCleanup` implements `CleanupLedger` |
| `SuiteSessionProofs` | `VerdictReclaims` | without an early finish, a satisfied session leaves nothing behind |
| | `VerdictStays` | a verdict never improves |
| | `VerdictHasEvidence` | a satisfied session executed what it registered, without an incident |
| | `FailuresAreAttributed` | a check is `Failed` exactly when a failure of the run names it |
| | `DiagnosisTheorem` | the diagnosis is empty exactly for a satisfied report |
| | `TypeCorrect` | types, and the loop index always names a ledger entry |
| | `LedgerKept` | a recorded path that exists is in the ledger |
| | `LedgerStaysOrdered` | the ledger is in creation order without duplicates |
| | `NothingRetainedSilently` | what the loop has passed and kept is reported in this attempt |
| | `CompletionIsEarned` | an attempt completes only over an empty ledger and a torn-down fixture |
| | `CleanAttemptTheorem` | an attempt without a provider fault reports nothing |
| | `CleanupImplementsLedger` | `AsyncCleanup` implements `CleanupLedger` |
| `SuiteExecutionProofs` | `RegisteredTheorem` | only registered checks are entered, none twice; the report charges nothing but second completions of checks that noted a missing hook; a run without a failure has entered and completed them all |
| | `PrerequisitesTheorem` | a run of a whole contract enters a check only after those it builds on |
| `CancellationProbeProofs` | `RecoveryTheorem` | no open writer is lost once the execution has been polled |
| | `GateTheorem` | the gate is lifted on every way out, once, and never under a live execution |
| | `ConformingTheorem` | a conforming provider is never failed |
| | `HonestTheorem` | a check that passes has seen what the abort claimed, an intact source, and no open writer, whatever is published in the background |
| `CheckRunnerProofs` | `TrackedTheorem` | whatever a check leaves is in the ledger, owned, or of an unready preparation |
| | `EntryTheorem` | the report shows the outcome a check ends with, and before nothing better than `Unverified` |
| | `SessionsTheorem` | an outcome leaves no session open; a failure leaves no writer open that it does not own, nor the resource its call was made on; a refused write is settled or owned |
| | `EarnedTheorem` | an outcome that claims evidence is true of the world at the end of the check, whatever the provider did |
| | `ConformingTheorem` | a conforming provider with a full fixture is never failed, and the check reports the outcome it exists for |
| `ListingChecksProofs` | `ProbeTheorem` | a planned path is over the limit under test, over no other, and in the budget |
| | `EnforcedTheorem` | a provider that enforces what it declares never fails a limit check |
| | `EvidenceTheorem` | a verdict is evidence for the selected limit |
| | `ListingTheorem` | a listing passes only if complete, and a conforming one, in any order, never fails |
| `FixtureCasesProofs` | `DefaultCaseTheorem` | a default case is never rejected and is the state its check starts from |
| | `EvidenceTheorem` | what a write publishes differs from what was there, but for one case |
| `S3FixtureProofs` | `FixtureImplements` | the fixture implements the session alone and the gate alone |
| | `ClaimTheorem` | `NotPublished` of the S3 session is true and stays true |
| | `PublishedTheorem` | `Published` means that the store applied the PUT |
| | `IndeterminateTheorem` | `Indeterminate` is said only after a PUT has left |
| | `AcknowledgedTheorem` | what the store applied is what the session had accepted |
| | `ReplacesTheorem` | a session replaces only the object its precondition names |
| | `ReadyTheorem` | an observer that was told of an arrival finds the operation parked there |
| | `ArrivalTheorem` | an arrival tells how far the session has come until the gate is opened |

**Asynchronous cleanup.** `TypeInv` (types and the place of the loop index) is inductive by
itself; every other invariant needs it, since `RemoveAt` says nothing outside the domain.
`RetainedIsReported` is inductive together with the bound of `failureStart` (`ReportInv`);
`CompletionIsEarned` follows from it, since an attempt without a new failure can have kept
no entry.  `LedgerKept` needs that a path cannot reappear after its entry was released.  The
refinement maps `ledger` to the paths of the ledger and shows each action to be a `Create`,
`Track` or `Progress` step or a stutter.  A clean attempt needs two more: directories come
before what is below them in the ledger (`ParentsInv`), and while the attempt is clean the
cursor is at the end of a ledger that holds all that could hinder a deletion (`CleanInv`), so
a directory is empty when its turn comes.

**Synchronous cleanup.** The entries are in one of four places, and `OrderInv` says that what
is pending was created before the entry in hand, and that before everything retained.
`retained` is therefore in reverse creation order, the sort reverses it, and the next attempt
starts from an ordered ledger.  `LedgerInv` (no place forgets a path), `ReportInv` and
`CleanInv` rest on it; the refinement maps `ledger` to the paths in all four places.

**Session.** `SessionInv` says that checks execute outside a finish and that a completed
attempt has torn the fixture down.  `ReclaimInv` adds the order teardown depends on: while
checks can still create something, teardown has not happened; its premise `~EarlyFinish` is
necessary, as finding 1 shows.  `VerdictInv` says that a run that returned unsatisfied has a
defect that cannot go away: a run failure, a cleanup failure (the list only grows, although
`completed` may turn true later) or an unsatisfied report (nothing writes it any more).
For the evidence, `TodoInv` says that the pending identities of the report are exactly the
checks still to execute, `BlameInv` states attribution check by check, and `IncidentInv` that
every incident has left something the verdict reads.

**Cancellation probes.** `PlaceInv` and `GuardInv` say for each await whether the guard is
armed and the execution alive: the gate goes down only after the execution, on every path.
`WriterInv` says that a claim about the target is made over a settled writer, that it has been
compared with what was seen before the check goes on, and that a writer still open at the
return is owned by the failure.  Nothing is said of the target after that, since the provider
may still publish;
`PromiseInv` says what a conforming provider has kept so far, and `PassInv` what a check has
seen when it passes.

**Check runner.** Every action goes on, leaves its section for a reason, or stops the check;
a lemma says so of each, and the invariant is shown for these three kinds of step.  `LedgerInv`:
what the section has recorded so far is in the ledger, so what a call may touch is.
`SessionInv`: until the check gives up, the open sessions are those its section has opened
and not closed, and for writers also after that; with it `FailureStep` shows, kind of step by
kind of step, that a failure keeps them.  `ReportInv`: a check that completes early has no
outcome but `Unverified`, so what the first completion shows is what the check ends with.
`EvidenceInv`: unless the check has given up, whatever a conclusive step behind it has shown
is still so, because no later step can alter it; at the end every conclusive step is behind.
`OutlineInv`: when provider and fixture conform, the world agrees with the outline at the
place of the check, so the next comparison succeeds and no step has a reason to leave.

**Suite execution.** Until something fails, the checks pending in the report are exactly those
ahead of the session: the rest of the driver's loop and the drivers of the remaining phases
(`PendingInv`).  The loop holds no check of a phase still to come (`AheadInv`), since a check
belongs to one contract, and what was executed is not pending (`BehindInv`), so nothing is
entered twice.  For the prerequisites `BehindInv` says of what is still in the loop, as of what
was executed, that the checks it builds on come before it, and of the executed ones that they
have not failed.  `DoneInv` says that what is registered was executed or is pending, and that
a run that ends without failure has nothing ahead.
What a check has noted before its end leaves the pending checks as its end does, and every
further completion is charged to a check that was executed (`NotedFacts`, `RecordAgain`).

**Limits and listings.** `PlanInv` carries what was planned for a stage, and what the stages
before it have shown, to the verdict; the arithmetic is a few lemmas about `BoundedSuccessor`
and `PlanAdmission`.  For listings the invariant `ListInv` holds an injection from what a
conforming stream has yielded to what was prepared (`Matched`), so that equal lengths mean
the same multiset; lemmas about `Sorting` say that two lists sort to the same one exactly when they are
rearrangements of each other.  `SortBy` is defined by choice of a sorted arrangement, and a
sorted list is shown to be determined by how often each entry occurs; no induction is needed.

**Fixture cases.** The invariant says where a prepare hook is: the calls that remain are the
end of the calls of the case (`Remaining`), and the calls made, and nothing else, are visible
in the world (`Visible`).  A ready case is then a closed expression of the write limit, and is
compared with the seed of the first `prepare` step of the program by the shape of the case.

**S3 fixture.** The invariant of the session ties its state to the PUT on the wire: `Open`
means that no PUT is under way or applied (`WireInv`), because the code sets `Indeterminate`
*before* it awaits the PUT; a request carries all acknowledged bytes (`BytesInv`); the mode
is the one the request was opened with (`SentInv`).  `AwaitInv` says which states go with
which await.  `GateInv` says that `reached` means a parked or dropped operation at the armed
stage, and that an observer is told only while it does.  `FixtureImplements` shows every step
of the composition to be a step or a stutter of each part, so their theorems hold of it, and
`CallInv` adds at which await the session is while its call stands at the gate.

**Only model-checked.** Liveness under fairness is out of the prover's reach:
`CleanupEventuallyCompletes`, `RunEnds`, `CheckEnds`, `CollectionEnds` and `WakeupsArrive`.
Every safety property of a passing run is stated by a theorem.  That the real programs, lists
and drivers meet the assumptions is a matter of finite data, which TLC enumerates in full;
that an outline exists for every program would take an induction over the program, which the
prover cannot do.

## 5 Findings

1. **A finish before the run uses up the session's teardown**
   (`src/async_file_system_contract_suite/support.rs:118`, run `suite_session_early`).
   `finish` may be called on a new session and sets `teardown_completed`, "Whether teardown
   has completed for the current suite run"; no run resets it, so the run's own finish skips
   teardown and the run is satisfied over a resource the ledger does not know.
2. **The first state diagnostic of a cancellation check drops the operation**
   (`.../write_cancellation.rs:102`, `.../copy_cancellation.rs:115`, run
   `cancellation_retains`).  The user guide says that state-diagnostic failures retain the
   owning operation; the ones about the unpolled execution use `?` and drop it, with the
   writer that the diagnostic of a copy looks for.  Once the execution has been polled no
   open writer is lost (`RecoveryNeverLost`).
3. **WriteLimit passes over a published over-limit write**
   (`.../write_limit.rs:117`, sync `write_limit.rs:110`, run `write_limit_unobserved`).  The
   design document says that before WriteLimit is marked satisfied the suite confirms
   non-publication by independent observation; the check finishes the recovery session and
   returns `Passed` without looking at the target.
4. **A synchronous temporary check completes its report entry twice**
   (`src/file_system_contract_suite/temp_file_check.rs:485`, `temp_directory_check.rs:647`, run
   `temp_completes_twice`).  `ContractReport::record` "Completes a registered check exactly
   once" (`src/contract_report.rs:227`) and charges any further completion as a violation.  At
   every content hook that is unsupported these checks complete their entry as `Unverified` and
   go on, and `temp.rs:107` completes it again.  The diagnosis of a fixture without content hooks
   therefore accuses the suite besides naming the missing evidence.  `EntryIsFinal` shows that
   the outcome is right all the same, `RegisteredIsExecuted` that no other violation is charged.
5. **Comparisons of a temporary resource that fail drop it**
   (`src/file_system_contract_suite/temp_file_check.rs:109`, run `temp_retained`).  The user guide
   says that "Temporary-resource failures retain `ContractTempFailure<T>`"
   (`doc/user_guide.md:238`).  Failures of the provider's calls do; the comparisons of the
   path of a new resource (lines 109-130), and a second keep, cleanup or persist that succeeds
   (lines 189, 207, 254, 336; asynchronous 241, 259, 313; likewise for directories) return a
   message and drop the live resource.  Its path is in the ledger, so cleanup may reclaim it.
   `SessionsAccounted` shows that no *writer* is lost in this way, and that a call that fails
   keeps the resource it was made on.

Observations that have no run:

- The payload written below a temporary directory is never recorded
  (`temp_directory_check/persistence.rs:178`, sync `temp_directory_check.rs:556`), although
  "Resources are recorded as soon as setup publishes or stages them"
  (`doc/file_system_testkit_design.md:64`).  With recursive deletion it vanishes with its
  directory; without, the directory stays non-empty until teardown.  `CreatedIsTracked` leaves
  `Payloads` out.
- A writer that opens although the capability for it is not advertised is dropped
  (`write.rs:93`): the check fails, and nobody can abort it.  `SessionsAccounted` leaves such
  calls (`Gated`) out.
- Without the hook `read_file` `WriteBasic` fails (`write.rs:224`) where its neighbours
  report `Unverified`.
- At a write limit of zero `AppendBasic` appends nothing, and its observation cannot tell an
  append from no append; `EvidenceDistinguishes` names this as the only such case.

## 6 Not modelled

Error messages, owner labels and formatting are left out everywhere; which error kind a
refusal has is part of an answer that may be wrong.  Of the S3 fixture the reader, the
directory stream, and the rest of the provider forward calls to the object store and map
errors; no decision of the suites reads their state.  The counters of `TestControl` are left out but for
the PUTs.  The ecosystem script and the build files have no state.  The provider and the
primitive hooks of a fixture are external and modelled by their answers.  Nothing bounds how
long a provider may take, so nothing is stated about it.

## 7 Plan

1. *Done:* cleanup, report, session, cancellation probes; their invariants and the first
   theorems.
2. *Done:* every check of both suites, the catalog and both drivers, the fixture's default
   cases, the limit arithmetic, listings, the S3 session and its gate; their properties, and
   the theorems about the S3 session and the gate.
3. *Done:* a theorem for every safety property of every passing run, with the agreement of
   catalog and drivers, and what a program has to see, as assumptions on their data.
4. Left: the liveness properties, for a prover that handles fairness.
