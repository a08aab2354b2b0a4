----------------------------- MODULE CheckRunner -----------------------------
(***************************************************************************)
(* One contract check, executed against a provider and a fixture.          *)
(*                                                                         *)
(* A check is a program of CheckSteps under the name of its identity.  The *)
(* provider is "conforming", or "arbitrary": it may do anything to the     *)
(* resources a call names, answer anything, or panic.  The fixture is      *)
(* "full", "partial" (any hook may be unsupported) or "faulty" (any hook   *)
(* may fail as well); what it does report is true.  The caller may drop an *)
(* asynchronous check at every await.                                      *)
(***************************************************************************)
EXTENDS CheckSteps, Naturals

CONSTANTS Roles,     \* the resources of the checks
          Payloads,  \* those written below a temporary directory
          Temporaries,  \* those that are temporary resources until kept or persisted
          Checks,    \* the checks: programs with a name, a mode and features
          OptionalChecks,  \* the identities the catalog calls optional
          Outline(_)       \* what is there before each step of a check, if all conforms

Contents == {"absent", "old", "new", "both", "empty", "data", "dir", "other"}
Claims == {"NotPublished", "Published", "Indeterminate"}
Endings == {"done", "failed", "panicked", "dropped"}

VARIABLES
    check,        \* the check that runs
    provider,     \* "conforming" or "arbitrary"
    fixture,      \* "full", "partial" or "faulty"
    section,      \* the section that executes
    step,         \* the step of it that executes or at which the check ended
    world,        \* what is really there
    recorded,     \* the cleanup ledger
    open,         \* the roles with a live writer or temporary resource
    held,         \* the sessions the failure, or the context, keeps alive
    unreported,   \* history: the seeds of hooks that were not ready
    claim,        \* what the last abort claimed
    content,      \* whether the content of temporary resources can be observed
    verdict,      \* the outcome, or "none"
    entry,        \* what the report shows for the check
    completions,  \* the calls of record_check
    phase         \* "running", or how the check ended

place == <<section, step>>
setting == <<check, provider, fixture>>
reported == <<entry, completions>>
vars == <<setting, place, world, recorded, open, held, unreported, claim, content,
          verdict, reported, phase>>

Sections == check.sections
Steps == Sections[section]
Now == Steps[step]
At(kind) == phase = "running" /\ section <= Len(Sections) /\ Now.kind = kind

Init ==
    /\ check \in Checks
    /\ provider \in {"conforming", "arbitrary"}
    /\ fixture \in {"full", "partial", "faulty"}
    /\ section = 1 /\ step = 1
    /\ world = [r \in Roles |-> "absent"]
    /\ recorded = {} /\ open = {} /\ held = {} /\ unreported = {}
    /\ claim = "Indeterminate" /\ content = FALSE
    /\ verdict = "none" /\ entry = "NotRun" /\ completions = 0
    /\ phase = "running"

-----------------------------------------------------------------------------
(* How a step ends.                                                        *)

Advance ==
    /\ IF step < Len(Steps) THEN step' = step + 1 /\ section' = section
                            ELSE step' = 1 /\ section' = section + 1
    /\ UNCHANGED phase

\* get_or_insert: the first reason is the one that counts.
Note(reason) == verdict' = IF verdict = "none" THEN reason ELSE verdict

\* An early return with an outcome leaves the section.
Leave(reason) ==
    /\ Note(reason)
    /\ step' = 1 /\ section' = section + 1
    /\ UNCHANGED phase

\* The check returns Err; `sessions` are owned by the failure.
Fail(sessions) ==
    /\ phase' = "failed"
    /\ held' = held \cup sessions
    /\ UNCHANGED place

LeaveOrFail(reason) ==
    \/ reason = "Failed" /\ Fail({}) /\ UNCHANGED verdict
    \/ reason # "Failed" /\ Leave(reason) /\ UNCHANGED held

\* ContractReport::record: the first completion counts, another is a violation.
RecordCheck(outcome) ==
    /\ completions' = completions + 1
    /\ entry' = IF completions = 0 THEN outcome ELSE entry

Broken == fixture = "faulty"
Lacking == fixture # "full"

-----------------------------------------------------------------------------
(* Fixture hooks and bookkeeping.                                          *)

\* `e` applied to the world; a role stands for its content before.
Intended(e, r) == IF e[r] \in Roles THEN world[e[r]] ELSE e[r]
Applied(e) == [r \in Roles |-> IF r \in DOMAIN e THEN Intended(e, r) ELSE world[r]]

\* The worlds a call on `roles` may leave behind when nothing vouches for it.
Disturbed(roles) ==
    {[r \in Roles |-> IF r \in roles THEN d[r] ELSE world[r]] :
       d \in [roles -> {"absent", "other"} \cup {world[r] : r \in roles}]}

DoPath ==
    /\ At("path")
    /\ \/ Advance /\ UNCHANGED held
       \/ Broken /\ Fail({})
    /\ UNCHANGED <<setting, unreported, world, recorded, open, claim, content, verdict, reported>>

\* Mutant: what the fixture seeded is not recorded.
PrepareReadyUnrecorded ==
    /\ world' = Applied(Now.seed)
    /\ Advance
    /\ UNCHANGED <<recorded, held, verdict>>

PrepareReady ==
    /\ world' = Applied(Now.seed)
    /\ recorded' = recorded \cup Now.records
    /\ Advance
    /\ UNCHANGED <<held, verdict>>

\* A hook that is not ready or fails may have seeded a part; only the fixture
\* knows of it, and its teardown reclaims it.
NotReady ==
    /\ world' \in Disturbed(DOMAIN Now.seed)
    /\ unreported' = unreported \cup DOMAIN Now.seed
    /\ UNCHANGED recorded

DoPrepare ==
    /\ At("prepare")
    /\ \/ PrepareReady /\ UNCHANGED unreported
       \/ /\ Lacking /\ NotReady
          /\ \E reason \in {Now.unavailable, Now.declined} : LeaveOrFail(reason)
       \/ Broken /\ NotReady /\ Fail({}) /\ UNCHANGED verdict
    /\ UNCHANGED <<setting, open, claim, content, reported>>

DoVet ==
    /\ At("vet")
    /\ \/ Advance /\ UNCHANGED held
       \/ Broken /\ Fail({})
    /\ UNCHANGED <<setting, unreported, world, recorded, open, claim, content, verdict, reported>>

DoRecord ==
    /\ At("record")
    /\ recorded' = recorded \cup Now.records
    /\ Advance
    /\ UNCHANGED <<setting, unreported, world, open, held, claim, content, verdict, reported>>

\* Mutant: an abort of which nothing is known must have published nothing.
SeesNothingPublished(want, r) ==
    CASE want = "present" -> world[r] # "absent"
      [] want = "claimed" -> IF claim = "Published" THEN world[r] # "absent"
                                                    ELSE world[r] = "absent"
      [] OTHER -> world[r] = want

\* "claimed" is what the outcome of the abort says of the target.
Sees(want, r) ==
    CASE want = "present" -> world[r] # "absent"
      [] want = "claimed" -> /\ claim = "NotPublished" => world[r] = "absent"
                             /\ claim = "Published" => world[r] # "absent"
      [] OTHER -> world[r] = want

\* Mutant: what the fixture cannot see is taken for granted.
UnsupportedTrusted(unseen) ==
    /\ Advance
    /\ UNCHANGED <<reported, verdict, content, held>>

\* A hook that is unsupported ends the section, or fails the check.  Where it
\* is about the content of a temporary resource, the asynchronous suite may keep
\* the reason and go on ("defer"); the synchronous one completes the check on
\* the spot and goes on ("note") or leaves the section ("quit").
Unsupported(unseen) ==
    /\ IF unseen \in {"note", "quit"} THEN RecordCheck("Unverified") ELSE UNCHANGED reported
    /\ \/ /\ unseen \in {"defer", "note"}
          /\ Note("Unverified") /\ content' = FALSE /\ Advance
          /\ UNCHANGED held
       \/ unseen = "quit" /\ Leave("Unverified") /\ UNCHANGED <<held, content>>
       \/ /\ unseen \notin {"defer", "note", "quit"}
          /\ LeaveOrFail(unseen) /\ UNCHANGED content

DoObserve ==
    /\ At("observe")
    /\ \/ /\ \A r \in DOMAIN Now.want : Sees(Now.want[r], r)
          /\ Advance
          /\ UNCHANGED <<held, content, verdict, reported>>
       \/ /\ \/ Broken
             \/ \E r \in DOMAIN Now.want : ~Sees(Now.want[r], r)
          /\ Fail({})
          /\ UNCHANGED <<content, verdict, reported>>
       \/ Lacking /\ Unsupported(Now.unseen)
    /\ UNCHANGED <<setting, unreported, world, recorded, open, claim>>

Furnished == [r \in {Now.role} \cup Now.children |-> "data"]

DoFurnish ==
    /\ At("furnish")
    /\ \/ /\ world' = Applied(Furnished)
          /\ content' = TRUE
          /\ Advance
          /\ UNCHANGED <<held, verdict, reported>>
       \/ /\ Lacking
          /\ world' \in {world, Applied(Furnished)}
          /\ Unsupported(Now.unseen)
       \/ /\ Broken
          /\ world' \in Disturbed(DOMAIN Furnished)
          /\ Fail({})
          /\ UNCHANGED <<content, verdict, reported>>
    /\ UNCHANGED <<setting, unreported, recorded, open, claim>>

DoConfirm ==
    /\ At("confirm")
    /\ \/ /\ content => world[Now.role] = "data"
          /\ Advance
          /\ UNCHANGED <<held, content, verdict, reported>>
       \/ /\ content
          /\ world[Now.role] # "data" \/ Broken
          /\ Fail({})
          /\ UNCHANGED <<content, verdict, reported>>
       \/ content /\ Lacking /\ Unsupported(Now.unseen)
    /\ UNCHANGED <<setting, unreported, world, recorded, open, claim>>

-----------------------------------------------------------------------------
(* Provider calls.                                                         *)

Rogue == provider = "arbitrary"

\* What a conforming abort leaves and claims.
Aborted ==
    \E r \in Now.closes, left \in {"absent", "new"} :
       /\ world' = [world EXCEPT ![r] = left]
       /\ claim' \in Claims
       /\ claim' = "NotPublished" => left = "absent"
       /\ claim' = "Published" => left = "new"

CallReturns ==
    /\ \/ ~Now.claims /\ world' = Applied(Now.effect) /\ UNCHANGED claim
       \/ Now.claims /\ Aborted
       \/ /\ Rogue
          /\ world' \in Disturbed(DOMAIN Now.effect)
          /\ IF Now.claims THEN claim' \in Claims ELSE UNCHANGED claim
    /\ open' = (open \cup Now.opens) \ Now.closes
    /\ recorded' = recorded \cup Now.learns
    /\ \/ Advance /\ UNCHANGED held
       \/ Rogue /\ Now.judged /\ Fail({})       \* the answer itself is wrong

CallErrs ==
    /\ Rogue
    /\ world' \in Disturbed(DOMAIN Now.effect)
    /\ open' = open \cup Now.opens
    /\ Fail(Now.owned)
    /\ UNCHANGED <<recorded, claim>>

DoCall ==
    /\ At("call")
    /\ CallReturns \/ CallErrs
    /\ UNCHANGED <<setting, unreported, content, verdict, reported>>

\* A call that must be refused.  Behind a gate the facade answers itself and
\* the provider is not asked; a refusal of the provider may own a session.
Refused ==
    /\ IF Rogue /\ ~Now.gate THEN world' \in Disturbed(Now.touches)
                             ELSE UNCHANGED world
    /\ open' \in {open, open \cup Now.carries}
    /\ Advance
    /\ UNCHANGED <<recorded, held>>

NotRefused ==
    /\ Rogue
    /\ world' \in Disturbed(Now.touches)
    /\ \/ /\ open' = open \cup Now.admits
          /\ recorded' = recorded \cup Now.learns
          /\ Fail(Now.accepted)
       \/ /\ open' = open \cup Now.carries
          /\ Fail(Now.owned)
          /\ UNCHANGED recorded

DoRefuse ==
    /\ At("refuse")
    /\ Refused \/ NotRefused
    /\ UNCHANGED <<setting, unreported, claim, content, verdict, reported>>

\* finish_expected_write_failure.  A panic of the abort is caught by the
\* synchronous suite and keeps the session in the failure; the asynchronous
\* guard hands the session to the context.
SettleCloses ==
    /\ open' = open \ {Now.role}
    /\ IF Rogue THEN world' \in Disturbed({Now.role}) ELSE UNCHANGED world
    /\ Advance
    /\ UNCHANGED held

\* Mutant: the failed abort drops the session.
SettleFailsDropped ==
    /\ Rogue
    /\ world' \in Disturbed({Now.role})
    /\ Fail({})
    /\ UNCHANGED open

SettleFails ==
    /\ Rogue
    /\ world' \in Disturbed({Now.role})
    /\ Fail({Now.role})
    /\ UNCHANGED open

DoSettle ==
    /\ At("settle")
    /\ \/ Now.role \notin open /\ Advance /\ UNCHANGED <<world, open, held>>
       \/ Now.role \in open /\ (SettleCloses \/ SettleFails)
    /\ UNCHANGED <<setting, unreported, recorded, claim, content, verdict, reported>>

-----------------------------------------------------------------------------
(* Ends.                                                                   *)

\* Mutant: what the check has noted is not looked up.
FinishForgets ==
    /\ phase = "running" /\ section > Len(Sections)
    /\ verdict' = check.outcome
    /\ RecordCheck(check.outcome)
    /\ phase' = "done"
    /\ UNCHANGED <<setting, unreported, place, world, recorded, open, held, claim, content>>

\* The end of the program: record_check with the outcome, or with what the
\* check has noted before.
Finish ==
    /\ phase = "running" /\ section > Len(Sections)
    /\ Note(check.outcome)
    /\ RecordCheck(verdict')
    /\ phase' = "done"
    /\ UNCHANGED <<setting, unreported, place, world, recorded, open, held, claim, content>>

Awaits == {"prepare", "observe", "furnish", "confirm", "call", "refuse", "settle"}

\* The resources that the interrupted step may have changed.
Touched(s) ==
    CASE s.kind = "prepare" -> DOMAIN s.seed
      [] s.kind = "furnish" -> {s.role} \cup s.children
      [] s.kind = "call" -> DOMAIN s.effect
      [] s.kind = "refuse" -> s.touches
      [] s.kind = "settle" -> {s.role}
      [] OTHER -> {}

\* A provider or a hook that panics, or a caller that drops the future.  What
\* is being settled stays with its guard.
Interrupted(ending) ==
    /\ phase = "running" /\ section <= Len(Sections)
    /\ Now.kind \in Awaits
    /\ \/ UNCHANGED world
       \/ ~(Now.kind = "refuse" /\ Now.gate) /\ world' \in Disturbed(Touched(Now))
    /\ held' = held \cup (IF Now.kind = "settle" /\ Now.role \in open
                          THEN {Now.role} ELSE {})
    /\ phase' = ending
    /\ UNCHANGED <<setting, unreported, place, recorded, open, claim, content, verdict, reported>>

Panic ==
    /\ Rogue \/ Broken
    /\ ~(check.mode = "sync" /\ At("settle"))
    /\ Interrupted("panicked")

Drop == check.mode = "async" /\ Interrupted("dropped")

Next ==
    \/ DoPath \/ DoPrepare \/ DoVet \/ DoRecord \/ DoObserve
    \/ DoFurnish \/ DoConfirm \/ DoCall \/ DoRefuse \/ DoSettle
    \/ Finish \/ Panic \/ Drop

Spec == Init /\ [][Next]_vars

-----------------------------------------------------------------------------
(* What the programs have to do with the ledger.                           *)

Records(s) ==
    CASE s.kind \in {"prepare", "record"} -> s.records
      [] s.kind = "call" -> s.learns
      [] OTHER -> {}

Seeds(s) == IF s.kind = "prepare" THEN {r \in DOMAIN s.seed : s.seed[r] # "absent"} ELSE {}

\* Before step i of section n of check c: the roles recorded by the section,
\* and those seeded for it that are not recorded yet.
Before(c, n, i, Set(_)) == UNION {Set(c.sections[n][j]) : j \in 1 .. i - 1}
Known(c, n, i) == Before(c, n, i, Records)
Owed(c, n, i) == Before(c, n, i, Seeds) \ Known(c, n, i)

\* Resources only the other side of an unanswered or misanswered step knows:
\* the fixture its own seeds, the provider the path it was about to report
\* and what it accepted although the facade should have refused.
Blind(s) ==
    CASE s.kind = "prepare" -> DOMAIN s.seed
      [] s.kind = "call" -> s.learns
      [] s.kind = "refuse" -> IF s.gate THEN s.touches ELSE {}
      [] OTHER -> {}

\* The sessions a step may open and those it closes, and the ones that may be
\* open before step i of section n because that section opened them.
Opens(s) ==
    CASE s.kind = "call" -> s.opens
      [] s.kind = "refuse" -> s.carries
      [] OTHER -> {}

Closes(s) ==
    CASE s.kind = "call" -> s.closes
      [] s.kind = "settle" -> {s.role}
      [] OTHER -> {}

Live(c, n, i) ==
    UNION {Opens(c.sections[n][j]) \ UNION {Closes(c.sections[n][k]) : k \in j .. i - 1} :
             j \in 1 .. i - 1}

IsList(s) == Len(s) \in Nat /\ DOMAIN s = 1 .. Len(s)

\* A step that asks for something only a wrong facade grants.
Gated(s) == s.kind = "refuse" /\ s.gate

\* Where a step fails over an error its failure keeps the open writers and the
\* session it was to close; no other failure finds a writer open.
Retains(s, writers) ==
    CASE s.kind = "call" ->
            /\ writers \cup (s.opens \ Temporaries) \cup s.closes \subseteq s.owned
            /\ s.judged => (writers \cup s.opens) \ s.closes \subseteq Temporaries
      [] s.kind = "refuse" ->
            /\ writers = {}
            /\ s.gate \/ (s.carries \subseteq s.owned /\ s.admits \subseteq s.accepted)
      [] s.kind = "settle" -> writers \subseteq {s.role}
      [] OTHER -> writers = {}

\* A call touches what its section has recorded before it, and what is seeded
\* and not yet recorded is recorded before the next await; failures keep the
\* sessions, and a section that gets to its end has closed them.
Disciplined(c, n) ==
    LET steps == c.sections[n] IN
    /\ IsList(steps) /\ Len(steps) > 0
    /\ \A i \in DOMAIN steps :
          LET s == steps[i] IN
          /\ Touched(s) \subseteq Known(c, n, i) \cup Blind(s) \cup Payloads
          /\ Retains(s, Live(c, n, i) \ Temporaries)
          /\ s.kind = "call" /\ s.claims => s.closes \subseteq DOMAIN s.effect
          /\ s.kind \notin {"vet", "record"} => Owed(c, n, i) = {}
    /\ Owed(c, n, Len(steps) + 1) = {}
    /\ Live(c, n, Len(steps) + 1) = {}

\* The reasons for which a step leaves its section, or goes on without content.
ContentSteps == {"observe", "furnish", "confirm"}
Reasons(s) ==
    (CASE s.kind = "prepare" -> {s.unavailable, s.declined}
       [] s.kind \in ContentSteps ->
            {IF s.unseen \in {"defer", "note", "quit"} THEN "Unverified" ELSE s.unseen}
       [] OTHER -> {}) \ {"Failed"}

\* A check that can only give up as Unverified; any other gives up where it has
\* no session open.
Modest(c) ==
    \A n \in DOMAIN c.sections : \A i \in DOMAIN c.sections[n] :
       Reasons(c.sections[n][i]) \subseteq {"Unverified"}

\* The synchronous temporary resource checks complete their entry at every
\* content the fixture cannot write or read, and again at the end
\* (temp_file_check.rs:485).
CompletesEarly(s) == s.kind \in ContentSteps /\ s.unseen \in {"note", "quit"}
Notes(c) ==
    \E n \in DOMAIN c.sections : \E i \in DOMAIN c.sections[n] :
       CompletesEarly(c.sections[n][i])

GivesUpClosed(c) ==
    \A n \in DOMAIN c.sections : \A i \in DOMAIN c.sections[n] :
       Reasons(c.sections[n][i]) # {} => Live(c, n, i) = {}

ASSUME ProgramsAssumption ==
    \A c \in Checks :
       /\ IsList(c.sections)
       /\ \A n \in DOMAIN c.sections : Disciplined(c, n)
       /\ Modest(c) \/ (GivesUpClosed(c) /\ ~Notes(c))

ASSUME RolesAssumption == "absent" \notin Roles

-----------------------------------------------------------------------------
(* What the programs have to see.                                          *)

\* What the other side may change while the check goes on.
Alters(s) == IF Gated(s) THEN {} ELSE Touched(s)
Claiming(s) == s.kind = "call" /\ s.claims

\* Step i of section n sees what the outcome vouches for in role r.  Content is
\* compared only where the section has furnished it.
Shows(c, n, i, r) ==
    LET s == c.sections[n][i] IN
    \/ s.kind = "observe" /\ r \in DOMAIN s.want /\ s.want[r] = c.promise[r]
    \/ /\ s.kind = "confirm" /\ s.role = r /\ c.promise[r] = "data"
       /\ \E j \in 1 .. i - 1 : c.sections[n][j].kind = "furnish"

Precedes(m, j, n, i) == m < n \/ (m = n /\ j < i)

\* Nothing after it puts in doubt what it has shown.
Conclusive(c, m, j, r) ==
    /\ Shows(c, m, j, r)
    /\ \A n \in DOMAIN c.sections : \A i \in DOMAIN c.sections[n] :
          LET s == c.sections[n][i] IN
          Precedes(m, j, n, i) => r \notin Alters(s) /\ (c.promise[r] = "claimed" => ~Claiming(s))

Vouched == {"Passed", "RejectedAsExpected"}
MayReport(c, outcome) == outcome = "SkippedOptional" => c.id \in OptionalChecks

\* No step gives up with evidence, a core check never with SkippedOptional, and
\* whatever the outcome vouches for has a conclusive step.
ASSUME EvidenceAssumption ==
    \A c \in Checks :
       /\ MayReport(c, c.outcome)
       /\ \A n \in DOMAIN c.sections : \A i \in DOMAIN c.sections[n] :
             \A reason \in Reasons(c.sections[n][i]) :
                reason \notin {"none"} \cup Vouched /\ MayReport(c, reason)
       /\ DOMAIN c.promise \subseteq Roles
       /\ c.outcome \in Vouched => \A r \in DOMAIN c.promise :
             \E m \in DOMAIN c.sections : \E j \in DOMAIN c.sections[m] : Conclusive(c, m, j, r)

\* What a conforming provider and a ready fixture leave behind where `e` was
\* there before: a content, "claimed", or "unknown".
Effect(s) ==
    CASE s.kind = "prepare" -> s.seed
      [] s.kind = "furnish" -> [r \in {s.role} \cup s.children |-> "data"]
      [] s.kind = "call" -> s.effect
      [] OTHER -> Nothing

Left(e, s, r) ==
    IF Claiming(s) THEN (IF r \in s.closes THEN "claimed"
                         ELSE IF e[r] = "claimed" THEN "unknown" ELSE e[r])
    ELSE LET effect == Effect(s) IN
         IF r \notin DOMAIN effect THEN e[r]
         ELSE IF effect[r] \in Roles THEN e[effect[r]] ELSE effect[r]

\* The comparison of a step is the one its outline allows.
Expects(e, s) ==
    CASE s.kind = "observe" ->
            \A r \in DOMAIN s.want :
               \/ e[r] = s.want[r] /\ e[r] # "unknown"
               \/ s.want[r] = "present" /\ e[r] \notin {"unknown", "absent", "claimed"}
      [] s.kind = "confirm" -> e[s.role] = "data"
      [] OTHER -> TRUE

\* What a section hands to the next one.
Handed(c, e, n, r) ==
    LET last == Len(c.sections[n]) IN Left(e[n][last], c.sections[n][last], r)

\* An outline starts from nothing, follows the steps and meets every comparison.
IsOutline(c, e) ==
    \A n \in DOMAIN c.sections : \A i \in DOMAIN c.sections[n] :
       LET s == c.sections[n][i] IN
       /\ \A r \in Roles :
             e[n][i][r] = IF i > 1 THEN Left(e[n][i - 1], c.sections[n][i - 1], r)
                          ELSE IF n > 1 THEN Handed(c, e, n - 1, r) ELSE "absent"
       /\ Expects(e[n][i], s)
       /\ s.kind = "observe" => DOMAIN s.want \subseteq Roles
       /\ s.kind = "confirm" => s.role \in Roles
       /\ \A r \in DOMAIN Effect(s) : Effect(s)[r] \in Contents \cup Roles
       /\ Claiming(s) => \A q, r \in s.closes : q = r

ASSUME OutlineAssumption == \A c \in Checks : IsOutline(c, Outline(c))

-----------------------------------------------------------------------------
(* Properties.                                                             *)

\* The check ended at a step of its program.
Stopped == phase \notin {"running", "done"}

Untold ==
    IF section > Len(Sections) THEN {}
    ELSE Owed(check, section, step) \cup (IF Stopped THEN Blind(Now) ELSE {})

\* Whatever a check leaves behind, however it ends, is in the cleanup ledger,
\* owned by the failure, or the part of a preparation that never became ready:
\* record_created comes before the call that creates.  What the checks write
\* below temporary directories is left out: the code records the directory and
\* not the payload in it (temp_directory_check.rs:556), although the design
\* document wants every resource recorded that setup publishes or stages.
CreatedIsTracked ==
    \A r \in Roles \ Payloads :
       world[r] # "absent" => r \in recorded \cup held \cup unreported \cup Untold

\* A conforming provider with a full fixture is never failed, and the check
\* reports the outcome it exists for.
ConformingPasses ==
    provider = "conforming" /\ fixture = "full" =>
       /\ phase \in {"running", "done", "dropped"}
       /\ phase = "done" => verdict = check.outcome

\* A check that reports evidence has seen what it vouches for: whatever the
\* provider did and answered, the published and the protected contents are the
\* ones the contract asks for.
PassedMeansKept ==
    phase = "done" /\ verdict \in {"Passed", "RejectedAsExpected"} =>
       \A r \in DOMAIN check.promise : Sees(check.promise[r], r)

\* A check reports evidence only for what it has seen, and SkippedOptional only
\* where the catalog calls it optional: for any other check
\* ContractReport::record charges a violation, and a provider that lacks a
\* feature would be failed for it.
OutcomeIsEarned ==
    /\ PassedMeansKept
    /\ phase = "done" => MayReport(check, verdict)

\* The report shows the outcome a check ends with, however often it was
\* completed, and before the end nothing better than Unverified: since the first
\* completion counts, a synchronous check that has noted what it could not
\* observe must not end with another outcome.
EntryIsFinal ==
    IF phase = "done" THEN entry = verdict ELSE entry \in {"NotRun", "Unverified"}

\* No check completes its report entry a second time: contract_report.rs says of
\* record that it "Completes a registered check exactly once" and charges every
\* further completion as a violation.  The synchronous temporary checks do not
\* keep to it.
CompletesOnce == completions <= 1

\* No writer or temporary resource is left open by a check that reports an
\* outcome, unless it gave up as Unverified.  A check that fails leaves no open
\* writer behind but in the failure, unless the facade has opened it against the
\* capabilities; neither does it drop the resource whose commit, abort, keep,
\* persist or cleanup has failed.  The session of a refused write survives
\* whatever stops its abort: in the failure, or through the guard in the context.
SessionsAccounted ==
    /\ phase = "done" /\ verdict # "Unverified" => open = {}
    /\ phase = "failed" =>
          /\ open \subseteq held \cup Temporaries \/ Gated(Now)
          /\ Now.kind = "call" => open \cap Now.closes \subseteq held
    /\ Stopped /\ Now.kind = "settle" /\ Now.role \in open => Now.role \in held

\* A temporary check that fails over the answer of the provider keeps its
\* resources in the failure (doc/user_guide.md, "Temporary-resource failures
\* retain `ContractTempFailure<T>`"): those that are open and the one the call
\* was made on.  Comparisons that fail drop them.
TempRetained ==
    phase = "failed" /\ Now.kind \in {"call", "refuse"} /\ ~Gated(Now) =>
       Temporaries \cap (open \cup (IF Now.kind = "refuse" THEN Now.owned ELSE {}))
          \subseteq held
=============================================================================
