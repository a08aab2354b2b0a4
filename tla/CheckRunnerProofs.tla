--------------------------- MODULE CheckRunnerProofs ---------------------------
(***************************************************************************)
(* Proofs about the execution of a check, for every set of checks whose    *)
(* programs keep the discipline of ProgramsAssumption, EvidenceAssumption  *)
(* and OutlineAssumption, which TLC evaluates for the programs of the two  *)
(* suites.                                                                 *)
(*                                                                         *)
(* The argument: a step either goes on, leaves its section for a reason,   *)
(* or stops the check.  What it creates is a role its section has recorded *)
(* before, one it records itself, or one that only the other side knows    *)
(* of.  A writer is open only between the steps that open and close it,    *)
(* whose failures keep it; a check leaves early with any open session only *)
(* as Unverified.  The report shows what the check has noted first, and    *)
(* then its verdict is the same.  What a conclusive step has shown         *)
(* stays true to the end unless the check gives up, and where everything   *)
(* conforms the world is the one of the outline at every step.             *)
(***************************************************************************)
EXTENDS CheckRunner, TLAPS

Inside == section <= Len(Sections)

\* Where the check is.
PlaceInv ==
    /\ check \in Checks
    /\ section \in 1 .. Len(Sections) + 1
    /\ Inside => step \in DOMAIN Steps
    /\ phase \in {"running"} \cup Endings
    /\ phase = "done" => ~Inside
    /\ Stopped => Inside
    /\ DOMAIN world = Roles
    /\ completions \in Nat

\* What the section has recorded is in the ledger.
LedgerInv ==
    /\ Inside => Known(check, section, step) \subseteq recorded
    /\ CreatedIsTracked

\* A modest check has no other verdict than Unverified before its end, and only
\* such a check is completed earlier.
ReportInv ==
    /\ Modest(check) /\ phase = "running" => verdict \in {"none", "Unverified"}
    /\ phase # "done" =>
          /\ completions = 0 => entry = "NotRun"
          /\ completions > 0 => Notes(check) /\ verdict = "Unverified" /\ entry = "Unverified"
    /\ EntryIsFinal

\* Until the check has given up, the open sessions are those its section has
\* opened and not closed; of the writers that is always so.
SessionInv ==
    /\ phase = "running" =>
          LET live == IF Inside THEN Live(check, section, step) ELSE {} IN
          /\ open \ Temporaries \subseteq live
          /\ verdict # "Unverified" => open \subseteq live
    /\ SessionsAccounted

\* Until the check has given up, what a conclusive step behind it has shown is
\* still there, and content that was furnished is compared.
EvidenceInv ==
    phase = "running" =>
       /\ verdict \notin Vouched /\ MayReport(check, verdict)
       /\ verdict = "none" =>
             /\ Inside /\ (\E j \in 1 .. step - 1 : Steps[j].kind = "furnish") => content
             /\ \A r \in DOMAIN check.promise :
                   \A m \in DOMAIN Sections : \A j \in DOMAIN Sections[m] :
                      Precedes(m, j, section, step) /\ Conclusive(check, m, j, r)
                         => Sees(check.promise[r], r)

\* Where everything conforms the check follows its outline.
Conforming == provider = "conforming" /\ fixture = "full"
Agrees(v, r) == v = "unknown" \/ Sees(v, r)
Here == Outline(check)[section][step]

OutlineInv ==
    Conforming =>
       /\ phase \in {"running", "done", "dropped"}
       /\ phase = "done" => verdict = check.outcome
       /\ phase = "running" =>
             verdict = "none" /\ (Inside => \A r \in Roles : Agrees(Here[r], r))

IInv == PlaceInv /\ LedgerInv /\ ReportInv /\ SessionInv

-----------------------------------------------------------------------------
(* The kinds of step.                                                      *)

\* Only the roles in S may have come into existence.
Grows(S) == \A r \in Roles : world'[r] # "absent" => world[r] # "absent" \/ r \in S

\* No step forgets.
Keeps ==
    /\ phase = "running" /\ Inside
    /\ check' = check
    /\ recorded \subseteq recorded' /\ held \subseteq held' /\ unreported \subseteq unreported'
    /\ DOMAIN world' = Roles

GoesOn ==
    /\ Advance
    /\ Records(Now) \subseteq recorded'
    /\ Grows((Touched(Now) \ Blind(Now)) \cup Seeds(Now) \cup recorded')
    /\ open' \subseteq (open \cup Opens(Now)) \ Closes(Now)

Leaves ==
    /\ section' = section + 1 /\ step' = 1 /\ phase' = phase
    /\ Now.kind \notin {"vet", "record"}
    /\ Grows((Touched(Now) \ Blind(Now)) \cup unreported')

Stops ==
    /\ phase' \in Endings \ {"done"} /\ UNCHANGED place
    /\ Grows(Touched(Now))
    /\ Now.kind = "settle" /\ Now.role \in open' => Now.role \in held'

Silent == UNCHANGED <<verdict, reported>>

GivesUp ==
    /\ UNCHANGED open
    /\ \E reason \in Reasons(Now) : Note(reason)
    /\ \/ UNCHANGED reported
       \/ /\ CompletesEarly(Now) /\ Reasons(Now) = {"Unverified"}
          /\ RecordCheck("Unverified")

RunStep ==
    /\ Keeps
    /\ \/ GoesOn /\ (Silent \/ GivesUp)
       \/ Leaves /\ GivesUp
       \/ Stops /\ Silent

\* What a disturbed world has in common with the one before.
LEMMA DisturbedFacts ==
    ASSUME NEW S, world' \in Disturbed(S)
    PROVE  DOMAIN world' = Roles /\ Grows(S)
BY DEF Disturbed, Grows

\* What a changed world has in common with the one before.
LEMMA AppliedFacts ==
    ASSUME NEW e, world' = Applied(e)
    PROVE  DOMAIN world' = Roles /\ Grows(DOMAIN e)
BY DEF Applied, Grows

\* An unchanged world gains no resource.
LEMMA SameWorld ==
    ASSUME PlaceInv, UNCHANGED world
    PROVE  DOMAIN world' = Roles /\ \A S : Grows(S)
BY DEF PlaceInv, Grows

\* A bound on the new resources may be widened.
LEMMA GrowsMore ==
    ASSUME NEW S, NEW T, Grows(S), S \subseteq T
    PROVE  Grows(T)
BY DEF Grows

-----------------------------------------------------------------------------
(* Every action is such a step.                                            *)

\* fixture.path(..)?: goes on or gives up.
LEMMA PathKind == ASSUME PlaceInv, DoPath PROVE RunStep
<1>1. /\ phase = "running" /\ Inside /\ Now.kind = "path"
      /\ UNCHANGED <<check, unreported, world, recorded, open, verdict, reported>>
  BY DEF DoPath, At, Inside, setting
<1>2. Records(Now) = {} /\ Closes(Now) = {} /\ Opens(Now) = {}
  BY <1>1 DEF Records, Closes, Opens
<1>3. \A S : Grows(S)
  BY <1>1, SameWorld
<1>4. CASE Advance /\ UNCHANGED held
  BY <1>1, <1>2, <1>3, <1>4, SameWorld DEF RunStep, Keeps, GoesOn, Silent
<1>5. CASE Fail({})
  BY <1>1, <1>2, <1>3, <1>5, SameWorld DEF RunStep, Keeps, Stops, Silent, Fail, Endings
<1> QED
  BY <1>4, <1>5 DEF DoPath

\* What the discipline says of the step that executes.
LEMMA NowFacts ==
    ASSUME PlaceInv, Inside
    PROVE  /\ section \in DOMAIN Sections /\ step \in DOMAIN Steps
           /\ Len(Sections) \in Nat /\ Len(Steps) \in Nat /\ DOMAIN Steps = 1 .. Len(Steps)
           /\ Touched(Now) \subseteq Known(check, section, step) \cup Blind(Now) \cup Payloads
           /\ Retains(Now, Live(check, section, step) \ Temporaries)
           /\ Now.kind = "call" /\ Now.claims => Now.closes \subseteq DOMAIN Now.effect
           /\ Now.kind \notin {"vet", "record"} => Owed(check, section, step) = {}
           /\ Owed(check, section, Len(Steps) + 1) = {}
           /\ Live(check, section, Len(Steps) + 1) = {}
<1>1. IsList(Sections) /\ \A n \in DOMAIN Sections : Disciplined(check, n)
  BY ProgramsAssumption DEF PlaceInv, Sections
<1>2. section \in DOMAIN Sections /\ Len(Sections) \in Nat /\ step \in DOMAIN Steps
  BY <1>1 DEF PlaceInv, Inside, IsList
<1>3. Disciplined(check, section) /\ Steps = check.sections[section] /\ Now = Steps[step]
  BY <1>1, <1>2 DEF Steps, Sections, Now
<1> QED
  BY <1>2, <1>3 DEF Disciplined, IsList

\* A vetted request: goes on or fails the check.
LEMMA VetKind == ASSUME PlaceInv, DoVet PROVE RunStep
<1>1. /\ phase = "running" /\ Inside /\ Now.kind = "vet"
      /\ UNCHANGED <<check, unreported, world, recorded, open, verdict, reported>>
  BY DEF DoVet, At, Inside, setting
<1>2. Records(Now) = {} /\ Closes(Now) = {} /\ Opens(Now) = {}
  BY <1>1 DEF Records, Closes, Opens
<1>3. \A S : Grows(S)
  BY <1>1, SameWorld
<1>4. CASE Advance /\ UNCHANGED held
  BY <1>1, <1>2, <1>3, <1>4, SameWorld DEF RunStep, Keeps, GoesOn, Silent
<1>5. CASE Fail({})
  BY <1>1, <1>2, <1>3, <1>5, SameWorld DEF RunStep, Keeps, Stops, Silent, Fail, Endings
<1> QED
  BY <1>4, <1>5 DEF DoVet

\* context.record_created(..): goes on with the roles recorded.
LEMMA RecordKind == ASSUME PlaceInv, DoRecord PROVE RunStep
<1>1. /\ phase = "running" /\ Inside /\ Now.kind = "record" /\ Advance
      /\ UNCHANGED <<check, unreported, world, open, held, verdict, reported>>
      /\ recorded' = recorded \cup Now.records
  BY DEF DoRecord, At, Inside, setting
<1>2. Records(Now) = Now.records /\ Closes(Now) = {} /\ Opens(Now) = {}
  BY <1>1 DEF Records, Closes, Opens
<1> QED
  BY <1>1, <1>2, SameWorld DEF RunStep, Keeps, GoesOn, Silent

\* Leaving for a reason, or failing where the reason is a failure.
LEMMA LeaveOrFailFacts ==
    ASSUME NEW reason, LeaveOrFail(reason), phase = "running"
    PROVE  \/ /\ reason = "Failed" /\ phase' = "failed" /\ UNCHANGED <<place, held, verdict>>
           \/ /\ reason # "Failed" /\ section' = section + 1 /\ step' = 1 /\ phase' = phase
              /\ Note(reason) /\ held' = held
<1>1. CASE reason = "Failed" /\ Fail({}) /\ UNCHANGED verdict
  BY <1>1 DEF Fail
<1>2. CASE reason # "Failed" /\ Leave(reason) /\ UNCHANGED held
  BY <1>2 DEF Leave
<1> QED
  BY <1>1, <1>2 DEF LeaveOrFail

\* A prepare hook: ready, unavailable, declined or failing.
LEMMA PrepareKind == ASSUME PlaceInv, DoPrepare PROVE RunStep
<1>1. /\ phase = "running" /\ Inside /\ Now.kind = "prepare"
      /\ UNCHANGED <<check, open, reported>>
  BY DEF DoPrepare, At, Inside, setting
<1>2. /\ Records(Now) = Now.records /\ Closes(Now) = {} /\ Opens(Now) = {}
      /\ Touched(Now) = DOMAIN Now.seed /\ Blind(Now) = DOMAIN Now.seed
      /\ Seeds(Now) = {r \in DOMAIN Now.seed : Now.seed[r] # "absent"}
      /\ Reasons(Now) = {Now.unavailable, Now.declined} \ {"Failed"}
  BY <1>1 DEF Records, Closes, Opens, Touched, Blind, Seeds, Reasons, ContentSteps
<1>3. CASE PrepareReady /\ UNCHANGED unreported
  <2>1. /\ world' = Applied(Now.seed) /\ recorded' = recorded \cup Now.records
        /\ Advance /\ UNCHANGED <<held, verdict, unreported>>
    BY <1>3 DEF PrepareReady
  <2>2. Grows(Seeds(Now))
    BY <1>2, <2>1, RolesAssumption DEF Applied, Intended, Grows
  <2>3. Grows((Touched(Now) \ Blind(Now)) \cup Seeds(Now) \cup recorded')
    BY <2>2 DEF Grows
  <2>4. DOMAIN world' = Roles
    BY <2>1, AppliedFacts
  <2> QED
    BY <1>1, <1>2, <2>1, <2>3, <2>4 DEF RunStep, Keeps, GoesOn, Silent
<1>4. ASSUME NotReady
      PROVE  /\ UNCHANGED recorded /\ unreported \subseteq unreported'
             /\ DOMAIN world' = Roles /\ Grows(Touched(Now))
             /\ Grows((Touched(Now) \ Blind(Now)) \cup unreported')
  <2>1. /\ world' \in Disturbed(DOMAIN Now.seed) /\ UNCHANGED recorded
        /\ unreported' = unreported \cup DOMAIN Now.seed
    BY <1>4 DEF NotReady
  <2>2. DOMAIN world' = Roles /\ Grows(DOMAIN Now.seed)
    BY <2>1, DisturbedFacts
  <2> QED
    BY <1>2, <2>1, <2>2 DEF Grows
<1>5. CASE NotReady /\ \E reason \in {Now.unavailable, Now.declined} : LeaveOrFail(reason)
  <2>1. PICK reason \in {Now.unavailable, Now.declined} : LeaveOrFail(reason)
    BY <1>5
  <2>2. CASE reason = "Failed" /\ phase' = "failed" /\ UNCHANGED <<place, held, verdict>>
    BY <1>1, <1>2, <1>4, <1>5, <2>2 DEF RunStep, Keeps, Stops, Silent, Endings
  <2>3. CASE /\ reason # "Failed" /\ section' = section + 1 /\ step' = 1 /\ phase' = phase
             /\ Note(reason) /\ held' = held
    <3>1. reason \in Reasons(Now)
      BY <1>2, <2>3
    <3>2. GivesUp
      BY <1>1, <2>3, <3>1 DEF GivesUp
    <3> QED
      BY <1>1, <1>4, <1>5, <2>3, <3>2 DEF RunStep, Keeps, Leaves
  <2> QED
    BY <1>1, <2>1, <2>2, <2>3, LeaveOrFailFacts
<1>6. CASE NotReady /\ Fail({}) /\ UNCHANGED verdict
  BY <1>1, <1>2, <1>4, <1>6 DEF RunStep, Keeps, Stops, Silent, Fail, Endings
<1> QED
  BY <1>3, <1>5, <1>6 DEF DoPrepare

\* A hook that is unsupported: the check gives up, or fails.
LEMMA UnsupportedFacts ==
    ASSUME PlaceInv, phase = "running", Now.kind \in ContentSteps, Unsupported(Now.unseen),
           UNCHANGED open
    PROVE  \/ Advance /\ GivesUp /\ held' = held
           \/ /\ section' = section + 1 /\ step' = 1 /\ phase' = phase
              /\ GivesUp /\ held' = held
           \/ phase' = "failed" /\ UNCHANGED <<place, held>> /\ Silent
<1> DEFINE u == Now.unseen
<1>1. Reasons(Now) = {IF u \in {"defer", "note", "quit"} THEN "Unverified" ELSE u} \ {"Failed"}
  BY DEF Reasons, ContentSteps
<1>3. CompletesEarly(Now) <=> u \in {"note", "quit"}
  BY DEF CompletesEarly
<1>4. \/ u \in {"note", "quit"} /\ RecordCheck("Unverified")
      \/ u \notin {"note", "quit"} /\ UNCHANGED reported
  BY DEF Unsupported
<1>5. CASE u \in {"defer", "note", "quit"}
  <2>1. Reasons(Now) = {"Unverified"}
    BY <1>1, <1>5
  <2>2. Note("Unverified") /\ held' = held
    BY <1>5 DEF Unsupported, Leave
  <2>3. GivesUp
    BY <1>3, <1>4, <2>1, <2>2 DEF GivesUp
  <2>4. Advance \/ (section' = section + 1 /\ step' = 1 /\ phase' = phase)
    BY <1>5 DEF Unsupported, Leave
  <2> QED
    BY <2>2, <2>3, <2>4
<1>6. CASE u \notin {"defer", "note", "quit"}
  <2>1. LeaveOrFail(u) /\ UNCHANGED reported
    BY <1>4, <1>6 DEF Unsupported
  <2> HIDE DEF u
  <2>2. CASE u = "Failed" /\ phase' = "failed" /\ UNCHANGED <<place, held, verdict>>
    BY <2>1, <2>2 DEF Silent
  <2>3. CASE /\ u # "Failed" /\ section' = section + 1 /\ step' = 1 /\ phase' = phase
             /\ Note(u) /\ held' = held
    <3>1. u \in Reasons(Now)
      BY <1>1, <1>6, <2>3
    <3> QED
      BY <2>1, <2>3, <3>1 DEF GivesUp
  <2> QED
    BY <2>1, <2>2, <2>3, LeaveOrFailFacts
<1> QED
  BY <1>5, <1>6

\* The steps about content record nothing and open nothing.
LEMMA ContentFacts ==
    ASSUME Now.kind \in ContentSteps
    PROVE  /\ Records(Now) = {} /\ Closes(Now) = {} /\ Opens(Now) = {} /\ Blind(Now) = {}
           /\ Now.kind \notin {"vet", "record", "settle"}
<1>1. Now.kind \notin {"vet", "record", "settle", "call", "refuse", "prepare"}
  BY DEF ContentSteps
<1> QED
  BY <1>1 DEF Records, Closes, Opens, Blind

\* So each of them is a step, if it keeps to the roles it touches.
LEMMA ContentStep ==
    ASSUME PlaceInv, phase = "running", Inside, Now.kind \in ContentSteps,
           UNCHANGED <<check, unreported, recorded, open>>,
           DOMAIN world' = Roles, Grows(Touched(Now)),
           \/ Advance /\ held' = held /\ Silent
           \/ Fail({}) /\ Silent
           \/ Unsupported(Now.unseen)
    PROVE  RunStep
<1>1. /\ Records(Now) = {} /\ Closes(Now) = {} /\ Opens(Now) = {} /\ Blind(Now) = {}
      /\ Now.kind \notin {"vet", "record", "settle"}
  BY ContentFacts
<1>2. /\ Grows((Touched(Now) \ Blind(Now)) \cup Seeds(Now) \cup recorded')
      /\ Grows((Touched(Now) \ Blind(Now)) \cup unreported')
  BY <1>1 DEF Grows
<1>3. CASE Advance /\ held' = held /\ (Silent \/ GivesUp)
  BY <1>1, <1>2, <1>3 DEF RunStep, Keeps, GoesOn
<1>4. CASE phase' = "failed" /\ UNCHANGED place /\ held \subseteq held' /\ Silent
  BY <1>1, <1>4 DEF RunStep, Keeps, Stops, Endings
<1>5. CASE section' = section + 1 /\ step' = 1 /\ phase' = phase /\ GivesUp /\ held' = held
  BY <1>1, <1>2, <1>5 DEF RunStep, Keeps, Leaves
<1>6. Fail({}) => phase' = "failed" /\ UNCHANGED place /\ held \subseteq held'
  BY DEF Fail
<1> QED
  BY <1>3, <1>4, <1>5, <1>6, UnsupportedFacts

\* An out-of-band observation that matches, differs or cannot be made.
LEMMA ObserveKind == ASSUME PlaceInv, DoObserve PROVE RunStep
<1>1. /\ phase = "running" /\ Inside /\ Now.kind \in ContentSteps
      /\ UNCHANGED <<check, unreported, world, recorded, open>>
  BY DEF DoObserve, At, Inside, setting, ContentSteps
<1>2. \/ Advance /\ held' = held /\ Silent
      \/ Fail({}) /\ Silent
      \/ Unsupported(Now.unseen)
  BY DEF DoObserve, Silent
<1> QED
  BY <1>1, <1>2, SameWorld, ContentStep

\* The content of a temporary resource, confirmed.
LEMMA ConfirmKind == ASSUME PlaceInv, DoConfirm PROVE RunStep
<1>1. /\ phase = "running" /\ Inside /\ Now.kind \in ContentSteps
      /\ UNCHANGED <<check, unreported, world, recorded, open>>
  BY DEF DoConfirm, At, Inside, setting, ContentSteps
<1>2. \/ Advance /\ held' = held /\ Silent
      \/ Fail({}) /\ Silent
      \/ Unsupported(Now.unseen)
  BY DEF DoConfirm, Silent
<1> QED
  BY <1>1, <1>2, SameWorld, ContentStep

\* Content written to a temporary resource.
LEMMA FurnishKind == ASSUME PlaceInv, DoFurnish PROVE RunStep
<1>1. /\ phase = "running" /\ Inside /\ Now.kind = "furnish" /\ Now.kind \in ContentSteps
      /\ UNCHANGED <<check, unreported, recorded, open>>
  BY DEF DoFurnish, At, Inside, setting, ContentSteps
<1>2. \/ Advance /\ held' = held /\ Silent
      \/ Fail({}) /\ Silent
      \/ Unsupported(Now.unseen)
  BY DEF DoFurnish, Silent
<1>3. Touched(Now) = DOMAIN Furnished
  BY <1>1 DEF Touched, Furnished
<1>4. world' \in {world, Applied(Furnished)} \cup Disturbed(DOMAIN Furnished)
  BY DEF DoFurnish
<1>5. DOMAIN world' = Roles /\ Grows(Touched(Now))
  BY <1>3, <1>4, SameWorld, AppliedFacts, DisturbedFacts
<1> QED
  BY <1>1, <1>2, <1>5, ContentStep

\* A provider call that must succeed: it does, or fails and may own sessions.
LEMMA CallKind == ASSUME PlaceInv, DoCall PROVE RunStep
<1>1. /\ phase = "running" /\ Inside /\ Now.kind = "call"
      /\ UNCHANGED <<check, unreported>> /\ Silent
  BY DEF DoCall, At, Inside, setting, Silent
<1>2. /\ Records(Now) = Now.learns /\ Closes(Now) = Now.closes /\ Opens(Now) = Now.opens
      /\ Touched(Now) = DOMAIN Now.effect /\ Blind(Now) = Now.learns
  BY <1>1 DEF Records, Closes, Opens, Touched, Blind, ContentSteps
<1>3. CASE CallReturns
  <2>1. /\ open' = (open \cup Now.opens) \ Now.closes /\ recorded' = recorded \cup Now.learns
        /\ (Advance /\ held' = held) \/ Fail({})
    BY <1>3 DEF CallReturns
  <2>2. DOMAIN world' = Roles /\ Grows(DOMAIN Now.effect)
    <3>1. CASE world' = Applied(Now.effect)
      BY <3>1, AppliedFacts
    <3>2. CASE Now.claims /\ Aborted
      <4>1. PICK r \in Now.closes, left \in {"absent", "new"} :
               world' = [world EXCEPT ![r] = left]
        BY <3>2 DEF Aborted
      <4>2. r \in DOMAIN Now.effect
        BY <1>1, <3>2, NowFacts
      <4> QED
        BY <4>1, <4>2 DEF PlaceInv, Grows
    <3>3. CASE world' \in Disturbed(DOMAIN Now.effect)
      BY <3>3, DisturbedFacts
    <3> QED
      BY <1>3, <3>1, <3>2, <3>3 DEF CallReturns
  <2>3. Grows((Touched(Now) \ Blind(Now)) \cup Seeds(Now) \cup recorded')
    BY <1>2, <2>1, <2>2 DEF Grows
  <2>4. CASE Advance /\ held' = held
    BY <1>1, <1>2, <2>1, <2>2, <2>3, <2>4 DEF RunStep, Keeps, GoesOn
  <2>5. CASE Fail({})
    BY <1>1, <1>2, <2>1, <2>2, <2>5 DEF RunStep, Keeps, Stops, Fail, Endings
  <2> QED
    BY <2>1, <2>4, <2>5
<1>4. CASE CallErrs
  <2>1. /\ world' \in Disturbed(DOMAIN Now.effect) /\ open' = open \cup Now.opens
        /\ Fail(Now.owned) /\ recorded' = recorded
    BY <1>4 DEF CallErrs
  <2>2. DOMAIN world' = Roles /\ Grows(Touched(Now))
    BY <1>2, <2>1, DisturbedFacts
  <2> QED
    BY <1>1, <1>2, <2>1, <2>2 DEF RunStep, Keeps, Stops, Fail, Endings
<1> QED
  BY <1>3, <1>4 DEF DoCall

\* A provider call that must be refused: it is, or succeeds all the same.
LEMMA RefuseKind == ASSUME PlaceInv, DoRefuse PROVE RunStep
<1>1. /\ phase = "running" /\ Inside /\ Now.kind = "refuse"
      /\ UNCHANGED <<check, unreported>> /\ Silent
  BY DEF DoRefuse, At, Inside, setting, Silent
<1>2. /\ Records(Now) = {} /\ Closes(Now) = {} /\ Opens(Now) = Now.carries
      /\ Touched(Now) = Now.touches /\ Blind(Now) = IF Now.gate THEN Now.touches ELSE {}
  BY <1>1 DEF Records, Closes, Opens, Touched, Blind, ContentSteps
<1>3. CASE Refused
  <2>1. /\ open' \in {open, open \cup Now.carries} /\ Advance
        /\ UNCHANGED <<recorded, held>>
    BY <1>3 DEF Refused
  <2>2. CASE world' \in Disturbed(Now.touches) /\ ~Now.gate
    <3>1. DOMAIN world' = Roles /\ Grows(Now.touches)
      BY <2>2, DisturbedFacts
    <3>2. Grows((Touched(Now) \ Blind(Now)) \cup Seeds(Now) \cup recorded')
      BY <1>2, <2>2, <3>1 DEF Grows
    <3> QED
      BY <1>1, <1>2, <2>1, <3>1, <3>2 DEF RunStep, Keeps, GoesOn
  <2>3. CASE UNCHANGED world
    BY <1>1, <1>2, <2>1, <2>3, SameWorld DEF RunStep, Keeps, GoesOn
  <2> QED
    BY <1>3, <2>2, <2>3 DEF Refused
<1>4. CASE NotRefused
  <2>1. DOMAIN world' = Roles /\ Grows(Touched(Now))
    BY <1>2, <1>4, DisturbedFacts DEF NotRefused
  <2>2. CASE /\ recorded' = recorded \cup Now.learns
             /\ Fail(Now.accepted)
    BY <1>1, <1>2, <2>1, <2>2 DEF RunStep, Keeps, Stops, Fail, Endings
  <2>3. CASE Fail(Now.owned) /\ UNCHANGED recorded
    BY <1>1, <1>2, <2>1, <2>3 DEF RunStep, Keeps, Stops, Fail, Endings
  <2> QED
    BY <1>4, <2>2, <2>3 DEF NotRefused
<1> QED
  BY <1>3, <1>4 DEF DoRefuse

\* The session a refusal may own, closed by the check.
LEMMA SettleKind == ASSUME PlaceInv, DoSettle PROVE RunStep
<1>1. /\ phase = "running" /\ Inside /\ Now.kind = "settle"
      /\ UNCHANGED <<check, unreported, recorded>> /\ Silent
  BY DEF DoSettle, At, Inside, setting, Silent
<1>2. /\ Records(Now) = {} /\ Closes(Now) = {Now.role} /\ Opens(Now) = {}
      /\ Touched(Now) = {Now.role} /\ Blind(Now) = {}
  BY <1>1 DEF Records, Closes, Opens, Touched, Blind, ContentSteps
<1>3. CASE Now.role \notin open /\ Advance /\ UNCHANGED <<world, open, held>>
  BY <1>1, <1>2, <1>3, SameWorld DEF RunStep, Keeps, GoesOn
<1>4. CASE SettleCloses
  <2>1. open' = open \ {Now.role} /\ Advance /\ UNCHANGED held
    BY <1>4 DEF SettleCloses
  <2>2. DOMAIN world' = Roles /\ Grows(Touched(Now))
    BY <1>2, <1>4, SameWorld, DisturbedFacts DEF SettleCloses
  <2>3. Grows((Touched(Now) \ Blind(Now)) \cup Seeds(Now) \cup recorded')
    BY <1>2, <2>2 DEF Grows
  <2> QED
    BY <1>1, <1>2, <2>1, <2>2, <2>3 DEF RunStep, Keeps, GoesOn
<1>5. CASE SettleFails
  <2>1. /\ world' \in Disturbed({Now.role}) /\ Fail({Now.role}) /\ UNCHANGED open
    BY <1>5 DEF SettleFails
  <2>2. DOMAIN world' = Roles /\ Grows(Touched(Now))
    BY <1>2, <2>1, DisturbedFacts
  <2> QED
    BY <1>1, <1>2, <2>1, <2>2 DEF RunStep, Keeps, Stops, Fail, Endings
<1> QED
  BY <1>3, <1>4, <1>5 DEF DoSettle

\* A panic of the check, or its future dropped, between two steps.
LEMMA InterruptedKind ==
    ASSUME PlaceInv, NEW ending \in {"panicked", "dropped"}, Interrupted(ending)
    PROVE  RunStep
<1>1. /\ phase = "running" /\ Inside /\ phase' = ending
      /\ UNCHANGED <<check, unreported, recorded, open>> /\ UNCHANGED place /\ Silent
      /\ held \subseteq held'
      /\ Now.kind = "settle" /\ Now.role \in open => Now.role \in held'
  BY DEF Interrupted, Inside, setting, Silent
<1>2. DOMAIN world' = Roles /\ Grows(Touched(Now))
  BY SameWorld, DisturbedFacts DEF Interrupted
<1> QED
  BY <1>1, <1>2 DEF RunStep, Keeps, Stops, Endings

\* Every action but the end of the program is such a step.
LEMMA KindsOfStep ==
    ASSUME PlaceInv, Next
    PROVE  RunStep \/ Finish
BY PathKind, PrepareKind, VetKind, RecordKind, ObserveKind, FurnishKind, ConfirmKind,
   CallKind, RefuseKind, SettleKind, InterruptedKind
DEF Next, Panic, Drop

-----------------------------------------------------------------------------
(* The steps preserve the invariant.                                       *)

\* Where the check goes.
LEMMA PlaceStep ==
    ASSUME PlaceInv, RunStep
    PROVE  PlaceInv'
<1>1. /\ phase = "running" /\ Inside /\ check' = check /\ DOMAIN world' = Roles
      /\ Sections' = Sections
  BY DEF RunStep, Keeps, Sections
<1>2. /\ section \in 1 .. Len(Sections) /\ step \in 1 .. Len(Steps)
      /\ Len(Sections) \in Nat /\ Len(Steps) \in Nat
  BY <1>1, NowFacts DEF PlaceInv, Inside
<1>3. completions' \in Nat
  BY DEF RunStep, PlaceInv, Silent, GivesUp, RecordCheck, reported
<1>4. ASSUME section' = section + 1, step' = 1, phase' = phase
      PROVE  PlaceInv'
  <2>1. section' \in 1 .. Len(Sections') + 1
    BY <1>1, <1>2, <1>4
  <2>2. Inside' => step' \in DOMAIN Steps'
    <3> SUFFICES ASSUME Inside' PROVE 1 \in DOMAIN Steps'
      BY <1>4
    <3>1. section' \in DOMAIN Sections
      BY <1>1, <1>2, <2>1, ProgramsAssumption DEF Inside, PlaceInv, IsList, Sections
    <3>2. Disciplined(check, section')
      BY <3>1, ProgramsAssumption DEF PlaceInv, Sections
    <3>3. Steps' = check.sections[section']
      BY <1>1 DEF Steps, Sections
    <3> QED
      BY <3>2, <3>3 DEF Disciplined, IsList
  <2> QED
    BY <1>1, <1>3, <1>4, <2>1, <2>2 DEF PlaceInv, Stopped
<1>5. CASE GoesOn
  <2>1. CASE step < Len(Steps)
    <3>1. step' = step + 1 /\ section' = section /\ phase' = phase
      BY <1>5, <2>1 DEF GoesOn, Advance
    <3>2. Steps' = Steps
      BY <1>1, <3>1 DEF Steps, Sections
    <3>3. step' \in DOMAIN Steps'
      BY <1>1, <1>2, <2>1, <3>1, <3>2, NowFacts
    <3> QED
      BY <1>1, <1>2, <1>3, <3>1, <3>3 DEF PlaceInv, Stopped, Inside
  <2>2. CASE ~(step < Len(Steps))
    BY <1>4, <1>5, <2>2 DEF GoesOn, Advance
  <2> QED
    BY <2>1, <2>2
<1>6. CASE Leaves
  BY <1>4, <1>6 DEF Leaves
<1>7. CASE Stops
  <2>1. section' = section /\ step' = step /\ phase' \in Endings \ {"done"}
    BY <1>7 DEF Stops, place
  <2>2. Steps' = Steps /\ Inside'
    BY <1>1, <2>1 DEF Steps, Sections, Inside
  <2> QED
    BY <1>1, <1>2, <1>3, <2>1, <2>2, NowFacts DEF PlaceInv, Endings
<1> QED
  BY <1>5, <1>6, <1>7 DEF RunStep

\* What one more step adds to the roles its section knows and owes.
LEMMA BeforeFacts ==
    ASSUME NEW c, NEW n, NEW i \in Nat \ {0}
    PROVE  /\ Known(c, n, 1) = {}
           /\ Known(c, n, i + 1) = Known(c, n, i) \cup Records(c.sections[n][i])
           /\ Owed(c, n, i + 1) =
                 (Owed(c, n, i) \cup Seeds(c.sections[n][i])) \ Known(c, n, i + 1)
<1>1. 1 .. (i + 1) - 1 = (1 .. i - 1) \cup {i} /\ 1 .. 1 - 1 = {}
  OBVIOUS
<1>2. Known(c, n, 1) = {}
  BY <1>1 DEF Known, Before
<1>3. Known(c, n, i + 1) = Known(c, n, i) \cup Records(c.sections[n][i])
  <2>1. \A r : r \in Known(c, n, i + 1) <=>
                  \E j \in 1 .. (i + 1) - 1 : r \in Records(c.sections[n][j])
    BY DEF Known, Before
  <2>2. \A r : r \in Known(c, n, i) <=> \E j \in 1 .. i - 1 : r \in Records(c.sections[n][j])
    BY DEF Known, Before
  <2> QED
    BY <1>1, <2>1, <2>2
<1>4. \A k : \A r : r \in Owed(c, n, k) <=>
                  /\ \E j \in 1 .. k - 1 : r \in Seeds(c.sections[n][j])
                  /\ r \notin Known(c, n, k)
  BY DEF Owed, Before
<1>5. Owed(c, n, i + 1) = (Owed(c, n, i) \cup Seeds(c.sections[n][i])) \ Known(c, n, i + 1)
  <2>1. \A r : r \in Owed(c, n, i + 1) <=>
                  /\ (\E j \in 1 .. i - 1 : r \in Seeds(c.sections[n][j]))
                        \/ r \in Seeds(c.sections[n][i])
                  /\ r \notin Known(c, n, i + 1)
    BY <1>1, <1>4
  <2>2. \A r : r \in Owed(c, n, i) <=>
                  /\ \E j \in 1 .. i - 1 : r \in Seeds(c.sections[n][j])
                  /\ r \notin Known(c, n, i)
    BY <1>4
  <2>3. \A r : r \notin Known(c, n, i + 1) => r \notin Known(c, n, i)
    BY <1>3
  <2> QED
    BY <2>1, <2>2, <2>3
<1> QED
  BY <1>2, <1>3, <1>5

\* The ledger knows what exists.
LEMMA LedgerStep ==
    ASSUME PlaceInv, LedgerInv, RunStep
    PROVE  LedgerInv'
<1> DEFINE K == Known(check, section, step)
           O == Owed(check, section, step)
           K1 == Known(check, section, step + 1)
           O1 == Owed(check, section, step + 1)
<1>1. /\ phase = "running" /\ Inside /\ check' = check /\ Sections' = Sections
      /\ recorded \subseteq recorded' /\ held \subseteq held' /\ unreported \subseteq unreported'
  BY DEF RunStep, Keeps, Sections
<1>2. /\ step \in 1 .. Len(Steps) /\ Len(Steps) \in Nat /\ Len(Sections) \in Nat
      /\ section \in 1 .. Len(Sections)
      /\ Touched(Now) \subseteq K \cup Blind(Now) \cup Payloads
      /\ Now.kind \notin {"vet", "record"} => O = {}
      /\ step = Len(Steps) => O1 = {}
  BY <1>1, NowFacts DEF Inside, PlaceInv
<1>3. K \subseteq recorded
  BY <1>1 DEF LedgerInv
<1>4. \A r \in Roles \ Payloads :
         world[r] # "absent" => r \in recorded \cup held \cup unreported \cup O
  <2>1. Untold = O
    BY <1>1, <1>2 DEF Untold, Stopped, Inside
  <2> QED
    BY <2>1 DEF LedgerInv, CreatedIsTracked
<1>5. /\ K1 = K \cup Records(Now) /\ O1 = (O \cup Seeds(Now)) \ K1
      /\ Known(check, section + 1, 1) = {}
  <2>1. Now = check.sections[section][step] /\ step \in Nat \ {0}
    BY <1>2 DEF Now, Steps, Sections
  <2> QED
    BY <2>1, BeforeFacts
<1> HIDE DEF K, O, K1, O1
<1>6. ASSUME section' = section + 1, step' = 1,
             \A r \in Roles \ Payloads :
                world'[r] # "absent" => r \in recorded' \cup held' \cup unreported'
      PROVE  LedgerInv'
  <2>1. Known(check', section', step') = {}
    BY <1>1, <1>5, <1>6
  <2>2. CreatedIsTracked'
    BY <1>6 DEF CreatedIsTracked
  <2> QED
    BY <2>1, <2>2 DEF LedgerInv
<1>7. CASE GoesOn
  <2>1. /\ Records(Now) \subseteq recorded'
        /\ Grows((Touched(Now) \ Blind(Now)) \cup Seeds(Now) \cup recorded')
    BY <1>7 DEF GoesOn
  <2>2. K1 \subseteq recorded'
    BY <1>1, <1>3, <1>5, <2>1
  <2>3. \A r \in Roles \ Payloads :
           world'[r] # "absent" => r \in recorded' \cup held' \cup unreported' \cup O1
    <3> SUFFICES ASSUME NEW r \in Roles \ Payloads, world'[r] # "absent"
                 PROVE  r \in recorded' \cup held' \cup unreported' \cup O1
      OBVIOUS
    <3>1. CASE world[r] # "absent"
      BY <1>1, <1>4, <1>5, <2>2, <3>1
    <3>2. CASE r \in Touched(Now) \ Blind(Now)
      BY <1>1, <1>2, <1>3, <3>2
    <3>3. CASE r \in Seeds(Now)
      BY <1>5, <2>2, <3>3
    <3> QED
      BY <2>1, <3>1, <3>2, <3>3 DEF Grows
  <2>4. CASE step < Len(Steps)
    <3>1. step' = step + 1 /\ section' = section /\ phase' = phase
      BY <1>7, <2>4 DEF GoesOn, Advance
    <3>2. Known(check', section', step') = K1 /\ Owed(check', section', step') = O1
      BY <1>1, <3>1 DEF K1, O1
    <3>3. Untold' = O1
      BY <1>1, <1>2, <3>1, <3>2 DEF Untold, Stopped, Inside
    <3>4. CreatedIsTracked'
      BY <2>3, <3>3 DEF CreatedIsTracked
    <3> QED
      BY <2>2, <3>2, <3>4 DEF LedgerInv
  <2>5. CASE ~(step < Len(Steps))
    <3>1. step' = 1 /\ section' = section + 1
      BY <1>7, <2>5 DEF GoesOn, Advance
    <3>2. O1 = {}
      BY <1>2, <2>5
    <3> QED
      BY <1>6, <2>3, <3>1, <3>2
  <2> QED
    BY <2>4, <2>5
<1>8. CASE Leaves
  <2>1. /\ section' = section + 1 /\ step' = 1 /\ O = {}
        /\ Grows((Touched(Now) \ Blind(Now)) \cup unreported')
    BY <1>2, <1>8 DEF Leaves
  <2>2. \A r \in Roles \ Payloads :
           world'[r] # "absent" => r \in recorded' \cup held' \cup unreported'
    BY <1>1, <1>2, <1>3, <1>4, <2>1 DEF Grows
  <2> QED
    BY <1>6, <2>1, <2>2
<1>9. CASE Stops
  <2>1. /\ section' = section /\ step' = step /\ phase' \in Endings \ {"done"}
        /\ Grows(Touched(Now))
    BY <1>9 DEF Stops, place
  <2>2. Known(check', section', step') = K /\ Owed(check', section', step') = O /\ Now' = Now
    BY <1>1, <2>1 DEF K, O, Now, Steps, Sections
  <2>3. Untold' = O \cup Blind(Now)
    <3>1. Stopped' /\ ~(section' > Len(Sections'))
      BY <1>1, <1>2, <2>1 DEF Stopped, Endings
    <3> QED
      BY <2>2, <3>1 DEF Untold
  <2>4. \A r \in Roles \ Payloads :
           world'[r] # "absent" =>
              r \in recorded' \cup held' \cup unreported' \cup O \cup Blind(Now)
    BY <1>1, <1>2, <1>3, <1>4, <2>1 DEF Grows
  <2>5. CreatedIsTracked'
    BY <2>3, <2>4 DEF CreatedIsTracked
  <2> QED
    BY <1>1, <1>3, <2>2, <2>5 DEF LedgerInv
<1> QED
  BY <1>7, <1>8, <1>9 DEF RunStep

\* The verdict after giving up.
LEMMA GivesUpFacts ==
    ASSUME PlaceInv, ReportInv, phase = "running", Inside, GivesUp
    PROVE  /\ Modest(check) => verdict' = "Unverified"
           /\ verdict' # "Unverified" => verdict # "Unverified"
           /\ Reasons(Now) # {}
           /\ completions' = 0 => entry' = "NotRun"
           /\ completions' > 0 => Notes(check) /\ verdict' = "Unverified" /\ entry' = "Unverified"
<1>1. PICK reason \in Reasons(Now) : Note(reason)
  BY DEF GivesUp
<1>2. section \in DOMAIN check.sections /\ step \in DOMAIN check.sections[section]
      /\ Now = check.sections[section][step]
  BY NowFacts DEF Now, Steps, Sections
<1>3. Modest(check) => reason = "Unverified" /\ verdict \in {"none", "Unverified"}
  BY <1>1, <1>2 DEF Modest, ReportInv
<1>4. Modest(check) => verdict' = "Unverified"
  BY <1>1, <1>3 DEF Note
<1>5. verdict' # "Unverified" => verdict # "Unverified"
  BY <1>1 DEF Note
<1>6. /\ completions \in Nat
      /\ completions = 0 => entry = "NotRun"
      /\ completions > 0 => Notes(check) /\ verdict = "Unverified" /\ entry = "Unverified"
  BY DEF PlaceInv, ReportInv
<1>7. CompletesEarly(Now) => Notes(check)
  BY <1>2 DEF Notes
<1>8. Notes(check) => Modest(check)
  BY ProgramsAssumption DEF PlaceInv
<1>9. /\ completions' = 0 => entry' = "NotRun"
      /\ completions' > 0 => Notes(check) /\ entry' = "Unverified"
  BY <1>6, <1>7 DEF GivesUp, RecordCheck, reported
<1> QED
  BY <1>1, <1>4, <1>5, <1>8, <1>9

\* What the report shows is what the check has noted.
LEMMA ReportStep ==
    ASSUME PlaceInv, ReportInv, RunStep
    PROVE  ReportInv'
<1>1. phase = "running" /\ Inside /\ check' = check
  BY DEF RunStep, Keeps
<1>2. /\ completions \in Nat
      /\ completions = 0 => entry = "NotRun"
      /\ completions > 0 => Notes(check) /\ verdict = "Unverified" /\ entry = "Unverified"
  BY <1>1 DEF PlaceInv, ReportInv
<1>3. phase' # "done"
  BY <1>1 DEF RunStep, GoesOn, Advance, Leaves, Stops
<1>4. completions' \in Nat
  BY PlaceStep DEF PlaceInv
<1>5. ASSUME Modest(check) /\ phase' = "running" => verdict' \in {"none", "Unverified"},
             completions' = 0 => entry' = "NotRun",
             completions' > 0 => Notes(check) /\ verdict' = "Unverified" /\ entry' = "Unverified"
      PROVE  ReportInv'
  <2>1. Modest(check)' = Modest(check) /\ Notes(check)' = Notes(check)
    BY <1>1
  <2>2. EntryIsFinal'
    BY <1>3, <1>4, <1>5 DEF EntryIsFinal
  <2> QED
    BY <1>5, <2>1, <2>2 DEF ReportInv
<1>6. CASE Silent
  BY <1>1, <1>2, <1>5, <1>6 DEF Silent, reported, ReportInv
<1>7. CASE GivesUp
  BY <1>1, <1>5, <1>7, GivesUpFacts
<1> QED
  BY <1>6, <1>7 DEF RunStep

\* What one more step adds to the sessions that may be open.
LEMMA LiveFacts ==
    ASSUME NEW c, NEW n, NEW i \in Nat \ {0}
    PROVE  (Live(c, n, i) \cup Opens(c.sections[n][i])) \ Closes(c.sections[n][i])
              \subseteq Live(c, n, i + 1)
<1> SUFFICES ASSUME NEW r \in Live(c, n, i) \cup Opens(c.sections[n][i]),
                    r \notin Closes(c.sections[n][i])
             PROVE  r \in Live(c, n, i + 1)
  OBVIOUS
<1>1. \A k : r \in Live(c, n, k) <=>
         \E j \in 1 .. k - 1 : /\ r \in Opens(c.sections[n][j])
                               /\ \A l \in j .. k - 1 : r \notin Closes(c.sections[n][l])
  BY DEF Live
<1>2. PICK j \in 1 .. i : /\ r \in Opens(c.sections[n][j])
                          /\ \A l \in j .. i - 1 : r \notin Closes(c.sections[n][l])
  <2>1. CASE r \in Live(c, n, i)
    <3>1. PICK j \in 1 .. i - 1 : /\ r \in Opens(c.sections[n][j])
                                  /\ \A l \in j .. i - 1 : r \notin Closes(c.sections[n][l])
      BY <1>1, <2>1
    <3>2. j \in 1 .. i
      OBVIOUS
    <3> QED
      BY <3>1, <3>2
  <2>2. CASE r \in Opens(c.sections[n][i])
    <3>1. i \in 1 .. i /\ i .. i - 1 = {}
      OBVIOUS
    <3> QED
      BY <2>2, <3>1
  <2> QED
    BY <2>1, <2>2
<1>3. j \in 1 .. (i + 1) - 1 /\ \A l \in j .. (i + 1) - 1 : l = i \/ l \in j .. i - 1
  OBVIOUS
<1> QED
  BY <1>1, <1>2, <1>3

\* What a failure leaves behind: no writer that it does not keep, nor the session
\* it was to close.
FailureKeeps ==
    /\ open \subseteq held \cup Temporaries \/ Gated(Now)
    /\ Now.kind = "call" => open \cap Now.closes \subseteq held

\* Every failure does so, whatever the step.
LEMMA FailureStep ==
    ASSUME PlaceInv, SessionInv, Next, phase' = "failed"
    PROVE  FailureKeeps'
<1> DEFINE W == open \ Temporaries
           L == Live(check, section, step) \ Temporaries
<1>1. phase = "running" /\ Inside
  BY DEF Next, DoPath, DoPrepare, DoVet, DoRecord, DoObserve, DoFurnish, DoConfirm, DoCall,
         DoRefuse, DoSettle, Finish, Panic, Drop, Interrupted, At, Inside
<1>2. W \subseteq L /\ Retains(Now, L)
  BY <1>1, NowFacts DEF SessionInv
<1>3. check' = check /\ UNCHANGED place
  BY <1>1 DEF Next, DoPath, DoPrepare, DoVet, DoRecord, DoObserve, DoFurnish, DoConfirm, DoCall,
         DoRefuse, DoSettle, Finish, Panic, Drop, Interrupted, setting, Advance, Fail, LeaveOrFail,
         Leave, PrepareReady, Unsupported, CallReturns, CallErrs, Refused, NotRefused,
         SettleCloses, SettleFails
<1>4. Now' = Now
  BY <1>3 DEF Now, Steps, Sections, place
<1> HIDE DEF L
<1>5. CASE DoPath \/ DoPrepare \/ DoVet \/ DoRecord \/ DoObserve \/ DoFurnish \/ DoConfirm
  <2>1. /\ open' = open /\ held \subseteq held'
        /\ Now.kind \notin {"call", "refuse", "settle"}
    BY <1>5 DEF DoPath, DoPrepare, DoVet, DoRecord, DoObserve, DoFurnish, DoConfirm, At,
         PrepareReady, LeaveOrFail, Unsupported, Fail
  <2>2. L = {}
    BY <1>2, <2>1 DEF Retains
  <2> QED
    BY <1>2, <1>4, <2>1, <2>2 DEF FailureKeeps
<1>6. CASE DoCall
  <2>1. /\ L \cup (Now.opens \ Temporaries) \cup Now.closes \subseteq Now.owned
        /\ Now.judged => (L \cup Now.opens) \ Now.closes \subseteq Temporaries
    BY <1>2, <1>6 DEF DoCall, At, Retains
  <2>2. CASE Now.judged /\ open' = (open \cup Now.opens) \ Now.closes
    BY <1>2, <1>4, <2>1, <2>2 DEF FailureKeeps
  <2>3. CASE open' = open \cup Now.opens /\ held' = held \cup Now.owned
    BY <1>2, <1>4, <2>1, <2>3 DEF FailureKeeps
  <2> QED
    BY <1>1, <1>6, <2>2, <2>3 DEF DoCall, CallReturns, CallErrs, Advance, Fail
<1>7. CASE DoRefuse
  <2>1. /\ Now.kind = "refuse" /\ L = {}
        /\ Now.gate \/ (Now.carries \subseteq Now.owned /\ Now.admits \subseteq Now.accepted)
    BY <1>2, <1>7 DEF DoRefuse, At, Retains
  <2>2. CASE open' = open \cup Now.admits /\ held' = held \cup Now.accepted
    BY <1>2, <1>4, <2>1, <2>2 DEF FailureKeeps, Gated
  <2>3. CASE open' = open \cup Now.carries /\ held' = held \cup Now.owned
    BY <1>2, <1>4, <2>1, <2>3 DEF FailureKeeps, Gated
  <2> QED
    BY <1>1, <1>7, <2>2, <2>3 DEF DoRefuse, Refused, NotRefused, Advance, Fail
<1>8. CASE DoSettle
  <2>1. Now.kind = "settle" /\ L \subseteq {Now.role}
    BY <1>2, <1>8 DEF DoSettle, At, Retains
  <2>2. open' = open /\ held' = held \cup {Now.role}
    BY <1>1, <1>8 DEF DoSettle, SettleCloses, SettleFails, Advance, Fail
  <2> QED
    BY <1>2, <1>4, <2>1, <2>2 DEF FailureKeeps
<1>9. ~Finish /\ ~Panic /\ ~Drop
  BY DEF Finish, Panic, Drop, Interrupted
<1> QED
  BY <1>5, <1>6, <1>7, <1>8, <1>9 DEF Next

\* Sessions stay accounted for.
LEMMA SessionStep ==
    ASSUME PlaceInv, ReportInv, SessionInv, RunStep, phase' = "failed" => FailureKeeps'
    PROVE  SessionInv'
<1> DEFINE L == Live(check, section, step)
           L1 == Live(check, section, step + 1)
<1>1. phase = "running" /\ Inside /\ check' = check /\ Sections' = Sections
  BY DEF RunStep, Keeps, Sections
<1>2. /\ step \in 1 .. Len(Steps) /\ Len(Steps) \in Nat /\ Len(Sections) \in Nat
      /\ section \in 1 .. Len(Sections)
      /\ Retains(Now, L \ Temporaries)
      /\ step = Len(Steps) => L1 = {}
      /\ Now = check.sections[section][step]
      /\ section \in DOMAIN check.sections /\ step \in DOMAIN check.sections[section]
  BY <1>1, NowFacts DEF Inside, PlaceInv, Now, Steps, Sections
<1>3. open \ Temporaries \subseteq L /\ (verdict # "Unverified" => open \subseteq L)
  BY <1>1 DEF SessionInv
<1>4. (L \cup Opens(Now)) \ Closes(Now) \subseteq L1
  <2>1. step \in Nat \ {0} /\ Now = check.sections[section][step]
    BY <1>2
  <2> QED
    BY <2>1, LiveFacts
<1>5. ASSUME GivesUp, verdict' # "Unverified" PROVE open' = {}
  <2>1. verdict # "Unverified" /\ ~Modest(check) /\ Reasons(Now) # {} /\ open' = open
    BY <1>1, <1>5, GivesUpFacts DEF GivesUp
  <2>2. GivesUpClosed(check)
    BY <2>1, ProgramsAssumption DEF PlaceInv
  <2>3. L = {}
    BY <1>2, <2>1, <2>2 DEF GivesUpClosed
  <2> QED
    BY <1>3, <2>1, <2>3
<1> HIDE DEF L, L1
<1>6. ASSUME phase' = "running", NEW live,
             live = IF Inside' THEN Live(check', section', step') ELSE {},
             open' \ Temporaries \subseteq live,
             verdict' # "Unverified" => open' \subseteq live
      PROVE  SessionInv'
  BY <1>6 DEF SessionInv, SessionsAccounted, Stopped
<1>7. CASE GoesOn
  <2>1. open' \subseteq (open \cup Opens(Now)) \ Closes(Now) /\ phase' = "running"
    BY <1>1, <1>7 DEF GoesOn, Advance
  <2>2. open' \ Temporaries \subseteq L1
    BY <1>3, <1>4, <2>1
  <2>3. verdict' # "Unverified" => open' \subseteq L1
    <3>1. CASE Silent
      BY <1>3, <1>4, <2>1, <3>1 DEF Silent
    <3>2. CASE GivesUp
      BY <1>5, <3>2
    <3>3. CASE Stops
      BY <2>1, <3>3 DEF Stops, Endings
    <3> QED
      BY <3>1, <3>2, <3>3 DEF RunStep
  <2>4. CASE step < Len(Steps)
    <3>1. step' = step + 1 /\ section' = section
      BY <1>7, <2>4 DEF GoesOn, Advance
    <3>2. Live(check', section', step') = L1 /\ Inside'
      BY <1>1, <3>1 DEF L1, Inside
    <3> QED
      BY <1>6, <2>1, <2>2, <2>3, <3>2
  <2>5. CASE ~(step < Len(Steps))
    <3>1. L1 = {}
      BY <1>2, <2>5
    <3> QED
      BY <1>6, <2>1, <2>2, <2>3, <3>1
  <2> QED
    BY <2>4, <2>5
<1>8. CASE Leaves /\ GivesUp
  <2>1. phase' = "running" /\ open' = open
    BY <1>1, <1>8 DEF Leaves, GivesUp
  <2>2. Now.kind \notin {"call", "refuse", "settle"}
    BY <1>8 DEF GivesUp, Reasons, ContentSteps
  <2>3. open' \ Temporaries = {}
    BY <1>2, <1>3, <2>1, <2>2 DEF Retains
  <2> QED
    BY <1>5, <1>6, <1>8, <2>1, <2>3
<1>9. CASE Stops
  <2>1. /\ section' = section /\ step' = step /\ phase' \in Endings \ {"done"}
        /\ Now.kind = "settle" /\ Now.role \in open' => Now.role \in held'
    BY <1>9 DEF Stops, place
  <2>2. Now' = Now /\ phase' \notin {"running", "done"}
    BY <1>1, <2>1 DEF Now, Steps, Sections, Endings
  <2> QED
    BY <2>1, <2>2 DEF SessionInv, SessionsAccounted, FailureKeeps
<1> QED
  BY <1>7, <1>8, <1>9 DEF RunStep

-----------------------------------------------------------------------------
(* The theorems.                                                           *)

\* The invariant holds before the first step of every program.
LEMMA InitHolds == Init => IInv
<1> SUFFICES ASSUME Init PROVE IInv
  OBVIOUS
<1>1. /\ check \in Checks /\ section = 1 /\ step = 1 /\ world = [r \in Roles |-> "absent"]
      /\ recorded = {} /\ open = {} /\ held = {} /\ verdict = "none"
      /\ entry = "NotRun" /\ completions = 0 /\ phase = "running"
  BY DEF Init
<1>2. PlaceInv
  <2>1. IsList(Sections) /\ \A n \in DOMAIN Sections : Disciplined(check, n)
    BY <1>1, ProgramsAssumption DEF Sections
  <2>2. Inside => step \in DOMAIN Steps
    <3> SUFFICES ASSUME Inside PROVE step \in DOMAIN Steps
      OBVIOUS
    <3>1. 1 \in DOMAIN Sections
      BY <1>1, <2>1 DEF IsList, Inside
    <3>2. Disciplined(check, 1) /\ Steps = check.sections[1]
      BY <1>1, <2>1, <3>1 DEF Steps, Sections
    <3> QED
      BY <1>1, <3>2 DEF Disciplined, IsList
  <2>3. section \in 1 .. Len(Sections) + 1
    BY <1>1, <2>1 DEF IsList
  <2> QED
    BY <1>1, <2>2, <2>3 DEF PlaceInv, Stopped
<1>3. LedgerInv
  <2>1. Known(check, 1, 1) = {}
    <3>1. 1 \in Nat \ {0}
      OBVIOUS
    <3> QED
      BY <3>1, BeforeFacts
  <2> QED
    BY <1>1, <2>1 DEF LedgerInv, CreatedIsTracked
<1>4. ReportInv
  BY <1>1 DEF ReportInv, EntryIsFinal
<1>5. SessionInv
  BY <1>1 DEF SessionInv, SessionsAccounted, Stopped
<1> QED
  BY <1>2, <1>3, <1>4, <1>5 DEF IInv

\* The end of the program.
LEMMA FinishStep ==
    ASSUME IInv, Finish
    PROVE  IInv'
<1>0. PlaceInv /\ LedgerInv /\ ReportInv /\ SessionInv
  BY DEF IInv
<1>1. /\ phase = "running" /\ section > Len(Sections) /\ phase' = "done"
      /\ UNCHANGED <<check, section, step, world, recorded, open, held, unreported>>
      /\ RecordCheck(verdict') /\ Note(check.outcome)
  BY DEF Finish, setting, place
<1>2. Len(Sections) \in Nat /\ section \in Nat /\ Sections' = Sections /\ completions \in Nat
  BY <1>0, <1>1, ProgramsAssumption DEF PlaceInv, IsList, Sections
<1>3. ~Inside /\ ~Inside'
  BY <1>1, <1>2 DEF Inside
<1>4. PlaceInv'
  BY <1>0, <1>1, <1>2, <1>3 DEF PlaceInv, Stopped, Endings, RecordCheck
<1>5. LedgerInv'
  <2>1. Untold = {} /\ Untold' = {}
    BY <1>1, <1>2 DEF Untold
  <2>2. CreatedIsTracked'
    BY <1>0, <1>1, <2>1 DEF LedgerInv, CreatedIsTracked
  <2> QED
    BY <1>3, <2>2 DEF LedgerInv
<1>6. ReportInv'
  <2>1. completions > 0 => verdict = "Unverified" /\ entry = "Unverified"
    BY <1>0, <1>1 DEF ReportInv
  <2>2. entry' = verdict'
    BY <1>1, <1>2, <2>1 DEF Note, RecordCheck
  <2> QED
    BY <1>1, <2>2 DEF ReportInv, EntryIsFinal
<1>7. SessionInv'
  <2>1. verdict # "Unverified" => open = {}
    BY <1>0, <1>1, <1>3 DEF SessionInv
  <2>2. verdict' # "Unverified" => verdict # "Unverified"
    BY <1>1 DEF Note
  <2> QED
    BY <1>1, <2>1, <2>2 DEF SessionInv, SessionsAccounted, Stopped
<1> QED
  BY <1>4, <1>5, <1>6, <1>7 DEF IInv

\* Every step of the runner keeps the invariant.
LEMMA NextHolds == IInv /\ [Next]_vars => IInv'
<1> SUFFICES ASSUME IInv, [Next]_vars PROVE IInv'
  OBVIOUS
<1>1. CASE RunStep /\ Next
  BY <1>1, PlaceStep, LedgerStep, ReportStep, SessionStep, FailureStep DEF IInv
<1>2. CASE Finish
  BY <1>2, FinishStep
<1>3. CASE UNCHANGED vars
  <2>1. UNCHANGED <<check, section, step, world, recorded, open, held, unreported,
                    verdict, entry, completions, phase>>
    BY <1>3 DEF vars, setting, place, reported
  <2>2. /\ Sections' = Sections /\ Steps' = Steps /\ Now' = Now /\ Inside' = Inside
        /\ Stopped' = Stopped
    BY <2>1 DEF Sections, Steps, Now, Inside, Stopped
  <2>3. Untold' = Untold
    BY <2>1, <2>2 DEF Untold
  <2>4. PlaceInv'
    BY <2>1, <2>2 DEF IInv, PlaceInv
  <2>5. LedgerInv'
    BY <2>1, <2>2, <2>3 DEF IInv, LedgerInv, CreatedIsTracked
  <2>6. ReportInv'
    BY <2>1, <2>2 DEF IInv, ReportInv, EntryIsFinal
  <2>7. SessionInv'
    BY <2>1, <2>2, <2>3 DEF IInv, SessionInv, SessionsAccounted
  <2> QED
    BY <2>4, <2>5, <2>6, <2>7 DEF IInv
<1> QED
  BY <1>1, <1>2, <1>3, KindsOfStep DEF IInv

\* The inductive invariant holds in every reachable state.
LEMMA InvariantHolds == Spec => []IInv
BY InitHolds, NextHolds, PTL DEF Spec

\* Whatever a disciplined check leaves behind, however it ends, is in the
\* cleanup ledger, owned by the failure, or known to the fixture alone:
\* record_created comes before the call that creates.
THEOREM TrackedTheorem == Spec => []CreatedIsTracked
<1>1. IInv => CreatedIsTracked
  BY DEF IInv, LedgerInv
<1> QED
  BY <1>1, InvariantHolds, PTL

\* The report shows the outcome a check ends with, although only the first
\* completion counts, and before the end nothing better than Unverified.
THEOREM EntryTheorem == Spec => []EntryIsFinal
<1>1. IInv => EntryIsFinal
  BY DEF IInv, ReportInv
<1> QED
  BY <1>1, InvariantHolds, PTL

\* No check that reports evidence leaves a writer or temporary resource open;
\* one that fails keeps its writers, and the resource whose last operation
\* failed, in the failure; the session of a refused write survives its abort
\* (finish_expected_write_failure).
THEOREM SessionsTheorem == Spec => []SessionsAccounted
<1>1. IInv => SessionsAccounted
  BY DEF IInv, SessionInv
<1> QED
  BY <1>1, InvariantHolds, PTL

-----------------------------------------------------------------------------
(* What the check has seen.                                                *)

\* A step after which the check goes on with nothing to report.
Continues ==
    /\ Advance /\ verdict' = verdict
    /\ \A r \in Roles \ Alters(Now) : world'[r] = world[r]
    /\ Claiming(Now) \/ claim' = claim
    /\ Now.kind = "observe" => \A r \in DOMAIN Now.want : Sees(Now.want[r], r)
    /\ Now.kind = "confirm" /\ content => world[Now.role] = "data"
    /\ content \/ Now.kind = "furnish" => content'

GivesReason == phase' = phase /\ \E reason \in Reasons(Now) : Note(reason)

\* Disturbed and changed worlds differ from the one before in the roles named.
LEMMA SameElsewhere ==
    /\ \A S : world' \in Disturbed(S) => \A r \in Roles \ S : world'[r] = world[r]
    /\ \A e : world' = Applied(e) => \A r \in Roles \ DOMAIN e : world'[r] = world[r]
<1>1. ASSUME NEW S, world' \in Disturbed(S)
      PROVE  \A r \in Roles \ S : world'[r] = world[r]
  BY <1>1 DEF Disturbed
<1>2. ASSUME NEW e, world' = Applied(e)
      PROVE  \A r \in Roles \ DOMAIN e : world'[r] = world[r]
  BY <1>2 DEF Applied
<1> QED
  BY <1>1, <1>2

\* The fixture hooks and the bookkeeping.
LEMMA HooksContinue ==
    ASSUME PlaceInv, DoPath \/ DoVet \/ DoRecord \/ DoPrepare
    PROVE  Continues \/ phase' # "running" \/ GivesReason
<1>1. /\ phase = "running" /\ Now.kind \in {"path", "vet", "record", "prepare"}
      /\ claim' = claim /\ content' = content
  BY DEF DoPath, DoVet, DoRecord, DoPrepare, At
<1>2. CASE DoPath \/ DoVet \/ DoRecord
  <2>1. world' = world /\ verdict' = verdict /\ (Advance \/ Fail({}))
    BY <1>2 DEF DoPath, DoVet, DoRecord
  <2> QED
    BY <1>1, <2>1 DEF Continues, Fail
<1>3. CASE DoPrepare
  <2>1. Now.kind = "prepare"
    BY <1>3 DEF DoPrepare, At
  <2>2. /\ Alters(Now) = DOMAIN Now.seed
        /\ Reasons(Now) = {Now.unavailable, Now.declined} \ {"Failed"}
    BY <2>1 DEF Alters, Gated, Touched, Reasons, ContentSteps
  <2>3. CASE PrepareReady
    <3>1. Advance /\ verdict' = verdict /\ world' = Applied(Now.seed)
      BY <2>3 DEF PrepareReady
    <3>2. \A r \in Roles \ Alters(Now) : world'[r] = world[r]
      BY <2>2, <3>1, SameElsewhere
    <3> QED
      BY <1>1, <2>1, <3>1, <3>2 DEF Continues
  <2>4. CASE \E reason \in {Now.unavailable, Now.declined} : LeaveOrFail(reason)
    BY <1>1, <2>2, <2>4, LeaveOrFailFacts DEF GivesReason
  <2>5. CASE Fail({})
    BY <2>5 DEF Fail
  <2> QED
    BY <1>3, <2>3, <2>4, <2>5 DEF DoPrepare
<1> QED
  BY <1>2, <1>3

\* The observations, and content that is furnished or confirmed.
LEMMA ContentContinues ==
    ASSUME PlaceInv, DoObserve \/ DoFurnish \/ DoConfirm
    PROVE  Continues \/ phase' # "running" \/ GivesReason
<1>1. /\ phase = "running" /\ Now.kind \in ContentSteps
      /\ UNCHANGED <<open, claim>>
  BY DEF DoObserve, DoFurnish, DoConfirm, At, ContentSteps
<1>2. CASE Unsupported(Now.unseen)
  BY <1>1, <1>2, UnsupportedFacts DEF GivesUp, GivesReason, Advance
<1>3. CASE Fail({})
  BY <1>3 DEF Fail
<1>4. CASE DoObserve /\ ~Unsupported(Now.unseen) /\ ~Fail({})
  <2>1. Now.kind = "observe" /\ Advance /\ UNCHANGED <<world, content, verdict>>
        /\ \A r \in DOMAIN Now.want : Sees(Now.want[r], r)
    BY <1>4 DEF DoObserve, At
  <2> QED
    BY <1>1, <2>1 DEF Continues
<1>5. CASE DoConfirm /\ ~Unsupported(Now.unseen) /\ ~Fail({})
  <2>1. Now.kind = "confirm" /\ Advance /\ UNCHANGED <<world, content, verdict>>
        /\ (content => world[Now.role] = "data")
    BY <1>5 DEF DoConfirm, At
  <2> QED
    BY <1>1, <2>1 DEF Continues
<1>6. CASE DoFurnish /\ ~Unsupported(Now.unseen) /\ ~Fail({})
  <2>1. /\ Now.kind = "furnish" /\ Advance /\ UNCHANGED verdict /\ content' = TRUE
        /\ world' = Applied(Furnished)
    BY <1>6 DEF DoFurnish, At
  <2>2. Alters(Now) = DOMAIN Furnished
    BY <2>1 DEF Alters, Gated, Touched, Furnished
  <2>3. \A r \in Roles \ Alters(Now) : world'[r] = world[r]
    BY <2>1, <2>2, SameElsewhere
  <2> QED
    BY <1>1, <2>1, <2>3 DEF Continues
<1> QED
  BY <1>2, <1>3, <1>4, <1>5, <1>6

\* The provider calls.
LEMMA CallsContinue ==
    ASSUME PlaceInv, DoCall \/ DoRefuse \/ DoSettle
    PROVE  Continues \/ phase' # "running"
<1>1. /\ phase = "running" /\ Inside /\ verdict' = verdict /\ content' = content
      /\ Now.kind \in {"call", "refuse", "settle"}
  BY DEF DoCall, DoRefuse, DoSettle, At, Inside
<1>2. ASSUME Advance, Claiming(Now) \/ claim' = claim,
             \A r \in Roles \ Alters(Now) : world'[r] = world[r]
      PROVE  Continues
  BY <1>1, <1>2 DEF Continues
<1>3. \A sessions : Fail(sessions) => phase' # "running"
  BY DEF Fail
<1>4. CASE DoCall
  <2>1. Now.kind = "call"
    BY <1>4 DEF DoCall, At
  <2>2. Alters(Now) = DOMAIN Now.effect /\ (Claiming(Now) <=> Now.claims)
    BY <2>1 DEF Alters, Gated, Touched, Claiming
  <2>3. CASE CallReturns /\ Advance
    <3>1. CASE world' = Applied(Now.effect) /\ claim' = claim
      BY <1>2, <2>2, <2>3, <3>1, SameElsewhere
    <3>2. CASE Now.claims /\ Aborted
      <4>1. PICK q \in Now.closes, left \in {"absent", "new"} :
               world' = [world EXCEPT ![q] = left]
        BY <3>2 DEF Aborted
      <4>2. q \in DOMAIN Now.effect
        BY <1>1, <2>1, <3>2, NowFacts
      <4>3. \A r \in Roles \ Alters(Now) : world'[r] = world[r]
        BY <2>2, <4>1, <4>2 DEF PlaceInv
      <4> QED
        BY <1>2, <2>2, <2>3, <3>2, <4>3
    <3>3. CASE /\ world' \in Disturbed(DOMAIN Now.effect)
               /\ IF Now.claims THEN claim' \in Claims ELSE UNCHANGED claim
      BY <1>2, <2>2, <2>3, <3>3, SameElsewhere
    <3> QED
      BY <2>3, <3>1, <3>2, <3>3 DEF CallReturns
  <2> QED
    BY <1>3, <1>4, <2>3 DEF DoCall, CallReturns, CallErrs
<1>5. CASE DoRefuse
  <2>1. Now.kind = "refuse" /\ claim' = claim
    BY <1>5 DEF DoRefuse, At
  <2>2. Alters(Now) = IF Now.gate THEN {} ELSE Now.touches
    BY <2>1 DEF Alters, Gated, Touched
  <2>3. CASE Refused
    BY <1>2, <2>1, <2>2, <2>3, SameElsewhere DEF Refused
  <2>4. CASE NotRefused
    BY <1>3, <2>4 DEF NotRefused
  <2> QED
    BY <1>5, <2>3, <2>4 DEF DoRefuse
<1>6. CASE DoSettle
  <2>1. Now.kind = "settle" /\ claim' = claim
    BY <1>6 DEF DoSettle, At
  <2>2. Alters(Now) = {Now.role}
    BY <2>1 DEF Alters, Gated, Touched
  <2>3. CASE UNCHANGED world /\ Advance
    BY <1>2, <2>1, <2>3
  <2>4. CASE SettleCloses
    BY <1>2, <2>1, <2>2, <2>4, SameElsewhere DEF SettleCloses
  <2>5. CASE SettleFails
    BY <1>3, <2>5 DEF SettleFails
  <2> QED
    BY <1>6, <2>3, <2>4, <2>5 DEF DoSettle
<1> QED
  BY <1>4, <1>5, <1>6

\* Every action but the end of the program goes on silently, ends the check, or
\* gives a reason.
LEMMA SilentSteps ==
    ASSUME PlaceInv, Next
    PROVE  Continues \/ phase' # "running" \/ GivesReason \/ Finish
<1>1. Panic \/ Drop => phase' # "running"
  BY DEF Panic, Drop, Interrupted
<1> QED
  BY <1>1, HooksContinue, ContentContinues, CallsContinue DEF Next

\* The numbering of the steps.
LEMMA Numbering ==
    ASSUME PlaceInv
    PROVE  /\ Len(Sections) \in Nat /\ DOMAIN Sections = 1 .. Len(Sections)
           /\ Sections = check.sections
           /\ \A m \in DOMAIN Sections :
                 Len(Sections[m]) \in Nat \ {0} /\ DOMAIN Sections[m] = 1 .. Len(Sections[m])
<1>1. IsList(check.sections) /\ \A n \in DOMAIN check.sections : Disciplined(check, n)
  BY ProgramsAssumption DEF PlaceInv
<1> QED
  BY <1>1 DEF IsList, Disciplined, Sections

\* The step that executes is the only one between here and the next place.
LEMMA NextPlace ==
    ASSUME PlaceInv, Inside, Advance,
           NEW m \in DOMAIN Sections, NEW j \in DOMAIN Sections[m],
           Precedes(m, j, section', step')
    PROVE  Precedes(m, j, section, step) \/ (m = section /\ j = step)
<1>1. /\ section \in Nat /\ step \in 1 .. Len(Steps) /\ Len(Steps) \in Nat
      /\ Steps = Sections[section]
  BY NowFacts DEF PlaceInv, Steps
<1>2. m \in Nat /\ j \in Nat /\ j >= 1 /\ j <= Len(Sections[m])
  BY Numbering
<1>3. CASE step < Len(Steps)
  <2>1. section' = section /\ step' = step + 1
    BY <1>3 DEF Advance
  <2> QED
    BY <1>1, <1>2, <2>1 DEF Precedes
<1>4. CASE ~(step < Len(Steps))
  <2>1. section' = section + 1 /\ step' = 1
    BY <1>4 DEF Advance
  <2>2. m < section \/ m = section
    BY <1>1, <1>2, <2>1 DEF Precedes
  <2>3. m = section => j <= step
    BY <1>1, <1>2, <1>4
  <2> QED
    BY <1>1, <1>2, <2>2, <2>3 DEF Precedes
<1> QED
  BY <1>3, <1>4

\* What was shown stays true, and what is shown now is true.
LEMMA EvidenceStep ==
    ASSUME PlaceInv, EvidenceInv, phase = "running", Inside, check' = check,
           Continues \/ phase' # "running" \/ GivesReason
    PROVE  EvidenceInv'
<1>1. /\ section \in DOMAIN Sections /\ step \in DOMAIN Steps /\ step \in Nat
      /\ Now = check.sections[section][step]
      /\ Sections' = Sections /\ Sections = check.sections /\ Steps = check.sections[section]
  BY NowFacts DEF Now, Steps, Sections
<1>2. verdict \notin Vouched /\ MayReport(check, verdict)
  BY DEF EvidenceInv
<1>3. CASE phase' # "running"
  BY <1>3 DEF EvidenceInv
<1>4. CASE GivesReason
  <2>1. PICK reason \in Reasons(Now) : Note(reason)
    BY <1>4 DEF GivesReason
  <2>2. reason \notin {"none"} \cup Vouched /\ MayReport(check, reason)
    BY <1>1, <2>1, EvidenceAssumption DEF PlaceInv
  <2>3. verdict' # "none" /\ verdict' \notin Vouched /\ MayReport(check, verdict')
    BY <1>2, <2>1, <2>2 DEF Note
  <2> QED
    BY <2>3 DEF EvidenceInv, MayReport
<1>5. CASE Continues /\ verdict # "none"
  <2>1. verdict' = verdict
    BY <1>5 DEF Continues
  <2> QED
    BY <1>2, <1>5, <2>1 DEF EvidenceInv, MayReport
<1>6. CASE Continues /\ verdict = "none"
  <2>1. /\ Advance /\ verdict' = verdict
        /\ \A r \in Roles \ Alters(Now) : world'[r] = world[r]
        /\ Claiming(Now) \/ claim' = claim
    BY <1>6 DEF Continues
  <2>2. /\ (\E j \in 1 .. step - 1 : Steps[j].kind = "furnish") => content
        /\ \A r \in DOMAIN check.promise :
              \A m \in DOMAIN Sections : \A j \in DOMAIN Sections[m] :
                 Precedes(m, j, section, step) /\ Conclusive(check, m, j, r)
                    => Sees(check.promise[r], r)
    BY <1>6 DEF EvidenceInv
  <2>3. Inside' /\ (\E j \in 1 .. step' - 1 : Steps'[j].kind = "furnish") => content'
    <3> SUFFICES ASSUME NEW j \in 1 .. step' - 1, Steps'[j].kind = "furnish"
                 PROVE  content'
      OBVIOUS
    <3>1. step < Len(Steps) /\ step' = step + 1 /\ section' = section
      BY <2>1 DEF Advance
    <3>2. Steps' = Steps /\ Now = Steps[step]
      BY <1>1, <3>1 DEF Steps, Now
    <3>3. j \in 1 .. step - 1 \/ j = step
      BY <1>1, <3>1
    <3>4. content \/ Now.kind = "furnish"
      BY <2>2, <3>2, <3>3
    <3> QED
      BY <1>6, <3>4 DEF Continues
  <2>4. ASSUME NEW r \in DOMAIN check.promise,
               NEW m \in DOMAIN Sections, NEW j \in DOMAIN Sections[m],
               Precedes(m, j, section', step'), Conclusive(check, m, j, r)
        PROVE  Sees(check.promise[r], r)'
    <3> DEFINE p == check.promise[r]
    <3>1. r \in Roles
      BY EvidenceAssumption DEF PlaceInv
    <3>2. p' = p
      OBVIOUS
    <3>3. CASE Precedes(m, j, section, step)
      <4>1. Sees(p, r)
        BY <2>2, <2>4, <3>3
      <4>2. r \notin Alters(Now) /\ (p = "claimed" => ~Claiming(Now))
        BY <1>1, <2>4, <3>3 DEF Conclusive
      <4>3. world'[r] = world[r] /\ (p = "claimed" => claim' = claim)
        BY <2>1, <3>1, <4>2
      <4> QED
        BY <3>2, <4>1, <4>3 DEF Sees
    <3>4. CASE m = section /\ j = step
      <4>1. Shows(check, section, step, r)
        BY <2>4, <3>4 DEF Conclusive
      <4>2. CASE Now.kind = "observe" /\ r \in DOMAIN Now.want /\ Now.want[r] = p
        <5>1. Sees(p, r)
          BY <1>6, <4>2 DEF Continues
        <5>2. Alters(Now) = {} /\ ~Claiming(Now)
          BY <4>2 DEF Alters, Gated, Touched, Claiming
        <5>3. world'[r] = world[r] /\ claim' = claim
          BY <2>1, <3>1, <5>2
        <5> QED
          BY <3>2, <5>1, <5>3 DEF Sees
      <4>3. CASE /\ Now.kind = "confirm" /\ Now.role = r /\ p = "data"
                 /\ \E k \in 1 .. step - 1 : Steps[k].kind = "furnish"
        <5>1. content
          BY <2>2, <4>3
        <5>2. world[r] = "data"
          BY <1>6, <4>3, <5>1 DEF Continues
        <5>3. Alters(Now) = {}
          BY <4>3 DEF Alters, Gated, Touched
        <5>4. world'[r] = "data"
          BY <2>1, <3>1, <5>2, <5>3
        <5> QED
          BY <3>2, <4>3, <5>4 DEF Sees
      <4> QED
        BY <1>1, <4>1, <4>2, <4>3 DEF Shows
    <3> QED
      BY <2>1, <2>4, <3>3, <3>4, NextPlace DEF p
  <2> QED
    BY <1>1, <1>2, <1>6, <2>1, <2>3, <2>4 DEF EvidenceInv, MayReport
<1> QED
  BY <1>3, <1>4, <1>5, <1>6

\* The end of the program reports what it has seen.
LEMMA EarnedAtEnd ==
    ASSUME PlaceInv, EvidenceInv, Finish
    PROVE  EvidenceInv' /\ OutcomeIsEarned'
<1>1. /\ phase = "running" /\ section > Len(Sections) /\ phase' = "done"
      /\ check' = check /\ world' = world /\ claim' = claim /\ Note(check.outcome)
  BY DEF Finish, setting
<1>2. verdict \notin Vouched /\ MayReport(check, verdict)
  BY <1>1 DEF EvidenceInv
<1>3. MayReport(check, check.outcome)
  BY EvidenceAssumption DEF PlaceInv
<1>4. MayReport(check', verdict')
  BY <1>1, <1>2, <1>3 DEF Note, MayReport
<1>5. ASSUME verdict' \in Vouched, NEW r \in DOMAIN check.promise
      PROVE  Sees(check.promise[r], r)'
  <2>1. verdict = "none" /\ check.outcome \in Vouched
    BY <1>1, <1>2, <1>5 DEF Note
  <2>2. PICK m \in DOMAIN Sections : \E j \in DOMAIN Sections[m] : Conclusive(check, m, j, r)
    BY <1>5, <2>1, EvidenceAssumption DEF PlaceInv, Sections
  <2>3. PICK j \in DOMAIN Sections[m] : Conclusive(check, m, j, r)
    BY <2>2
  <2>4. Precedes(m, j, section, step)
    <3>1. m < section
      BY <1>1, Numbering DEF PlaceInv
    <3> QED
      BY <3>1 DEF Precedes
  <2>5. Sees(check.promise[r], r)
    BY <1>1, <2>1, <2>3, <2>4 DEF EvidenceInv
  <2> QED
    BY <1>1, <2>5 DEF Sees
<1>6. PassedMeansKept'
  BY <1>1, <1>5 DEF PassedMeansKept, Vouched
<1>7. EvidenceInv'
  BY <1>1 DEF EvidenceInv
<1> QED
  BY <1>4, <1>6, <1>7 DEF OutcomeIsEarned

\* A check reports evidence (Passed, RejectedAsExpected) only for contents that
\* are there when it returns, whatever the provider did and the fixture could
\* see, and SkippedOptional only where the catalog calls it optional.
THEOREM EarnedTheorem == Spec => []OutcomeIsEarned
<1> DEFINE J == EvidenceInv /\ OutcomeIsEarned
<1>1. Init => J
  <2> SUFFICES ASSUME Init PROVE J
    OBVIOUS
  <2>1. /\ check \in Checks /\ phase = "running" /\ verdict = "none"
        /\ section = 1 /\ step = 1
    BY DEF Init
  <2>2. PlaceInv
    BY InitHolds DEF IInv
  <2>3. \A m \in DOMAIN Sections : \A j \in DOMAIN Sections[m] : ~Precedes(m, j, section, step)
    BY <2>1, <2>2, Numbering DEF Precedes
  <2>4. 1 .. step - 1 = {}
    BY <2>1
  <2> QED
    BY <2>1, <2>3, <2>4
    DEF EvidenceInv, OutcomeIsEarned, PassedMeansKept, MayReport, Vouched
<1>2. IInv /\ J /\ [Next]_vars => J'
  <2> SUFFICES ASSUME IInv, J, [Next]_vars PROVE J'
    OBVIOUS
  <2>1. PlaceInv
    BY DEF IInv
  <2>2. CASE Finish
    BY <2>1, <2>2, EarnedAtEnd
  <2>3. CASE Next /\ ~Finish
    <3>1. phase = "running" /\ Inside /\ check' = check /\ phase' # "done"
      BY <2>1, <2>3, KindsOfStep DEF RunStep, Keeps, GoesOn, Advance, Leaves, Stops
    <3>2. EvidenceInv'
      BY <2>1, <2>3, <3>1, SilentSteps, EvidenceStep
    <3> QED
      BY <3>1, <3>2 DEF OutcomeIsEarned, PassedMeansKept
  <2>4. CASE UNCHANGED vars
    <3>1. UNCHANGED <<check, section, step, world, claim, content, verdict, phase>>
      BY <2>4 DEF vars, setting, place
    <3>2. Sections' = Sections /\ Steps' = Steps /\ Inside' = Inside
      BY <3>1 DEF Sections, Steps, Inside
    <3>3. \A v, r : Sees(v, r)' <=> Sees(v, r)
      BY <3>1 DEF Sees
    <3>4. EvidenceInv'
      BY <3>1, <3>2, <3>3 DEF EvidenceInv
    <3>5. OutcomeIsEarned'
      BY <3>1, <3>3 DEF OutcomeIsEarned, PassedMeansKept
    <3> QED
      BY <3>4, <3>5
  <2> QED
    BY <2>2, <2>3, <2>4
<1> QED
  BY <1>1, <1>2, InvariantHolds, PTL DEF Spec

-----------------------------------------------------------------------------
(* The outline of a check.                                                 *)

\* The next place of the outline describes the world after the step.
Follows == \A r \in Roles : \A v : v = Left(Here, Now, r) => Agrees(v, r)'

\* What the outline says of the step that executes.
LEMMA OutlineFacts ==
    ASSUME PlaceInv, Inside
    PROVE  /\ Expects(Here, Now)
           /\ Now.kind = "observe" => DOMAIN Now.want \subseteq Roles
           /\ Now.kind = "confirm" => Now.role \in Roles
           /\ \A r \in DOMAIN Effect(Now) : Effect(Now)[r] \in Contents \cup Roles
           /\ Claiming(Now) => \A q, r \in Now.closes : q = r
<1>1. section \in DOMAIN check.sections /\ step \in DOMAIN check.sections[section]
      /\ Now = check.sections[section][step]
  BY NowFacts DEF Now, Steps, Sections
<1>2. IsOutline(check, Outline(check))
  BY OutlineAssumption DEF PlaceInv
<1> QED
  BY <1>1, <1>2 DEF IsOutline, Here

\* A step that changes nothing.
LEMMA UnchangedFollows ==
    ASSUME \A r \in Roles : Agrees(Here[r], r),
           world' = world, claim' = claim, ~Claiming(Now), Effect(Now) = Nothing
    PROVE  Follows
<1>1. DOMAIN Effect(Now) = {}
  BY DEF Nothing
<1>2. \A r \in Roles : Left(Here, Now, r) = Here[r]
  BY <1>1 DEF Left
<1>3. \A v, r : Agrees(v, r)' <=> Agrees(v, r)
  BY DEF Agrees, Sees
<1> QED
  BY <1>2, <1>3 DEF Follows

\* A step that does what it is for.
LEMMA AppliedFollows ==
    ASSUME PlaceInv, Inside, \A r \in Roles : Agrees(Here[r], r),
           world' = Applied(Effect(Now)), claim' = claim, ~Claiming(Now)
    PROVE  Follows
<1> DEFINE e == Effect(Now)
<1> SUFFICES ASSUME NEW r \in Roles, NEW v, v = Left(Here, Now, r)
             PROVE  Agrees(v, r)'
  BY DEF Follows
<1>1. world'[r] = IF r \in DOMAIN e THEN (IF e[r] \in Roles THEN world[e[r]] ELSE e[r])
                  ELSE world[r]
  BY DEF Applied, Intended
<1>2. v = IF r \notin DOMAIN e THEN Here[r]
          ELSE IF e[r] \in Roles THEN Here[e[r]] ELSE e[r]
  BY DEF Left
<1>3. \A q \in Roles : world'[r] = world[q] /\ v = Here[q] => Agrees(v, r)'
  BY DEF Agrees, Sees
<1>4. CASE r \notin DOMAIN e
  BY <1>1, <1>2, <1>3, <1>4
<1>5. CASE r \in DOMAIN e /\ e[r] \in Roles
  BY <1>1, <1>2, <1>3, <1>5
<1>6. CASE r \in DOMAIN e /\ e[r] \notin Roles
  <2>1. e[r] \in Contents
    BY <1>6, OutlineFacts
  <2>2. v = world'[r] /\ v \in Contents
    BY <1>1, <1>2, <1>6, <2>1
  <2> QED
    BY <2>2 DEF Contents, Agrees, Sees
<1> QED
  BY <1>4, <1>5, <1>6

\* An abort whose outcome says what became of the target.
LEMMA AbortFollows ==
    ASSUME PlaceInv, Inside, \A r \in Roles : Agrees(Here[r], r), Claiming(Now), Aborted
    PROVE  Follows
<1>1. PICK q \in Now.closes, left \in {"absent", "new"} :
         /\ world' = [world EXCEPT ![q] = left]
         /\ claim' = "NotPublished" => left = "absent"
         /\ claim' = "Published" => left = "new"
  BY DEF Aborted
<1> SUFFICES ASSUME NEW r \in Roles, NEW v, v = Left(Here, Now, r)
             PROVE  Agrees(v, r)'
  BY DEF Follows
<1>2. CASE r \in Now.closes
  <2>1. r = q /\ v = "claimed"
    BY <1>1, <1>2, OutlineFacts DEF Left
  <2>2. world'[r] = left
    BY <1>1, <2>1 DEF PlaceInv
  <2> QED
    BY <1>1, <2>1, <2>2 DEF Agrees, Sees
<1>3. CASE r \notin Now.closes
  <2>1. v = IF Here[r] = "claimed" THEN "unknown" ELSE Here[r]
    BY <1>3 DEF Left
  <2>2. world'[r] = world[r]
    BY <1>1, <1>3 DEF PlaceInv
  <2>3. v = "unknown" \/ (v # "claimed" /\ Sees(v, r))
    BY <2>1 DEF Agrees
  <2> QED
    BY <2>2, <2>3 DEF Agrees, Sees
<1> QED
  BY <1>2, <1>3

\* The comparisons of a check that follows its outline succeed.
LEMMA ExpectedIsSeen ==
    ASSUME PlaceInv, Inside, \A r \in Roles : Agrees(Here[r], r)
    PROVE  /\ Now.kind = "observe" => \A r \in DOMAIN Now.want : Sees(Now.want[r], r)
           /\ Now.kind = "confirm" => world[Now.role] = "data"
<1>1. ASSUME Now.kind = "observe", NEW r \in DOMAIN Now.want
      PROVE  Sees(Now.want[r], r)
  <2>1. r \in Roles /\ Expects(Here, Now)
    BY <1>1, OutlineFacts
  <2>2. \/ Here[r] = Now.want[r] /\ Here[r] # "unknown"
        \/ Now.want[r] = "present" /\ Here[r] \notin {"unknown", "absent", "claimed"}
    BY <1>1, <2>1 DEF Expects
  <2>3. Sees(Here[r], r)
    BY <2>1, <2>2 DEF Agrees
  <2> QED
    BY <2>2, <2>3 DEF Sees
<1>2. ASSUME Now.kind = "confirm" PROVE world[Now.role] = "data"
  <2>1. Now.role \in Roles /\ Here[Now.role] = "data"
    BY <1>2, OutlineFacts DEF Expects
  <2>2. Sees("data", Now.role)
    BY <2>1 DEF Agrees
  <2> QED
    BY <2>2 DEF Sees
<1> QED
  BY <1>1, <1>2

\* Every action of a conforming run follows the outline, or drops the check.
LEMMA ConformingSteps ==
    ASSUME PlaceInv, Conforming, phase = "running", Inside, Next, ~Finish,
           \A r \in Roles : Agrees(Here[r], r)
    PROVE  \/ Advance /\ verdict' = verdict /\ Follows
           \/ phase' = "dropped"
<1>1. ~Lacking /\ ~Broken /\ ~Rogue
  BY DEF Conforming, Lacking, Broken, Rogue
<1>2. ASSUME Advance, verdict' = verdict, world' = world, claim' = claim,
             Now.kind \in {"path", "vet", "record", "observe", "confirm", "refuse", "settle"}
      PROVE  Advance /\ verdict' = verdict /\ Follows
  <2>1. ~Claiming(Now) /\ Effect(Now) = Nothing
    BY <1>2 DEF Claiming, Effect
  <2> QED
    BY <1>2, <2>1, UnchangedFollows
<1>3. CASE DoPath \/ DoVet \/ DoRecord
  BY <1>1, <1>2, <1>3 DEF DoPath, DoVet, DoRecord, At
<1>4. CASE DoPrepare
  <2>1. /\ Now.kind = "prepare" /\ world' = Applied(Now.seed) /\ Advance
        /\ verdict' = verdict /\ claim' = claim
    BY <1>1, <1>4 DEF DoPrepare, PrepareReady, At
  <2>2. Effect(Now) = Now.seed /\ ~Claiming(Now)
    BY <2>1 DEF Effect, Claiming
  <2> QED
    BY <2>1, <2>2, AppliedFollows
<1>5. CASE DoObserve
  <2>1. Now.kind = "observe" /\ world' = world /\ claim' = claim
    BY <1>5 DEF DoObserve, At
  <2>2. Advance /\ verdict' = verdict
    BY <1>1, <1>5, <2>1, ExpectedIsSeen DEF DoObserve
  <2> QED
    BY <1>2, <2>1, <2>2
<1>6. CASE DoConfirm
  <2>1. Now.kind = "confirm" /\ world' = world /\ claim' = claim
    BY <1>6 DEF DoConfirm, At
  <2>2. Advance /\ verdict' = verdict
    BY <1>1, <1>6, <2>1, ExpectedIsSeen DEF DoConfirm
  <2> QED
    BY <1>2, <2>1, <2>2
<1>7. CASE DoFurnish
  <2>1. /\ Now.kind = "furnish" /\ world' = Applied(Furnished) /\ Advance
        /\ verdict' = verdict /\ claim' = claim
    BY <1>1, <1>7 DEF DoFurnish, At
  <2>2. Effect(Now) = Furnished /\ ~Claiming(Now)
    BY <2>1 DEF Effect, Claiming, Furnished
  <2> QED
    BY <2>1, <2>2, AppliedFollows
<1>8. CASE DoCall
  <2>1. /\ Now.kind = "call" /\ Advance /\ verdict' = verdict
        /\ \/ ~Now.claims /\ world' = Applied(Now.effect) /\ claim' = claim
           \/ Now.claims /\ Aborted
    BY <1>1, <1>8 DEF DoCall, CallReturns, CallErrs, At
  <2>2. Effect(Now) = Now.effect /\ (Claiming(Now) <=> Now.claims)
    BY <2>1 DEF Effect, Claiming
  <2> QED
    BY <2>1, <2>2, AppliedFollows, AbortFollows
<1>9. CASE DoRefuse
  BY <1>1, <1>2, <1>9 DEF DoRefuse, Refused, NotRefused, At
<1>10. CASE DoSettle
  BY <1>1, <1>2, <1>10 DEF DoSettle, SettleCloses, SettleFails, At
<1>11. CASE Panic \/ Drop
  BY <1>1, <1>11 DEF Panic, Drop, Interrupted
<1> QED
  BY <1>3, <1>4, <1>5, <1>6, <1>7, <1>8, <1>9, <1>10, <1>11 DEF Next

\* So the check stays on its outline.
LEMMA OutlineStep ==
    ASSUME PlaceInv, OutlineInv, phase = "running", Inside, Next, ~Finish,
           check' = check, provider' = provider, fixture' = fixture
    PROVE  OutlineInv'
<1> SUFFICES ASSUME Conforming PROVE OutlineInv'
  BY DEF OutlineInv, Conforming
<1>1. verdict = "none" /\ \A r \in Roles : Agrees(Here[r], r)
  BY DEF OutlineInv
<1>2. CASE phase' = "dropped"
  BY <1>2 DEF OutlineInv
<1>3. CASE Advance /\ verdict' = verdict /\ Follows
  <2>1. /\ section \in DOMAIN Sections /\ section \in Nat /\ section >= 1
        /\ step \in 1 .. Len(Steps) /\ Len(Steps) \in Nat /\ Len(Sections) \in Nat
        /\ Steps = check.sections[section] /\ Sections = check.sections
        /\ Now = check.sections[section][step] /\ Sections' = Sections
        /\ DOMAIN Sections = 1 .. Len(Sections)
    BY NowFacts, Numbering DEF PlaceInv, Steps, Sections, Now
  <2>2. IsOutline(check, Outline(check))
    BY OutlineAssumption DEF PlaceInv
  <2>3. ASSUME Inside' PROVE \A r \in Roles : Here'[r] = Left(Here, Now, r)
    <3> DEFINE e == Outline(check)
    <3>1. Here' = e[section'][step'] /\ Here = e[section][step]
      BY DEF Here
    <3> HIDE DEF e
    <3>2. CASE step < Len(Steps)
      <4>1. section' = section /\ step' = step + 1
        BY <1>3, <3>2 DEF Advance
      <4>2. step + 1 \in DOMAIN check.sections[section] /\ step + 1 > 1 /\ (step + 1) - 1 = step
        BY <2>1, <3>2, NowFacts
      <4>3. \A r \in Roles : e[section][step + 1][r]
               = Left(e[section][(step + 1) - 1], check.sections[section][(step + 1) - 1], r)
        BY <2>1, <2>2, <4>2 DEF IsOutline, e
      <4> QED
        BY <2>1, <3>1, <4>1, <4>2, <4>3
    <3>3. CASE ~(step < Len(Steps))
      <4>1. section' = section + 1 /\ step' = 1 /\ step = Len(check.sections[section])
        BY <1>3, <2>1, <3>3 DEF Advance
      <4>2. section + 1 \in DOMAIN Sections /\ section + 1 > 1 /\ (section + 1) - 1 = section
        <5>1. section' <= Len(Sections)
          BY <2>1, <2>3 DEF Inside
        <5>2. section + 1 <= Len(Sections)
          BY <4>1, <5>1
        <5> QED
          BY <2>1, <5>2
      <4>3. 1 \in DOMAIN check.sections[section + 1]
        BY <2>1, <4>2, Numbering
      <4>4. \A r \in Roles : e[section + 1][1][r] = Handed(check, e, (section + 1) - 1, r)
        <5>1. section + 1 \in DOMAIN check.sections /\ ~(1 > 1)
          BY <2>1, <4>2
        <5> QED
          BY <2>2, <4>2, <4>3, <5>1 DEF IsOutline, e
      <4>5. \A r : Handed(check, e, section, r) = Left(e[section][step], Now, r)
        BY <2>1, <4>1 DEF Handed
      <4> QED
        BY <3>1, <4>1, <4>2, <4>4, <4>5
    <3> QED
      BY <3>2, <3>3
  <2>4. ASSUME Inside' PROVE \A r \in Roles : Agrees(Here[r], r)'
    <3>1. \A r \in Roles : Here'[r] = Left(Here, Now, r)
      BY <2>3, <2>4
    <3>2. \A r \in Roles : \A v : v = Here'[r] => Agrees(v, r)'
      BY <1>3, <3>1 DEF Follows
    <3> QED
      BY <3>2 DEF Agrees, Sees
  <2>5. phase' = "running" /\ verdict' = "none"
    BY <1>1, <1>3 DEF Advance
  <2> QED
    BY <2>4, <2>5 DEF OutlineInv
<1> QED
  BY <1>1, <1>2, <1>3, ConformingSteps

\* A check that a conforming provider and a full fixture answer never fails and
\* reports the outcome it exists for.
THEOREM ConformingTheorem == Spec => []ConformingPasses
<1>1. Init => OutlineInv
  <2> SUFFICES ASSUME Init PROVE OutlineInv
    OBVIOUS
  <2>1. /\ phase = "running" /\ verdict = "none" /\ section = 1 /\ step = 1
        /\ world = [r \in Roles |-> "absent"]
    BY DEF Init
  <2>2. PlaceInv
    BY InitHolds DEF IInv
  <2>3. ASSUME Inside, NEW r \in Roles PROVE Agrees(Here[r], r)
    <3>1. 1 \in DOMAIN check.sections /\ 1 \in DOMAIN check.sections[1]
      BY <2>1, <2>2, <2>3, NowFacts DEF Steps, Sections
    <3>2. IsOutline(check, Outline(check))
      BY <2>2, OutlineAssumption DEF PlaceInv
    <3>3. Here[r] = "absent"
      BY <2>1, <3>1, <3>2 DEF IsOutline, Here
    <3> QED
      BY <2>1, <3>3 DEF Agrees, Sees
  <2> QED
    BY <2>1, <2>3 DEF OutlineInv
<1>2. IInv /\ OutlineInv /\ [Next]_vars => OutlineInv'
  <2> SUFFICES ASSUME IInv, OutlineInv, [Next]_vars PROVE OutlineInv'
    OBVIOUS
  <2>1. PlaceInv
    BY DEF IInv
  <2>2. CASE Finish
    <3>1. /\ phase = "running" /\ phase' = "done" /\ Note(check.outcome)
          /\ check' = check /\ provider' = provider /\ fixture' = fixture
      BY <2>2 DEF Finish, setting
    <3> QED
      BY <3>1 DEF OutlineInv, Conforming, Note
  <2>3. CASE Next /\ ~Finish
    <3>1. phase = "running" /\ Inside
      BY <2>1, <2>3, KindsOfStep DEF RunStep, Keeps
    <3>2. UNCHANGED setting
      BY <2>3 DEF Next, DoPath, DoPrepare, DoVet, DoRecord, DoObserve, DoFurnish, DoConfirm,
                  DoCall, DoRefuse, DoSettle, Panic, Drop, Interrupted
    <3> QED
      BY <2>1, <2>3, <3>1, <3>2, OutlineStep DEF setting
  <2>4. CASE UNCHANGED vars
    <3>1. UNCHANGED <<check, provider, fixture, section, step, world, claim, verdict, phase>>
      BY <2>4 DEF vars, setting, place
    <3>2. Inside' = Inside /\ Here' = Here
      BY <3>1 DEF Inside, Sections, Here
    <3>3. \A v, r : Agrees(v, r)' <=> Agrees(v, r)
      BY <3>1 DEF Agrees, Sees
    <3> QED
      BY <3>1, <3>2, <3>3 DEF OutlineInv, Conforming
  <2> QED
    BY <2>2, <2>3, <2>4
<1>3. OutlineInv => ConformingPasses
  BY DEF OutlineInv, ConformingPasses, Conforming
<1> QED
  BY <1>1, <1>2, <1>3, InvariantHolds, PTL DEF Spec
================================================================================
