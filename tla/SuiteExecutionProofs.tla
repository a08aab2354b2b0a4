------------------------- MODULE SuiteExecutionProofs -------------------------
(***************************************************************************)
(* Proofs about one execution session, for every catalog and every set of  *)
(* drivers that agree with it as DriversAssumption says, which TLC         *)
(* evaluates for the catalog and the drivers of the suites.                *)
(*                                                                         *)
(* The argument: until something fails, what the report has pending is     *)
(* exactly what lies ahead, each check once, because contracts have no     *)
(* check in common; what was executed is behind.  So the first completion  *)
(* of a check finds it pending, later ones can only be those of a check    *)
(* that notes, and whatever a check builds on was completed before.        *)
(***************************************************************************)
EXTENDS SuiteExecution, SequenceTheorems, TLAPS

Stages == {"new", "dispatching", "executing", "finishing", "ended"}

\* Types, and what is not used before it is filled.
TypeInv ==
    /\ suite \in {"sync", "async"}
    /\ instrumented \in BOOLEAN /\ contentHooks \in BOOLEAN
    /\ stage \in Stages
    /\ selected \in CheckIds \cup {"none"}
    /\ phases \in Seq(Contracts) /\ IsInjective(phases)
    /\ todo \in Seq(CheckIds) /\ IsInjective(todo)
    /\ ran \in Seq(CheckIds)
    /\ report.expected \subseteq CheckIds
    /\ report.pending \subseteq report.expected
    /\ stage = "new" => /\ phases = <<>> /\ todo = <<>> /\ ran = <<>>
                        /\ report = EmptyReport /\ selected = "none"
    /\ stage = "dispatching" => todo = <<>>
    /\ failures # {} => stage \in {"finishing", "ended"}

\* A selected check is the only one; otherwise what the phase has still to
\* execute belongs to none of the phases to come.
AheadInv ==
    /\ selected # "none" => /\ ToSet(todo) \subseteq {selected}
                            /\ Len(phases) \in {0, 1} /\ (todo # <<>> => phases = <<>>)
    /\ selected = "none" => \A i \in DOMAIN todo : PhaseOf(todo[i]) \notin ToSet(phases)
    /\ ~Async => \A i \in DOMAIN todo : Synchronous(todo[i])

\* Until something fails what was executed is not pending, and neither it nor
\* what the phase has still to execute comes before what it builds on.
BehindInv ==
    /\ failures = {} => \A i \in DOMAIN ran : ran[i] \notin report.pending
    /\ selected = "none" =>
          /\ \A i \in DOMAIN todo :
                BuildsOn(todo[i]) \subseteq ToSet(ran) \cup {todo[j] : j \in 1 .. i - 1}
          /\ \A i \in DOMAIN ran :
                BuildsOn(ran[i]) \subseteq {ran[j] : j \in 1 .. i - 1} \ failures

\* The repeated completions of checks that were executed and may note.
Doubled ==
    IF Async \/ contentHooks THEN {}
    ELSE (Noting \cap ToSet(ran)) \X {"duplicate completion"}

\* What is registered and not yet complete is ahead.
PendingInv ==
    /\ report.violations \subseteq Doubled
    /\ failures = {} => report.pending = Ahead
    /\ ~Async => \A i \in DOMAIN ran : Synchronous(ran[i])

IInv == TypeInv /\ AheadInv /\ BehindInv /\ PendingInv

-----------------------------------------------------------------------------
(* Lists and reports.                                                      *)

\* The head of a list without repetitions, and what is left without it.
LEMMA TailFacts ==
    ASSUME NEW S, NEW s \in Seq(S), s # <<>>, IsInjective(s)
    PROVE  /\ Head(s) \in ToSet(s) /\ Head(s) \in S
           /\ Tail(s) \in Seq(S) /\ IsInjective(Tail(s))
           /\ ToSet(s) = ToSet(Tail(s)) \cup {Head(s)} /\ Head(s) \notin ToSet(Tail(s))
           /\ Len(s) \in Nat /\ Len(Tail(s)) = Len(s) - 1
           /\ DOMAIN s = 1 .. Len(s) /\ DOMAIN Tail(s) = 1 .. Len(s) - 1
           /\ Head(s) = s[1] /\ \A i \in 1 .. Len(s) - 1 : Tail(s)[i] = s[i + 1]
<1>1. /\ Len(s) \in Nat /\ Len(s) >= 1 /\ Head(s) = s[1] /\ DOMAIN s = 1 .. Len(s)
      /\ Tail(s) \in Seq(S) /\ Len(Tail(s)) = Len(s) - 1
      /\ DOMAIN Tail(s) = 1 .. Len(s) - 1
      /\ \A i \in 1 .. Len(s) - 1 : Tail(s)[i] = s[i + 1]
  OBVIOUS
<1>2. s[1] \in S /\ s[1] \in ToSet(s)
  BY <1>1 DEF ToSet
<1>3. IsInjective(Tail(s))
  BY <1>1 DEF IsInjective
<1>4. \A i \in 2 .. Len(s) : s[i] # s[1] /\ i - 1 \in 1 .. Len(s) - 1 /\ Tail(s)[i - 1] = s[i]
  BY <1>1 DEF IsInjective
<1>5. \A c \in ToSet(Tail(s)) : c \in ToSet(s) /\ c # Head(s)
  <2> TAKE c \in ToSet(Tail(s))
  <2>1. PICK i \in 1 .. Len(s) - 1 : c = Tail(s)[i]
    BY <1>1 DEF ToSet
  <2>2. i + 1 \in 2 .. Len(s) /\ c = s[i + 1]
    BY <1>1, <2>1
  <2> QED
    BY <1>1, <1>4, <2>2 DEF ToSet
<1>6. \A c \in ToSet(s) : c = Head(s) \/ c \in ToSet(Tail(s))
  <2> TAKE c \in ToSet(s)
  <2>1. PICK i \in 1 .. Len(s) : c = s[i]
    BY <1>1 DEF ToSet
  <2>2. i = 1 \/ i \in 2 .. Len(s)
    BY <1>1
  <2> QED
    BY <1>1, <1>4, <2>1, <2>2 DEF ToSet
<1>7. ToSet(s) = ToSet(Tail(s)) \cup {Head(s)}
  BY <1>1, <1>2, <1>5, <1>6
<1> QED
  BY <1>1, <1>2, <1>3, <1>5, <1>7

\* One more entry at the end.
LEMMA AppendFacts ==
    ASSUME NEW S, NEW s \in Seq(S), NEW e \in S
    PROVE  /\ Append(s, e) \in Seq(S) /\ Len(s) \in Nat
           /\ DOMAIN s = 1 .. Len(s) /\ DOMAIN Append(s, e) = 1 .. Len(s) + 1
           /\ \A i \in 1 .. Len(s) : Append(s, e)[i] = s[i]
           /\ Append(s, e)[Len(s) + 1] = e
           /\ ToSet(Append(s, e)) = ToSet(s) \cup {e}
<1>1. /\ Append(s, e) \in Seq(S) /\ Len(s) \in Nat
      /\ DOMAIN s = 1 .. Len(s) /\ DOMAIN Append(s, e) = 1 .. Len(s) + 1
      /\ \A i \in 1 .. Len(s) : Append(s, e)[i] = s[i]
      /\ Append(s, e)[Len(s) + 1] = e
  OBVIOUS
<1>2. \A x \in ToSet(Append(s, e)) : x \in ToSet(s) \cup {e}
  <2> TAKE x \in ToSet(Append(s, e))
  <2>1. PICK i \in 1 .. Len(s) + 1 : x = Append(s, e)[i]
    BY <1>1 DEF ToSet
  <2>2. i = Len(s) + 1 \/ i \in 1 .. Len(s)
    BY <1>1
  <2> QED
    BY <1>1, <2>1, <2>2 DEF ToSet
<1>3. \A x \in ToSet(s) : x \in ToSet(Append(s, e))
  <2> TAKE x \in ToSet(s)
  <2>1. PICK i \in 1 .. Len(s) : x = s[i]
    BY <1>1 DEF ToSet
  <2> QED
    BY <1>1, <2>1 DEF ToSet
<1>4. e \in ToSet(Append(s, e))
  <2>1. Len(s) + 1 \in 1 .. Len(s) + 1
    BY <1>1
  <2> QED
    BY <1>1, <2>1 DEF ToSet
<1> QED
  BY <1>1, <1>2, <1>3, <1>4

\* A list of one entry, and the empty one.
LEMMA ShortLists ==
    /\ \A x : /\ <<x>> \in Seq({x}) /\ ToSet(<<x>>) = {x} /\ IsInjective(<<x>>)
              /\ Len(<<x>>) = 1 /\ DOMAIN <<x>> = 1 .. 1 /\ <<x>>[1] = x /\ <<x>> # <<>>
    /\ ToSet(<<>>) = {} /\ DOMAIN <<>> = {} /\ Len(<<>>) = 0 /\ IsInjective(<<>>)
<1>1. ASSUME NEW x
      PROVE  /\ <<x>> \in Seq({x}) /\ ToSet(<<x>>) = {x} /\ IsInjective(<<x>>)
             /\ Len(<<x>>) = 1 /\ DOMAIN <<x>> = 1 .. 1 /\ <<x>>[1] = x /\ <<x>> # <<>>
  BY DEF ToSet, IsInjective
<1> QED
  BY <1>1 DEF ToSet, IsInjective

\* Registering in an empty report.
LEMMA RegisterFacts ==
    ASSUME NEW ids
    PROVE  LET r == Register(EmptyReport, ids) IN
           r.expected = ids /\ r.pending = ids /\ r.violations = {}
  BY DEF Register, EmptyReport

\* Completing a pending check, a core check not as skipped.
LEMMA RecordFacts ==
    ASSUME NEW r, NEW id \in r.pending, NEW o,
           o.kind = "SkippedOptional" => id \in OptionalChecks
    PROVE  LET q == Record(r, id, o) IN
           /\ q.expected = r.expected /\ q.pending = r.pending \ {id}
           /\ q.violations = r.violations
<1>1. CompletionViolations(r, id, o) = {}
  BY DEF CompletionViolations
<1> QED
  BY <1>1 DEF Record

\* Completing it once more.
LEMMA RecordAgain ==
    ASSUME NEW r, NEW id \in r.expected, id \notin r.pending, NEW o,
           o.kind = "SkippedOptional" => id \in OptionalChecks
    PROVE  LET q == Record(r, id, o) IN
           /\ q.expected = r.expected /\ q.pending = r.pending
           /\ q.violations = r.violations \cup {<<id, "duplicate completion">>}
<1>1. CompletionViolations(r, id, o) = {<<id, "duplicate completion">>}
  BY DEF CompletionViolations
<1> QED
  BY <1>1 DEF Record

\* What DriversAssumption says of one driver.
LEMMA DriverFacts ==
    ASSUME NEW c \in Contracts, NEW async \in BOOLEAN
    PROVE  LET driven == Driven(c, async) IN
           /\ driven \in Seq(CheckIds) /\ IsInjective(driven)
           /\ ToSet(driven) = ToSet(Listed(c, async)) /\ ToSet(driven) \subseteq CheckIds
           /\ \A id \in ToSet(driven) : PhaseOf(id) = c
           /\ \A i \in DOMAIN driven :
                 /\ PhaseOf(driven[i]) = c
                 /\ async \/ Synchronous(driven[i])
                 /\ BuildsOn(driven[i]) \subseteq {driven[j] : j \in 1 .. i - 1}
<1> DEFINE driven == Driven(c, async)
<1>1. /\ driven \in Seq(CheckIds) /\ IsInjective(driven)
      /\ ToSet(driven) = ToSet(Listed(c, async))
      /\ \A i \in DOMAIN driven :
            /\ PhaseOf(driven[i]) = c
            /\ async \/ Synchronous(driven[i])
            /\ BuildsOn(driven[i]) \subseteq {driven[j] : j \in 1 .. i - 1}
  BY DriversAssumption DEF DriverAgrees
<1> HIDE DEF driven
<1>2. /\ \A id \in ToSet(driven) : PhaseOf(id) = c
      /\ ToSet(driven) \subseteq CheckIds
  BY <1>1 DEF ToSet
<1> QED
  BY <1>1, <1>2 DEF driven

-----------------------------------------------------------------------------
(* Every step keeps the invariant.                                         *)

\* The checks of the phases to come.
Later == UNION {ToSet(Driven(c, Async)) : c \in ToSet(phases)}

\* Nothing in a later phase belongs to another.
LEMMA LaterFacts ==
    ASSUME TypeInv
    PROVE  /\ Async \in BOOLEAN /\ ToSet(phases) \subseteq Contracts
           /\ \A id \in Later : id \in CheckIds /\ PhaseOf(id) \in ToSet(phases)
           /\ selected = "none" => Ahead = ToSet(todo) \cup Later
           /\ phases = <<>> => Later = {}
<1>1. Async \in BOOLEAN /\ ToSet(phases) \subseteq Contracts
  BY DEF TypeInv, Async, ToSet
<1>2. \A id \in Later : id \in CheckIds /\ PhaseOf(id) \in ToSet(phases)
  <2> TAKE id \in Later
  <2>1. PICK c \in ToSet(phases) : id \in ToSet(Driven(c, Async))
    BY DEF Later
  <2> QED
    BY <1>1, <2>1, DriverFacts, Zenon
<1>3. selected = "none" => Ahead = ToSet(todo) \cup Later
  BY DEF Ahead, Later
<1>4. phases = <<>> => Later = {}
  BY ShortLists DEF Later
<1> QED
  BY <1>1, <1>2, <1>3, <1>4

\* A session is created.
LEMMA InitEstablishes == Init => IInv
<1> SUFFICES ASSUME Init PROVE IInv
  OBVIOUS
<1>1. /\ suite \in {"sync", "async"}
      /\ instrumented \in BOOLEAN /\ contentHooks \in BOOLEAN
      /\ stage = "new" /\ selected = "none"
      /\ phases = <<>> /\ todo = <<>> /\ ran = <<>>
      /\ report = EmptyReport /\ failures = {}
  BY DEF Init
<1>2. report.expected = {} /\ report.pending = {} /\ report.violations = {}
  BY <1>1 DEF EmptyReport
<1>3. TypeInv
  BY <1>1, <1>2, ShortLists DEF TypeInv, Stages
<1>4. AheadInv /\ BehindInv
  BY <1>1, <1>2, ShortLists DEF AheadInv, BehindInv
<1>5. Ahead = {}
  BY <1>1, <1>3, LaterFacts, ShortLists
<1> QED
  BY <1>1, <1>2, <1>3, <1>4, <1>5, ShortLists DEF IInv, PendingInv

\* run_all, run_contract and run_check, each over the contracts it selects.
LEMMA StartStep ==
    ASSUME IInv, NEW contracts \in Seq(Contracts), IsInjective(contracts),
           NEW selection \in CheckIds \cup {"none"},
           selection # "none" => Len(contracts) = 1,
           Start(contracts, selection)
    PROVE  IInv'
<1>1. /\ stage = "new" /\ stage' = "dispatching" /\ selected' = selection
      /\ phases' = contracts
      /\ report' = Register(report, Registered(contracts, selection))
      /\ suite' = suite /\ instrumented' = instrumented /\ contentHooks' = contentHooks
      /\ todo' = todo /\ ran' = ran /\ failures' = failures
  BY DEF Start, setting
<1>2. /\ suite \in {"sync", "async"}
      /\ instrumented \in BOOLEAN /\ contentHooks \in BOOLEAN
      /\ todo = <<>> /\ ran = <<>> /\ report = EmptyReport /\ failures = {}
  BY <1>1 DEF IInv, TypeInv
<1> DEFINE ids == Registered(contracts, selection)
<1>3. Async \in BOOLEAN /\ Async' = Async /\ ToSet(contracts) \subseteq Contracts
  BY <1>1 DEF Async, ToSet
<1>4. ids = IF selection # "none" THEN {selection}
            ELSE UNION {ToSet(Driven(c, Async)) : c \in ToSet(contracts)}
  <2>1. \A c \in ToSet(contracts) : ToSet(Driven(c, Async)) = ToSet(Listed(c, Async))
    BY <1>3, DriverFacts
  <2>2. CASE selection # "none"
    BY <2>2 DEF Registered
  <2>3. CASE selection = "none"
    <3>1. ids = UNION {ToSet(Listed(c, Async)) : c \in ToSet(contracts)}
      BY <2>3 DEF Registered
    <3> QED
      BY <2>1, <2>3, <3>1
  <2> QED
    BY <2>2, <2>3
<1>5. ids \subseteq CheckIds
  <2>1. \A c \in ToSet(contracts) : ToSet(Driven(c, Async)) \subseteq CheckIds
    BY <1>3, DriverFacts
  <2> QED
    BY <1>4, <2>1
<1> HIDE DEF ids
<1>6. report'.expected = ids /\ report'.pending = ids /\ report'.violations = {}
  BY <1>1, <1>2, RegisterFacts DEF ids
<1>7. TypeInv'
  BY <1>1, <1>2, <1>5, <1>6, ShortLists DEF TypeInv, Stages
<1>8. AheadInv'
  BY <1>1, <1>2, <1>3, ShortLists DEF AheadInv
<1>9. BehindInv'
  BY <1>1, <1>2, ShortLists DEF BehindInv
<1>10. Ahead' = ids
  <2>1. ToSet(todo') = {}
    BY <1>1, <1>2, ShortLists
  <2>2. CASE selection # "none"
    <3>1. phases' # <<>>
      BY <1>1, <2>2, ShortLists
    <3>2. Ahead' = {selection} \cup ToSet(todo')
      BY <1>1, <2>2, <3>1 DEF Ahead
    <3> QED
      BY <1>4, <2>1, <2>2, <3>2
  <2>3. CASE selection = "none"
    <3>1. Ahead' = ToSet(todo') \cup UNION {ToSet(Driven(c, Async')) : c \in ToSet(phases')}
      BY <1>1, <2>3 DEF Ahead
    <3> QED
      BY <1>1, <1>3, <1>4, <2>1, <2>3, <3>1
  <2> QED
    BY <2>2, <2>3
<1> QED
  BY <1>1, <1>2, <1>6, <1>7, <1>8, <1>9, <1>10, ShortLists DEF IInv, PendingInv

\* The three entry points.
LEMMA StartSteps ==
    ASSUME IInv, RunAll \/ RunContract \/ RunCheck
    PROVE  IInv'
<1>1. ASSUME RunAll PROVE IInv'
  BY <1>1, StartStep, DriversAssumption DEF RunAll
<1>2. ASSUME NEW c \in Contracts
      PROVE  <<c>> \in Seq(Contracts) /\ IsInjective(<<c>>) /\ Len(<<c>>) = 1
  BY ShortLists
<1>3. ASSUME RunContract PROVE IInv'
  <2>1. PICK c \in Contracts : Start(<<c>>, "none")
    BY <1>3 DEF RunContract
  <2> QED
    BY <1>2, <2>1, StartStep
<1>4. ASSUME RunCheck PROVE IInv'
  <2>1. PICK id \in CheckIds : Start(<<PhaseOf(id)>>, id)
    BY <1>4 DEF RunCheck
  <2>2. PhaseOf(id) \in Contracts
    BY DriversAssumption
  <2> QED
    BY <1>2, <2>1, <2>2, StartStep
<1> QED
  BY <1>1, <1>3, <1>4

\* The next phase: its driver's loop, the selected check, or its refusal.
LEMMA DispatchStep ==
    ASSUME IInv, Dispatch
    PROVE  IInv'
<1>1. /\ stage = "dispatching" /\ phases # <<>> /\ phases' = Tail(phases)
      /\ suite' = suite /\ instrumented' = instrumented /\ contentHooks' = contentHooks
      /\ selected' = selected /\ ran' = ran
  BY DEF Dispatch, setting
<1>2. TypeInv /\ AheadInv /\ BehindInv /\ PendingInv
  BY DEF IInv
<1>3. /\ suite \in {"sync", "async"}
      /\ instrumented \in BOOLEAN /\ contentHooks \in BOOLEAN
      /\ selected \in CheckIds \cup {"none"} /\ ran \in Seq(CheckIds)
      /\ phases \in Seq(Contracts) /\ IsInjective(phases)
      /\ todo = <<>> /\ failures = {}
      /\ report.expected \subseteq CheckIds /\ report.pending \subseteq report.expected
  BY <1>1, <1>2 DEF TypeInv
<1>4. /\ Head(phases) \in Contracts
      /\ Tail(phases) \in Seq(Contracts) /\ IsInjective(Tail(phases))
      /\ ToSet(phases) = ToSet(Tail(phases)) \cup {Head(phases)}
      /\ Head(phases) \notin ToSet(Tail(phases))
      /\ Len(phases) \in Nat /\ Len(Tail(phases)) = Len(phases) - 1
  BY <1>1, <1>3, TailFacts
<1>5. Async \in BOOLEAN /\ Async' = Async
  BY <1>1 DEF Async
<1>6. /\ report.violations \subseteq Doubled /\ Doubled' = Doubled
      /\ report.pending = Ahead
      /\ ~Async => \A i \in DOMAIN ran : Synchronous(ran[i])
  BY <1>1, <1>2, <1>3, <1>5 DEF PendingInv, Doubled
<1>7. ASSUME selected # "none"
      PROVE  Ahead = {selected} /\ Tail(phases) = <<>> /\ selected \in CheckIds
  <2>1. Ahead = {selected} \cup ToSet(todo)
    BY <1>1, <1>7 DEF Ahead
  <2>2. Len(Tail(phases)) = 0
    BY <1>1, <1>2, <1>3, <1>4, <1>7, ShortLists DEF AheadInv
  <2>3. Tail(phases) = <<>>
    BY <1>4, <2>2, EmptySeq
  <2> QED
    BY <1>3, <1>7, <2>1, <2>3, ShortLists
<1>8. CASE /\ selected # "none" /\ (Async \/ Synchronous(selected))
           /\ todo' = <<selected>> /\ stage' = "executing"
           /\ report' = report /\ failures' = failures
  <2>1. todo' \in Seq(CheckIds) /\ IsInjective(todo') /\ ToSet(todo') = {selected}
    BY <1>7, <1>8, ShortLists
  <2>2. TypeInv'
    BY <1>1, <1>3, <1>4, <1>8, <2>1 DEF TypeInv, Stages
  <2>3. AheadInv'
    <3>1. phases' = <<>> /\ Len(phases') = 0 /\ selected' # "none" /\ ToSet(todo') = {selected'}
      BY <1>1, <1>7, <1>8, <2>1, ShortLists
    <3>2. \A i \in DOMAIN todo' : todo'[i] = selected
      BY <1>8, ShortLists
    <3> QED
      BY <1>5, <1>8, <3>1, <3>2 DEF AheadInv
  <2>4. BehindInv'
    BY <1>1, <1>2, <1>8 DEF BehindInv
  <2>5. Ahead' = {selected}
    BY <1>1, <1>7, <1>8, <2>1 DEF Ahead
  <2> QED
    BY <1>1, <1>5, <1>6, <1>7, <1>8, <2>2, <2>3, <2>4, <2>5 DEF IInv, PendingInv
<1>9. CASE selected # "none" /\ FailRun(report, selected) /\ todo' = todo
  <2>1. /\ failures' = {selected} /\ stage' = "finishing"
        /\ report' = Record(report, selected, Reasoned("Failed"))
    BY <1>3, <1>9 DEF FailRun
  <2>2. /\ report'.expected = report.expected /\ report'.pending = report.pending \ {selected}
        /\ report'.violations = report.violations
    <3>1. /\ selected \in report.pending /\ selected \in report.expected
          /\ Reasoned("Failed").kind = "Failed"
      BY <1>3, <1>6, <1>7, <1>9 DEF Reasoned
    <3> QED
      BY <2>1, <3>1, RecordFacts
  <2>3. TypeInv'
    <3>1. todo' = <<>> /\ todo' \in Seq(CheckIds) /\ IsInjective(todo')
      BY <1>3, <1>9, ShortLists
    <3> QED
      BY <1>1, <1>3, <1>4, <2>1, <2>2, <3>1 DEF TypeInv, Stages
  <2>4. AheadInv'
    <3>1. todo' = <<>> /\ phases' = <<>> /\ selected' # "none"
      BY <1>1, <1>3, <1>7, <1>9
    <3> QED
      BY <3>1, ShortLists DEF AheadInv
  <2>5. BehindInv'
    BY <1>1, <1>9, <2>1 DEF BehindInv
  <2> QED
    BY <1>1, <1>5, <1>6, <2>1, <2>2, <2>3, <2>4, <2>5 DEF IInv, PendingInv
<1>10. CASE /\ selected = "none" /\ todo' = Driven(Head(phases), Async)
            /\ stage' = "executing" /\ report' = report /\ failures' = failures
  <2>1. /\ todo' \in Seq(CheckIds) /\ IsInjective(todo')
        /\ \A i \in DOMAIN todo' :
              /\ PhaseOf(todo'[i]) = Head(phases)
              /\ Async \/ Synchronous(todo'[i])
              /\ BuildsOn(todo'[i]) \subseteq {todo'[j] : j \in 1 .. i - 1}
    BY <1>4, <1>5, <1>10, DriverFacts
  <2>2. TypeInv'
    BY <1>1, <1>3, <1>4, <1>10, <2>1 DEF TypeInv, Stages
  <2>3. AheadInv'
    BY <1>1, <1>4, <1>5, <1>10, <2>1 DEF AheadInv
  <2>4. BehindInv'
    BY <1>1, <1>2, <1>10, <2>1 DEF BehindInv
  <2>5. Ahead' = Ahead
    <3>1. Ahead = ToSet(todo) \cup UNION {ToSet(Driven(c, Async)) : c \in ToSet(phases)}
      BY <1>10 DEF Ahead
    <3>2. Ahead' = ToSet(todo') \cup UNION {ToSet(Driven(c, Async)) : c \in ToSet(Tail(phases))}
      BY <1>1, <1>5, <1>10 DEF Ahead
    <3> QED
      BY <1>3, <1>4, <1>10, <3>1, <3>2, ShortLists
  <2> QED
    BY <1>1, <1>5, <1>6, <1>10, <2>2, <2>3, <2>4, <2>5 DEF IInv, PendingInv
<1> QED
  BY <1>8, <1>9, <1>10 DEF Dispatch, DispatchCheck

\* A check is entered: what is ahead loses it, what is behind gains it.
LEMMA EnterFacts ==
    ASSUME IInv, Enter
    PROVE  /\ todo'  \in Seq(CheckIds) /\ IsInjective(todo')
           /\ ran' \in Seq(CheckIds) /\ Head(todo) \in CheckIds
           /\ failures = {} /\ Head(todo) \in report.pending
           /\ ToSet(ran) \cap report.pending = {}
           /\ ToSet(ran') = ToSet(ran) \cup {Head(todo)}
           /\ report.pending \ {Head(todo)} = Ahead'
           /\ AheadInv'
           /\ ~Async' => \A i \in DOMAIN ran' : Synchronous(ran'[i])
           /\ selected' = "none" =>
                 /\ \A i \in DOMAIN todo' :
                       BuildsOn(todo'[i]) \subseteq ToSet(ran') \cup {todo'[j] : j \in 1 .. i - 1}
                 /\ \A i \in DOMAIN ran' :
                       /\ BuildsOn(ran'[i]) \subseteq {ran'[j] : j \in 1 .. i - 1}
                       /\ BuildsOn(ran'[i]) \subseteq ToSet(ran)
<1> DEFINE id == Head(todo)
<1>1. /\ stage = "executing" /\ todo # <<>>
      /\ ran' = Append(ran, id) /\ todo' = Tail(todo)
      /\ suite' = suite /\ instrumented' = instrumented /\ contentHooks' = contentHooks
      /\ selected' = selected /\ phases' = phases
  BY DEF Enter, setting
<1>2. TypeInv /\ AheadInv /\ BehindInv /\ PendingInv
  BY DEF IInv
<1>3. /\ todo \in Seq(CheckIds) /\ IsInjective(todo) /\ ran \in Seq(CheckIds)
      /\ failures = {}
  BY <1>1, <1>2 DEF TypeInv
<1>4. /\ id \in ToSet(todo) /\ id \in CheckIds
      /\ todo' \in Seq(CheckIds) /\ IsInjective(todo')
      /\ ToSet(todo) = ToSet(todo') \cup {id} /\ id \notin ToSet(todo')
      /\ Len(todo) \in Nat /\ DOMAIN todo = 1 .. Len(todo) /\ DOMAIN todo' = 1 .. Len(todo) - 1
      /\ id = todo[1] /\ \A i \in 1 .. Len(todo) - 1 : todo'[i] = todo[i + 1]
  BY <1>1, <1>3, TailFacts
<1>5. /\ ran' \in Seq(CheckIds) /\ Len(ran) \in Nat
      /\ DOMAIN ran = 1 .. Len(ran) /\ DOMAIN ran' = 1 .. Len(ran) + 1
      /\ \A i \in 1 .. Len(ran) : ran'[i] = ran[i]
      /\ ran'[Len(ran) + 1] = id /\ ToSet(ran') = ToSet(ran) \cup {id}
  BY <1>1, <1>3, <1>4, AppendFacts
<1> HIDE DEF id
<1>6. Async' = Async /\ Async \in BOOLEAN
  BY <1>1 DEF Async
<1>7. /\ report.pending = Ahead
      /\ ~Async => \A i \in DOMAIN ran : Synchronous(ran[i])
  BY <1>2, <1>3 DEF PendingInv
<1>8. ToSet(ran) \cap report.pending = {}
  <2>1. \A i \in DOMAIN ran : ran[i] \notin report.pending
    BY <1>2, <1>3 DEF BehindInv
  <2> QED
    BY <2>1 DEF ToSet
<1>9. id \in report.pending /\ report.pending \ {id} = Ahead'
  <2>1. CASE selected # "none"
    <3>1. phases = <<>> /\ ToSet(todo) = {selected}
      BY <1>1, <1>2, <1>4, <2>1 DEF AheadInv
    <3>2. Ahead = ToSet(todo) /\ Ahead' = ToSet(todo')
      BY <1>1, <2>1, <3>1 DEF Ahead
    <3> QED
      BY <1>4, <1>7, <3>2
  <2>2. CASE selected = "none"
    <3>1. Ahead = ToSet(todo) \cup Later
      BY <1>2, <2>2, LaterFacts
    <3>2. Ahead' = ToSet(todo') \cup Later
      BY <1>1, <1>6, <2>2 DEF Ahead, Later
    <3>3. id \notin Later
      <4>1. 1 \in DOMAIN todo
        BY <1>4 DEF ToSet
      <4>2. PhaseOf(id) \notin ToSet(phases)
        BY <1>2, <1>4, <2>2, <4>1 DEF AheadInv
      <4> QED
        BY <1>2, <4>2, LaterFacts
    <3> QED
      BY <1>4, <1>7, <3>1, <3>2, <3>3
  <2> QED
    BY <2>1, <2>2
<1>10. AheadInv'
  <2>1. \A i \in DOMAIN todo' : i + 1 \in DOMAIN todo /\ todo'[i] = todo[i + 1]
    BY <1>4
  <2>2. todo' # <<>> => phases = <<>> \/ selected = "none"
    BY <1>1, <1>2 DEF AheadInv
  <2> QED
    BY <1>1, <1>2, <1>4, <1>6, <2>1, <2>2 DEF AheadInv
<1>11. ~Async' => \A i \in DOMAIN ran' : Synchronous(ran'[i])
  <2>1. 1 \in DOMAIN todo
    BY <1>4 DEF ToSet
  <2>2. ~Async => Synchronous(id)
    BY <1>2, <1>4, <2>1 DEF AheadInv
  <2>3. \A i \in DOMAIN ran' : i \in DOMAIN ran \/ i = Len(ran) + 1
    BY <1>5
  <2> QED
    BY <1>5, <1>6, <1>7, <2>2, <2>3
<1>12. ASSUME selected' = "none"
       PROVE  /\ \A i \in DOMAIN todo' :
                    BuildsOn(todo'[i]) \subseteq ToSet(ran') \cup {todo'[j] : j \in 1 .. i - 1}
              /\ \A i \in DOMAIN ran' :
                    /\ BuildsOn(ran'[i]) \subseteq {ran'[j] : j \in 1 .. i - 1}
                    /\ BuildsOn(ran'[i]) \subseteq ToSet(ran)
  <2>1. /\ \A i \in DOMAIN todo :
              BuildsOn(todo[i]) \subseteq ToSet(ran) \cup {todo[j] : j \in 1 .. i - 1}
        /\ \A i \in DOMAIN ran : BuildsOn(ran[i]) \subseteq {ran[j] : j \in 1 .. i - 1}
    BY <1>1, <1>2, <1>12 DEF BehindInv
  <2>2. ASSUME NEW i \in DOMAIN todo', NEW x \in BuildsOn(todo'[i])
        PROVE  x \in ToSet(ran') \cup {todo'[j] : j \in 1 .. i - 1}
    <3>1. i \in 1 .. Len(todo) - 1 /\ i + 1 \in DOMAIN todo /\ todo'[i] = todo[i + 1]
      BY <1>4
    <3>2. x \in ToSet(ran) \/ \E j \in 1 .. i : x = todo[j]
      BY <2>1, <3>1
    <3>3. ASSUME NEW j \in 1 .. i, x = todo[j]
          PROVE  x = id \/ x \in {todo'[k] : k \in 1 .. i - 1}
      <4>1. CASE j = 1
        BY <1>4, <3>3, <4>1
      <4>2. CASE j > 1
        <5>1. j - 1 \in 1 .. i - 1 /\ todo'[j - 1] = todo[j]
          BY <1>4, <3>1, <4>2
        <5> QED
          BY <3>3, <5>1
      <4> QED
        BY <4>1, <4>2
    <3> QED
      BY <1>5, <3>2, <3>3
  <2>3. ASSUME NEW i \in DOMAIN ran', NEW x \in BuildsOn(ran'[i])
        PROVE  x \in {ran'[j] : j \in 1 .. i - 1} /\ x \in ToSet(ran)
    <3>1. CASE i \in 1 .. Len(ran)
      <4>1. PICK j \in 1 .. i - 1 : x = ran[j]
        BY <1>5, <2>1, <2>3, <3>1
      <4> QED
        BY <1>5, <3>1, <4>1 DEF ToSet
    <3>2. CASE i = Len(ran) + 1
      <4>1. 1 \in DOMAIN todo
        BY <1>4 DEF ToSet
      <4>2. x \in ToSet(ran)
        BY <1>4, <1>5, <2>1, <2>3, <3>2, <4>1
      <4>3. PICK j \in 1 .. Len(ran) : x = ran[j]
        BY <1>5, <4>2 DEF ToSet
      <4>4. x = ran'[j] /\ j \in 1 .. i - 1
        BY <1>5, <3>2, <4>3
      <4> QED
        BY <4>2, <4>4
    <3> QED
      BY <1>5, <3>1, <3>2
  <2> QED
    BY <2>2, <2>3
<1> QED
  BY <1>3, <1>4, <1>5, <1>8, <1>9, <1>10, <1>11, <1>12 DEF id

\* The end of a check: it is completed, or something fails that was not yet
\* executed and the run goes on to finish.
LEMMA EnterStep ==
    ASSUME IInv, Enter,
           report'.expected = report.expected, report'.violations \subseteq Doubled',
           \/ /\ report'.pending = report.pending \ {Head(todo)}
              /\ failures' = {} /\ stage' = stage
           \/ /\ report'.pending \subseteq report.pending
              /\ failures' # {} /\ failures' \cap ToSet(ran) = {} /\ stage' = "finishing"
    PROVE  IInv'
<1>1. /\ stage = "executing"
      /\ suite' = suite /\ instrumented' = instrumented /\ contentHooks' = contentHooks
      /\ selected' = selected /\ phases' = phases
  BY DEF Enter, setting
<1>2. /\ suite \in {"sync", "async"}
      /\ instrumented \in BOOLEAN /\ contentHooks \in BOOLEAN
      /\ selected \in CheckIds \cup {"none"}
      /\ phases \in Seq(Contracts) /\ IsInjective(phases)
      /\ report.expected \subseteq CheckIds /\ report.pending \subseteq report.expected
  BY DEF IInv, TypeInv
<1>3. /\ todo' \in Seq(CheckIds) /\ IsInjective(todo') /\ ran' \in Seq(CheckIds)
      /\ AheadInv'
      /\ ~Async' => \A i \in DOMAIN ran' : Synchronous(ran'[i])
  BY EnterFacts
<1>4. /\ ToSet(ran) \cap report.pending = {}
      /\ ToSet(ran') = ToSet(ran) \cup {Head(todo)}
      /\ report.pending \ {Head(todo)} = Ahead'
  BY EnterFacts
<1>5. selected' = "none" =>
         /\ \A i \in DOMAIN todo' :
               BuildsOn(todo'[i]) \subseteq ToSet(ran') \cup {todo'[j] : j \in 1 .. i - 1}
         /\ \A i \in DOMAIN ran' :
               /\ BuildsOn(ran'[i]) \subseteq {ran'[j] : j \in 1 .. i - 1}
               /\ BuildsOn(ran'[i]) \subseteq ToSet(ran)
  BY EnterFacts
<1>6. report'.pending \subseteq report'.expected
  BY <1>2
<1>7. TypeInv'
  BY <1>1, <1>2, <1>3, <1>6 DEF TypeInv, Stages
<1>8. failures' \cap ToSet(ran) = {}
  OBVIOUS
<1>9. failures' = {} => \A i \in DOMAIN ran' : ran'[i] \notin report'.pending
  <2>1. \A i \in DOMAIN ran' : ran'[i] \in ToSet(ran) \cup {Head(todo)}
    BY <1>4 DEF ToSet
  <2> QED
    BY <1>4, <2>1
<1>10. BehindInv'
  BY <1>5, <1>8, <1>9 DEF BehindInv
<1>11. PendingInv'
  BY <1>3, <1>4 DEF PendingInv
<1> QED
  BY <1>3, <1>7, <1>10, <1>11 DEF IInv

\* The report a check leaves behind, and the one its completion makes of it: the
\* check is no longer pending, and only one that noted something is charged.
LEMMA NotedFacts ==
    ASSUME IInv, Enter, NEW r \in Noted(Head(todo))
    PROVE  /\ r.expected = report.expected
           /\ r.pending \in {report.pending, report.pending \ {Head(todo)}}
           /\ r.violations \subseteq Doubled'
           /\ \A o : (o.kind = "SkippedOptional" => Head(todo) \in OptionalChecks) =>
                 LET q == Record(r, Head(todo), o) IN
                 /\ q.expected = report.expected
                 /\ q.pending = report.pending \ {Head(todo)}
                 /\ q.violations \subseteq Doubled'
<1> DEFINE id == Head(todo)
           o1 == Reasoned("Unverified")
           once == Record(report, id, o1)
           twice == Record(once, id, o1)
           again == <<id, "duplicate completion">>
<1>1. /\ id \in report.pending /\ id \in report.expected /\ report.violations \subseteq Doubled
      /\ ToSet(ran') = ToSet(ran) \cup {id}
  BY EnterFacts DEF IInv, TypeInv, PendingInv
<1>2. Async' = Async /\ contentHooks' = contentHooks
  BY DEF Enter, setting, Async
<1>3. Doubled \subseteq Doubled'
  BY <1>1, <1>2 DEF Doubled
<1>4. o1.kind # "SkippedOptional"
  BY DEF Reasoned
<1>5. r = report \/ (~Async /\ ~contentHooks /\ id \in Noting /\ r \in {once, twice})
  BY DEF Noted
<1> HIDE DEF id, o1
<1>6. /\ once.expected = report.expected /\ once.pending = report.pending \ {id}
      /\ once.violations = report.violations
  BY <1>1, <1>4, RecordFacts
<1> HIDE DEF once
<1>7. /\ twice.expected = report.expected /\ twice.pending = report.pending \ {id}
      /\ twice.violations = report.violations \cup {again}
  <2>1. id \in once.expected /\ id \notin once.pending
    BY <1>1, <1>6
  <2>2. /\ twice.expected = once.expected /\ twice.pending = once.pending
        /\ twice.violations = once.violations \cup {again}
    BY <1>4, <2>1, RecordAgain
  <2> QED
    BY <1>6, <2>2
<1> HIDE DEF twice
<1>8. r # report => again \in Doubled'
  BY <1>1, <1>2, <1>5 DEF Doubled
<1>9. /\ r.expected = report.expected
      /\ r.pending \in {report.pending, report.pending \ {id}}
      /\ r.violations \subseteq Doubled'
  <2>1. CASE r = report
    BY <1>1, <1>3, <2>1
  <2>2. CASE r = once
    BY <1>1, <1>3, <1>6, <2>2
  <2>3. CASE r # report /\ r = twice
    BY <1>1, <1>3, <1>7, <1>8, <2>3
  <2> QED
    BY <1>5, <2>1, <2>2, <2>3
<1>10. ASSUME NEW o, o.kind = "SkippedOptional" => id \in OptionalChecks
       PROVE  LET q == Record(r, id, o) IN
              /\ q.expected = report.expected /\ q.pending = report.pending \ {id}
              /\ q.violations \subseteq Doubled'
  <2> DEFINE q == Record(r, id, o)
  <2>1. CASE id \in r.pending
    <3>1. /\ q.expected = r.expected /\ q.pending = r.pending \ {id}
          /\ q.violations = r.violations
      BY <1>10, <2>1, RecordFacts
    <3> QED
      BY <1>9, <3>1
  <2>2. CASE id \notin r.pending
    <3>1. /\ q.expected = r.expected /\ q.pending = r.pending
          /\ q.violations = r.violations \cup {again}
      BY <1>1, <1>9, <1>10, <2>2, RecordAgain
    <3>2. r # report
      BY <1>1, <2>2
    <3> QED
      BY <1>1, <1>8, <1>9, <2>2, <3>1, <3>2
  <2> QED
    BY <2>1, <2>2
<1> QED
  BY <1>9, <1>10 DEF id

\* A check that completes, returns an error or panics.
LEMMA CheckEnds ==
    ASSUME IInv, Complete \/ ReturnErr \/ Panic
    PROVE  IInv'
<1>1. Enter
  BY DEF Complete, ReturnErr, Panic
<1>2. /\ failures = {} /\ Head(todo) \in report.pending /\ Head(todo) \in CheckIds
      /\ ToSet(ran) \cap report.pending = {} /\ ToSet(ran) \subseteq CheckIds
  <2>1. ran \in Seq(CheckIds)
    BY DEF IInv, TypeInv
  <2> QED
    BY <1>1, <2>1, EnterFacts DEF ToSet
<1>3. CASE Complete
  <2>1. PICK r \in Noted(Head(todo)) :
           report' = Record(r, Head(todo), Reasoned(Outcome(r, Head(todo))))
    BY <1>3 DEF Complete
  <2>2. LET o == Reasoned(Outcome(r, Head(todo))) IN
           o.kind = "SkippedOptional" => Head(todo) \in OptionalChecks
    BY DEF Reasoned, Outcome
  <2>3. failures' = failures /\ stage' = stage
    BY <1>3 DEF Complete
  <2>4. /\ report'.expected = report.expected /\ report'.violations \subseteq Doubled'
        /\ report'.pending = report.pending \ {Head(todo)}
    BY <1>1, <2>1, <2>2, NotedFacts
  <2> QED
    BY <1>1, <1>2, <2>3, <2>4, EnterStep
<1>4. ASSUME NEW r \in Noted(Head(todo)), FailRun(r, Head(todo))
      PROVE  IInv'
  <2>1. /\ failures' = {Head(todo)} /\ stage' = "finishing"
        /\ report' = Record(r, Head(todo), Reasoned("Failed"))
    BY <1>2, <1>4, DriversAssumption DEF FailRun
  <2>2. Reasoned("Failed").kind = "Failed"
    BY DEF Reasoned
  <2>3. /\ report'.expected = report.expected /\ report'.violations \subseteq Doubled'
        /\ report'.pending = report.pending \ {Head(todo)}
    BY <1>1, <2>1, <2>2, NotedFacts
  <2> QED
    BY <1>1, <1>2, <2>1, <2>3, EnterStep
<1>5. CASE ReturnErr
  BY <1>4, <1>5 DEF ReturnErr
<1>6. CASE Panic /\ selected = "none"
  <2>1. PICK r \in Noted(Head(todo)) : FailRun(r, "none")
    BY <1>6 DEF Panic
  <2>2. /\ failures' = {"none"} /\ stage' = "finishing" /\ report' = r
    BY <1>2, <2>1 DEF FailRun
  <2>3. /\ report'.expected = report.expected /\ report'.violations \subseteq Doubled'
        /\ report'.pending \subseteq report.pending
    BY <1>1, <2>1, <2>2, NotedFacts
  <2> QED
    BY <1>1, <1>2, <2>2, <2>3, EnterStep, DriversAssumption
<1>7. CASE Panic /\ selected # "none"
  <2>1. Head(todo) = selected
    <3>1. todo \in Seq(CheckIds) /\ todo # <<>> /\ IsInjective(todo)
      BY <1>1 DEF Enter, IInv, TypeInv
    <3>2. Head(todo) \in ToSet(todo)
      BY <3>1, TailFacts
    <3> QED
      BY <1>7, <3>2 DEF IInv, AheadInv
  <2> QED
    BY <1>4, <1>7, <2>1 DEF Panic
<1> QED
  BY <1>3, <1>5, <1>6, <1>7

\* The end of a phase, the end of the run, and a second run.
LEMMA EndSteps ==
    ASSUME IInv, EndPhase \/ Finish \/ RunAgain \/ UNCHANGED vars
    PROVE  IInv'
<1>1. /\ suite' = suite /\ instrumented' = instrumented /\ contentHooks' = contentHooks
      /\ selected' = selected /\ phases' = phases /\ todo' = todo /\ ran' = ran /\ report' = report
  BY DEF EndPhase, Finish, RunAgain, vars, setting
<1>2. /\ Async' = Async /\ Ahead' = Ahead /\ Doubled' = Doubled
  BY <1>1 DEF Async, Ahead, Doubled
<1>3. \/ failures' = failures /\ stage' = stage
      \/ failures' = failures /\ stage' = "dispatching" /\ todo = <<>> /\ stage = "executing"
      \/ failures' \in {failures, failures \cup {"none"}} /\ stage' = "ended"
  BY DEF EndPhase, Finish, RunAgain, vars
<1>4. TypeInv /\ AheadInv /\ BehindInv /\ PendingInv
  BY DEF IInv
<1>5. TypeInv'
  BY <1>1, <1>3, <1>4 DEF TypeInv, Stages
<1>6. AheadInv'
  BY <1>1, <1>2, <1>4 DEF AheadInv
<1>7. PendingInv'
  BY <1>1, <1>2, <1>3, <1>4 DEF PendingInv
<1>8. ASSUME selected = "none", NEW i \in DOMAIN ran
      PROVE  BuildsOn(ran[i]) \subseteq {ran[j] : j \in 1 .. i - 1} \ failures'
  <2>1. BuildsOn(ran[i]) \subseteq {ran[j] : j \in 1 .. i - 1} \ failures
    BY <1>4, <1>8 DEF BehindInv
  <2>2. ran \in Seq(CheckIds)
    BY <1>4 DEF TypeInv
  <2>3. \A j \in 1 .. i - 1 : ran[j] \in CheckIds
    BY <2>2
  <2> QED
    BY <1>3, <2>1, <2>3, DriversAssumption
<1>9. BehindInv'
  BY <1>1, <1>3, <1>4, <1>8 DEF BehindInv
<1> QED
  BY <1>5, <1>6, <1>7, <1>9 DEF IInv

-----------------------------------------------------------------------------
(* What was executed.                                                      *)

\* Each check is entered once; until something fails the registered checks are
\* the executed and the pending ones, and a run ends with nothing ahead.
DoneInv ==
    /\ IsInjective(ran)
    /\ failures = {} => report.expected = ToSet(ran) \cup report.pending
    /\ runCompleted => stage = "ended"
    /\ stage = "finishing" => failures # {}
    /\ stage = "ended" /\ failures = {} => phases = <<>> /\ todo = <<>>

\* The entry points register before anything is executed.
LEMMA StartDone ==
    ASSUME IInv, DoneInv, RunAll \/ RunContract \/ RunCheck
    PROVE  DoneInv'
<1>1. PICK contracts, selection : Start(contracts, selection)
  BY DEF RunAll, RunContract, RunCheck
<1>2. /\ stage = "new" /\ stage' = "dispatching" /\ ran' = ran /\ runCompleted' = runCompleted
      /\ report' = Register(report, Registered(contracts, selection))
  BY <1>1 DEF Start
<1>3. ran = <<>> /\ report = EmptyReport
  BY <1>2 DEF IInv, TypeInv
<1>4. report'.expected = report'.pending /\ ToSet(ran') = {} /\ IsInjective(ran')
  BY <1>2, <1>3, RegisterFacts, ShortLists
<1> QED
  BY <1>2, <1>4 DEF DoneInv

\* A check is entered that was not entered before.
LEMMA EnterDone ==
    ASSUME IInv, DoneInv, Complete \/ ReturnErr \/ Panic
    PROVE  DoneInv'
<1> DEFINE id == Head(todo)
<1>1. Enter /\ stage = "executing" /\ ran' = Append(ran, id) /\ runCompleted' = runCompleted
  BY DEF Complete, ReturnErr, Panic, Enter
<1>2. /\ id \in CheckIds /\ id \in report.pending /\ failures = {}
      /\ ToSet(ran) \cap report.pending = {} /\ ToSet(ran') = ToSet(ran) \cup {id}
  BY <1>1, EnterFacts
<1>3. /\ Len(ran) \in Nat /\ DOMAIN ran = 1 .. Len(ran) /\ DOMAIN ran' = 1 .. Len(ran) + 1
      /\ \A i \in 1 .. Len(ran) : ran'[i] = ran[i]
      /\ ran'[Len(ran) + 1] = id
  <2>1. ran \in Seq(CheckIds)
    BY DEF IInv, TypeInv
  <2> QED
    BY <1>1, <1>2, <2>1, AppendFacts
<1> HIDE DEF id
<1>4. IsInjective(ran')
  <2>1. \A i \in 1 .. Len(ran) : ran[i] # id
    BY <1>2, <1>3 DEF ToSet
  <2>2. \A i, j \in 1 .. Len(ran) : ran[i] = ran[j] => i = j
    BY <1>3 DEF DoneInv, IsInjective
  <2>3. \A i \in 1 .. Len(ran) + 1 : i \in 1 .. Len(ran) \/ i = Len(ran) + 1
    BY <1>3
  <2> QED
    BY <1>3, <2>1, <2>2, <2>3 DEF IsInjective
<1>5. \/ failures' # {} /\ stage' = "finishing"
      \/ /\ failures' = {} /\ stage' = stage /\ report'.expected = report.expected
         /\ report'.pending = report.pending \ {id}
  <2>1. CASE ReturnErr \/ Panic
    BY <1>2, <2>1 DEF ReturnErr, Panic, FailRun
  <2>2. CASE Complete
    <3>1. PICK r \in Noted(id) : report' = Record(r, id, Reasoned(Outcome(r, id)))
      BY <2>2 DEF Complete, id
    <3>2. /\ r.expected = report.expected
          /\ r.pending \in {report.pending, report.pending \ {id}}
      BY <1>1, <3>1, NotedFacts DEF id
    <3> QED
      BY <1>2, <2>2, <3>1, <3>2 DEF Complete, Record
  <2> QED
    BY <2>1, <2>2
<1>6. failures' = {} => report'.expected = ToSet(ran') \cup report'.pending
  BY <1>2, <1>5 DEF DoneInv
<1> QED
  BY <1>1, <1>4, <1>5, <1>6 DEF DoneInv

\* The other steps execute nothing, and the run ends with nothing ahead or with
\* a failure.
LEMMA OtherDone ==
    ASSUME IInv, DoneInv, Dispatch \/ EndPhase \/ Finish \/ RunAgain \/ UNCHANGED vars
    PROVE  DoneInv'
<1>1. ran' = ran
  BY DEF Dispatch, EndPhase, Finish, RunAgain, vars
<1>2. CASE Dispatch
  <2>1. stage = "dispatching" /\ runCompleted' = runCompleted
    BY <1>2 DEF Dispatch
  <2>2. \/ failures' # {} /\ stage' = "finishing"
        \/ failures' = failures /\ report' = report /\ stage' = "executing"
    BY <1>2 DEF Dispatch, DispatchCheck, FailRun
  <2> QED
    BY <1>1, <2>1, <2>2 DEF DoneInv
<1>3. CASE EndPhase
  BY <1>1, <1>3 DEF DoneInv, EndPhase
<1>4. CASE Finish
  <2>1. /\ stage = "finishing" \/ (stage = "dispatching" /\ phases = <<>>)
        /\ stage' = "ended" /\ UNCHANGED <<phases, todo, report>>
        /\ failures' \in {failures, failures \cup {"none"}}
    BY <1>4 DEF Finish
  <2>2. stage = "dispatching" => todo = <<>>
    BY DEF IInv, TypeInv
  <2> QED
    BY <1>1, <2>1, <2>2 DEF DoneInv
<1>5. CASE RunAgain
  BY <1>1, <1>5 DEF DoneInv, RunAgain
<1>6. CASE UNCHANGED vars
  BY <1>1, <1>6 DEF DoneInv, vars
<1> QED
  BY <1>2, <1>3, <1>4, <1>5, <1>6

-----------------------------------------------------------------------------
(* The theorems.                                                           *)

\* The invariant holds in every state of every session.
LEMMA Invariant == Spec => []IInv
<1>1. IInv /\ [Next]_vars => IInv'
  BY StartSteps, DispatchStep, CheckEnds, EndSteps DEF Next, RunStep
<1> QED
  BY <1>1, InitEstablishes, PTL DEF Spec

\* And so does what it says of the executed checks.
LEMMA DoneHolds == Spec => []DoneInv
<1>1. Init => DoneInv
  <2> SUFFICES ASSUME Init PROVE DoneInv
    OBVIOUS
  <2>1. /\ stage = "new" /\ ran = <<>> /\ report = EmptyReport /\ runCompleted = FALSE
    BY DEF Init
  <2> QED
    BY <2>1, ShortLists DEF DoneInv, EmptyReport
<1>2. IInv /\ DoneInv /\ [Next]_vars => DoneInv'
  BY StartDone, EnterDone, OtherDone DEF Next, RunStep
<1> QED
  BY <1>1, <1>2, Invariant, PTL DEF Spec

\* Whatever the catalog, and whatever fails: what is registered and not yet
\* complete is what the drivers have still to execute, no completion is
\* charged as a violation but the second one of a synchronous check that has
\* noted what it could not observe, no check is entered twice, a run that ends
\* without failure has executed what it registered, and the synchronous suite
\* enters no check that needs the asynchronous facade.
THEOREM RegisteredTheorem == Spec => []RegisteredIsExecuted
<1>1. IInv /\ DoneInv => RegisteredIsExecuted
  <2> SUFFICES ASSUME IInv, DoneInv PROVE RegisteredIsExecuted
    OBVIOUS
  <2>1. PendingInv /\ TypeInv
    BY DEF IInv
  <2>2. ASSUME runCompleted, failures = {}
        PROVE  report.pending = {} /\ ToSet(ran) = report.expected
    <3>1. phases = <<>> /\ todo = <<>>
      BY <2>2 DEF DoneInv
    <3>2. Ahead = {}
      BY <2>1, <3>1, LaterFacts, ShortLists DEF Ahead
    <3>3. report.pending = {}
      BY <2>1, <2>2, <3>2 DEF PendingInv
    <3> QED
      BY <2>2, <3>3 DEF DoneInv
  <2> QED
    BY <2>1, <2>2 DEF RegisteredIsExecuted, PendingInv, DoneInv, Doubled
<1> QED
  BY <1>1, Invariant, DoneHolds, PTL

\* In a run of phases every check comes after the checks its evidence builds
\* on, none of which has failed.
THEOREM PrerequisitesTheorem == Spec => []PrerequisitesFirst
<1>1. IInv => PrerequisitesFirst
  <2> SUFFICES ASSUME IInv, selected = "none", NEW i \in DOMAIN ran
               PROVE  BuildsOn(ran[i]) \subseteq ToSet(SubSeq(ran, 1, i - 1)) \ failures
    BY DEF PrerequisitesFirst
  <2>1. ran \in Seq(CheckIds) /\ Len(ran) \in Nat /\ i \in 1 .. Len(ran)
    BY DEF IInv, TypeInv
  <2>2. BuildsOn(ran[i]) \subseteq {ran[j] : j \in 1 .. i - 1} \ failures
    BY DEF IInv, BehindInv
  <2>3. /\ DOMAIN SubSeq(ran, 1, i - 1) = 1 .. i - 1
        /\ \A j \in 1 .. i - 1 : SubSeq(ran, 1, i - 1)[j] = ran[j]
    BY <2>1
  <2>4. {ran[j] : j \in 1 .. i - 1} \subseteq ToSet(SubSeq(ran, 1, i - 1))
    BY <2>3 DEF ToSet
  <2> QED
    BY <2>2, <2>4
<1> QED
  BY <1>1, Invariant, PTL
=============================================================================
