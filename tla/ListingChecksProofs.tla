------------------------- MODULE ListingChecksProofs -------------------------
(***************************************************************************)
(* Proofs about the limit probes, for every probe budget, every width of   *)
(* the integers and every declared and enforced limit; and about the       *)
(* listings, for every set of entries and every number of them.            *)
(*                                                                         *)
(* A listing is judged by sorting both sides and comparing the sequences.  *)
(* That this compares how often each entry occurs takes a lemma about      *)
(* sorting (SortedSame); that a conforming stream passes takes the         *)
(* invariant that its entries are matched, one to one, with prepared ones. *)
(***************************************************************************)
EXTENDS ListingChecks, FiniteSetTheorems, TLAPS

Listings == {"List", "FlatScope"}

LimitTypes ==
    /\ checkId \in Probes \cup Listings
    /\ declared \in Declarations /\ actual \in Declarations
    /\ semantics \in {"Hierarchical", "Literal"} /\ absolute \in BOOLEAN
    /\ stage \in {"plan", "path", "at", "over", "done", "collect"}
    /\ probe \in [component : Nat, text : Nat, at : Nat, over : Nat]

\* A planned path is over the selected limit and over no other.
PathPlanned ==
    LET selected == IF Component THEN probe.component ELSE probe.text IN
    /\ checkId \in Admission
    /\ SelectedLimit.finite /\ selected = SelectedLimit.maximum + 1
    /\ Component => semantics = "Hierarchical" /\ ~Exceeds(probe.text, declared.path)
    /\ ~Component /\ semantics = "Hierarchical" =>
          ~Exceeds(probe.component, declared.component)

\* A planned pair is the declared maximum and its successor.
PairPlanned ==
    /\ checkId \in Boundary
    /\ declared.bytes.finite
    /\ probe.at = declared.bytes.maximum /\ probe.over = probe.at + 1

\* What was planned for the stage, and what the stages before it have shown.
PlanInv ==
    /\ stage \notin {"done"} => outcome = "none"
    /\ stage \in {"plan", "collect"} => probe = NoProbe
    /\ stage = "collect" => checkId \in Listings
    /\ stage = "path" \/ outcome = "RejectedAsExpected" => PathPlanned
    /\ stage \in {"at", "over"} => PairPlanned
    /\ stage = "over" => ~Exceeds(probe.at, actual.bytes)
    /\ probe.text <= MaxProbeBytes /\ probe.over <= MaxProbeBytes

LimitInv == LimitTypes /\ PlanInv /\ EnforcedNeverFails /\ EvidenceIsForTheLimit

-----------------------------------------------------------------------------
(* The arithmetic of limit_probe_plan.rs.                                  *)

\* A probe exists exactly for a finite maximum below the budget; it is that
\* maximum and its successor, and neither overflows.
LEMMA FiniteProbeFacts ==
    ASSUME NEW limit \in Limits, NEW budget \in Nat, budget < MaxU64,
           NEW p \in FiniteProbe(limit, budget)
    PROVE  /\ limit.finite /\ p.at = limit.maximum /\ p.over = limit.maximum + 1
           /\ p.at \in Nat /\ p.over \in Nat /\ p.over <= budget
BY BudgetAssumption DEF FiniteProbe, BoundedSuccessor, Limits

\* A sample cut to a limit does not exceed it.
LEMMA BoundedPayloadFits ==
    ASSUME NEW limit \in Limits, NEW preferred \in Nat
    PROVE  /\ BoundedPayload(limit, preferred) \in Nat
           /\ BoundedPayload(limit, preferred) <= preferred
           /\ ~Exceeds(BoundedPayload(limit, preferred), limit)
BY BudgetAssumption DEF BoundedPayload, Exceeds, Limits

-----------------------------------------------------------------------------
(* Every check keeps the invariant.                                        *)

\* A behaviour begins with a probe or a listing that has no outcome yet.
LEMMA LimitInit == QueryInit => LimitInv
<1> SUFFICES ASSUME QueryInit PROVE LimitInv
  OBVIOUS
<1>1. declared \in Declarations /\ actual \in Declarations
  <2>1. Unlimited \in Limits
    BY BudgetAssumption DEF Unlimited, Limits
  <2>2. NoLimits \in Declarations
    BY <2>1 DEF NoLimits, Declarations
  <2> QED
    BY <2>2 DEF QueryInit, ListInit, ProbeInit, PathOnly, BytesOnly
<1>2. /\ checkId \in Probes \cup Listings /\ semantics \in {"Hierarchical", "Literal"}
      /\ absolute \in BOOLEAN
      /\ stage = "plan" \/ (stage = "collect" /\ checkId \in Listings)
      /\ probe = NoProbe /\ outcome = "none"
  BY DEF QueryInit, ListInit, ProbeInit, Listings, Probes
<1>3. /\ NoProbe \in [component : Nat, text : Nat, at : Nat, over : Nat]
      /\ NoProbe.text = 0 /\ NoProbe.over = 0
  BY DEF NoProbe
<1>4. LimitTypes
  BY <1>1, <1>2, <1>3 DEF LimitTypes
<1>5. PlanInv
  BY <1>2, <1>3, BudgetAssumption DEF PlanInv
<1> QED
  BY <1>2, <1>4, <1>5 DEF LimitInv, EnforcedNeverFails, EvidenceIsForTheLimit

\* An outcome that is neither a failure nor evidence for a limit.
LEMMA EndKeeps ==
    ASSUME LimitInv, NEW result, End(result),
           UNCHANGED <<checkId, declared, actual, semantics, absolute>>,
           result = "Failed" => ~(checkId \in Probes /\ actual = declared),
           result = "RejectedAsExpected" => PathPlanned /\ ~Admits(probe),
           result = "Passed" /\ checkId \in Boundary => actual.bytes = declared.bytes
    PROVE  LimitInv'
<1>1. stage' = "done" /\ outcome' = result /\ probe' = probe
  BY DEF End
<1>2. LimitTypes' /\ EnforcedNeverFails'
  BY <1>1 DEF LimitInv, LimitTypes, EnforcedNeverFails
<1>3. PathPlanned => PathPlanned'
  BY <1>1 DEF PathPlanned, Component, SelectedLimit
<1>4. PlanInv'
  BY <1>1, <1>3 DEF LimitInv, PlanInv
<1>5. EvidenceIsForTheLimit'
  BY <1>1 DEF LimitInv, EvidenceIsForTheLimit, PathPlanned, Admits, Component
<1> QED
  BY <1>2, <1>4, <1>5 DEF LimitInv

\* Planning an admission path: what is submitted isolates the selected limit.
LEMMA PlanAdmissionKeeps == ASSUME LimitInv, PlanAdmission PROVE LimitInv'
<1>1. UNCHANGED <<checkId, declared, actual, semantics, absolute>> /\ stage = "plan"
      /\ checkId \in Admission /\ probe = NoProbe /\ outcome = "none"
  BY DEF PlanAdmission, LimitInv, PlanInv
<1>2. ASSUME NEW r \in {"NotApplicable", "SkippedOptional"}, End(r) PROVE LimitInv'
  BY <1>1, <1>2, EndKeeps
<1>3. ASSUME NEW p \in FiniteProbe(SelectedLimit, MaxProbeBytes),
             ~(Component /\ semantics # "Hierarchical"),
             TextBytes(p.over) <= MaxProbeBytes, ~Masked(p.over),
             probe' = [NoProbe EXCEPT !.component = ComponentBytes(p.over),
                                      !.text = TextBytes(p.over)],
             stage' = "path", UNCHANGED outcome
      PROVE  LimitInv'
  <2>1. SelectedLimit \in Limits
    BY DEF SelectedLimit, LimitInv, LimitTypes, Declarations
  <2>2. /\ SelectedLimit.finite /\ p.over = SelectedLimit.maximum + 1
        /\ SelectedLimit.maximum \in Nat /\ p.over \in Nat /\ p.over >= 1
    BY <2>1, BudgetAssumption, FiniteProbeFacts DEF Limits
  <2>3. /\ ComponentBytes(p.over) \in Nat /\ TextBytes(p.over) \in Nat
        /\ (IF Component THEN ComponentBytes(p.over) ELSE TextBytes(p.over)) = p.over
    BY <2>2 DEF ComponentBytes, TextBytes, PrefixBytes
  <2>4. /\ probe' \in [component : Nat, text : Nat, at : Nat, over : Nat]
        /\ probe'.component = ComponentBytes(p.over) /\ probe'.text = TextBytes(p.over)
        /\ probe'.over = 0
    BY <1>3, <2>3 DEF NoProbe
  <2>5. PathPlanned'
    <3>1. SelectedLimit' = SelectedLimit /\ Component' = Component
      BY <1>1 DEF SelectedLimit, Component
    <3>2. /\ Component => semantics = "Hierarchical" /\ ~Exceeds(TextBytes(p.over), declared.path)
          /\ ~Component /\ semantics = "Hierarchical" =>
                ~Exceeds(ComponentBytes(p.over), declared.component)
      BY <1>3, <1>1 DEF Masked, LimitInv, LimitTypes
    <3> QED
      BY <1>1, <2>2, <2>3, <2>4, <3>1, <3>2 DEF PathPlanned, Exceeds
  <2>6. LimitTypes'
    BY <1>1, <1>3, <2>4 DEF LimitInv, LimitTypes
  <2>7. PlanInv'
    BY <1>1, <1>3, <2>4, <2>5, BudgetAssumption DEF LimitInv, PlanInv
  <2> QED
    BY <1>1, <1>3, <2>6, <2>7 DEF LimitInv, EnforcedNeverFails, EvidenceIsForTheLimit
<1> QED
  BY <1>2, <1>3 DEF PlanAdmission

\* Submitting the path: a provider that admits it does not enforce what it
\* declares, and one that rejects it rejects it for the selected limit.
LEMMA SubmitPathKeeps == ASSUME LimitInv, SubmitPath PROVE LimitInv'
<1>1. PathPlanned /\ UNCHANGED <<checkId, declared, actual, semantics, absolute>>
  BY DEF SubmitPath, LimitInv, PlanInv
<1>2. Admits(probe) => actual # declared
  <2> SUFFICES ASSUME actual = declared PROVE ~Admits(probe)
    OBVIOUS
  <2>1. /\ SelectedLimit.finite
        /\ (IF Component THEN probe.component ELSE probe.text) = SelectedLimit.maximum + 1
        /\ SelectedLimit.maximum \in Nat
    BY <1>1, BudgetAssumption
    DEF PathPlanned, SelectedLimit, LimitInv, LimitTypes, Declarations, Limits
  <2> QED
    BY <1>1, <2>1 DEF PathPlanned, Admits, Exceeds, SelectedLimit
<1>3. CASE Admits(probe)
  BY <1>1, <1>2, <1>3, EndKeeps DEF SubmitPath
<1>4. CASE ~Admits(probe)
  BY <1>1, <1>4, EndKeeps DEF SubmitPath
<1> QED
  BY <1>3, <1>4

\* The boundary checks: planning the pair, and submitting its two lengths.
LEMMA BoundaryKeeps ==
    ASSUME LimitInv, PlanBoundary \/ SubmitAt \/ SubmitOver PROVE LimitInv'
<1>1. UNCHANGED <<checkId, declared, actual, semantics, absolute>>
  BY DEF PlanBoundary, SubmitAt, SubmitOver
<1>2. declared.bytes \in Limits /\ actual.bytes \in Limits
  BY DEF LimitInv, LimitTypes, Declarations
<1>3. CASE PlanBoundary
  <2>1. CASE End("SkippedOptional")
    BY <1>1, <2>1, EndKeeps
  <2>2. ASSUME NEW p \in FiniteProbe(declared.bytes, MaxProbeBytes),
               probe' = [NoProbe EXCEPT !.at = p.at, !.over = p.over],
               stage' = "at", UNCHANGED outcome
        PROVE  LimitInv'
    <3>1. /\ declared.bytes.finite /\ p.at = declared.bytes.maximum /\ p.over = p.at + 1
          /\ p.at \in Nat /\ p.over \in Nat /\ p.over <= MaxProbeBytes
      BY <1>2, BudgetAssumption, FiniteProbeFacts
    <3>2. /\ probe' \in [component : Nat, text : Nat, at : Nat, over : Nat]
          /\ probe'.at = p.at /\ probe'.over = p.over /\ probe'.text = 0
      BY <2>2, <3>1 DEF NoProbe
    <3>3. PairPlanned'
      BY <1>1, <1>3, <3>1, <3>2 DEF PairPlanned, PlanBoundary
    <3>4. LimitTypes'
      BY <1>1, <2>2, <3>2 DEF LimitInv, LimitTypes
    <3>5. outcome' = "none"
      BY <1>3, <2>2 DEF PlanBoundary, LimitInv, PlanInv
    <3>6. PlanInv'
      BY <2>2, <3>1, <3>2, <3>3, <3>5, BudgetAssumption DEF PlanInv
    <3> QED
      BY <3>4, <3>5, <3>6 DEF LimitInv, EnforcedNeverFails, EvidenceIsForTheLimit
  <2> QED
    BY <1>3, <2>1, <2>2 DEF PlanBoundary
<1>4. CASE SubmitAt
  <2>1. PairPlanned
    BY <1>4 DEF SubmitAt, LimitInv, PlanInv
  <2>2. CASE Exceeds(probe.at, actual.bytes)
    <3>1. actual # declared
      BY <1>2, <2>1, <2>2, BudgetAssumption DEF PairPlanned, Exceeds, Limits
    <3> QED
      BY <1>1, <1>4, <2>2, <3>1, EndKeeps DEF SubmitAt
  <2>3. CASE ~Exceeds(probe.at, actual.bytes)
    <3>1. stage' = "over" /\ UNCHANGED <<probe, outcome>> /\ outcome = "none"
      BY <1>4, <2>3 DEF SubmitAt, LimitInv, PlanInv
    <3>2. LimitTypes'
      BY <1>1, <3>1 DEF LimitInv, LimitTypes
    <3>3. PairPlanned' /\ ~Exceeds(probe.at, actual.bytes)'
      BY <1>1, <2>1, <2>3, <3>1 DEF PairPlanned
    <3>4. PlanInv'
      BY <3>1, <3>3 DEF LimitInv, PlanInv
    <3> QED
      BY <3>1, <3>2, <3>4 DEF LimitInv, EnforcedNeverFails, EvidenceIsForTheLimit
  <2> QED
    BY <2>2, <2>3
<1>5. CASE SubmitOver
  <2>1. PairPlanned /\ ~Exceeds(probe.at, actual.bytes)
    BY <1>5 DEF SubmitOver, LimitInv, PlanInv
  <2>2. CASE Exceeds(probe.over, actual.bytes)
    <3>1. actual.bytes.finite = declared.bytes.finite
      BY <1>2, <2>1, <2>2 DEF PairPlanned, Exceeds, Limits
    <3>2. actual.bytes.maximum = declared.bytes.maximum
      BY <1>2, <2>1, <2>2, BudgetAssumption DEF PairPlanned, Exceeds, Limits
    <3>3. actual.bytes = declared.bytes
      BY <1>2, <3>1, <3>2 DEF Limits
    <3> QED
      BY <1>1, <1>5, <2>2, <3>3, EndKeeps DEF SubmitOver
  <2>3. CASE ~Exceeds(probe.over, actual.bytes)
    <3>1. actual # declared
      BY <1>2, <2>1, <2>3, BudgetAssumption DEF PairPlanned, Exceeds, Limits
    <3> QED
      BY <1>1, <1>5, <2>3, <3>1, EndKeeps DEF SubmitOver
  <2> QED
    BY <2>2, <2>3
<1> QED
  BY <1>3, <1>4, <1>5

\* The page size and the read window ask for nothing beyond what is declared.
LEMMA SingleRequestKeeps == ASSUME LimitInv, PageClamp \/ ReadWindow PROVE LimitInv'
<1>1. UNCHANGED <<checkId, declared, actual, semantics, absolute>>
  BY DEF PageClamp, ReadWindow
<1>2. declared.bytes \in Limits /\ actual.bytes \in Limits
  BY DEF LimitInv, LimitTypes, Declarations
<1>3. checkId \notin Boundary
  BY DEF PageClamp, ReadWindow, Boundary
<1>4. CASE PageClamp
  <2>1. ASSUME NEW p \in FiniteProbe(declared.bytes, MaxProbeEntries)
        PROVE  Clamped(p.over, declared.bytes) <= p.at
    <3>1. /\ declared.bytes.finite /\ p.at = declared.bytes.maximum /\ p.over = p.at + 1
          /\ p.at \in Nat /\ p.over \in Nat
      BY <1>2, BudgetAssumption, FiniteProbeFacts
    <3> QED
      BY <3>1 DEF Clamped, Exceeds
  <2>2. End("SkippedOptional") \/ End("Passed")
    BY <1>4, <2>1 DEF PageClamp
  <2> QED
    BY <1>1, <1>3, <2>2, EndKeeps
<1>5. CASE ReadWindow
  <2> DEFINE w == Window(declared.bytes)
             lengths == {w.length, 0, BoundedPayload(declared.bytes, 1)}
  <2>1. \A n \in lengths : ~Exceeds(n, declared.bytes)
    <3>1. w.length = BoundedPayload(declared.bytes, 8)
      BY DEF Window
    <3>2. ~Exceeds(0, declared.bytes)
      BY <1>2, BudgetAssumption DEF Exceeds, Limits
    <3> QED
      BY <1>2, <3>1, <3>2, BoundedPayloadFits
  <2>2. w.offset + w.length <= ContentLength
    BY <1>2, BoundedPayloadFits DEF Window, ContentLength
  <2>3. /\ End("Failed") \/ End("Passed")
        /\ actual = declared => End("Passed")
    BY <1>5, <2>1, <2>2, <1>2, BoundedPayloadFits DEF ReadWindow, Window, ContentLength
  <2>4. CASE End("Passed")
    BY <1>1, <1>3, <2>4, EndKeeps
  <2>5. CASE End("Failed") /\ actual # declared
    BY <1>1, <2>5, EndKeeps
  <2> QED
    BY <2>3, <2>4, <2>5
<1> QED
  BY <1>4, <1>5

\* Collecting a stream leaves the limits alone.
LEMMA ListingKeeps == ASSUME LimitInv, NextEntry \/ StreamError \/ StreamEnds PROVE LimitInv'
<1>1. /\ UNCHANGED <<checkId, declared, actual, semantics, absolute>>
      /\ stage = "collect" /\ checkId \in Listings
  BY DEF NextEntry, StreamError, StreamEnds, LimitInv, PlanInv
<1>2. checkId \notin Probes
  BY <1>1 DEF Probes, Admission, Boundary, Listings
<1>3. \/ End("Failed") \/ End("Passed") \/ UNCHANGED <<stage, probe, outcome>>
  BY DEF NextEntry, StreamError, StreamEnds, Collect
<1>4. CASE End("Failed") \/ End("Passed")
  BY <1>1, <1>2, <1>4, EndKeeps DEF Probes
<1>5. CASE UNCHANGED <<stage, probe, outcome>>
  BY <1>1, <1>5
  DEF LimitInv, LimitTypes, PlanInv, EnforcedNeverFails, EvidenceIsForTheLimit,
      PathPlanned, PairPlanned, Component, SelectedLimit
<1> QED
  BY <1>3, <1>4, <1>5

\* The invariant holds throughout.
LEMMA LimitInvariant == QuerySpec => []LimitInv
<1>1. ASSUME LimitInv, [QueryNext]_queryVars PROVE LimitInv'
  <2>1. CASE ProbeNext
    BY <1>1, <2>1, PlanAdmissionKeeps, SubmitPathKeeps, BoundaryKeeps, SingleRequestKeeps
    DEF ProbeNext
  <2>2. CASE NextEntry \/ StreamError \/ StreamEnds
    BY <1>1, <2>2, ListingKeeps
  <2>3. CASE UNCHANGED queryVars
    BY <1>1, <2>3
    DEF queryVars, probeVars, LimitInv, LimitTypes, PlanInv, EnforcedNeverFails,
        EvidenceIsForTheLimit, PathPlanned, PairPlanned, Component, SelectedLimit, Admits
  <2> QED
    BY <1>1, <2>1, <2>2, <2>3 DEF QueryNext
<1> QED
  BY <1>1, LimitInit, PTL DEF QuerySpec

-----------------------------------------------------------------------------
(* Sorting a listing.                                                      *)

\* A list of numbers has a sorted arrangement: the place of an entry is the
\* number of entries that do not come after it.
LEMMA SortedExists ==
    ASSUME NEW n \in Nat, NEW s \in [1 .. n -> Nat]
    PROVE  \E t \in Arrangements(s) : \A i, j \in 1 .. n : i < j => ~(t[j] < t[i])
<1> DEFINE D == 1 .. n
           Prec(i, j) == s[i] < s[j] \/ (s[i] = s[j] /\ i < j)
           Upto(i) == {j \in D : Prec(j, i) \/ j = i}
           rank == [i \in D |-> Cardinality(Upto(i))]
           f == [k \in D |-> CHOOSE i \in D : rank[i] = k]
           t == [k \in D |-> s[f[k]]]
<1>1. IsFiniteSet(D) /\ Cardinality(D) = n
  BY FS_Interval
<1>2. ASSUME NEW i \in D PROVE IsFiniteSet(Upto(i)) /\ rank[i] \in D
  <2>1. Upto(i) \in SUBSET D
    OBVIOUS
  <2>2. i \in Upto(i)
    OBVIOUS
  <2>3. IsFiniteSet(Upto(i)) /\ Cardinality(Upto(i)) <= n
    BY <1>1, <2>1, FS_Subset
  <2>4. Cardinality(Upto(i)) \in Nat /\ Cardinality(Upto(i)) # 0
    BY <2>2, <2>3, FS_CardinalityType, FS_EmptySet
  <2> QED
    BY <2>3, <2>4
<1>3. ASSUME NEW i \in D, NEW j \in D, Prec(i, j) PROVE rank[i] < rank[j]
  <2>1. s[i] \in Nat /\ s[j] \in Nat /\ i \in Nat /\ j \in Nat
    OBVIOUS
  <2>2. Upto(i) \subseteq Upto(j)
    <3> SUFFICES ASSUME NEW k \in D, Prec(k, i) \/ k = i PROVE Prec(k, j)
      OBVIOUS
    <3>1. s[k] \in Nat /\ k \in Nat
      OBVIOUS
    <3> QED
      BY <1>3, <2>1, <3>1
  <2>3. j \in Upto(j) /\ j \notin Upto(i)
    <3>1. ~Prec(j, i) /\ j # i
      BY <1>3, <2>1
    <3> QED
      BY <3>1
  <2>4. Upto(i) # Upto(j) /\ Upto(i) \in SUBSET Upto(j)
    BY <2>2, <2>3
  <2> HIDE DEF Upto, Prec
  <2>5. IsFiniteSet(Upto(i)) /\ IsFiniteSet(Upto(j))
    BY <1>2
  <2>6. /\ Cardinality(Upto(i)) <= Cardinality(Upto(j))
        /\ Cardinality(Upto(i)) # Cardinality(Upto(j))
    BY <2>4, <2>5, FS_Subset
  <2>7. Cardinality(Upto(i)) \in Nat /\ Cardinality(Upto(j)) \in Nat
    BY <2>5, FS_CardinalityType
  <2> QED
    BY <2>6, <2>7
<1>4. rank \in [D -> D]
  BY <1>2
<1>5. \A i, j \in D : rank[i] = rank[j] => i = j
  <2> SUFFICES ASSUME NEW i \in D, NEW j \in D, i # j PROVE rank[i] # rank[j]
    OBVIOUS
  <2>1. Prec(i, j) \/ Prec(j, i)
    <3>1. s[i] \in Nat /\ s[j] \in Nat /\ i \in Nat /\ j \in Nat
      OBVIOUS
    <3> QED
      BY <3>1
  <2>2. rank[i] \in Nat /\ rank[j] \in Nat
    BY <1>4
  <2> HIDE DEF rank, Prec
  <2> QED
    BY <1>3, <2>1, <2>2
<1> HIDE DEF rank
<1>6. rank \in Injection(D, D)
  BY <1>4, <1>5 DEF Injection, IsInjective
<1>7. \A k \in D : \E i \in D : rank[i] = k
  <2>1. rank \in Surjection(D, D)
    BY <1>1, <1>6, FS_Injection
  <2> QED
    BY <2>1 DEF Surjection
<1>8. \A k \in D : f[k] \in D /\ rank[f[k]] = k
  BY <1>7
<1>9. f \in Bijection(D, D)
  <2>1. f \in [D -> D] /\ \A k, l \in D : f[k] = f[l] => k = l
    BY <1>8
  <2>2. \A i \in D : \E k \in D : f[k] = i
    <3> TAKE i \in D
    <3>1. rank[i] \in D /\ rank[f[rank[i]]] = rank[i]
      BY <1>4, <1>8
    <3>2. f[rank[i]] = i
      BY <1>5, <1>8, <3>1
    <3> QED
      BY <3>1, <3>2
  <2> HIDE DEF f
  <2> QED
    BY <2>1, <2>2 DEF Bijection, Injection, Surjection, IsInjective
<1> HIDE DEF f
<1>10. DOMAIN s = D
  OBVIOUS
<1>11. t \in Arrangements(s)
  BY <1>9, <1>10 DEF Arrangements
<1>12. \A k, l \in D : k < l => ~(t[l] < t[k])
  <2> SUFFICES ASSUME NEW k \in D, NEW l \in D, k < l, s[f[l]] < s[f[k]] PROVE FALSE
    OBVIOUS
  <2>1. f[k] \in D /\ f[l] \in D /\ rank[f[k]] = k /\ rank[f[l]] = l
    BY <1>8
  <2>2. rank[f[l]] < rank[f[k]]
    BY <1>3, <2>1
  <2> QED
    BY <2>1, <2>2
<1> QED
  BY <1>11, <1>12

\* So the sort is one.
LEMMA SortedArranges ==
    ASSUME NEW s \in Seq(Nat)
    PROVE  Sorted(s) \in Arrangements(s)
<1> DEFINE D == DOMAIN s
           Good(t) == \A i, j \in D : i < j => ~(t[j] < t[i])
<1>1. Len(s) \in Nat /\ D = 1 .. Len(s) /\ s \in [1 .. Len(s) -> Nat]
  OBVIOUS
<1>2. \E t \in Arrangements(s) : Good(t)
  BY <1>1, SortedExists
<1>3. Sorted(s) = CHOOSE t \in Arrangements(s) : Good(t)
  BY DEF Sorted, SortBy
<1> HIDE DEF Good
<1> QED
  BY <1>2, <1>3

\* An arrangement has every entry as often.
LEMMA ArrangedTimes ==
    ASSUME NEW s \in Seq(Nat), NEW t \in Arrangements(s), NEW e
    PROVE  Times(t, e) = Times(s, e)
<1> DEFINE D == DOMAIN s
           A == {i \in DOMAIN t : t[i] = e}
           B == {i \in D : s[i] = e}
<1>1. PICK f \in Bijection(D, D) : t = [i \in D |-> s[f[i]]]
  BY DEF Arrangements
<1>2. /\ \A i \in D : f[i] \in D
      /\ \A i, j \in D : f[i] = f[j] => i = j
      /\ \A d \in D : \E i \in D : f[i] = d
  BY DEF Bijection, Injection, Surjection, IsInjective
<1>3. DOMAIN t = D /\ \A i \in D : t[i] = s[f[i]]
  BY <1>1
<1>4. IsFiniteSet(D)
  <2>1. Len(s) \in Nat /\ D = 1 .. Len(s)
    OBVIOUS
  <2> QED
    BY <2>1, FS_Interval
<1> DEFINE h == [i \in A |-> f[i]]
<1>5. h \in Bijection(A, B)
  <2>1. h \in [A -> B] /\ \A i, j \in A : h[i] = h[j] => i = j
    BY <1>2, <1>3
  <2>2. \A b \in B : \E i \in A : h[i] = b
    <3> TAKE b \in B
    <3>1. PICK i \in D : f[i] = b
      BY <1>2
    <3>2. i \in A /\ h[i] = b
      BY <1>3, <3>1
    <3> QED
      BY <3>2
  <2> HIDE DEF h, A, B
  <2> QED
    BY <2>1, <2>2 DEF Bijection, Injection, Surjection, IsInjective
<1>6. IsFiniteSet(A)
  <2>1. A \in SUBSET D
    BY <1>3
  <2> QED
    BY <1>4, <2>1, FS_Subset
<1> HIDE DEF h, A, B
<1>7. Cardinality(B) = Cardinality(A)
  BY <1>5, <1>6, FS_Bijection DEF ExistsBijection
<1> QED
  BY <1>7 DEF Times, A, B

\* A list and an arrangement of it have the same arrangements, hence the same
\* sort.
LEMMA SortedSame ==
    ASSUME NEW n \in Nat, NEW s \in [1 .. n -> Nat], NEW t \in [1 .. n -> Nat],
           NEW g \in Bijection(1 .. n, 1 .. n), \A i \in 1 .. n : t[g[i]] = s[i]
    PROVE  Sorted(s) = Sorted(t)
<1> DEFINE D == 1 .. n
<1>1. /\ \A i \in D : g[i] \in D
      /\ \A i, j \in D : g[i] = g[j] => i = j
      /\ \A d \in D : \E i \in D : g[i] = d
  BY DEF Bijection, Injection, Surjection, IsInjective
<1>2. DOMAIN s = D /\ DOMAIN t = D
  OBVIOUS
<1>3. ASSUME NEW u \in Arrangements(s) PROVE u \in Arrangements(t)
  <2>1. PICK f \in Bijection(D, D) : u = [i \in D |-> s[f[i]]]
    BY <1>2 DEF Arrangements
  <2>2. /\ \A i \in D : f[i] \in D
        /\ \A i, j \in D : f[i] = f[j] => i = j
        /\ \A d \in D : \E i \in D : f[i] = d
    BY DEF Bijection, Injection, Surjection, IsInjective
  <2> DEFINE h == [i \in D |-> g[f[i]]]
  <2>3. h \in [D -> D] /\ \A i, j \in D : h[i] = h[j] => i = j
    BY <1>1, <2>2
  <2>4. \A d \in D : \E i \in D : h[i] = d
    <3> TAKE d \in D
    <3>1. PICK j \in D : g[j] = d
      BY <1>1
    <3>2. PICK i \in D : f[i] = j
      BY <2>2
    <3>3. h[i] = d
      BY <3>1, <3>2
    <3> QED
      BY <3>3
  <2>5. u = [i \in D |-> t[h[i]]]
    BY <2>1, <2>2
  <2> HIDE DEF h
  <2>6. h \in Bijection(D, D)
    BY <2>3, <2>4 DEF Bijection, Injection, Surjection, IsInjective
  <2> QED
    BY <1>2, <2>5, <2>6 DEF Arrangements
<1>4. ASSUME NEW u \in Arrangements(t) PROVE u \in Arrangements(s)
  <2>1. PICK f \in Bijection(D, D) : u = [i \in D |-> t[f[i]]]
    BY <1>2 DEF Arrangements
  <2>2. /\ \A i \in D : f[i] \in D
        /\ \A i, j \in D : f[i] = f[j] => i = j
        /\ \A d \in D : \E i \in D : f[i] = d
    BY DEF Bijection, Injection, Surjection, IsInjective
  <2> DEFINE h == [i \in D |-> CHOOSE k \in D : g[k] = f[i]]
  <2>3. \A i \in D : h[i] \in D /\ g[h[i]] = f[i]
    BY <1>1, <2>2
  <2>4. h \in [D -> D] /\ \A i, j \in D : h[i] = h[j] => i = j
    <3>1. h \in [D -> D]
      BY <2>3
    <3>2. ASSUME NEW i \in D, NEW j \in D, h[i] = h[j] PROVE i = j
      <4>1. g[h[i]] = f[i] /\ g[h[j]] = f[j]
        BY <2>3
      <4>2. f[i] = f[j]
        BY <3>2, <4>1
      <4> QED
        BY <2>2, <4>2
    <3> QED
      BY <3>1, <3>2
  <2>5. \A d \in D : \E i \in D : h[i] = d
    <3> TAKE d \in D
    <3>1. PICK i \in D : f[i] = g[d]
      BY <1>1, <2>2
    <3>2. h[i] = d
      BY <1>1, <2>3, <3>1
    <3> QED
      BY <3>2
  <2> HIDE DEF h
  <2>6. u = [i \in D |-> s[h[i]]]
    <3>1. \A i \in D : t[f[i]] = s[h[i]]
      <4> TAKE i \in D
      <4>1. h[i] \in D /\ g[h[i]] = f[i]
        BY <2>3
      <4>2. t[g[h[i]]] = s[h[i]]
        BY <4>1
      <4> QED
        BY <4>1, <4>2
    <3> QED
      BY <2>1, <3>1
  <2>7. h \in Bijection(D, D)
    BY <2>4, <2>5 DEF Bijection, Injection, Surjection, IsInjective
  <2> QED
    BY <1>2, <2>6, <2>7 DEF Arrangements
<1>5. Arrangements(s) = Arrangements(t)
  BY <1>3, <1>4
<1> QED
  BY <1>2, <1>5 DEF Sorted, SortBy

-----------------------------------------------------------------------------
(* Listings.                                                               *)

\* Every collected entry is matched with a prepared one of its own.
Matched ==
    \E g \in Injection(DOMAIN listed, DOMAIN expected) :
       \A i \in DOMAIN listed : expected[g[i]] = listed[i]

\* What a conforming stream has yielded was prepared; an entry that lacks the
\* requested metadata has failed the check.
ListInv ==
    checkId \in Listings =>
       /\ expected \in Seq(Entries) /\ listed \in Seq(Entries)
       /\ stage \in {"collect", "done"}
       /\ metadata /\ bare => outcome = "Failed"
       /\ stream = "conforming" => Matched /\ outcome # "Failed"
       /\ outcome = "Passed" => \A e \in Entries : Times(listed, e) = Times(expected, e)

\* One more entry of a conforming stream.
LEMMA CollectMatches ==
    ASSUME expected \in Seq(Entries), listed \in Seq(Entries), Matched,
           NEW e \in Entries, Times(listed, e) < Times(expected, e),
           listed' = Append(listed, e), expected' = expected
    PROVE  Matched' /\ Len(listed') <= Len(expected)
<1> DEFINE m == Len(listed)
           L == DOMAIN listed
           X == DOMAIN expected
           A == {i \in L : listed[i] = e}
           B == {k \in X : expected[k] = e}
<1>1. /\ m \in Nat /\ L = 1 .. m /\ Len(expected) \in Nat /\ X = 1 .. Len(expected)
      /\ DOMAIN listed' = 1 .. m + 1 /\ Len(listed') = m + 1 /\ listed'[m + 1] = e
      /\ \A i \in L : listed'[i] = listed[i]
  OBVIOUS
<1> HIDE DEF m
<1>2. IsFiniteSet(L) /\ IsFiniteSet(X) /\ Cardinality(X) = Len(expected)
  <2>1. ASSUME NEW k \in Nat PROVE IsFiniteSet(1 .. k) /\ Cardinality(1 .. k) = k
    <3>1. 1 \in Int /\ k \in Int
      OBVIOUS
    <3>2. IsFiniteSet(1 .. k) /\ Cardinality(1 .. k) = IF 1 > k THEN 0 ELSE k - 1 + 1
      BY <3>1, FS_Interval, Zenon
    <3> QED
      BY <3>2
  <2>2. IsFiniteSet(1 .. m)
    BY <1>1, <2>1
  <2>3. IsFiniteSet(1 .. Len(expected)) /\ Cardinality(1 .. Len(expected)) = Len(expected)
    BY <1>1, <2>1
  <2>4. L = 1 .. m /\ X = 1 .. Len(expected)
    BY <1>1
  <2> HIDE DEF L, X
  <2> QED
    BY <2>2, <2>3, <2>4, Zenon
<1>3. PICK g \in Injection(L, X) : \A i \in L : expected[g[i]] = listed[i]
  BY DEF Matched
<1>4. g \in [L -> X] /\ \A i, j \in L : g[i] = g[j] => i = j
  BY DEF Injection, IsInjective
<1>5. \E k \in B : \A i \in A : g[i] # k
  <2> SUFFICES ASSUME \A k \in B : \E i \in A : g[i] = k PROVE FALSE
    OBVIOUS
  <2> DEFINE h == [i \in A |-> g[i]]
  <2>1. h \in [A -> B]
    BY <1>3, <1>4
  <2>2. \A k \in B : \E i \in A : h[i] = k
    OBVIOUS
  <2>3. IsFiniteSet(A) /\ IsFiniteSet(B)
    <3>1. A \in SUBSET L /\ B \in SUBSET X
      OBVIOUS
    <3> QED
      BY <1>2, <3>1, FS_Subset
  <2>4. Times(listed, e) = Cardinality(A) /\ Times(expected, e) = Cardinality(B)
    BY DEF Times
  <2> HIDE DEF h, A, B
  <2>5. h \in Surjection(A, B)
    BY <2>1, <2>2 DEF Surjection
  <2>6. Cardinality(B) <= Cardinality(A)
    BY <2>3, <2>5, FS_Surjection
  <2>7. Cardinality(A) \in Nat /\ Cardinality(B) \in Nat
    BY <2>3, FS_CardinalityType
  <2> QED
    BY <2>4, <2>6, <2>7
<1>6. PICK k \in B : \A i \in A : g[i] # k
  BY <1>5
<1>7. k \in X /\ expected[k] = e /\ \A i \in L : g[i] # k
  <2>1. k \in X /\ expected[k] = e
    OBVIOUS
  <2>2. ASSUME NEW i \in L, g[i] = k PROVE FALSE
    <3>1. i \in A
      BY <1>3, <2>1, <2>2
    <3> QED
      BY <1>6, <2>2, <3>1
  <2> QED
    BY <2>1, <2>2
<1> DEFINE N == 1 .. m + 1
           h == [i \in N |-> IF i = m + 1 THEN k ELSE g[i]]
<1>8. \A i \in N : i = m + 1 \/ i \in L
  BY <1>1
<1>9. h \in [N -> X]
  BY <1>4, <1>7, <1>8
<1>10. \A i, j \in N : h[i] = h[j] => i = j
  <2> SUFFICES ASSUME NEW i \in N, NEW j \in N, i # j PROVE h[i] # h[j]
    OBVIOUS
  <2>1. CASE i = m + 1
    BY <1>7, <1>8, <2>1
  <2>2. CASE j = m + 1
    BY <1>7, <1>8, <2>2
  <2>3. CASE i # m + 1 /\ j # m + 1
    BY <1>4, <1>8, <2>3
  <2> QED
    BY <2>1, <2>2, <2>3
<1>11. \A i \in N : expected[h[i]] = listed'[i]
  <2> TAKE i \in N
  <2>1. CASE i = m + 1
    BY <1>1, <1>7, <2>1
  <2>2. CASE i # m + 1
    BY <1>1, <1>3, <1>8, <2>2
  <2> QED
    BY <2>1, <2>2
<1> HIDE DEF h, L, A, B
<1>12. h \in Injection(N, X)
  BY <1>9, <1>10 DEF Injection, IsInjective
<1>13. Matched'
  BY <1>1, <1>11, <1>12 DEF Matched
<1>14. Cardinality(N) = m + 1
  BY <1>1, FS_Interval
<1>15. Cardinality(N) <= Cardinality(X)
  BY <1>2, <1>12, FS_Injection
<1> QED
  BY <1>1, <1>2, <1>13, <1>14, <1>15

\* A complete match is the same listing.
LEMMA MatchedIsSame ==
    ASSUME expected \in Seq(Entries), listed \in Seq(Entries), Matched,
           Len(listed) = Len(expected)
    PROVE  SameListing(listed, expected)
<1> DEFINE n == Len(listed)
           D == 1 .. n
<1>1. /\ n \in Nat /\ DOMAIN listed = D /\ DOMAIN expected = D
      /\ listed \in [D -> Nat] /\ expected \in [D -> Nat]
  <2>1. n \in Nat /\ listed \in [D -> Entries] /\ expected \in [D -> Entries]
    OBVIOUS
  <2> HIDE DEF n
  <2> QED
    BY <2>1, EntriesAssumption
<1> HIDE DEF n
<1>2. PICK g \in Injection(D, D) : \A i \in D : expected[g[i]] = listed[i]
  BY <1>1 DEF Matched
<1>3. IsFiniteSet(D)
  BY <1>1, FS_Interval
<1>4. g \in Surjection(D, D)
  BY <1>3, FS_Injection
<1>5. g \in Bijection(D, D)
  BY <1>4 DEF Bijection
<1>6. Sorted(listed) = Sorted(expected)
  BY <1>1, <1>2, <1>5, SortedSame
<1> QED
  BY <1>6 DEF SameListing

\* Listings that compare equal have the same entries.
LEMMA SameIsEqual ==
    ASSUME expected \in Seq(Entries), listed \in Seq(Entries), SameListing(listed, expected)
    PROVE  \A e \in Entries : Times(listed, e) = Times(expected, e)
<1>1. expected \in Seq(Nat) /\ listed \in Seq(Nat)
  <2>1. ASSUME NEW s \in Seq(Entries) PROVE s \in Seq(Nat)
    <3>1. Len(s) \in Nat /\ s \in [1 .. Len(s) -> Entries]
      OBVIOUS
    <3>2. s \in [1 .. Len(s) -> Nat]
      BY <3>1, EntriesAssumption
    <3> QED
      BY <3>1, <3>2
  <2> QED
    BY <2>1
<1>2. /\ Sorted(listed) \in Arrangements(listed) /\ Sorted(expected) \in Arrangements(expected)
      /\ Sorted(listed) = Sorted(expected)
  BY <1>1, SortedArranges DEF SameListing
<1> TAKE e \in Entries
<1>3. /\ Times(Sorted(listed), e) = Times(listed, e)
      /\ Times(Sorted(expected), e) = Times(expected, e)
  BY <1>1, <1>2, ArrangedTimes
<1> QED
  BY <1>2, <1>3

\* Nothing is listed when a check is entered.
LEMMA ListInitHolds == QueryInit => ListInv
<1> SUFFICES ASSUME ListInit PROVE ListInv
  <2>1. ProbeInit => checkId \notin Listings
    BY DEF ProbeInit, Listings, Probes, Admission, Boundary
  <2> QED
    BY <2>1 DEF QueryInit, ListInv
<1>1. /\ stage = "collect" /\ outcome = "none" /\ listed = <<>> /\ bare = FALSE
      /\ expected \in UNION {[1 .. n -> Entries] : n \in 0 .. MaxExpected}
  BY DEF ListInit
<1>2. expected \in Seq(Entries)
  <2>1. PICK n \in 0 .. MaxExpected : expected \in [1 .. n -> Entries]
    BY <1>1
  <2>2. n \in Nat
    BY EntriesAssumption
  <2> QED
    BY <2>1, <2>2
<1>3. Matched
  <2> DEFINE g == [i \in {} |-> i]
  <2>1. DOMAIN listed = {}
    BY <1>1
  <2>2. g \in Injection({}, DOMAIN expected)
    BY DEF Injection, IsInjective
  <2> QED
    BY <2>1, <2>2 DEF Matched
<1> QED
  BY <1>1, <1>2, <1>3 DEF ListInv

\* Every entry, error and end of the stream keeps the invariant.
LEMMA ListStep == ASSUME LimitInv, ListInv, [QueryNext]_queryVars PROVE ListInv'
<1>0. CASE checkId \notin Listings
  <2>1. checkId' = checkId
    BY DEF QueryNext, queryVars, probeVars, ProbeNext, PlanAdmission, SubmitPath,
           PlanBoundary, SubmitAt, SubmitOver, PageClamp, ReadWindow, NextEntry, StreamError, StreamEnds
  <2> QED
    BY <1>0, <2>1 DEF ListInv
<1> SUFFICES ASSUME checkId \in Listings PROVE ListInv'
  BY <1>0
<1>1. /\ expected \in Seq(Entries) /\ listed \in Seq(Entries)
      /\ stage \in {"collect", "done"}
      /\ metadata /\ bare => outcome = "Failed"
      /\ stream = "conforming" => Matched /\ outcome # "Failed"
      /\ outcome = "Passed" => \A e \in Entries : Times(listed, e) = Times(expected, e)
      /\ stage = "collect" => outcome = "none"
  BY DEF ListInv, LimitInv, PlanInv
<1>2. ~ProbeNext
  <2>1. checkId \notin Probes
    BY DEF Listings, Probes, Admission, Boundary
  <2> QED
    BY <1>1, <2>1 DEF ProbeNext, PlanAdmission, SubmitPath, PlanBoundary, SubmitAt, SubmitOver,
                      PageClamp, ReadWindow, Probes
<1>3. CASE UNCHANGED queryVars
  BY <1>1, <1>3 DEF queryVars, probeVars, listing, ListInv, Matched
<1>4. CASE NextEntry
  <2>1. /\ stage = "collect" /\ outcome = "none"
        /\ UNCHANGED <<checkId, stream, metadata, expected>>
    BY <1>1, <1>4 DEF NextEntry
  <2>2. PICK e \in Entries :
           /\ Yields(e)
           /\ \/ Collect(e) /\ UNCHANGED bare
              \/ /\ Unreliable /\ bare' = TRUE
                 /\ \/ metadata /\ End("Failed") /\ UNCHANGED listed
                    \/ ~metadata /\ Collect(e)
    BY <1>4 DEF NextEntry
  <2>3. CASE metadata /\ End("Failed") /\ UNCHANGED listed /\ Unreliable
    BY <1>1, <2>1, <2>3 DEF End, Unreliable, ListInv
  <2>4. CASE Collect(e) /\ (metadata /\ bare' => bare)
    <3>1. /\ listed' = Append(listed, e) /\ listed' \in Seq(Entries)
          /\ Len(listed') <= Len(expected) => UNCHANGED <<stage, outcome>>
          /\ UNCHANGED <<stage, outcome>> \/ (stage' = "done" /\ outcome' = "Failed")
      BY <1>1, <2>4 DEF Collect, End
    <3>2. CASE stream = "conforming"
      <4>1. Times(listed, e) < Times(expected, e)
        BY <2>2, <3>2 DEF Yields, Unreliable
      <4>2. Matched' /\ Len(listed') <= Len(expected)
        BY <1>1, <2>1, <3>1, <3>2, <4>1, CollectMatches
      <4> QED
        BY <1>1, <2>1, <2>4, <3>1, <4>2 DEF ListInv
    <3>3. CASE stream # "conforming"
      BY <1>1, <2>1, <2>4, <3>1, <3>3 DEF ListInv
    <3> QED
      BY <3>2, <3>3
  <2> QED
    BY <2>2, <2>3, <2>4
<1>5. CASE StreamError
  BY <1>1, <1>5 DEF StreamError, End, listing, Unreliable, ListInv
<1>6. CASE StreamEnds
  <2>1. /\ stage = "collect" /\ outcome = "none" /\ (Unreliable \/ Len(listed) = Len(expected))
        /\ UNCHANGED <<checkId, stream, metadata, expected, listed, bare>>
        /\ stage' = "done"
        /\ outcome' = IF SameListing(listed, expected) THEN "Passed" ELSE "Failed"
    BY <1>1, <1>6 DEF StreamEnds, End, listing
  <2>2. stream = "conforming" => SameListing(listed, expected)
    BY <1>1, <2>1, MatchedIsSame DEF Unreliable
  <2>3. outcome' = "Passed" => \A e \in Entries : Times(listed, e) = Times(expected, e)
    BY <1>1, <2>1, SameIsEqual
  <2>4. Matched => Matched'
    BY <2>1 DEF Matched
  <2>5. ~(metadata /\ bare)
    <3>1. outcome = "none" /\ (metadata /\ bare => outcome = "Failed")
      BY <1>1, <2>1
    <3> QED
      BY <3>1
  <2>6. /\ expected' \in Seq(Entries) /\ listed' \in Seq(Entries)
        /\ stage' = "done" /\ ~(metadata' /\ bare')
    BY <1>1, <2>1, <2>5
  <2>7. stream' = "conforming" => Matched' /\ outcome' # "Failed"
    BY <1>1, <2>1, <2>2, <2>4
  <2>8. outcome' = "Passed" => \A e \in Entries : Times(listed', e) = Times(expected', e)
    BY <2>1, <2>3
  <2> QED
    BY <2>6, <2>7, <2>8 DEF ListInv
<1> QED
  BY <1>2, <1>3, <1>4, <1>5, <1>6 DEF QueryNext

-----------------------------------------------------------------------------
(* The theorems.                                                           *)

\* Every planned path isolates the limit under test, within the budget
\* (admission_path of property_expectations.rs).
THEOREM ProbeTheorem == QuerySpec => []ProbeIsolates
<1>1. LimitInv => ProbeIsolates
  BY DEF LimitInv, PlanInv, PathPlanned, ProbeIsolates
<1> QED
  BY <1>1, LimitInvariant, PTL

\* No check of a limit fails a provider that enforces what it declares.
THEOREM EnforcedTheorem == QuerySpec => []EnforcedNeverFails
<1>1. LimitInv => EnforcedNeverFails
  BY DEF LimitInv
<1> QED
  BY <1>1, LimitInvariant, PTL

\* What a check reports as evidence of a limit is evidence of that limit.
THEOREM EvidenceTheorem == QuerySpec => []EvidenceIsForTheLimit
<1>1. LimitInv => EvidenceIsForTheLimit
  BY DEF LimitInv
<1> QED
  BY <1>1, LimitInvariant, PTL

\* The verdict on a listing is right: it passes only on the prepared entries,
\* each as often as it was prepared (the two sorts and the comparison of
\* list.rs and namespace.rs), and a conforming listing passes in any order.
THEOREM ListingTheorem == QuerySpec => []ListingIsJudged
<1>1. ListInv => ListingIsJudged
  BY DEF ListInv, ListingIsJudged, Listings
<1>2. LimitInv /\ ListInv /\ [QueryNext]_queryVars => ListInv'
  BY ListStep
<1>3. QuerySpec => []ListInv
  BY <1>2, ListInitHolds, LimitInvariant, PTL DEF QuerySpec
<1> QED
  BY <1>1, <1>3, PTL
=============================================================================
