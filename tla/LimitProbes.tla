------------------------------ MODULE LimitProbes ------------------------------
(***************************************************************************)
(* The checks that probe a declared resource limit, and the arithmetic     *)
(* behind them: internal/limit_probe_plan.rs, property_expectations.rs and *)
(* read_expectations.rs.                                                   *)
(*                                                                         *)
(* A provider declares limits and enforces, through its facade, limits of  *)
(* its own (`actual`), which conform when they are the declared ones.  A   *)
(* limit is a maximum or not finite; texts and payloads are their lengths. *)
(***************************************************************************)
EXTENDS Integers

CONSTANTS MaxProbeBytes,    \* MAX_PROBE_BYTES
          MaxProbeEntries,  \* MAX_PROBE_ENTRIES
          MaxU64            \* u64::MAX

ASSUME BudgetAssumption ==
    /\ MaxProbeBytes \in Nat /\ MaxProbeEntries \in Nat /\ MaxU64 \in Nat
    /\ MaxProbeBytes < MaxU64 /\ MaxProbeEntries < MaxU64

Limits == {l \in [finite : BOOLEAN, maximum : 0 .. MaxU64] : l.finite \/ l.maximum = 0}
Unlimited == [finite |-> FALSE, maximum |-> 0]
Exceeds(length, limit) == limit.finite /\ length > limit.maximum

-----------------------------------------------------------------------------
(* limit_probe_plan.rs.  An Option is a set with at most one element.      *)

BoundedSuccessor(maximum, budget) ==
    IF maximum >= budget \/ maximum + 1 > MaxU64 \/ maximum + 1 > budget THEN {}
    ELSE {[at |-> maximum, over |-> maximum + 1]}

FiniteProbe(limit, budget) ==
    IF limit.finite THEN BoundedSuccessor(limit.maximum, budget) ELSE {}

\* bounded_payload of this file and of both write.rs: the length of the sample.
BoundedPayload(limit, preferred) ==
    IF Exceeds(preferred, limit) THEN limit.maximum ELSE preferred

-----------------------------------------------------------------------------
(* read_expectations.rs.                                                   *)

ContentLength == 19

Window(limit) ==
    LET length == BoundedPayload(limit, 8)
    IN [offset |-> IF length >= 8 THEN 5 ELSE 0, length |-> length]

-----------------------------------------------------------------------------
(* property_expectations.rs.                                               *)

VARIABLES
    checkId,    \* the check that runs
    declared,   \* the limits of the property snapshot
    actual,     \* the limits the facade enforces
    semantics,  \* PathSemantics
    absolute,   \* PathForm::Absolute
    stage,      \* "plan", the request to make next, or "done"
    probe,      \* the planned request
    outcome     \* the outcome, "Failed", or "none"

probeVars == <<checkId, declared, actual, semantics, absolute, stage, probe, outcome>>

Admission == {"PropertiesLimitPathAdmission", "PropertiesLimitComponentAdmission"}
Boundary == {"WriteLimit", "ReadRangeLimit"}
Probes == Admission \cup Boundary \cup {"PropertiesLimitListPage", "ReadRange"}
NoProbe == [component |-> 0, text |-> 0, at |-> 0, over |-> 0]

Declarations == [path : Limits, component : Limits, bytes : Limits]
PathOnly == {d \in Declarations : d.bytes = Unlimited}
BytesOnly == {d \in Declarations : d.path = Unlimited /\ d.component = Unlimited}

ProbeInit ==
    /\ \/ checkId \in Admission /\ declared \in PathOnly /\ actual \in PathOnly
       \/ /\ checkId \in Probes \ Admission
          /\ declared \in BytesOnly /\ actual \in BytesOnly
    /\ semantics \in {"Hierarchical", "Literal"} /\ absolute \in BOOLEAN
    /\ stage = "plan" /\ probe = NoProbe /\ outcome = "none"

End(result) == stage' = "done" /\ outcome' = result /\ UNCHANGED probe

Component == checkId = "PropertiesLimitComponentAdmission"
PrefixBytes == IF absolute THEN 1 ELSE 0
SelectedLimit == IF Component THEN declared.component ELSE declared.path

\* The one component of the probe and the whole text.
ComponentBytes(over) == IF Component THEN over ELSE over - PrefixBytes
TextBytes(over) == ComponentBytes(over) + PrefixBytes

\* Mutant: a rejection by the other limit counts.
MaskedNever(over) == FALSE

\* Another limit would reject the probe as well.
Masked(over) ==
    IF Component THEN Exceeds(TextBytes(over), declared.path)
    ELSE semantics = "Hierarchical" /\ Exceeds(ComponentBytes(over), declared.component)

\* admission_path.
PlanAdmission ==
    /\ stage = "plan" /\ checkId \in Admission
    /\ \/ Component /\ semantics # "Hierarchical" /\ End("NotApplicable")
       \/ /\ ~(Component /\ semantics # "Hierarchical")
          /\ FiniteProbe(SelectedLimit, MaxProbeBytes) = {}
          /\ End("SkippedOptional")
       \/ /\ ~(Component /\ semantics # "Hierarchical")
          /\ \E p \in FiniteProbe(SelectedLimit, MaxProbeBytes) :
                \/ /\ TextBytes(p.over) > MaxProbeBytes \/ Masked(p.over)
                   /\ End("SkippedOptional")
                \/ /\ TextBytes(p.over) <= MaxProbeBytes /\ ~Masked(p.over)
                   /\ probe' = [NoProbe EXCEPT !.component = ComponentBytes(p.over),
                                               !.text = TextBytes(p.over)]
                   /\ stage' = "path" /\ UNCHANGED outcome
    /\ UNCHANGED <<checkId, declared, actual, semantics, absolute>>

\* The facade admits a path that exceeds none of its limits.
Admits(p) ==
    /\ ~Exceeds(p.text, actual.path)
    /\ semantics = "Hierarchical" => ~Exceeds(p.component, actual.component)

SubmitPath ==
    /\ stage = "path"
    /\ End(IF Admits(probe) THEN "Failed" ELSE "RejectedAsExpected")
    /\ UNCHANGED <<checkId, declared, actual, semantics, absolute>>

\* WriteLimit and ReadRangeLimit: the boundary is accepted, its successor not.
PlanBoundary ==
    /\ stage = "plan" /\ checkId \in Boundary
    /\ \/ FiniteProbe(declared.bytes, MaxProbeBytes) = {} /\ End("SkippedOptional")
       \/ /\ \E p \in FiniteProbe(declared.bytes, MaxProbeBytes) :
                probe' = [NoProbe EXCEPT !.at = p.at, !.over = p.over]
          /\ stage' = "at" /\ UNCHANGED outcome
    /\ UNCHANGED <<checkId, declared, actual, semantics, absolute>>

\* Mutant: the boundary itself is not tried.
SubmitAtUntried ==
    /\ stage = "at"
    /\ stage' = "over" /\ UNCHANGED <<probe, outcome>>
    /\ UNCHANGED <<checkId, declared, actual, semantics, absolute>>

SubmitAt ==
    /\ stage = "at"
    /\ IF Exceeds(probe.at, actual.bytes) THEN End("Failed")
       ELSE stage' = "over" /\ UNCHANGED <<probe, outcome>>
    /\ UNCHANGED <<checkId, declared, actual, semantics, absolute>>

SubmitOver ==
    /\ stage = "over"
    /\ End(IF Exceeds(probe.over, actual.bytes) THEN "Passed" ELSE "Failed")
    /\ UNCHANGED <<checkId, declared, actual, semantics, absolute>>

\* check_snapshot, PropertiesLimitListPage: the page size is clamped.
Clamped(requested, limit) ==
    IF Exceeds(requested, limit) THEN limit.maximum ELSE requested

\* Mutant: the clamped page must be smaller than the maximum.
PageClampStrict ==
    /\ stage = "plan" /\ checkId = "PropertiesLimitListPage"
    /\ LET planned == FiniteProbe(declared.bytes, MaxProbeEntries) IN
       IF planned = {} THEN End("SkippedOptional")
       ELSE \E p \in planned :
              End(IF Clamped(p.over, declared.bytes) < p.at THEN "Passed" ELSE "Failed")
    /\ UNCHANGED <<checkId, declared, actual, semantics, absolute>>

PageClamp ==
    /\ stage = "plan" /\ checkId = "PropertiesLimitListPage"
    /\ LET planned == FiniteProbe(declared.bytes, MaxProbeEntries) IN
       IF planned = {} THEN End("SkippedOptional")
       ELSE \E p \in planned :
              End(IF Clamped(p.over, declared.bytes) <= p.at THEN "Passed" ELSE "Failed")
    /\ UNCHANGED <<checkId, declared, actual, semantics, absolute>>

\* ReadRange: a window of the content, and empty ranges at its end and beyond.
\* The provider refuses a range over its limit, and a window that leaves the
\* content is read short.
ReadWindow ==
    /\ stage = "plan" /\ checkId = "ReadRange"
    /\ LET w == Window(declared.bytes)
           lengths == {w.length, 0, BoundedPayload(declared.bytes, 1)}
       IN End(IF \/ \E n \in lengths : Exceeds(n, actual.bytes)
                 \/ w.offset + w.length > ContentLength
              THEN "Failed" ELSE "Passed")
    /\ UNCHANGED <<checkId, declared, actual, semantics, absolute>>

ProbeNext ==
    \/ PlanAdmission \/ SubmitPath \/ PlanBoundary \/ SubmitAt \/ SubmitOver
    \/ PageClamp \/ ReadWindow

-----------------------------------------------------------------------------
(* Properties.                                                             *)

\* No probe is longer than the budget, and a planned path is one byte over the
\* selected limit and over no other declared limit: its rejection can be
\* attributed.
ProbeIsolates ==
    /\ probe.text <= MaxProbeBytes /\ probe.over <= MaxProbeBytes
    /\ stage = "path" =>
       LET selected == IF Component THEN probe.component ELSE probe.text IN
       /\ selected = SelectedLimit.maximum + 1
       /\ Component => ~Exceeds(probe.text, declared.path)
       /\ ~Component /\ semantics = "Hierarchical" =>
             ~Exceeds(probe.component, declared.component)

\* A provider that enforces what it declares is never failed: by no probe, by
\* the clamped page size, nor by a window it could not serve.
EnforcedNeverFails == checkId \in Probes /\ actual = declared => outcome # "Failed"

\* Evidence for a limit is evidence for that limit: with the other limit as
\* declared, a rejected probe means that the selected one is enforced, and a
\* boundary check passes only on the exact maximum.
EvidenceIsForTheLimit ==
    /\ outcome = "RejectedAsExpected" =>
          IF Component
          THEN actual.path = declared.path => Exceeds(probe.component, actual.component)
          ELSE actual.component = declared.component => Exceeds(probe.text, actual.path)
    /\ outcome = "Passed" /\ checkId \in Boundary => actual.bytes = declared.bytes

=============================================================================
