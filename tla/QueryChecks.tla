------------------------------ MODULE QueryChecks ------------------------------
(***************************************************************************)
(* The checks that only ask: Properties, Stat, Read, List, Representations *)
(* and ErrorContext.  What they compare is the answer itself, so their     *)
(* programs promise nothing about the resources; the arithmetic behind the *)
(* limits is in LimitProbes, the collection of a listing in ListingChecks. *)
(*                                                                         *)
(* Besides capabilities, `has` may hold "FiniteRange" (the declared read   *)
(* range limit fits the probe budget), "Hierarchical" (path semantics),    *)
(* and "ProbeFits" (a path or page limit can be probed).                   *)
(***************************************************************************)
EXTENDS CheckSteps

\* A question that must be refused; an answer that is wrong fails plainly.
RefusedQuery == Refuse({})
RejectedQuery == Rejected(<<Path, RefusedQuery>>)

Seeded == Prepare([target |-> "old"], "Unverified")

-----------------------------------------------------------------------------
(* Properties.                                                             *)

\* property_expectations::admission_path decides whether there is a probe.
PathAdmission(id, has) ==
    IF id = "PropertiesLimitComponentAdmission" /\ "Hierarchical" \notin has
    THEN Outright("NotApplicable")
    ELSE IF "ProbeFits" \in has THEN Rejected(<<RefusedQuery>>)
                                ELSE Outright("SkippedOptional")
SyncPathAdmission(id, has) == PathAdmission(id, has)

\* The fixture path is validated against the declared constraints.
PathConstraints == Check(<<Path, Vet, Query>>, "Passed", Nothing)
SyncPathConstraints == PathConstraints

\* Snapshots are compared with what the filesystem reports now; the list page
\* limit is clamped by arithmetic alone.
SnapshotCheck(id, has) ==
    IF id = "PropertiesLimitListPage" /\ "ProbeFits" \notin has THEN Outright("SkippedOptional")
    ELSE Check(<<Query>>, "Passed", Nothing)

PropertiesOf(id, has, constraints, Admission(_, _)) ==
    CASE id = "PropertiesPathConstraints" -> constraints
      [] id \in {"PropertiesLimitPathAdmission", "PropertiesLimitComponentAdmission"} ->
            Admission(id, has)
      [] OTHER -> SnapshotCheck(id, has)
Properties(id, has) == PropertiesOf(id, has, PathConstraints, PathAdmission)
SyncProperties(id, has) == PropertiesOf(id, has, SyncPathConstraints, SyncPathAdmission)

-----------------------------------------------------------------------------
(* Stat, representations, error context.                                   *)

Stat(id) == IF id = "StatBasic" THEN RejectedQuery
            ELSE Check(<<Seeded, Query>>, "Passed", Nothing)
SyncStat(id) == Stat(id)

Representation(capability, has) ==
    IF capability \notin has THEN Outright("NotApplicable")
    ELSE Check(<<Seeded, Query>>, "Passed", Nothing)
SyncRepresentation(capability, has) == Representation(capability, has)

ErrorContext == Check(<<Path, RefusedQuery>>, "Passed", Nothing)
SyncErrorContext == ErrorContext

-----------------------------------------------------------------------------
(* Read.                                                                   *)

\* check_catalog::specification.
ReadCapability ==
    [ReadBasic |-> "Read", ReadRange |-> "RangeRead", ReadRangeLimit |-> "RangeRead",
     ReadIfMatchCurrent |-> "ConditionalRead", ReadIfMatchStale |-> "ConditionalRead",
     ReadIfNoneMatchCurrent |-> "ConditionalRead",
     ReadIfNoneMatchStale |-> "ConditionalRead",
     ReadChecksum |-> "ChecksumValidation",
     ReadChecksumCorruption |-> "ChecksumValidation"]
OptionalRead == {"ReadRangeLimit", "ReadChecksumCorruption"}

\* read_expectations: uses_stale, uses_version, rejection.
UsesStale == {"ReadIfMatchStale", "ReadIfNoneMatchStale"}
UsesVersion == UsesStale \cup {"ReadIfMatchCurrent", "ReadIfNoneMatchCurrent"}
Rejection == {"ReadIfMatchStale", "ReadIfNoneMatchCurrent", "ReadChecksumCorruption"}

\* The current version, and where the scenario needs it the stale one.
ReadVersions(id) ==
    (IF id \in UsesVersion THEN <<Ask("Unverified")>> ELSE <<>>)
    \o (IF id \in UsesStale THEN <<Ask("Unverified"), Vet>> ELSE <<>>)
SyncReadVersions(id) == ReadVersions(id)

\* At the limit the bytes are compared, above it the reader must not open.
ReadRangeLimit == <<Query, RefusedQuery>>
SyncReadRangeLimit == ReadRangeLimit

\* check_read_result: three empty ranges, or a caller's byte limit.
ReadResult(id) ==
    CASE id = "ReadRange" -> <<Query, Query, Query>>
      [] id = "ReadBasic" -> <<RefusedQuery>>
      [] OTHER -> <<>>
SyncReadResult(id) == ReadResult(id)

\* Without the capability: nothing to say, an optional check that does not
\* apply, or a reader that must not open.
UnavailableRead(id, has) ==
    IF ("Read" \notin has /\ id # "ReadBasic") \/ id \in OptionalRead
    THEN Outright("NotApplicable")
    ELSE RejectedQuery
SyncUnavailableRead(id, has) == UnavailableRead(id, has)

ReadOf(id, has, unavailable, versions, limit, result) ==
    CASE {"Read", ReadCapability[id]} \ has # {} -> unavailable
      [] {"Read", ReadCapability[id]} \subseteq has /\ id = "ReadRangeLimit"
                                                    /\ "FiniteRange" \notin has ->
            Outright("SkippedOptional")
      [] OTHER ->
            Check(<<PrepareOr([target |-> "old"], {"target"},
                              IF id \in OptionalRead THEN "SkippedOptional" ELSE "Unverified",
                              "Unverified")>>
                    \o versions
                    \o (CASE id = "ReadRangeLimit" -> limit
                          [] id \in Rejection -> <<RefusedQuery>>
                          [] OTHER -> <<Query>> \o result),
                  IF id \in Rejection THEN "RejectedAsExpected" ELSE "Passed", Nothing)

Read(id, has) ==
    ReadOf(id, has, UnavailableRead(id, has), ReadVersions(id),
           ReadRangeLimit, ReadResult(id))
SyncRead(id, has) ==
    ReadOf(id, has, SyncUnavailableRead(id, has), SyncReadVersions(id),
           SyncReadRangeLimit, SyncReadResult(id))

-----------------------------------------------------------------------------
(* List.  Two roles stand for the seeded entries, "source" for a prefix    *)
(* directory.                                                              *)

SeededEntries == <<Seeded, Prepare([over |-> "old"], "Unverified")>>

\* A scope or a filter that the path semantics do not know is refused.
List(id, has) ==
    LET incompatible == IF "Hierarchical" \in has THEN id = "ListLiteralPrefix"
                                                  ELSE id = "ListPrefix"
    IN IF incompatible \/ "List" \notin has THEN RejectedQuery
       ELSE Check(<<Path>>
                    \o (IF id = "ListPrefix" THEN <<Prepare([source |-> "dir"], "Unverified")>>
                                             ELSE <<>>)
                    \o SeededEntries \o <<Query, Query>>,
                  "Passed", Nothing)
SyncList(id, has) == List(id, has)

\* check_flat_scope_item; only the namespace needs the fixture's snapshot.
FlatScope(id, has) ==
    LET scope == IF id = "ListNamespace" THEN <<>> ELSE <<Path>> IN
    IF "Hierarchical" \in has \/ "List" \notin has THEN Rejected(scope \o <<RefusedQuery>>)
    ELSE Check(scope \o SeededEntries
                 \o (IF id = "ListNamespace" THEN <<Ask("Unverified"), Vet>> ELSE <<>>)
                 \o <<Query, Query>>,
               "Passed", Nothing)
SyncFlatScope(id, has) == FlatScope(id, has)

-----------------------------------------------------------------------------
PropertiesIds == {"PropertiesSnapshot", "PropertiesCapabilityDependencies",
    "PropertiesLimits", "PropertiesSymlinkPolicy", "PropertiesPathConstraints",
    "PropertiesLimitPathAdmission", "PropertiesLimitComponentAdmission",
    "PropertiesLimitListPage"}
ListIds == {"ListBasic", "ListPrefix", "ListPagination", "ListLiteralPrefix"}
FlatIds == {"ListNamespace", "ListRawRootPrefix"}
RepresentationCapability ==
    [RepresentationEmpty |-> "EmptyDirectory", RepresentationSymlink |-> "Symlink"]

Modes == {"async", "sync"}
PropertiesKeys ==
    [mode : Modes, check : PropertiesIds, has : {{}, {"ProbeFits"}, {"Hierarchical"}, {"Hierarchical", "ProbeFits"}}]
ListKeys ==
    [mode : Modes, check : ListIds \cup FlatIds,
     has : {{}, {"List"}, {"Hierarchical"}, {"List", "Hierarchical"}}]
ReadKeys ==
    [mode : Modes, check : DOMAIN ReadCapability,
     has : {{}, {"Read"}, {"Read", "RangeRead", "ConditionalRead", "ChecksumValidation"},
            {"Read", "RangeRead", "FiniteRange"}}]
OtherQueryKeys ==
    [mode : Modes, check : {"StatBasic", "StatFileKind", "ErrorContext"}, has : {{}}]
    \cup [mode : Modes, check : DOMAIN RepresentationCapability,
          has : {{}, {"EmptyDirectory", "Symlink"}}]
QueryKeys == PropertiesKeys \cup ListKeys \cup ReadKeys \cup OtherQueryKeys

QueryProgram(k) ==
    LET id == k.check
        async == k.mode = "async"
    IN CASE id \in PropertiesIds ->
               IF async THEN Properties(id, k.has) ELSE SyncProperties(id, k.has)
         [] id \in ListIds -> IF async THEN List(id, k.has) ELSE SyncList(id, k.has)
         [] id \in FlatIds ->
               IF async THEN FlatScope(id, k.has) ELSE SyncFlatScope(id, k.has)
         [] id \in DOMAIN ReadCapability ->
               IF async THEN Read(id, k.has) ELSE SyncRead(id, k.has)
         [] id \in DOMAIN RepresentationCapability ->
               IF async THEN Representation(RepresentationCapability[id], k.has)
                        ELSE SyncRepresentation(RepresentationCapability[id], k.has)
         [] id = "ErrorContext" -> IF async THEN ErrorContext ELSE SyncErrorContext
         [] OTHER -> IF async THEN Stat(id) ELSE SyncStat(id)
=============================================================================
