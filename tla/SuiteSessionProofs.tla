------------------------- MODULE SuiteSessionProofs -------------------------
(***************************************************************************)
(* Proofs about asynchronous cleanup, and about the verdict of the session *)
(* it belongs to, for every catalog, every set of paths, every tree over   *)
(* them, every combination of capabilities and every bound.                *)
(***************************************************************************)
EXTENDS SuiteSession, SequenceTheorems, TLAPS

-----------------------------------------------------------------------------
(* Asynchronous cleanup.                                                   *)

\* What Vec::remove leaves: everything before the index in place, everything
\* after it one place lower.
LEMMA RemoveAtFacts ==
    ASSUME NEW S, NEW s \in Seq(S), NEW i \in 1 .. Len(s)
    PROVE  /\ RemoveAt(s, i) \in Seq(S)
           /\ Len(RemoveAt(s, i)) = Len(s) - 1
           /\ \A j \in 1 .. (Len(s) - 1) :
                 RemoveAt(s, i)[j] = IF j < i THEN s[j] ELSE s[j + 1]
<1> DEFINE a == SubSeq(s, 1, i - 1)
           b == SubSeq(s, i + 1, Len(s))
<1>1. /\ a \in Seq(S) /\ Len(a) = i - 1
      /\ \A j \in 1 .. (i - 1) : a[j] = s[j]
  OBVIOUS
<1>2. /\ b \in Seq(S) /\ Len(b) = Len(s) - i
      /\ \A j \in 1 .. (Len(s) - i) : b[j] = s[i + j]
  OBVIOUS
<1>3. RemoveAt(s, i) = a \o b
  BY DEF RemoveAt
<1> HIDE DEF a, b
<1>4. /\ a \o b \in Seq(S)
      /\ Len(a \o b) = Len(s) - 1
      /\ \A j \in 1 .. (Len(s) - 1) :
            (a \o b)[j] = IF j <= i - 1 THEN a[j] ELSE b[j - (i - 1)]
  <2>1. /\ a \o b \in Seq(S)
        /\ Len(a \o b) = Len(a) + Len(b)
        /\ \A j \in 1 .. Len(a) + Len(b) :
              (a \o b)[j] = IF j <= Len(a) THEN a[j] ELSE b[j - Len(a)]
    BY <1>1, <1>2, ConcatProperties, Zenon
  <2> QED
    BY <2>1, <1>1, <1>2
<1>5. \A j \in 1 .. (Len(s) - 1) :
         (a \o b)[j] = IF j < i THEN s[j] ELSE s[j + 1]
  <2> TAKE j \in 1 .. (Len(s) - 1)
  <2>1. CASE j < i
    BY <2>1, <1>1, <1>4
  <2>2. CASE ~(j < i)
    <3>1. j - (i - 1) \in 1 .. (Len(s) - i) /\ i + (j - (i - 1)) = j + 1
      BY <2>2
    <3> QED
      BY <2>2, <3>1, <1>2, <1>4
  <2> QED
    BY <2>1, <2>2
<1> QED
  BY <1>3, <1>4, <1>5

-----------------------------------------------------------------------------
(* Every step of a suite that touches the ledger, whoever takes it.        *)
CleanupStep ==
    \/ pc = "idle" /\ \E p \in Paths : Stage(p) \/ RecordCreated(p)
    \/ Begin
    \/ Resume
    \/ Cancel
    \/ \E p \in Paths : Vanish(p)

\* The ways an entry's turn ends, as facts about the next state only.
LEMMA ReleaseFacts ==
    ASSUME CleanupTypeOK, CursorInLedger, pc \in {"stat", "delete", "verify"}, Release
    PROVE  /\ resources' \in Seq(TrackedResource)
           /\ Len(resources') = Len(resources) - 1
           /\ cursor' = cursor - 1
           /\ \A j \in 1 .. (Len(resources) - 1) :
                 resources'[j] = IF j < cursor THEN resources[j] ELSE resources[j + 1]
           /\ pc' \in {"idle", "stat", "teardown"}
           /\ pc' = "stat" => cursor' > 0
           /\ pc' # "stat" => cursor' = 0
           /\ completed' \in BOOLEAN
           /\ failures' = failures
           /\ UNCHANGED <<resourceIndex, recorded, attempts, failureStart, teardownCompleted>>
<1>1. cursor \in 1 .. Len(resources) /\ resources \in Seq(TrackedResource)
  BY DEF CleanupTypeOK, CursorInLedger
<1>2. resources' = RemoveAt(resources, cursor)
  BY DEF Release
<1>3. /\ resources' \in Seq(TrackedResource)
      /\ Len(resources') = Len(resources) - 1
      /\ \A j \in 1 .. (Len(resources) - 1) :
            resources'[j] = IF j < cursor THEN resources[j] ELSE resources[j + 1]
  BY <1>1, <1>2, RemoveAtFacts
<1>4. /\ cursor' = cursor - 1
      /\ pc' \in {"idle", "stat", "teardown"}
      /\ pc' = "stat" => cursor' > 0
      /\ pc' # "stat" => cursor' = 0
      /\ completed' \in BOOLEAN
      /\ failures' = failures
      /\ UNCHANGED <<resourceIndex, recorded, attempts, failureStart, teardownCompleted>>
  BY <1>1 DEF Release, Proceed
<1> QED
  BY <1>3, <1>4

\* What keeping the entry under the cursor does to the loop.
LEMMA RetainFacts ==
    ASSUME CleanupTypeOK, CursorInLedger, pc \in {"stat", "delete", "verify"},
           NEW operation \in {"stat", "delete"}, Retain(operation)
    PROVE  /\ cursor' = cursor - 1
           /\ pc' \in {"idle", "stat", "teardown"}
           /\ pc' = "stat" => cursor' > 0
           /\ pc' # "stat" => cursor' = 0
           /\ completed' \in BOOLEAN
           /\ failures' = Append(failures, Failure(operation, resources[cursor].path))
           /\ failures' \in Seq(CleanupFailure)
           /\ Len(failures') = Len(failures) + 1
           /\ UNCHANGED <<ledgerVars, attempts, failureStart, teardownCompleted>>
<1>1. cursor \in 1 .. Len(resources) /\ resources \in Seq(TrackedResource)
  BY DEF CleanupTypeOK, CursorInLedger
<1>2. resources[cursor] \in TrackedResource
  BY <1>1
<1>3. Failure(operation, resources[cursor].path) \in CleanupFailure
  BY <1>2 DEF TrackedResource, Failure, CleanupFailure
<1>4. failures' = Append(failures, Failure(operation, resources[cursor].path))
  BY DEF Retain, Proceed, Resource
<1>5. failures' \in Seq(CleanupFailure) /\ Len(failures') = Len(failures) + 1
  BY <1>3, <1>4 DEF CleanupTypeOK
<1>6. /\ cursor' = cursor - 1
      /\ pc' \in {"idle", "stat", "teardown"}
      /\ pc' = "stat" => cursor' > 0
      /\ pc' # "stat" => cursor' = 0
      /\ completed' \in BOOLEAN
      /\ UNCHANGED <<ledgerVars, attempts, failureStart, teardownCompleted>>
  BY <1>1 DEF Retain, Proceed
<1> QED
  BY <1>4, <1>5, <1>6

\* The two invariants everything else needs, step by step.
TypeInv == CleanupTypeOK /\ CursorInLedger

\* The initial state is well typed.
LEMMA TypeInvInit ==
    ASSUME CleanupInit
    PROVE  TypeInv
<1>1. resources \in Seq(TrackedResource) /\ failures \in Seq(CleanupFailure)
  BY DEF CleanupInit
<1>2. attempts \in 0 .. MaxAttempts /\ faults \in 0 .. MaxFaults
  BY AttemptBoundAssumption, FaultBoundAssumption DEF CleanupInit, StoreInit
<1>3. completed \in BOOLEAN /\ teardownCompleted \in BOOLEAN /\ clean \in BOOLEAN
  BY DEF CleanupInit
<1> QED
  BY <1>1, <1>2, <1>3
     DEF CleanupInit, StoreInit, TypeInv, CleanupTypeOK, StoreTypeOK, CursorInLedger

\* Every step keeps the types and the loop index inside the ledger.
LEMMA TypeInvStep ==
    ASSUME TypeInv, CleanupStep
    PROVE  TypeInv'
<1> USE AttemptBoundAssumption, FaultBoundAssumption, CapabilityAssumption
<1>0. CleanupTypeOK /\ CursorInLedger
  BY DEF TypeInv
<1>1. ASSUME NEW p \in Paths, pc = "idle", Stage(p)
      PROVE  TypeInv'
  BY <1>0, <1>1 DEF TypeInv, CleanupTypeOK, CursorInLedger, StoreTypeOK, Stage, Appear,
                    ledgerVars, reportVars, ghostVars
<1>2. ASSUME NEW p \in Paths, pc = "idle", RecordCreated(p)
      PROVE  TypeInv'
  <2>1. [path |-> p, index |-> resourceIndex + 1] \in TrackedResource
    BY <1>0 DEF CleanupTypeOK, TrackedResource
  <2>2. resources' \in Seq(TrackedResource) /\ resourceIndex' \in Nat /\ recorded' \subseteq Paths
    <3>1. CASE p \in LedgerPaths
      BY <1>0, <1>2, <3>1 DEF CleanupTypeOK, RecordCreated, ledgerVars
    <3>2. CASE p \notin LedgerPaths
      BY <1>0, <1>2, <2>1, <3>2 DEF CleanupTypeOK, RecordCreated
    <3> QED
      BY <3>1, <3>2
  <2> QED
    BY <1>0, <1>2, <2>2 DEF TypeInv, CleanupTypeOK, CursorInLedger, StoreTypeOK,
          RecordCreated, reportVars, storeVars, ghostVars
<1>3. CASE Begin
  <2>1. Len(resources) \in Nat /\ Len(failures) \in Nat
    BY <1>0 DEF CleanupTypeOK
  <2>2. clean' \in BOOLEAN /\ completed' \in BOOLEAN
    BY <1>3, Zenon DEF Begin, Proceed, LedgerCloses
  <2>3. attempts' \in 0 .. MaxAttempts /\ failureStart' \in 0 .. Len(failures)
    BY <1>0, <1>3, <2>1 DEF Begin, CleanupTypeOK
  <2>4. /\ cursor' \in 0 .. Len(resources)
        /\ pc' \in {"idle", "stat", "teardown"}
        /\ pc' = "stat" => cursor' > 0
        /\ pc' # "stat" => cursor' = 0
        /\ failures' = failures
    BY <1>3, <2>1 DEF Begin, Proceed
  <2>5. UNCHANGED <<resources, resourceIndex, recorded, present, staged, faults,
                    teardownCompleted>>
    BY <1>3 DEF Begin, ledgerVars, storeVars
  <2> QED
    BY <1>0, <2>1, <2>2, <2>3, <2>4, <2>5
       DEF TypeInv, CleanupTypeOK, CursorInLedger, StoreTypeOK
<1>4. ASSUME Release, pc \in {"stat", "delete", "verify"}, UNCHANGED <<storeVars, ghostVars>>
      PROVE  TypeInv'
  BY <1>0, <1>4, ReleaseFacts DEF TypeInv, CleanupTypeOK, CursorInLedger, StoreTypeOK,
        storeVars, ghostVars
<1>5. ASSUME NEW operation \in {"stat", "delete"}, Retain(operation),
             pc \in {"stat", "delete", "verify"},
             StoreTypeOK', clean' \in BOOLEAN
      PROVE  TypeInv'
  BY <1>0, <1>5, RetainFacts DEF TypeInv, CleanupTypeOK, CursorInLedger, ledgerVars
<1>6. ASSUME NEW await \in {"delete", "verify"}, Suspend(await),
             pc \in {"stat", "delete", "verify"},
             StoreTypeOK', clean' \in BOOLEAN
      PROVE  TypeInv'
  BY <1>0, <1>6 DEF TypeInv, CleanupTypeOK, CursorInLedger, Suspend, ledgerVars, reportVars
<1>7. ASSUME Fault, present' \subseteq Paths, staged' = staged
      PROVE  StoreTypeOK' /\ clean' \in BOOLEAN
  <2>1. faults' \in 0 .. MaxFaults
    BY <1>0, <1>7 DEF Fault, CountFault, CleanupTypeOK, StoreTypeOK
  <2> QED
    BY <1>0, <1>7, <2>1 DEF Fault, CleanupTypeOK, StoreTypeOK
<1>8. ASSUME UNCHANGED ghostVars, present' \subseteq Paths, staged' = staged
      PROVE  StoreTypeOK' /\ clean' \in BOOLEAN
  BY <1>0, <1>8 DEF ghostVars, CleanupTypeOK, StoreTypeOK
<1>9. \A S : LoseSome(S) => present' \subseteq Paths
  BY <1>0 DEF LoseSome, CleanupTypeOK, StoreTypeOK
<1>10. present \subseteq Paths
  BY <1>0 DEF CleanupTypeOK, StoreTypeOK
<1>11. CASE StatFound
  BY <1>6, <1>8, <1>10, <1>11 DEF StatFound, storeVars
<1>12. CASE StatMissing
  BY <1>4, <1>12 DEF StatMissing
<1>13. CASE StatFault
  BY <1>5, <1>7, <1>10, <1>13 DEF StatFault, storeVars
<1>14. CASE DeleteDone
  BY <1>6, <1>8, <1>10, <1>14 DEF DeleteDone
<1>15. CASE DeleteMissing
  BY <1>4, <1>15 DEF DeleteMissing
<1>16. CASE DeleteRefused
  BY <1>5, <1>8, <1>10, <1>16 DEF DeleteRefused, storeVars
<1>17. CASE DeleteFault
  BY <1>5, <1>6, <1>7, <1>9, <1>17 DEF DeleteFault
<1>18. CASE VerifyMissing
  BY <1>4, <1>18 DEF VerifyMissing
<1>19. CASE VerifyFound
  BY <1>5, <1>8, <1>10, <1>19 DEF VerifyFound, storeVars
<1>20. CASE VerifyFault
  BY <1>5, <1>7, <1>10, <1>20 DEF VerifyFault, storeVars
<1>21. CASE TeardownDone
  BY <1>0, <1>8, <1>21 DEF TeardownDone, TypeInv, CleanupTypeOK, CursorInLedger, ledgerVars
<1>22. CASE TeardownFault
  <2>1. Failure("teardown", NoPath) \in CleanupFailure
    BY DEF Failure, CleanupFailure
  <2>2. failures' \in Seq(CleanupFailure) /\ failureStart' \in 0 .. Len(failures')
    BY <1>0, <1>22, <2>1 DEF TeardownFault, CleanupTypeOK
  <2> QED
    BY <1>0, <1>7, <1>9, <1>22, <2>2
       DEF TeardownFault, TypeInv, CleanupTypeOK, CursorInLedger, ledgerVars
<1>23. CASE Cancel
  BY <1>0, <1>7, <1>9, <1>23
     DEF Cancel, TypeInv, CleanupTypeOK, CursorInLedger, ledgerVars, reportVars
<1>24. ASSUME NEW p \in Paths, Vanish(p)
       PROVE  TypeInv'
  BY <1>0, <1>24 DEF Vanish, TypeInv, CleanupTypeOK, CursorInLedger, StoreTypeOK,
        ledgerVars, reportVars, ghostVars
<1> QED
  BY <1>1, <1>2, <1>3, <1>11, <1>12, <1>13, <1>14, <1>15, <1>16, <1>17, <1>18,
     <1>19, <1>20, <1>21, <1>22, <1>23, <1>24 DEF CleanupStep, Resume

\* CleanupNext takes no other steps.
LEMMA NextIsStep ==
    ASSUME CleanupNext
    PROVE  CleanupStep
BY DEF CleanupNext, CleanupStep, Setup

\* Cleanup's variables keep their types, and the loop index of cleanup_async
\* names an entry of the ledger whenever the code indexes with it.
THEOREM TypeCorrect == CleanupSpec => [](CleanupTypeOK /\ CursorInLedger)
<1>1. CleanupInit => TypeInv
  BY TypeInvInit
<1>2. TypeInv /\ [CleanupNext]_cleanupVars => TypeInv'
  <2> SUFFICES ASSUME TypeInv, [CleanupNext]_cleanupVars PROVE TypeInv'
    OBVIOUS
  <2>1. CASE CleanupNext
    BY <2>1, NextIsStep, TypeInvStep
  <2>2. CASE UNCHANGED cleanupVars
    BY <2>2 DEF cleanupVars, ledgerVars, reportVars, storeVars, ghostVars,
          TypeInv, CleanupTypeOK, CursorInLedger, StoreTypeOK
  <2> QED
    BY <2>1, <2>2
<1>3. TypeInv => CleanupTypeOK /\ CursorInLedger
  BY DEF TypeInv
<1> QED
  BY <1>1, <1>2, <1>3, PTL DEF CleanupSpec

-----------------------------------------------------------------------------
(* The ledger as a set of paths.                                           *)

\* Releasing the entry under the cursor removes at most its own path.
LEMMA ReleaseLedger ==
    ASSUME CleanupTypeOK, CursorInLedger, pc \in {"stat", "delete", "verify"}, Release
    PROVE  /\ LedgerPaths \ {Resource.path} \subseteq LedgerPaths'
           /\ LedgerPaths' \subseteq LedgerPaths
<1>1. cursor \in 1 .. Len(resources) /\ resources \in Seq(TrackedResource)
  BY DEF CleanupTypeOK, CursorInLedger
<1>2. /\ resources' \in Seq(TrackedResource)
      /\ Len(resources') = Len(resources) - 1
      /\ \A j \in 1 .. (Len(resources) - 1) :
            resources'[j] = IF j < cursor THEN resources[j] ELSE resources[j + 1]
  BY ReleaseFacts
<1>3. DOMAIN resources = 1 .. Len(resources) /\ DOMAIN resources' = 1 .. (Len(resources) - 1)
  BY <1>1, <1>2
<1>4. ASSUME NEW q \in LedgerPaths, q # Resource.path
      PROVE  q \in LedgerPaths'
  <2>1. PICK i \in 1 .. Len(resources) : q = resources[i].path
    BY <1>3 DEF LedgerPaths
  <2>2. i # cursor
    BY <2>1, <1>4 DEF Resource
  <2>3. CASE i < cursor
    <3>1. i \in DOMAIN resources' /\ resources'[i] = resources[i]
      BY <1>1, <1>2, <1>3, <2>3
    <3> QED
      BY <2>1, <3>1 DEF LedgerPaths
  <2>4. CASE i > cursor
    <3>1. i - 1 \in DOMAIN resources' /\ resources'[i - 1] = resources[i]
      BY <1>1, <1>2, <1>3, <2>4
    <3> QED
      BY <2>1, <3>1 DEF LedgerPaths
  <2> QED
    BY <1>1, <2>2, <2>3, <2>4
<1>5. ASSUME NEW q \in LedgerPaths'
      PROVE  q \in LedgerPaths
  <2>1. PICK i \in 1 .. (Len(resources) - 1) : q = resources'[i].path
    BY <1>3 DEF LedgerPaths
  <2>2. PICK k \in DOMAIN resources : resources'[i] = resources[k]
    BY <1>1, <1>2, <1>3
  <2> QED
    BY <2>1, <2>2 DEF LedgerPaths
<1> QED
  BY <1>4, <1>5

\* Recording adds the path and nothing else.
LEMMA RecordLedger ==
    ASSUME CleanupTypeOK, NEW p \in Paths, RecordCreated(p)
    PROVE  /\ LedgerPaths' = LedgerPaths \cup {p}
           /\ recorded' \subseteq recorded \cup {p}
<1>1. CASE p \in LedgerPaths
  <2>1. UNCHANGED <<resources, recorded>>
    BY <1>1 DEF RecordCreated, ledgerVars
  <2> QED
    BY <1>1, <2>1 DEF LedgerPaths
<1>2. CASE p \notin LedgerPaths
  <2> DEFINE e == [path |-> p, index |-> resourceIndex + 1]
  <2>1. resources' = Append(resources, e) /\ recorded' = recorded \cup {p}
    BY <1>2 DEF RecordCreated
  <2>2. e.path = p
    OBVIOUS
  <2> HIDE DEF e
  <2>3. /\ DOMAIN resources' = 1 .. (Len(resources) + 1)
        /\ DOMAIN resources = 1 .. Len(resources)
        /\ Len(resources) \in Nat
        /\ resources'[Len(resources) + 1] = e
        /\ \A i \in 1 .. Len(resources) : resources'[i] = resources[i]
    BY <2>1 DEF CleanupTypeOK
  <2>4. LedgerPaths \cup {p} \subseteq LedgerPaths'
    <3>1. ASSUME NEW q \in LedgerPaths PROVE q \in LedgerPaths'
      <4>1. PICK i \in 1 .. Len(resources) : q = resources[i].path
        BY <2>3 DEF LedgerPaths
      <4>2. i \in DOMAIN resources' /\ q = resources'[i].path
        BY <2>3, <4>1
      <4> QED
        BY <4>2 DEF LedgerPaths
    <3>2. Len(resources) + 1 \in DOMAIN resources' /\ p = resources'[Len(resources) + 1].path
      BY <2>2, <2>3
    <3> QED
      BY <3>1, <3>2 DEF LedgerPaths
  <2>5. ASSUME NEW q \in LedgerPaths' PROVE q \in LedgerPaths \cup {p}
    <3>1. PICK i \in 1 .. (Len(resources) + 1) : q = resources'[i].path
      BY <2>3 DEF LedgerPaths
    <3>2. CASE i = Len(resources) + 1
      BY <2>2, <2>3, <3>1, <3>2
    <3>3. CASE i # Len(resources) + 1
      <4>1. i \in DOMAIN resources /\ q = resources[i].path
        BY <2>3, <3>1, <3>3
      <4> QED
        BY <4>1 DEF LedgerPaths
    <3> QED
      BY <3>2, <3>3
  <2> QED
    BY <2>1, <2>4, <2>5
<1> QED
  BY <1>1, <1>2

\* The heart of the matter: a step takes a path out of the ledger only while
\* the path does not exist, before and after the step.
LEMMA LedgerStep ==
    ASSUME TypeInv, CleanupStep
    PROVE  LedgerPaths \cap present' \subseteq LedgerPaths'
<1>0. CleanupTypeOK /\ CursorInLedger
  BY DEF TypeInv
<1>1. ASSUME UNCHANGED resources
      PROVE  LedgerPaths' = LedgerPaths
  BY <1>1 DEF LedgerPaths
<1>2. ASSUME Release, pc \in {"stat", "delete", "verify"},
             Resource.path \notin present, UNCHANGED present
      PROVE  LedgerPaths \cap present' \subseteq LedgerPaths'
  BY <1>0, <1>2, ReleaseLedger
<1>3. ASSUME NEW p \in Paths, RecordCreated(p)
      PROVE  LedgerPaths \cap present' \subseteq LedgerPaths'
  BY <1>0, <1>3, RecordLedger
<1>4. CASE StatMissing
  BY <1>2, <1>4 DEF StatMissing, storeVars
<1>5. CASE DeleteMissing
  BY <1>2, <1>5 DEF DeleteMissing, storeVars
<1>6. CASE VerifyMissing
  BY <1>2, <1>6 DEF VerifyMissing, storeVars
<1>7. CASE UNCHANGED resources
  BY <1>1, <1>7
<1> QED
  BY <1>3, <1>4, <1>5, <1>6, <1>7
     DEF CleanupStep, Resume, Stage, Begin, StatFound, StatFault, DeleteDone,
         DeleteRefused, DeleteFault, VerifyFound, VerifyFault, TeardownDone,
         TeardownFault, Cancel, Vanish, Suspend, Retain, ledgerVars

\* The steps of cleanup only take paths away from the provider.
LEMMA PresentStep ==
    ASSUME TypeInv, CleanupStep
    PROVE  \/ present' \subseteq present /\ recorded' = recorded
           \/ \E p \in Paths : Stage(p)
           \/ \E p \in Paths : RecordCreated(p)
BY DEF CleanupStep, Resume, Begin, StatFound, StatFault, StatMissing, DeleteDone,
       DeleteRefused, DeleteFault, DeleteMissing, VerifyFound, VerifyFault,
       VerifyMissing, TeardownDone, TeardownFault, Cancel, Vanish, Suspend,
       Retain, Release, LoseSome, ledgerVars, storeVars

\* No step forgets a recorded path that still exists.
LEMMA LedgerKeepsPresentStep ==
    ASSUME TypeInv, LedgerKeepsPresent, CleanupStep
    PROVE  LedgerKeepsPresent'
<1>0. CleanupTypeOK
  BY DEF TypeInv
<1>1. LedgerPaths \cap present' \subseteq LedgerPaths'
  BY LedgerStep
<1>2. CASE present' \subseteq present /\ recorded' = recorded
  BY <1>1, <1>2 DEF LedgerKeepsPresent
<1>3. ASSUME NEW p \in Paths, Stage(p)
      PROVE  LedgerKeepsPresent'
  <2>1. recorded' = recorded /\ present' = present \cup {p}
    BY <1>3 DEF Stage, Appear, ledgerVars
  <2>2. p \in recorded => p \in LedgerPaths
    BY <1>3 DEF Stage
  <2> QED
    BY <1>1, <2>1, <2>2 DEF LedgerKeepsPresent
<1>4. ASSUME NEW p \in Paths, RecordCreated(p)
      PROVE  LedgerKeepsPresent'
  <2>1. present' = present
    BY <1>4 DEF RecordCreated, storeVars
  <2> QED
    BY <1>0, <1>4, <2>1, RecordLedger DEF LedgerKeepsPresent
<1> QED
  BY <1>2, <1>3, <1>4, PresentStep

\* Asynchronous cleanup never forgets a resource that still exists, for any
\* tree of paths, any answers of the provider and any dropped futures.
THEOREM LedgerKept == CleanupSpec => []LedgerKeepsPresent
<1> DEFINE Inv == TypeInv /\ LedgerKeepsPresent
<1>1. CleanupInit => Inv
  BY TypeInvInit DEF CleanupInit, StoreInit, LedgerKeepsPresent
<1>2. Inv /\ [CleanupNext]_cleanupVars => Inv'
  <2> SUFFICES ASSUME Inv, [CleanupNext]_cleanupVars PROVE Inv'
    OBVIOUS
  <2>1. CASE CleanupNext
    BY <2>1, NextIsStep, TypeInvStep, LedgerKeepsPresentStep
  <2>2. CASE UNCHANGED cleanupVars
    BY <2>2 DEF cleanupVars, ledgerVars, reportVars, storeVars, ghostVars,
          TypeInv, CleanupTypeOK, CursorInLedger, StoreTypeOK,
          LedgerKeepsPresent, LedgerPaths
  <2> QED
    BY <2>1, <2>2
<1>3. Inv => LedgerKeepsPresent
  OBVIOUS
<1> QED
  BY <1>1, <1>2, <1>3, PTL DEF CleanupSpec

-----------------------------------------------------------------------------
(* No entry is retained silently, and a completed attempt retains none.    *)

\* failure_start is a position in the list of failures.
ReportInv ==
    /\ failureStart <= Len(failures)
    /\ RetainedIsReported

Reported(fs, start, path) == \E k \in (start + 1) .. Len(fs) : fs[k].path = path

\* The path from an entry's turn to the next: the entries above it keep their
\* reports when it is released, and it has one itself when it is retained.
LEMMA ReleaseReport ==
    ASSUME TypeInv, ReportInv, pc \in {"stat", "delete", "verify"}, CanDelete, Release
    PROVE  \A i \in (cursor' + 1) .. Len(resources') :
              Reported(failures, failureStart, resources'[i].path)
<1>0. CleanupTypeOK /\ CursorInLedger
  BY DEF TypeInv
<1>1. cursor \in 1 .. Len(resources) /\ Len(resources) \in Nat
  BY <1>0 DEF CleanupTypeOK, CursorInLedger
<1>2. /\ Len(resources') = Len(resources) - 1
      /\ cursor' = cursor - 1
      /\ \A j \in 1 .. (Len(resources) - 1) :
            resources'[j] = IF j < cursor THEN resources[j] ELSE resources[j + 1]
  BY <1>0, ReleaseFacts
<1>3. TAKE i \in (cursor' + 1) .. Len(resources')
<1>4. /\ i + 1 \in (cursor + 1) .. Len(resources)
      /\ resources'[i] = resources[i + 1]
  BY <1>1, <1>2
<1> QED
  BY <1>4 DEF ReportInv, RetainedIsReported, Reported

\* Keeping an entry reports it in this attempt.
LEMMA RetainReport ==
    ASSUME TypeInv, ReportInv, pc \in {"stat", "delete", "verify"}, CanDelete,
           NEW operation \in {"stat", "delete"}, Retain(operation)
    PROVE  /\ \A i \in (cursor' + 1) .. Len(resources') :
                 Reported(failures', failureStart', resources'[i].path)
           /\ Len(failures') = Len(failures) + 1
<1>0. CleanupTypeOK /\ CursorInLedger
  BY DEF TypeInv
<1>1. /\ cursor \in 1 .. Len(resources)
      /\ Len(resources) \in Nat /\ Len(failures) \in Nat /\ failureStart \in Nat
  BY <1>0 DEF CleanupTypeOK, CursorInLedger
<1> DEFINE f == Failure(operation, resources[cursor].path)
<1>2. cursor' = cursor - 1 /\ failures' = Append(failures, f)
  BY <1>0, RetainFacts
<1>3. resources' = resources /\ failureStart' = failureStart
  BY <1>0, RetainFacts DEF ledgerVars
<1>4. f.path = resources[cursor].path
  BY DEF Failure
<1> HIDE DEF f
<1>5. /\ Len(failures') = Len(failures) + 1
      /\ failures'[Len(failures) + 1] = f
      /\ \A k \in 1 .. Len(failures) : failures'[k] = failures[k]
  BY <1>0, <1>2 DEF CleanupTypeOK
<1>6. ASSUME NEW i \in (cursor' + 1) .. Len(resources')
      PROVE  Reported(failures', failureStart', resources'[i].path)
  <2>1. CASE i = cursor
    <3>1. /\ Len(failures) + 1 \in (failureStart' + 1) .. Len(failures')
          /\ failures'[Len(failures) + 1].path = resources'[i].path
      BY <1>1, <1>3, <1>4, <1>5, <2>1 DEF ReportInv
    <3> QED
      BY <3>1 DEF Reported
  <2>2. CASE i # cursor
    <3>1. i \in (cursor + 1) .. Len(resources)
      BY <1>1, <1>2, <1>3, <2>2
    <3>2. PICK k \in (failureStart + 1) .. Len(failures) :
                 failures[k].path = resources[i].path
      BY <3>1 DEF ReportInv, RetainedIsReported
    <3>3. /\ k \in (failureStart' + 1) .. Len(failures')
          /\ failures'[k].path = resources'[i].path
      BY <1>1, <1>3, <1>5, <3>2
    <3> QED
      BY <3>3 DEF Reported
  <2> QED
    BY <2>1, <2>2
<1> QED
  BY <1>5, <1>6

\* Every step keeps the entries behind the cursor reported.
LEMMA ReportInvStep ==
    ASSUME TypeInv, ReportInv, CleanupStep
    PROVE  ReportInv'
<1>0. CleanupTypeOK /\ CursorInLedger
  BY DEF TypeInv
<1>1. /\ Len(failures) \in Nat /\ failureStart \in Nat /\ cursor \in Nat
      /\ Len(resources) \in Nat /\ failureStart <= Len(failures)
  BY <1>0 DEF CleanupTypeOK, ReportInv
<1>2. ASSUME UNCHANGED <<resources, failures, failureStart, cursor>>, pc # "idle"
      PROVE  ReportInv'
  BY <1>2, <1>0 DEF ReportInv, RetainedIsReported, CleanupTypeOK
<1>3. ASSUME UNCHANGED <<failures, failureStart>>, pc' = "idle"
      PROVE  ReportInv'
  BY <1>1, <1>3 DEF ReportInv, RetainedIsReported
<1>4. ASSUME Release, pc \in {"stat", "delete", "verify"}
      PROVE  ReportInv'
  <2>1. UNCHANGED <<failures, failureStart>>
    BY <1>4 DEF Release, Proceed
  <2>2. CanDelete => \A i \in (cursor' + 1) .. Len(resources') :
                        Reported(failures', failureStart', resources'[i].path)
    BY <1>4, <2>1, ReleaseReport DEF Reported
  <2> QED
    BY <1>1, <2>1, <2>2 DEF ReportInv, RetainedIsReported, Reported
<1>5. ASSUME NEW operation \in {"stat", "delete"}, Retain(operation),
             pc \in {"stat", "delete", "verify"}
      PROVE  ReportInv'
  <2>1. failureStart' = failureStart /\ Len(failures') = Len(failures) + 1
    <3>1. failures' = Append(failures, Failure(operation, resources[cursor].path))
      BY <1>0, <1>5, RetainFacts
    <3> QED
      BY <1>0, <1>5, <3>1 DEF Retain, CleanupTypeOK
  <2>2. CanDelete => \A i \in (cursor' + 1) .. Len(resources') :
                        Reported(failures', failureStart', resources'[i].path)
    BY <1>5, RetainReport
  <2> QED
    BY <1>1, <2>1, <2>2 DEF ReportInv, RetainedIsReported, Reported
<1>6. CASE Begin
  <2>1. failures' = failures /\ failureStart' = Len(failures) /\ resources' = resources
    BY <1>6 DEF Begin, Proceed, ledgerVars
  <2>2. CanDelete => cursor' = Len(resources)
    BY <1>6 DEF Begin, Proceed
  <2> QED
    BY <1>1, <2>1, <2>2 DEF ReportInv, RetainedIsReported
<1>7. CASE TeardownFault
  <2>1. Len(failures') = Len(failures) + 1 /\ failureStart' = failureStart /\ pc' = "idle"
    BY <1>0, <1>7 DEF TeardownFault, CleanupTypeOK
  <2> QED
    BY <1>1, <2>1 DEF ReportInv, RetainedIsReported
<1>8. ASSUME pc = "idle", UNCHANGED <<failures, failureStart, pc>>
      PROVE  ReportInv'
  BY <1>3, <1>8
<1>9. ASSUME NEW p \in Paths, pc = "idle", Stage(p) \/ RecordCreated(p)
      PROVE  ReportInv'
  BY <1>8, <1>9 DEF Stage, RecordCreated, reportVars
<1>10. ASSUME NEW p \in Paths, Vanish(p)
       PROVE  ReportInv'
  <2>1. UNCHANGED <<resources, failures, failureStart, cursor, pc>>
    BY <1>10 DEF Vanish, ledgerVars, reportVars
  <2> QED
    BY <1>2, <1>8, <2>1
<1>11. CASE Cancel \/ TeardownDone
  BY <1>3, <1>11 DEF Cancel, TeardownDone, reportVars
<1>12. ASSUME NEW await, Suspend(await), pc \in {"stat", "delete", "verify"}
       PROVE  ReportInv'
  BY <1>2, <1>12 DEF Suspend, ledgerVars, reportVars
<1>13. CASE StatFound \/ StatMissing \/ StatFault
  BY <1>4, <1>5, <1>12, <1>13 DEF StatFound, StatMissing, StatFault
<1>14. CASE DeleteDone \/ DeleteMissing \/ DeleteRefused \/ DeleteFault
  BY <1>4, <1>5, <1>12, <1>14 DEF DeleteDone, DeleteMissing, DeleteRefused, DeleteFault
<1>15. CASE VerifyMissing \/ VerifyFound \/ VerifyFault
  BY <1>4, <1>5, <1>15 DEF VerifyMissing, VerifyFound, VerifyFault
<1> QED
  BY <1>6, <1>7, <1>9, <1>10, <1>11, <1>13, <1>14, <1>15 DEF CleanupStep, Resume

\* A step that completes an attempt leaves an empty ledger (where deletion is
\* allowed at all) and a torn-down fixture.
LEMMA CompletionStep ==
    ASSUME TypeInv, ReportInv, CleanupStep, ~completed, completed'
    PROVE  /\ CanDelete => resources' = <<>>
           /\ teardownCompleted'
<1>0. CleanupTypeOK /\ CursorInLedger
  BY DEF TypeInv
<1>1. /\ Len(failures) \in Nat /\ failureStart \in Nat /\ failureStart <= Len(failures)
      /\ resources \in Seq(TrackedResource)
  BY <1>0 DEF CleanupTypeOK, ReportInv
<1>2. ASSUME Release, pc \in {"stat", "delete", "verify"}
      PROVE  (CanDelete => resources' = <<>>) /\ teardownCompleted'
  <2>1. cursor' = 0 /\ Len(failures) = failureStart /\ teardownCompleted'
    BY <1>0, <1>2, ReleaseFacts DEF Release, Proceed
  <2>2. resources' \in Seq(TrackedResource)
    BY <1>0, <1>2, ReleaseFacts
  <2>3. ASSUME CanDelete PROVE resources' = <<>>
    <3>1. \A i \in 1 .. Len(resources') : Reported(failures, failureStart, resources'[i].path)
      BY <1>2, <2>1, <2>3, ReleaseReport
    <3>2. \A path : ~Reported(failures, failureStart, path)
      BY <1>1, <2>1 DEF Reported
    <3> QED
      BY <2>2, <3>1, <3>2
  <2> QED
    BY <2>1, <2>3
<1>3. ASSUME NEW operation \in {"stat", "delete"}, Retain(operation),
             pc \in {"stat", "delete", "verify"}
      PROVE  FALSE
  <2>1. Len(failures') = Len(failures) + 1
    BY <1>0, <1>3, RetainFacts DEF CleanupTypeOK
  <2>2. Len(failures') = failureStart
    BY <1>3, Zenon DEF Retain, Proceed
  <2> QED
    BY <1>1, <2>1, <2>2
<1>4. CASE Begin
  <2>1. resources' = resources /\ teardownCompleted' /\ cursor' = 0
    BY <1>4 DEF Begin, Proceed, ledgerVars
  <2>2. CanDelete => Len(resources) = 0
    BY <1>4, <2>1 DEF Begin, Proceed
  <2> QED
    BY <1>1, <2>1, <2>2
<1>5. CASE TeardownDone
  <2>1. resources' = resources /\ teardownCompleted' /\ Len(failures) = failureStart /\ cursor = 0
    BY <1>0, <1>5 DEF TeardownDone, ledgerVars, CursorInLedger
  <2>2. CanDelete => \A i \in 1 .. Len(resources) :
             \E k \in (failureStart + 1) .. Len(failures) : failures[k].path = resources[i].path
    BY <1>5, <2>1 DEF TeardownDone, ReportInv, RetainedIsReported
  <2>3. CanDelete => Len(resources) = 0
    BY <1>1, <2>1, <2>2
  <2> QED
    BY <1>1, <2>1, <2>3
<1>6. CASE StatMissing \/ StatFault \/ StatFound
  BY <1>2, <1>3, <1>6 DEF StatMissing, StatFault, StatFound, Suspend, reportVars
<1>7. CASE DeleteDone \/ DeleteMissing \/ DeleteRefused \/ DeleteFault
  BY <1>2, <1>3, <1>7 DEF DeleteDone, DeleteMissing, DeleteRefused, DeleteFault,
        Suspend, reportVars
<1>8. CASE VerifyMissing \/ VerifyFound \/ VerifyFault
  BY <1>2, <1>3, <1>8 DEF VerifyMissing, VerifyFound, VerifyFault
<1> QED
  BY <1>4, <1>5, <1>6, <1>7, <1>8
     DEF CleanupStep, Resume, Stage, RecordCreated, TeardownFault, Cancel, Vanish, reportVars

-----------------------------------------------------------------------------
(* Creation order.                                                         *)

\* Every step keeps the ledger in creation order.
LEMMA LedgerOrderedStep ==
    ASSUME TypeInv, LedgerOrdered, CleanupStep
    PROVE  LedgerOrdered'
<1>0. CleanupTypeOK /\ CursorInLedger
  BY DEF TypeInv
<1>1. CASE UNCHANGED <<resources, resourceIndex>>
  BY <1>1 DEF LedgerOrdered
<1>2. ASSUME Release, pc \in {"stat", "delete", "verify"}
      PROVE  LedgerOrdered'
  <2>1. cursor \in 1 .. Len(resources) /\ resources \in Seq(TrackedResource)
        /\ Len(resources) \in Nat
    BY <1>0, <1>2 DEF CleanupTypeOK, CursorInLedger
  <2>2. /\ resources' \in Seq(TrackedResource)
        /\ Len(resources') = Len(resources) - 1
        /\ resourceIndex' = resourceIndex
        /\ \A j \in 1 .. (Len(resources) - 1) :
              resources'[j] = IF j < cursor THEN resources[j] ELSE resources[j + 1]
    BY <1>0, <1>2, ReleaseFacts
  <2>3. DOMAIN resources = 1 .. Len(resources) /\ DOMAIN resources' = 1 .. (Len(resources) - 1)
    BY <2>1, <2>2
  <2> DEFINE old(j) == IF j < cursor THEN j ELSE j + 1
  <2>4. \A j \in DOMAIN resources' :
           old(j) \in DOMAIN resources /\ resources'[j] = resources[old(j)]
    BY <2>1, <2>2, <2>3
  <2>5. \A i, j \in DOMAIN resources' : i < j => old(i) < old(j)
    BY <2>1, <2>3
  <2> HIDE DEF old
  <2> QED
    BY <2>2, <2>4, <2>5 DEF LedgerOrdered
<1>3. ASSUME NEW p \in Paths, RecordCreated(p), p \notin LedgerPaths
      PROVE  LedgerOrdered'
  <2> DEFINE e == [path |-> p, index |-> resourceIndex + 1]
  <2>1. resources' = Append(resources, e) /\ resourceIndex' = resourceIndex + 1
    BY <1>3 DEF RecordCreated
  <2>2. e.path = p /\ e.index = resourceIndex + 1
    OBVIOUS
  <2> HIDE DEF e
  <2>3. /\ DOMAIN resources' = 1 .. (Len(resources) + 1)
        /\ DOMAIN resources = 1 .. Len(resources)
        /\ Len(resources) \in Nat /\ resourceIndex \in Nat
        /\ resources'[Len(resources) + 1] = e
        /\ \A i \in 1 .. Len(resources) : resources'[i] = resources[i]
    BY <1>0, <2>1 DEF CleanupTypeOK
  <2>4. \A i \in DOMAIN resources : /\ resources[i].path # p
                                    /\ resources[i].index <= resourceIndex
                                    /\ resources[i].index \in Nat
    <3>1. \A i \in DOMAIN resources : resources[i] \in TrackedResource
      BY <1>0 DEF CleanupTypeOK
    <3>2. \A i \in DOMAIN resources : resources[i].index \in Nat
      BY <3>1 DEF TrackedResource
    <3>3. \A i \in DOMAIN resources : resources[i].path # p
      BY <1>3 DEF LedgerPaths
    <3> QED
      BY <3>2, <3>3 DEF LedgerOrdered
  <2>5. ASSUME NEW i \in DOMAIN resources', NEW j \in DOMAIN resources', i < j
        PROVE  /\ resources'[i].index < resources'[j].index
               /\ resources'[i].path # resources'[j].path
    <3>1. i \in DOMAIN resources /\ resources'[i] = resources[i]
      BY <2>3, <2>5
    <3>2. CASE j \in DOMAIN resources
      BY <2>3, <2>5, <3>1, <3>2 DEF LedgerOrdered
    <3>3. CASE j \notin DOMAIN resources
      <4>1. resources'[j] = e
        BY <2>3, <3>3
      <4> QED
        BY <2>2, <2>3, <2>4, <3>1, <4>1
    <3> QED
      BY <3>2, <3>3
  <2>6. ASSUME NEW i \in DOMAIN resources'
        PROVE  resources'[i].index <= resourceIndex'
    <3>1. CASE i \in DOMAIN resources
      BY <2>1, <2>3, <2>4, <3>1
    <3>2. CASE i \notin DOMAIN resources
      <4>1. resources'[i] = e
        BY <2>3, <3>2
      <4> QED
        BY <2>1, <2>2, <2>3, <4>1
    <3> QED
      BY <3>1, <3>2
  <2> QED
    BY <2>5, <2>6 DEF LedgerOrdered
<1>4. CASE StatMissing \/ DeleteMissing \/ VerifyMissing
  BY <1>2, <1>4 DEF StatMissing, DeleteMissing, VerifyMissing
<1>5. ASSUME NEW p \in Paths, RecordCreated(p)
      PROVE  LedgerOrdered'
  BY <1>1, <1>3, <1>5 DEF RecordCreated, ledgerVars
<1> QED
  BY <1>1, <1>4, <1>5
     DEF CleanupStep, Resume, Stage, Begin, StatFound, StatFault, DeleteDone,
         DeleteRefused, DeleteFault, VerifyFound, VerifyFault, TeardownDone,
         TeardownFault, Cancel, Vanish, Suspend, Retain, ledgerVars

-----------------------------------------------------------------------------
(* The theorems.                                                           *)

CleanupInv == TypeInv /\ LedgerKeepsPresent /\ LedgerOrdered /\ ReportInv

\* The initial state satisfies the inductive invariant.
LEMMA CleanupInvInit ==
    ASSUME CleanupInit
    PROVE  CleanupInv
<1>1. LedgerKeepsPresent
  BY DEF CleanupInit, LedgerKeepsPresent
<1>2. LedgerOrdered
  BY DEF CleanupInit, LedgerOrdered
<1>3. ReportInv
  BY DEF CleanupInit, ReportInv, RetainedIsReported
<1> QED
  BY <1>1, <1>2, <1>3, TypeInvInit DEF CleanupInv

\* Every step keeps it.
LEMMA CleanupInvStep ==
    ASSUME CleanupInv, CleanupStep
    PROVE  CleanupInv'
BY TypeInvStep, LedgerKeepsPresentStep, LedgerOrderedStep, ReportInvStep DEF CleanupInv

\* So does stuttering.
LEMMA CleanupInvStutter ==
    ASSUME CleanupInv, UNCHANGED cleanupVars
    PROVE  CleanupInv'
BY DEF cleanupVars, ledgerVars, reportVars, storeVars, ghostVars, CleanupInv, TypeInv,
   CleanupTypeOK, CursorInLedger, StoreTypeOK, LedgerKeepsPresent, LedgerPaths,
   LedgerOrdered, ReportInv, RetainedIsReported

\* The inductive invariant of cleanup.
LEMMA CleanupInvariant == CleanupSpec => []CleanupInv
<1>1. CleanupInit => CleanupInv
  BY CleanupInvInit
<1>2. CleanupInv /\ [CleanupNext]_cleanupVars => CleanupInv'
  BY CleanupInvStep, CleanupInvStutter, NextIsStep
<1> QED
  BY <1>1, <1>2, PTL DEF CleanupSpec

\* Entries that are retained stay unique and in creation order.
THEOREM LedgerStaysOrdered == CleanupSpec => []LedgerOrdered
<1>1. CleanupInv => LedgerOrdered
  BY DEF CleanupInv
<1> QED
  BY <1>1, CleanupInvariant, PTL

\* Nothing is retained without a failure of the same attempt that names it.
THEOREM NothingRetainedSilently == CleanupSpec => []RetainedIsReported
<1>1. CleanupInv => RetainedIsReported
  BY DEF CleanupInv, ReportInv
<1> QED
  BY <1>1, CleanupInvariant, PTL

\* Cleanup is reported complete only over an empty ledger and a torn-down
\* fixture.
THEOREM CompletionIsEarned == CleanupSpec => CompletedMeansReclaimed
<1> DEFINE A == ~completed /\ completed' => /\ CanDelete => resources' = <<>>
                                            /\ teardownCompleted'
<1>1. CleanupInv /\ [CleanupNext]_cleanupVars => [A]_cleanupVars
  BY NextIsStep, CompletionStep DEF CleanupInv
<1> QED
  BY <1>1, CleanupInvariant, PTL DEF CleanupSpec, CompletedMeansReclaimed

\* Every step of cleanup is a step that CleanupLedger allows.
LEMMA RefinementStep ==
    ASSUME CleanupInv, CleanupStep
    PROVE  Ledger!LedgerNext
<1>0. TypeInv /\ CleanupTypeOK
  BY DEF CleanupInv, TypeInv
<1>1. ASSUME NEW p \in Paths, Stage(p)
      PROVE  Ledger!LedgerNext
  <2>1. present' = present \cup {p} /\ UNCHANGED <<resources, completed>>
    BY <1>1 DEF Stage, Appear, ledgerVars, reportVars
  <2> QED
    BY <2>1 DEF Ledger!LedgerNext, Ledger!Create, LedgerPaths
<1>2. ASSUME NEW p \in Paths, RecordCreated(p)
      PROVE  Ledger!LedgerNext
  <2>1. LedgerPaths' = LedgerPaths \cup {p} /\ UNCHANGED <<present, completed>>
    BY <1>0, <1>2, RecordLedger DEF RecordCreated, reportVars, storeVars
  <2> QED
    BY <2>1 DEF Ledger!LedgerNext, Ledger!Track
<1>3. ASSUME present' \subseteq present, LedgerPaths' \subseteq LedgerPaths
      PROVE  Ledger!LedgerNext
  <2> DEFINE gone == present \ present'
             dropped == LedgerPaths \ LedgerPaths'
  <2>1. present \subseteq Paths /\ LedgerPaths \subseteq Paths
    <3>1. \A i \in DOMAIN resources : resources[i] \in TrackedResource
      BY <1>0 DEF CleanupTypeOK
    <3>2. \A i \in DOMAIN resources : resources[i].path \in Paths
      BY <3>1 DEF TrackedResource
    <3> QED
      BY <1>0, <3>2 DEF CleanupTypeOK, StoreTypeOK, LedgerPaths
  <2>2. dropped \cap present' = {}
    BY <1>0, LedgerStep
  <2>3. completed' \in BOOLEAN
    BY <1>0, TypeInvStep DEF TypeInv, CleanupTypeOK
  <2>4. ~completed /\ completed' /\ CanDelete => LedgerPaths' = {}
    BY CompletionStep DEF CleanupInv, LedgerPaths
  <2>5. Ledger!Progress(gone, dropped)
    BY <1>3, <2>2, <2>3, <2>4 DEF Ledger!Progress
  <2> QED
    BY <2>1, <2>5 DEF Ledger!LedgerNext
<1>4. CASE StatMissing \/ DeleteMissing \/ VerifyMissing
  BY <1>0, <1>3, <1>4, ReleaseLedger
     DEF StatMissing, DeleteMissing, VerifyMissing, storeVars, TypeInv
<1>5. ASSUME present' \subseteq present, UNCHANGED resources
      PROVE  Ledger!LedgerNext
  BY <1>3, <1>5 DEF LedgerPaths
<1> QED
  BY <1>1, <1>2, <1>4, <1>5
     DEF CleanupStep, Resume, Begin, StatFound, StatFault, DeleteDone,
         DeleteRefused, DeleteFault, VerifyFound, VerifyFault, TeardownDone,
         TeardownFault, Cancel, Vanish, Suspend, Retain, LoseSome, ledgerVars, storeVars

\* Asynchronous cleanup implements CleanupLedger.
THEOREM CleanupImplementsLedger == CleanupSpec => KeepsLedger
<1>1. CleanupInit => Ledger!LedgerInit
  BY DEF CleanupInit, StoreInit, Ledger!LedgerInit, LedgerPaths
<1>2. CleanupInv /\ [CleanupNext]_cleanupVars
        => [Ledger!LedgerNext]_<<LedgerPaths, present, completed>>
  <2>1. UNCHANGED cleanupVars => UNCHANGED <<LedgerPaths, present, completed>>
    BY DEF cleanupVars, ledgerVars, reportVars, storeVars, LedgerPaths
  <2> QED
    BY <2>1, RefinementStep, NextIsStep
<1> QED
  BY <1>1, <1>2, CleanupInvariant, PTL DEF CleanupSpec, KeepsLedger, Ledger!LedgerSpec

-----------------------------------------------------------------------------
(* An attempt without a fault reports nothing.                             *)

\* A directory comes before what is below it.
ParentsInv ==
    /\ LedgerPaths \subseteq recorded
    /\ \A i, j \in DOMAIN resources : i < j => resources[i].path \notin Under[resources[j].path]

\* While an attempt is clean, every entry the loop has passed was released,
\* what could hinder a deletion is still in the ledger, and a deletion did
\* what it was asked to.
CleanInv ==
    /\ CleanAttemptReportsNothing
    /\ clean /\ pc \in {"stat", "delete", "verify"} => cursor = Len(resources) /\ LedgerCloses
    /\ clean /\ pc = "verify" => Resource.path \notin present

\* Releasing an entry and recording one keep parents first.
LEMMA ParentsStep ==
    ASSUME TypeInv, ParentsInv, CleanupNext
    PROVE  ParentsInv'
<1>0. CleanupTypeOK /\ CursorInLedger
  BY DEF TypeInv
<1>1. CASE UNCHANGED <<resources, recorded>>
  BY <1>1 DEF ParentsInv, LedgerPaths
<1>2. ASSUME Release, pc \in {"stat", "delete", "verify"}
      PROVE  ParentsInv'
  <2>1. cursor \in 1 .. Len(resources) /\ Len(resources) \in Nat
        /\ resources \in Seq(TrackedResource)
    BY <1>0, <1>2 DEF CleanupTypeOK, CursorInLedger
  <2>2. /\ resources' \in Seq(TrackedResource)
        /\ Len(resources') = Len(resources) - 1
        /\ recorded' = recorded
        /\ \A j \in 1 .. (Len(resources) - 1) :
              resources'[j] = IF j < cursor THEN resources[j] ELSE resources[j + 1]
    BY <1>0, <1>2, ReleaseFacts
  <2>3. DOMAIN resources = 1 .. Len(resources) /\ DOMAIN resources' = 1 .. (Len(resources) - 1)
    BY <2>1, <2>2
  <2> DEFINE old(j) == IF j < cursor THEN j ELSE j + 1
  <2>4. \A j \in DOMAIN resources' :
           old(j) \in DOMAIN resources /\ resources'[j] = resources[old(j)]
    BY <2>1, <2>2, <2>3
  <2>5. \A i, j \in DOMAIN resources' : i < j => old(i) < old(j)
    BY <2>1, <2>3
  <2>6. LedgerPaths' \subseteq recorded'
    BY <1>0, <1>2, <2>2, ReleaseLedger DEF ParentsInv
  <2> HIDE DEF old
  <2> QED
    BY <2>4, <2>5, <2>6 DEF ParentsInv
<1>3. ASSUME NEW p \in Paths, ParentsFirst(p), RecordCreated(p), p \notin LedgerPaths
      PROVE  ParentsInv'
  <2> DEFINE e == [path |-> p, index |-> resourceIndex + 1]
  <2>1. resources' = Append(resources, e) /\ recorded' = recorded \cup {p}
    BY <1>3 DEF RecordCreated
  <2>2. e.path = p
    OBVIOUS
  <2> HIDE DEF e
  <2>3. /\ DOMAIN resources' = 1 .. (Len(resources) + 1)
        /\ DOMAIN resources = 1 .. Len(resources)
        /\ Len(resources) \in Nat
        /\ resources'[Len(resources) + 1] = e
        /\ \A i \in 1 .. Len(resources) : resources'[i] = resources[i]
    BY <1>0, <2>1 DEF CleanupTypeOK
  <2>4. \A i \in DOMAIN resources : resources[i].path \notin Under[p]
    BY <1>3 DEF ParentsInv, ParentsFirst, LedgerPaths
  <2>5. ASSUME NEW i \in DOMAIN resources', NEW j \in DOMAIN resources', i < j
        PROVE  resources'[i].path \notin Under[resources'[j].path]
    <3>1. i \in DOMAIN resources /\ resources'[i] = resources[i]
      BY <2>3, <2>5
    <3>2. CASE j \in DOMAIN resources
      BY <2>3, <2>5, <3>1, <3>2 DEF ParentsInv
    <3>3. CASE j \notin DOMAIN resources
      <4>1. resources'[j] = e
        BY <2>3, <3>3
      <4> QED
        BY <2>2, <2>4, <3>1, <4>1
    <3> QED
      BY <3>2, <3>3
  <2>6. LedgerPaths' \subseteq recorded'
    BY <1>0, <1>3, <2>1, RecordLedger DEF ParentsInv
  <2> QED
    BY <2>5, <2>6 DEF ParentsInv
<1>4. CASE StatMissing \/ DeleteMissing \/ VerifyMissing
  BY <1>2, <1>4 DEF StatMissing, DeleteMissing, VerifyMissing
<1>5. CASE Setup
  BY <1>1, <1>3, <1>5 DEF Setup, Stage, RecordCreated, ledgerVars
<1> QED
  BY <1>1, <1>4, <1>5
     DEF CleanupNext, Resume, Begin, StatFound, StatFault, DeleteDone,
         DeleteRefused, DeleteFault, VerifyFound, VerifyFault, TeardownDone,
         TeardownFault, Cancel, Vanish, Suspend, Retain, ledgerVars

\* In a clean attempt no deletion is refused: what is below the path would
\* come after it in the ledger, and nothing does.
LEMMA NothingHinders ==
    ASSUME TypeInv, ParentsInv, CleanInv, clean, pc \in {"stat", "delete", "verify"}
    PROVE  Deletable(Resource.path)
<1>0. CleanupTypeOK /\ CursorInLedger
  BY DEF TypeInv
<1>1. cursor = Len(resources) /\ LedgerCloses /\ cursor \in DOMAIN resources
  BY <1>0 DEF CleanInv, CleanupTypeOK, CursorInLedger
<1> SUFFICES ASSUME ~CanDeleteTree, NEW q \in Under[Resource.path], q \in present PROVE FALSE
  BY DEF Deletable
<1>2. Resource.path \in LedgerPaths
  BY <1>1 DEF LedgerPaths, Resource
<1>3. q \in LedgerPaths
  BY <1>1, <1>2 DEF LedgerCloses
<1>4. PICK i \in DOMAIN resources : q = resources[i].path
  BY <1>3 DEF LedgerPaths
<1>5. i < cursor \/ i = cursor
  BY <1>0, <1>1 DEF CleanupTypeOK
<1>6. Resource.path \in Paths
  <2>1. Resource \in TrackedResource
    BY <1>0, <1>1 DEF CleanupTypeOK, Resource
  <2> QED
    BY <2>1 DEF TrackedResource
<1>7. i # cursor
  BY <1>4, <1>6, PathsAssumption DEF Resource
<1> QED
  BY <1>1, <1>4, <1>5, <1>7 DEF ParentsInv, Resource

\* Nothing hinders later what did not hinder before.
LEMMA ClosesStays ==
    ASSUME LedgerCloses, present' \subseteq present, LedgerPaths' \subseteq LedgerPaths,
           LedgerPaths \cap present' \subseteq LedgerPaths'
    PROVE  LedgerCloses'
BY DEF LedgerCloses

\* Every step keeps a clean attempt clean, or it is clean no longer.
LEMMA CleanStep ==
    ASSUME CleanupInv, ParentsInv, CleanInv, CleanupNext
    PROVE  CleanInv'
<1>0. TypeInv /\ CleanupTypeOK /\ CursorInLedger /\ clean \in BOOLEAN
  BY DEF CleanupInv, TypeInv, CleanupTypeOK
<1>1. LedgerPaths \cap present' \subseteq LedgerPaths'
  BY <1>0, LedgerStep, NextIsStep
<1>2. ASSUME clean' = FALSE PROVE CleanInv'
  BY <1>2 DEF CleanInv, CleanAttemptReportsNothing
<1>3. ASSUME pc' \in {"idle", "teardown"}, UNCHANGED <<failures, failureStart, clean>>
      PROVE  CleanInv'
  BY <1>3 DEF CleanInv, CleanAttemptReportsNothing
<1>4. ASSUME UNCHANGED <<resources, cursor, failures, failureStart, clean>>,
             present' \subseteq present, pc \in {"stat", "delete", "verify"},
             pc' = "verify" /\ clean => Resource.path \notin present'
      PROVE  CleanInv'
  <2>1. LedgerPaths' = LedgerPaths /\ Resource' = Resource
    BY <1>4 DEF LedgerPaths, Resource
  <2>2. clean => LedgerCloses'
    BY <1>1, <1>4, <2>1, ClosesStays DEF CleanInv
  <2> QED
    BY <1>4, <2>1, <2>2 DEF CleanInv, CleanAttemptReportsNothing
<1>5. ASSUME Release, pc \in {"stat", "delete", "verify"}, UNCHANGED <<present, clean>>
      PROVE  CleanInv'
  <2>1. /\ cursor' = cursor - 1 /\ Len(resources') = Len(resources) - 1
        /\ pc' \in {"idle", "stat", "teardown"} /\ UNCHANGED <<failures, failureStart>>
    BY <1>0, <1>5, ReleaseFacts
  <2>2. LedgerPaths' \subseteq LedgerPaths
    BY <1>0, <1>5, ReleaseLedger
  <2>3. clean => LedgerCloses' /\ cursor' = Len(resources')
    BY <1>1, <1>5, <2>1, <2>2, ClosesStays DEF CleanInv
  <2> QED
    BY <1>5, <2>1, <2>3 DEF CleanInv, CleanAttemptReportsNothing
<1>6. CASE Setup
  BY <1>0, <1>3, <1>6 DEF Setup, Stage, RecordCreated, reportVars, ghostVars, CleanupTypeOK
<1>7. CASE Begin
  <2>1. /\ failures' = failures /\ failureStart' = Len(failures) /\ resources' = resources
        /\ clean' = LedgerCloses /\ present' = present
        /\ pc' \in {"idle", "stat", "teardown"}
        /\ pc' = "stat" => cursor' = Len(resources)
    BY <1>7 DEF Begin, Proceed, ledgerVars, storeVars
  <2>2. LedgerCloses' = LedgerCloses
    BY <2>1 DEF LedgerCloses, LedgerPaths
  <2> QED
    BY <2>1, <2>2 DEF CleanInv, CleanAttemptReportsNothing
<1>8. CASE StatFound \/ DeleteDone
  <2>1. /\ UNCHANGED <<resources, cursor, failures, failureStart, clean>>
        /\ present' \subseteq present /\ pc \in {"stat", "delete", "verify"}
    BY <1>8 DEF StatFound, DeleteDone, Suspend, ledgerVars, reportVars, storeVars, ghostVars
  <2>2. pc' = "verify" => Resource.path \notin present'
    BY <1>8 DEF StatFound, DeleteDone, Suspend, Reclaimed
  <2> QED
    BY <1>4, <2>1, <2>2
<1>9. CASE StatMissing \/ DeleteMissing \/ VerifyMissing
  BY <1>5, <1>9 DEF StatMissing, DeleteMissing, VerifyMissing, storeVars, ghostVars
<1>10. CASE DeleteRefused
  <2>1. ~clean /\ clean' = clean
    BY <1>0, <1>10, NothingHinders DEF DeleteRefused, ghostVars
  <2> QED
    BY <1>0, <1>2, <2>1
<1>11. CASE VerifyFound
  <2>1. ~clean /\ clean' = clean
    BY <1>11 DEF VerifyFound, CleanInv, ghostVars
  <2> QED
    BY <1>0, <1>2, <2>1
<1>12. CASE StatFault \/ DeleteFault \/ VerifyFault \/ TeardownFault \/ Cancel
  BY <1>2, <1>12 DEF StatFault, DeleteFault, VerifyFault, TeardownFault, Cancel, Fault
<1>13. CASE TeardownDone
  BY <1>3, <1>13 DEF TeardownDone, ghostVars
<1>14. ASSUME NEW p \in Paths, Vanish(p) PROVE CleanInv'
  <2>1. /\ UNCHANGED <<resources, cursor, failures, failureStart, clean, pc>>
        /\ present' \subseteq present
    BY <1>14 DEF Vanish, ledgerVars, reportVars, ghostVars
  <2>2. pc' = "verify" /\ clean => Resource.path \notin present'
    BY <2>1 DEF CleanInv
  <2> QED
    BY <1>0, <1>3, <1>4, <2>1, <2>2 DEF CleanupTypeOK
<1> QED
  BY <1>6, <1>7, <1>8, <1>9, <1>10, <1>11, <1>12, <1>13, <1>14 DEF CleanupNext, Resume

\* An attempt that begins with a ledger that closes and meets no fault pushes
\* no failure, whatever the tree of paths: reverse creation order empties a
\* directory before it is removed.
THEOREM CleanAttemptTheorem == CleanupSpec => []CleanAttemptReportsNothing
<1> DEFINE Inv == ParentsInv /\ CleanInv
<1>1. CleanupInit => Inv
  BY DEF CleanupInit, ParentsInv, LedgerPaths, CleanInv, CleanAttemptReportsNothing
<1>2. ASSUME CleanupInv, Inv, [CleanupNext]_cleanupVars PROVE Inv'
  <2>1. CASE CleanupNext
    BY <1>2, <2>1, ParentsStep, CleanStep DEF CleanupInv
  <2>2. CASE UNCHANGED cleanupVars
    BY <1>2, <2>2 DEF cleanupVars, ledgerVars, reportVars, storeVars, ghostVars, ParentsInv,
          LedgerPaths, CleanInv, CleanAttemptReportsNothing, LedgerCloses, Resource
  <2> QED
    BY <1>2, <2>1, <2>2
<1>3. Inv => CleanAttemptReportsNothing
  BY DEF CleanInv
<1> QED
  BY <1>1, <1>2, <1>3, CleanupInvariant, PTL DEF CleanupSpec

-----------------------------------------------------------------------------
(* The session.                                                            *)

\* Between two awaits of a finish, or when it begins, `completed` turns true
\* only over a fixture that is torn down, and no path appears.
FinishStep ==
    /\ completed' \in BOOLEAN
    /\ completed' => teardownCompleted'
    /\ teardownCompleted => teardownCompleted'
    /\ teardownCompleted' /\ ~teardownCompleted => present' = {}
    /\ present' \subseteq present
    /\ failures # <<>> => failures' # <<>>

\* Appending to a list leaves a list that is not empty.
LEMMA Appended ==
    ASSUME NEW s \in Seq(CleanupFailure), NEW e
    PROVE  Append(s, e) # <<>>
<1>1. s \in Seq(CleanupFailure \cup {e})
  OBVIOUS
<1>2. Len(Append(s, e)) = Len(s) + 1 /\ Len(s) \in Nat
  BY <1>1
<1>3. Len(<<>>) = 0
  OBVIOUS
<1> QED
  BY <1>2, <1>3

\* The path to the next await completes an attempt only after teardown.
LEMMA ProceedFacts ==
    ASSUME NEW next, NEW fs, NEW start, Proceed(next, fs, start)
    PROVE  /\ completed' \in BOOLEAN
           /\ completed' => teardownCompleted
           /\ failures' = fs
BY Zenon DEF Proceed

\* Every await of finish_capture, its beginning and its cancellation.
LEMMA FinishSteps ==
    ASSUME TypeInv, Begin \/ Resume \/ Cancel, completed => teardownCompleted
    PROVE  FinishStep
<1>0. completed \in BOOLEAN
  BY Zenon DEF TypeInv, CleanupTypeOK
<1>1. CASE Begin
  <2>1. /\ completed' \in BOOLEAN
        /\ completed' => teardownCompleted
        /\ failures' = failures
    BY <1>1, ProceedFacts, Zenon DEF Begin
  <2>2. teardownCompleted' = teardownCompleted /\ present' = present
    BY <1>1, Zenon DEF Begin, storeVars
  <2> QED
    BY <2>1, <2>2 DEF FinishStep
<1>2. ASSUME Release, present' \subseteq present
      PROVE  FinishStep
  <2>1. /\ completed' \in BOOLEAN
        /\ completed' => teardownCompleted
        /\ failures' = failures
    BY <1>2, ProceedFacts, Zenon DEF Release
  <2>2. teardownCompleted' = teardownCompleted
    BY <1>2, Zenon DEF Release
  <2> QED
    BY <1>2, <2>1, <2>2 DEF FinishStep
<1>3. ASSUME NEW op, Retain(op), present' \subseteq present
      PROVE  FinishStep
  <2>1. /\ completed' \in BOOLEAN
        /\ completed' => teardownCompleted
        /\ failures' = Append(failures, Failure(op, Resource.path))
    BY <1>3, ProceedFacts, Zenon DEF Retain
  <2>2. teardownCompleted' = teardownCompleted
    BY <1>3, Zenon DEF Retain
  <2>3. failures' # <<>>
    BY <2>1, Appended DEF TypeInv, CleanupTypeOK
  <2> QED
    BY <1>3, <2>1, <2>2, <2>3 DEF FinishStep
<1>4. ASSUME NEW await, Suspend(await), present' \subseteq present
      PROVE  FinishStep
  <2>1. UNCHANGED <<completed, teardownCompleted, failures>>
    BY <1>4, Zenon DEF Suspend, reportVars
  <2> QED
    BY <1>0, <1>4, <2>1 DEF FinishStep
<1>5. \A S : LoseSome(S) => present' \subseteq present
  BY DEF LoseSome
<1>6. CASE StatFound \/ StatMissing \/ StatFault
  BY <1>2, <1>3, <1>4, <1>6 DEF StatFound, StatMissing, StatFault, storeVars
<1>7. CASE DeleteDone \/ DeleteMissing \/ DeleteRefused
  BY <1>2, <1>3, <1>4, <1>7 DEF DeleteDone, DeleteMissing, DeleteRefused, storeVars
<1>8. CASE DeleteFault
  BY <1>3, <1>4, <1>5, <1>8 DEF DeleteFault
<1>9. CASE VerifyMissing \/ VerifyFound \/ VerifyFault
  BY <1>2, <1>3, <1>9 DEF VerifyMissing, VerifyFound, VerifyFault, storeVars
<1>10. CASE TeardownDone
  <2>1. completed' \in BOOLEAN /\ teardownCompleted' /\ present' = {} /\ failures' = failures
    BY <1>10, Zenon DEF TeardownDone
  <2> QED
    BY <2>1 DEF FinishStep
<1>11. CASE TeardownFault
  <2>1. /\ completed' = FALSE /\ teardownCompleted' = teardownCompleted
        /\ failures' = Append(failures, Failure("teardown", NoPath))
    BY <1>11, Zenon DEF TeardownFault
  <2>2. failures' # <<>>
    BY <2>1, Appended DEF TypeInv, CleanupTypeOK
  <2>3. present' \subseteq present
    BY <1>5, <1>11 DEF TeardownFault
  <2> QED
    BY <2>1, <2>2, <2>3 DEF FinishStep
<1>12. CASE Cancel
  <2>1. UNCHANGED <<completed, teardownCompleted, failures>>
    BY <1>12, Zenon DEF Cancel, reportVars
  <2>2. present' \subseteq present
    BY <1>5, <1>12 DEF Cancel
  <2> QED
    BY <1>0, <2>1, <2>2 DEF FinishStep
<1> QED
  BY <1>1, <1>6, <1>7, <1>8, <1>9, <1>10, <1>11, <1>12 DEF Resume

-----------------------------------------------------------------------------
(* What a session keeps while it runs.                                     *)

\* A check executes only outside a finish, and a completed attempt has torn
\* the fixture down.
SessionInv ==
    /\ TypeInv
    /\ stage \in {"checking", "broken"} => pc = "idle"
    /\ completed => teardownCompleted

\* Without an early finish the teardown comes after the last check, so that
\* nothing exists once it is done.
ReclaimInv ==
    ~EarlyFinish => /\ stage \in {"new", "checking", "broken"} => ~teardownCompleted
                    /\ teardownCompleted => present = {}

\* A run that returned unsatisfied has a defect that cannot go away.
Defect == runFailures # {} \/ failures # <<>> \/ ~ReportSatisfied(report, Required)

VerdictInv ==
    /\ verdict \in BOOLEAN
    /\ runCompleted => stage = "ended"
    /\ stage = "ended" /\ ~verdict => Defect

\* A check that ends in a failure or is dropped touches cleanup only through
\* the disarm of its probe.
LEMMA DisarmFacts ==
    ASSUME TypeInv, NEW check, Disarm(check), UNCHANGED checkFrame,
           clean' \in BOOLEAN, faults' \in 0 .. MaxFaults
    PROVE  /\ TypeInv'
           /\ failures # <<>> => failures' # <<>>
           /\ UNCHANGED <<pc, completed, teardownCompleted, present>>
<1>1. UNCHANGED <<resources, resourceIndex, recorded, attempts, completed, failureStart,
                  present, staged, teardownCompleted, pc, cursor>>
  BY Zenon DEF checkFrame, ledgerVars, storeVars
<1>2. CASE UNCHANGED failures
  BY <1>1, <1>2 DEF TypeInv, CleanupTypeOK, CursorInLedger, StoreTypeOK
<1>3. CASE failures' = Append(failures, Failure("disarm", NoPath))
  <2>1. Failure("disarm", NoPath) \in CleanupFailure /\ failures \in Seq(CleanupFailure)
    BY DEF Failure, CleanupFailure, TypeInv, CleanupTypeOK
  <2>2. /\ failures' \in Seq(CleanupFailure) /\ failureStart' \in 0 .. Len(failures')
        /\ failures' # <<>>
    BY <1>1, <1>3, <2>1, Appended DEF TypeInv, CleanupTypeOK
  <2> QED
    BY <1>1, <2>2 DEF TypeInv, CleanupTypeOK, CursorInLedger, StoreTypeOK
<1> QED
  BY <1>2, <1>3 DEF Disarm

\* What a check that breaks off does to cleanup.
Breaks ==
    /\ Disarm(Head(todo))
    /\ UNCHANGED checkFrame
    /\ UNCHANGED ghostVars \/ Fault

\* The three ways a session changes cleanup: one of its own steps, a check
\* that breaks off, or not at all.
LEMMA SessionSteps ==
    ASSUME SessionInv, Next
    PROVE  CleanupStep \/ Breaks \/ UNCHANGED cleanupVars
<1>1. CASE RunAll \/ RunContract \/ RunCheck \/ RunAgain
  BY <1>1, Zenon DEF RunAll, RunContract, RunCheck, RunAgain, Start
<1>2. CASE CheckStages
  <2>1. pc = "idle"
    BY <1>2 DEF CheckStages, Checking, SessionInv
  <2>2. \E p \in Paths : Stage(p) \/ RecordCreated(p)
    BY <1>2, Zenon DEF CheckStages
  <2> QED
    BY <2>1, <2>2, Zenon DEF CleanupStep
<1>3. CASE CompleteCheck
  BY <1>3, Zenon DEF CompleteCheck
<1>4. CASE FailCheck \/ PanicCheck \/ DropInCheck
  BY <1>4, Zenon DEF FailCheck, PanicCheck, DropInCheck, Breaks
<1>5. CASE RunFinish \/ ResumeFinish \/ DropInFinish \/ CallerFinish
  BY <1>5, Zenon DEF RunFinish, ResumeFinish, DropInFinish, CallerFinish, CleanupStep
<1>6. CASE OutsideRemoval
  BY <1>6, Zenon DEF OutsideRemoval, CleanupStep
<1> QED
  BY <1>1, <1>2, <1>3, <1>4, <1>5, <1>6, Zenon DEF Next, CheckEnds

\* A step of the session keeps the ledger, report and cursor well typed.
LEMMA SessionTypeStep ==
    ASSUME SessionInv, Next
    PROVE  TypeInv'
<1>0. TypeInv
  BY DEF SessionInv
<1>1. CASE CleanupStep
  BY <1>0, <1>1, TypeInvStep
<1>2. CASE Breaks
  <2>1. clean' \in BOOLEAN /\ faults' \in 0 .. MaxFaults
    <3>0. clean \in BOOLEAN /\ faults \in 0 .. MaxFaults
      BY <1>0, Zenon DEF TypeInv, CleanupTypeOK, StoreTypeOK
    <3>1. CASE UNCHANGED ghostVars
      BY <3>0, <3>1, Zenon DEF ghostVars
    <3>2. CASE Fault
      <4>1. clean' = FALSE /\ faults < MaxFaults /\ faults' = faults + 1
        BY <3>2, Zenon DEF Fault, CountFault
      <4>2. faults' \in 0 .. MaxFaults
        BY <3>0, <4>1, FaultBoundAssumption
      <4> QED
        BY <4>1, <4>2, Zenon
    <3> QED
      BY <1>2, <3>1, <3>2 DEF Breaks
  <2> QED
    BY <1>0, <1>2, <2>1, DisarmFacts DEF Breaks
<1>3. CASE UNCHANGED cleanupVars
  BY <1>0, <1>3 DEF cleanupVars, ledgerVars, reportVars, storeVars, ghostVars,
        TypeInv, CleanupTypeOK, CursorInLedger, StoreTypeOK
<1> QED
  BY <1>1, <1>2, <1>3, SessionSteps

-----------------------------------------------------------------------------
(* The invariants, step by step.                                           *)

\* No step of a session but a finish touches the teardown or the attempt's
\* verdict, and only the staging of a check brings a path into existence.
QuietStep ==
    /\ UNCHANGED <<completed, teardownCompleted>>
    /\ failures # <<>> => failures' # <<>>

\* A check that fails, panics or is dropped leaves the cleanup verdict alone.
LEMMA FailureSteps ==
    ASSUME SessionInv, FailCheck \/ PanicCheck \/ DropInCheck
    PROVE  QuietStep /\ UNCHANGED <<pc, present>>
<1>1. Disarm(Head(todo)) /\ UNCHANGED checkFrame
  BY Zenon DEF FailCheck, PanicCheck, DropInCheck
<1>2. UNCHANGED <<pc, completed, teardownCompleted, present>>
  BY <1>1, Zenon DEF checkFrame, storeVars
<1>3. failures # <<>> => failures' # <<>>
  BY <1>1, Appended DEF Disarm, SessionInv, TypeInv, CleanupTypeOK
<1> QED
  BY <1>2, <1>3, Zenon DEF QuietStep

\* Starting a run and completing a check do not touch cleanup.
LEMMA StartSteps ==
    ASSUME RunAll \/ RunContract \/ RunCheck \/ RunAgain \/ CompleteCheck
    PROVE  QuietStep /\ UNCHANGED <<pc, present>>
<1>1. UNCHANGED cleanupVars
  BY Zenon DEF RunAll, RunContract, RunCheck, RunAgain, CompleteCheck, Start
<1> QED
  BY <1>1, Zenon DEF cleanupVars, reportVars, storeVars, QuietStep

\* Staging or recording a resource leaves the run and its verdicts alone.
LEMMA StagingStep ==
    ASSUME CheckStages
    PROVE  QuietStep /\ UNCHANGED <<pc, runVars, verdict>>
<1>1. PICK p \in Paths : Stage(p) \/ RecordCreated(p)
  BY Zenon DEF CheckStages
<1> QED
  BY <1>1, Zenon DEF CheckStages, Stage, RecordCreated, reportVars, QuietStep

\* So does a removal from outside, which only takes paths away.
LEMMA RemovalStep ==
    ASSUME OutsideRemoval
    PROVE  QuietStep /\ UNCHANGED <<pc, runVars, verdict>> /\ present' \subseteq present
<1>1. PICK p \in Paths : Vanish(p)
  BY Zenon DEF OutsideRemoval
<1>2. present' \subseteq present
  BY <1>1 DEF Vanish, LoseSome
<1> QED
  BY <1>1, <1>2, Zenon DEF OutsideRemoval, Vanish, reportVars, QuietStep

\* The steps of a finish, whoever asked for it.
LEMMA FinishingSteps ==
    ASSUME SessionInv, RunFinish \/ ResumeFinish \/ DropInFinish \/ CallerFinish
    PROVE  /\ FinishStep
           /\ \/ stage' \in {"finishing", "ended", "dropped"}
              \/ EarlyFinish /\ stage' = "new" /\ stage = "new"
<1>1. Begin \/ Resume \/ Cancel
  BY Zenon DEF RunFinish, ResumeFinish, DropInFinish, CallerFinish
<1>2. FinishStep
  BY <1>1, FinishSteps, Zenon DEF SessionInv
<1>3. CASE RunFinish \/ ResumeFinish
  BY <1>2, <1>3, Zenon DEF RunFinish, ResumeFinish, FinishOrReturn, Return
<1>4. CASE DropInFinish
  BY <1>2, <1>4, Zenon DEF DropInFinish
<1>5. CASE CallerFinish
  BY <1>2, <1>5 DEF CallerFinish, CallerMayFinish, runVars
<1> QED
  BY <1>3, <1>4, <1>5

\* A check never executes inside a finish, and completion implies teardown.
LEMMA SessionInvStep ==
    ASSUME SessionInv, Next
    PROVE  SessionInv'
<1>0. TypeInv'
  BY SessionTypeStep
<1>1. CASE FailCheck \/ PanicCheck \/ DropInCheck
  <2>1. stage = "checking"
    BY <1>1, Zenon DEF FailCheck, PanicCheck, DropInCheck, Checking
  <2> QED
    BY <1>0, <1>1, <2>1, FailureSteps DEF SessionInv, QuietStep
<1>2. CASE RunAll \/ RunContract \/ RunCheck \/ RunAgain \/ CompleteCheck
  <2>1. pc = "idle" \/ UNCHANGED stage
    BY <1>2, Zenon DEF RunAll, RunContract, RunCheck, RunAgain, CompleteCheck, Start
  <2> QED
    BY <1>0, <1>2, <2>1, StartSteps DEF SessionInv, QuietStep
<1>3. CASE CheckStages
  BY <1>0, <1>3, StagingStep DEF SessionInv, QuietStep, runVars
<1>4. CASE OutsideRemoval
  BY <1>0, <1>4, RemovalStep DEF SessionInv, QuietStep, runVars
<1>5. CASE RunFinish \/ ResumeFinish \/ DropInFinish \/ CallerFinish
  BY <1>0, <1>5, FinishingSteps DEF SessionInv, FinishStep
<1> QED
  BY <1>1, <1>2, <1>3, <1>4, <1>5, Zenon DEF Next, CheckEnds

\* Teardown comes after the last check that can create anything.
LEMMA ReclaimInvStep ==
    ASSUME SessionInv, ReclaimInv, Next
    PROVE  ReclaimInv'
<1> SUFFICES ASSUME ~EarlyFinish
             PROVE  /\ stage' \in {"new", "checking", "broken"} => ~teardownCompleted'
                    /\ teardownCompleted' => present' = {}
  BY Zenon DEF ReclaimInv
<1>0. /\ stage \in {"new", "checking", "broken"} => ~teardownCompleted
      /\ teardownCompleted => present = {}
  BY Zenon DEF ReclaimInv
<1>1. CASE FailCheck \/ PanicCheck \/ DropInCheck
  <2>1. stage = "checking"
    BY <1>1, Zenon DEF FailCheck, PanicCheck, DropInCheck, Checking
  <2> QED
    BY <1>0, <1>1, <2>1, FailureSteps DEF QuietStep
<1>2. CASE RunAll \/ RunContract \/ RunCheck \/ RunAgain \/ CompleteCheck
  <2>1. stage = "new" \/ UNCHANGED stage
    BY <1>2, Zenon DEF RunAll, RunContract, RunCheck, RunAgain, CompleteCheck, Start
  <2> QED
    BY <1>0, <1>2, <2>1, StartSteps DEF QuietStep
<1>3. CASE CheckStages
  <2>1. stage = "checking"
    BY <1>3, Zenon DEF CheckStages, Checking
  <2> QED
    BY <1>0, <1>3, <2>1, StagingStep DEF QuietStep, runVars
<1>4. CASE OutsideRemoval
  BY <1>0, <1>4, RemovalStep DEF QuietStep, runVars
<1>5. CASE RunFinish \/ ResumeFinish \/ DropInFinish \/ CallerFinish
  BY <1>0, <1>5, FinishingSteps DEF FinishStep
<1> QED
  BY <1>1, <1>2, <1>3, <1>4, <1>5, Zenon DEF Next, CheckEnds

\* Once a run has returned, what spoiled it stays.
LEMMA VerdictInvStep ==
    ASSUME SessionInv, VerdictInv, Next
    PROVE  VerdictInv'
<1>0. /\ verdict \in BOOLEAN
      /\ runCompleted => stage = "ended"
      /\ stage = "ended" /\ ~verdict => Defect
  BY Zenon DEF VerdictInv
<1>1. CASE FailCheck \/ PanicCheck \/ DropInCheck
  <2>1. /\ stage = "checking" /\ stage' # "ended"
        /\ UNCHANGED <<runCompleted, verdict>>
    BY <1>1 DEF FailCheck, PanicCheck, DropInCheck, Checking
  <2> QED
    BY <1>0, <2>1 DEF VerdictInv
<1>2. CASE RunAll \/ RunContract \/ RunCheck \/ CompleteCheck
  <2>1. /\ stage \in {"new", "checking"} /\ stage' # "ended"
        /\ UNCHANGED <<runCompleted, verdict>>
    BY <1>2 DEF RunAll, RunContract, RunCheck, CompleteCheck, Start, Checking
  <2> QED
    BY <1>0, <2>1 DEF VerdictInv
<1>3. CASE RunAgain
  <2>1. UNCHANGED <<stage, runCompleted, verdict>> /\ runFailures' # {}
    BY <1>3 DEF RunAgain
  <2> QED
    BY <1>0, <2>1 DEF VerdictInv, Defect
<1>4. ASSUME UNCHANGED <<runVars, verdict>>, failures # <<>> => failures' # <<>>
      PROVE  VerdictInv'
  <2>1. UNCHANGED <<stage, report, runCompleted, runFailures, verdict>>
    BY <1>4, Zenon DEF runVars
  <2>2. Defect => Defect'
    BY <1>4, <2>1 DEF Defect
  <2> QED
    BY <1>0, <2>1, <2>2 DEF VerdictInv
<1>5. CASE CheckStages \/ OutsideRemoval \/ CallerFinish
  <2>1. failures # <<>> => failures' # <<>>
    BY <1>5, StagingStep, RemovalStep, FinishingSteps, Zenon DEF QuietStep, FinishStep
  <2>2. UNCHANGED <<runVars, verdict>>
    BY <1>5, Zenon DEF CheckStages, OutsideRemoval, CallerFinish
  <2> QED
    BY <1>4, <2>1, <2>2
<1>6. CASE DropInFinish
  <2>1. /\ stage = "finishing" /\ stage' = "dropped"
        /\ UNCHANGED <<runCompleted, verdict>>
    BY <1>6 DEF DropInFinish
  <2> QED
    BY <1>0, <2>1 DEF VerdictInv
<1>7. CASE RunFinish \/ ResumeFinish
  <2>1. stage \in {"broken", "checking", "finishing"} /\ FinishOrReturn
    BY <1>7 DEF RunFinish, ResumeFinish
  <2>2. CASE Return
    <3>1. completed' \in BOOLEAN
      BY <1>7, FinishingSteps, Zenon DEF FinishStep
    <3>2. ~completed' => runFailures' # {}
      BY <2>2 DEF Return
    <3>3. runCompleted' /\ stage' = "ended" /\ verdict' = Satisfied'
      BY <2>2, Zenon DEF Return
    <3>4. Satisfied' \in BOOLEAN
      BY Zenon DEF Satisfied, ExecutionSatisfied
    <3>5. ~Satisfied' => Defect'
      BY <3>2, <3>3, Zenon DEF Satisfied, ExecutionSatisfied, Defect
    <3> QED
      BY <3>3, <3>4, <3>5, Zenon DEF VerdictInv
  <2>3. CASE stage' = "finishing" /\ UNCHANGED <<runCompleted, verdict>>
    BY <1>0, <2>1, <2>3 DEF VerdictInv
  <2> QED
    BY <2>1, <2>2, <2>3, Zenon DEF FinishOrReturn
<1> QED
  BY <1>1, <1>2, <1>3, <1>5, <1>6, <1>7, Zenon DEF Next, CheckEnds

\* Together they are inductive.
Inv == SessionInv /\ ReclaimInv /\ VerdictInv

\* The inductive invariant of a session.
LEMMA SessionInvariant == Spec => []Inv
<1>1. Init => Inv
  <2> SUFFICES ASSUME Init
               PROVE  Inv
    OBVIOUS
  <2>1. CleanupInit /\ stage = "new" /\ ~runCompleted /\ verdict = FALSE
    BY DEF Init
  <2>2. TypeInv
    BY <2>1, TypeInvInit
  <2>3. completed = FALSE /\ teardownCompleted = FALSE /\ present = {}
    BY <2>1 DEF CleanupInit, StoreInit
  <2> QED
    BY <2>1, <2>2, <2>3 DEF Inv, SessionInv, ReclaimInv, VerdictInv
<1>2. Inv /\ [Next]_vars => Inv'
  <2>1. ASSUME Inv, Next PROVE Inv'
    BY <2>1, SessionInvStep, ReclaimInvStep, VerdictInvStep, Zenon DEF Inv
  <2>2. ASSUME Inv, UNCHANGED vars PROVE Inv'
    <3>1. UNCHANGED <<runVars, verdict, cleanupVars>>
      BY <2>2, Zenon DEF vars
    <3>2. TypeInv'
      BY <2>2, <3>1 DEF Inv, SessionInv, cleanupVars, ledgerVars, reportVars, storeVars,
            ghostVars, TypeInv, CleanupTypeOK, CursorInLedger, StoreTypeOK
    <3>3. UNCHANGED <<stage, report, runCompleted, runFailures, verdict, pc, completed,
                      teardownCompleted, present, failures>>
      BY <3>1, Zenon DEF runVars, cleanupVars, reportVars, storeVars
    <3>4. (Defect <=> Defect') /\ (Inv => SessionInv' /\ ReclaimInv')
      BY <3>2, <3>3 DEF Defect, Inv, SessionInv, ReclaimInv
    <3> QED
      BY <2>2, <3>3, <3>4 DEF Inv, VerdictInv
  <2> QED
    BY <2>1, <2>2
<1> QED
  BY <1>1, <1>2, PTL DEF Spec

\* For every catalog, set of paths and capabilities: when no caller finishes
\* a session before its run, a satisfied session leaves nothing behind that
\* any of its checks brought into existence, recorded or not.
THEOREM VerdictReclaims == ~EarlyFinish => (Spec => []SatisfiedMeansReclaimed)
<1> SUFFICES ASSUME ~EarlyFinish
             PROVE  Spec => []SatisfiedMeansReclaimed
  OBVIOUS
<1>1. Inv => SatisfiedMeansReclaimed
  BY Zenon DEF Inv, SessionInv, ReclaimInv, SatisfiedMeansReclaimed, Satisfied,
        ExecutionSatisfied
<1> QED
  BY <1>1, SessionInvariant, PTL

\* No later finish, retried cleanup or second run turns a run that returned
\* unsatisfied, or that never returned, into a satisfied one.
THEOREM VerdictStays == Spec => []VerdictNeverImproves
<1>1. Inv => VerdictNeverImproves
  BY Zenon DEF Inv, VerdictInv, Defect, VerdictNeverImproves, Satisfied,
        ExecutionSatisfied
<1> QED
  BY <1>1, SessionInvariant, PTL

-----------------------------------------------------------------------------
(* The evidence of a session.                                              *)

\* A report whose pending checks are registered and have no outcome yet.
WellFormed(r) ==
    /\ r.expected \subseteq CheckIds
    /\ r.pending \subseteq r.expected
    /\ r.outcome \in [CheckIds -> Outcomes]
    /\ \A c \in r.pending : r.outcome[c] = NotRun

\* What is left to execute is exactly what the report has pending, each check
\* once; a run of one check has no other.
TodoInv ==
    /\ WellFormed(report)
    /\ todo \in Seq(CheckIds) /\ IsInjective(todo)
    /\ report.pending = ToSet(todo)
    /\ selected \in CheckIds \cup {NoCheck}
    /\ selected # NoCheck => ToSet(todo) \subseteq {selected}
    /\ stage = "new" => report = EmptyReport /\ todo = <<>> /\ runFailures = {}

\* A failure that ought to be the outcome of check c is kept.
Blamed(c) ==
    c # NoCheck /\ \E f \in runFailures : f.cause \in {"check", "panic"} /\ f.check = c

\* FailedIsAttributed, check by check.
BlameInv ==
    /\ \A f \in runFailures : f.check \in CheckIds \cup {NoCheck}
    /\ \A c \in CheckIds :
          (c \in report.expected /\ report.outcome[c].kind = "Failed") <=> Blamed(c)

\* Whatever went wrong has left a trace that the verdict reads.
IncidentInv ==
    /\ incidents \subseteq {"restart", "failed", "dropped", "unverified"}
    /\ "restart" \in incidents \/ "failed" \in incidents => runFailures # {}
    /\ "dropped" \in incidents => stage = "dropped"
    /\ "unverified" \in incidents =>
          \E c \in report.expected \ report.pending : report.outcome[c].kind = "Unverified"

EvidenceInv == TodoInv /\ BlameInv /\ IncidentInv

\* Registering in an empty report.
LEMMA RegisterFacts ==
    ASSUME NEW ids \in SUBSET CheckIds
    PROVE  LET r == Register(EmptyReport, ids) IN
           /\ WellFormed(r) /\ r.expected = ids /\ r.pending = ids
           /\ \A c \in CheckIds : r.outcome[c] = NotRun
<1> DEFINE r == Register(EmptyReport, ids)
<1>1. r.expected = ids /\ r.pending = ids /\ r.outcome = [c \in CheckIds |-> NotRun]
  BY DEF Register, EmptyReport
<1>2. NotRun \in Outcomes
  BY DEF NotRun, Reasoned, Outcomes, OutcomeKinds
<1> QED
  BY <1>1, <1>2 DEF WellFormed

\* Completing a pending check records its outcome and touches no other.
LEMMA RecordFacts ==
    ASSUME NEW r, WellFormed(r), NEW id \in r.pending, NEW o \in Outcomes
    PROVE  LET q == Record(r, id, o) IN
           /\ WellFormed(q) /\ q.expected = r.expected /\ q.pending = r.pending \ {id}
           /\ q.outcome[id] = o
           /\ \A c \in CheckIds \ {id} : q.outcome[c] = r.outcome[c]
<1> DEFINE q == Record(r, id, o)
<1>1. /\ q.expected = r.expected /\ q.pending = r.pending \ {id}
      /\ q.outcome = [r.outcome EXCEPT ![id] = o]
  BY DEF Record
<1>2. /\ r.outcome \in [CheckIds -> Outcomes] /\ id \in CheckIds
      /\ r.expected \subseteq CheckIds /\ r.pending \subseteq r.expected
      /\ \A c \in r.pending : r.outcome[c] = NotRun
  BY DEF WellFormed
<1> HIDE DEF q
<1>3. /\ q.outcome \in [CheckIds -> Outcomes] /\ q.outcome[id] = o
      /\ \A c \in CheckIds \ {id} : q.outcome[c] = r.outcome[c]
  BY <1>1, <1>2
<1>4. WellFormed(q)
  BY <1>1, <1>2, <1>3 DEF WellFormed
<1> QED
  BY <1>1, <1>3, <1>4 DEF q

\* The head of a list without repetitions, and what is left without it.
LEMMA TodoFacts ==
    ASSUME NEW s \in Seq(CheckIds), s # <<>>, IsInjective(s)
    PROVE  /\ Head(s) \in ToSet(s) /\ Head(s) \in CheckIds
           /\ Tail(s) \in Seq(CheckIds) /\ IsInjective(Tail(s))
           /\ ToSet(Tail(s)) = ToSet(s) \ {Head(s)}
<1>1. /\ Len(s) \in Nat /\ Len(s) >= 1 /\ Head(s) = s[1] /\ DOMAIN s = 1 .. Len(s)
      /\ Tail(s) \in Seq(CheckIds) /\ Len(Tail(s)) = Len(s) - 1
      /\ DOMAIN Tail(s) = 1 .. Len(s) - 1
      /\ \A i \in 1 .. Len(s) - 1 : Tail(s)[i] = s[i + 1]
  OBVIOUS
<1>2. s[1] \in CheckIds
  BY <1>1
<1>3. IsInjective(Tail(s))
  BY <1>1 DEF IsInjective
<1>4. \A i \in 2 .. Len(s) : s[i] # s[1] /\ i - 1 \in 1 .. Len(s) - 1 /\ Tail(s)[i - 1] = s[i]
  BY <1>1 DEF IsInjective
<1>5. \A c \in ToSet(Tail(s)) : c \in ToSet(s) \ {Head(s)}
  <2> TAKE c \in ToSet(Tail(s))
  <2>1. PICK i \in 1 .. Len(s) - 1 : c = Tail(s)[i]
    BY <1>1 DEF ToSet
  <2>2. i + 1 \in 2 .. Len(s) /\ c = s[i + 1]
    BY <1>1, <2>1
  <2> QED
    BY <1>1, <1>4, <2>2 DEF ToSet
<1>6. \A c \in ToSet(s) \ {Head(s)} : c \in ToSet(Tail(s))
  <2> TAKE c \in ToSet(s) \ {Head(s)}
  <2>1. PICK i \in 1 .. Len(s) : c = s[i]
    BY <1>1 DEF ToSet
  <2>2. i \in 2 .. Len(s)
    BY <1>1, <2>1
  <2> QED
    BY <1>1, <1>4, <2>1, <2>2 DEF ToSet
<1>7. Head(s) \in ToSet(s)
  BY <1>1 DEF ToSet
<1>8. ToSet(Tail(s)) = ToSet(s) \ {Head(s)}
  BY <1>5, <1>6
<1> QED
  BY <1>1, <1>2, <1>3, <1>7, <1>8

\* The outcome of a check that has none yet.
LEMMA NotRunFacts == NotRun \in Outcomes /\ NotRun.kind = "NotRun"
BY DEF NotRun, Reasoned, Outcomes, OutcomeKinds

\* Starting a run: everything selected is registered and pending.
LEMMA StartEvidence ==
    ASSUME EvidenceInv, RunAll \/ RunContract \/ RunCheck
    PROVE  EvidenceInv'
<1>1. PICK checks, selection :
         /\ Start(checks, selection)
         /\ checks \in Seq(CheckIds) /\ IsInjective(checks)
         /\ selection \in CheckIds \cup {NoCheck}
         /\ selection # NoCheck => ToSet(checks) \subseteq {selection}
  <2>1. CASE RunAll
    BY <2>1, CatalogAssumption DEF RunAll
  <2>2. CASE RunContract
    BY <2>2, CatalogAssumption DEF RunContract
  <2>3. CASE RunCheck
    <3>1. PICK id \in CheckIds : Start(<<id>>, id)
      BY <2>3 DEF RunCheck
    <3>2. <<id>> \in Seq(CheckIds) /\ IsInjective(<<id>>) /\ ToSet(<<id>>) \subseteq {id}
      BY DEF IsInjective, ToSet
    <3> QED
      BY <3>1, <3>2
  <2> QED
    BY <2>1, <2>2, <2>3
<1>2. /\ report = EmptyReport /\ runFailures = {} /\ stage = "new"
      /\ report' = Register(EmptyReport, ToSet(checks)) /\ todo' = checks
      /\ selected' = selection /\ stage' = "checking"
      /\ UNCHANGED <<runFailures, incidents>>
  BY <1>1 DEF Start, EvidenceInv, TodoInv
<1>3. ToSet(checks) \in SUBSET CheckIds
  BY <1>1 DEF ToSet
<1>4. /\ WellFormed(report') /\ report'.expected = ToSet(checks)
      /\ report'.pending = ToSet(checks)
      /\ \A c \in CheckIds : report'.outcome[c] = NotRun
  BY <1>2, <1>3, RegisterFacts
<1>5. TodoInv'
  BY <1>1, <1>2, <1>4 DEF TodoInv
<1>6. BlameInv'
  BY <1>2, <1>4, NotRunFacts DEF BlameInv, Blamed
<1>7. IncidentInv'
  <2>1. "unverified" \notin incidents
    BY <1>2 DEF EvidenceInv, IncidentInv, EmptyReport
  <2> QED
    BY <1>2, <2>1 DEF EvidenceInv, IncidentInv
<1> QED
  BY <1>5, <1>6, <1>7 DEF EvidenceInv

\* The check at the head completes with outcome o.
LEMMA HeadFacts ==
    ASSUME EvidenceInv, Checking, NEW o \in Outcomes,
           report' = Record(report, Head(todo), o), todo' = Tail(todo),
           UNCHANGED selected, stage' # "new"
    PROVE  /\ TodoInv'
           /\ Head(todo) \in CheckIds /\ Head(todo) \in report.pending
           /\ Head(todo) \in report.expected /\ report.outcome[Head(todo)] = NotRun
           /\ report'.expected = report.expected
           /\ report'.pending = report.pending \ {Head(todo)}
           /\ report'.outcome[Head(todo)] = o
           /\ \A c \in CheckIds \ {Head(todo)} : report'.outcome[c] = report.outcome[c]
<1>1. /\ WellFormed(report) /\ todo \in Seq(CheckIds) /\ todo # <<>> /\ IsInjective(todo)
      /\ report.pending = ToSet(todo)
  BY DEF EvidenceInv, TodoInv, Checking
<1>2. /\ Head(todo) \in report.pending /\ Head(todo) \in CheckIds
      /\ Tail(todo) \in Seq(CheckIds) /\ IsInjective(Tail(todo))
      /\ ToSet(Tail(todo)) = report.pending \ {Head(todo)}
  BY <1>1, TodoFacts
<1>3. /\ WellFormed(report') /\ report'.expected = report.expected
      /\ report'.pending = report.pending \ {Head(todo)}
      /\ report'.outcome[Head(todo)] = o
      /\ \A c \in CheckIds \ {Head(todo)} : report'.outcome[c] = report.outcome[c]
  BY <1>1, <1>2, RecordFacts
<1>4. Head(todo) \in report.expected /\ report.outcome[Head(todo)] = NotRun
  BY <1>1, <1>2 DEF WellFormed
<1>5. TodoInv'
  BY <1>1, <1>2, <1>3 DEF EvidenceInv, TodoInv
<1> QED
  BY <1>2, <1>3, <1>4, <1>5

\* An outcome that was recorded before is kept: only pending checks complete.
LEMMA UnverifiedStays ==
    ASSUME EvidenceInv, NEW id \in report.pending,
           report'.expected = report.expected, report'.pending = report.pending \ {id},
           \A c \in CheckIds \ {id} : report'.outcome[c] = report.outcome[c],
           "unverified" \in incidents
    PROVE  \E c \in report'.expected \ report'.pending : report'.outcome[c].kind = "Unverified"
<1>1. PICK c \in report.expected \ report.pending : report.outcome[c].kind = "Unverified"
  BY DEF EvidenceInv, IncidentInv
<1>2. c \in CheckIds \ {id}
  BY <1>1 DEF EvidenceInv, TodoInv, WellFormed
<1> QED
  BY <1>1, <1>2

\* A check that completes is not failed, and is remembered when unverified.
LEMMA CompleteEvidence ==
    ASSUME EvidenceInv, CompleteCheck PROVE EvidenceInv'
<1>1. PICK o \in CheckOutcomes(Head(todo)) :
         /\ report' = Record(report, Head(todo), o)
         /\ incidents' = IF o.kind = "Unverified" THEN incidents \cup {"unverified"} ELSE incidents
  BY DEF CompleteCheck
<1>2. /\ Checking /\ todo' = Tail(todo) /\ UNCHANGED <<stage, selected, runFailures>>
      /\ stage = "checking"
  BY DEF CompleteCheck, Checking
<1>3. o \in Outcomes /\ o.kind # "Failed"
  <2> DEFINE skips == {[kind |-> k, reasoned |-> r] :
                         k \in IF Head(todo) \in OptionalChecks THEN {"SkippedOptional"} ELSE {},
                         r \in BOOLEAN}
             others == {Reasoned(k) :
                          k \in {"Passed", "RejectedAsExpected", "NotApplicable", "Unverified"}}
  <2>1. o \in others \/ o \in skips
    BY <1>1 DEF CheckOutcomes
  <2>2. CASE o \in others
    <3>1. PICK k \in {"Passed", "RejectedAsExpected", "NotApplicable", "Unverified"} :
             o = Reasoned(k)
      BY <2>2
    <3>2. o = [kind |-> k, reasoned |-> TRUE]
      BY <3>1 DEF Reasoned
    <3> QED
      BY <3>2 DEF Outcomes, OutcomeKinds
  <2>3. CASE o \in skips
    <3>1. PICK r \in BOOLEAN : o = [kind |-> "SkippedOptional", reasoned |-> r]
      BY <2>3
    <3> QED
      BY <3>1 DEF Outcomes, OutcomeKinds
  <2> QED
    BY <2>1, <2>2, <2>3
<1>4. /\ TodoInv' /\ Head(todo) \in CheckIds /\ Head(todo) \in report.pending
      /\ Head(todo) \in report.expected /\ report.outcome[Head(todo)] = NotRun
      /\ report'.expected = report.expected
      /\ report'.pending = report.pending \ {Head(todo)}
      /\ report'.outcome[Head(todo)] = o
      /\ \A c \in CheckIds \ {Head(todo)} : report'.outcome[c] = report.outcome[c]
  BY <1>1, <1>2, <1>3, HeadFacts
<1>5. BlameInv'
  BY <1>2, <1>3, <1>4, NotRunFacts DEF EvidenceInv, BlameInv, Blamed
<1>6. "unverified" \in incidents' =>
         \E c \in report'.expected \ report'.pending : report'.outcome[c].kind = "Unverified"
  BY <1>1, <1>4, UnverifiedStays
<1>7. IncidentInv'
  BY <1>1, <1>2, <1>6 DEF EvidenceInv, IncidentInv
<1> QED
  BY <1>4, <1>5, <1>7 DEF EvidenceInv

\* A check that fails is reported Failed, and the failure names it.
LEMMA FailEvidence ==
    ASSUME EvidenceInv, Checking, NEW cause \in {"check", "panic"},
           FailAttributed(Head(todo), cause), stage' = "broken", UNCHANGED selected,
           incidents' = incidents \cup {"failed"}
    PROVE  EvidenceInv'
<1> DEFINE id == Head(todo)
           failed == RunFail(id, cause)
<1>1. /\ report' = Record(report, id, Reasoned("Failed")) /\ todo' = Tail(todo)
      /\ runFailures' = runFailures \cup {failed}
  BY DEF FailAttributed
<1>2. Reasoned("Failed") \in Outcomes /\ Reasoned("Failed").kind = "Failed"
  BY DEF Reasoned, Outcomes, OutcomeKinds
<1>3. /\ TodoInv' /\ id \in CheckIds /\ id \in report.pending
      /\ id \in report.expected /\ report.outcome[id] = NotRun
      /\ report'.expected = report.expected /\ report'.pending = report.pending \ {id}
      /\ report'.outcome[id] = Reasoned("Failed")
      /\ \A c \in CheckIds \ {id} : report'.outcome[c] = report.outcome[c]
  BY <1>1, <1>2, HeadFacts
<1>4. failed.check = id /\ failed.cause = cause /\ id # NoCheck
  BY <1>3, CatalogAssumption DEF RunFail
<1> HIDE DEF id, failed
<1>5. BlameInv'
  <2>1. \A f \in runFailures' : f.check \in CheckIds \cup {NoCheck}
    BY <1>1, <1>3, <1>4 DEF EvidenceInv, BlameInv
  <2>2. ASSUME NEW c \in CheckIds
        PROVE  (c \in report'.expected /\ report'.outcome[c].kind = "Failed") <=> Blamed(c)'
    <3>1. CASE c = id
      BY <1>1, <1>2, <1>3, <1>4, <3>1 DEF Blamed
    <3>2. CASE c # id
      <4>1. Blamed(c)' <=> Blamed(c)
        BY <1>1, <1>4, <3>2 DEF Blamed
      <4> QED
        BY <1>3, <3>2, <4>1 DEF EvidenceInv, BlameInv
    <3> QED
      BY <3>1, <3>2
  <2> QED
    BY <2>1, <2>2 DEF BlameInv
<1>6. "unverified" \in incidents' =>
         \E c \in report'.expected \ report'.pending : report'.outcome[c].kind = "Unverified"
  BY <1>3, UnverifiedStays
<1>7. "dropped" \notin incidents
  BY DEF EvidenceInv, IncidentInv, Checking
<1>8. IncidentInv'
  BY <1>1, <1>6, <1>7 DEF EvidenceInv, IncidentInv
<1> QED
  BY <1>3, <1>5, <1>8 DEF EvidenceInv

\* The run goes on or ends with the report as it is; a failure may be added
\* that blames no check, or that a destructor kept.
LEMMA KeepEvidence ==
    ASSUME EvidenceInv, UNCHANGED <<selected, todo, report>>,
           stage' = "new" => stage = "new" /\ UNCHANGED runFailures,
           runFailures \subseteq runFailures',
           \A f \in runFailures' \ runFailures :
              /\ f.check \in CheckIds \cup {NoCheck}
              /\ f.check = NoCheck \/ f.cause \notin {"check", "panic"},
           incidents' \subseteq {"restart", "failed", "dropped", "unverified"},
           "restart" \in incidents' \/ "failed" \in incidents' => runFailures' # {},
           "dropped" \in incidents' => stage' = "dropped",
           "unverified" \in incidents' => "unverified" \in incidents
    PROVE  EvidenceInv'
<1>1. TodoInv'
  BY DEF EvidenceInv, TodoInv, WellFormed
<1>2. \A c \in CheckIds : Blamed(c)' <=> Blamed(c)
  BY DEF Blamed
<1>3. BlameInv'
  BY <1>2 DEF EvidenceInv, BlameInv
<1>4. IncidentInv'
  BY DEF EvidenceInv, IncidentInv
<1> QED
  BY <1>1, <1>3, <1>4 DEF EvidenceInv

\* Every step of a session keeps the evidence.
LEMMA EvidenceStep == ASSUME EvidenceInv, VerdictInv, [Next]_vars PROVE EvidenceInv'
<1>0. /\ incidents \subseteq {"restart", "failed", "dropped", "unverified"}
      /\ "restart" \in incidents \/ "failed" \in incidents => runFailures # {}
      /\ "dropped" \in incidents => stage = "dropped"
  BY DEF EvidenceInv, IncidentInv
<1>1. CASE RunAll \/ RunContract \/ RunCheck
  BY <1>1, StartEvidence
<1>2. CASE CompleteCheck
  BY <1>2, CompleteEvidence
<1>3. CASE FailCheck
  BY <1>3, FailEvidence DEF FailCheck
<1>4. CASE PanicCheck
  <2>1. CASE selected # NoCheck /\ FailAttributed(selected, "panic")
    <3>1. Checking /\ Head(todo) = selected
      BY <1>4, <2>1, TodoFacts DEF PanicCheck, Checking, EvidenceInv, TodoInv
    <3> QED
      BY <1>4, <2>1, <3>1, FailEvidence DEF PanicCheck
  <2>2. CASE /\ runFailures' = runFailures \cup {RunFail(NoCheck, "panic")}
             /\ UNCHANGED <<report, todo>>
    <3>1. stage = "checking" /\ stage' = "broken" /\ incidents' = incidents \cup {"failed"}
          /\ UNCHANGED selected
      BY <1>4 DEF PanicCheck, Checking
    <3>2. RunFail(NoCheck, "panic").check = NoCheck
      BY DEF RunFail
    <3> QED
      BY <1>0, <2>2, <3>1, <3>2, KeepEvidence
  <2> QED
    BY <1>4, <2>1, <2>2 DEF PanicCheck
<1>5. CASE RunAgain
  <2>1. RunFail(NoCheck, "restart").check = NoCheck
    BY DEF RunFail
  <2>2. /\ stage \in {"ended", "dropped"} /\ UNCHANGED <<stage, selected, todo, report>>
        /\ runFailures' = runFailures \cup {RunFail(NoCheck, "restart")}
        /\ incidents' = incidents \cup {"restart"}
    BY <1>5 DEF RunAgain
  <2> QED
    BY <1>0, <2>1, <2>2, KeepEvidence
<1>6. CASE DropInCheck
  <2>1. /\ stage' = "dropped" /\ UNCHANGED <<selected, todo, report>>
        /\ incidents' = incidents \cup {"dropped"}
    BY <1>6 DEF DropInCheck
  <2>2. Head(todo) \in CheckIds
    BY <1>6, TodoFacts DEF DropInCheck, Checking, EvidenceInv, TodoInv
  <2>3. PICK new \in {{}, {RunFail(Head(todo), "retained")}} : runFailures' = runFailures \cup new
    BY <1>6 DEF DropInCheck
  <2>4. \A f \in new : f.check \in CheckIds /\ f.cause = "retained"
    BY <2>2 DEF RunFail
  <2> QED
    BY <1>0, <2>1, <2>3, <2>4, KeepEvidence
<1>7. CASE RunFinish \/ ResumeFinish
  <2>1. FinishOrReturn /\ stage \in {"broken", "checking", "finishing"}
    BY <1>7 DEF RunFinish, ResumeFinish
  <2>2. /\ stage' \in {"ended", "finishing"} /\ UNCHANGED <<selected, todo, report, incidents>>
        /\ \/ runFailures' = runFailures \cup {}
           \/ runFailures' = runFailures \cup {RunFail(NoCheck, "cleanup")}
    BY <2>1 DEF FinishOrReturn, Return
  <2>3. RunFail(NoCheck, "cleanup").check = NoCheck
    BY DEF RunFail
  <2>4. "dropped" \notin incidents
    BY <1>0, <2>1
  <2> QED
    BY <1>0, <2>2, <2>3, <2>4, KeepEvidence
<1>8. CASE DropInFinish
  <2>1. /\ stage' = "dropped" /\ UNCHANGED <<selected, todo, report>>
        /\ incidents' = incidents \cup {"dropped"} /\ runFailures' = runFailures \cup {}
    BY <1>8 DEF DropInFinish
  <2> QED
    BY <1>0, <2>1, KeepEvidence
<1>9. CASE CheckStages \/ CallerFinish \/ OutsideRemoval \/ UNCHANGED vars
  <2>1. UNCHANGED <<runVars, incidents>>
    BY <1>9, Zenon DEF CheckStages, CallerFinish, OutsideRemoval, vars
  <2>2. /\ UNCHANGED <<stage, selected, todo, report, incidents>>
        /\ runFailures' = runFailures \cup {} /\ UNCHANGED runFailures
    BY <2>1 DEF runVars
  <2> QED
    BY <1>0, <2>2, KeepEvidence
<1> QED
  BY <1>1, <1>2, <1>3, <1>4, <1>5, <1>6, <1>7, <1>8, <1>9, Zenon DEF Next, CheckEnds

\* The evidence holds throughout.
LEMMA EvidenceInvariant == Spec => []EvidenceInv
<1>1. Init => EvidenceInv
  <2> SUFFICES ASSUME Init PROVE EvidenceInv
    OBVIOUS
  <2>1. WellFormed(EmptyReport) /\ EmptyReport.pending = {} /\ EmptyReport.expected = {}
    BY NotRunFacts DEF WellFormed, EmptyReport
  <2>2. <<>> \in Seq(CheckIds) /\ IsInjective(<<>>) /\ ToSet(<<>>) = {}
    BY DEF IsInjective, ToSet
  <2>3. TodoInv
    BY <2>1, <2>2 DEF Init, TodoInv
  <2> QED
    BY <2>1, <2>3 DEF Init, EvidenceInv, BlameInv, Blamed, IncidentInv
<1>2. ASSUME EvidenceInv, Inv, [Next]_vars PROVE EvidenceInv'
  BY <1>2, EvidenceStep DEF Inv
<1> QED
  BY <1>1, <1>2, SessionInvariant, PTL DEF Spec

\* A satisfied session has evidence for every check it registered and for every
\* check the caller requires, and nothing went wrong in it.
THEOREM VerdictHasEvidence == Spec => []SatisfiedMeansEvidence
<1>1. ASSUME EvidenceInv, Inv, Satisfied
      PROVE  /\ incidents = {} /\ todo = <<>>
             /\ \A c \in Required :
                   c \in report.expected /\ report.outcome[c].kind # "SkippedOptional"
  <2>1. /\ runFailures = {} /\ stage = "ended" /\ report.pending = {}
        /\ \A c \in report.expected : OutcomeSatisfies(c, report.outcome[c], Required)
        /\ Required \subseteq report.expected
    BY <1>1 DEF Inv, VerdictInv, Satisfied, ExecutionSatisfied, ReportSatisfied
  <2>2. todo = <<>>
    <3>1. todo \in Seq(CheckIds) /\ ToSet(todo) = {}
      BY <1>1, <2>1 DEF EvidenceInv, TodoInv
    <3>2. ASSUME todo # <<>> PROVE todo[1] \in ToSet(todo)
      BY <3>1, <3>2 DEF ToSet
    <3> QED
      BY <3>1, <3>2
  <2>3. incidents = {}
    BY <1>1, <2>1 DEF EvidenceInv, IncidentInv, OutcomeSatisfies
  <2> QED
    BY <2>1, <2>2, <2>3 DEF OutcomeSatisfies
<1>2. EvidenceInv /\ Inv => SatisfiedMeansEvidence
  BY <1>1 DEF SatisfiedMeansEvidence
<1> QED
  BY <1>2, EvidenceInvariant, SessionInvariant, PTL

\* A check is reported Failed exactly when a failure of the run names it.
THEOREM FailuresAreAttributed == Spec => []FailedIsAttributed
<1>1. ASSUME EvidenceInv PROVE FailedIsAttributed
  <2> DEFINE reported == {c \in report.expected : report.outcome[c].kind = "Failed"}
             named == {f.check : f \in {g \in runFailures : g.cause \in {"check", "panic"}}}
                        \ {NoCheck}
  <2>1. \A c : c \in named <=> Blamed(c)
    BY DEF Blamed
  <2>2. \A c : c \in reported => c \in CheckIds
    BY <1>1 DEF EvidenceInv, TodoInv, WellFormed
  <2>3. \A c : Blamed(c) => c \in CheckIds
    BY <1>1 DEF EvidenceInv, BlameInv, Blamed
  <2>4. \A c \in CheckIds : c \in reported <=> Blamed(c)
    BY <1>1 DEF EvidenceInv, BlameInv
  <2> HIDE DEF reported, named
  <2>5. reported = named
    BY <2>1, <2>2, <2>3, <2>4
  <2> QED
    BY <2>5 DEF FailedIsAttributed, reported, named
<1> QED
  BY <1>1, EvidenceInvariant, PTL

\* The message of assert_satisfied_with names a reason exactly when the report
\* is not satisfied, whatever the caller requires.
THEOREM DiagnosisTheorem == Spec => []DiagnosisIsComplete
<1>1. ASSUME EvidenceInv, NEW required \in SUBSET CheckIds
      PROVE  ReportSatisfied(report, required) <=> Issues(report, required) = NoIssues
  <2> DEFINE i == Issues(report, required)
  <2>1. i = NoIssues <=> /\ i.violated = {} /\ i.empty = FALSE
                         /\ i.unproven = {} /\ i.outside = {}
    BY DEF Issues, NoIssues
  <2>2. i.violated = {} <=> report.violations = {}
    BY DEF Issues
  <2>3. i.empty = FALSE <=> report.expected # {}
    BY DEF Issues
  <2>4. i.outside = {} <=> required \subseteq report.expected
    BY DEF Issues
  <2>5. ASSUME NEW c \in report.expected
        PROVE  OutcomeSatisfies(c, report.outcome[c], required) <=> c \notin i.unproven
    <3>1. report.outcome[c] \in Outcomes
      BY <1>1 DEF EvidenceInv, TodoInv, WellFormed
    <3>2. /\ report.outcome[c].kind \in OutcomeKinds
          /\ report.outcome[c].reasoned \in BOOLEAN
      BY <3>1 DEF Outcomes
    <3> QED
      BY <3>2 DEF OutcomeSatisfies, Issues, OutcomeKinds
  <2>6. i.unproven \subseteq report.expected
    BY DEF Issues
  <2>7. report.pending \subseteq i.unproven
    <3>1. \A c \in report.pending : c \in report.expected /\ report.outcome[c].kind = "NotRun"
      BY <1>1, NotRunFacts DEF EvidenceInv, TodoInv, WellFormed
    <3> QED
      BY <3>1, <2>5 DEF OutcomeSatisfies
  <2> HIDE DEF i
  <2>8. i.unproven = {} <=>
           /\ report.pending = {}
           /\ \A c \in report.expected : OutcomeSatisfies(c, report.outcome[c], required)
    BY <2>5, <2>6, <2>7
  <2>9. ReportSatisfied(report, required) <=> i = NoIssues
    BY <2>1, <2>2, <2>3, <2>4, <2>8 DEF ReportSatisfied
  <2> QED
    BY <2>9 DEF i
<1>2. EvidenceInv => DiagnosisIsComplete
  BY <1>1 DEF DiagnosisIsComplete
<1> QED
  BY <1>2, EvidenceInvariant, PTL

=============================================================================
