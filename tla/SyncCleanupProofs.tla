-------------------------- MODULE SyncCleanupProofs --------------------------
(***************************************************************************)
(* Proofs about synchronous cleanup, for every set of paths, every tree    *)
(* over them, every combination of capabilities and every bound.           *)
(*                                                                         *)
(* The argument: the loop pops the ledger from the back, so that what is   *)
(* still pending was created before the entry being worked on, and that    *)
(* before everything retained so far.  The retained entries are therefore  *)
(* in reverse creation order, the sort puts them back in creation order,   *)
(* and no path changes hands unseen.                                       *)
(***************************************************************************)
EXTENDS SyncCleanup, SequenceTheorems, TLAPS

\* The entries cleanup holds, wherever it holds them.
Entries == ToSet(resources) \cup ToSet(pending) \cup ToSet(retained) \cup ToSet(resource)

Increasing(s) == \A i, j \in DOMAIN s : i < j => s[i].index < s[j].index
Decreasing(s) == \A i, j \in DOMAIN s : i < j => s[j].index < s[i].index
Below(s, t) == \A i \in DOMAIN s, j \in DOMAIN t : s[i].index < t[j].index

InLoop == pc \in {"stat", "delete", "verify"}

\* The types, and where the entries are inside and outside the loop.
TypeInv ==
    /\ resources \in Seq(TrackedResource) /\ pending \in Seq(TrackedResource)
    /\ retained \in Seq(TrackedResource) /\ resource \in Seq(TrackedResource)
    /\ resourceIndex \in Nat /\ recorded \subseteq Paths /\ attempts \in Nat
    /\ completed \in BOOLEAN /\ clean \in BOOLEAN
    /\ failures \in Seq(CleanupFailure) /\ failureStart \in 0 .. Len(failures)
    /\ teardownCompleted \in BOOLEAN
    /\ StoreTypeOK
    /\ pc \in {"idle", "stat", "delete", "verify", "teardown"}
    /\ ~InLoop => pending = <<>> /\ retained = <<>> /\ resource = <<>>
    /\ InLoop => resources = <<>> /\ Len(resource) = 1
    /\ attempts = 0 => pc = "idle"

\* Creation order, through the two local vectors.
OrderInv ==
    /\ Increasing(resources) /\ Increasing(pending) /\ Decreasing(retained)
    /\ Below(pending, resource) /\ Below(resource, retained) /\ Below(pending, retained)
    /\ \A e \in Entries : e.index <= resourceIndex

\* Every entry was recorded, a directory before what is below it; before the
\* first attempt nothing is forgotten, and after that nothing that exists.
LedgerInv ==
    /\ \A e \in Entries : e.path \in recorded
    /\ \A a, b \in Entries : a.index < b.index => a.path \notin Under[b.path]
    /\ attempts = 0 => recorded \subseteq Held
    /\ recorded \cap present \subseteq Held

\* Every path that can hinder a deletion is itself held.
Closes == CanDeleteTree \/ \A d \in Held : Under[d] \cap present \subseteq Held

\* An attempt that has reported nothing has retained nothing.
ReportInv ==
    Len(failures) = failureStart =>
       /\ InLoop => retained = <<>>
       /\ pc = "teardown" /\ CanDelete => Entries = {}

\* While an attempt is clean, it has reported nothing, what could hinder a
\* deletion is still held, and a deletion did what it was asked to.
CleanInv ==
    /\ CleanAttemptReportsNothing
    /\ clean /\ InLoop => Closes
    /\ clean /\ pc = "verify" => Path \notin present

IInv == TypeInv /\ OrderInv /\ LedgerInv /\ ReportInv /\ CleanInv

-----------------------------------------------------------------------------
(* Lists of entries.                                                       *)

\* What a list holds, as entries and as paths.
LEMMA HeldIsEntries == Held = {e.path : e \in Entries}
BY DEF Held, Entries, PathsOf, ToSet

\* The same, one path at a time, now and after a step.
LEMMA HeldAndEntries == \A q : q \in Held <=> \E e \in Entries : q = e.path
BY HeldIsEntries

\* The paths and the entries of the ledger after a step.
LEMMA HeldAndEntriesNext == \A q : q \in Held' <=> \E e \in Entries' : q = e.path
<1>1. Held' = {e.path : e \in Entries'}
  BY DEF Held, Entries, PathsOf, ToSet
<1> QED
  BY <1>1

\* The sort of the retained entries: the same entries, in creation order.
LEMMA RestoreFacts ==
    ASSUME NEW kept \in Seq(TrackedResource), Decreasing(kept)
    PROVE  /\ Restore(kept) \in Seq(TrackedResource)
           /\ ToSet(Restore(kept)) = ToSet(kept)
           /\ Increasing(Restore(kept))
<1> DEFINE n == Len(kept)
           D == DOMAIN kept
           Good(t) == \A i, j \in D : i < j => ~(t[j].index < t[i].index)
           r == Restore(kept)
<1>1. n \in Nat /\ D = 1 .. n /\ \A i \in D : kept[i] \in TrackedResource /\ kept[i].index \in Nat
  <2>1. n \in Nat /\ D = 1 .. n /\ \A i \in D : kept[i] \in TrackedResource
    OBVIOUS
  <2> QED
    BY <2>1 DEF TrackedResource
<1> HIDE DEF n, D
<1>2. \E t \in Arrangements(kept) : Good(t)
  <2> DEFINE f == [i \in D |-> n + 1 - i]
             t == [i \in D |-> kept[f[i]]]
  <2>1. f \in [D -> D] /\ \A i \in D : f[i] = n + 1 - i
    BY <1>1
  <2>2. IsInjective(f)
    BY <1>1 DEF IsInjective
  <2>3. \A d \in D : \E i \in D : f[i] = d
    <3> TAKE d \in D
    <3>1. n + 1 - d \in D /\ f[n + 1 - d] = d
      BY <1>1
    <3> QED
      BY <3>1
  <2> HIDE DEF f
  <2>4. f \in Bijection(D, D)
    BY <2>1, <2>2, <2>3 DEF Bijection, Injection, Surjection
  <2>5. t \in Arrangements(kept)
    BY <2>4 DEF Arrangements, D
  <2>6. Good(t)
    <3> SUFFICES ASSUME NEW i \in D, NEW j \in D, i < j PROVE ~(t[j].index < t[i].index)
      OBVIOUS
    <3>1. f[i] \in D /\ f[j] \in D /\ f[j] < f[i]
      BY <1>1, <2>1
    <3>2. kept[f[i]].index < kept[f[j]].index
      BY <3>1 DEF Decreasing, D
    <3> QED
      BY <1>1, <3>1, <3>2
  <2> QED
    BY <2>5, <2>6
<1>3. r \in Arrangements(kept) /\ Good(r)
  <2>1. r = CHOOSE t \in Arrangements(kept) : Good(t)
    BY DEF Restore, SortBy, ByCreation, D
  <2> HIDE DEF r, Good
  <2> QED
    BY <1>2, <2>1
<1> HIDE DEF r
<1>4. PICK f \in Bijection(D, D) : r = [i \in D |-> kept[f[i]]]
  BY <1>3 DEF Arrangements, D
<1>5. /\ \A i \in D : f[i] \in D
      /\ \A i, j \in D : f[i] = f[j] => i = j
      /\ \A d \in D : \E i \in D : f[i] = d
  BY <1>4 DEF Bijection, Injection, Surjection, IsInjective
<1>6. DOMAIN r = D /\ \A i \in D : r[i] = kept[f[i]]
  BY <1>4
<1>7. r \in Seq(TrackedResource)
  <2>1. r \in [1 .. n -> TrackedResource]
    BY <1>1, <1>4, <1>5
  <2> QED
    BY <1>1, <2>1
<1>8. ToSet(r) = ToSet(kept)
  <2>1. \A e : e \in ToSet(r) <=> \E i \in D : e = kept[f[i]]
    BY <1>6 DEF ToSet
  <2>2. \A e : e \in ToSet(kept) <=> \E d \in D : e = kept[d]
    BY DEF ToSet, D
  <2>3. \A e : (\E i \in D : e = kept[f[i]]) <=> (\E d \in D : e = kept[d])
    BY <1>5
  <2> QED
    BY <2>1, <2>2, <2>3
<1>9. Increasing(r)
  <2> SUFFICES ASSUME NEW i \in D, NEW j \in D, i < j PROVE r[i].index < r[j].index
    BY <1>6 DEF Increasing
  <2>1. ~(r[j].index < r[i].index)
    BY <1>3
  <2>2. f[i] \in D /\ f[j] \in D /\ f[i] # f[j]
    BY <1>1, <1>5
  <2>3. kept[f[i]].index # kept[f[j]].index /\ kept[f[i]].index \in Nat /\ kept[f[j]].index \in Nat
    <3>1. f[i] < f[j] \/ f[j] < f[i]
      BY <1>1, <2>2
    <3>2. \A k, l \in D : k < l => kept[l].index < kept[k].index
      BY DEF Decreasing, D
    <3>3. kept[f[i]].index \in Nat /\ kept[f[j]].index \in Nat
      BY <1>1, <2>2
    <3> QED
      BY <2>2, <3>1, <3>2, <3>3
  <2> QED
    BY <1>6, <2>1, <2>3
<1> QED
  BY <1>7, <1>8, <1>9 DEF r

\* Popping the last entry of a list.
LEMMA PopFacts ==
    ASSUME NEW s \in Seq(TrackedResource), s # <<>>
    PROVE  /\ Front(s) \in Seq(TrackedResource) /\ Last(s) \in TrackedResource
           /\ ToSet(s) = ToSet(Front(s)) \cup {Last(s)}
           /\ Increasing(s) => Increasing(Front(s)) /\ Below(Front(s), <<Last(s)>>)
           /\ \A t : Below(s, t) => Below(Front(s), t) /\ Below(<<Last(s)>>, t)
<1> DEFINE n == Len(s)
<1>1. /\ n \in Nat /\ n >= 1 /\ DOMAIN s = 1 .. n /\ Last(s) = s[n] /\ s[n] \in TrackedResource
      /\ Front(s) \in Seq(TrackedResource) /\ DOMAIN Front(s) = 1 .. (n - 1)
      /\ \A i \in 1 .. (n - 1) : Front(s)[i] = s[i]
  BY DEF Front, Last
<1> HIDE DEF n
<1>2. DOMAIN <<Last(s)>> = {1} /\ <<Last(s)>>[1] = s[n]
  BY <1>1
<1>3. ToSet(s) = ToSet(Front(s)) \cup {Last(s)}
  <2>1. \A e \in ToSet(s) : e \in ToSet(Front(s)) \cup {Last(s)}
    <3> TAKE e \in ToSet(s)
    <3>1. PICK i \in 1 .. n : e = s[i]
      BY <1>1 DEF ToSet
    <3>2. i = n \/ i \in 1 .. (n - 1)
      BY <1>1
    <3> QED
      BY <1>1, <3>1, <3>2 DEF ToSet
  <2>2. \A e \in ToSet(Front(s)) : e \in ToSet(s)
    <3> TAKE e \in ToSet(Front(s))
    <3>1. PICK i \in 1 .. (n - 1) : e = Front(s)[i]
      BY <1>1 DEF ToSet
    <3>2. i \in DOMAIN s /\ e = s[i]
      BY <1>1, <3>1
    <3> QED
      BY <3>2 DEF ToSet
  <2>3. Last(s) \in ToSet(s)
    BY <1>1 DEF ToSet
  <2> QED
    BY <2>1, <2>2, <2>3
<1>4. Increasing(s) => Increasing(Front(s))
  BY <1>1 DEF Increasing
<1>5. Increasing(s) => Below(Front(s), <<Last(s)>>)
  BY <1>1, <1>2 DEF Increasing, Below
<1>6. ASSUME NEW t, Below(s, t) PROVE Below(Front(s), t) /\ Below(<<Last(s)>>, t)
  BY <1>1, <1>2, <1>6 DEF Below
<1> QED
  BY <1>1, <1>3, <1>4, <1>5, <1>6

\* Retaining an entry: it comes after everything retained so far.
LEMMA KeepFacts ==
    ASSUME NEW s \in Seq(TrackedResource), NEW one \in Seq(TrackedResource), Len(one) = 1
    PROVE  /\ s \o one \in Seq(TrackedResource)
           /\ ToSet(s \o one) = ToSet(s) \cup ToSet(one)
           /\ Decreasing(s) /\ Below(one, s) => Decreasing(s \o one)
           /\ \A t : Below(t, s) /\ Below(t, one) => Below(t, s \o one)
<1> DEFINE n == Len(s)
           k == s \o one
<1>1. /\ n \in Nat /\ DOMAIN s = 1 .. n /\ DOMAIN one = {1}
      /\ k \in Seq(TrackedResource) /\ DOMAIN k = 1 .. (n + 1)
      /\ k[n + 1] = one[1] /\ \A i \in 1 .. n : k[i] = s[i]
  <2>1. n \in Nat /\ DOMAIN s = 1 .. n /\ DOMAIN one = {1}
    OBVIOUS
  <2>2. /\ k \in Seq(TrackedResource) /\ Len(k) = n + 1
        /\ \A i \in 1 .. (n + 1) : k[i] = IF i <= n THEN s[i] ELSE one[i - n]
    BY <2>1, ConcatProperties
  <2> HIDE DEF n, k
  <2>3. DOMAIN k = 1 .. (n + 1)
    BY <2>2
  <2>4. k[n + 1] = one[1] /\ \A i \in 1 .. n : k[i] = s[i]
    BY <2>1, <2>2
  <2> QED
    BY <2>1, <2>2, <2>3, <2>4
<1> HIDE DEF n, k
<1>2. ToSet(k) = ToSet(s) \cup ToSet(one)
  <2>1. \A e \in ToSet(k) : e \in ToSet(s) \cup ToSet(one)
    <3> TAKE e \in ToSet(k)
    <3>1. PICK i \in 1 .. (n + 1) : e = k[i]
      BY <1>1 DEF ToSet
    <3>2. i = n + 1 \/ i \in 1 .. n
      BY <1>1
    <3> QED
      BY <1>1, <3>1, <3>2 DEF ToSet
  <2>2. \A e \in ToSet(s) : e \in ToSet(k)
    <3> TAKE e \in ToSet(s)
    <3>1. PICK i \in 1 .. n : e = s[i]
      BY <1>1 DEF ToSet
    <3>2. i \in DOMAIN k /\ e = k[i]
      BY <1>1, <3>1
    <3> QED
      BY <3>2 DEF ToSet
  <2>3. \A e \in ToSet(one) : e \in ToSet(k)
    <3>1. n + 1 \in DOMAIN k
      BY <1>1
    <3> QED
      BY <1>1, <3>1 DEF ToSet
  <2> QED
    BY <2>1, <2>2, <2>3
<1>3. ASSUME Decreasing(s), Below(one, s) PROVE Decreasing(k)
  <2> SUFFICES ASSUME NEW i \in DOMAIN k, NEW j \in DOMAIN k, i < j
               PROVE  k[j].index < k[i].index
    BY DEF Decreasing
  <2>1. i \in 1 .. n /\ k[i] = s[i]
    BY <1>1
  <2>2. CASE j = n + 1
    BY <1>1, <1>3, <2>1, <2>2 DEF Below
  <2>3. CASE j # n + 1
    <3>1. j \in 1 .. n /\ k[j] = s[j]
      BY <1>1, <2>3
    <3> QED
      BY <1>1, <1>3, <2>1, <3>1 DEF Decreasing
  <2> QED
    BY <2>2, <2>3
<1>4. ASSUME NEW t, Below(t, s), Below(t, one) PROVE Below(t, k)
  <2> SUFFICES ASSUME NEW i \in DOMAIN t, NEW j \in DOMAIN k PROVE t[i].index < k[j].index
    BY DEF Below
  <2>1. j = n + 1 \/ j \in 1 .. n
    BY <1>1
  <2> QED
    BY <1>1, <1>4, <2>1 DEF Below
<1> QED
  BY <1>1, <1>2, <1>3, <1>4 DEF k

\* The head of the loop: no entry is lost or added, and creation order goes on
\* through the local vectors and back into the ledger.
LEMMA NextEntryFacts ==
    ASSUME NEW waiting \in Seq(TrackedResource), NEW kept \in Seq(TrackedResource),
           NEW fs, NEW start, Increasing(waiting), Decreasing(kept), Below(waiting, kept),
           NextEntry(waiting, kept, fs, start)
    PROVE  /\ resources' \in Seq(TrackedResource) /\ pending' \in Seq(TrackedResource)
           /\ retained' \in Seq(TrackedResource) /\ resource' \in Seq(TrackedResource)
           /\ pc' \in {"stat", "idle", "teardown"}
           /\ pc' # "stat" => pending' = <<>> /\ retained' = <<>> /\ resource' = <<>>
           /\ pc' = "stat" => resources' = <<>> /\ Len(resource') = 1 /\ retained' = kept
           /\ Increasing(resources') /\ Increasing(pending') /\ Decreasing(retained')
           /\ Below(pending', resource') /\ Below(resource', retained')
           /\ Below(pending', retained')
           /\ Entries' = ToSet(waiting) \cup ToSet(kept)
           /\ pc' # "stat" => Entries' = ToSet(kept)
           /\ failures' = fs /\ completed' \in BOOLEAN
           /\ completed' => pc' = "idle" /\ Len(fs) = start
<1>0. /\ <<>> \in Seq(TrackedResource) /\ ToSet(<<>>) = {} /\ Increasing(<<>>) /\ Decreasing(<<>>)
      /\ \A t : Below(<<>>, t) /\ Below(t, <<>>)
  BY DEF ToSet, Increasing, Decreasing, Below
<1>1. CASE waiting # <<>>
  <2>1. /\ pending' = Front(waiting) /\ resource' = <<Last(waiting)>>
        /\ retained' = kept /\ resources' = <<>> /\ failures' = fs
        /\ pc' = "stat" /\ completed' = FALSE
    BY <1>1 DEF NextEntry
  <2>2. /\ pending' \in Seq(TrackedResource) /\ Last(waiting) \in TrackedResource
        /\ ToSet(waiting) = ToSet(pending') \cup {Last(waiting)}
        /\ Increasing(pending') /\ Below(pending', resource')
        /\ Below(pending', kept) /\ Below(resource', kept)
    BY <1>1, <2>1, PopFacts
  <2>3. resource' \in Seq(TrackedResource) /\ Len(resource') = 1
        /\ ToSet(resource') = {Last(waiting)}
    BY <2>1, <2>2 DEF ToSet
  <2>4. Entries' = ToSet(waiting) \cup ToSet(kept)
    BY <1>0, <2>1, <2>2, <2>3 DEF Entries
  <2> QED
    BY <1>0, <2>1, <2>2, <2>3, <2>4
<1>2. CASE waiting = <<>>
  <2>1. /\ pending' = <<>> /\ resource' = <<>> /\ retained' = <<>> /\ failures' = fs
        /\ resources' = Restore(kept) /\ AfterLoop(fs, start)
    BY <1>2 DEF NextEntry
  <2>2. /\ resources' \in Seq(TrackedResource) /\ ToSet(resources') = ToSet(kept)
        /\ Increasing(resources')
    BY <2>1, RestoreFacts
  <2>3. /\ pc' \in {"idle", "teardown"} /\ completed' \in BOOLEAN
        /\ completed' => pc' = "idle" /\ Len(fs) = start
    BY <2>1, Zenon DEF AfterLoop
  <2>4. Entries' = ToSet(kept) /\ ToSet(waiting) = {}
    BY <1>0, <1>2, <2>1, <2>2 DEF Entries
  <2> QED
    BY <1>0, <2>1, <2>2, <2>3, <2>4
<1> QED
  BY <1>1, <1>2

-----------------------------------------------------------------------------
(* The steps.                                                              *)

\* The entries inside the loop.
LEMMA LoopEntries ==
    ASSUME TypeInv, InLoop
    PROVE  /\ Entries = ToSet(pending) \cup ToSet(retained) \cup {resource[1]}
           /\ ToSet(resource) = {resource[1]} /\ resource[1] \in TrackedResource
           /\ Path \in Held
<1>1. resources = <<>> /\ resource \in Seq(TrackedResource) /\ Len(resource) = 1
  BY DEF TypeInv
<1>2. ToSet(resource) = {resource[1]} /\ resource[1] \in TrackedResource
  BY <1>1 DEF ToSet
<1>3. ToSet(<<>>) = {}
  BY DEF ToSet
<1>4. Entries = ToSet(pending) \cup ToSet(retained) \cup {resource[1]}
  BY <1>1, <1>2, <1>3 DEF Entries
<1> QED
  BY <1>2, <1>4, HeldIsEntries DEF Path

\* What the ways an entry's turn ends have in common.
Turn ==
    /\ pc' \in {"stat", "idle", "teardown"}
    /\ UNCHANGED frame
    /\ completed' \in BOOLEAN
    /\ completed' => pc' = "idle" /\ Len(failures') = failureStart'
    /\ resources' \in Seq(TrackedResource) /\ pending' \in Seq(TrackedResource)
    /\ retained' \in Seq(TrackedResource) /\ resource' \in Seq(TrackedResource)
    /\ pc' # "stat" => pending' = <<>> /\ retained' = <<>> /\ resource' = <<>>
    /\ pc' = "stat" => resources' = <<>> /\ Len(resource') = 1
    /\ OrderInv'

\* The entry is released.
LEMMA ReleaseFacts ==
    ASSUME TypeInv, OrderInv, InLoop, Release
    PROVE  /\ Turn
           /\ Entries' \subseteq Entries /\ Entries \ {resource[1]} \subseteq Entries'
           /\ failures' = failures
           /\ pc' = "stat" => retained' = retained
           /\ pc' # "stat" => Entries' = ToSet(retained)
<1>1. NextEntry(pending, retained, failures, failureStart) /\ UNCHANGED frame
  BY DEF Release
<1>2. /\ pending \in Seq(TrackedResource) /\ retained \in Seq(TrackedResource)
      /\ Increasing(pending) /\ Decreasing(retained) /\ Below(pending, retained)
  BY DEF TypeInv, OrderInv
<1>3. /\ resources' \in Seq(TrackedResource) /\ pending' \in Seq(TrackedResource)
      /\ retained' \in Seq(TrackedResource) /\ resource' \in Seq(TrackedResource)
      /\ pc' \in {"stat", "idle", "teardown"}
      /\ pc' # "stat" => pending' = <<>> /\ retained' = <<>> /\ resource' = <<>>
      /\ pc' = "stat" => resources' = <<>> /\ Len(resource') = 1 /\ retained' = retained
      /\ Increasing(resources') /\ Increasing(pending') /\ Decreasing(retained')
      /\ Below(pending', resource') /\ Below(resource', retained')
      /\ Below(pending', retained')
      /\ Entries' = ToSet(pending) \cup ToSet(retained)
      /\ pc' # "stat" => Entries' = ToSet(retained)
      /\ failures' = failures /\ completed' \in BOOLEAN
      /\ completed' => pc' = "idle" /\ Len(failures) = failureStart
  BY <1>1, <1>2, NextEntryFacts, Zenon
<1>4. Entries = ToSet(pending) \cup ToSet(retained) \cup {resource[1]}
  BY LoopEntries
<1>5. resourceIndex' = resourceIndex /\ failureStart' = failureStart
  BY <1>1 DEF frame
<1>6. OrderInv'
  BY <1>3, <1>4, <1>5 DEF OrderInv
<1> QED
  BY <1>1, <1>3, <1>4, <1>5, <1>6 DEF Turn

\* The entry is retained and reported.
LEMMA RetainFacts ==
    ASSUME TypeInv, OrderInv, InLoop, NEW operation \in {"stat", "delete"}, Retain(operation)
    PROVE  /\ Turn
           /\ Entries' = Entries
           /\ failures' \in Seq(CleanupFailure) /\ Len(failures') = Len(failures) + 1
<1> DEFINE kept == retained \o resource
           fs == Append(failures, Failure(operation, Path))
<1>1. NextEntry(pending, kept, fs, failureStart) /\ UNCHANGED frame
  BY DEF Retain
<1>2. /\ pending \in Seq(TrackedResource) /\ retained \in Seq(TrackedResource)
      /\ resource \in Seq(TrackedResource) /\ Len(resource) = 1
      /\ Increasing(pending) /\ Decreasing(retained) /\ Below(pending, retained)
      /\ Below(pending, resource) /\ Below(resource, retained)
  BY DEF TypeInv, OrderInv
<1>3. /\ kept \in Seq(TrackedResource) /\ Decreasing(kept) /\ Below(pending, kept)
      /\ ToSet(kept) = ToSet(retained) \cup ToSet(resource)
  BY <1>2, KeepFacts
<1> HIDE DEF kept
<1>4. fs \in Seq(CleanupFailure) /\ Len(fs) = Len(failures) + 1
  <2>1. Path \in Paths
    BY LoopEntries DEF Path, TrackedResource
  <2>2. Failure(operation, Path) \in CleanupFailure
    BY <2>1 DEF Failure, CleanupFailure
  <2> QED
    BY <2>2 DEF TypeInv
<1> HIDE DEF fs
<1>5. /\ resources' \in Seq(TrackedResource) /\ pending' \in Seq(TrackedResource)
      /\ retained' \in Seq(TrackedResource) /\ resource' \in Seq(TrackedResource)
      /\ pc' \in {"stat", "idle", "teardown"}
      /\ pc' # "stat" => pending' = <<>> /\ retained' = <<>> /\ resource' = <<>>
      /\ pc' = "stat" => resources' = <<>> /\ Len(resource') = 1
      /\ Increasing(resources') /\ Increasing(pending') /\ Decreasing(retained')
      /\ Below(pending', resource') /\ Below(resource', retained')
      /\ Below(pending', retained')
      /\ Entries' = ToSet(pending) \cup ToSet(kept)
      /\ failures' = fs /\ completed' \in BOOLEAN
      /\ completed' => pc' = "idle" /\ Len(fs) = failureStart
  BY <1>1, <1>2, <1>3, NextEntryFacts, Zenon
<1>6. Entries' = Entries
  BY <1>3, <1>5, LoopEntries
<1>7. resourceIndex' = resourceIndex /\ failureStart' = failureStart
  BY <1>1 DEF frame
<1>8. OrderInv'
  BY <1>5, <1>6, <1>7 DEF OrderInv
<1> QED
  BY <1>1, <1>4, <1>5, <1>6, <1>7, <1>8 DEF Turn

\* The answer to a call: conforming, or counted as a fault.
Answer == Conforming \/ Fault

\* A conforming answer leaves the attempt as clean as it was.
LEMMA AnswerTypes ==
    ASSUME TypeInv, Answer
    PROVE  clean' \in BOOLEAN /\ faults' \in 0 .. MaxFaults /\ (clean' => clean)
<1>1. clean \in BOOLEAN /\ faults \in 0 .. MaxFaults
  BY DEF TypeInv, StoreTypeOK
<1>2. CASE Conforming
  BY <1>1, <1>2 DEF Conforming
<1>3. CASE Fault
  <2>1. faults < MaxFaults /\ faults' = faults + 1
    BY <1>3 DEF Fault, CountFault
  <2>2. faults' \in 0 .. MaxFaults
    BY <1>1, <2>1, FaultBoundAssumption
  <2>3. clean' = FALSE
    BY <1>3 DEF Fault
  <2> QED
    BY <2>2, <2>3
<1> QED
  BY <1>2, <1>3 DEF Answer

\* A call of the loop goes on with the entry, releases it, or retains it; and
\* a conforming call retains only what it could not remove.
GoesOn == \E c \in {"delete", "verify"} :
             Call(c) /\ (clean' /\ c = "verify" => Path \notin present')

Releases == Release /\ Path \notin present /\ Conforming /\ UNCHANGED present

Retains == \E operation \in {"stat", "delete"} :
              /\ Retain(operation)
              /\ \/ Fault
                 \/ pc = "delete" /\ ~Deletable(Path)
                 \/ pc = "verify" /\ Path \in present

\* Every call of the loop is one of the three.
LEMMA LoopSteps ==
    ASSUME Stat \/ Delete \/ Verify
    PROVE  /\ InLoop /\ Answer /\ present' \subseteq present
           /\ GoesOn \/ Releases \/ Retains
<1>1. CASE Stat
  BY <1>1 DEF Stat, InLoop, Answer, GoesOn, Releases, Retains
<1>2. CASE Delete
  <2>1. InLoop /\ Answer
    BY <1>2 DEF Delete, InLoop, Answer
  <2>2. present' \subseteq present
    BY <1>2 DEF Delete, LoseSome
  <2>3. CASE /\ Deletable(Path) /\ present' = present \ Reclaimed(Path)
             /\ Call("verify") /\ Conforming
    <3>1. Path \notin present'
      BY <2>3 DEF Reclaimed
    <3> QED
      BY <2>1, <2>2, <2>3, <3>1 DEF GoesOn
  <2>4. CASE Path \notin present /\ Release /\ Conforming /\ UNCHANGED present
    BY <2>1, <2>2, <2>4 DEF Releases
  <2>5. CASE ~Deletable(Path) /\ Retain("delete") /\ Conforming /\ UNCHANGED present
    BY <1>2, <2>1, <2>2, <2>5 DEF Retains, Delete
  <2>6. CASE LoseSome(Reclaimed(Path)) /\ Retain("delete") /\ Fault
    BY <2>1, <2>2, <2>6 DEF Retains
  <2>7. CASE LoseSome(Reclaimed(Path)) /\ Call("verify") /\ Fault
    BY <2>1, <2>2, <2>7 DEF GoesOn, Fault
  <2> QED
    BY <1>2, <2>3, <2>4, <2>5, <2>6, <2>7 DEF Delete
<1>3. CASE Verify
  BY <1>3 DEF Verify, InLoop, Answer, GoesOn, Releases, Retains
<1> QED
  BY <1>1, <1>2, <1>3

\* The types and places after a turn or a further call.
LEMMA LoopTypes ==
    ASSUME TypeInv, OrderInv, Stat \/ Delete \/ Verify
    PROVE  TypeInv' /\ OrderInv'
<1>1. InLoop /\ Answer /\ present' \subseteq present
  BY LoopSteps
<1>2. clean' \in BOOLEAN /\ faults' \in 0 .. MaxFaults
  BY <1>1, AnswerTypes
<1>3. ASSUME Turn, failures' \in Seq(CleanupFailure), Len(failures') >= Len(failures)
      PROVE  TypeInv' /\ OrderInv'
  <2>1. /\ resourceIndex' \in Nat /\ recorded' \subseteq Paths /\ attempts' \in Nat \ {0}
        /\ teardownCompleted' \in BOOLEAN
        /\ failureStart' \in 0 .. Len(failures')
    BY <1>1, <1>3 DEF Turn, frame, TypeInv, InLoop
  <2>2. StoreTypeOK'
    BY <1>1, <1>2, <1>3 DEF Turn, frame, TypeInv, StoreTypeOK
  <2>3. /\ pc' \in {"idle", "stat", "delete", "verify", "teardown"}
        /\ InLoop' <=> pc' = "stat"
    BY <1>3 DEF Turn, InLoop
  <2> QED
    BY <1>2, <1>3, <2>1, <2>2, <2>3 DEF Turn, TypeInv
<1>4. CASE GoesOn
  <2>1. /\ UNCHANGED <<resources, pending, retained, resource, completed, failures, failureStart,
                       attempts, resourceIndex, recorded, teardownCompleted, staged>>
        /\ pc' \in {"delete", "verify"}
    BY <1>4 DEF GoesOn, Call, vectors, frame
  <2>2. TypeInv'
    BY <1>1, <1>2, <2>1 DEF TypeInv, InLoop, StoreTypeOK
  <2>3. OrderInv'
    BY <2>1 DEF OrderInv, Entries
  <2> QED
    BY <2>2, <2>3
<1>5. CASE Releases
  <2>1. Turn /\ failures' = failures
    BY <1>1, <1>5, ReleaseFacts DEF Releases
  <2> QED
    BY <1>3, <2>1 DEF TypeInv
<1>6. CASE Retains
  <2>1. Turn /\ failures' \in Seq(CleanupFailure) /\ Len(failures') = Len(failures) + 1
    BY <1>1, <1>6, RetainFacts DEF Retains
  <2> QED
    BY <1>3, <2>1 DEF TypeInv
<1> QED
  BY <1>4, <1>5, <1>6, LoopSteps

\* Held paths leave only as absent ones.
LEMMA LoopHeld ==
    ASSUME TypeInv, OrderInv, Stat \/ Delete \/ Verify
    PROVE  /\ Entries' \subseteq Entries /\ Held' \subseteq Held
           /\ Held \cap present' \subseteq Held'
           /\ recorded' = recorded /\ attempts' = attempts /\ attempts # 0
<1>1. InLoop /\ present' \subseteq present /\ attempts # 0
  BY LoopSteps DEF TypeInv, InLoop
<1>2. CASE GoesOn
  <2>1. UNCHANGED <<resources, pending, retained, resource, recorded, attempts>>
    BY <1>2 DEF GoesOn, Call, vectors, frame
  <2> QED
    BY <1>1, <2>1 DEF Entries, Held
<1>3. CASE Releases
  <2>1. /\ Entries' \subseteq Entries /\ Entries \ {resource[1]} \subseteq Entries'
        /\ recorded' = recorded /\ attempts' = attempts
    BY <1>1, <1>3, ReleaseFacts DEF Releases, Turn, frame
  <2>2. resource[1].path \notin present'
    BY <1>3 DEF Releases, Path
  <2>3. /\ \A q : q \in Held <=> \E e \in Entries : q = e.path
        /\ \A q : q \in Held' <=> \E e \in Entries' : q = e.path
    BY HeldAndEntries, HeldAndEntriesNext
  <2>4. Held' \subseteq Held
    BY <2>1, <2>3
  <2>5. Held \cap present' \subseteq Held'
    BY <2>1, <2>2, <2>3
  <2> QED
    BY <1>1, <2>1, <2>4, <2>5
<1>4. CASE Retains
  <2>1. Entries' = Entries /\ recorded' = recorded /\ attempts' = attempts
    BY <1>1, <1>4, RetainFacts DEF Retains, Turn, frame
  <2>2. Held' = Held
    BY <2>1, HeldAndEntries, HeldAndEntriesNext
  <2> QED
    BY <1>1, <2>1, <2>2
<1> QED
  BY <1>2, <1>3, <1>4, LoopSteps

\* So the ledger stays what it is.
LEMMA LoopLedger ==
    ASSUME TypeInv, OrderInv, LedgerInv, Stat \/ Delete \/ Verify
    PROVE  LedgerInv'
<1>1. present' \subseteq present
  BY LoopSteps
<1>2. /\ Entries' \subseteq Entries /\ Held \cap present' \subseteq Held'
      /\ recorded' = recorded /\ attempts' # 0
  BY LoopHeld
<1> QED
  BY <1>1, <1>2 DEF LedgerInv

\* Retaining reports, and releasing retains nothing.
LEMMA LoopReport ==
    ASSUME TypeInv, OrderInv, ReportInv, Stat \/ Delete \/ Verify
    PROVE  ReportInv'
<1>1. InLoop
  BY LoopSteps
<1>2. CASE GoesOn
  <2>1. UNCHANGED <<retained, failures, failureStart>> /\ pc' \in {"delete", "verify"}
    BY <1>2 DEF GoesOn, Call, vectors, frame
  <2> QED
    BY <1>1, <2>1 DEF ReportInv, InLoop
<1>3. CASE Releases
  <2>1. /\ failures' = failures /\ failureStart' = failureStart
        /\ pc' = "stat" => retained' = retained
        /\ pc' # "stat" => Entries' = ToSet(retained)
        /\ pc' \in {"stat", "idle", "teardown"}
    BY <1>1, <1>3, ReleaseFacts DEF Releases, Turn, frame
  <2>2. ToSet(<<>>) = {}
    BY DEF ToSet
  <2> QED
    BY <1>1, <2>1, <2>2 DEF ReportInv, InLoop
<1>4. CASE Retains
  <2>1. Len(failures') = Len(failures) + 1 /\ failureStart' = failureStart
    BY <1>1, <1>4, RetainFacts DEF Retains, Turn, frame
  <2>2. failureStart \in 0 .. Len(failures) /\ Len(failures) \in Nat
    BY DEF TypeInv
  <2> QED
    BY <2>1, <2>2 DEF ReportInv
<1> QED
  BY <1>2, <1>3, <1>4, LoopSteps

\* In a clean attempt no deletion is refused: what is below the path was
\* created after it, and everything created after it has been released.
LEMMA NothingHinders ==
    ASSUME TypeInv, OrderInv, LedgerInv, ReportInv, CleanInv, clean, InLoop
    PROVE  Deletable(Path)
<1>1. retained = <<>> /\ Closes
  BY DEF CleanInv, CleanAttemptReportsNothing, ReportInv
<1>2. /\ Entries = ToSet(pending) \cup ToSet(retained) \cup {resource[1]}
      /\ resource[1] \in TrackedResource /\ Path \in Held
  BY LoopEntries
<1> SUFFICES ASSUME ~CanDeleteTree, NEW q \in Under[Path], q \in present PROVE FALSE
  BY DEF Deletable
<1>3. q \in Held
  BY <1>1, <1>2 DEF Closes
<1>4. PICK e \in Entries : q = e.path
  BY <1>3, HeldIsEntries
<1>5. Path \in Paths
  BY <1>2 DEF Path, TrackedResource
<1>6. e # resource[1]
  BY <1>4, <1>5, PathsAssumption DEF Path
<1>7. e \in ToSet(pending)
  BY <1>1, <1>2, <1>6 DEF ToSet
<1>8. e.index < resource[1].index
  <2>1. 1 \in DOMAIN resource
    BY DEF TypeInv
  <2> QED
    BY <1>7, <2>1 DEF OrderInv, Below, ToSet
<1> QED
  BY <1>2, <1>4, <1>8 DEF LedgerInv, Path

\* Every call keeps a clean attempt clean, or it is clean no longer.
LEMMA LoopClean ==
    ASSUME TypeInv, OrderInv, LedgerInv, ReportInv, CleanInv, Stat \/ Delete \/ Verify
    PROVE  CleanInv'
<1>1. InLoop /\ Answer /\ present' \subseteq present
  BY LoopSteps
<1>2. CASE clean' = FALSE
  BY <1>2 DEF CleanInv, CleanAttemptReportsNothing
<1>3. CASE clean' /\ clean
  <2>1. Closes'
    <3>1. Closes
      BY <1>1, <1>3 DEF CleanInv
    <3> QED
      BY <1>1, <3>1, LoopHeld DEF Closes
  <2>2. CASE GoesOn
    <3>1. UNCHANGED <<resource, failures, failureStart>>
      BY <2>2 DEF GoesOn, Call, vectors, frame
    <3>2. pc' = "verify" => Path' \notin present'
      BY <1>3, <2>2, <3>1 DEF GoesOn, Call, Path
    <3> QED
      BY <1>3, <2>1, <3>1, <3>2 DEF CleanInv, CleanAttemptReportsNothing
  <2>3. CASE Releases
    <3>1. failures' = failures /\ failureStart' = failureStart /\ pc' # "verify"
      BY <1>1, <2>3, ReleaseFacts DEF Releases, Turn, frame
    <3> QED
      BY <1>3, <2>1, <3>1 DEF CleanInv, CleanAttemptReportsNothing
  <2>4. CASE Retains
    <3>1. ~Fault
      BY <1>3 DEF Fault
    <3>2. (pc = "delete" /\ ~Deletable(Path)) \/ (pc = "verify" /\ Path \in present)
      BY <2>4, <3>1 DEF Retains
    <3> QED
      BY <1>1, <1>3, <3>2, NothingHinders DEF CleanInv
  <2> QED
    BY <2>2, <2>3, <2>4, LoopSteps
<1> QED
  BY <1>1, <1>2, <1>3, AnswerTypes

\* The calls of the loop preserve the invariant.
LEMMA LoopStep ==
    ASSUME IInv, Stat \/ Delete \/ Verify
    PROVE  IInv'
BY LoopTypes, LoopLedger, LoopReport, LoopClean DEF IInv

\* Recording appends: the new entry is the youngest.
LEMMA AppendFacts ==
    ASSUME NEW s \in Seq(TrackedResource), NEW e \in TrackedResource
    PROVE  /\ Append(s, e) \in Seq(TrackedResource)
           /\ ToSet(Append(s, e)) = ToSet(s) \cup {e}
           /\ Increasing(s) /\ (\A d \in ToSet(s) : d.index < e.index)
                 => Increasing(Append(s, e))
<1> DEFINE n == Len(s)
           k == Append(s, e)
<1>1. /\ n \in Nat /\ DOMAIN s = 1 .. n
      /\ k \in Seq(TrackedResource) /\ DOMAIN k = 1 .. (n + 1)
      /\ k[n + 1] = e /\ \A i \in 1 .. n : k[i] = s[i]
  OBVIOUS
<1> HIDE DEF n, k
<1>2. ToSet(k) = ToSet(s) \cup {e}
  <2>1. \A d \in ToSet(k) : d \in ToSet(s) \cup {e}
    <3> TAKE d \in ToSet(k)
    <3>1. PICK i \in 1 .. (n + 1) : d = k[i]
      BY <1>1 DEF ToSet
    <3>2. i = n + 1 \/ i \in 1 .. n
      BY <1>1
    <3> QED
      BY <1>1, <3>1, <3>2 DEF ToSet
  <2>2. \A d \in ToSet(s) : d \in ToSet(k)
    <3> TAKE d \in ToSet(s)
    <3>1. PICK i \in 1 .. n : d = s[i]
      BY <1>1 DEF ToSet
    <3>2. i \in DOMAIN k /\ d = k[i]
      BY <1>1, <3>1
    <3> QED
      BY <3>2 DEF ToSet
  <2>3. e \in ToSet(k)
    <3>1. n + 1 \in DOMAIN k
      BY <1>1
    <3> QED
      BY <1>1, <3>1 DEF ToSet
  <2> QED
    BY <2>1, <2>2, <2>3
<1>3. ASSUME Increasing(s), \A d \in ToSet(s) : d.index < e.index PROVE Increasing(k)
  <2> SUFFICES ASSUME NEW i \in DOMAIN k, NEW j \in DOMAIN k, i < j
               PROVE  k[i].index < k[j].index
    BY DEF Increasing
  <2>1. i \in 1 .. n /\ k[i] = s[i]
    BY <1>1
  <2>2. CASE j = n + 1
    <3>1. s[i] \in ToSet(s)
      BY <1>1, <2>1 DEF ToSet
    <3> QED
      BY <1>1, <1>3, <2>1, <2>2, <3>1
  <2>3. CASE j # n + 1
    <3>1. j \in 1 .. n /\ k[j] = s[j]
      BY <1>1, <2>3
    <3> QED
      BY <1>1, <1>3, <2>1, <3>1 DEF Increasing
  <2> QED
    BY <2>2, <2>3
<1> QED
  BY <1>1, <1>2, <1>3 DEF k

\* Between attempts the ledger is all there is.
LEMMA IdleEntries ==
    ASSUME TypeInv, ~InLoop
    PROVE  Entries = ToSet(resources) /\ Held = PathsOf(resources)
<1>1. pending = <<>> /\ retained = <<>> /\ resource = <<>>
  BY DEF TypeInv
<1>2. ToSet(<<>>) = {} /\ PathsOf(<<>>) = {}
  BY DEF ToSet, PathsOf
<1> QED
  BY <1>1, <1>2 DEF Entries, Held

\* A step that leaves the ledger and the report alone, and takes only paths
\* away from the provider.
LEMMA QuietStep ==
    ASSUME IInv, present' \subseteq present, faults' \in 0 .. MaxFaults,
           UNCHANGED <<vectors, completed, failures, frame, pc, clean>>
    PROVE  IInv' /\ Held' = Held
<1>1. UNCHANGED <<resources, pending, retained, resource, completed, failures, failureStart,
                  attempts, resourceIndex, recorded, teardownCompleted, staged, pc, clean>>
  BY DEF vectors, frame
<1>2. Entries' = Entries /\ Held' = Held /\ (InLoop' <=> InLoop)
  BY <1>1 DEF Entries, Held, InLoop
<1>3. TypeInv'
  BY <1>1, <1>2 DEF IInv, TypeInv, StoreTypeOK
<1>4. OrderInv'
  BY <1>1, <1>2 DEF IInv, OrderInv
<1>5. LedgerInv'
  BY <1>1, <1>2 DEF IInv, LedgerInv
<1>6. ReportInv'
  BY <1>1, <1>2 DEF IInv, ReportInv
<1>7. CleanInv'
  BY <1>1, <1>2 DEF IInv, CleanInv, CleanAttemptReportsNothing, Closes, Path
<1> QED
  BY <1>2, <1>3, <1>4, <1>5, <1>6, <1>7 DEF IInv

\* Someone else removes a path.
LEMMA VanishStep ==
    ASSUME IInv, NEW p \in Paths, Vanish(p)
    PROVE  IInv' /\ Held' = Held
<1>1. /\ present' \subseteq present /\ UNCHANGED <<clean, faults>>
      /\ UNCHANGED <<vectors, completed, failures, frame, pc>>
  BY DEF Vanish, Conforming
<1>2. faults \in 0 .. MaxFaults
  BY DEF IInv, TypeInv, StoreTypeOK
<1> QED
  BY <1>1, <1>2, QuietStep

\* What Setup leaves alone.
SetupFrame == UNCHANGED <<pending, retained, resource, attempts, completed, failures,
                          failureStart, teardownCompleted, pc, clean, faults>>

\* A path comes into existence; if it was recorded before, it is held.
LEMMA AppearStep ==
    ASSUME IInv, NEW p \in Paths, pc = "idle", attempts = 0, Appear(p), SetupFrame,
           UNCHANGED <<resources, resourceIndex, recorded>>
    PROVE  IInv' /\ Held' = Held
<1>1. UNCHANGED <<resources, pending, retained, resource, completed, failures, failureStart,
                  attempts, resourceIndex, recorded, teardownCompleted, pc, clean, faults>>
  BY DEF SetupFrame
<1>2. Entries' = Entries /\ Held' = Held /\ ~InLoop /\ ~InLoop'
  BY <1>1 DEF Entries, Held, InLoop
<1>3. TypeInv'
  BY <1>1, <1>2 DEF IInv, TypeInv, StoreTypeOK, Appear
<1>4. OrderInv'
  BY <1>1, <1>2 DEF IInv, OrderInv
<1>5. LedgerInv'
  BY <1>1, <1>2 DEF IInv, LedgerInv
<1>6. ReportInv'
  BY <1>1, <1>2 DEF IInv, ReportInv
<1>7. CleanInv'
  BY <1>1, <1>2 DEF IInv, CleanInv, CleanAttemptReportsNothing
<1> QED
  BY <1>2, <1>3, <1>4, <1>5, <1>6, <1>7 DEF IInv

\* A check records a path, before anything below it.
Record(p) ==
    /\ p \notin recorded /\ recorded \cap Under[p] = {}
    /\ recorded' = recorded \cup {p}
    /\ resourceIndex' = resourceIndex + 1
    /\ resources' = Append(resources, [path |-> p, index |-> resourceIndex + 1])
    /\ UNCHANGED storeVars

\* context.record_created(..) adds one entry, and keeps the invariant.
LEMMA RecordStep ==
    ASSUME IInv, NEW p \in Paths, pc = "idle", attempts = 0, Record(p), SetupFrame
    PROVE  IInv' /\ Held' = Held \cup {p}
<1> DEFINE e == [path |-> p, index |-> resourceIndex + 1]
<1>0. TypeInv /\ OrderInv /\ LedgerInv /\ ReportInv /\ CleanInv /\ ~InLoop
  BY DEF IInv, InLoop
<1>1. UNCHANGED <<pending, retained, resource, completed, failures, failureStart, present,
                  staged, attempts, teardownCompleted, pc, clean, faults>>
  BY DEF SetupFrame, Record, storeVars
<1>2. /\ e \in TrackedResource /\ e.path = p /\ e.index = resourceIndex + 1
      /\ resourceIndex \in Nat /\ resourceIndex' = resourceIndex + 1
      /\ recorded' = recorded \cup {p} /\ recorded \cap Under[p] = {}
      /\ resources' = Append(resources, e) /\ resources \in Seq(TrackedResource)
  BY <1>0 DEF Record, TypeInv, TrackedResource
<1> HIDE DEF e
<1>3. \A d \in Entries : d \in TrackedResource /\ d.index \in Nat /\ d.index <= resourceIndex
  <2>1. \A d \in Entries : d \in TrackedResource /\ d.index <= resourceIndex
    BY <1>0 DEF TypeInv, OrderInv, Entries, ToSet
  <2> QED
    BY <2>1 DEF TrackedResource
<1>4. \A d \in ToSet(resources) : d.index < e.index
  BY <1>0, <1>2, <1>3, IdleEntries
<1>5. /\ resources' \in Seq(TrackedResource) /\ ToSet(resources') = ToSet(resources) \cup {e}
      /\ Increasing(resources')
  BY <1>0, <1>2, <1>4, AppendFacts DEF OrderInv
<1>6. Entries' = Entries \cup {e} /\ ~InLoop'
  BY <1>0, <1>1, <1>5 DEF Entries, InLoop
<1>7. Held' = Held \cup {p}
  BY <1>2, <1>6, HeldAndEntries, HeldAndEntriesNext
<1>8. TypeInv'
  BY <1>0, <1>1, <1>2, <1>5, <1>6 DEF TypeInv, StoreTypeOK
<1>9. OrderInv'
  <2>1. \A d \in Entries' : d.index <= resourceIndex'
    BY <1>2, <1>3, <1>6
  <2> QED
    BY <1>0, <1>1, <1>5, <2>1 DEF OrderInv, Below, TypeInv
<1>10. LedgerInv'
  <2>1. \A d \in Entries' : d.path \in recorded'
    BY <1>0, <1>2, <1>6 DEF LedgerInv
  <2>2. ASSUME NEW a \in Entries', NEW b \in Entries', a.index < b.index
        PROVE  a.path \notin Under[b.path]
    <3>1. CASE a \in Entries /\ b \in Entries
      BY <1>0, <2>2, <3>1 DEF LedgerInv
    <3>2. CASE a = e
      <4>1. b \notin Entries
        BY <1>2, <1>3, <2>2, <3>2
      <4> QED
        BY <1>2, <1>6, <2>2, <3>2, <4>1
    <3>3. CASE a \in Entries /\ b = e
      BY <1>0, <1>2, <3>3 DEF LedgerInv
    <3> QED
      BY <1>6, <3>1, <3>2, <3>3
  <2> QED
    BY <1>0, <1>1, <1>2, <1>7, <2>1, <2>2 DEF LedgerInv
<1>11. ReportInv'
  BY <1>1, <1>6 DEF ReportInv
<1>12. CleanInv'
  BY <1>0, <1>1, <1>6 DEF CleanInv, CleanAttemptReportsNothing, InLoop
<1> QED
  BY <1>7, <1>8, <1>9, <1>10, <1>11, <1>12 DEF IInv

\* What is recorded or seeded before the cleanup keeps the invariant.
LEMMA SetupStep ==
    ASSUME IInv, NEW p \in Paths, Setup(p)
    PROVE  IInv'
<1>1. pc = "idle" /\ attempts = 0 /\ SetupFrame
  BY DEF Setup, SetupFrame
<1>2. CASE Appear(p) /\ UNCHANGED <<resources, resourceIndex, recorded>>
  BY <1>1, <1>2, AppearStep
<1>3. CASE Record(p)
  BY <1>1, <1>3, RecordStep
<1> QED
  BY <1>2, <1>3 DEF Setup, Record

\* An attempt begins: the whole ledger is moved out, and nothing of it lost.
LEMMA BeginFacts ==
    ASSUME IInv, Begin
    PROVE  /\ IInv' /\ Held' = Held /\ present' = present
           /\ completed' /\ CanDelete => Held' = {}
<1> DEFINE start == Len(failures)
<1>0. TypeInv /\ OrderInv /\ LedgerInv /\ ~InLoop /\ start \in Nat
  BY DEF IInv, InLoop, Begin, TypeInv
<1>1. /\ UNCHANGED <<resourceIndex, recorded, teardownCompleted, present, staged, faults>>
      /\ attempts' = attempts + 1 /\ failureStart' = start
  BY DEF Begin, storeVars
<1>2. clean' \in BOOLEAN /\ (clean' => Closes)
  BY Zenon DEF Begin, Closes
<1>3. resources \in Seq(TrackedResource) /\ Increasing(resources) /\ Entries = ToSet(resources)
  BY <1>0, IdleEntries DEF TypeInv, OrderInv
<1>4. /\ <<>> \in Seq(TrackedResource) /\ Decreasing(<<>>) /\ Below(resources, <<>>)
      /\ ToSet(<<>>) = {}
  BY DEF Decreasing, Below, ToSet
<1>5. /\ resources' \in Seq(TrackedResource) /\ pending' \in Seq(TrackedResource)
      /\ retained' \in Seq(TrackedResource) /\ resource' \in Seq(TrackedResource)
      /\ pc' \in {"stat", "idle", "teardown"} /\ completed' \in BOOLEAN
      /\ pc' # "stat" => pending' = <<>> /\ retained' = <<>> /\ resource' = <<>>
      /\ pc' = "stat" => resources' = <<>> /\ Len(resource') = 1 /\ retained' = <<>>
      /\ Increasing(resources') /\ Increasing(pending') /\ Decreasing(retained')
      /\ Below(pending', resource') /\ Below(resource', retained')
      /\ Below(pending', retained')
      /\ Entries' = Entries /\ failures' = failures
      /\ CanDelete /\ pc' # "stat" => Entries' = {}
      /\ completed' => pc' = "idle"
  <2>1. CASE CanDelete
    <3>1. NextEntry(resources, <<>>, failures, start)
      BY <2>1 DEF Begin
    <3> HIDE DEF start
    <3>2. /\ resources' \in Seq(TrackedResource) /\ pending' \in Seq(TrackedResource)
          /\ retained' \in Seq(TrackedResource) /\ resource' \in Seq(TrackedResource)
          /\ pc' \in {"stat", "idle", "teardown"}
          /\ pc' # "stat" => pending' = <<>> /\ retained' = <<>> /\ resource' = <<>>
          /\ pc' = "stat" => resources' = <<>> /\ Len(resource') = 1 /\ retained' = <<>>
          /\ Increasing(resources') /\ Increasing(pending') /\ Decreasing(retained')
          /\ Below(pending', resource') /\ Below(resource', retained')
          /\ Below(pending', retained')
          /\ Entries' = ToSet(resources) \cup ToSet(<<>>)
          /\ pc' # "stat" => Entries' = ToSet(<<>>)
          /\ failures' = failures /\ completed' \in BOOLEAN
          /\ completed' => pc' = "idle" /\ Len(failures) = start
      BY <1>3, <1>4, <3>1, NextEntryFacts, Zenon
    <3> QED
      BY <1>3, <1>4, <3>2
  <2>2. CASE ~CanDelete
    <3>1. AfterLoop(failures, start) /\ UNCHANGED <<vectors, failures>>
      BY <2>2 DEF Begin
    <3>2. UNCHANGED <<resources, pending, retained, resource, failures>>
      BY <3>1 DEF vectors
    <3>3. /\ pc' \in {"idle", "teardown"} /\ completed' \in BOOLEAN
          /\ completed' => pc' = "idle"
      BY <3>1, Zenon DEF AfterLoop
    <3>4. Entries' = Entries
      BY <3>2 DEF Entries
    <3> QED
      BY <1>0, <2>2, <3>2, <3>3, <3>4 DEF TypeInv, OrderInv
  <2> QED
    BY <2>1, <2>2
<1>6. Held' = Held
  BY <1>5, HeldAndEntries, HeldAndEntriesNext
<1>7. InLoop' <=> pc' = "stat"
  BY <1>5 DEF InLoop
<1>8. TypeInv'
  <2>1. StoreTypeOK' /\ recorded' \subseteq Paths /\ resourceIndex' \in Nat
        /\ teardownCompleted' \in BOOLEAN
    BY <1>0, <1>1 DEF TypeInv, StoreTypeOK
  <2>2. /\ failures' \in Seq(CleanupFailure) /\ failureStart' \in 0 .. Len(failures')
        /\ attempts' \in Nat \ {0}
    BY <1>0, <1>1, <1>5 DEF TypeInv
  <2> QED
    BY <1>2, <1>5, <1>7, <2>1, <2>2 DEF TypeInv
<1>9. OrderInv'
  BY <1>0, <1>1, <1>5 DEF OrderInv
<1>10. LedgerInv'
  <2>1. attempts' # 0
    BY <1>0, <1>1 DEF TypeInv
  <2> QED
    BY <1>0, <1>1, <1>5, <1>6, <2>1 DEF LedgerInv
<1>11. ReportInv'
  BY <1>5, <1>7 DEF ReportInv
<1>12. CleanInv'
  <2>1. CASE clean' = FALSE
    BY <2>1 DEF CleanInv, CleanAttemptReportsNothing
  <2>2. CASE clean' = TRUE
    <3>1. Closes'
      BY <1>1, <1>2, <1>6, <2>2 DEF Closes
    <3>2. Len(failures') = failureStart' /\ pc' # "verify"
      BY <1>1, <1>5
    <3> QED
      BY <3>1, <3>2 DEF CleanInv, CleanAttemptReportsNothing
  <2> QED
    BY <1>2, <2>1, <2>2
<1>13. completed' /\ CanDelete => Held' = {}
  BY <1>5, HeldAndEntriesNext
<1> QED
  BY <1>1, <1>6, <1>8, <1>9, <1>10, <1>11, <1>12, <1>13 DEF IInv

\* Teardown removes paths and leaves the ledger alone.
LEMMA TeardownFacts ==
    ASSUME IInv, Teardown
    PROVE  /\ IInv' /\ Held' = Held /\ present' \subseteq present
           /\ completed' /\ CanDelete => Held' = {}
<1>0. TypeInv /\ OrderInv /\ LedgerInv /\ ReportInv /\ CleanInv /\ pc = "teardown" /\ ~InLoop
  BY DEF IInv, InLoop, Teardown
<1>1. /\ UNCHANGED <<resources, pending, retained, resource, attempts, failureStart,
                     resourceIndex, recorded, staged>>
      /\ pc' = "idle"
  BY DEF Teardown, vectors
<1>2. Entries' = Entries /\ Held' = Held /\ ~InLoop'
  BY <1>1 DEF Entries, Held, InLoop
<1>3. present' \subseteq present /\ Answer
  BY DEF Teardown, LoseSome, Answer
<1>4. clean' \in BOOLEAN /\ faults' \in 0 .. MaxFaults /\ (clean' => clean)
  BY <1>0, <1>3, AnswerTypes
<1>5. /\ failures' \in Seq(CleanupFailure) /\ Len(failures') >= Len(failures)
      /\ completed' \in BOOLEAN /\ teardownCompleted' \in BOOLEAN
      /\ completed' => Len(failures) = failureStart
      /\ clean' => failures' = failures
  <2>1. CASE /\ teardownCompleted' = TRUE /\ completed' = (Len(failures) = failureStart)
             /\ UNCHANGED failures
    <3>1. /\ completed' \in BOOLEAN
          /\ completed' => Len(failures) = failureStart
      BY <2>1, Zenon
    <3> QED
      BY <1>0, <2>1, <3>1 DEF TypeInv
  <2>2. CASE /\ failures' = Append(failures, Failure("teardown", NoPath))
             /\ completed' = FALSE /\ Fault /\ UNCHANGED teardownCompleted
    <3>1. Failure("teardown", NoPath) \in CleanupFailure
      BY DEF Failure, CleanupFailure
    <3>2. failures \in Seq(CleanupFailure) /\ teardownCompleted \in BOOLEAN
      BY <1>0 DEF TypeInv
    <3>3. failures' \in Seq(CleanupFailure) /\ Len(failures') >= Len(failures)
      BY <2>2, <3>1, <3>2
    <3> QED
      BY <2>2, <3>2, <3>3 DEF Fault
  <2> QED
    BY <2>1, <2>2 DEF Teardown
<1>6. TypeInv'
  <2>1. StoreTypeOK'
    BY <1>0, <1>1, <1>3, <1>4 DEF TypeInv, StoreTypeOK
  <2>2. failureStart' \in 0 .. Len(failures')
    BY <1>0, <1>1, <1>5 DEF TypeInv
  <2> QED
    BY <1>0, <1>1, <1>2, <1>4, <1>5, <2>1, <2>2 DEF TypeInv
<1>7. OrderInv'
  BY <1>0, <1>1, <1>2 DEF OrderInv
<1>8. LedgerInv'
  BY <1>0, <1>1, <1>2, <1>3 DEF LedgerInv
<1>9. ReportInv'
  BY <1>1, <1>2 DEF ReportInv
<1>10. CleanInv'
  BY <1>0, <1>1, <1>2, <1>4, <1>5 DEF CleanInv, CleanAttemptReportsNothing
<1>11. completed' /\ CanDelete => Held' = {}
  <2>1. completed' /\ CanDelete => Entries = {}
    BY <1>0, <1>5 DEF ReportInv
  <2> QED
    BY <1>2, <2>1, HeldAndEntries
<1> QED
  BY <1>2, <1>3, <1>6, <1>7, <1>8, <1>9, <1>10, <1>11 DEF IInv

-----------------------------------------------------------------------------
(* The theorems.                                                           *)

\* The empty ledger satisfies the invariant.
LEMMA InitHolds == Init => IInv
<1> SUFFICES ASSUME Init PROVE IInv
  OBVIOUS
<1>1. /\ resources = <<>> /\ pending = <<>> /\ retained = <<>> /\ resource = <<>>
      /\ resourceIndex = 0 /\ recorded = {} /\ attempts = 0 /\ completed = FALSE
      /\ failures = <<>> /\ failureStart = 0 /\ teardownCompleted = FALSE
      /\ pc = "idle" /\ clean = FALSE /\ present = {} /\ staged = {} /\ faults = 0
  BY DEF Init, StoreInit
<1>2. ~InLoop /\ Entries = {}
  BY <1>1 DEF InLoop, Entries, ToSet
<1>3. TypeInv
  <2>1. StoreTypeOK
    BY <1>1, FaultBoundAssumption DEF StoreTypeOK
  <2>2. /\ <<>> \in Seq(TrackedResource)
        /\ <<>> \in Seq(CleanupFailure) /\ 0 \in 0 .. Len(<<>>)
    OBVIOUS
  <2> QED
    BY <1>1, <1>2, <2>1, <2>2 DEF TypeInv
<1>4. OrderInv
  BY <1>1, <1>2 DEF OrderInv, Increasing, Decreasing, Below
<1>5. LedgerInv /\ ReportInv /\ CleanInv
  BY <1>1, <1>2 DEF LedgerInv, ReportInv, CleanInv, CleanAttemptReportsNothing
<1> QED
  BY <1>3, <1>4, <1>5 DEF IInv

\* Every step of the cleanup and of the provider keeps the invariant.
LEMMA NextHolds == IInv /\ [Next]_vars => IInv'
<1> SUFFICES ASSUME IInv, [Next]_vars PROVE IInv'
  OBVIOUS
<1>1. CASE UNCHANGED vars
  <2>1. present' \subseteq present /\ faults' = faults
    BY <1>1 DEF vars, storeVars
  <2>2. UNCHANGED <<vectors, completed, failures, frame, pc, clean>>
    BY <1>1 DEF vars, frame, storeVars
  <2>3. faults \in 0 .. MaxFaults
    BY DEF IInv, TypeInv, StoreTypeOK
  <2> QED
    BY <2>1, <2>2, <2>3, QuietStep
<1>2. ASSUME NEW p \in Paths, Setup(p) PROVE IInv'
  BY <1>2, SetupStep
<1>3. ASSUME NEW p \in Paths, Vanish(p) PROVE IInv'
  BY <1>3, VanishStep
<1>4. CASE Begin
  BY <1>4, BeginFacts
<1>5. CASE Stat \/ Delete \/ Verify
  BY <1>5, LoopStep
<1>6. CASE Teardown
  BY <1>6, TeardownFacts
<1> QED
  BY <1>1, <1>2, <1>3, <1>4, <1>5, <1>6 DEF Next

\* The inductive invariant holds in every reachable state.
LEMMA InvariantHolds == Spec => []IInv
BY InitHolds, NextHolds, PTL DEF Spec

\* Moving the ledger out of the context, popping it, and sorting back what was
\* retained (ContractContext::cleanup) loses no path that still exists.
THEOREM NothingDroppedTheorem == Spec => []NothingDropped
<1>1. IInv => NothingDropped
  <2> SUFFICES ASSUME IInv PROVE NothingDropped
    OBVIOUS
  <2>1. pc \in {"idle", "teardown"} => Held = PathsOf(resources)
    BY IdleEntries DEF IInv, InLoop
  <2> QED
    BY <2>1 DEF IInv, LedgerInv, NothingDropped
<1> QED
  BY <1>1, InvariantHolds, PTL

\* An attempt of finish_capture without a provider fault reports nothing, the
\* retry over entries that an earlier attempt retained included: the sort
\* restores creation order, so that the next attempt deletes children first.
THEOREM CleanAttemptTheorem == Spec => []CleanAttemptReportsNothing
<1>1. IInv => CleanAttemptReportsNothing
  BY DEF IInv, CleanInv
<1> QED
  BY <1>1, InvariantHolds, PTL

\* A completed attempt leaves nothing held.
LEMMA LoopCompletes ==
    ASSUME IInv, Stat \/ Delete \/ Verify
    PROVE  completed' \in BOOLEAN /\ (completed' /\ ~completed /\ CanDelete => Held' = {})
<1>1. InLoop /\ TypeInv /\ OrderInv /\ ReportInv
  BY LoopSteps DEF IInv
<1>2. CASE GoesOn
  <2>1. completed' = completed
    BY <1>2 DEF GoesOn, Call
  <2> QED
    BY <1>1, <2>1 DEF TypeInv
<1>3. CASE Releases
  <2>1. /\ completed' \in BOOLEAN /\ failures' = failures /\ failureStart' = failureStart
        /\ completed' => pc' = "idle" /\ Len(failures') = failureStart'
        /\ pc' # "stat" => Entries' = ToSet(retained)
    BY <1>1, <1>3, ReleaseFacts DEF Releases, Turn, frame
  <2>2. completed' => Entries' = {}
    BY <1>1, <2>1 DEF ReportInv, ToSet
  <2> QED
    BY <2>1, <2>2, HeldAndEntriesNext
<1>4. CASE Retains
  <2>1. /\ completed' \in BOOLEAN /\ failureStart' = failureStart
        /\ Len(failures') = Len(failures) + 1
        /\ completed' => Len(failures') = failureStart'
    BY <1>1, <1>4, RetainFacts DEF Retains, Turn, frame
  <2>2. failureStart \in 0 .. Len(failures) /\ Len(failures) \in Nat
    BY <1>1 DEF TypeInv
  <2> QED
    BY <2>1, <2>2
<1> QED
  BY <1>2, <1>3, <1>4, LoopSteps

\* A step that removes paths and drops only absent ones is one of the ledger's.
LEMMA ProgressFacts ==
    ASSUME TypeInv, present' \subseteq present, Held' \subseteq Held,
           Held \cap present' \subseteq Held', completed' \in BOOLEAN,
           ~completed /\ completed' /\ CanDelete => Held' = {}
    PROVE  Ledger!LedgerNext
<1> DEFINE gone == present \ present'
           dropped == Held \ Held'
<1>1. present \subseteq Paths /\ Held \subseteq Paths
  <2>1. \A e \in Entries : e \in TrackedResource
    BY DEF TypeInv, Entries, ToSet
  <2>2. \A e \in Entries : e.path \in Paths
    BY <2>1 DEF TrackedResource
  <2> QED
    BY <2>2, HeldAndEntries DEF TypeInv, StoreTypeOK
<1>2. gone \in SUBSET Paths /\ dropped \in SUBSET Paths
  BY <1>1
<1>3. Ledger!Progress(gone, dropped)
  <2>1. present' = present \ gone
    OBVIOUS
  <2>2. dropped \cap present' = {} /\ Held' = Held \ dropped
    OBVIOUS
  <2> QED
    BY <2>1, <2>2, Zenon DEF Ledger!Progress
<1> QED
  BY <1>2, <1>3 DEF Ledger!LedgerNext

\* Synchronous cleanup implements the abstract ledger: a path leaves it only
\* while it does not exist, and an attempt is reported complete only over an
\* empty one (finish_capture, cleanup).
THEOREM ImplementsLedger == Spec => KeepsLedger
<1>1. Init => Ledger!LedgerInit
  BY DEF Init, StoreInit, Ledger!LedgerInit, Held, PathsOf
<1>2. IInv /\ [Next]_vars => [Ledger!LedgerNext]_<<Held, present, completed>>
  <2> SUFFICES ASSUME IInv, [Next]_vars
               PROVE  Ledger!LedgerNext \/ UNCHANGED <<Held, present, completed>>
    OBVIOUS
  <2>0. TypeInv /\ OrderInv /\ completed \in BOOLEAN
    BY DEF IInv, TypeInv
  <2>1. CASE UNCHANGED vars
    BY <2>1 DEF vars, vectors, storeVars, Held
  <2>2. ASSUME NEW p \in Paths, Setup(p)
        PROVE  Ledger!LedgerNext \/ UNCHANGED <<Held, present, completed>>
    <3>1. pc = "idle" /\ attempts = 0 /\ SetupFrame /\ completed' = completed
      BY <2>2 DEF Setup, SetupFrame
    <3>2. CASE Appear(p) /\ UNCHANGED <<resources, resourceIndex, recorded>>
      <4>1. Held' = Held /\ present' = present \cup {p}
        BY <3>1, <3>2, AppearStep DEF Appear
      <4> QED
        BY <3>1, <4>1 DEF Ledger!LedgerNext, Ledger!Create
    <3>3. CASE Record(p)
      <4>1. Held' = Held \cup {p} /\ present' = present
        BY <3>1, <3>3, RecordStep DEF Record, storeVars
      <4> QED
        BY <3>1, <4>1 DEF Ledger!LedgerNext, Ledger!Track
    <3> QED
      BY <2>2, <3>2, <3>3 DEF Setup, Record
  <2>3. ASSUME NEW p \in Paths, Vanish(p) PROVE Ledger!LedgerNext
    <3>1. Held' = Held
      BY <2>3, VanishStep
    <3>2. present' \subseteq present /\ completed' = completed
      BY <2>3 DEF Vanish
    <3> QED
      BY <2>0, <3>1, <3>2, ProgressFacts
  <2>4. CASE Begin
    <3>1. completed' \in BOOLEAN
      BY <2>4, BeginFacts DEF IInv, TypeInv
    <3> QED
      BY <2>0, <2>4, <3>1, BeginFacts, ProgressFacts
  <2>5. CASE Stat \/ Delete \/ Verify
    <3>1. present' \subseteq present
      BY <2>5, LoopSteps
    <3>2. Held' \subseteq Held /\ Held \cap present' \subseteq Held'
      BY <2>0, <2>5, LoopHeld
    <3> QED
      BY <2>0, <2>5, <3>1, <3>2, LoopCompletes, ProgressFacts
  <2>6. CASE Teardown
    <3>1. completed' \in BOOLEAN
      BY <2>6, TeardownFacts DEF IInv, TypeInv
    <3> QED
      BY <2>0, <2>6, <3>1, TeardownFacts, ProgressFacts
  <2> QED
    BY <2>1, <2>2, <2>3, <2>4, <2>5, <2>6 DEF Next
<1> QED
  BY <1>1, <1>2, InvariantHolds, PTL DEF Spec, KeepsLedger, Ledger!LedgerSpec

=============================================================================
