----------------------------- MODULE ListingChecks -----------------------------
(***************************************************************************)
(* How the list checks collect a directory stream and compare it with what *)
(* the fixture prepared (list.rs, namespace.rs), beside the checks of      *)
(* LimitProbes: a behaviour is one check, a probe or a listing.  Entries   *)
(* are numbers in the order of their path texts.                           *)
(*                                                                         *)
(* A "conforming" stream yields the prepared entries in any order and      *)
(* ends; an "arbitrary" one yields any entry at any time, for ever if the  *)
(* check lets it, or fails.  Requested metadata may be missing.            *)
(***************************************************************************)
EXTENDS LimitProbes, SequencesExt, Sorting

CONSTANTS Entries,     \* the paths of the namespace
          MaxExpected  \* bound: the prepared entries

ASSUME EntriesAssumption == Entries \subseteq Nat /\ MaxExpected \in Nat

VARIABLES
    stream,    \* "conforming" or "arbitrary"
    metadata,  \* whether metadata was requested
    expected,  \* the prepared entries, in the order of preparation
    listed,    \* the collected entries
    bare       \* history: an entry without metadata was yielded

listing == <<stream, metadata, expected, listed, bare>>
queryVars == <<probeVars, listing>>

NoLimits == [path |-> Unlimited, component |-> Unlimited, bytes |-> Unlimited]

\* Prepared entries are distinct; a namespace snapshot may repeat one.
ListInit ==
    /\ checkId \in {"List", "FlatScope"}
    /\ declared = NoLimits /\ actual = NoLimits
    /\ semantics = "Hierarchical" /\ absolute = FALSE
    /\ stage = "collect" /\ probe = NoProbe /\ outcome = "none"
    /\ stream \in {"conforming", "arbitrary"} /\ metadata \in BOOLEAN
    /\ expected \in UNION {[1 .. n -> Entries] : n \in 0 .. MaxExpected}
    /\ checkId = "List" => IsInjective(expected)
    /\ listed = <<>> /\ bare = FALSE

Times(s, e) == Cardinality({i \in DOMAIN s : s[i] = e})

Unreliable == stream = "arbitrary"

\* What the stream may yield next.
Yields(e) == Unreliable \/ Times(listed, e) < Times(expected, e)

\* Mutant: the latest entries are kept and the length is not compared.
CollectLatest(e) ==
    /\ listed' = LET all == Append(listed, e)
                 IN IF Len(all) > Len(expected) + 1 THEN Tail(all) ELSE all
    /\ UNCHANGED <<stage, probe, outcome>>

\* actual.push, then the length is compared.
Collect(e) ==
    /\ listed' = Append(listed, e)
    /\ IF Len(listed') <= Len(expected) THEN UNCHANGED <<stage, probe, outcome>>
                                       ELSE End("Failed")

NextEntry ==
    /\ stage = "collect"
    /\ \E e \in Entries :
          /\ Yields(e)
          /\ \/ Collect(e) /\ UNCHANGED bare
             \/ /\ Unreliable /\ bare' = TRUE
                /\ \/ metadata /\ End("Failed") /\ UNCHANGED listed
                   \/ ~metadata /\ Collect(e)
    /\ UNCHANGED <<checkId, declared, actual, semantics, absolute, stream, metadata, expected>>

StreamError ==
    /\ stage = "collect" /\ Unreliable
    /\ End("Failed")
    /\ UNCHANGED <<checkId, declared, actual, semantics, absolute, listing>>

Sorted(s) == SortBy(s, LAMBDA a, b : a < b)

\* Mutant: two listings of the same entries count as equal.
SameListingAsSets(s, t) == ToSet(s) = ToSet(t)
SameListing(s, t) == Sorted(s) = Sorted(t)

\* The stream ends: both sides are sorted and compared.
StreamEnds ==
    /\ stage = "collect"
    /\ Unreliable \/ Len(listed) = Len(expected)
    /\ End(IF SameListing(listed, expected) THEN "Passed" ELSE "Failed")
    /\ UNCHANGED <<checkId, declared, actual, semantics, absolute, listing>>

-----------------------------------------------------------------------------
(* A probe or a listing.                                                   *)

QueryInit ==
    \/ ListInit
    \/ /\ ProbeInit
       /\ stream = "conforming" /\ metadata = FALSE
       /\ expected = <<>> /\ listed = <<>> /\ bare = FALSE

QueryNext == NextEntry \/ StreamError \/ StreamEnds \/ (ProbeNext /\ UNCHANGED listing)

\* The check goes on asking while the provider answers.
QuerySpec == QueryInit /\ [][QueryNext]_queryVars /\ WF_queryVars(QueryNext)

-----------------------------------------------------------------------------
(* Properties.                                                             *)

\* The verdict on a listing is right: it passes when every prepared entry was
\* listed as often as it was prepared and nothing else, with metadata where it
\* was requested; a conforming listing passes in whatever order it comes.
ListingIsJudged ==
    checkId \in {"List", "FlatScope"} =>
       /\ outcome = "Passed" =>
             /\ \A e \in Entries : Times(listed, e) = Times(expected, e)
             /\ metadata => ~bare
       /\ stream = "conforming" => outcome # "Failed"

\* Not even an endless stream keeps the check going, or makes it collect more
\* than one entry too many (doc/user_guide.md, "Returned entries are bounded").
CollectionEnds == <>(outcome # "none" /\ Len(listed) <= Len(expected) + 1)
=============================================================================
