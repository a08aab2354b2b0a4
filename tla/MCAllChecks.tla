----------------------------- MODULE MCAllChecks -----------------------------
(* Everything about a single check that one configuration can explore.  A   *)
(* behaviour is one of: a check of MCChecks, a limit probe or a listing     *)
(* (ListingChecks), the default preparation of a case (FixtureCases).       *)
(* They do not interact: while one runs, the others are at an end.          *)
EXTENDS MCChecks, ListingChecks, FixtureCases

allVars == <<vars, queryVars, caseVars>>

\* A check without steps.
ProgramEnded ==
    /\ check = Named([check |-> "List", mode |-> "sync", has |-> {}], Outright("Passed"))
    /\ provider = "conforming" /\ fixture = "full"
    /\ section = 1 /\ step = 1
    /\ world = [r \in Roles |-> "absent"]
    /\ recorded = {} /\ open = {} /\ held = {} /\ unreported = {}
    /\ claim = "Indeterminate" /\ content = FALSE
    /\ verdict = "Passed" /\ entry = "Passed" /\ completions = 1
    /\ phase = "done"

\* A listing of nothing.
QueryEnded ==
    /\ checkId = "List" /\ declared = NoLimits /\ actual = NoLimits
    /\ semantics = "Hierarchical" /\ absolute = FALSE
    /\ stage = "done" /\ probe = NoProbe /\ outcome = "Passed"
    /\ stream = "conforming" /\ metadata = FALSE
    /\ expected = <<>> /\ listed = <<>> /\ bare = FALSE

\* A preparation whose first hook is missing.
CaseEnded ==
    /\ request = [check |-> "WriteReplace", mode |-> "sync"]
    /\ limit = 0 /\ supports = {}
    /\ calls = Case.calls
    /\ contents = [r \in CaseRoles |-> Absent]
    /\ answer = "Unavailable"

AllInit ==
    \/ Init /\ QueryEnded /\ CaseEnded
    \/ QueryInit /\ ProgramEnded /\ CaseEnded
    \/ CaseInit /\ ProgramEnded /\ QueryEnded

AllNext ==
    \/ Next /\ UNCHANGED <<queryVars, caseVars>>
    \/ QueryNext /\ UNCHANGED <<vars, caseVars>>
    \/ CaseNext /\ UNCHANGED <<vars, queryVars>>

\* The fairness is that of QuerySpec.
AllSpec ==
    /\ AllInit /\ [][AllNext]_allVars
    /\ WF_allVars(QueryNext /\ UNCHANGED <<vars, caseVars>>)
=============================================================================
