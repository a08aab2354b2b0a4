------------------------------- MODULE Sorting -------------------------------
(***************************************************************************)
(* The sorts of the standard library that the suite uses (external):       *)
(* Vec::sort and sort_by_key.  Which of two entries that compare equal     *)
(* comes first makes no difference where they are used: keys are unique or *)
(* equal entries are the same.                                             *)
(***************************************************************************)
EXTENDS Naturals, Functions

\* The lists with the entries of s, each as often as in s.
Arrangements(s) ==
    {[i \in DOMAIN s |-> s[f[i]]] : f \in Bijection(DOMAIN s, DOMAIN s)}

\* The one in which no entry comes before a smaller one.
SortBy(s, Less(_, _)) ==
    CHOOSE t \in Arrangements(s) : \A i, j \in DOMAIN s : i < j => ~Less(t[j], t[i])
=============================================================================
