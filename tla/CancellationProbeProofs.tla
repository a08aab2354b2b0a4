----------------------- MODULE CancellationProbeProofs -----------------------
(***************************************************************************)
(* Proofs about the cancellation checks: the gate, the writer and the      *)
(* verdict, for both operations, every stage and every provider.           *)
(***************************************************************************)
EXTENDS CancellationProbe, TLAPS

Unarmed == {"prepare"}
Arming == {"observe", "admit", "unpolled"}
Gated == {"poll", "drop"}
Settling == {"repeat", "recover", "abort", "verify", "source", "pass"}

\* Where the check is, and what the guard and the execution are there.
PlaceInv ==
    /\ kind \in {"write", "copy"}
    /\ conforming \in BOOLEAN
    /\ pc \in Unarmed \cup Arming \cup Gated \cup Settling \cup {"disarm", "inspect", "end"}
    /\ ended # "no" <=> pc = "end"
    /\ outcome # "none" => pc = "end"
    /\ pc = "pass" => kind = "write"
    /\ target \in Contents

GuardInv ==
    /\ armed \in BOOLEAN
    /\ disarms \in {0, 1} /\ reports \in {0, 1}
    /\ armed => disarms = 0
    /\ disarms = 0 => reports = 0
    /\ pc \in Unarmed => ~armed /\ disarms = 0 /\ execution = "none"
    /\ pc \in Arming => armed /\ execution = "none"
    /\ pc \in Gated => armed /\ execution = "live"
    /\ pc = "disarm" => armed /\ execution = "dropped"
    /\ pc \in Settling \cup {"inspect"} => ~armed /\ execution = "dropped"
    /\ pc = "end" => ~armed /\ execution # "live"

\* The claim an abort made of the target is true, and was seen to be.
ClaimKept ==
    /\ claimed = "NotPublished" => target = before
    /\ claimed = "Published" => target # "absent"

ClaimSeen ==
    /\ claimed = "NotPublished" => seen = before
    /\ claimed = "Published" => seen \in Contents \ {"absent"}

\* A claim is made once the writer is settled; a check that is past its
\* recovery has no open writer and has seen what was claimed.
WriterInv ==
    /\ claimed # "none" => session = "settled"
    /\ pc \notin {"verify", "source", "pass", "end"} => claimed = "none"
    /\ pc \in {"verify", "source", "pass"} => session # "open"
    /\ pc \in {"source", "pass"} => ClaimSeen
    /\ pc \in Settling => reports = 0
    /\ pc = "end" /\ ended = "returned" /\ execution # "none" /\ session = "open" =>
          holder = "failure"

\* What a provider and a fixture that keep their promises have done.
PromiseInv ==
    conforming =>
       /\ reports = 0 /\ intact
       /\ pc \in Unarmed \cup Arming => session = "none"
       /\ pc \in {"drop", "disarm", "inspect"} => reached = "stage" /\ RecoveryMatches
       /\ pc = "verify" => ClaimKept
       /\ ended = "returned" => outcome # "Failed"

PassInv == outcome = "Passed" => ClaimSeen /\ (kind = "copy" => intact)
                                  /\ reports = 0 /\ session # "open"

IInv == PlaceInv /\ GuardInv /\ WriterInv /\ PromiseInv /\ PassInv

-----------------------------------------------------------------------------
(* Every step keeps it.                                                    *)

\* The invariant holds when a check is entered.
LEMMA InitEstablishes == Init => IInv
BY DEF Init, Stages, IInv, PlaceInv, GuardInv, WriterInv, PromiseInv, PassInv, ClaimKept,
       ClaimSeen, Contents, Unarmed, Arming, Gated, Settling

\* ProbeDisarmGuard::disarm leaves a guard that is not armed any more.
LEMMA DisarmFacts ==
    ASSUME GuardInv, DisarmGuard
    PROVE  /\ armed' = FALSE /\ disarms' \in {0, 1} /\ reports' \in {0, 1}
           /\ disarms' = 0 => reports' = 0
           /\ ~armed => reports' = reports
           /\ conforming => reports' = reports
BY DEF GuardInv, DisarmGuard, guardVars, Fault

\* A scope that is left lifts the gate behind the execution, and changes
\* nothing else of what the invariant is about.
LEMMA UnwindFacts ==
    ASSUME IInv, NEW how, how # "no", Unwind(how), pc # "end"
    PROVE  /\ pc' = "end" /\ ended' = how /\ PlaceInv' /\ GuardInv'
           /\ UNCHANGED <<claimed, seen, session, before, target, intact, kind, conforming>>
           /\ execution' = "none" <=> execution = "none"
           /\ ~armed => reports' = reports
           /\ conforming => reports' = reports
<1> USE DEF IInv, PlaceInv, GuardInv, Unarmed, Arming, Gated, Settling
<1>1. /\ pc' = "end" /\ ended' = how
      /\ UNCHANGED <<claimed, seen, session, before, target, intact, kind, conforming>>
      /\ execution' = IF execution = "live" THEN "dropped" ELSE execution
      /\ DisarmGuard
  BY DEF Unwind, providerVars
<1> QED
  BY <1>1, DisarmFacts

\* A failure, which a conforming provider does not cause; where a writer is
\* open the failure keeps it.
LEMMA FailKeeps ==
    ASSUME IInv, pc # "end", ~conforming, Fail \/ FailRetained,
           Fail => execution = "none" \/ session # "open"
    PROVE  IInv'
<1>1. /\ Unwind("returned") /\ outcome' = "Failed"
      /\ FailRetained => holder' = "failure"
  BY DEF Fail, FailRetained, Return
<1>2. /\ pc' = "end" /\ ended' = "returned" /\ PlaceInv' /\ GuardInv'
      /\ UNCHANGED <<claimed, seen, session, before, target, intact, kind, conforming>>
      /\ execution' = "none" <=> execution = "none"
  BY <1>1, UnwindFacts
<1>3. WriterInv' /\ PromiseInv' /\ PassInv'
  BY <1>1, <1>2 DEF IInv, WriterInv, PromiseInv, PassInv, Settling
<1> QED
  BY <1>2, <1>3 DEF IInv

\* An outcome that is no failure.
LEMMA ReturnKeeps ==
    ASSUME IInv, pc # "end", NEW result, result # "Failed", Return(result, "nobody"),
           session # "open" \/ execution = "none",
           result = "Passed" => /\ ClaimSeen
                                /\ kind = "copy" => intact
                                /\ reports = 0 /\ session # "open" /\ ~armed
    PROVE  IInv'
<1>1. Unwind("returned") /\ outcome' = result
  BY DEF Return
<1>2. /\ pc' = "end" /\ ended' = "returned" /\ PlaceInv' /\ GuardInv'
      /\ UNCHANGED <<claimed, seen, session, before, target, intact, kind, conforming>>
      /\ execution' = "none" <=> execution = "none"
      /\ ~armed => reports' = reports
      /\ conforming => reports' = reports
  BY <1>1, UnwindFacts
<1>3. WriterInv' /\ PromiseInv' /\ PassInv'
  BY <1>1, <1>2 DEF IInv, WriterInv, PromiseInv, PassInv, ClaimKept, ClaimSeen,
     Contents, Settling, Unarmed, Arming
<1> QED
  BY <1>2, <1>3 DEF IInv

\* Every step of the check, of the provider and of the caller keeps the
\* invariant.
LEMMA NextPreserves == ASSUME IInv, [Next]_vars PROVE IInv'
<1> USE DEF Unarmed, Arming, Gated, Settling, Fault, ClaimKept, ClaimSeen, Contents
<1>1. CASE Prepare
  <2>1. CASE Fail \/ FailRetained
    BY <1>1, <2>1, FailKeeps
       DEF Prepare, Fail, FailRetained, Return, Unwind, Advance, IInv, PlaceInv, GuardInv,
           WriterInv, PromiseInv, PassInv, RecoveryMatches, HasWriter
  <2>2. ASSUME NEW result \in {"NotApplicable", "SkippedOptional", "Passed"},
               Return(result, "nobody")
        PROVE  IInv'
    BY <1>1, <2>2, ReturnKeeps
       DEF Prepare, Fail, Return, Advance, IInv, PlaceInv, GuardInv, WriterInv, PromiseInv,
           PassInv, RecoveryMatches, HasWriter
  <2>3. CASE pc' # "end"
    <3>1. PlaceInv' /\ GuardInv'
      BY <1>1, <2>3 DEF Prepare, Fail, Return, Unwind, Advance, guardVars, providerVars,
         IInv, PlaceInv, GuardInv
    <3>2. WriterInv' /\ PassInv'
      BY <1>1, <2>3 DEF Prepare, Fail, Return, Unwind, Advance, guardVars, providerVars,
         IInv, PlaceInv, WriterInv, PassInv
    <3>3. PromiseInv'
      BY <1>1, <2>3 DEF Prepare, Fail, Return, Unwind, Advance, guardVars, providerVars,
         IInv, PlaceInv, PromiseInv
    <3> QED
      BY <3>1, <3>2, <3>3 DEF IInv
  <2> QED
    BY <1>1, <2>1, <2>2, <2>3 DEF Prepare, Advance
<1>2. CASE ObserveBefore
  <2>1. CASE Fail \/ FailRetained
    BY <1>2, <2>1, FailKeeps
       DEF ObserveBefore, Fail, FailRetained, Return, Unwind, Advance, IInv, PlaceInv,
           GuardInv, WriterInv, PromiseInv, PassInv, RecoveryMatches, HasWriter
  <2>2. CASE pc' # "end"
    <3>1. PlaceInv' /\ GuardInv'
      BY <1>2, <2>2 DEF ObserveBefore, Fail, Return, Unwind, Advance, guardVars, providerVars,
         IInv, PlaceInv, GuardInv
    <3>2. WriterInv' /\ PassInv'
      BY <1>2, <2>2 DEF ObserveBefore, Fail, Return, Unwind, Advance, guardVars, providerVars,
         IInv, PlaceInv, WriterInv, PassInv
    <3>3. PromiseInv'
      BY <1>2, <2>2 DEF ObserveBefore, Fail, Return, Unwind, Advance, guardVars, providerVars,
         IInv, PlaceInv, PromiseInv
    <3> QED
      BY <3>1, <3>2, <3>3 DEF IInv
  <2> QED
    BY <1>2, <2>1, <2>2 DEF ObserveBefore, Advance
<1>3. CASE Admit
  <2>1. CASE Fail \/ FailRetained
    BY <1>3, <2>1, FailKeeps
       DEF Admit, Fail, FailRetained, Return, Unwind, Advance, IInv, PlaceInv, GuardInv,
           WriterInv, PromiseInv, PassInv, RecoveryMatches, HasWriter
  <2>2. CASE pc' # "end"
    <3>1. PlaceInv' /\ GuardInv'
      BY <1>3, <2>2 DEF Admit, Fail, Return, Unwind, Advance, guardVars, providerVars,
         IInv, PlaceInv, GuardInv
    <3>2. WriterInv' /\ PassInv'
      BY <1>3, <2>2 DEF Admit, Fail, Return, Unwind, Advance, guardVars, providerVars,
         IInv, PlaceInv, WriterInv, PassInv
    <3>3. PromiseInv'
      BY <1>3, <2>2 DEF Admit, Fail, Return, Unwind, Advance, guardVars, providerVars,
         IInv, PlaceInv, PromiseInv
    <3> QED
      BY <3>1, <3>2, <3>3 DEF IInv
  <2> QED
    BY <1>3, <2>1, <2>2 DEF Admit, Advance
<1>4. CASE VerifyUnpolled
  <2>1. CASE Fail \/ FailRetained
    BY <1>4, <2>1, FailKeeps
       DEF VerifyUnpolled, Fail, FailRetained, Return, Unwind, Advance, IInv, PlaceInv,
           GuardInv, WriterInv, PromiseInv, PassInv, RecoveryMatches, HasWriter
  <2>2. CASE pc' # "end"
    <3>1. PlaceInv' /\ GuardInv'
      BY <1>4, <2>2 DEF VerifyUnpolled, Fail, Return, Unwind, Advance, guardVars, providerVars,
         IInv, PlaceInv, GuardInv
    <3>2. WriterInv' /\ PassInv'
      BY <1>4, <2>2 DEF VerifyUnpolled, Fail, Return, Unwind, Advance, guardVars, providerVars,
         IInv, PlaceInv, WriterInv, PassInv
    <3>3. PromiseInv'
      BY <1>4, <2>2 DEF VerifyUnpolled, Fail, Return, Unwind, Advance, guardVars, providerVars,
         IInv, PlaceInv, PromiseInv
    <3> QED
      BY <3>1, <3>2, <3>3 DEF IInv
  <2> QED
    BY <1>4, <2>1, <2>2 DEF VerifyUnpolled, Advance
<1>5. CASE Poll
  BY <1>5
     DEF Poll, Advance, DisarmGuard, checkVars, guardVars, providerVars, IInv, PlaceInv,
         GuardInv, WriterInv, PromiseInv, PassInv, RecoveryMatches, HasWriter
<1>6. CASE DropExecution
  BY <1>6
     DEF DropExecution, Advance, DisarmGuard, checkVars, guardVars, providerVars, IInv,
         PlaceInv, GuardInv, WriterInv, PromiseInv, PassInv, RecoveryMatches,
         HasWriter
<1>7. CASE Disarm
  <2>1. PlaceInv' /\ GuardInv'
    BY <1>7, DisarmFacts DEF Disarm, Advance, providerVars, IInv, PlaceInv, GuardInv
  <2>2. WriterInv' /\ PassInv'
    BY <1>7 DEF Disarm, Advance, providerVars, IInv, PlaceInv, WriterInv, PassInv
  <2>3. PromiseInv'
    BY <1>7, DisarmFacts DEF Disarm, Advance, providerVars, IInv, PlaceInv, PromiseInv,
       RecoveryMatches, HasWriter
  <2> QED
    BY <2>1, <2>2, <2>3 DEF IInv
<1>8. CASE Inspect
  <2>1. CASE Fail \/ FailRetained
    BY <1>8, <2>1, FailKeeps
       DEF Inspect, Fail, FailRetained, Return, Unwind, Advance, IInv, PlaceInv, GuardInv,
           WriterInv, PromiseInv, PassInv, RecoveryMatches, HasWriter
  <2>2. CASE pc' # "end"
    BY <1>8, <2>2 DEF Inspect, Fail, FailRetained, Return, Unwind, Advance, Honest, guardVars,
       providerVars, IInv, PlaceInv, GuardInv, WriterInv,
       PromiseInv, PassInv, RecoveryMatches, HasWriter
  <2> QED
    BY <1>8, <2>1, <2>2 DEF Inspect, Advance
<1>9. CASE Repeat
  <2>1. CASE Fail \/ FailRetained
    BY <1>9, <2>1, FailKeeps
       DEF Repeat, Fail, FailRetained, Return, Unwind, Advance, IInv, PlaceInv, GuardInv,
           WriterInv, PromiseInv, PassInv, RecoveryMatches, HasWriter
  <2>2. CASE pc' # "end"
    BY <1>9, <2>2 DEF Repeat, Fail, FailRetained, Return, Unwind, Advance, Honest, guardVars,
       providerVars, IInv, PlaceInv, GuardInv, WriterInv,
       PromiseInv, PassInv, RecoveryMatches, HasWriter
  <2> QED
    BY <1>9, <2>1, <2>2 DEF Repeat, Advance
<1>10. CASE TakeRecovery
  <2>1. CASE Fail \/ FailRetained
    BY <1>10, <2>1, FailKeeps
       DEF TakeRecovery, Fail, FailRetained, Return, Unwind, Advance, IInv, PlaceInv,
           GuardInv, WriterInv, PromiseInv, PassInv, RecoveryMatches, HasWriter
  <2>2. CASE pc' # "end"
    BY <1>10, <2>2
       DEF TakeRecovery, Fail, FailRetained, Return, Unwind, Advance, Honest, guardVars,
           providerVars, IInv, PlaceInv, GuardInv, WriterInv, PromiseInv, PassInv,
           RecoveryMatches, HasWriter
  <2> QED
    BY <1>10, <2>1, <2>2 DEF TakeRecovery, Advance
<1>11. CASE Abort
  <2>1. CASE Fail \/ FailRetained
    BY <1>11, <2>1, FailKeeps
       DEF Abort, Fail, FailRetained, Return, Unwind, Advance, IInv, PlaceInv, GuardInv,
           WriterInv, PromiseInv, PassInv, RecoveryMatches, HasWriter
  <2>2. CASE pc' # "end"
    BY <1>11, <2>2 DEF Abort, Fail, FailRetained, Return, Unwind, Advance, Honest, guardVars,
       providerVars, IInv, PlaceInv, GuardInv, WriterInv,
       PromiseInv, PassInv, RecoveryMatches, HasWriter
  <2> QED
    BY <1>11, <2>1, <2>2 DEF Abort, Advance
<1>12. CASE ObserveAfter
  <2>1. CASE Fail \/ FailRetained
    BY <1>12, <2>1, FailKeeps
       DEF ObserveAfter, Fail, FailRetained, Return, Unwind, Advance, IInv, PlaceInv,
           GuardInv, WriterInv, PromiseInv, PassInv, RecoveryMatches, HasWriter
  <2>2. CASE pc' # "end"
    BY <1>12, <2>2
       DEF ObserveAfter, Observes, Fail, FailRetained, Return, Unwind, Advance, guardVars,
           providerVars, IInv, PlaceInv, GuardInv, WriterInv, PromiseInv, PassInv,
           RecoveryMatches, HasWriter
  <2> QED
    BY <1>12, <2>1, <2>2 DEF ObserveAfter, Advance
<1>13. CASE ObserveSource
  <2>1. CASE Fail \/ FailRetained
    BY <1>13, <2>1, FailKeeps
       DEF ObserveSource, Fail, FailRetained, Return, Unwind, Advance, IInv, PlaceInv,
           GuardInv, WriterInv, PromiseInv, PassInv, RecoveryMatches, HasWriter
  <2>2. ASSUME NEW result \in {"NotApplicable", "SkippedOptional", "Passed"},
               Return(result, "nobody")
        PROVE  IInv'
    BY <1>13, <2>2, ReturnKeeps
       DEF ObserveSource, Fail, Return, Advance, IInv, PlaceInv, GuardInv, WriterInv,
           PromiseInv, PassInv, RecoveryMatches, HasWriter
  <2>3. CASE pc' # "end"
    BY <1>13, <2>3
       DEF ObserveSource, Fail, FailRetained, Return, Unwind, Advance, Honest, guardVars,
           providerVars, IInv, PlaceInv, GuardInv, WriterInv, PromiseInv, PassInv,
           RecoveryMatches, HasWriter
  <2> QED
    BY <1>13, <2>1, <2>2, <2>3 DEF ObserveSource, Advance
<1>14. CASE Pass
  <2>1. ASSUME NEW result \in {"NotApplicable", "SkippedOptional", "Passed"},
               Return(result, "nobody")
        PROVE  IInv'
    BY <1>14, <2>1, ReturnKeeps
       DEF Pass, Fail, Return, Advance, IInv, PlaceInv, GuardInv, WriterInv, PromiseInv,
           PassInv, RecoveryMatches, HasWriter
  <2>2. CASE pc' # "end"
    BY <1>14, <2>2 DEF Pass, Fail, FailRetained, Return, Unwind, Advance, Honest, guardVars,
       providerVars, IInv, PlaceInv, GuardInv, WriterInv,
       PromiseInv, PassInv, RecoveryMatches, HasWriter
  <2> QED
    BY <1>14, <2>1, <2>2 DEF Pass, Advance
<1>15. CASE OpenWriter
  BY <1>15
     DEF OpenWriter, Advance, DisarmGuard, checkVars, guardVars, providerVars, IInv,
         PlaceInv, GuardInv, WriterInv, PromiseInv, PassInv, RecoveryMatches,
         HasWriter
<1>16. CASE Publish
  BY <1>16
     DEF Publish, Advance, DisarmGuard, checkVars, guardVars, providerVars, IInv, PlaceInv,
         GuardInv, WriterInv, PromiseInv, PassInv, RecoveryMatches, HasWriter
<1>17. CASE Interrupted
  <2>1. PICK how \in {"dropped", "panicked"} : Unwind(how) /\ pc # "end"
    BY <1>17 DEF Interrupted, Awaiting
  <2>2. /\ pc' = "end" /\ ended' = how /\ PlaceInv' /\ GuardInv'
        /\ UNCHANGED <<claimed, seen, session, before, target, intact, kind, conforming>>
        /\ conforming => reports' = reports
    BY <2>1, UnwindFacts
  <2>3. UNCHANGED outcome
    BY <1>17 DEF Interrupted
  <2>4. WriterInv' /\ PromiseInv' /\ PassInv'
    BY <2>1, <2>2, <2>3 DEF IInv, PlaceInv, WriterInv, PromiseInv, PassInv, ClaimSeen
  <2> QED
    BY <2>2, <2>4 DEF IInv
<1>18. CASE UNCHANGED vars
  BY <1>18 DEF vars, checkVars, guardVars, providerVars, IInv, PlaceInv, GuardInv, WriterInv,
       PromiseInv, PassInv, RecoveryMatches, HasWriter
<1> QED
  BY <1>1, <1>2, <1>3, <1>4, <1>5, <1>6, <1>7, <1>8, <1>9, <1>10, <1>11, <1>12, <1>13,
     <1>14, <1>15, <1>16, <1>17, <1>18
     DEF Next, Step

\* The invariant holds always.
LEMMA InvariantHolds == Spec => []IInv
BY InitEstablishes, NextPreserves, PTL DEF Spec

-----------------------------------------------------------------------------
(* The properties.                                                         *)

\* Once the execution was polled, a check that returns leaves no open writer
\* that nobody can abort (write_cancellation.rs and copy_cancellation.rs).
THEOREM RecoveryTheorem == Spec => []RecoveryNeverLost
<1>1. IInv => RecoveryNeverLost
  BY DEF IInv, PlaceInv, WriterInv, RecoveryNeverLost
<1> QED
  BY <1>1, InvariantHolds, PTL

\* ProbeDisarmGuard lifts the gate exactly once, on every way out, and never
\* under a live execution.
THEOREM GateTheorem == Spec => []GateLiftedOnce
<1>1. IInv => GateLiftedOnce
  BY DEF IInv, PlaceInv, GuardInv, GateLiftedOnce, Unarmed, Arming, Gated, Settling
<1> QED
  BY <1>1, InvariantHolds, PTL

\* A conforming provider passes the cancellation checks, whenever it publishes.
THEOREM ConformingTheorem == Spec => []ConformingPasses
<1>1. IInv => ConformingPasses
  BY DEF IInv, PromiseInv, ConformingPasses
<1> QED
  BY <1>1, InvariantHolds, PTL

\* A check that passes has seen the target bear out the provider's claim, also of
\* a provider that goes on publishing after it (observe_target, observe_file).
THEOREM HonestTheorem == Spec => []PassedMeansHonest
<1>1. IInv => PassedMeansHonest
  BY DEF IInv, PassInv, ClaimSeen, PassedMeansHonest
<1> QED
  BY <1>1, InvariantHolds, PTL
=============================================================================
