------------------------------- MODULE S3Fixture -------------------------------
(***************************************************************************)
(* The write session of the S3 fixture behind the gate of its tests: every *)
(* call of the session comes to a stage of TestControl, where it passes or *)
(* parks.  A call can be dropped where it is parked, or while its PUT is   *)
(* on the wire.                                                            *)
(***************************************************************************)
EXTENDS S3WriteSession, TestControl

\* The stages at which the session asks the gate; opening the object is one more.
ASSUME StagesAssumption ==
    {"Write", "Flush", "BeforePut", "AfterPutBeforeResult", "Abort"} \subseteq Stages

allVars == <<vars, gateVars>>

FixtureInit == Init /\ GateInit

NoCall == task.at = "none"

-----------------------------------------------------------------------------
(* The test.                                                               *)

Control ==
    /\ (\E s \in Stages : Arm(s)) \/ Release \/ Observe \/ PollReached
    /\ UNCHANGED vars

-----------------------------------------------------------------------------
(* Calls come to a stage ...                                               *)

\* poll_write and poll_flush ask the gate before they look at the session.
CallWriter ==
    /\ NoCall /\ Idle
    /\ Start("Write") \/ Start("Flush")
    /\ UNCHANGED vars

CallCommit == NoCall /\ Commit /\ Start("BeforePut")
CallAbort == NoCall /\ Abort /\ Start("Abort")
Answered == PutOk /\ Start("AfterPutBeforeResult")

\* ... and park there, or go on where they have come to.

Park == PollGate /\ stage = task.stage /\ UNCHANGED vars

\* What follows a stage of the session, with a write that is refused.
Continue ==
    CASE task.stage = "Write" -> \/ Write
                                 \/ ~(state = "Open" /\ data + 1 <= MaxBytes) /\ UNCHANGED vars
      [] task.stage = "Flush" -> UNCHANGED vars
      [] task.stage = "BeforePut" -> SendPut
      [] task.stage = "AfterPutBeforeResult" -> Deliver
      [] task.stage = "Abort" -> AbortFails \/ AbortEnds

Pass == PollGate /\ stage # task.stage /\ Continue

\* Steps that do not ask the gate.
Ungated ==
    /\ \/ NoCall /\ (Open \/ CommitAgain)
       \/ PutRefused \/ PutFails \/ FailNextAbort
       \/ ServerApplies \/ RequestLost \/ OtherClient
       \/ op = "put" /\ DropCall
    /\ UNCHANGED gateVars

DropParked ==
    /\ task.at = "parked" /\ DropTask
    /\ IF op = "idle" THEN UNCHANGED vars ELSE DropCall

FixtureNext ==
    \/ Control \/ CallWriter \/ CallCommit \/ CallAbort \/ Answered
    \/ Park \/ Pass \/ Ungated \/ DropParked

\* The executor polls what was woken; it owes nothing to a sleeping task.
FixtureSpec ==
    /\ FixtureInit /\ [][FixtureNext]_allVars
    /\ WF_allVars(task.woken /\ (Park \/ Pass))
    /\ WF_allVars(watch.woken /\ PollReached /\ UNCHANGED vars)

-----------------------------------------------------------------------------
(* Properties.                                                             *)

\* A test that is told of an arrival knows how far the session has come, and
\* may rely on it until it opens the gate: no PUT has left at BeforePut, and
\* the object is published at AfterPutBeforeResult.
ArrivalTellsProgress ==
    watch.at = "ready" /\ stage # NoStage /\ ~dropped =>
       /\ stage = "BeforePut" => op = "beforePut" /\ state = "Open" /\ request.fate # "sent"
       /\ stage = "AfterPutBeforeResult" => state = "Published" /\ landed # -1
       /\ stage = "Abort" => op \in {"aborting", "failing"}
       /\ stage \in {"Write", "Flush"} => op = "idle"
=============================================================================
