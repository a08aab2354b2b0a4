---------------------------- MODULE S3FixtureProofs ----------------------------
(***************************************************************************)
(* What an S3 write session says of its target is true, and what the gate  *)
(* of its tests says of the session is true, for every buffer limit, every *)
(* number of PUTs and of changes by the other client, and every number of  *)
(* gates armed one after the other.                                        *)
(*                                                                         *)
(* The session: a PUT leaves only from an Open session, and an Open        *)
(* session has nothing on the wire and nothing applied.  So at most one    *)
(* PUT is ever applied, and it carries all that was acknowledged.          *)
(*                                                                         *)
(* The fixture: every step is a step of the session or none, and a step of *)
(* the gate or none.  So what holds of each alone holds of the fixture,    *)
(* and where a call stands at the gate says at which await the session is. *)
(***************************************************************************)
EXTENDS S3Fixture, TLAPS

-----------------------------------------------------------------------------
(* The write session.                                                      *)

\* The state of the session at each await.
AwaitInv ==
    /\ op \in {"idle", "rejected", "beforePut", "put", "afterPut", "failing", "aborting", "ended"}
    /\ state \in {"Open", "Published", "Indeterminate"}
    /\ request \in [fate : {"none", "sent", "applied", "refused", "lost"}, bytes : Nat]
    /\ op = "beforePut" => state = "Open"
    /\ op = "put" => state = "Indeterminate"
    /\ op = "afterPut" => state = "Published"
    /\ mode = "none" => op \in {"idle", "rejected"} /\ request.fate = "none"

\* The wire: an Open session has nothing on it, and what was applied is known
\* from the request.
WireInv ==
    /\ state = "Open" => request.fate \in {"none", "refused"}
    /\ state = "Published" => request.fate = "applied"
    /\ landed # -1 <=> request.fate = "applied"
    /\ claim = "Published" => request.fate = "applied"

\* The bytes: those of a request are all that was acknowledged.
BytesInv ==
    /\ data \in Nat /\ acked \in Nat /\ payload \in Nat
    /\ landed = -1 \/ landed \in Nat
    /\ (state = "Open" /\ op # "ended") \/ op = "put" => data = acked
    /\ op = "beforePut" => payload = data
    /\ request.fate \in {"sent", "applied"} => request.bytes = acked
    /\ request.fate = "applied" => landed = request.bytes

\* The counter of PUTs, and the mode the request was opened with.
SentInv ==
    /\ puts \in Nat
    /\ state # "Open" => puts > 0
    /\ claim = "Indeterminate" => puts > 0
    /\ options.disposition \in Dispositions /\ options.precondition \in Preconditions
    /\ mode = "none" \/ (mode = PutMode /\ mode # "unsupported")

IInv == AwaitInv /\ WireInv /\ BytesInv /\ SentInv

\* The invariant holds before the session is opened.
LEMMA SessionInit == ASSUME Init PROVE IInv
BY DEF Init, IInv, AwaitInv, WireInv, BytesInv, SentInv, NoRequest, Dispositions, Preconditions

\* Every step of the session, of the server and of the other client keeps the
\* invariant.
LEMMA SessionNext == ASSUME IInv, [Next]_vars PROVE IInv'
<1> USE DEF IInv, AwaitInv, WireInv, BytesInv, SentInv, PutMode, remote
<1>1. CASE Open
  BY <1>1 DEF Open
<1>2. CASE Write
  BY <1>2 DEF Write, Idle
<1>3. CASE Commit
  BY <1>3 DEF Commit, Idle
<1>4. CASE CommitAgain
  BY <1>4 DEF CommitAgain, Idle
<1>5. CASE SendPut
  BY <1>5 DEF SendPut
<1>6. CASE PutOk
  BY <1>6 DEF PutOk
<1>7. CASE PutRefused
  BY <1>7 DEF PutRefused
<1>8. CASE PutFails
  BY <1>8 DEF PutFails
<1>9. CASE Deliver
  BY <1>9 DEF Deliver
<1>10. CASE FailNextAbort
  BY <1>10 DEF FailNextAbort
<1>11. CASE Abort
  BY <1>11 DEF Abort, Idle
<1>12. CASE AbortFails
  BY <1>12 DEF AbortFails
<1>13. CASE AbortEnds
  BY <1>13 DEF AbortEnds
<1>14. CASE DropCall
  BY <1>14 DEF DropCall
<1>15. CASE ServerApplies
  BY <1>15 DEF ServerApplies
<1>16. CASE RequestLost
  BY <1>16 DEF RequestLost
<1>17. CASE OtherClient
  BY <1>17 DEF OtherClient
<1>18. CASE UNCHANGED vars
  BY <1>18 DEF vars
<1> QED
  BY <1>1, <1>2, <1>3, <1>4, <1>5, <1>6, <1>7, <1>8, <1>9,
     <1>10, <1>11, <1>12, <1>13, <1>14, <1>15, <1>16, <1>17, <1>18 DEF Next

\* The invariant holds in every reachable state.
LEMMA SessionHolds == Spec => []IInv
BY SessionInit, SessionNext, PTL DEF Spec

-----------------------------------------------------------------------------
(* The gate.                                                               *)

\* An arrival recorded at the armed gate is that of an operation parked there,
\* and an observer is told only of arrivals at this gate.
GateInv ==
    /\ task = [at |-> task.at, stage |-> task.stage, woken |-> task.woken]
    /\ watch = [at |-> watch.at, woken |-> watch.woken]
    /\ stage # NoStage /\ reached => dropped \/ (task.at = "parked" /\ task.stage = stage)
    /\ stage # NoStage /\ watch.at = "ready" => reached

\* Every operation of the test, the executor and the task keeps it.
LEMMA GateHolds == GateSpec => []GateInv
<1>1. GateInit => GateInv
  BY DEF GateInit, GateInv, NoTask
<1>2. ASSUME GateInv, [GateNext]_gateVars PROVE GateInv'
  <2>1. ASSUME NEW s \in Stages, Arm(s) PROVE GateInv'
    BY <1>2, <2>1 DEF GateInv, Arm
  <2>2. ASSUME NEW s \in Stages, Start(s) PROVE GateInv'
    BY <1>2, <2>2 DEF GateInv, Start, gate
  <2>3. CASE Release
    <3>1. task' = [at |-> task.at, stage |-> task.stage, woken |-> task.woken \/ operation = "live"]
      BY <1>2, <2>3 DEF GateInv, Release
    <3> QED
      BY <1>2, <2>3, <3>1 DEF GateInv, Release
  <2>4. CASE Observe
    BY <1>2, <2>4 DEF GateInv, Observe, gate
  <2>5. CASE PollReached
    BY <1>2, <2>5 DEF GateInv, PollReached
  <2>6. CASE PollGate
    <3>1. CASE stage # task.stage
      BY <1>2, <2>6, <3>1 DEF GateInv, PollGate, NoTask, gate
    <3>2. CASE stage = task.stage
      <4>1. watch' = [at |-> watch.at, woken |-> watch.woken \/ observer]
        BY <1>2, <2>6, <3>2 DEF GateInv, PollGate
      <4> QED
        BY <1>2, <2>6, <3>2, <4>1 DEF GateInv, PollGate
    <3> QED
      BY <3>1, <3>2
  <2>7. CASE DropTask
    BY <1>2, <2>7 DEF GateInv, DropTask, NoTask
  <2>8. CASE UNCHANGED gateVars
    BY <1>2, <2>8 DEF GateInv, gateVars, gate
  <2> QED
    BY <1>2, <2>1, <2>2, <2>3, <2>4, <2>5, <2>6, <2>7, <2>8 DEF GateNext
<1> QED
  BY <1>1, <1>2, PTL DEF GateSpec

-----------------------------------------------------------------------------
(* The fixture.                                                            *)

\* A step of the fixture is one of the gate or leaves it alone.
LEMMA FixtureIsGate == FixtureSpec => GateSpec
<1>1. ASSUME [FixtureNext]_allVars PROVE [GateNext]_gateVars
  <2>1. CASE Control \/ CallWriter \/ CallCommit \/ CallAbort \/ Answered
    BY <2>1, StagesAssumption
    DEF Control, CallWriter, CallCommit, CallAbort, Answered, GateNext
  <2>2. CASE Park \/ Pass \/ DropParked
    BY <2>2 DEF Park, Pass, DropParked, GateNext
  <2>3. CASE Ungated \/ UNCHANGED allVars
    BY <2>3 DEF Ungated, allVars
  <2> QED
    BY <1>1, <2>1, <2>2, <2>3 DEF FixtureNext
<1> QED
  BY <1>1, PTL DEF FixtureSpec, FixtureInit, GateSpec

\* Where a call stands at the gate, and at which await the session is then.  No
\* call is at the gate while its PUT is on the wire or no call is in progress.
CallInv ==
    /\ task.at # "none" =>
          \/ task.stage \in {"Write", "Flush"} /\ op = "idle"
          \/ task.stage = "BeforePut" /\ op = "beforePut"
          \/ task.stage = "AfterPutBeforeResult" /\ op = "afterPut"
          \/ task.stage = "Abort" /\ op \in {"aborting", "failing"}
    /\ task.at = "none" => op \notin {"beforePut", "afterPut", "aborting", "failing"}

\* Every step of the fixture keeps the gate and the session together.
LEMMA CallHolds == FixtureSpec => []CallInv
<1>1. FixtureInit => CallInv
  BY DEF FixtureInit, Init, GateInit, NoTask, CallInv
<1>2. ASSUME CallInv, GateInv, [FixtureNext]_allVars PROVE CallInv'
  <2> USE <1>2 DEF CallInv
  <2>1. CASE Control
    <3>1. op' = op
      BY <2>1 DEF Control, vars
    <3>2. task'.at = task.at /\ task'.stage = task.stage
      BY <2>1 DEF Control, Arm, Release, Observe, PollReached, gate, GateInv
    <3> QED
      BY <3>1, <3>2
  <2>2. CASE CallWriter
    BY <2>2 DEF CallWriter, Start, Idle, vars
  <2>3. CASE CallCommit
    BY <2>3 DEF CallCommit, Start, Commit
  <2>4. CASE CallAbort
    BY <2>4 DEF CallAbort, Start, Abort
  <2>5. CASE Answered
    BY <2>5 DEF Answered, Start, PutOk
  <2>6. CASE Park
    <3>1. op' = op
      BY <2>6 DEF Park, vars
    <3>2. task.at # "none" /\ task'.at = "parked" /\ task'.stage = task.stage
      BY <2>6 DEF Park, PollGate, GateInv
    <3> QED
      BY <3>1, <3>2
  <2>7. CASE Pass
    <3>1. task.at # "none" /\ task'.at = "none"
      BY <2>7 DEF Pass, PollGate, NoTask
    <3>2. op' \in {"idle", "put", "ended"}
      BY <2>7, <3>1 DEF Pass, Continue, Write, Idle, SendPut, Deliver, AbortFails, AbortEnds, vars
    <3> QED
      BY <3>1, <3>2
  <2>8. CASE Ungated
    <3>1. task' = task
      BY <2>8 DEF Ungated, gateVars
    <3>2. \/ op' = op
          \/ task.at = "none" /\ op' \in {"idle", "rejected", "put"}
      BY <2>8 DEF Ungated, NoCall, Open, CommitAgain, PutRefused, PutFails, FailNextAbort,
                  ServerApplies, RequestLost, OtherClient, DropCall
    <3> QED
      BY <3>1, <3>2
  <2>9. CASE DropParked
    BY <2>9 DEF DropParked, DropTask, NoTask, DropCall, vars
  <2>10. CASE UNCHANGED allVars
    BY <2>10 DEF allVars, vars, gateVars
  <2> QED
    BY <2>1, <2>2, <2>3, <2>4, <2>5, <2>6, <2>7, <2>8, <2>9, <2>10 DEF FixtureNext
<1> QED
  BY <1>1, <1>2, FixtureIsGate, GateHolds, PTL DEF FixtureSpec

\* Behind the gate the session is the session, and the gate is the gate: the
\* fixture implements both specifications.
THEOREM FixtureImplements == FixtureSpec => Spec /\ GateSpec
<1>1. ASSUME CallInv, [FixtureNext]_allVars PROVE [Next]_vars
  <2>1. CASE Control \/ CallWriter \/ Park
    BY <2>1 DEF Control, CallWriter, Park
  <2>2. CASE CallCommit \/ CallAbort \/ Answered
    BY <2>2 DEF CallCommit, CallAbort, Answered, Next
  <2>3. CASE Pass
    BY <1>1, <2>3 DEF Pass, PollGate, Continue, Next, CallInv
  <2>4. CASE Ungated \/ DropParked
    BY <2>4 DEF Ungated, DropParked, Next
  <2>5. CASE UNCHANGED allVars
    BY <2>5 DEF allVars
  <2> QED
    BY <1>1, <2>1, <2>2, <2>3, <2>4, <2>5 DEF FixtureNext
<1> QED
  BY <1>1, CallHolds, FixtureIsGate, PTL DEF FixtureSpec, FixtureInit, Spec

\* NotPublished stays true, whatever becomes of a PUT on the wire.
THEOREM ClaimTheorem == FixtureSpec => []ClaimIsTrue
<1>1. IInv => ClaimIsTrue
  BY DEF IInv, WireInv, ClaimIsTrue
<1> QED
  BY <1>1, FixtureImplements, SessionHolds, PTL

\* A session that says Published has been published.
THEOREM PublishedTheorem == FixtureSpec => []PublishedIsTrue
<1>1. IInv => PublishedIsTrue
  BY DEF IInv, WireInv, PublishedIsTrue
<1> QED
  BY <1>1, FixtureImplements, SessionHolds, PTL

\* Indeterminate is said only after a PUT has left.
THEOREM IndeterminateTheorem == FixtureSpec => []IndeterminateMeansSent
<1>1. IInv => IndeterminateMeansSent
  BY DEF IInv, SentInv, IndeterminateMeansSent
<1> QED
  BY <1>1, FixtureImplements, SessionHolds, PTL

\* What the server applied is all that was acknowledged to the caller.
THEOREM AcknowledgedTheorem == FixtureSpec => []PublishedIsAcknowledged
<1>1. IInv => PublishedIsAcknowledged
  BY DEF IInv, WireInv, BytesInv, PublishedIsAcknowledged
<1> QED
  BY <1>1, FixtureImplements, SessionHolds, PTL

\* The session replaces only what its request allows it to replace.
THEOREM ReplacesTheorem == FixtureSpec => ReplacesOnlyMatch
<1> DEFINE Allowed == landed' # landed =>
              IF options.precondition = "IfMatch" THEN object.version = MatchedVersion
              ELSE object.version = 0
<1>1. ASSUME IInv, [Next]_vars PROVE [Allowed]_vars
  <2>1. CASE ServerApplies
    BY <1>1, <2>1 DEF ServerApplies, Permits, IInv, AwaitInv, SentInv, PutMode, Dispositions,
                      Preconditions
  <2>2. ASSUME ~ServerApplies PROVE UNCHANGED landed
    BY <1>1, <2>2 DEF Next, vars, Open, Write, Commit, CommitAgain, SendPut, PutOk, PutRefused,
                      PutFails, Deliver, FailNextAbort, Abort, AbortFails, AbortEnds, DropCall,
                      RequestLost, OtherClient
  <2> QED
    BY <2>1, <2>2
<1> QED
  BY <1>1, FixtureImplements, SessionHolds, PTL DEF Spec, ReplacesOnlyMatch

\* While a gate is armed, an observer that was told of the arrival may rely on
\* it: the operation is parked there, unless it was dropped.
THEOREM ReadyTheorem == FixtureSpec => []ReadyMeansParked
<1>1. GateInv => ReadyMeansParked
  BY DEF GateInv, ReadyMeansParked
<1> QED
  BY <1>1, FixtureImplements, GateHolds, PTL

\* A test that is told of an arrival knows how far the session has come.
THEOREM ArrivalTheorem == FixtureSpec => []ArrivalTellsProgress
<1>1. IInv /\ GateInv /\ CallInv => ArrivalTellsProgress
  BY DEF IInv, AwaitInv, WireInv, GateInv, CallInv, ArrivalTellsProgress
<1> QED
  BY <1>1, FixtureImplements, SessionHolds, GateHolds, CallHolds, PTL
=============================================================================
