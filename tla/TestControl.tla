------------------------------ MODULE TestControl ------------------------------
(***************************************************************************)
(* The gate of the S3 fixture (test_control.rs): a test arms one stage, an  *)
(* operation that comes to it parks, an observer learns of its arrival,    *)
(* and the test releases it.                                               *)
(*                                                                         *)
(* Each method holds the gate's lock for its whole state change, so each   *)
(* is one action.  The executor is external: it may poll a task at any     *)
(* time, and it is only sure to poll a task that was woken.  One operation *)
(* at a time uses the gate; its future may be dropped, which leaves a dead *)
(* waker behind.  The counters that tests read are left out, but for the   *)
(* PUT requests (S3WriteSession).                                          *)
(***************************************************************************)
EXTENDS Naturals

CONSTANTS Stages,   \* the boundaries at which an operation asks the gate
          MaxArms   \* bound: gates armed

VARIABLES
    stage,      \* Gate.stage
    reached,    \* Gate.reached
    operation,  \* Gate.operation: the waker it holds, of a "live" or "dead" task
    observer,   \* Gate.observer: whether it holds the observer's waker
    task,       \* the operation: its future, the stage it asks for, woken or not
    watch,      \* the observer: what it knows, woken or not
    arms, dropped  \* gates armed; history: the parked operation was dropped

gate == <<stage, reached, operation, observer>>
gateVars == <<gate, task, watch, arms, dropped>>

NoStage == "none"
NoTask == [at |-> "none", stage |-> NoStage, woken |-> FALSE]

GateInit ==
    /\ stage = NoStage /\ reached = FALSE /\ operation = "none" /\ observer = FALSE
    /\ task = NoTask
    /\ watch = [at |-> "none", woken |-> FALSE]
    /\ arms = 0 /\ dropped = FALSE

-----------------------------------------------------------------------------
(* The test.                                                               *)

\* Mutant: the arrival at the previous gate is still recorded.
ArmStale(s) ==
    /\ stage = NoStage /\ arms < MaxArms
    /\ stage' = s
    /\ arms' = arms + 1 /\ dropped' = FALSE
    /\ watch' = [at |-> "none", woken |-> FALSE]
    /\ UNCHANGED <<reached, operation, observer, task>>

\* Arming an armed gate panics.  What was observed of the previous gate is over.
Arm(s) ==
    /\ stage = NoStage /\ arms < MaxArms
    /\ stage' = s /\ reached' = FALSE
    /\ arms' = arms + 1 /\ dropped' = FALSE
    /\ watch' = [at |-> "none", woken |-> FALSE]
    /\ UNCHANGED <<operation, observer, task>>

\* Mutant: the stage is cleared and the parked operation is not woken.
ReleaseSilent ==
    /\ stage # NoStage
    /\ stage' = NoStage /\ operation' = "none"
    /\ UNCHANGED <<reached, observer, task, watch, arms, dropped>>

Release ==
    /\ stage # NoStage
    /\ stage' = NoStage /\ operation' = "none"
    /\ task' = [task EXCEPT !.woken = @ \/ operation = "live"]
    /\ UNCHANGED <<reached, observer, watch, arms, dropped>>

\* wait_reached: the observer starts to wait for the armed stage.
Observe ==
    /\ stage # NoStage /\ watch.at = "none"
    /\ watch' = [at |-> "waiting", woken |-> TRUE]
    /\ UNCHANGED <<gate, task, arms, dropped>>

PollReached ==
    /\ watch.at = "waiting"
    /\ IF reached THEN /\ watch' = [at |-> "ready", woken |-> FALSE]
                       /\ UNCHANGED observer
                  ELSE /\ watch' = [at |-> "waiting", woken |-> FALSE]
                       /\ observer' = TRUE
    /\ UNCHANGED <<stage, reached, operation, task, arms, dropped>>

-----------------------------------------------------------------------------
(* The operation.                                                          *)

Start(s) ==
    /\ task.at = "none"
    /\ task' = [at |-> "running", stage |-> s, woken |-> TRUE]
    /\ UNCHANGED <<gate, watch, arms, dropped>>

PollGate ==
    /\ task.at # "none"
    /\ IF stage # task.stage
       THEN task' = NoTask /\ UNCHANGED <<gate, watch>>
       ELSE /\ reached' = TRUE /\ operation' = "live"
            /\ task' = [task EXCEPT !.at = "parked", !.woken = FALSE]
            /\ observer' = FALSE
            /\ watch' = [watch EXCEPT !.woken = @ \/ observer]
            /\ UNCHANGED stage
    /\ UNCHANGED <<arms, dropped>>

DropTask ==
    /\ task.at # "none"
    /\ task' = NoTask
    /\ operation' = IF operation = "live" THEN "dead" ELSE operation
    /\ dropped' = TRUE
    /\ UNCHANGED <<stage, reached, observer, watch, arms>>

-----------------------------------------------------------------------------
GateNext ==
    \/ \E s \in Stages : Arm(s) \/ Start(s)
    \/ Release \/ Observe \/ PollReached \/ PollGate \/ DropTask

GateSpec == GateInit /\ [][GateNext]_gateVars

-----------------------------------------------------------------------------
(* Properties.                                                             *)

\* What the observer is told holds for as long as the gate stays armed: the
\* operation is parked at that stage and at no other, unless it was dropped.
\* The cancellation probes drop the future where they believe it to be.
ReadyMeansParked ==
    watch.at = "ready" /\ stage # NoStage =>
        dropped \/ (task.at = "parked" /\ task.stage = stage)

\* No wake-up is lost: an operation is never left asleep at an open gate, and
\* an observer of a stage that was reached is told, whichever came first.
WakeupsArrive ==
    /\ (task.at = "parked" /\ stage = NoStage) ~> (task.at # "parked" \/ stage # NoStage)
    /\ (watch.at = "waiting" /\ reached) ~> (watch.at # "waiting" \/ ~reached)
=============================================================================
