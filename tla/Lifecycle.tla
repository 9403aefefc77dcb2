------------------------------ MODULE Lifecycle ------------------------------
(* The start and the stop of an instance (easytier-core, instance/lifecycle.rs): one *)
(* operation lock, one cancellation token, components started and stopped in order,  *)
(* and a recovery guard that hands the cleanup to a task of its own when the future  *)
(* of a start or a stop is dropped half way. Callers start and stop the instance at  *)
(* will, and drop their futures at any await.                                        *)
EXTENDS Naturals, Sequences

CONSTANTS Callers,      \* the tasks that may call start or stop, once each
          MaxDrops      \* bound: dropped futures

VARIABLES
  instState,  \* CoreInstanceState
  cancelled,  \* the cancellation token
  operation,  \* the holder of the operation lock, or NobodyHolds
  comp,       \* each component: down, partial (its start has begun) or up
  op,         \* each caller's future: what it does, where it is, the component it is at
  drops

lcVars == <<instState, cancelled, operation, comp, op, drops>>

NobodyHolds == "nobody"

ASSUME LcAssumption == NobodyHolds \notin Callers /\ MaxDrops \in Nat

\* The composition: what start_components starts in turn and stop_components stops.
Components == {"listener", "egress", "peers", "host", "dataplane"}
StartOrder == <<"listener", "egress", "peers", "host", "dataplane">>
StopOrder == <<"listener", "dataplane", "host", "peers", "egress">>

NotCalled == [does |-> "none", at |-> "new", i |-> 1]
Over == [does |-> "none", at |-> "over", i |-> 1]

LcInit ==
  /\ instState = "Created" /\ cancelled = FALSE /\ operation = NobodyHolds
  /\ comp = [c \in Components |-> "down"] /\ op = [t \in Callers |-> NotCalled] /\ drops = 0

Goes(t, does, at, i) == op' = [op EXCEPT ![t] = [does |-> does, at |-> at, i |-> i]]
Ends(t) == op' = [op EXCEPT ![t] = Over]

CallStart(t) ==
  /\ op[t] = NotCalled /\ Goes(t, "start", "lock", 1)
  /\ UNCHANGED <<instState, cancelled, operation, comp, drops>>

\* stop cancels before it waits for the lock, its guard armed.
CallStop(t) ==
  /\ op[t] = NotCalled /\ cancelled' = TRUE /\ Goes(t, "stop", "lock", 1)
  /\ UNCHANGED <<instState, operation, comp, drops>>

\* The same, by the task that a guard has spawned.
Recover(t) ==
  /\ op[t].at = "spawned" /\ cancelled' = TRUE /\ Goes(t, "recovery", "lock", 1)
  /\ UNCHANGED <<instState, operation, comp, drops>>

\* The lock is free. A start needs a new instance, a stop one that is not stopped yet.
LockOperation(t) ==
  /\ op[t].at = "lock" /\ operation = NobodyHolds
  /\ IF op[t].does = "start"
     THEN IF instState = "Created"
          THEN instState' = "Starting" /\ operation' = t /\ Goes(t, "start", "starting", 1)
          ELSE Ends(t) /\ UNCHANGED <<instState, operation>>
     ELSE IF instState # "Stopped"
          THEN instState' = "Stopping" /\ operation' = t /\ Goes(t, op[t].does, "stopping", 1)
          ELSE Ends(t) /\ UNCHANGED <<instState, operation>>
  /\ UNCHANGED <<cancelled, comp, drops>>

\* start_components, one component: its start begins, and ends well.
StartComponent(t) ==
  /\ op[t].at = "starting" /\ op[t].i <= Len(StartOrder)
  /\ LET c == StartOrder[op[t].i] IN
       \/ /\ comp[c] = "down" /\ comp' = [comp EXCEPT ![c] = "partial"] /\ UNCHANGED op
       \/ /\ comp[c] = "partial" /\ comp' = [comp EXCEPT ![c] = "up"]
          /\ Goes(t, "start", "starting", op[t].i + 1)
  /\ UNCHANGED <<instState, cancelled, operation, drops>>

\* The error path of start_on_runtime, up to stop_components.
Fails(t) ==
  /\ cancelled' = TRUE /\ instState' = "Stopping" /\ Goes(t, "start", "stopping", 1)
  /\ UNCHANGED <<operation, comp, drops>>

StartFails(t) ==
  /\ op[t].at = "starting" /\ op[t].i <= Len(StartOrder)
  /\ comp[StartOrder[op[t].i]] = "partial" /\ Fails(t)

CancelUnseen(t) == FALSE /\ Fails(t)

\* The select of start_on_runtime: the token wins, and start_components is dropped where it is.
CancelSeen(t) == op[t].at = "starting" /\ cancelled /\ Fails(t)

AllStarted(t) ==
  /\ op[t].at = "starting" /\ op[t].i > Len(StartOrder)
  /\ instState' = "Running" /\ Goes(t, "start", "check", 1)
  /\ UNCHANGED <<cancelled, operation, comp, drops>>

\* is_cancelled, after the state is Running.
CheckCancelled(t) ==
  /\ op[t].at = "check"
  /\ \/ cancelled /\ Fails(t)
     \/ /\ ~cancelled /\ operation' = NobodyHolds /\ Ends(t)
        /\ UNCHANGED <<instState, cancelled, comp, drops>>

StopComponent(t) ==
  /\ op[t].at = "stopping" /\ op[t].i <= Len(StopOrder)
  /\ comp' = [comp EXCEPT ![StopOrder[op[t].i]] = "down"]
  /\ Goes(t, op[t].does, "stopping", op[t].i + 1)
  /\ UNCHANGED <<instState, cancelled, operation, drops>>

AllStopped(t) ==
  /\ op[t].at = "stopping" /\ op[t].i > Len(StopOrder)
  /\ instState' = "Stopped" /\ operation' = NobodyHolds /\ Ends(t)
  /\ UNCHANGED <<cancelled, comp, drops>>

Released(t) == operation' = IF operation = t THEN NobodyHolds ELSE operation

DropUnguarded(t) ==
  /\ op[t].does \in {"start", "stop"} /\ op[t].at \in {"lock", "starting", "stopping"}
  /\ drops < MaxDrops /\ drops' = drops + 1 /\ Released(t) /\ Ends(t)
  /\ UNCHANGED <<instState, cancelled, comp>>

\* The caller drops its future at an await: the lock is released, and an armed guard spawns
\* a stop that nobody can drop. A start that waits for the lock has no guard yet.
DropFuture(t) ==
  /\ op[t].does \in {"start", "stop"} /\ op[t].at \in {"lock", "starting", "stopping"}
  /\ drops < MaxDrops /\ drops' = drops + 1 /\ Released(t)
  /\ IF op[t].does = "start" /\ op[t].at = "lock" THEN Ends(t) ELSE Goes(t, "recovery", "spawned", 1)
  /\ UNCHANGED <<instState, cancelled, comp>>

\* What runs by itself once the future is polled; a component's start may take for ever.
Proceeds(t) ==
  \/ Recover(t) \/ LockOperation(t) \/ CancelSeen(t) \/ AllStarted(t) \/ CheckCancelled(t)
  \/ StopComponent(t) \/ AllStopped(t)

LcNext ==
  \E t \in Callers : CallStart(t) \/ CallStop(t) \/ StartComponent(t) \/ StartFails(t)
                     \/ DropFuture(t) \/ Proceeds(t)

LcSpec == LcInit /\ [][LcNext]_lcVars
LcFairness == \A t \in Callers : WF_lcVars(Proceeds(t))
LcFairSpec == LcSpec /\ LcFairness

-----------------------------------------------------------------------------

\* The state and the lock have their types, and the holder of the operation lock is the one
\* future that starts or stops components.
LcTypeOK ==
  /\ instState \in {"Created", "Starting", "Running", "Stopping", "Stopped"}
  /\ comp \in [Components -> {"down", "partial", "up"}]
  /\ \A t \in Callers : op[t].at \in {"starting", "check", "stopping"} <=> operation = t

\* With the lock free, the components are all down or all up, or a task that nobody can drop
\* is on its way to take them down (RecoveryGuard, recovery_guard); and an instance that
\* says it is stopped has nothing left running, whichever path led there.
NothingLeftHalf ==
  /\ operation = NobodyHolds =>
       \/ \A c \in Components : comp[c] = "down"
       \/ instState = "Running" /\ \A c \in Components : comp[c] = "up"
       \/ \E t \in Callers : op[t].does = "recovery"
  /\ instState = "Stopped" => \A c \in Components : comp[c] = "down"

\* A cancelled instance ends up stopped, though the start it interrupts never comes back
\* and the stop that cancelled it is dropped (select in start_on_runtime, recovery_guard).
CancelStops == []<>(cancelled => instState = "Stopped")
=============================================================================
