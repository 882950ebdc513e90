------------------------------ MODULE MCTasks ------------------------------
(* Task priorities and task metrics, which share nothing: a behaviour is one *)
(* of the two.  Three task attempts that come, finish and come back; the     *)
(* counter has room for seven priorities, so that every attempt can return.  *)
(* Two threads and two tasks for the metrics.                                *)
EXTENDS TaskPriority, TaskMetrics

VARIABLE part

MCMaxThrows == [throws |-> 2, total |-> 1, max_allocated |-> 0]

MCInit == part \in {"priority", "metrics"} /\ Init /\ MetricsInit /\ (part = "priority" => watched = "total")

MCNext ==
    \/ part = "priority" /\ Next /\ UNCHANGED <<part, metricsVars>>
    \/ part = "metrics" /\ MetricsNext /\ UNCHANGED <<part, vars>>

MCSpec == MCInit /\ [][MCNext]_<<part, vars, metricsVars>>
=============================================================================
