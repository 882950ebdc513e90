---------------------------- MODULE TaskPriority ----------------------------
(***************************************************************************)
(* TaskPriorityJni.cpp: the process-wide table of task priorities.  Every  *)
(* operation holds priority_mutex, so each one is a single action.         *)
(***************************************************************************)
EXTENDS Integers

CONSTANTS Attempts,         \* task attempt ids that callers ask about
          LongMax,          \* std::numeric_limits<long>::max()
          LongMin           \* bound: where next_task_priority-- would wrap

ASSUME AttemptsAssumption == Attempts \subseteq Nat
ASSUME LongAssumption == LongMax \in Int /\ LongMin \in Int /\ LongMin < LongMax

VARIABLES attempt_priorities, next_task_priority

vars == <<attempt_priorities, next_task_priority>>

\* Threads that belong to no task ask with this id and are never tabulated.
NonTask == -1

\* Slip: the counter starts at max() instead of max() - 1.
InitAtMax ==
  /\ attempt_priorities = [a \in {} |-> LongMax]
  /\ next_task_priority = LongMax

Init ==
  /\ attempt_priorities = [a \in {} |-> LongMax]
  /\ next_task_priority = LongMax - 1

\* The value get_task_priority returns once the call is over.
Priority(a) == IF a = NonTask THEN LongMax ELSE attempt_priorities[a]

GetKnown(a) ==
  /\ a = NonTask \/ a \in DOMAIN attempt_priorities
  /\ UNCHANGED vars

GetNew(a) ==
  /\ a # NonTask
  /\ a \notin DOMAIN attempt_priorities
  /\ next_task_priority > LongMin
  /\ next_task_priority' = next_task_priority - 1
  /\ attempt_priorities' =
       [b \in DOMAIN attempt_priorities \cup {a} |->
          IF b = a THEN next_task_priority ELSE attempt_priorities[b]]

\* Slip: a finished task gives its number back to the counter.
TaskDoneReusesNumber(a) ==
  /\ a \in DOMAIN attempt_priorities
  /\ attempt_priorities' =
       [b \in DOMAIN attempt_priorities \ {a} |-> attempt_priorities[b]]
  /\ next_task_priority' = next_task_priority + 1

TaskDone(a) ==
  /\ attempt_priorities' =
       [b \in DOMAIN attempt_priorities \ {a} |-> attempt_priorities[b]]
  /\ UNCHANGED next_task_priority

Next == \E a \in Attempts \cup {NonTask} : GetKnown(a) \/ GetNew(a) \/ TaskDone(a)

Spec == Init /\ [][Next]_vars

-----------------------------------------------------------------------------

TypeOK ==
  /\ DOMAIN attempt_priorities \subseteq Attempts
  /\ attempt_priorities \in [DOMAIN attempt_priorities -> Int]
  /\ next_task_priority \in Int

(* No two tasks share a priority, no task ties with the threads that have  *)
(* no task, and the number handed out next is below every number in use,   *)
(* however often tasks finished and came back.                             *)
DistinctPriorities ==
  /\ next_task_priority < Priority(NonTask)
  /\ \A a \in DOMAIN attempt_priorities :
       next_task_priority < Priority(a) /\ Priority(a) < Priority(NonTask)
  /\ \A a, b \in DOMAIN attempt_priorities :
       Priority(a) = Priority(b) => a = b

(* The table implements the first-come order: comparing the numbers is     *)
(* comparing the order in which priorities were first asked for.           *)
ByPriority ==
  LET Known == DOMAIN attempt_priorities
  IN  [ranked |-> Known,
       outranks |-> {p \in Known \X Known : Priority(p[1]) > Priority(p[2])}]

Order == INSTANCE TaskOrder WITH Tasks <- Attempts, order <- ByPriority

ImplementsTaskOrder == Order!OrderSpec

=============================================================================
