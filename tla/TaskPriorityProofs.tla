------------------------- MODULE TaskPriorityProofs -------------------------
(* Machine-checked proofs about the priority table, for every set of       *)
(* attempts and every width of long.                                       *)
EXTENDS TaskPriority, TLAPS

(* TaskPriorityJni.cpp keeps a well-typed table: only real attempts get an *)
(* entry.                                                                  *)
THEOREM TypeCorrect == Spec => []TypeOK
<1> USE AttemptsAssumption, LongAssumption
<1>1. Init => TypeOK
  BY DEF Init, TypeOK
<1>2. TypeOK /\ [Next]_vars => TypeOK'
  <2> SUFFICES ASSUME TypeOK, [Next]_vars PROVE TypeOK'
    OBVIOUS
  <2>1. ASSUME NEW a \in Attempts \cup {NonTask}, GetNew(a) PROVE TypeOK'
    BY <2>1 DEF GetNew, TypeOK
  <2>2. ASSUME NEW a \in Attempts \cup {NonTask}, TaskDone(a) PROVE TypeOK'
    BY <2>2 DEF TaskDone, TypeOK
  <2>3. ASSUME NEW a \in Attempts \cup {NonTask}, GetKnown(a) PROVE TypeOK'
    BY <2>3 DEF GetKnown, TypeOK, vars
  <2>4. CASE UNCHANGED vars
    BY <2>4 DEF TypeOK, vars
  <2> QED BY <2>1, <2>2, <2>3, <2>4 DEF Next
<1> QED BY <1>1, <1>2, PTL DEF Spec

(* get_task_priority never hands out a number twice while its first owner  *)
(* is live, and never the one reserved for threads without a task.         *)
THEOREM PrioritiesDistinct == Spec => []DistinctPriorities
<1> USE AttemptsAssumption, LongAssumption
<1> USE DEF Priority, NonTask
<1>1. Init => DistinctPriorities
  BY DEF Init, DistinctPriorities
<1>2. TypeOK /\ DistinctPriorities /\ [Next]_vars => DistinctPriorities'
  <2> SUFFICES ASSUME TypeOK, DistinctPriorities, [Next]_vars
               PROVE  DistinctPriorities'
    OBVIOUS
  <2>1. ASSUME NEW a \in Attempts \cup {NonTask}, GetNew(a) PROVE DistinctPriorities'
    BY <2>1 DEF GetNew, TypeOK, DistinctPriorities
  <2>2. ASSUME NEW a \in Attempts \cup {NonTask}, TaskDone(a) PROVE DistinctPriorities'
    BY <2>2 DEF TaskDone, TypeOK, DistinctPriorities
  <2>3. ASSUME NEW a \in Attempts \cup {NonTask}, GetKnown(a) PROVE DistinctPriorities'
    BY <2>3 DEF GetKnown, DistinctPriorities, vars
  <2>4. CASE UNCHANGED vars
    BY <2>4 DEF DistinctPriorities, vars
  <2> QED BY <2>1, <2>2, <2>3, <2>4 DEF Next
<1> QED BY <1>1, <1>2, TypeCorrect, PTL DEF Spec

(* The table of TaskPriorityJni.cpp implements the first-come order of     *)
(* TaskOrder: every call maps to one request, one finish or no change.     *)
THEOREM PriorityImplementsOrder == Spec => ImplementsTaskOrder
<1> USE AttemptsAssumption, LongAssumption
<1> USE DEF Priority, NonTask
<1>1. Init => Order!OrderInit
  BY DEF Init, Order!OrderInit, Order!NoOrder, ByPriority
<1>2. TypeOK /\ DistinctPriorities /\ [Next]_vars => [Order!OrderNext]_ByPriority
  <2> SUFFICES ASSUME TypeOK, DistinctPriorities, [Next]_vars
               PROVE  Order!OrderNext \/ ByPriority' = ByPriority
    OBVIOUS
  <2>1. ASSUME NEW a \in Attempts \cup {NonTask}, GetNew(a)
        PROVE  Order!OrderNext
    <3> DEFINE K == DOMAIN attempt_priorities
    <3>1. a \in Attempts /\ a \notin K /\ DOMAIN attempt_priorities' = K \cup {a}
      BY <2>1 DEF GetNew
    <3>2. \A b \in K : attempt_priorities'[b] = attempt_priorities[b]
      BY <2>1 DEF GetNew
    <3>3. attempt_priorities'[a] = next_task_priority
      BY <2>1 DEF GetNew
    <3>4. \A b \in K : b # -1 /\ attempt_priorities[b] > next_task_priority
                         /\ attempt_priorities[b] \in Int
      BY DEF TypeOK, DistinctPriorities
    <3>5. ByPriority'.outranks = ByPriority.outranks \cup (K \X {a})
      BY <3>1, <3>2, <3>3, <3>4 DEF ByPriority, TypeOK
    <3>6. ByPriority' = Order!Rank(ByPriority, a)
      BY <3>1, <3>5 DEF ByPriority, Order!Rank
    <3> QED BY <3>1, <3>6 DEF Order!OrderNext, Order!Request
  <2>2. ASSUME NEW a \in Attempts \cup {NonTask}, TaskDone(a)
        PROVE  Order!OrderNext \/ ByPriority' = ByPriority
    <3>1. CASE a \in Attempts
      <4>1. ByPriority' = Order!Forget(ByPriority, a)
        BY <2>2, <3>1 DEF TaskDone, ByPriority, Order!Forget, TypeOK
      <4> QED BY <3>1, <4>1 DEF Order!OrderNext, Order!Finish
    <3>2. CASE a = NonTask
      <4>1. DOMAIN attempt_priorities \ {a} = DOMAIN attempt_priorities
        BY <3>2 DEF TypeOK
      <4>2. attempt_priorities' = attempt_priorities
        BY <2>2, <4>1 DEF TaskDone, TypeOK
      <4> QED BY <4>2 DEF ByPriority
    <3> QED BY <3>1, <3>2
  <2>3. ASSUME NEW a \in Attempts \cup {NonTask}, GetKnown(a)
        PROVE  ByPriority' = ByPriority
    BY <2>3 DEF GetKnown, ByPriority, vars
  <2>4. CASE UNCHANGED vars
    BY <2>4 DEF ByPriority, vars
  <2> QED BY <2>1, <2>2, <2>3, <2>4 DEF Next
<1> QED
  BY <1>1, <1>2, TypeCorrect, PrioritiesDistinct, PTL
  DEF Spec, ImplementsTaskOrder, Order!OrderSpec
=============================================================================
