------------------------------ MODULE TaskOrder ------------------------------
(***************************************************************************)
(* What the task priority service promises: tasks are ranked in the order  *)
(* in which somebody first asked for their priority, an earlier task       *)
(* outranks a later one, and the ranking of two tasks never changes until  *)
(* one of them is reported done.  TaskPriority implements this order with  *)
(* a decreasing counter; the resource adaptor only ever compares           *)
(* priorities, so it is specified over the order itself.                   *)
(***************************************************************************)
EXTENDS Integers

CONSTANT Tasks              \* task attempt ids, the non-negative ones

ASSUME TasksAssumption == Tasks \subseteq Nat

VARIABLE order              \* [ranked, outranks]: <<a, b>> when a outranks b

NoOrder == [ranked |-> {}, outranks |-> {}]

\* The first request for a ranks it below every task ranked so far.
Rank(o, a) ==
  IF a \in o.ranked THEN o
  ELSE [ranked |-> o.ranked \cup {a},
        outranks |-> o.outranks \cup (o.ranked \X {a})]

\* Slip: the task leaves the table but keeps its place in the order.
ForgetKeepsPlace(o, a) == [o EXCEPT !.ranked = @ \ {a}]

\* A finished task leaves the order; asking for it again ranks it last.
Forget(o, a) ==
  [ranked |-> o.ranked \ {a},
   outranks |-> {p \in o.outranks : p[1] # a /\ p[2] # a}]

OrderInit == order = NoOrder

Request(a) == order' = Rank(order, a)

Finish(a) == order' = Forget(order, a)

OrderNext == \E a \in Tasks : Request(a) \/ Finish(a)

OrderSpec == OrderInit /\ [][OrderNext]_order

-----------------------------------------------------------------------------

OrderTypeOK ==
  /\ order.ranked \subseteq Tasks
  /\ order.outranks \subseteq order.ranked \X order.ranked
  /\ order = [ranked |-> order.ranked, outranks |-> order.outranks]

TotallyOrders(o) ==
  /\ \A a \in o.ranked : <<a, a>> \notin o.outranks
  /\ \A a, b \in o.ranked :
       a # b => (<<a, b>> \in o.outranks <=> <<b, a>> \notin o.outranks)
  /\ \A a, b, c \in o.ranked :
       <<a, b>> \in o.outranks /\ <<b, c>> \in o.outranks
         => <<a, c>> \in o.outranks

(* Any two ranked tasks are ordered, one way only, and transitively: the   *)
(* comparisons of thread_priority::operator< over several threads agree on *)
(* one winner, whatever was ranked and finished before.                    *)
StrictTotalOrder == TotallyOrders(order)
=============================================================================
