--------------------- MODULE SparkResourceAdaptorProofs ---------------------
(* Machine-checked proofs about the resource adaptor, for every set of     *)
(* threads, tasks and inputs.                                              *)
EXTENDS SparkResourceAdaptor, FiniteOrders

-----------------------------------------------------------------------------
(* Types of what the helpers take and return.                              *)

OrderRecord ==
  {o \in [ranked : SUBSET Tasks, outranks : SUBSET (Tasks \X Tasks)] :
     o.outranks \subseteq o.ranked \X o.ranked}

LockedRecord ==
  [threads : [Threads -> ThreadRecord], task_to_threads : [Tasks -> SUBSET Threads],
   order : OrderRecord, known : SUBSET Threads]

(* full_thread_state::priority asks for a task or for none.                *)
LEMMA PriorityTaskType ==
  ASSUME NEW r \in ThreadRecord
  PROVE  priority_task(r) \in Tasks \cup {-1}
<1>1. r.pool_task_ids \in SUBSET Tasks /\ r.task_id \in Tasks \cup {-1}
  BY DEF ThreadRecord
<1>2. r.pool_task_ids # {} => Min(r.pool_task_ids) \in r.pool_task_ids
  BY <1>1, MinOfNats, TasksAssumption
<1> QED BY <1>1, <1>2 DEF priority_task

(* A scan leaves the order well-formed and total, and ranks every task it  *)
(* asked for.                                                              *)
LEMMA ScanKeepsOrder ==
  ASSUME NEW o \in OrderRecord, NEW ts \in [Threads -> ThreadRecord],
         NEW C \in SUBSET Threads
  PROVE  /\ Scan(o, ts, C) \in OrderRecord
         /\ TotallyOrders(o) => TotallyOrders(Scan(o, ts, C))
         /\ \A u \in C : priority_task(ts[u]) \in Scan(o, ts, C).ranked \cup {-1}
<1> DEFINE asked == {priority_task(ts[u]) : u \in C} \ {-1}
           new == asked \ o.ranked
           of(k) == {u \in C : priority_task(ts[u]) = k}
           first(k) == Min(of(k))
           o2 == [ranked |-> o.ranked \cup new,
                  outranks |-> o.outranks \cup (o.ranked \X new)
                     \cup {p \in new \X new : first(p[1]) < first(p[2])}]
<1>1. Scan(o, ts, C) = o2
  BY DEF Scan
<1>2. asked \subseteq Tasks
  BY PriorityTaskType
<1>3. \A k \in new : first(k) \in of(k)
  <2> SUFFICES ASSUME NEW k \in new PROVE first(k) \in of(k)
    OBVIOUS
  <2>1. of(k) \in SUBSET Nat /\ of(k) # {}
    BY ThreadsAssumption
  <2> QED BY <2>1, MinOfNats
<1>4. \A k \in new : first(k) \in Nat
  BY <1>3, ThreadsAssumption
<1>5. \A j, k \in new : j # k => first(j) # first(k)
  BY <1>3
<1>6. o2 \in OrderRecord
  BY <1>2 DEF OrderRecord
<1>7. ASSUME TotallyOrders(o) PROVE TotallyOrders(o2)
  <2> DEFINE f == [k \in new |-> first(k)]
  <2>1. f \in [new -> Nat] /\ (\A j, k \in new : j # k => f[j] # f[k])
    BY <1>4, <1>5
  <2>2. o2 = [ranked |-> o.ranked \cup new,
              outranks |-> o.outranks \cup (o.ranked \X new)
                 \cup {p \in new \X new : f[p[1]] < f[p[2]]}]
    OBVIOUS
  <2>3. \A a, b : <<a, b>> \in o2.outranks <=>
            \/ <<a, b>> \in o.outranks
            \/ a \in o.ranked /\ b \in new
            \/ a \in new /\ b \in new /\ f[a] < f[b]
    BY <2>2
  <2>4. o2.ranked = o.ranked \cup new /\ o.ranked \cap new = {}
    OBVIOUS
  <2>5. \A a, b : <<a, b>> \in o.outranks => a \in o.ranked /\ b \in o.ranked
    BY DEF OrderRecord
  <2> HIDE DEF f, o2, new
  <2>6. ASSUME NEW a \in o2.ranked PROVE <<a, a>> \notin o2.outranks
    <3>1. CASE a \in o.ranked
      BY <1>7, <2>3, <2>4, <3>1 DEF TotallyOrders
    <3>2. CASE a \in new
      BY <2>1, <2>3, <2>4, <2>5, <3>2
    <3> QED BY <2>4, <3>1, <3>2
  <2>7. ASSUME NEW a \in o2.ranked, NEW b \in o2.ranked, a # b
        PROVE  <<a, b>> \in o2.outranks <=> <<b, a>> \notin o2.outranks
    <3>1. CASE a \in o.ranked /\ b \in o.ranked
      BY <1>7, <2>3, <2>4, <2>7, <3>1 DEF TotallyOrders
    <3>2. CASE a \in new /\ b \in new
      <4>1. f[a] \in Nat /\ f[b] \in Nat /\ f[a] # f[b]
        BY <2>1, <2>7, <3>2
      <4>2. f[a] < f[b] <=> ~(f[b] < f[a])
        BY <4>1
      <4> QED BY <2>3, <2>4, <2>5, <3>2, <4>2
    <3>3. CASE a \in o.ranked /\ b \in new
      BY <2>3, <2>4, <2>5, <3>3
    <3>4. CASE a \in new /\ b \in o.ranked
      BY <2>3, <2>4, <2>5, <3>4
    <3> QED BY <2>4, <3>1, <3>2, <3>3, <3>4
  <2>8. \A a, b, c \in o2.ranked :
          <<a, b>> \in o2.outranks /\ <<b, c>> \in o2.outranks
            => <<a, c>> \in o2.outranks
    BY <1>7, <2>1, <2>3, <2>4, <2>5 DEF TotallyOrders
  <2> QED BY <2>6, <2>7, <2>8 DEF TotallyOrders
<1>8. \A u \in C : priority_task(ts[u]) \in o2.ranked \cup {-1}
  OBVIOUS
<1> QED BY <1>1, <1>6, <1>7, <1>8

(* thread_priority::operator> orders the threads of a scan strictly and    *)
(* totally, so there is one highest and one lowest of them.                *)
LEMMA ScanFindsOne ==
  ASSUME NEW o \in OrderRecord, TotallyOrders(o),
         NEW ts \in [Threads -> ThreadRecord],
         NEW C \in SUBSET Threads, C # {},
         \A u \in C : priority_task(ts[u]) \in o.ranked \cup {-1}
  PROVE  Highest(o, ts, C) \in C /\ Lowest(o, ts, C) \in C
<1> DEFINE p == [u \in C |-> priority_task(ts[u])]
           R == {e \in C \X C : Above(o, ts, e[1], e[2])}
           L == {e \in C \X C : Above(o, ts, e[2], e[1])}
<1>1. p \in [C -> o.ranked \cup {-1}] /\ -1 \notin o.ranked
  BY TasksAssumption DEF OrderRecord
<1>2. \A u, v \in C : <<u, v>> \in R <=>
        \/ p[u] = p[v] /\ u > v
        \/ p[u] # p[v] /\ (p[u] = -1 \/ (p[v] # -1 /\ <<p[u], p[v]>> \in o.outranks))
  BY DEF Above
<1>3. IsFiniteSet(C) /\ C \subseteq Nat
  BY ThreadsAssumption, FS_Subset
<1>0. \A u, v \in C : <<u, v>> \in L <=> <<v, u>> \in R
  OBVIOUS
<1> HIDE DEF p, R, L
<1>4. ASSUME NEW u \in C PROVE <<u, u>> \notin R
  <2>1. ~(u > u)
    BY <1>3
  <2> QED BY <1>2, <2>1
<1>5. ASSUME NEW u \in C, NEW v \in C, u # v
      PROVE  <<u, v>> \in R \/ <<v, u>> \in R
  <2>1. CASE p[u] = p[v]
    <3>1. u > v \/ v > u
      BY <1>3, <1>5
    <3> QED BY <1>2, <2>1, <3>1
  <2>2. CASE p[u] # p[v]
    BY <1>1, <1>2, <2>2 DEF TotallyOrders
  <2> QED BY <2>1, <2>2
<1>6. ASSUME NEW u \in C, NEW v \in C, NEW w \in C, <<u, v>> \in R, <<v, w>> \in R
      PROVE  <<u, w>> \in R
  <2>1. CASE p[u] = p[v] /\ p[v] = p[w]
    <3>1. u > v /\ v > w
      BY <1>2, <1>6, <2>1
    <3>2. u > w
      BY <1>3, <3>1
    <3> QED BY <1>2, <2>1, <3>2
  <2>2. CASE p[u] = p[v] /\ p[v] # p[w]
    BY <1>2, <1>6, <2>2
  <2>3. CASE p[u] # p[v] /\ p[v] = p[w]
    BY <1>2, <1>6, <2>3
  <2>4. CASE p[u] # p[v] /\ p[v] # p[w]
    <3>1. CASE p[u] = -1
      <4>1. p[w] # -1
        BY <1>2, <1>6, <2>4, <3>1
      <4> QED BY <1>2, <3>1, <4>1
    <3>2. CASE p[u] # -1
      <4>1. <<p[u], p[v]>> \in o.outranks /\ <<p[v], p[w]>> \in o.outranks
        BY <1>2, <1>6, <2>4, <3>2
      <4>2. p[v] # -1 /\ p[w] # -1
        BY <1>2, <1>6, <2>4, <3>2
      <4>3. p[u] \in o.ranked /\ p[v] \in o.ranked /\ p[w] \in o.ranked
        BY <1>1, <3>2, <4>2
      <4>4. <<p[u], p[w]>> \in o.outranks
        BY <4>1, <4>3 DEF TotallyOrders
      <4>5. p[u] # p[w]
        BY <4>3, <4>4 DEF TotallyOrders
      <4> QED BY <1>2, <4>2, <4>4, <4>5
    <3> QED BY <3>1, <3>2
  <2> QED BY <2>1, <2>2, <2>3, <2>4
<1>7. \E u \in C : \A v \in C \ {u} : <<u, v>> \in R
  BY <1>3, <1>4, <1>5, <1>6, FiniteMaximum
<1>8. \E u \in C : \A v \in C \ {u} : <<u, v>> \in L
  <2>1. /\ \A u \in C : <<u, u>> \notin L
        /\ \A u, v \in C : u # v => <<u, v>> \in L \/ <<v, u>> \in L
        /\ \A u, v, w \in C : <<u, v>> \in L /\ <<v, w>> \in L => <<u, w>> \in L
    BY <1>0, <1>4, <1>5, <1>6
  <2> QED BY <1>3, <2>1, FiniteMaximum
<1>9. \E u \in C : \A v \in C \ {u} : Above(o, ts, u, v)
  BY <1>7 DEF R
<1>10. \E u \in C : \A v \in C \ {u} : Above(o, ts, v, u)
  BY <1>8 DEF L
<1> QED BY <1>9, <1>10 DEF Highest, Lowest

-----------------------------------------------------------------------------
(* What the helpers do to a thread record.                                 *)

\* The exceptions still to be injected into a thread.
Injections(r) == <<r.retry_oom, r.split_and_retry_oom, r.cudf_exception_injected>>

(* The states and the notification of a record, typed.                     *)
LEMMA TransitionType ==
  ASSUME NEW r \in ThreadRecord, NEW st \in States
  PROVE  /\ transition(r, st) \in ThreadRecord
         /\ transition(r, st).state = st
         /\ transition(r, st).wake = r.wake
         /\ transition(r, st).task_id = r.task_id
         /\ transition(r, st).pool_task_ids = r.pool_task_ids
         /\ transition(r, st).is_cpu_alloc = r.is_cpu_alloc
         /\ Injections(transition(r, st)) = Injections(r)
BY DEF transition, ThreadRecord, Injections

(* notify_all ends the sleep of its thread and changes nothing else.       *)
LEMMA NotifyType ==
  ASSUME NEW r \in ThreadRecord
  PROVE  /\ notify_all(r) \in ThreadRecord
         /\ notify_all(r).wake # "waiting"
         /\ notify_all(r).wake = "idle" <=> r.wake = "idle"
         /\ notify_all(r).state = r.state
         /\ notify_all(r).task_id = r.task_id
         /\ notify_all(r).pool_task_ids = r.pool_task_ids
         /\ notify_all(r).is_cpu_alloc = r.is_cpu_alloc
         /\ Injections(notify_all(r)) = Injections(r)
BY DEF notify_all, ThreadRecord, Injections

(* An erased record keeps only where its thread sleeps.                    *)
LEMMA EraseType ==
  ASSUME NEW r \in ThreadRecord
  PROVE  /\ erase(r) \in ThreadRecord
         /\ erase(r).wake = r.wake
         /\ erase(r).state = "UNKNOWN"
         /\ Unregistered \in ThreadRecord
         /\ Unregistered.wake = "idle"
<1>1. no_oom \in OomState
  BY DEF no_oom, OomState
<1>2. 0 \in 0 .. RetryLimit /\ 0 \in Nat
  BY BoundsAssumption
<1>3. Unregistered \in ThreadRecord /\ Unregistered.state = "UNKNOWN"
  BY <1>1, <1>2 DEF Unregistered, ThreadRecord, States
<1>4. Unregistered.wake = "idle"
  BY DEF Unregistered
<1>5. erase(r) \in ThreadRecord /\ erase(r).wake = r.wake /\ erase(r).state = "UNKNOWN"
  BY <1>3 DEF erase, ThreadRecord
<1> QED BY <1>3, <1>4, <1>5

(* The moves the adaptor makes a paused thread do.                         *)
Pokes ==
  {<<"BLOCKED", "RUNNING">>, <<"BLOCKED", "BUFN_THROW">>, <<"BUFN", "SPLIT_THROW">>,
   <<"BUFN", "RUNNING">>, <<"BUFN_THROW", "RUNNING">>, <<"BUFN_WAIT", "RUNNING">>}

Poked(r, q) ==
  /\ q \in ThreadRecord
  /\ <<r.state, q.state>> \in Pokes
  /\ q.wake # "waiting"
  /\ q.wake = "idle" <=> r.wake = "idle"
  /\ q.task_id = r.task_id
  /\ q.pool_task_ids = r.pool_task_ids
  /\ q.is_cpu_alloc = r.is_cpu_alloc
  /\ Injections(q) = Injections(r)

\* Locked state s became s2: some threads were poked, nothing else happened.
Nudged(s, s2) ==
  /\ s2 \in LockedRecord
  /\ TotallyOrders(s2.order)
  /\ s2.task_to_threads = s.task_to_threads
  /\ s2.known = s.known
  /\ \A u \in Threads : s2.threads[u] = s.threads[u] \/ Poked(s.threads[u], s2.threads[u])

(* Replacing one record of the locked state.                               *)
LEMMA PutType ==
  ASSUME NEW s \in LockedRecord, NEW t \in Threads, NEW r \in ThreadRecord
  PROVE  /\ Put(s, t, r) \in LockedRecord
         /\ Put(s, t, r).order = s.order
         /\ Put(s, t, r).task_to_threads = s.task_to_threads
         /\ Put(s, t, r).known = s.known
         /\ Put(s, t, r).threads[t] = r
         /\ \A u \in Threads \ {t} : Put(s, t, r).threads[u] = s.threads[u]
BY DEF Put, LockedRecord

(* A chosen thread of C is poked after a scan of C.                        *)
LEMMA PokeOne ==
  ASSUME NEW s \in LockedRecord, TotallyOrders(s.order), NEW C \in SUBSET Threads,
         NEW w \in C, NEW q, Poked(s.threads[w], q)
  PROVE  Nudged(s, Put([s EXCEPT !.order = Scan(s.order, s.threads, C)], w, q))
<1> DEFINE o == Scan(s.order, s.threads, C)
           s1 == [s EXCEPT !.order = o]
<1>1. o \in OrderRecord /\ TotallyOrders(o)
  BY ScanKeepsOrder DEF LockedRecord
<1> HIDE DEF o
<1>2. /\ s1 \in LockedRecord
      /\ s1.order = o
      /\ s1.threads = s.threads
      /\ s1.task_to_threads = s.task_to_threads
      /\ s1.known = s.known
  BY <1>1 DEF LockedRecord
<1>3. q \in ThreadRecord /\ w \in Threads
  BY DEF Poked
<1> HIDE DEF s1
<1>4. Nudged(s, Put(s1, w, q))
  BY <1>1, <1>2, <1>3, PutType DEF Nudged
<1> QED BY <1>4 DEF s1, o

(* Nobody was touched.                                                     *)
LEMMA NudgeNobody ==
  ASSUME NEW s \in LockedRecord, TotallyOrders(s.order)
  PROVE  Nudged(s, s)
BY DEF Nudged

(* dealloc and post_alloc_success wake one BLOCKED thread.                 *)
LEMMA WakeNextNudges ==
  ASSUME NEW s \in LockedRecord, TotallyOrders(s.order), NEW is_for_cpu \in BOOLEAN
  PROVE  Nudged(s, wake_next_highest_priority_blocked(s, is_for_cpu))
<1> DEFINE C == {u \in InState(s.threads, "BLOCKED") :
                   s.threads[u].is_cpu_alloc = is_for_cpu}
           o == Scan(s.order, s.threads, C)
           w == Highest(o, s.threads, C)
           r == notify_all(transition(s.threads[w], "RUNNING"))
<1>1. C \in SUBSET Threads /\ s.threads \in [Threads -> ThreadRecord] /\ s.order \in OrderRecord
  BY DEF InState, LockedRecord
<1>2. CASE C = {}
  BY <1>2, NudgeNobody DEF wake_next_highest_priority_blocked
<1>3. CASE C # {}
  <2>1. w \in C
    BY <1>1, <1>3, ScanKeepsOrder, ScanFindsOne
  <2>2. s.threads[w] \in ThreadRecord /\ s.threads[w].state = "BLOCKED"
    BY <1>1, <2>1 DEF InState
  <2>3. Poked(s.threads[w], r)
    BY <2>2, TransitionType, NotifyType DEF Poked, Pokes, States
  <2> HIDE DEF w, r
  <2>4. Nudged(s, Put([s EXCEPT !.order = o], w, r))
    BY <1>1, <2>1, <2>3, PokeOne
  <2> QED BY <1>3, <2>4 DEF wake_next_highest_priority_blocked, w, r
<1> QED BY <1>2, <1>3

(* A deadlock check rolls back or retries one BLOCKED thread.              *)
LEMMA RollBackNudges ==
  ASSUME NEW s \in LockedRecord, TotallyOrders(s.order)
  PROVE  /\ Nudged(s, roll_back_lowest_blocked(s))
         /\ \A u \in Threads :
              \/ roll_back_lowest_blocked(s).threads[u] = s.threads[u]
              \/ roll_back_lowest_blocked(s).threads[u].state \in {"RUNNING", "BUFN_THROW"}
<1> DEFINE C == InState(s.threads, "BLOCKED")
           o == Scan(s.order, s.threads, C)
           b == Lowest(o, s.threads, C)
           r == IF Cardinality(C) = 1
                THEN [transition(s.threads[b], "RUNNING")
                        EXCEPT !.is_retry_alloc_before_bufn = TRUE]
                ELSE transition(s.threads[b], "BUFN_THROW")
<1>1. C \in SUBSET Threads /\ s.threads \in [Threads -> ThreadRecord] /\ s.order \in OrderRecord
  BY DEF InState, LockedRecord
<1>2. CASE C = {}
  BY <1>2, NudgeNobody DEF roll_back_lowest_blocked
<1>3. CASE C # {}
  <2>1. b \in C
    BY <1>1, <1>3, ScanKeepsOrder, ScanFindsOne
  <2>2. s.threads[b] \in ThreadRecord /\ s.threads[b].state = "BLOCKED"
    BY <1>1, <2>1 DEF InState
  <2>3. /\ r \in ThreadRecord
        /\ r.state \in {"RUNNING", "BUFN_THROW"}
        /\ r.wake = s.threads[b].wake
        /\ r.task_id = s.threads[b].task_id
        /\ r.pool_task_ids = s.threads[b].pool_task_ids
        /\ r.is_cpu_alloc = s.threads[b].is_cpu_alloc
        /\ Injections(r) = Injections(s.threads[b])
    <3> DEFINE q == transition(s.threads[b], "RUNNING")
    <3>1. q \in ThreadRecord /\ q.state = "RUNNING" /\ q.wake = s.threads[b].wake
            /\ q.task_id = s.threads[b].task_id
            /\ q.pool_task_ids = s.threads[b].pool_task_ids
            /\ q.is_cpu_alloc = s.threads[b].is_cpu_alloc
            /\ Injections(q) = Injections(s.threads[b])
      BY <2>2, TransitionType DEF States
    <3> HIDE DEF q
    <3>2. CASE Cardinality(C) = 1
      <4>1. r = [q EXCEPT !.is_retry_alloc_before_bufn = TRUE]
        BY <3>2 DEF q
      <4> QED BY <3>1, <4>1 DEF ThreadRecord, Injections
    <3>3. CASE Cardinality(C) # 1
      BY <2>2, <3>3, TransitionType DEF States
    <3> QED BY <3>2, <3>3
  <2> HIDE DEF r
  <2>4. Poked(s.threads[b], notify_all(r)) /\ notify_all(r).state = r.state
    BY <2>2, <2>3, NotifyType DEF Poked, Pokes
  <2> HIDE DEF b
  <2>5. Nudged(s, Put([s EXCEPT !.order = o], b, notify_all(r)))
    BY <1>1, <2>1, <2>4, PokeOne
  <2>6. roll_back_lowest_blocked(s) = Put([s EXCEPT !.order = o], b, notify_all(r))
    BY <1>3 DEF roll_back_lowest_blocked, b, r
  <2>7. \A u \in Threads :
          Put([s EXCEPT !.order = o], b, notify_all(r)).threads[u] =
             IF u = b THEN notify_all(r) ELSE s.threads[u]
    BY <1>1, <2>1 DEF Put, LockedRecord
  <2> QED BY <2>3, <2>4, <2>5, <2>6, <2>7
<1> QED BY <1>2, <1>3

(* If all are BUFN, a deadlock check tells one BUFN thread to split.       *)
LEMMA SplitNudges ==
  ASSUME NEW s \in LockedRecord, TotallyOrders(s.order)
  PROVE  /\ Nudged(s, split_highest_bufn(s))
         /\ \A u \in Threads :
              \/ split_highest_bufn(s).threads[u] = s.threads[u]
              \/ s.threads[u].state = "BUFN"
<1> DEFINE C == InState(s.threads, "BUFN")
           o == Scan(s.order, s.threads, C)
           w == Highest(o, s.threads, C)
           r == notify_all(transition(s.threads[w], "SPLIT_THROW"))
<1>1. C \in SUBSET Threads /\ s.threads \in [Threads -> ThreadRecord] /\ s.order \in OrderRecord
  BY DEF InState, LockedRecord
<1>2. CASE C = {}
  BY <1>2, NudgeNobody DEF split_highest_bufn
<1>3. CASE C # {}
  <2>1. w \in C
    BY <1>1, <1>3, ScanKeepsOrder, ScanFindsOne
  <2>2. s.threads[w] \in ThreadRecord /\ s.threads[w].state = "BUFN"
    BY <1>1, <2>1 DEF InState
  <2>3. Poked(s.threads[w], r)
    BY <2>2, TransitionType, NotifyType DEF Poked, Pokes, States
  <2> HIDE DEF w, r
  <2>4. Nudged(s, Put([s EXCEPT !.order = o], w, r))
    BY <1>1, <2>1, <2>3, PokeOne
  <2>5. split_highest_bufn(s) = Put([s EXCEPT !.order = o], w, r)
    BY <1>3 DEF split_highest_bufn, w, r
  <2>6. \A u \in Threads \ {w} :
          Put([s EXCEPT !.order = o], w, r).threads[u] = s.threads[u]
    BY <1>1, <2>1 DEF Put, LockedRecord
  <2> QED BY <2>2, <2>4, <2>5, <2>6
<1> QED BY <1>2, <1>3

(* The whole deadlock check pokes paused threads and does nothing else.    *)
LEMMA CheckNudges ==
  ASSUME NEW s \in LockedRecord, TotallyOrders(s.order), NEW java_blocked
  PROVE  Nudged(s, check_and_update_for_bufn(s, java_blocked))
<1> DEFINE rb == roll_back_lowest_blocked(s)
<1>1. /\ Nudged(s, rb)
      /\ \A u \in Threads : \/ rb.threads[u] = s.threads[u]
                            \/ rb.threads[u].state \in {"RUNNING", "BUFN_THROW"}
  BY RollBackNudges
<1> HIDE DEF rb
<1>2. rb \in LockedRecord /\ TotallyOrders(rb.order)
  BY <1>1 DEF Nudged
<1>3. /\ Nudged(rb, split_highest_bufn(rb))
      /\ \A u \in Threads : \/ split_highest_bufn(rb).threads[u] = rb.threads[u]
                            \/ rb.threads[u].state = "BUFN"
  BY <1>2, SplitNudges
<1>4. Nudged(s, split_highest_bufn(rb))
  BY <1>1, <1>3 DEF Nudged
<1>5. Nudged(s, s)
  BY NudgeNobody
<1> QED BY <1>1, <1>4, <1>5 DEF check_and_update_for_bufn, rb

(* A finished task wakes all BLOCKED threads or all that are BUFN.         *)
LEMMA WakeUpNudges ==
  ASSUME NEW s \in LockedRecord, TotallyOrders(s.order)
  PROVE  Nudged(s, wake_up_threads_after_task_finishes(s))
<1> DEFINE W == IF InState(s.threads, "BLOCKED") # {} THEN {"BLOCKED"}
                ELSE {"BUFN", "BUFN_THROW", "BUFN_WAIT"}
           q(u) == IF s.threads[u].state \in W
                   THEN notify_all(transition(s.threads[u], "RUNNING"))
                   ELSE s.threads[u]
           s2 == [s EXCEPT !.threads = [u \in Threads |-> q(u)]]
<1>1. W \subseteq {"BLOCKED", "BUFN", "BUFN_THROW", "BUFN_WAIT"}
  OBVIOUS
<1> HIDE DEF W
<1>2. \A u \in Threads : s.threads[u] \in ThreadRecord
  BY DEF LockedRecord
<1>3. ASSUME NEW u \in Threads
      PROVE  q(u) \in ThreadRecord /\ (q(u) = s.threads[u] \/ Poked(s.threads[u], q(u)))
  <2>1. CASE s.threads[u].state \in W
    <3> DEFINE r == s.threads[u]
               p == transition(r, "RUNNING")
    <3>1. /\ p \in ThreadRecord /\ p.state = "RUNNING" /\ p.wake = r.wake
          /\ p.task_id = r.task_id /\ p.pool_task_ids = r.pool_task_ids
          /\ p.is_cpu_alloc = r.is_cpu_alloc
          /\ Injections(p) = Injections(r)
      BY <1>2, TransitionType DEF States
    <3> HIDE DEF p
    <3>2. Poked(r, notify_all(p))
      BY <1>1, <2>1, <3>1, NotifyType DEF Poked, Pokes
    <3> QED BY <2>1, <3>2 DEF Poked, p
  <2>2. CASE s.threads[u].state \notin W
    BY <1>2, <2>2
  <2> QED BY <2>1, <2>2
<1> HIDE DEF q
<1>4. Nudged(s, s2)
  BY <1>3 DEF Nudged, LockedRecord
<1> QED BY <1>4 DEF wake_up_threads_after_task_finishes, q, W

-----------------------------------------------------------------------------
(* The inductive invariant.  A thread that sleeps is in the middle of a    *)
(* call that waits, so no action of its own code changes its state.        *)

SleepersAreInCalls ==
  \A t \in Threads : asleep(t) => ~idle(t) /\ Head(stack[t]).call # "allocate"

AdaptorInv == TypeOK /\ StrictTotalOrder /\ NoLostWakeup /\ SleepersAreInCalls

\* What AdaptorInv says of the locked state.
Sound(s) ==
  /\ s \in LockedRecord
  /\ TotallyOrders(s.order)
  /\ \A u \in Threads : s.threads[u].wake = "waiting" => is_blocked(s.threads[u].state)

SameSleepers(s, s2) ==
  \A u \in Threads : s2.threads[u].wake = "idle" <=> s.threads[u].wake = "idle"

(* Poking threads under the mutex loses no wake-up.                        *)
LEMMA NudgedSound ==
  ASSUME NEW s, NEW s2, Sound(s), Nudged(s, s2)
  PROVE  Sound(s2) /\ SameSleepers(s, s2)
BY DEF Sound, Nudged, Poked, SameSleepers

(* Nor does replacing a record by a sound one.                             *)
LEMMA PutSound ==
  ASSUME NEW s, Sound(s), NEW t \in Threads, NEW r \in ThreadRecord,
         r.wake = "waiting" => is_blocked(r.state)
  PROVE  /\ Sound(Put(s, t, r))
         /\ r.wake = s.threads[t].wake => SameSleepers(s, Put(s, t, r))
<1>1. s \in LockedRecord
  BY DEF Sound
<1> DEFINE s2 == Put(s, t, r)
<1>2. /\ s2 \in LockedRecord
      /\ s2.order = s.order
      /\ s2.threads[t] = r
      /\ \A u \in Threads \ {t} : s2.threads[u] = s.threads[u]
  BY <1>1, PutType
<1> HIDE DEF s2
<1>3. Sound(s2)
  BY <1>2 DEF Sound
<1>4. r.wake = s.threads[t].wake => SameSleepers(s, s2)
  BY <1>2 DEF SameSleepers
<1> QED BY <1>3, <1>4 DEF s2

(* remove_thread_association tells or erases a thread; a sleeping one that *)
(* is erased was notified before.                                          *)
LEMMA RemovedType ==
  ASSUME NEW r \in ThreadRecord, r.wake = "waiting" => is_blocked(r.state),
         NEW k \in Tasks \cup {-1}
  PROVE  /\ removed(r, k) \in ThreadRecord
         /\ removed(r, k).wake = "waiting" => is_blocked(removed(r, k).state)
         /\ removed(r, k).wake = "idle" <=> r.wake = "idle"
<1> DEFINE w == without_task(r, k)
<1>1. w \in ThreadRecord /\ w.wake = r.wake /\ w.state = r.state
  BY DEF without_task, ThreadRecord
<1> HIDE DEF w
<1>2. CASE ~thread_should_be_removed(r, k)
  BY <1>1, <1>2 DEF removed, w
<1>3. CASE thread_should_be_removed(r, k) /\ is_blocked(r.state)
  <2> DEFINE q == notify_all(transition(w, "REMOVE_THROW"))
  <2>1. q \in ThreadRecord /\ q.wake # "waiting" /\ (q.wake = "idle" <=> r.wake = "idle")
    BY <1>1, TransitionType, NotifyType DEF States
  <2> QED BY <1>3, <2>1 DEF removed, w
<1>4. CASE thread_should_be_removed(r, k) /\ ~is_blocked(r.state)
  BY <1>4, EraseType DEF removed
<1> QED BY <1>2, <1>3, <1>4

(* So a removal of any set of threads is sound.                            *)
LEMMA RemoveSound ==
  ASSUME NEW s, Sound(s), NEW S \in SUBSET Threads, NEW k \in Tasks \cup {-1}
  PROVE  /\ Sound(remove_thread_association(s, S, k))
         /\ SameSleepers(s, remove_thread_association(s, S, k))
<1> DEFINE q(u) == IF u \in S THEN removed(s.threads[u], k) ELSE s.threads[u]
           gone == {u \in S : thread_should_be_removed(s.threads[u], k)}
           s2 == [s EXCEPT !.threads = [u \in Threads |-> q(u)],
                           !.task_to_threads = [j \in Tasks |-> IF j = k THEN @[j] \ gone ELSE @[j]],
                           !.known = @ \ gone]
<1>1. ASSUME NEW u \in Threads
      PROVE  /\ q(u) \in ThreadRecord
             /\ q(u).wake = "waiting" => is_blocked(q(u).state)
             /\ q(u).wake = "idle" <=> s.threads[u].wake = "idle"
  BY RemovedType DEF Sound, LockedRecord
<1> HIDE DEF q, gone
<1>2. s2 \in LockedRecord /\ s2.order = s.order /\ (\A u \in Threads : s2.threads[u] = q(u))
  BY <1>1 DEF Sound, LockedRecord
<1>3. Sound(s2) /\ SameSleepers(s, s2)
  <2> HIDE DEF s2
  <2> QED BY <1>1, <1>2 DEF Sound, SameSleepers
<1> QED BY <1>3 DEF remove_thread_association, q, gone

(* The entry points that may wake the others after a removal.              *)
LEMMA WakeUpIfSound ==
  ASSUME NEW s, Sound(s), NEW ended
  PROVE  Sound(wake_up_if(s, ended)) /\ SameSleepers(s, wake_up_if(s, ended))
BY WakeUpNudges, NudgedSound DEF wake_up_if, Sound, SameSleepers

-----------------------------------------------------------------------------
(* The ways in which an action gives up the mutex.                         *)

(* Under the invariant the locked state is sound.                          *)
LEMMA LockedSound ==
  ASSUME AdaptorInv
  PROVE  Sound(Locked)
<1>1. Locked \in LockedRecord
  BY DEF AdaptorInv, TypeOK, OrderTypeOK, Locked, LockedRecord, OrderRecord
<1>2. Locked.order = order /\ Locked.threads = threads
  BY DEF Locked
<1> QED BY <1>1, <1>2 DEF AdaptorInv, StrictTotalOrder, NoLostWakeup, Sound

(* And a sound locked state that is unlocked is typed again.               *)
LEMMA UnlockTypes ==
  ASSUME NEW s, Sound(s), Unlock(s)
  PROVE  /\ threads' \in [Threads -> ThreadRecord]
         /\ task_to_threads' \in [Tasks -> SUBSET Threads]
         /\ OrderTypeOK'
         /\ known_threads' \in SUBSET Threads
         /\ StrictTotalOrder'
         /\ NoLostWakeup'
         /\ threads' = s.threads
<1>1. threads' = s.threads /\ order' = s.order
  BY DEF Unlock
<1>2. OrderTypeOK'
  BY <1>1 DEF Sound, LockedRecord, OrderRecord, OrderTypeOK
<1> QED BY <1>1, <1>2 DEF Unlock, Sound, LockedRecord, StrictTotalOrder, NoLostWakeup

FinalStates == {"open", "shutting_down", "returned", "timed_out", "crashed"}

(* An action that leaves every stack alone.                                *)
LEMMA UnlockKeepsInv ==
  ASSUME AdaptorInv, NEW s, Sound(s), SameSleepers(Locked, s), Unlock(s),
         UNCHANGED stack, adaptor' \in FinalStates
  PROVE  AdaptorInv'
<1>1. SleepersAreInCalls'
  BY UnlockTypes DEF AdaptorInv, SleepersAreInCalls, asleep, idle, SameSleepers, Locked
<1> QED BY <1>1, UnlockTypes DEF AdaptorInv, TypeOK, FinalStates

\* Thread t is awake and holds the mutex; the others sleep as before.
HeldBy(s, t) ==
  /\ Sound(s)
  /\ s.threads[t].wake = "idle"
  /\ \A u \in Threads \ {t} : s.threads[u].wake = "idle" <=> threads[u].wake = "idle"

(* An action of t that returns, throws or goes on to allocate.             *)
LEMMA LeaveKeepsInv ==
  ASSUME AdaptorInv, NEW s, NEW t \in Threads,
         HeldBy(s, t), NEW below \in Seq(FrameRecord), Leave(s, t, below)
  PROVE  AdaptorInv'
<1>1. Unlock(s) /\ UNCHANGED adaptor /\ stack' = [stack EXCEPT ![t] = below]
  BY DEF Leave
<1>2. stack' \in [Threads -> Seq(FrameRecord)] /\ \A u \in Threads \ {t} : stack'[u] = stack[u]
  BY <1>1 DEF AdaptorInv, TypeOK
<1>3. SleepersAreInCalls'
  BY <1>1, <1>2, UnlockTypes DEF AdaptorInv, SleepersAreInCalls, asleep, idle, HeldBy
<1> QED BY <1>1, <1>2, <1>3, UnlockTypes DEF AdaptorInv, TypeOK, HeldBy

(* The first frame of a stack.                                             *)
LEMMA PushFrame ==
  ASSUME NEW f \in FrameRecord, NEW below \in Seq(FrameRecord)
  PROVE  /\ <<f>> \o below \in Seq(FrameRecord)
         /\ <<f>> \o below # <<>>
         /\ Head(<<f>> \o below) = f
OBVIOUS

(* An action of t that goes to sleep.                                      *)
LEMMA WaitKeepsInv ==
  ASSUME AdaptorInv, NEW s, NEW t \in Threads, HeldBy(s, t),
         is_blocked(s.threads[t].state),
         NEW f \in FrameRecord, f.call # "allocate",
         NEW below \in Seq(FrameRecord), Wait(s, t, f, below)
  PROVE  AdaptorInv'
<1> DEFINE r == [s.threads[t] EXCEPT !.wake = "waiting"]
           s2 == Put(s, t, r)
<1>1. Unlock(s2) /\ UNCHANGED adaptor /\ stack' = [stack EXCEPT ![t] = <<f>> \o below]
  BY DEF Wait
<1>2. stack' \in [Threads -> Seq(FrameRecord)]
        /\ (\A u \in Threads \ {t} : stack'[u] = stack[u])
        /\ stack'[t] # <<>> /\ Head(stack'[t]) = f
  BY <1>1, PushFrame DEF AdaptorInv, TypeOK
<1>3. r \in ThreadRecord /\ r.state = s.threads[t].state
  BY DEF HeldBy, Sound, LockedRecord, ThreadRecord
<1> HIDE DEF r
<1>4. Sound(s2) /\ (\A u \in Threads \ {t} : s2.threads[u] = s.threads[u])
  BY <1>3, PutSound, PutType DEF Sound, HeldBy
<1> HIDE DEF s2
<1>5. SleepersAreInCalls'
  <2>1. threads' = s2.threads
    BY <1>1, <1>4, UnlockTypes
  <2>2. ASSUME NEW u \in Threads, threads'[u].wake # "idle"
        PROVE  stack'[u] # <<>> /\ Head(stack'[u]).call # "allocate"
    <3>1. CASE u = t
      BY <1>2, <3>1
    <3>2. CASE u # t
      <4>1. threads[u].wake # "idle" /\ stack'[u] = stack[u]
        BY <1>2, <1>4, <2>1, <2>2, <3>2 DEF HeldBy
      <4> QED BY <4>1 DEF AdaptorInv, SleepersAreInCalls, asleep, idle
    <3> QED BY <3>1, <3>2
  <2> QED BY <2>2 DEF SleepersAreInCalls, asleep, idle
<1> QED BY <1>1, <1>2, <1>4, <1>5, UnlockTypes DEF AdaptorInv, TypeOK

-----------------------------------------------------------------------------
(* The calls.                                                              *)

(* The thread that holds the mutex may change its own record.              *)
LEMMA PutHeld ==
  ASSUME NEW s, NEW t \in Threads, HeldBy(s, t), NEW r \in ThreadRecord, r.wake = "idle"
  PROVE  HeldBy(Put(s, t, r), t)
BY PutSound, PutType DEF HeldBy, Sound

(* Poking others does not put the holder to sleep.                         *)
LEMMA NudgedHeld ==
  ASSUME NEW s, NEW t \in Threads, HeldBy(s, t), NEW s2, Nudged(s, s2)
  PROVE  HeldBy(s2, t)
BY NudgedSound DEF HeldBy, SameSleepers

(* A thread that is not asleep holds the mutex when its action begins.     *)
LEMMA AwakeHolds ==
  ASSUME AdaptorInv, NEW t \in Threads, idle(t) \/ allocating(t) \/ ~asleep(t)
  PROVE  HeldBy(Locked, t) /\ threads[t] \in ThreadRecord /\ threads[t].wake = "idle"
<1>1. threads[t].wake = "idle"
  BY DEF AdaptorInv, SleepersAreInCalls, asleep, idle, allocating
<1> QED BY <1>1, LockedSound DEF HeldBy, Locked, AdaptorInv, TypeOK

(* The record of the thread that holds the mutex.                          *)
LEMMA HeldRecord ==
  ASSUME NEW s, NEW t \in Threads, HeldBy(s, t)
  PROVE  /\ s.threads[t] \in ThreadRecord
         /\ s \in LockedRecord
         /\ TotallyOrders(s.order)
         /\ s.threads[t].wake = "idle"
BY DEF HeldBy, Sound, LockedRecord

(* check_before_oom counts up to the limit.                                *)
LEMMA CheckBeforeOomType ==
  ASSUME NEW r \in ThreadRecord
  PROVE  /\ check_before_oom(r) \in ThreadRecord
         /\ check_before_oom(r).wake = r.wake
         /\ check_before_oom(r).state = r.state
<1>1. r.num_times_retried \in 0 .. RetryLimit
  BY DEF ThreadRecord
<1> DEFINE n == IF r.num_times_retried + 1 > RetryLimit
                THEN r.num_times_retried ELSE r.num_times_retried + 1
<1>2. n \in 0 .. RetryLimit
  BY <1>1, BoundsAssumption
<1>3. check_before_oom(r) = [r EXCEPT !.num_times_retried = n]
  BY DEF check_before_oom
<1> HIDE DEF n
<1> QED BY <1>2, <1>3 DEF ThreadRecord

(* Both ways to throw an OOM out of a wait.                                *)
LEMMA ThrowHeld ==
  ASSUME NEW s, NEW t \in Threads, HeldBy(s, t)
  PROVE  HeldBy(throw_retry_oom(s, t), t) /\ HeldBy(throw_split_and_retry_oom(s, t), t)
<1>1. ASSUME NEW st \in States
      PROVE  HeldBy(Put(s, t, check_before_oom(transition(s.threads[t], st))), t)
  <2>1. transition(s.threads[t], st) \in ThreadRecord /\ transition(s.threads[t], st).wake = "idle"
    BY HeldRecord, TransitionType
  <2>2. /\ check_before_oom(transition(s.threads[t], st)) \in ThreadRecord
        /\ check_before_oom(transition(s.threads[t], st)).wake = "idle"
    BY <2>1, CheckBeforeOomType
  <2> QED BY <2>2, PutHeld
<1> QED BY <1>1 DEF throw_retry_oom, throw_split_and_retry_oom, States

(* The end of pre_alloc_core.                                              *)
LEMMA BeginAllocateKeepsInv ==
  ASSUME AdaptorInv, NEW s, NEW t \in Threads, HeldBy(s, t), NEW f \in FrameRecord,
         NEW below \in Seq(FrameRecord), BeginAllocate(s, t, f, below)
  PROVE  AdaptorInv'
<1> DEFINE r == s.threads[t]
           p == transition(r, "ALLOC")
           q == [p EXCEPT !.is_cpu_alloc = f.cpu]
           g == [f EXCEPT !.call = "allocate"]
<1>1. p \in ThreadRecord /\ p.wake = "idle"
  BY HeldRecord, TransitionType DEF States
<1>2. q \in ThreadRecord /\ q.wake = "idle"
  <2> HIDE DEF p
  <2> QED BY <1>1 DEF ThreadRecord, FrameRecord
<1>3. HeldBy(Put(s, t, q), t)
  <2> HIDE DEF q
  <2> QED BY <1>2, PutHeld
<1>4. g \in FrameRecord
  BY DEF FrameRecord
<1>5. CASE r.state = "RUNNING"
  <2>1. Leave(Put(s, t, q), t, <<g>> \o below)
    BY <1>5 DEF BeginAllocate
  <2> HIDE DEF q, g
  <2> QED BY <1>3, <1>4, <2>1, PushFrame, LeaveKeepsInv
<1>6. CASE r.state # "RUNNING"
  <2>1. Leave(s, t, below)
    BY <1>6 DEF BeginAllocate
  <2> QED BY <2>1, LeaveKeepsInv
<1> QED BY <1>5, <1>6

(* One pass of the loop of block_thread_until_ready.                       *)
LEMMA BlockUntilReadyKeepsInv ==
  ASSUME AdaptorInv, NEW s, NEW t \in Threads, HeldBy(s, t), NEW f \in FrameRecord,
         f.call # "allocate", NEW below \in Seq(FrameRecord),
         BlockUntilReady(s, t, f, below)
  PROVE  AdaptorInv'
<1> DEFINE r == s.threads[t]
           b == Put(s, t, transition(r, "BUFN"))
           c == check_and_update_for_bufn(b, {})
<1>1. r \in ThreadRecord /\ r.wake = "idle"
  BY HeldRecord
<1>2. HeldBy(b, t)
  BY <1>1, TransitionType, PutHeld DEF States
<1>3. HeldBy(c, t)
  <2> HIDE DEF b
  <2> QED BY <1>2, HeldRecord, CheckNudges, NudgedHeld
<1> HIDE DEF c
<1>4. CASE is_blocked(r.state) /\ Wait(s, t, f, below)
  BY <1>4, WaitKeepsInv
<1>5. CASE Leave(throw_retry_oom(s, t), t, below)
  BY <1>5, ThrowHeld, LeaveKeepsInv
<1>6. CASE is_blocked(c.threads[t].state) /\ Wait(c, t, f, below)
  BY <1>3, <1>6, WaitKeepsInv
<1>7. CASE Leave(throw_split_and_retry_oom(c, t), t, below)
  BY <1>3, <1>7, ThrowHeld, LeaveKeepsInv
<1>8. CASE Leave(throw_split_and_retry_oom(s, t), t, below)
  BY <1>8, ThrowHeld, LeaveKeepsInv
<1>9. CASE Leave(Put(s, t, erase(r)), t, below)
  BY <1>1, <1>9, EraseType, PutHeld, LeaveKeepsInv
<1>10. CASE Leave(s, t, below)
  BY <1>10, LeaveKeepsInv
<1>11. CASE BeginAllocate(s, t, f, below)
  BY <1>11, BeginAllocateKeepsInv
<1> QED BY <1>4, <1>5, <1>6, <1>7, <1>8, <1>9, <1>10, <1>11 DEF BlockUntilReady, c

(* The counters of injected exceptions stay counters.                      *)
LEMMA InjectionType ==
  ASSUME NEW r \in ThreadRecord, NEW is_for_cpu \in BOOLEAN
  PROVE  /\ after_injection(r, is_for_cpu) \in ThreadRecord
         /\ after_injection(r, is_for_cpu).wake = r.wake
<1>1. ASSUME NEW oom \in OomState PROVE counted(oom, is_for_cpu) \in OomState
  <2>1. oom.hit \in Nat /\ oom.skip \in Nat
    BY DEF OomState
  <2>2. oom.skip > 0 => [oom EXCEPT !.skip = @ - 1] \in OomState
    BY <2>1 DEF OomState
  <2>3. oom.hit > 0 => [oom EXCEPT !.hit = @ - 1] \in OomState
    BY <2>1 DEF OomState
  <2> QED BY <2>2, <2>3 DEF counted
<1> DEFINE a == counted(r.retry_oom, is_for_cpu)
           b == counted(r.split_and_retry_oom, is_for_cpu)
           retried == [r EXCEPT !.retry_oom = a]
           failed_ == [retried EXCEPT !.cudf_exception_injected = @ - 1]
           split_ == [retried EXCEPT !.split_and_retry_oom = b]
<1>2. a \in OomState /\ b \in OomState /\ r.cudf_exception_injected \in Nat
  BY <1>1 DEF ThreadRecord
<1> HIDE DEF a, b
<1>3. retried \in ThreadRecord /\ retried.wake = r.wake
  BY <1>2 DEF ThreadRecord
<1>4. split_ \in ThreadRecord /\ split_.wake = r.wake
  BY <1>2 DEF ThreadRecord
<1>5. r.cudf_exception_injected > 0 => failed_ \in ThreadRecord /\ failed_.wake = r.wake
  <2>1. r.cudf_exception_injected > 0 => r.cudf_exception_injected - 1 \in Nat
    BY <1>2
  <2>2. retried.cudf_exception_injected = r.cudf_exception_injected
    BY DEF ThreadRecord
  <2> HIDE DEF retried
  <2> QED BY <1>3, <2>1, <2>2 DEF ThreadRecord
<1>6. after_injection(r, is_for_cpu) =
        IF hits(r.retry_oom, is_for_cpu) THEN retried
        ELSE IF r.cudf_exception_injected > 0 THEN failed_ ELSE split_
  BY DEF after_injection, a, b
<1> HIDE DEF retried, failed_, split_
<1> QED BY <1>3, <1>4, <1>5, <1>6

(* do_allocate, cpu_prealloc and their retries, up to the point where they *)
(* allocate, throw or wait.                                                *)
LEMMA PreAllocKeepsInv ==
  ASSUME AdaptorInv, NEW t \in Threads, HeldBy(Locked, t),
         NEW f \in FrameRecord, f.call # "allocate",
         NEW below \in Seq(FrameRecord), pre_alloc_core(t, f, below)
  PROVE  AdaptorInv'
<1> DEFINE r == threads[t]
           s == Put(Locked, t, after_injection(r, f.cpu))
           g == [f EXCEPT !.call = "allocate"]
           h == [f EXCEPT !.call = "allocate", !.recursive = TRUE]
<1>1. r \in ThreadRecord /\ r.wake = "idle"
  BY HeldRecord DEF Locked
<1>2. f.cpu \in BOOLEAN /\ g \in FrameRecord /\ h \in FrameRecord
  BY DEF FrameRecord
<1>3. HeldBy(s, t)
  BY <1>1, <1>2, InjectionType, PutHeld
<1> HIDE DEF s, g, h
<1>4. CASE Leave(Locked, t, <<g>> \o below)
  BY <1>2, <1>4, PushFrame, LeaveKeepsInv
<1>5. CASE Leave(Locked, t, below)
  BY <1>5, LeaveKeepsInv
<1>6. CASE Leave(Locked, t, <<h>> \o below)
  BY <1>2, <1>6, PushFrame, LeaveKeepsInv
<1>7. CASE Leave(s, t, below)
  BY <1>3, <1>7, LeaveKeepsInv
<1>8. CASE BlockUntilReady(s, t, f, below)
  BY <1>3, <1>8, BlockUntilReadyKeepsInv
<1>9. CASE BeginAllocate(s, t, f, below)
  BY <1>3, <1>9, BeginAllocateKeepsInv
<1> QED BY <1>4, <1>5, <1>6, <1>7, <1>8, <1>9 DEF pre_alloc_core, s, g, h

-----------------------------------------------------------------------------
(* Every action keeps the invariant.                                       *)

(* startDedicatedTaskThread, with or without the fix-up.                   *)
LEMMA StartDedicatedKeepsInv ==
  ASSUME AdaptorInv, NEW t \in Threads, NEW task \in Tasks,
         start_dedicated_task_thread(t, task)
  PROVE  AdaptorInv'
<1> DEFINE s == [Locked EXCEPT !.known = @ \cup {t}]
           old == threads[t].task_id
           fixed == IF old >= 0 /\ old # task
                    THEN remove_thread_association(s, {t}, old) ELSE s
           added == [fixed EXCEPT !.task_to_threads = insert_thread(@, task, t)]
<1>1. HeldBy(Locked, t) /\ threads[t] \in ThreadRecord
  BY AwakeHolds DEF start_dedicated_task_thread
<1>2. HeldBy(s, t)
  BY <1>1 DEF HeldBy, Sound, LockedRecord
<1>3. HeldBy(fixed, t)
  <2>1. old \in Tasks \cup {-1}
    BY <1>1 DEF ThreadRecord
  <2> HIDE DEF s, old
  <2> QED BY <1>2, <2>1, RemoveSound DEF HeldBy, SameSleepers
<1> HIDE DEF fixed
<1>4. HeldBy(added, t)
  BY <1>3 DEF HeldBy, Sound, LockedRecord, insert_thread
<1>5. /\ full_thread_state(task, FALSE) \in ThreadRecord
      /\ full_thread_state(task, FALSE).wake = "idle"
  BY <1>1, EraseType DEF full_thread_state, ThreadRecord, States
<1>6. HeldBy(Put(added, t, full_thread_state(task, FALSE)), t)
  <2> HIDE DEF added
  <2> QED BY <1>4, <1>5, PutHeld
<1> HIDE DEF added
<1>7. <<>> \in Seq(FrameRecord)
  OBVIOUS
<1>8. CASE Leave(Put(added, t, full_thread_state(task, FALSE)), t, <<>>)
  BY <1>6, <1>7, <1>8, LeaveKeepsInv
<1>9. CASE Leave(added, t, <<>>)
  BY <1>4, <1>7, <1>9, LeaveKeepsInv
<1>10. CASE Leave(fixed, t, <<>>)
  BY <1>3, <1>7, <1>10, LeaveKeepsInv
<1> QED BY <1>8, <1>9, <1>10 DEF start_dedicated_task_thread, added, fixed

(* poolThreadWorkingOnTasks and shuffleThreadWorkingTasks.                 *)
LEMMA PoolWorkingKeepsInv ==
  ASSUME AdaptorInv, NEW t \in Threads, NEW ids \in PoolTaskIds, NEW shuffle \in BOOLEAN,
         pool_thread_working_on_tasks(shuffle, t, ids)
  PROVE  AdaptorInv'
<1> DEFINE s == [Locked EXCEPT !.known = @ \cup {t}]
           r == IF ~registered(threads[t]) THEN full_thread_state(-1, shuffle) ELSE threads[t]
           q == [r EXCEPT !.pool_task_ids = @ \cup ids]
<1>1. HeldBy(Locked, t) /\ threads[t] \in ThreadRecord /\ threads[t].wake = "idle"
  BY AwakeHolds DEF pool_thread_working_on_tasks
<1>2. HeldBy(s, t)
  BY <1>1 DEF HeldBy, Sound, LockedRecord
<1>3. /\ full_thread_state(-1, shuffle) \in ThreadRecord
      /\ full_thread_state(-1, shuffle).wake = "idle"
  BY <1>1, EraseType DEF full_thread_state, ThreadRecord, States
<1>4. r \in ThreadRecord /\ r.wake = "idle"
  BY <1>1, <1>3
<1> HIDE DEF r
<1>5. ids \subseteq Tasks
  BY InputsAssumption
<1>6. q \in ThreadRecord /\ q.wake = "idle"
  BY <1>4, <1>5 DEF ThreadRecord
<1> HIDE DEF s
<1>7. HeldBy(Put(s, t, q), t)
  <2> HIDE DEF q
  <2> QED BY <1>2, <1>6, PutHeld
<1>8. <<>> \in Seq(FrameRecord)
  OBVIOUS
<1>9. CASE Leave(s, t, <<>>)
  BY <1>2, <1>8, <1>9, LeaveKeepsInv
<1>10. CASE Leave(Put(s, t, q), t, <<>>)
  <2> HIDE DEF q
  <2> QED BY <1>7, <1>8, <1>10, LeaveKeepsInv
<1> QED BY <1>9, <1>10 DEF pool_thread_working_on_tasks, s, r

(* poolThreadFinishedForTasks, which forgets a thread without tasks.       *)
LEMMA PoolFinishedKeepsInv ==
  ASSUME AdaptorInv, NEW t \in Threads, NEW ids \in PoolTaskIds,
         pool_thread_finished_for_tasks(t, ids)
  PROVE  AdaptorInv'
<1> DEFINE r == [threads[t] EXCEPT !.pool_task_ids = @ \ ids]
           s == Put(Locked, t, r)
           gone == remove_thread_association(s, {t}, -1)
           s2 == wake_up_if(gone, ended_running(r, -1))
<1>1. threads[t] \in ThreadRecord /\ Sound(Locked)
  BY LockedSound DEF AdaptorInv, TypeOK
<1>2. r \in ThreadRecord /\ r.wake = threads[t].wake /\ r.state = threads[t].state
  BY <1>1 DEF ThreadRecord
<1>3. r.wake = "waiting" => is_blocked(r.state)
  BY <1>2 DEF AdaptorInv, NoLostWakeup
<1> HIDE DEF r
<1>4. Sound(s) /\ SameSleepers(Locked, s)
  <2>1. Locked.threads[t] = threads[t]
    BY DEF Locked
  <2> QED BY <1>1, <1>2, <1>3, <2>1, PutSound
<1> HIDE DEF s
<1>5. Sound(gone) /\ SameSleepers(s, gone)
  BY <1>4, RemoveSound
<1> HIDE DEF gone
<1>6. Sound(s2) /\ SameSleepers(gone, s2)
  BY <1>5, WakeUpIfSound
<1> HIDE DEF s2
<1>7. UNCHANGED stack /\ adaptor' \in FinalStates /\ (Unlock(s) \/ Unlock(s2))
  BY DEF pool_thread_finished_for_tasks, s2, gone, s, r, FinalStates
<1> QED BY <1>4, <1>5, <1>6, <1>7, UnlockKeepsInv DEF SameSleepers

(* A removal followed by the wake-up it may cause.                         *)
LEMMA RemovalSound ==
  ASSUME AdaptorInv, NEW S \in SUBSET Threads, NEW k \in Tasks \cup {-1}, NEW ended
  PROVE  /\ Sound(wake_up_if(remove_thread_association(Locked, S, k), ended))
         /\ SameSleepers(Locked, wake_up_if(remove_thread_association(Locked, S, k), ended))
<1> DEFINE gone == remove_thread_association(Locked, S, k)
<1>1. Sound(gone) /\ SameSleepers(Locked, gone)
  BY LockedSound, RemoveSound
<1> HIDE DEF gone
<1>2. Sound(wake_up_if(gone, ended)) /\ SameSleepers(gone, wake_up_if(gone, ended))
  BY <1>1, WakeUpIfSound
<1> QED BY <1>1, <1>2 DEF SameSleepers, gone

(* removeThreadAssociation.                                                *)
LEMMA RemoveKeepsInv ==
  ASSUME AdaptorInv, NEW t \in Threads, NEW k \in Tasks \cup {-1},
         RemoveThreadAssociation(t, k)
  PROVE  AdaptorInv'
<1> DEFINE s == wake_up_if(remove_thread_association(Locked, {t}, k),
                           ended_running(threads[t], k))
<1>1. Sound(s) /\ SameSleepers(Locked, s)
  BY RemovalSound
<1>2. Unlock(s) /\ UNCHANGED stack /\ adaptor' \in FinalStates
  BY DEF RemoveThreadAssociation, FinalStates
<1> HIDE DEF s
<1> QED BY <1>1, <1>2, UnlockKeepsInv

(* taskDone.                                                               *)
LEMMA TaskDoneKeepsInv ==
  ASSUME AdaptorInv, NEW task \in Tasks, task_done(task)
  PROVE  AdaptorInv'
<1> DEFINE S == task_to_threads[task]
                  \cup {u \in Threads : task \in threads[u].pool_task_ids}
           ended == \E u \in S : ended_running(threads[u], task)
           s == wake_up_if(remove_thread_association(Locked, S, task), ended)
           s2 == [s EXCEPT !.task_to_threads[task] = {}]
<1>1. S \in SUBSET Threads
  BY DEF AdaptorInv, TypeOK
<1> HIDE DEF S
<1>2. Sound(s) /\ SameSleepers(Locked, s)
  <2> HIDE DEF ended
  <2> QED BY <1>1, RemovalSound
<1>3. Unlock(s2) /\ UNCHANGED stack /\ adaptor' \in FinalStates
  BY DEF task_done, S, FinalStates
<1> HIDE DEF s
<1>4. Sound(s2) /\ SameSleepers(Locked, s2)
  BY <1>2 DEF Sound, LockedRecord, SameSleepers
<1> HIDE DEF s2
<1> QED BY <1>3, <1>4, UnlockKeepsInv

(* TaskPriority.taskDone takes a task out of the order.                    *)
LEMMA ForgetKeepsInv ==
  ASSUME AdaptorInv, NEW task \in Tasks, priority_task_done(task)
  PROVE  AdaptorInv'
<1>1. order' = Forget(order, task)
        /\ UNCHANGED <<threads, task_to_threads, known_threads, stack, adaptor>>
  BY DEF priority_task_done
<1>2. OrderTypeOK' /\ StrictTotalOrder'
  <2>1. OrderTypeOK'
    BY <1>1 DEF AdaptorInv, TypeOK, OrderTypeOK, Forget
  <2>2. \A a, b : <<a, b>> \in order'.outranks <=>
                  <<a, b>> \in order.outranks /\ a # task /\ b # task
    BY <1>1 DEF Forget
  <2>3. order'.ranked = order.ranked \ {task}
    BY <1>1 DEF Forget
  <2> QED BY <2>1, <2>2, <2>3 DEF AdaptorInv, StrictTotalOrder, TotallyOrders
<1> QED BY <1>1, <1>2 DEF AdaptorInv, TypeOK, NoLostWakeup, SleepersAreInCalls, asleep, idle

(* One field of a record that has nothing to do with pausing changes.      *)
LEMMA PutKeepsInv ==
  ASSUME AdaptorInv, NEW t \in Threads, NEW r \in ThreadRecord,
         r.wake = threads[t].wake, r.state = threads[t].state,
         Unlock(Put(Locked, t, r)), UNCHANGED <<stack, adaptor>>
  PROVE  AdaptorInv'
<1>1. Sound(Locked) /\ Locked.threads = threads
  BY LockedSound DEF Locked
<1>2. r.wake = "waiting" => is_blocked(r.state)
  BY DEF AdaptorInv, NoLostWakeup
<1>3. Sound(Put(Locked, t, r)) /\ SameSleepers(Locked, Put(Locked, t, r))
  BY <1>1, <1>2, PutSound
<1>4. adaptor' \in FinalStates
  BY DEF AdaptorInv, TypeOK, FinalStates
<1> QED BY <1>3, <1>4, UnlockKeepsInv

(* waitingOnPoolStatusChanged and the three force_ calls.                  *)
LEMMA SettersKeepInv ==
  ASSUME AdaptorInv, NEW t \in Threads,
         \/ \E b \in BOOLEAN : waiting_on_pool_status_changed(t, b)
         \/ \E oom \in Injected[t] : force_retry_oom(t, oom)
         \/ \E oom \in Injected[t] : force_split_and_retry_oom(t, oom)
         \/ \E n \in CudfInjected[t] : force_cudf_exception(t, n)
  PROVE  AdaptorInv'
<1>1. threads[t] \in ThreadRecord
  BY DEF AdaptorInv, TypeOK
<1>2. ASSUME NEW b \in BOOLEAN, waiting_on_pool_status_changed(t, b) PROVE AdaptorInv'
  <2> DEFINE r == [threads[t] EXCEPT !.pool_blocked = b]
  <2>1. r \in ThreadRecord /\ r.wake = threads[t].wake
    BY <1>1 DEF ThreadRecord
  <2>2. HeldBy(Locked, t) /\ threads[t].wake = "idle"
    BY <1>2, AwakeHolds DEF waiting_on_pool_status_changed
  <2>3. Leave(Put(Locked, t, r), t, <<>>)
    BY <1>2 DEF waiting_on_pool_status_changed
  <2> HIDE DEF r
  <2>4. HeldBy(Put(Locked, t, r), t) /\ <<>> \in Seq(FrameRecord)
    BY <2>1, <2>2, PutHeld
  <2> QED BY <2>3, <2>4, LeaveKeepsInv
<1>3. ASSUME NEW oom \in Injected[t], force_retry_oom(t, oom) PROVE AdaptorInv'
  <2> DEFINE r == [threads[t] EXCEPT !.retry_oom = oom]
  <2>1. r \in ThreadRecord /\ r.wake = threads[t].wake /\ r.state = threads[t].state
    BY <1>1, InjectedAssumption DEF ThreadRecord, OomState
  <2>2. Unlock(Put(Locked, t, r)) /\ UNCHANGED <<stack, adaptor>>
    BY <1>3 DEF force_retry_oom
  <2> HIDE DEF r
  <2> QED BY <2>1, <2>2, PutKeepsInv
<1>4. ASSUME NEW oom \in Injected[t], force_split_and_retry_oom(t, oom) PROVE AdaptorInv'
  <2> DEFINE r == [threads[t] EXCEPT !.split_and_retry_oom = oom]
  <2>1. r \in ThreadRecord /\ r.wake = threads[t].wake /\ r.state = threads[t].state
    BY <1>1, InjectedAssumption DEF ThreadRecord, OomState
  <2>2. Unlock(Put(Locked, t, r)) /\ UNCHANGED <<stack, adaptor>>
    BY <1>4 DEF force_split_and_retry_oom
  <2> HIDE DEF r
  <2> QED BY <2>1, <2>2, PutKeepsInv
<1>5. ASSUME NEW n \in CudfInjected[t], force_cudf_exception(t, n) PROVE AdaptorInv'
  <2> DEFINE r == [threads[t] EXCEPT !.cudf_exception_injected = n]
  <2>1. r \in ThreadRecord /\ r.wake = threads[t].wake /\ r.state = threads[t].state
    BY <1>1, InputsAssumption DEF ThreadRecord
  <2>2. Unlock(Put(Locked, t, r)) /\ UNCHANGED <<stack, adaptor>>
    BY <1>5 DEF force_cudf_exception
  <2> HIDE DEF r
  <2> QED BY <2>1, <2>2, PutKeepsInv
<1> QED BY <1>2, <1>3, <1>4, <1>5

(* The frame on top of a stack that is not empty.                          *)
LEMMA TopFrame ==
  ASSUME AdaptorInv, NEW t \in Threads, ~idle(t)
  PROVE  Head(stack[t]) \in FrameRecord /\ Tail(stack[t]) \in Seq(FrameRecord)
<1>1. stack[t] \in Seq(FrameRecord) /\ stack[t] # <<>>
  BY DEF AdaptorInv, TypeOK, idle
<1> QED BY <1>1

(* A new allocation and the next try of a failed one.                      *)
LEMMA AllocKeepsInv ==
  ASSUME AdaptorInv, NEW t \in Threads,
         (\E kind \in AllocKinds : Alloc(t, kind[1], kind[2])) \/ RetryAlloc(t)
  PROVE  AdaptorInv'
<1>1. ASSUME NEW kind \in AllocKinds, Alloc(t, kind[1], kind[2]) PROVE AdaptorInv'
  <2> DEFINE f == Frame("pre_alloc", kind[1], kind[2], FALSE)
  <2>1. f \in FrameRecord /\ f.call # "allocate"
    BY InputsAssumption DEF Frame, FrameRecord
  <2>2. HeldBy(Locked, t) /\ stack[t] \in Seq(FrameRecord)
    BY <1>1, AwakeHolds DEF Alloc, AdaptorInv, TypeOK
  <2>3. pre_alloc_core(t, f, stack[t])
    BY <1>1 DEF Alloc
  <2> HIDE DEF f
  <2> QED BY <2>1, <2>2, <2>3, PreAllocKeepsInv
<1>2. ASSUME RetryAlloc(t) PROVE AdaptorInv'
  <2>1. /\ HeldBy(Locked, t)
        /\ Head(stack[t]) \in FrameRecord
        /\ Tail(stack[t]) \in Seq(FrameRecord)
        /\ Head(stack[t]).call # "allocate"
    BY <1>2, AwakeHolds, TopFrame DEF RetryAlloc
  <2>2. pre_alloc_core(t, Head(stack[t]), Tail(stack[t]))
    BY <1>2 DEF RetryAlloc
  <2> QED BY <2>1, <2>2, PreAllocKeepsInv
<1> QED BY <1>1, <1>2

(* The sleeper is awake and holds the mutex.                               *)
LEMMA WokenHolds ==
  ASSUME AdaptorInv, NEW t \in Threads
  PROVE  HeldBy(Woken(t), t)
<1> DEFINE r == [threads[t] EXCEPT !.wake = "idle"]
<1>1. r \in ThreadRecord /\ r.wake = "idle"
  BY DEF AdaptorInv, TypeOK, ThreadRecord
<1>2. Sound(Locked) /\ Locked \in LockedRecord /\ Locked.threads = threads
  BY LockedSound DEF Sound, Locked
<1>3. Woken(t) = Put(Locked, t, r)
  BY DEF Woken
<1> HIDE DEF r
<1>4. Sound(Put(Locked, t, r))
  BY <1>1, <1>2, PutSound
<1> QED BY <1>1, <1>2, <1>3, <1>4, PutType DEF HeldBy

(* blockThreadUntilReady, and waking up in it or in an allocation.         *)
LEMMA BlockKeepsInv ==
  ASSUME AdaptorInv, NEW t \in Threads,
         block_thread_until_ready(t) \/ WakeUp(t)
  PROVE  AdaptorInv'
<1>1. CASE block_thread_until_ready(t)
  <2> DEFINE f == Frame("ready", FALSE, TRUE, FALSE)
  <2>1. f \in FrameRecord /\ f.call # "allocate"
    BY DEF Frame, FrameRecord
  <2>2. HeldBy(Locked, t) /\ <<>> \in Seq(FrameRecord)
    BY <1>1, AwakeHolds DEF block_thread_until_ready
  <2>3. BlockUntilReady(Locked, t, f, <<>>)
    BY <1>1 DEF block_thread_until_ready
  <2> HIDE DEF f
  <2> QED BY <2>1, <2>2, <2>3, BlockUntilReadyKeepsInv
<1>2. CASE WakeUp(t)
  <2>1. asleep(t)
    BY <1>2 DEF WakeUp, asleep
  <2>2. ~idle(t) /\ Head(stack[t]).call # "allocate"
    BY <2>1 DEF AdaptorInv, SleepersAreInCalls
  <2>3. BlockUntilReady(Woken(t), t, Head(stack[t]), Tail(stack[t]))
    BY <1>2 DEF WakeUp
  <2> QED BY <2>2, <2>3, TopFrame, WokenHolds, BlockUntilReadyKeepsInv
<1> QED BY <1>1, <1>2

(* Waking up after the record was erased, whatever the outcome.            *)
LEMMA ErasedKeepsInv ==
  ASSUME AdaptorInv, NEW t \in Threads, WakeUpErased(t)
  PROVE  AdaptorInv'
<1> DEFINE f == Head(stack[t])
           g == [f EXCEPT !.call = "allocate"]
           below == Tail(stack[t])
<1>1. asleep(t)
  BY DEF WakeUpErased, asleep
<1>2. f \in FrameRecord /\ below \in Seq(FrameRecord)
  BY <1>1, TopFrame DEF AdaptorInv, SleepersAreInCalls
<1>3. g \in FrameRecord
  BY <1>2 DEF FrameRecord
<1>4. CASE adaptor' = "crashed"
           /\ UNCHANGED <<threads, task_to_threads, order, known_threads, stack>>
  BY <1>4 DEF AdaptorInv, TypeOK, OrderTypeOK, StrictTotalOrder, NoLostWakeup,
              SleepersAreInCalls, asleep, idle
<1>5. CASE Leave(Woken(t), t, below)
  BY <1>2, <1>5, WokenHolds, LeaveKeepsInv
<1>6. CASE Leave(Woken(t), t, <<g>> \o below)
  <2> HIDE DEF g, below
  <2> QED BY <1>2, <1>3, <1>6, WokenHolds, PushFrame, LeaveKeepsInv
<1> QED BY <1>4, <1>5, <1>6 DEF WakeUpErased

(* The wrapped resource returned memory.                                   *)
LEMMA SuccessKeepsInv ==
  ASSUME AdaptorInv, NEW t \in Threads, post_alloc_success(t)
  PROVE  AdaptorInv'
<1> DEFINE p == transition(threads[t], "RUNNING")
           r == [p EXCEPT !.is_cpu_alloc = FALSE, !.is_retry_alloc_before_bufn = FALSE]
           cpu == Head(stack[t]).cpu
           s == Put(Locked, t, r)
           s2 == wake_next_highest_priority_blocked(s, cpu)
<1>1. HeldBy(Locked, t) /\ threads[t] \in ThreadRecord /\ threads[t].wake = "idle"
  BY AwakeHolds DEF post_alloc_success
<1>2. cpu \in BOOLEAN /\ Tail(stack[t]) \in Seq(FrameRecord)
  BY TopFrame DEF post_alloc_success, allocating, FrameRecord
<1>3. p \in ThreadRecord /\ p.wake = "idle"
  BY <1>1, TransitionType DEF States
<1> HIDE DEF p
<1>4. r \in ThreadRecord /\ r.wake = "idle"
  BY <1>3 DEF ThreadRecord
<1> HIDE DEF r
<1>5. HeldBy(s, t)
  BY <1>1, <1>4, PutHeld
<1> HIDE DEF s, cpu
<1>6. HeldBy(s2, t)
  BY <1>2, <1>5, HeldRecord, WakeNextNudges, NudgedHeld
<1> HIDE DEF s2
<1>7. CASE Leave(s2, t, Tail(stack[t]))
  BY <1>2, <1>6, <1>7, LeaveKeepsInv
<1>8. CASE Leave(Locked, t, Tail(stack[t]))
  BY <1>1, <1>2, <1>8, LeaveKeepsInv
<1> QED BY <1>7, <1>8 DEF post_alloc_success, s2, s, r, p, cpu

(* The record of a failed allocation: the thread itself is awake.          *)
LEMMA FailedType ==
  ASSUME NEW r \in ThreadRecord, r.wake = "idle", NEW is_oom \in BOOLEAN,
         NEW blocking \in BOOLEAN
  PROVE  failed(r, is_oom, blocking) \in ThreadRecord
           /\ failed(r, is_oom, blocking).wake = "idle"
<1>1. \A st \in States : transition(r, st) \in ThreadRecord /\ transition(r, st).wake = "idle"
  BY TransitionType
<1> DEFINE p == transition(r, "BUFN_THROW")
           q == [p EXCEPT !.is_retry_alloc_before_bufn = FALSE]
<1>2. p \in ThreadRecord /\ p.wake = "idle"
  BY <1>1 DEF States
<1> HIDE DEF p
<1>3. q \in ThreadRecord /\ q.wake = "idle"
  BY <1>2 DEF ThreadRecord
<1> HIDE DEF q
<1>4. notify_all(q) \in ThreadRecord /\ notify_all(q).wake = "idle"
  BY <1>3, NotifyType
<1>5. failed(r, is_oom, blocking) \in
        {notify_all(q), transition(r, "RUNNING"), transition(r, "BLOCKED")}
  BY DEF failed, q, p
<1> QED BY <1>1, <1>4, <1>5 DEF States

(* The wrapped resource failed.                                            *)
LEMMA FailedKeepsInv ==
  ASSUME AdaptorInv, NEW t \in Threads, NEW is_oom \in BOOLEAN,
         post_alloc_failed(t, is_oom)
  PROVE  AdaptorInv'
<1> DEFINE f == Head(stack[t])
           g == [f EXCEPT !.call = "pre_alloc"]
           s == IF tracked(t) THEN Put(Locked, t, failed(threads[t], is_oom, f.blocking))
                ELSE Locked
           c == check_and_update_for_bufn(s, {})
<1>1. HeldBy(Locked, t) /\ threads[t] \in ThreadRecord /\ threads[t].wake = "idle"
  BY AwakeHolds DEF post_alloc_failed
<1>2. f \in FrameRecord /\ Tail(stack[t]) \in Seq(FrameRecord)
  BY TopFrame DEF post_alloc_failed, allocating
<1>3. g \in FrameRecord /\ f.blocking \in BOOLEAN
  BY <1>2 DEF FrameRecord
<1>4. HeldBy(s, t)
  <2> HIDE DEF f
  <2> QED BY <1>1, <1>3, FailedType, PutHeld
<1> HIDE DEF s
<1>5. HeldBy(c, t)
  BY <1>4, HeldRecord, CheckNudges, NudgedHeld
<1> HIDE DEF c
<1>6. Leave(c, t, <<g>> \o Tail(stack[t])) \/ Leave(c, t, Tail(stack[t]))
  BY DEF post_alloc_failed, c, s
<1> HIDE DEF g
<1>7. <<g>> \o Tail(stack[t]) \in Seq(FrameRecord)
  BY <1>2, <1>3, PushFrame
<1> QED BY <1>2, <1>5, <1>6, <1>7, LeaveKeepsInv

(* A free of memory of either kind.                                        *)
LEMMA DeallocKeepsInv ==
  ASSUME AdaptorInv, NEW t \in Threads, NEW is_for_cpu \in BOOLEAN,
         dealloc_core(t, is_for_cpu)
  PROVE  AdaptorInv'
<1> DEFINE told(u) == IF u # t /\ threads[u].state = "ALLOC"
                           /\ threads[u].is_cpu_alloc = is_for_cpu
                      THEN transition(threads[u], "ALLOC_FREE") ELSE threads[u]
           s == [Locked EXCEPT !.threads = [u \in Threads |-> told(u)]]
           s2 == wake_next_highest_priority_blocked(s, is_for_cpu)
<1>1. Sound(Locked) /\ Locked.threads = threads
  BY LockedSound DEF Locked
<1>2. ASSUME NEW u \in Threads
      PROVE  /\ told(u) \in ThreadRecord
             /\ told(u).wake = threads[u].wake
             /\ told(u).wake = "waiting" => is_blocked(told(u).state)
  <2>1. threads[u] \in ThreadRecord
    BY DEF AdaptorInv, TypeOK
  <2>2. threads[u].wake = "waiting" => is_blocked(threads[u].state)
    BY DEF AdaptorInv, NoLostWakeup
  <2>3. CASE told(u) = threads[u]
    BY <2>1, <2>2, <2>3
  <2>4. CASE threads[u].state = "ALLOC" /\ told(u) = transition(threads[u], "ALLOC_FREE")
    BY <2>1, <2>2, <2>4, TransitionType DEF States, is_blocked
  <2> QED BY <2>3, <2>4
<1> HIDE DEF told
<1>3. /\ s \in LockedRecord
      /\ s.order = Locked.order
      /\ \A u \in Threads : s.threads[u] = told(u)
  BY <1>1, <1>2 DEF Sound, LockedRecord
<1> HIDE DEF s
<1>4. Sound(s) /\ SameSleepers(Locked, s)
  BY <1>1, <1>2, <1>3 DEF Sound, SameSleepers
<1>5. Sound(s2) /\ SameSleepers(s, s2)
  BY <1>4, WakeNextNudges, NudgedSound DEF Sound
<1> HIDE DEF s2
<1>6. Unlock(s2) /\ UNCHANGED stack /\ adaptor' \in FinalStates
  BY DEF dealloc_core, s2, s, told, AdaptorInv, TypeOK, FinalStates
<1> QED BY <1>4, <1>5, <1>6, UnlockKeepsInv DEF SameSleepers

(* The watchdog, and both halves of all_done().                            *)
LEMMA WatchdogKeepsInv ==
  ASSUME AdaptorInv, check_and_break_deadlocks \/ all_done \/ all_done_returns
  PROVE  AdaptorInv'
<1>1. CASE check_and_break_deadlocks
  <2>1. PICK blocked : Unlock(check_and_update_for_bufn(Locked, blocked))
    BY <1>1 DEF check_and_break_deadlocks
  <2> DEFINE s == check_and_update_for_bufn(Locked, blocked)
  <2>2. Sound(s) /\ SameSleepers(Locked, s)
    BY LockedSound, CheckNudges, NudgedSound DEF Sound
  <2> HIDE DEF s
  <2>3. UNCHANGED stack /\ adaptor' \in FinalStates
    BY <1>1 DEF check_and_break_deadlocks, FinalStates
  <2> QED BY <2>1, <2>2, <2>3, UnlockKeepsInv DEF s
<1>2. CASE all_done
  <2> DEFINE s == remove_thread_association(Locked, Threads, -1)
  <2>1. Sound(s) /\ SameSleepers(Locked, s)
    BY LockedSound, RemoveSound
  <2>2. Unlock(s) /\ UNCHANGED stack /\ adaptor' \in FinalStates
    BY <1>2 DEF all_done, FinalStates
  <2> HIDE DEF s
  <2> QED BY <2>1, <2>2, UnlockKeepsInv
<1>3. CASE all_done_returns
  BY <1>3 DEF all_done_returns, AdaptorInv, TypeOK, OrderTypeOK, StrictTotalOrder,
              NoLostWakeup, SleepersAreInCalls, asleep, idle
<1> QED BY <1>1, <1>2, <1>3

-----------------------------------------------------------------------------

(* The invariant is inductive.                                             *)
THEOREM AdaptorInvariant == Spec => []AdaptorInv
<1>1. Init => AdaptorInv
  <2> SUFFICES ASSUME Init PROVE AdaptorInv
    OBVIOUS
  <2>1. Unregistered \in ThreadRecord /\ Unregistered.wake = "idle"
    <3>1. no_oom \in OomState
      BY DEF no_oom, OomState
    <3>2. 0 \in 0 .. RetryLimit /\ 0 \in Nat
      BY BoundsAssumption
    <3> QED BY <3>1, <3>2 DEF Unregistered, ThreadRecord, States
  <2>2. threads \in [Threads -> ThreadRecord] /\ \A t \in Threads : threads[t].wake = "idle"
    BY <2>1 DEF Init
  <2>3. stack \in [Threads -> Seq(FrameRecord)]
    BY DEF Init
  <2>4. OrderTypeOK /\ StrictTotalOrder
    BY DEF Init, OrderInit, NoOrder, OrderTypeOK, StrictTotalOrder, TotallyOrders
  <2> QED BY <2>2, <2>3, <2>4
       DEF Init, AdaptorInv, TypeOK, NoLostWakeup, SleepersAreInCalls, asleep
<1>2. AdaptorInv /\ [Next]_vars => AdaptorInv'
  <2> SUFFICES ASSUME AdaptorInv, [Next]_vars PROVE AdaptorInv'
    OBVIOUS
  <2>1. ASSUME NEW t \in Threads, ThreadStep(t) PROVE AdaptorInv'
    BY <2>1, StartDedicatedKeepsInv, PoolWorkingKeepsInv, PoolFinishedKeepsInv,
       RemoveKeepsInv, SettersKeepInv, AllocKeepsInv, BlockKeepsInv, ErasedKeepsInv,
       SuccessKeepsInv, FailedKeepsInv, DeallocKeepsInv DEF ThreadStep
  <2>2. CASE UNCHANGED vars
    BY <2>2 DEF vars, AdaptorInv, TypeOK, OrderTypeOK, StrictTotalOrder, NoLostWakeup,
                SleepersAreInCalls, asleep, idle
  <2> QED BY <2>1, <2>2, TaskDoneKeepsInv, ForgetKeepsInv, WatchdogKeepsInv DEF Next
<1> QED BY <1>1, <1>2, PTL DEF Spec

(* Every reachable state of the adaptor is well-typed: in particular the   *)
(* retry counter of check_before_oom never passes its limit.               *)
THEOREM AdaptorTypeCorrect == Spec => []TypeOK
<1>1. AdaptorInv => TypeOK
  BY DEF AdaptorInv
<1> QED BY <1>1, AdaptorInvariant, PTL

(* The comparisons of thread_priority always have one winner.              *)
THEOREM PrioritiesTotallyOrdered == Spec => []StrictTotalOrder
<1>1. AdaptorInv => StrictTotalOrder
  BY DEF AdaptorInv
<1> QED BY <1>1, AdaptorInvariant, PTL

(* No thread sleeps un-notified in a state that no longer asks it to,      *)
(* for any number of threads, tasks, removals and injected exceptions.     *)
THEOREM WakeupsAreNotLost == Spec => []NoLostWakeup
<1>1. AdaptorInv => NoLostWakeup
  BY DEF AdaptorInv
<1> QED BY <1>1, AdaptorInvariant, PTL
=============================================================================
