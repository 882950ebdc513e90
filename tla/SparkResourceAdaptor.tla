------------------------ MODULE SparkResourceAdaptor ------------------------
(***************************************************************************)
(* SparkResourceAdaptorJni.cpp: the resource adaptor that pauses, rolls    *)
(* back and splits the work of threads whose allocations fail.             *)
(*                                                                         *)
(* Every entry point holds state_mutex from its first to its last          *)
(* statement, except while it waits on a condition variable.  An action is *)
(* therefore one stretch of code between two releases of the mutex, and    *)
(* the helpers it calls are operators from the locked state to the locked  *)
(* state.  What a thread does between two such stretches is kept on its    *)
(* stack: a failing allocation can spill, and the spill can allocate.      *)
(***************************************************************************)
EXTENDS TaskOrder, FiniteSets, FiniteSetsExt, Sequences

CONSTANTS
  Threads,        \* native thread ids; std::map walks them in this order
  Dedicated,      \* pairs <<thread, task>> of startDedicatedTaskThread
  PoolThreads,    \* threads that register for work of a pool
  ShuffleThreads, \* threads that register for work of the shuffle
  PoolTaskIds,    \* the sets of task ids a pool or shuffle thread picks up
  AllocKinds,     \* the allocations made: pairs <<is_for_cpu, blocking>>
  Removals,       \* pairs <<thread, task id or -1>> of removeThreadAssociation
  DoneTasks,      \* the tasks that taskDone reports to the adaptor
  Forgotten,      \* tasks the plugin reports to TaskPriority.taskDone
  Injected,       \* by thread: oom_state_type values given to force_*_oom
  CudfInjected,   \* by thread: counts given to force_cudf_exception
  RetryLimit,     \* 500 in check_before_oom
  MaxDepth,       \* bound: allocations nested in one another on one thread
  JavaBlocked,    \* threads the watchdog may find blocked in Java
  CanShutDown     \* bound: whether the adaptor is closed at all

ASSUME ThreadsAssumption == Threads \subseteq Nat \ {0} /\ IsFiniteSet(Threads)
ASSUME FiniteTasksAssumption == IsFiniteSet(Tasks)
ASSUME InputsAssumption ==
  /\ PoolTaskIds \subseteq SUBSET Tasks /\ {} \notin PoolTaskIds
  /\ AllocKinds \subseteq BOOLEAN \X BOOLEAN
  /\ Removals \subseteq Threads \X (Tasks \cup {-1})
  /\ \A t \in Threads : CudfInjected[t] \subseteq Nat
ASSUME InjectedAssumption ==
  \A t \in Threads : Injected[t] \subseteq [hit : Nat, skip : Nat, filter : {"CPU_OR_GPU", "CPU", "GPU"}]
ASSUME BoundsAssumption == RetryLimit \in Nat /\ MaxDepth \in Nat

VARIABLES
  threads,          \* full_thread_state of every thread; UNKNOWN when absent
  task_to_threads,  \* the dedicated threads of every task
  known_threads,    \* ThreadStateRegistry.knownThreads
  stack,            \* the calls into the adaptor each thread is in the middle of
  adaptor           \* "open", "shutting_down", or how all_done() returned

vars == <<threads, task_to_threads, order, known_threads, stack, adaptor>>

-----------------------------------------------------------------------------
(* Thread records.                                                         *)

is_blocked(st) == st \in {"BLOCKED", "BUFN"}

no_oom == [hit |-> 0, skip |-> 0, filter |-> "CPU_OR_GPU"]

\* wake is where the thread is with respect to its wake_condition.
Unregistered ==
  [state |-> "UNKNOWN", task_id |-> -1, is_for_shuffle |-> FALSE,
   pool_task_ids |-> {}, is_cpu_alloc |-> FALSE, pool_blocked |-> FALSE,
   is_retry_alloc_before_bufn |-> FALSE, retry_oom |-> no_oom,
   split_and_retry_oom |-> no_oom, cudf_exception_injected |-> 0,
   num_times_retried |-> 0, wake |-> "idle"]

full_thread_state(task, shuffle) ==
  [Unregistered EXCEPT !.state = "RUNNING", !.task_id = task,
                       !.is_for_shuffle = shuffle]

registered(r) == r.state # "UNKNOWN"

\* threads.erase; a sleeper outlives its record.
erase(r) == [Unregistered EXCEPT !.wake = r.wake]

transition(r, st) == [r EXCEPT !.state = st]

\* Slip: the state changes but nobody is notified.
notify_nobody(r) == r

notify_all(r) == [r EXCEPT !.wake = IF @ = "waiting" THEN "notified" ELSE @]

\* Slip: the limit is compared before the new attempt is counted.
check_before_oom_late(r) ==
  [r EXCEPT !.num_times_retried = IF @ > RetryLimit THEN @ ELSE @ + 1]

\* check_before_oom: past the limit the OOM that is thrown is not retryable.
check_before_oom(r) ==
  [r EXCEPT !.num_times_retried = IF @ + 1 > RetryLimit THEN @ ELSE @ + 1]

\* The task whose priority the thread has; -1 is above every task.
priority_task(r) ==
  IF r.task_id < 0 /\ ~r.is_for_shuffle /\ r.pool_task_ids # {}
  THEN Min(r.pool_task_ids)
  ELSE r.task_id

-----------------------------------------------------------------------------
(* Priorities.  A scan over the threads asks for the priority of each in   *)
(* the order of the thread ids, so tasks never asked about before are      *)
(* ranked in the order of their first thread.                              *)

Scan(o, ts, C) ==
  LET asked == {priority_task(ts[u]) : u \in C} \ {-1}
      new == asked \ o.ranked
      first(k) == Min({u \in C : priority_task(ts[u]) = k})
  IN  [ranked |-> o.ranked \cup new,
       outranks |-> o.outranks \cup (o.ranked \X new)
                      \cup {p \in new \X new : first(p[1]) < first(p[2])}]

\* thread_priority::operator>
Above(o, ts, u, v) ==
  LET a == priority_task(ts[u])
      b == priority_task(ts[v])
  IN  IF a = b THEN u > v
      ELSE a = -1 \/ (b # -1 /\ <<a, b>> \in o.outranks)

Highest(o, ts, C) == CHOOSE u \in C : \A v \in C \ {u} : Above(o, ts, u, v)
Lowest(o, ts, C) == CHOOSE u \in C : \A v \in C \ {u} : Above(o, ts, v, u)

-----------------------------------------------------------------------------
(* The locked state, and what the helpers make of it.                      *)

Locked == [threads |-> threads, task_to_threads |-> task_to_threads,
           order |-> order, known |-> known_threads]

Unlock(s) ==
  /\ threads' = s.threads
  /\ task_to_threads' = s.task_to_threads
  /\ order' = s.order
  /\ known_threads' = s.known

Put(s, t, r) == [s EXCEPT !.threads[t] = r]

InState(ts, st) == {u \in Threads : ts[u].state = st}

wake_next_highest_priority_blocked(s, is_for_cpu) ==
  LET C == {u \in InState(s.threads, "BLOCKED") :
              s.threads[u].is_cpu_alloc = is_for_cpu}
      o == Scan(s.order, s.threads, C)
      w == Highest(o, s.threads, C)
      r == notify_all(transition(s.threads[w], "RUNNING"))
  IN  IF C = {} THEN s ELSE Put([s EXCEPT !.order = o], w, r)

\* Slip: a thread in BUFN is taken for one that still does something.
bufn_not_counted(t, r, java_blocked) ==
  r.pool_blocked \/ (r.state # "BLOCKED" /\ t \in java_blocked)

is_thread_bufn_or_above(t, r, java_blocked) ==
  \/ r.pool_blocked
  \/ r.state = "BUFN"
  \/ r.state # "BLOCKED" /\ t \in java_blocked

\* A task is blocked if one of its dedicated threads is and all the pool
\* threads that work for it are; there is a deadlock if every task is.
is_in_deadlock(ts, java_blocked) ==
  LET Stuck(u) == \/ is_thread_bufn_or_above(u, ts[u], java_blocked)
                  \/ ts[u].state = "BLOCKED"
      all_task_ids == {ts[u].task_id : u \in {v \in Threads : ts[v].task_id >= 0}}
      blocked_task_ids ==
        {ts[u].task_id : u \in {v \in Threads : ts[v].task_id >= 0 /\ Stuck(v)}}
          \ UNION {ts[u].pool_task_ids :
                     u \in {v \in Threads : ts[v].task_id < 0 /\ ~Stuck(v)}}
  IN  all_task_ids # {} /\ Cardinality(blocked_task_ids) = Cardinality(all_task_ids)

\* Slip: a task that is BUFN for both reasons is counted twice.
all_bufn_counting_twice(ts, java_blocked) ==
  LET Bufn(u) == is_thread_bufn_or_above(u, ts[u], java_blocked)
      all_task_ids == {ts[u].task_id : u \in {v \in Threads : ts[v].task_id >= 0}}
      dedicated_bufn ==
        {ts[u].task_id : u \in {v \in Threads : ts[v].task_id >= 0 /\ Bufn(v)}}
      Pool(k) == {u \in Threads : ts[u].task_id < 0 /\ k \in ts[u].pool_task_ids}
      pool_bufn == {k \in Tasks : Pool(k) # {} /\ \A u \in Pool(k) : Bufn(u)}
  IN  Cardinality(all_task_ids) = Cardinality(dedicated_bufn) + Cardinality(pool_bufn)

\* The code compares how many tasks have a dedicated thread with how many
\* count as blocked until further notice, not which they are.
all_bufn(ts, java_blocked) ==
  LET Bufn(u) == is_thread_bufn_or_above(u, ts[u], java_blocked)
      all_task_ids == {ts[u].task_id : u \in {v \in Threads : ts[v].task_id >= 0}}
      dedicated_bufn ==
        {ts[u].task_id : u \in {v \in Threads : ts[v].task_id >= 0 /\ Bufn(v)}}
      Pool(k) == {u \in Threads : ts[u].task_id < 0 /\ k \in ts[u].pool_task_ids}
      pool_bufn == {k \in Tasks : Pool(k) # {} /\ \A u \in Pool(k) : Bufn(u)}
  IN  Cardinality(all_task_ids) = Cardinality(dedicated_bufn \cup pool_bufn)

\* The lowest thread that is only BLOCKED rolls back; if it is the last one
\* it retries its allocation once before that.
roll_back_lowest_blocked(s) ==
  LET C == InState(s.threads, "BLOCKED")
      o == Scan(s.order, s.threads, C)
      b == Lowest(o, s.threads, C)
      r == IF Cardinality(C) = 1
           THEN [transition(s.threads[b], "RUNNING")
                   EXCEPT !.is_retry_alloc_before_bufn = TRUE]
           ELSE transition(s.threads[b], "BUFN_THROW")
  IN  IF C = {} THEN s ELSE Put([s EXCEPT !.order = o], b, notify_all(r))

split_highest_bufn(s) ==
  LET C == InState(s.threads, "BUFN")
      o == Scan(s.order, s.threads, C)
      w == Highest(o, s.threads, C)
      r == notify_all(transition(s.threads[w], "SPLIT_THROW"))
  IN  IF C = {} THEN s ELSE Put([s EXCEPT !.order = o], w, r)

\* The counts are taken before the first thread is moved.
check_and_update_for_bufn(s, java_blocked) ==
  LET rolled_back == roll_back_lowest_blocked(s)
  IN  IF ~is_in_deadlock(s.threads, java_blocked) THEN s
      ELSE IF all_bufn(s.threads, java_blocked) THEN split_highest_bufn(rolled_back)
      ELSE rolled_back

\* All BLOCKED threads are woken, or else all that are BUFN or on the way.
wake_up_threads_after_task_finishes(s) ==
  LET Woken == IF InState(s.threads, "BLOCKED") # {}
               THEN {"BLOCKED"}
               ELSE {"BUFN", "BUFN_THROW", "BUFN_WAIT"}
  IN  [s EXCEPT !.threads =
         [u \in Threads |->
            IF s.threads[u].state \in Woken
            THEN notify_all(transition(s.threads[u], "RUNNING"))
            ELSE s.threads[u]]]

-----------------------------------------------------------------------------
(* remove_thread_association(thread, k): k = -1 removes any association.   *)

without_task(r, k) ==
  IF r.task_id < 0 THEN [r EXCEPT !.pool_task_ids = @ \ {k}] ELSE r

thread_should_be_removed(r, k) ==
  /\ registered(r)
  /\ \/ k < 0
     \/ r.task_id >= 0 /\ r.task_id = k
     \/ r.task_id < 0 /\ r.pool_task_ids \subseteq {k}

\* Slip: only BLOCKED threads are told, BUFN threads are forgotten.
removed_if_not_blocked(r, k) ==
  IF ~thread_should_be_removed(r, k) THEN without_task(r, k)
  ELSE IF r.state = "BLOCKED"
       THEN notify_all(transition(without_task(r, k), "REMOVE_THROW"))
       ELSE erase(r)

\* A blocked thread is told to throw, any other one is forgotten at once.
removed(r, k) ==
  IF ~thread_should_be_removed(r, k) THEN without_task(r, k)
  ELSE IF is_blocked(r.state)
       THEN notify_all(transition(without_task(r, k), "REMOVE_THROW"))
       ELSE erase(r)

\* What remove_thread_association returns: a running thread ended.
ended_running(r, k) == thread_should_be_removed(r, k) /\ r.state = "RUNNING"

remove_thread_association(s, S, k) ==
  LET gone == {u \in S : thread_should_be_removed(s.threads[u], k)}
  IN  [s EXCEPT
         !.threads = [u \in Threads |->
                        IF u \in S THEN removed(s.threads[u], k) ELSE s.threads[u]],
         !.task_to_threads = [j \in Tasks |-> IF j = k THEN @[j] \ gone ELSE @[j]],
         !.known = @ \ gone]

\* The public entry points run this when one of S ended while running.
wake_up_if(s, ended) == IF ended THEN wake_up_threads_after_task_finishes(s) ELSE s

-----------------------------------------------------------------------------
(* Calls.  A frame is a call that has begun: "pre_alloc" until the         *)
(* allocation may be tried, "allocate" while the wrapped resource (or the  *)
(* host allocator) works on it, "ready" for block_thread_until_ready.      *)

Frame(call, is_for_cpu, blocking, recursive) ==
  [call |-> call, cpu |-> is_for_cpu, blocking |-> blocking, recursive |-> recursive]

idle(t) == stack[t] = <<>>
asleep(t) == threads[t].wake # "idle"
allocating(t) == ~idle(t) /\ Head(stack[t]).call = "allocate"

Exists == adaptor \in {"open", "shutting_down"}

\* The call returns or throws: the caller is back in its own code.
Leave(s, t, below) ==
  Unlock(s) /\ stack' = [stack EXCEPT ![t] = below] /\ UNCHANGED adaptor

\* wake_condition->wait(lock) releases the mutex in the middle of the call.
Wait(s, t, f, below) ==
  /\ Unlock(Put(s, t, [s.threads[t] EXCEPT !.wake = "waiting"]))
  /\ stack' = [stack EXCEPT ![t] = <<f>> \o below]
  /\ UNCHANGED adaptor

throw_retry_oom(s, t) ==
  Put(s, t, check_before_oom(transition(s.threads[t], "BUFN_WAIT")))

throw_split_and_retry_oom(s, t) ==
  Put(s, t, check_before_oom(transition(s.threads[t], "RUNNING")))

\* The end of pre_alloc_core: the allocation may be tried, if the thread runs.
BeginAllocate(s, t, f, below) ==
  LET r == s.threads[t]
  IN  IF r.state = "RUNNING"
      THEN Leave(Put(s, t, [transition(r, "ALLOC") EXCEPT !.is_cpu_alloc = f.cpu]),
                 t, <<[f EXCEPT !.call = "allocate"]>> \o below)
      ELSE Leave(s, t, below)

\* One pass of the loop of block_thread_until_ready, up to the point where
\* the thread waits, throws, or is done; the pre_alloc that called it goes on.
BlockUntilReady(s, t, f, below) ==
  LET r == s.threads[t]
      c == check_and_update_for_bufn(Put(s, t, transition(r, "BUFN")), {})
  IN  \/ /\ is_blocked(r.state)
         /\ Wait(s, t, f, below)
      \/ /\ r.state = "BUFN_THROW"
         /\ Leave(throw_retry_oom(s, t), t, below)
      \/ /\ r.state = "BUFN_WAIT"
         /\ is_blocked(c.threads[t].state)
         /\ Wait(c, t, f, below)
      \/ /\ r.state = "BUFN_WAIT"
         /\ c.threads[t].state = "SPLIT_THROW"
         /\ Leave(throw_split_and_retry_oom(c, t), t, below)
      \/ /\ r.state = "SPLIT_THROW"
         /\ Leave(throw_split_and_retry_oom(s, t), t, below)
      \/ /\ r.state = "REMOVE_THROW"
         /\ Leave(Put(s, t, erase(r)), t, below)
      \/ /\ r.state \in {"RUNNING", "ALLOC", "ALLOC_FREE"}
         /\ IF f.call = "ready" THEN Leave(s, t, below)
                                ELSE BeginAllocate(s, t, f, below)

-----------------------------------------------------------------------------
(* Injected exceptions (intended for tests), in the order pre_alloc_core   *)
(* looks at them.                                                          *)

matches(oom, is_for_cpu) ==
  oom.filter \in {"CPU_OR_GPU", IF is_for_cpu THEN "CPU" ELSE "GPU"}

hits(oom, is_for_cpu) == matches(oom, is_for_cpu) /\ oom.skip = 0 /\ oom.hit > 0

counted(oom, is_for_cpu) ==
  IF ~matches(oom, is_for_cpu) THEN oom
  ELSE IF oom.skip > 0 THEN [oom EXCEPT !.skip = @ - 1]
  ELSE IF oom.hit > 0 THEN [oom EXCEPT !.hit = @ - 1]
  ELSE oom

\* pre_alloc throws one of the injected exceptions.
injection_throws(r, is_for_cpu) ==
  \/ hits(r.retry_oom, is_for_cpu)
  \/ r.cudf_exception_injected > 0
  \/ hits(r.split_and_retry_oom, is_for_cpu)

\* Each counter is looked at only if the ones before it did not throw.
after_injection(r, is_for_cpu) ==
  LET retried == [r EXCEPT !.retry_oom = counted(@, is_for_cpu)]
      failed == [retried EXCEPT !.cudf_exception_injected = @ - 1]
      split == [retried EXCEPT !.split_and_retry_oom = counted(@, is_for_cpu)]
  IN  IF hits(r.retry_oom, is_for_cpu) THEN retried
      ELSE IF r.cudf_exception_injected > 0 THEN failed
      ELSE split

-----------------------------------------------------------------------------
(* Registration.  RmmSpark adds the thread to ThreadStateRegistry first.   *)
(* These calls, and the ones of the watchdog, are refused once close() of  *)
(* the adaptor has begun; threads register themselves.                     *)

\* Slip: task_to_threads.insert of a key that exists inserts nothing.
insert_first_thread(ttt, task, t) ==
  [ttt EXCEPT ![task] = IF @ = {} THEN {t} ELSE @]

insert_thread(ttt, task, t) == [ttt EXCEPT ![task] = @ \cup {t}]

start_dedicated_task_thread(t, task) ==
  LET s == [Locked EXCEPT !.known = @ \cup {t}]
      old == threads[t].task_id
      fixed == IF old >= 0 /\ old # task
               THEN remove_thread_association(s, {t}, old) ELSE s
      r == fixed.threads[t]
      added == [fixed EXCEPT !.task_to_threads = insert_thread(@, task, t)]
  IN  /\ adaptor = "open" /\ <<t, task>> \in Dedicated /\ idle(t)
      /\ \/ /\ ~registered(r)
            /\ Leave(Put(added, t, full_thread_state(task, FALSE)), t, <<>>)
         \/ /\ registered(r) /\ r.task_id = task /\ r.state # "REMOVE_THROW"
            /\ Leave(added, t, <<>>)
         \/ /\ registered(r) /\ (r.task_id # task \/ r.state = "REMOVE_THROW")
            /\ Leave(fixed, t, <<>>)

pool_thread_working_on_tasks(is_for_shuffle, t, task_ids) ==
  LET s == [Locked EXCEPT !.known = @ \cup {t}]
      new == ~registered(threads[t])
      r == IF new THEN full_thread_state(-1, is_for_shuffle) ELSE threads[t]
      refused == \/ r.task_id # -1
                 \/ r.state = "REMOVE_THROW"
                 \/ r.is_for_shuffle # is_for_shuffle
  IN  /\ adaptor = "open" /\ idle(t)
      /\ t \in IF is_for_shuffle THEN ShuffleThreads ELSE PoolThreads
      /\ IF refused THEN Leave(s, t, <<>>)
         ELSE Leave(Put(s, t, [r EXCEPT !.pool_task_ids = @ \cup task_ids]), t, <<>>)

pool_thread_finished_for_tasks(t, task_ids) ==
  LET r == [threads[t] EXCEPT !.pool_task_ids = @ \ task_ids]
      s == Put(Locked, t, r)
  IN  /\ adaptor = "open" /\ t \in PoolThreads \cup ShuffleThreads
      /\ registered(threads[t])
      /\ UNCHANGED <<stack, adaptor>>
      /\ IF r.pool_task_ids # {} THEN Unlock(s)
         ELSE Unlock(wake_up_if(remove_thread_association(s, {t}, -1),
                                ended_running(r, -1)))

RemoveThreadAssociation(t, task) ==
  /\ adaptor = "open" /\ <<t, task>> \in Removals
  /\ registered(threads[t])
  /\ Unlock(wake_up_if(remove_thread_association(Locked, {t}, task),
                       ended_running(threads[t], task)))
  /\ UNCHANGED <<stack, adaptor>>

task_done(task) ==
  LET S == task_to_threads[task]
             \cup {u \in Threads : task \in threads[u].pool_task_ids}
      s == wake_up_if(remove_thread_association(Locked, S, task),
                      \E u \in S : ended_running(threads[u], task))
  IN  /\ adaptor = "open" /\ task \in DoneTasks
      /\ Unlock([s EXCEPT !.task_to_threads[task] = {}])
      /\ UNCHANGED <<stack, adaptor>>

\* TaskPriority.taskDone: a separate call of the plugin.
priority_task_done(task) ==
  /\ task \in Forgotten
  /\ order' = Forget(order, task)
  /\ UNCHANGED <<threads, task_to_threads, known_threads, stack, adaptor>>

waiting_on_pool_status_changed(t, pool_blocked) ==
  /\ adaptor = "open" /\ idle(t) /\ threads[t].task_id >= 0
  /\ PoolThreads \cup ShuffleThreads # {}
  /\ Leave(Put(Locked, t, [threads[t] EXCEPT !.pool_blocked = pool_blocked]), t, <<>>)

force_retry_oom(t, oom) ==
  /\ adaptor = "open" /\ registered(threads[t])
  /\ Unlock(Put(Locked, t, [threads[t] EXCEPT !.retry_oom = oom]))
  /\ UNCHANGED <<stack, adaptor>>

force_split_and_retry_oom(t, oom) ==
  /\ adaptor = "open" /\ registered(threads[t])
  /\ Unlock(Put(Locked, t, [threads[t] EXCEPT !.split_and_retry_oom = oom]))
  /\ UNCHANGED <<stack, adaptor>>

force_cudf_exception(t, num_times) ==
  /\ adaptor = "open" /\ registered(threads[t])
  /\ Unlock(Put(Locked, t, [threads[t] EXCEPT !.cudf_exception_injected = num_times]))
  /\ UNCHANGED <<stack, adaptor>>

-----------------------------------------------------------------------------
(* Allocation and deallocation.                                            *)

pre_alloc_core(t, f, below) ==
  LET r == threads[t]
      s == Put(Locked, t, after_injection(r, f.cpu))
      nested == r.state \in {"ALLOC", "ALLOC_FREE"}
      normal == registered(r) /\ ~nested
  IN  \/ /\ ~registered(r)
         /\ Leave(Locked, t, <<[f EXCEPT !.call = "allocate"]>> \o below)
      \/ /\ nested /\ f.cpu /\ f.blocking
         /\ Leave(Locked, t, below)
      \/ /\ nested /\ ~(f.cpu /\ f.blocking)
         /\ Leave(Locked, t,
              <<[f EXCEPT !.call = "allocate", !.recursive = TRUE]>> \o below)
      \/ /\ normal /\ injection_throws(r, f.cpu)
         /\ Leave(s, t, below)
      \/ /\ normal /\ ~injection_throws(r, f.cpu) /\ f.blocking
         /\ BlockUntilReady(s, t, f, below)
      \/ /\ normal /\ ~injection_throws(r, f.cpu) /\ ~f.blocking
         /\ BeginAllocate(s, t, f, below)

\* do_allocate and cpu_prealloc: a new allocation, perhaps inside another one.
Alloc(t, is_for_cpu, blocking) ==
  /\ Exists /\ (idle(t) \/ allocating(t))
  /\ Len(stack[t]) < MaxDepth
  /\ pre_alloc_core(t, Frame("pre_alloc", is_for_cpu, blocking, FALSE), stack[t])

\* The next iteration of the loop around a failed allocation.
RetryAlloc(t) ==
  /\ Exists /\ ~idle(t) /\ ~asleep(t)
  /\ Head(stack[t]).call = "pre_alloc"
  /\ pre_alloc_core(t, Head(stack[t]), Tail(stack[t]))

block_thread_until_ready(t) ==
  /\ Exists /\ idle(t)
  /\ BlockUntilReady(Locked, t, Frame("ready", FALSE, TRUE, FALSE), <<>>)

\* The sleeper holds the mutex again and goes on where it waited.
Woken(t) == Put(Locked, t, [threads[t] EXCEPT !.wake = "idle"])

WakeUp(t) ==
  /\ Exists /\ threads[t].wake = "notified" /\ registered(threads[t])
  /\ BlockUntilReady(Woken(t), t, Head(stack[t]), Tail(stack[t]))

\* The record is gone: block_thread_until_ready calls after_block() on
\* threads.end() and pre_alloc_core reads the erased node.  The process dies
\* of it, or the call goes on as its caller's memory happens to tell.
WakeUpErased(t) ==
  LET f == Head(stack[t])
      below == Tail(stack[t])
  IN  /\ Exists /\ threads[t].wake = "notified" /\ ~registered(threads[t])
      /\ \/ /\ adaptor' = "crashed"
            /\ UNCHANGED <<threads, task_to_threads, order, known_threads, stack>>
         \/ Leave(Woken(t), t, below)
         \/ /\ f.call = "pre_alloc"
            /\ Leave(Woken(t), t, <<[f EXCEPT !.call = "allocate"]>> \o below)

\* Slip: was_recursive is not looked at.
tracked_if_registered(t) == registered(threads[t])

\* The state of the thread counts only for the outermost allocation.
tracked(t) == registered(threads[t]) /\ ~Head(stack[t]).recursive

\* The conditions under which post_alloc_*_core throws an internal error.
internal_error(t) ==
  /\ tracked(t)
  /\ \/ threads[t].is_cpu_alloc # Head(stack[t]).cpu
     \/ threads[t].state \notin {"ALLOC", "ALLOC_FREE"}

post_alloc_success(t) ==
  LET f == Head(stack[t])
      r == [transition(threads[t], "RUNNING") EXCEPT
              !.is_cpu_alloc = FALSE, !.is_retry_alloc_before_bufn = FALSE]
  IN  /\ Exists /\ allocating(t) /\ ~internal_error(t)
      /\ IF tracked(t)
         THEN Leave(wake_next_highest_priority_blocked(Put(Locked, t, r), f.cpu),
                    t, Tail(stack[t]))
         ELSE Leave(Locked, t, Tail(stack[t]))

\* Slip: every failure of a blocking allocation blocks, also one that is
\* passed on to the caller.
failed_always_blocks(r, is_oom, blocking) ==
  IF r.state = "ALLOC_FREE" THEN transition(r, "RUNNING")
  ELSE IF is_oom /\ r.is_retry_alloc_before_bufn
       THEN notify_all([transition(r, "BUFN_THROW")
                          EXCEPT !.is_retry_alloc_before_bufn = FALSE])
  ELSE IF blocking THEN transition(r, "BLOCKED")
  ELSE transition(r, "RUNNING")

\* The record of a thread whose outermost allocation failed.
failed(r, is_oom, blocking) ==
  IF r.state = "ALLOC_FREE" THEN transition(r, "RUNNING")
  ELSE IF is_oom /\ r.is_retry_alloc_before_bufn
       THEN notify_all([transition(r, "BUFN_THROW")
                          EXCEPT !.is_retry_alloc_before_bufn = FALSE])
  ELSE IF is_oom /\ blocking THEN transition(r, "BLOCKED")
  ELSE transition(r, "RUNNING")

\* GPU allocations loop while post_alloc_failed returns true, blocking CPU
\* allocations until they succeed; other exceptions are passed on.
post_alloc_failed(t, is_oom) ==
  LET f == Head(stack[t])
      s == IF tracked(t)
           THEN Put(Locked, t, failed(threads[t], is_oom, f.blocking))
           ELSE Locked
      again == is_oom /\ f.blocking /\ (f.cpu \/ tracked(t))
  IN  /\ Exists /\ allocating(t) /\ ~internal_error(t)
      /\ Leave(check_and_update_for_bufn(s, {}), t,
               IF again THEN <<[f EXCEPT !.call = "pre_alloc"]>> \o Tail(stack[t])
                        ELSE Tail(stack[t]))

\* Every other thread in the middle of an allocation is told of the free.
dealloc_core(t, is_for_cpu) ==
  LET told(u) == IF u # t /\ threads[u].state = "ALLOC"
                      /\ threads[u].is_cpu_alloc = is_for_cpu
                 THEN transition(threads[u], "ALLOC_FREE") ELSE threads[u]
      s == [Locked EXCEPT !.threads = [u \in Threads |-> told(u)]]
  IN  /\ Exists /\ (idle(t) \/ allocating(t))
      /\ \E kind \in AllocKinds : kind[1] = is_for_cpu
      /\ Unlock(wake_next_highest_priority_blocked(s, is_for_cpu))
      /\ UNCHANGED <<stack, adaptor>>

-----------------------------------------------------------------------------
(* The watchdog, and shutting down.                                        *)

check_and_break_deadlocks ==
  /\ adaptor = "open"
  /\ \E blocked \in SUBSET (known_threads \cap JavaBlocked) :
       Unlock(check_and_update_for_bufn(Locked, blocked))
  /\ UNCHANGED <<stack, adaptor>>

\* Slip: only the threads listed under a task are removed.
all_done_for_tasks ==
  /\ CanShutDown /\ adaptor = "open"
  /\ Unlock(remove_thread_association(Locked, UNION {task_to_threads[k] : k \in Tasks}, -1))
  /\ adaptor' = "shutting_down"
  /\ UNCHANGED stack

all_done ==
  /\ CanShutDown /\ adaptor = "open"
  /\ Unlock(remove_thread_association(Locked, Threads, -1))
  /\ adaptor' = "shutting_down"
  /\ UNCHANGED stack

\* wait_for(lock, timeout, [this] { return !threads.empty(); }), then delete.
all_done_returns ==
  /\ adaptor = "shutting_down"
  /\ adaptor' = IF \E t \in Threads : registered(threads[t])
                THEN "returned" ELSE "timed_out"
  /\ UNCHANGED <<threads, task_to_threads, order, known_threads, stack>>

-----------------------------------------------------------------------------

Init ==
  /\ threads = [t \in Threads |-> Unregistered]
  /\ task_to_threads = [k \in Tasks |-> {}]
  /\ OrderInit
  /\ known_threads = {}
  /\ stack = [t \in Threads |-> <<>>]
  /\ adaptor = "open"

ThreadStep(t) ==
  \/ \E k \in Tasks : start_dedicated_task_thread(t, k)
  \/ \E ids \in PoolTaskIds, shuffle \in BOOLEAN :
       pool_thread_working_on_tasks(shuffle, t, ids)
  \/ \E ids \in PoolTaskIds : pool_thread_finished_for_tasks(t, ids)
  \/ \E k \in Tasks \cup {-1} : RemoveThreadAssociation(t, k)
  \/ \E b \in BOOLEAN : waiting_on_pool_status_changed(t, b)
  \/ \E oom \in Injected[t] : force_retry_oom(t, oom)
  \/ \E oom \in Injected[t] : force_split_and_retry_oom(t, oom)
  \/ \E n \in CudfInjected[t] : force_cudf_exception(t, n)
  \/ \E kind \in AllocKinds : Alloc(t, kind[1], kind[2])
  \/ RetryAlloc(t)
  \/ block_thread_until_ready(t)
  \/ WakeUp(t)
  \/ WakeUpErased(t)
  \/ post_alloc_success(t)
  \/ \E is_oom \in BOOLEAN : post_alloc_failed(t, is_oom)
  \/ \E is_for_cpu \in BOOLEAN : dealloc_core(t, is_for_cpu)

Next ==
  \/ \E t \in Threads : ThreadStep(t)
  \/ \E k \in Tasks : task_done(k)
  \/ \E k \in Tasks : priority_task_done(k)
  \/ check_and_break_deadlocks
  \/ all_done
  \/ all_done_returns

Spec == Init /\ [][Next]_vars

-----------------------------------------------------------------------------
(* Properties.                                                             *)

States == {"UNKNOWN", "RUNNING", "ALLOC", "ALLOC_FREE", "BLOCKED", "BUFN_THROW",
           "BUFN_WAIT", "BUFN", "SPLIT_THROW", "REMOVE_THROW"}

OomState == [hit : Nat, skip : Nat, filter : {"CPU_OR_GPU", "CPU", "GPU"}]

ThreadRecord ==
  [state : States, task_id : Tasks \cup {-1}, is_for_shuffle : BOOLEAN,
   pool_task_ids : SUBSET Tasks, is_cpu_alloc : BOOLEAN, pool_blocked : BOOLEAN,
   is_retry_alloc_before_bufn : BOOLEAN, retry_oom : OomState,
   split_and_retry_oom : OomState, cudf_exception_injected : Nat,
   num_times_retried : 0 .. RetryLimit, wake : {"idle", "waiting", "notified"}]

FrameRecord ==
  [call : {"pre_alloc", "allocate", "ready"}, cpu : BOOLEAN, blocking : BOOLEAN,
   recursive : BOOLEAN]

TypeOK ==
  /\ threads \in [Threads -> ThreadRecord]
  /\ task_to_threads \in [Tasks -> SUBSET Threads]
  /\ OrderTypeOK
  /\ known_threads \in SUBSET Threads
  /\ stack \in [Threads -> Seq(FrameRecord)]
  /\ adaptor \in {"open", "shutting_down", "returned", "timed_out", "crashed"}

(* No wake-up is lost: a thread that sleeps un-notified in                 *)
(* wake_condition->wait is in a state that still asks it to sleep, whoever *)
(* changed the state, and in whatever order frees, deadlock checks and     *)
(* removals took the mutex.                                                *)
NoLostWakeup ==
  \A t \in Threads : threads[t].wake = "waiting" => is_blocked(threads[t].state)

(* The adaptor never throws its own "mismatch on CPU vs GPU post alloc" or *)
(* "unexpected state after alloc failed": while the wrapped resource works *)
(* for a thread, frees of others, removals, deadlock checks and nested     *)
(* allocations leave it in ALLOC or ALLOC_FREE with the right kind, or     *)
(* unregistered.                                                           *)
NoInternalError == \A t \in Threads : allocating(t) => ~internal_error(t)

(* Where one stretch of locked code may take a thread.  It is the diagram  *)
(* of docs/memory_management.md, closed under the moves made one after the *)
(* other under the mutex: an allocation that fails last is rolled back at  *)
(* once, a thread about to become BUFN may be told to split instead.       *)
Reach ==
  [UNKNOWN |-> {"RUNNING"},
   RUNNING |-> {"ALLOC", "UNKNOWN"},
   ALLOC |-> {"ALLOC_FREE", "RUNNING", "BLOCKED", "BUFN_THROW", "UNKNOWN"},
   ALLOC_FREE |-> {"RUNNING", "UNKNOWN"},
   BLOCKED |-> {"RUNNING", "BUFN_THROW", "REMOVE_THROW"},
   BUFN_THROW |-> {"BUFN_WAIT", "RUNNING", "UNKNOWN"},
   BUFN_WAIT |-> {"BUFN", "RUNNING", "UNKNOWN"},
   BUFN |-> {"SPLIT_THROW", "RUNNING", "REMOVE_THROW"},
   SPLIT_THROW |-> {"RUNNING", "UNKNOWN"},
   REMOVE_THROW |-> {"UNKNOWN"}]

(* Whoever takes the mutex, a thread moves only along the diagram; in      *)
(* particular a paused thread is never forgotten without being told.       *)
FollowsDiagram ==
  [][\A t \in Threads :
       threads'[t].state \in Reach[threads[t].state] \cup {threads[t].state}]_vars

(* A thread that counts as paused really is inside the allocation that     *)
(* failed, a thread that is BUFN or must split really sleeps: the deadlock *)
(* check never takes a thread for stuck that is out doing something.       *)
PausedThreadsArePaused ==
  \A t \in Threads :
    /\ threads[t].state \in {"BLOCKED", "BUFN_THROW"} =>
         ~idle(t) /\ Head(stack[t]).call = "pre_alloc"
    /\ threads[t].state \in {"BUFN", "SPLIT_THROW"} => asleep(t)

(* task_done(k) finds every dedicated thread of k: unless it is already    *)
(* being removed, the thread is listed under its task, whatever            *)
(* registrations, fix-ups and removals with or without a task id came      *)
(* before.                                                                 *)
TaskKnowsItsThreads ==
  \A t \in Threads :
    threads[t].task_id >= 0 /\ threads[t].state # "REMOVE_THROW" =>
      t \in task_to_threads[threads[t].task_id]

(* All registered threads are paused, and each pool thread works only for  *)
(* tasks that have a dedicated thread.                                     *)
AllStuck ==
  LET R == {t \in Threads : registered(threads[t])}
      D == {threads[t].task_id : t \in R} \ {-1}
  IN  /\ D # {}
      /\ \A t \in R : is_blocked(threads[t].state) /\ threads[t].pool_task_ids \subseteq D

(* If everybody waits for everybody, one round of the watchdog gets some   *)
(* thread going, whatever mix of BLOCKED and BUFN, dedicated, pool and     *)
(* shuffle threads it finds and whatever it believes of the Java threads.  *)
DeadlockIsBroken ==
  AllStuck =>
    \A java_blocked \in SUBSET Threads :
      LET s == check_and_update_for_bufn(Locked, java_blocked)
      IN  \E t \in Threads : is_blocked(threads[t].state) /\ ~is_blocked(s.threads[t].state)

(* Once all_done() has let go of the mutex nobody sleeps unnoticed: every  *)
(* thread was forgotten or has a notification to throw pending, also the   *)
(* ones that fail an allocation or wake up while the adaptor shuts down.   *)
ShutdownReachesEveryone ==
  adaptor # "open" /\ adaptor # "crashed" =>
    \A t \in Threads : /\ threads[t].state \in {"UNKNOWN", "REMOVE_THROW"}
                       /\ threads[t].wake # "waiting"

(* The watchdog polls for as long as the adaptor is open, a notified       *)
(* thread gets the mutex, and a failed allocation loops.                   *)
Fairness ==
  /\ WF_vars(check_and_break_deadlocks)
  /\ \A t \in Threads : WF_vars(WakeUp(t)) /\ WF_vars(RetryAlloc(t))

FairSpec == Spec /\ Fairness

(* Everybody sleeps inside the open adaptor, waiting for a wake-up, and    *)
(* there is a task to work for.                                            *)
AllAsleep ==
  LET R == {t \in Threads : registered(threads[t])}
      D == {threads[t].task_id : t \in R} \ {-1}
  IN  /\ adaptor = "open" /\ D # {}
      /\ \A t \in R : asleep(t) /\ threads[t].pool_task_ids \subseteq D

(* Threads that all sleep do not do so forever: without any help from      *)
(* outside one of them is picked, told to retry, to roll back or to split, *)
(* and gets to run.                                                        *)
SomebodyWakes == AllAsleep ~> ~AllAsleep

=============================================================================
