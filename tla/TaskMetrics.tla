---------------------------- MODULE TaskMetrics ----------------------------
(***************************************************************************)
(* The metrics of SparkResourceAdaptorJni.cpp: collected by thread,        *)
(* reported by task, and moved from one to the other (checkpointed)        *)
(* whenever a thread changes what it works for.  Every operation holds     *)
(* state_mutex.  Of the thread's states only those are kept that metrics   *)
(* tell apart: running, blocked (BLOCKED and BUFN) and removing            *)
(* (REMOVE_THROW); SparkResourceAdaptor has the others.                    *)
(***************************************************************************)
EXTENDS Integers, FiniteSets, FiniteSetsExt

CONSTANTS Workers,          \* thread ids
          Tasks,            \* task ids
          NoTask,           \* task id -1
          MaxClock,         \* bound on the time that passes
          MaxThrows,        \* bound on the exceptions thrown, by the metric watched
          MaxBytes,         \* bound on the memory allocated
          MaxChanges        \* bound on the changes of what threads work for

ASSUME WorkersAssumption == IsFiniteSet(Workers)
ASSUME NoTaskAssumption == NoTask \notin Tasks

VARIABLES
    worker,             \* threads: what is known of each thread
    task_to_threads,    \* the dedicated threads of a task
    task_to_metrics,    \* what was checkpointed for a task
    gpu_memory_allocated_bytes,
    clock,
    \* History, for the properties only.
    watched,            \* the metric this behaviour is about: the fields do not depend on each other
    changes,            \* changes made
    thrown,             \* exceptions thrown in all
    owed,               \* by task: exceptions thrown for it and not yet reported
    highest,            \* by task: the highest total reported so far
    highWater,          \* the most memory that was ever allocated
    spoiled             \* tasks hit by one of the losses the code is known to have

metricsVars == <<worker, task_to_threads, task_to_metrics, gpu_memory_allocated_bytes, clock,
                 watched, changes, thrown, owed, highest, highWater, spoiled>>

\* task_metrics, of which a counter (exceptions thrown), a time (lost or blocked) and a maximum (of
\* the memory allocated) stand for the others.
Clear == [throws |-> 0, total |-> 0, max_allocated |-> 0]
Larger(a, b) == IF a > b THEN a ELSE b

\* A mutant: peaks of different threads are added up.
add_summed(m, other) == [f \in DOMAIN m |-> m[f] + other[f]]

add(m, other) == [f \in DOMAIN m |-> IF f = "max_allocated" THEN Larger(m[f], other[f]) ELSE m[f] + other[f]]

Absent == [state |-> "unknown", task |-> NoTask, pool |-> {}, metrics |-> Clear, waiting |-> FALSE, since |-> 0,
           in_retry |-> FALSE, retry_start |-> 0, retry_running |-> 0]

MetricsInit ==
    /\ worker = [t \in Workers |-> Absent]
    /\ task_to_threads = [k \in Tasks |-> {}]
    /\ task_to_metrics = [k \in Tasks |-> Clear]
    /\ gpu_memory_allocated_bytes = 0 /\ clock = 0
    /\ watched \in DOMAIN Clear /\ changes = 0
    /\ thrown = 0 /\ owed = [k \in Tasks |-> 0] /\ highest = [k \in Tasks |-> 0] /\ highWater = 0 /\ spoiled = {}

Registered(t) == worker[t].state # "unknown"
\* The tasks a thread works for.
WorksFor(w) == IF w.task = NoTask THEN w.pool ELSE {w.task}

-----------------------------------------------------------------------------
(* Moving metrics from threads to tasks *)

\* A mutant: only dedicated threads are saved.
checkpointed_dedicated(metrics, w) ==
    [k \in Tasks |-> IF k = w.task THEN add(metrics[k], w.metrics) ELSE metrics[k]]

\* checkpoint_metrics: a pool thread counts in full for each of its tasks; the thread starts again.
checkpointed(metrics, w) == [k \in Tasks |-> IF k \in WorksFor(w) THEN add(metrics[k], w.metrics) ELSE metrics[k]]
cleared(w) == [w EXCEPT !.metrics = Clear]

\* remove_thread_association as a function of the state [worker, listed, metrics, spoiled].  A blocked
\* thread stays until it has woken; k = NoTask removes the thread whatever it works for.
Removed(st, t, k) ==
    LET w      == st.worker[t]
        kept   == IF w.task = NoTask THEN [cleared(w) EXCEPT !.pool = @ \ {k}] ELSE cleared(w)
        gone   == k = NoTask \/ (IF w.task = NoTask THEN kept.pool = {} ELSE w.task = k)
    IN  IF w.state = "unknown" THEN st
        ELSE [worker  |-> [st.worker EXCEPT ![t] = IF ~gone THEN kept
                                                   ELSE IF w.state = "blocked" THEN [kept EXCEPT !.state = "removing"]
                                                   ELSE Absent],
              listed  |-> IF gone /\ k # NoTask THEN [st.listed EXCEPT ![k] = @ \ {t}] ELSE st.listed,
              metrics |-> checkpointed(st.metrics, w),
              spoiled |-> st.spoiled
                  \* time blocked so far is not in the metrics yet, and the thread is listed no more
                  \cup (IF gone /\ w.waiting THEN WorksFor(w) ELSE {})
                  \* a dedicated thread that stays listed: readings for the task reset what it does for others
                  \cup (IF k = NoTask /\ w.task # NoTask THEN Tasks ELSE {})]

Current == [worker |-> worker, listed |-> task_to_threads, metrics |-> task_to_metrics, spoiled |-> spoiled]
Become(st) == /\ worker' = st.worker /\ task_to_threads' = st.listed
              /\ task_to_metrics' = st.metrics /\ spoiled' = st.spoiled
Update(t, w) == worker' = [worker EXCEPT ![t] = w]

\* A call that throws invalid_argument changes nothing, except here: the thread has by then been taken
\* from the task it was dedicated to.
start_dedicated_task_thread(t, k) ==
    LET st       == IF worker[t].task \in Tasks \ {k} THEN Removed(Current, t, worker[t].task) ELSE Current
        w        == st.worker[t]
        accepted == w.state = "unknown" \/ (w.state # "removing" /\ w.task = k)
        known    == IF w.state = "unknown" THEN [Absent EXCEPT !.state = "running", !.task = k] ELSE w
    IN  /\ accepted \/ st # Current
        /\ Become(IF accepted THEN [st EXCEPT !.worker[t] = known, !.listed[k] = @ \cup {t}] ELSE st)
        /\ UNCHANGED <<gpu_memory_allocated_bytes, clock, thrown, owed, highWater>>

pool_thread_working_on_tasks(t, ks) ==
    LET w == IF Registered(t) THEN worker[t] ELSE [Absent EXCEPT !.state = "running"]
    IN  /\ w.task = NoTask /\ w.state # "removing"
        /\ Update(t, [cleared(w) EXCEPT !.pool = @ \cup ks])
        /\ task_to_metrics' = checkpointed(task_to_metrics, w)
        /\ UNCHANGED <<task_to_threads, gpu_memory_allocated_bytes, clock, thrown, owed, highWater, spoiled>>

pool_thread_finished_for_tasks(t, ks) ==
    LET w  == worker[t]
        st == [Current EXCEPT !.worker[t] = [cleared(w) EXCEPT !.pool = @ \ ks], !.metrics = checkpointed(@, w)]
    IN  /\ Registered(t)
        /\ Become(IF w.pool \subseteq ks THEN Removed(st, t, NoTask) ELSE st)
        /\ UNCHANGED <<gpu_memory_allocated_bytes, clock, thrown, owed, highWater>>

remove_thread_association(t, k) ==
    /\ Registered(t)
    /\ Become(Removed(Current, t, k))
    /\ UNCHANGED <<gpu_memory_allocated_bytes, clock, thrown, owed, highWater>>

\* A pool thread is taken off its finished task before its metrics are saved.
Released(st, t, k) ==
    IF k \notin st.worker[t].pool THEN st
    ELSE LET less == [st EXCEPT !.worker[t].pool = @ \ {k},
                                !.spoiled = @ \cup (IF st.worker[t].metrics # Clear THEN {k} ELSE {})]
         IN  IF less.worker[t].pool = {} THEN Removed(less, t, k) ELSE less

\* task_done: the dedicated threads, then the pool threads.
task_done(k) ==
    LET dedicated == FoldSet(LAMBDA t, st : Removed(st, t, k), Current, task_to_threads[k])
        st == FoldSet(LAMBDA t, s : Released(s, t, k), dedicated, Workers)
    IN  /\ Become([st EXCEPT !.listed[k] = {}])
        /\ UNCHANGED <<gpu_memory_allocated_bytes, clock, thrown, owed, highWater>>

-----------------------------------------------------------------------------
(* Collecting *)

\* record_and_reset_pending_retry_time and record_failed_retry_time.
pending_recorded(w) ==
    IF w.in_retry THEN [w EXCEPT !.retry_running = @ + clock - w.retry_start, !.retry_start = clock] ELSE w
failed_recorded(w) ==
    LET p == pending_recorded(w)
    IN  IF w.in_retry THEN [p EXCEPT !.metrics.total = @ + p.retry_running, !.retry_running = 0] ELSE w

reset_retry_state(t, begin) ==
    /\ Registered(t)
    /\ Update(t, [worker[t] EXCEPT !.retry_running = 0, !.in_retry = begin, !.retry_start = IF begin THEN clock ELSE 0])
    /\ UNCHANGED <<task_to_threads, task_to_metrics, gpu_memory_allocated_bytes, clock, thrown, owed, highWater, spoiled>>

\* An allocation fails and the thread waits.
before_block(t) ==
    /\ worker[t].state = "running" /\ ~worker[t].waiting
    /\ Update(t, [pending_recorded(worker[t]) EXCEPT !.state = "blocked", !.waiting = TRUE, !.since = clock])
    /\ UNCHANGED <<task_to_threads, task_to_metrics, gpu_memory_allocated_bytes, clock, thrown, owed, highWater, spoiled>>

\* Another thread makes it runnable; it has not run yet.
wake(t) ==
    /\ worker[t].state = "blocked"
    /\ Update(t, [worker[t] EXCEPT !.state = "running"])
    /\ UNCHANGED <<task_to_threads, task_to_metrics, gpu_memory_allocated_bytes, clock, thrown, owed, highWater, spoiled>>

\* A mutant: the time blocked is taken for retry time and not recorded.
after_block_unrecorded(t) ==
    /\ worker[t].waiting /\ worker[t].state # "blocked"
    /\ Update(t, IF worker[t].state = "removing" THEN Absent ELSE [worker[t] EXCEPT !.waiting = FALSE, !.since = 0])
    /\ UNCHANGED <<task_to_threads, task_to_metrics, gpu_memory_allocated_bytes, clock, thrown, owed, highWater, spoiled>>

\* It runs: the time is recorded; a thread that is being removed is erased.
after_block(t) ==
    LET w == worker[t]
    IN  /\ w.waiting /\ w.state # "blocked"
        /\ Update(t, IF w.state = "removing" THEN Absent
                     ELSE [w EXCEPT !.metrics.total = @ + clock - w.since, !.waiting = FALSE, !.since = 0,
                                    !.retry_start = IF w.in_retry THEN clock ELSE 0])
        /\ UNCHANGED <<task_to_threads, task_to_metrics, gpu_memory_allocated_bytes, clock, thrown, owed, highWater, spoiled>>

throw_retry_oom(t) ==
    LET w == worker[t]
    IN  /\ w.state = "running" /\ ~w.waiting /\ thrown < MaxThrows[watched]
        /\ Update(t, [failed_recorded(w) EXCEPT !.metrics.throws = @ + 1])
        /\ thrown' = thrown + 1
        /\ owed' = [k \in Tasks |-> IF k \in WorksFor(w) THEN owed[k] + 1 ELSE owed[k]]
        /\ UNCHANGED <<task_to_threads, task_to_metrics, gpu_memory_allocated_bytes, clock, highWater, spoiled>>

\* post_alloc_success: memory is accounted for registered threads only.
post_alloc_success(t) ==
    LET bytes == gpu_memory_allocated_bytes + 1
    IN  /\ worker[t].state = "running" /\ ~worker[t].waiting /\ bytes <= MaxBytes
        /\ gpu_memory_allocated_bytes' = bytes
        /\ highWater' = Larger(highWater, bytes)
        /\ Update(t, [worker[t] EXCEPT !.metrics.max_allocated = Larger(@, bytes)])
        /\ UNCHANGED <<task_to_threads, task_to_metrics, clock, thrown, owed, spoiled>>

dealloc_core(t) ==
    /\ Registered(t) /\ ~worker[t].waiting /\ gpu_memory_allocated_bytes > 0
    /\ gpu_memory_allocated_bytes' = gpu_memory_allocated_bytes - 1
    /\ UNCHANGED <<worker, task_to_threads, task_to_metrics, clock, thrown, owed, highWater, spoiled>>

Tick ==
    /\ clock < MaxClock
    /\ clock' = clock + 1
    /\ UNCHANGED <<worker, task_to_threads, task_to_metrics, gpu_memory_allocated_bytes, thrown, owed, highWater, spoiled>>

-----------------------------------------------------------------------------
(* Reporting *)

\* The registered threads a report looks at.
Listed(k) == {t \in task_to_threads[k] : Registered(t)}

\* get_metric
get_metric(k, f) == SumFunction([t \in Listed(k) |-> worker[t].metrics[f]]) + task_to_metrics[k][f]

currently_blocked_for(t) == IF worker[t].state = "blocked" THEN clock - worker[t].since ELSE 0
get_total_blocked_or_lost(k) ==
    SumFunction([t \in Listed(k) |-> currently_blocked_for(t) + worker[t].metrics.total]) + task_to_metrics[k].total

\* get_and_reset_metric, for the exceptions and for the most memory allocated.
get_and_reset_metric(k, f) ==
    /\ worker' = [t \in Workers |-> IF t \in Listed(k) THEN [worker[t] EXCEPT !.metrics[f] = 0] ELSE worker[t]]
    /\ task_to_metrics' = [task_to_metrics EXCEPT ![k][f] = 0]
    /\ owed' = IF f = "throws" THEN [owed EXCEPT ![k] = @ - get_metric(k, f)] ELSE owed
    /\ UNCHANGED <<task_to_threads, gpu_memory_allocated_bytes, clock, thrown, highWater, spoiled>>

\* The task's own record goes, whatever its threads still hold.
remove_task_metrics(k) ==
    /\ owed' = [owed EXCEPT ![k] = @ - task_to_metrics[k].throws]
    /\ task_to_metrics' = [task_to_metrics EXCEPT ![k] = Clear]
    /\ UNCHANGED <<worker, task_to_threads, gpu_memory_allocated_bytes, clock, thrown, highWater, spoiled>>

-----------------------------------------------------------------------------
Recorded == highest' = [k \in Tasks |-> Larger(highest[k], get_total_blocked_or_lost(k)')]

Work ==
    /\ \/ watched = "total" /\ \/ Tick
                               \/ \E t \in Workers : before_block(t) \/ wake(t) \/ after_block(t)
                               \/ \E t \in Workers, begin \in BOOLEAN : reset_retry_state(t, begin)
       \/ watched = "max_allocated" /\ \E t \in Workers : post_alloc_success(t) \/ dealloc_core(t)
       \/ \E t \in Workers : throw_retry_oom(t)
    /\ UNCHANGED <<watched, changes>>

Change ==
    /\ changes < MaxChanges
    /\ \/ \E t \in Workers :
            \/ \E k \in Tasks : start_dedicated_task_thread(t, k)
            \/ \E k \in Tasks \cup {NoTask} : remove_thread_association(t, k)
            \/ \E ks \in SUBSET Tasks \ {{}} : pool_thread_working_on_tasks(t, ks) \/ pool_thread_finished_for_tasks(t, ks)
       \/ \E k \in Tasks : task_done(k)
    /\ changes' = changes + 1
    /\ UNCHANGED watched

Report ==
    /\ \E k \in Tasks : \E f \in {watched} \ {"total"} : get_and_reset_metric(k, f)
    /\ UNCHANGED <<watched, changes>>

MetricsNext ==
    \/ (Work \/ Change \/ Report) /\ Recorded
    \/ \E k \in Tasks : /\ remove_task_metrics(k)
                         /\ highest' = [highest EXCEPT ![k] = get_total_blocked_or_lost(k)']
                         /\ UNCHANGED <<watched, changes>>

MetricsSpec == MetricsInit /\ [][MetricsNext]_metricsVars

-----------------------------------------------------------------------------
(* Properties *)

\* Every exception thrown for a task is in what a report of the task returns, or with a pool thread
\* that has not been checkpointed since, exactly once - unless one of the losses in Removed and
\* task_done happened to the task.
ThrowsReachTheirTask ==
    \A k \in Tasks \ spoiled :
        owed[k] = get_metric(k, "throws")
                    + SumFunction([t \in {u \in Workers : k \in worker[u].pool} |-> worker[t].metrics.throws])

\* The time a task lost never shrinks between two reports, except while a thread of the task has
\* been woken and has not run yet (its time is then counted nowhere).
TimeLostNeverShrinks ==
    \A k \in Tasks \ spoiled :
        get_total_blocked_or_lost(k) >= highest[k] \/ \E t \in Listed(k) : worker[t].waiting /\ worker[t].state # "blocked"

\* No thread and no task has on record more memory than was ever allocated at one time.
PeaksWereReached ==
    /\ \A t \in Workers : worker[t].metrics.max_allocated <= highWater
    /\ \A k \in Tasks : task_to_metrics[k].max_allocated <= highWater

\* RmmSpark.getAndResetGpuMaxMemoryAllocated: the most device memory the task had allocated.
ReportedPeakWasReached == \A k \in Tasks : get_metric(k, "max_allocated") <= highWater
=============================================================================
