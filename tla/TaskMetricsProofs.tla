------------------------- MODULE TaskMetricsProofs -------------------------
(* That no exception thrown for a task is lost or counted twice on its way *)
(* from the threads to the reports, that the time lost never shrinks, and  *)
(* that peaks were reached, for any number of threads and tasks and        *)
(* without the bounds of the runs.                                         *)
EXTENDS TaskMetrics, FiniteOrders

-----------------------------------------------------------------------------
(* The types. *)

Metrics == [throws : Int, total : Int, max_allocated : Int]

WorkerStates == [state : {"unknown", "running", "blocked", "removing"}, task : Tasks \cup {NoTask},
                 pool : SUBSET Tasks, metrics : Metrics, waiting : BOOLEAN, since : Int,
                 in_retry : BOOLEAN, retry_start : Int, retry_running : Int]

Books == [worker : [Workers -> WorkerStates], listed : [Tasks -> SUBSET Workers],
          metrics : [Tasks -> Metrics], spoiled : SUBSET Tasks]

-----------------------------------------------------------------------------
(* What is true of the books whenever no call is running.                  *)

\* A thread that is not known is blank; a dedicated one is in no pool; one that is
\* blocked waits; one that is being removed has nothing on record.
Proper(w) ==
    /\ w.state = "unknown" => w = Absent
    /\ w.task # NoTask => w.pool = {}
    /\ w.state = "blocked" => w.waiting
    /\ w.state = "removing" => w.metrics.throws = 0

\* The threads listed for a task are those dedicated to it, but for the losses.
Listing(st) ==
    \A k \in Tasks : \A t \in Workers :
        /\ t \in st.listed[k] => (st.worker[t].task = k /\ st.worker[t].state # "removing") \/ Tasks \subseteq st.spoiled
        /\ st.worker[t].task = k => t \in st.listed[k] \/ k \in st.spoiled

\* What a thread has on record for task k.
Share(w, k) == IF k \in WorksFor(w) THEN w.metrics.throws ELSE 0
Shares(workers, k) == [t \in Workers |-> Share(workers[t], k)]

\* What a task is owed is with its threads and in its own record.
Balanced(st, due) ==
    \A k \in Tasks \ st.spoiled : due[k] = SumFunction(Shares(st.worker, k)) + st.metrics[k].throws

Peaks(st, high) ==
    /\ \A t \in Workers : st.worker[t].metrics.max_allocated <= high
    /\ \A k \in Tasks : st.metrics[k].max_allocated <= high

Good(st, due, high) ==
    /\ st \in Books
    /\ \A t \in Workers : Proper(st.worker[t])
    /\ Listing(st)
    /\ Balanced(st, due)
    /\ Peaks(st, high)

BooksInv ==
    /\ Good(Current, owed, highWater)
    /\ owed \in [Tasks -> Int] /\ highWater \in Nat
    /\ clock \in Nat /\ gpu_memory_allocated_bytes \in Int

MetricsInv == BooksInv /\ watched \in DOMAIN Clear

\* The times of a thread are past ones.
Timely(w, now) == w.since <= now /\ w.retry_start <= now /\ w.retry_running >= 0 /\ w.metrics.total >= 0

\* What a thread dedicated to task k has on record of time lost or is about to add.
Held(w, now) == (IF w.waiting THEN now - w.since ELSE 0) + w.metrics.total
Loss(w, k, now) == IF w.task = k THEN Held(w, now) ELSE 0
Losses(workers, k, now) == [t \in Workers |-> Loss(workers[t], k, now)]

\* The time lost that is on record or about to be is no less than the marks.
Accrued(st, now, marks) ==
    /\ \A t \in Workers : Timely(st.worker[t], now)
    /\ \A k \in Tasks \ st.spoiled : marks[k] <= SumFunction(Losses(st.worker, k, now)) + st.metrics[k].total

\* No time a thread has on record is lost when the thread's record becomes v.
NoLess(w, v, now) == Timely(w, now) => Timely(v, now) /\ Held(w, now) <= Held(v, now)

\* A change of the books loses none of it.
KeepsTime(st, new, now) == \A marks \in [Tasks -> Int] : Accrued(st, now, marks) => Accrued(new, now, marks)

\* A step loses none of it.
TimeKept == \A marks \in [Tasks -> Int] : Accrued(Current, clock, marks) => Accrued(Current', clock', marks)

TimesInv == Accrued(Current, clock, highest) /\ highest \in [Tasks -> Int]

\* A thread's times are another's.
SameTimes(w, v) == v.since = w.since /\ v.retry_start = w.retry_start /\ v.retry_running = w.retry_running

\* A change of the books by which the record of a thread w becomes v loses nothing.
NoneLost(st, new, w, v, now) ==
    \A k \in Tasks \ new.spoiled : Loss(w, k, now) + st.metrics[k].total <= Loss(v, k, now) + new.metrics[k].total

\* What a report of the time lost counts of a thread, and the report.
Counted(w, now) == (IF w.state = "blocked" THEN now - w.since ELSE 0) + w.metrics.total
Reported(st, k) == {t \in st.listed[k] : st.worker[t].state # "unknown"}
Total(st, k, now) == SumFunction([t \in Reported(st, k) |-> Counted(st.worker[t], now)]) + st.metrics[k].total

\* A thread that has been woken and has not run yet.
Woken(w) == w.waiting /\ w.state # "blocked"

\* What saving a thread adds to the time lost of task k.
Gain(w, k) == IF k \in WorksFor(w) THEN w.metrics.total ELSE 0

-----------------------------------------------------------------------------
(* Threads and their records. *)

(* Nothing on record.                                                      *)
LEMMA ClearIsMetrics == Clear \in Metrics /\ Clear.throws = 0 /\ Clear.total = 0 /\ Clear.max_allocated = 0
BY DEF Clear, Metrics

(* An unknown thread is proper, works for nothing and has nothing.         *)
LEMMA AbsentIsProper ==
  /\ Absent \in WorkerStates /\ Proper(Absent) /\ Absent.state = "unknown" /\ Absent.task = NoTask /\ Absent.pool = {}
  /\ Absent.metrics = Clear
<1>1. Absent \in WorkerStates
  BY ClearIsMetrics DEF Absent, WorkerStates
<1>2. /\ Absent.state = "unknown" /\ Absent.task = NoTask /\ Absent.pool = {} /\ Absent.metrics = Clear
  BY DEF Absent
<1> QED BY <1>1, <1>2 DEF Proper

(* The record of a thread that was saved.                                  *)
LEMMA ClearedRecord ==
  ASSUME NEW w \in WorkerStates
  PROVE  /\ cleared(w) \in WorkerStates /\ cleared(w).metrics = Clear
         /\ cleared(w).state = w.state /\ cleared(w).task = w.task /\ cleared(w).pool = w.pool
         /\ cleared(w).waiting = w.waiting /\ SameTimes(w, cleared(w))
<1>1. SameTimes(w, cleared(w))
  BY DEF cleared, WorkerStates, SameTimes
<1> QED BY <1>1, ClearIsMetrics DEF cleared, WorkerStates

(* add adds the exceptions and times and takes the larger of the peaks.    *)
LEMMA Added ==
  ASSUME NEW m \in Metrics, NEW n \in Metrics
  PROVE  /\ add(m, n) \in Metrics
         /\ add(m, n).throws = m.throws + n.throws
         /\ add(m, n).total = m.total + n.total
         /\ add(m, n).max_allocated = m.max_allocated \/ add(m, n).max_allocated = n.max_allocated
<1>1. DOMAIN m = {"throws", "total", "max_allocated"}
  BY DEF Metrics
<1>2. add(m, n) = [f \in {"throws", "total", "max_allocated"} |->
                     IF f = "max_allocated" THEN Larger(m[f], n[f]) ELSE m[f] + n[f]]
  BY <1>1 DEF add
<1>3. /\ add(m, n)["throws"] = m.throws + n.throws /\ add(m, n)["total"] = m.total + n.total
      /\ add(m, n)["max_allocated"] = Larger(m.max_allocated, n.max_allocated)
  BY <1>2
<1>4. m.throws \in Int /\ m.total \in Int /\ m.max_allocated \in Int
      /\ n.throws \in Int /\ n.total \in Int /\ n.max_allocated \in Int
  BY DEF Metrics
<1>5. add(m, n) = [throws |-> add(m, n)["throws"], total |-> add(m, n)["total"],
                   max_allocated |-> add(m, n)["max_allocated"]]
  BY <1>2
<1>6. PICK r \in Int, x \in Int, y \in Int : add(m, n) = [throws |-> r, total |-> x, max_allocated |-> y]
  <2>1. add(m, n)["throws"] \in Int /\ add(m, n)["total"] \in Int /\ add(m, n)["max_allocated"] \in Int
    BY <1>3, <1>4 DEF Larger
  <2> QED BY <1>5, <2>1
<1>7. add(m, n) \in Metrics
  BY <1>6 DEF Metrics
<1>8. add(m, n).max_allocated = m.max_allocated \/ add(m, n).max_allocated = n.max_allocated
  BY <1>3, <1>4 DEF Larger
<1> QED BY <1>3, <1>7, <1>8

(* Fields of the books.                                                    *)
LEMMA BooksFields ==
  ASSUME NEW st \in Books
  PROVE  /\ st.worker \in [Workers -> WorkerStates] /\ st.listed \in [Tasks -> SUBSET Workers]
         /\ st.metrics \in [Tasks -> Metrics] /\ st.spoiled \in SUBSET Tasks
BY DEF Books

(* Saving the record of a thread w.                                        *)
LEMMA Checkpointed ==
  ASSUME NEW metrics \in [Tasks -> Metrics], NEW w \in WorkerStates
  PROVE  /\ checkpointed(metrics, w) \in [Tasks -> Metrics]
         /\ \A k \in Tasks : /\ checkpointed(metrics, w)[k].throws = metrics[k].throws + Share(w, k)
                             /\ checkpointed(metrics, w)[k].total = metrics[k].total + Gain(w, k)
                             /\ \/ checkpointed(metrics, w)[k].max_allocated = metrics[k].max_allocated
                                \/ checkpointed(metrics, w)[k].max_allocated = w.metrics.max_allocated
<1>1. w.metrics \in Metrics
  BY DEF WorkerStates
<1>2. ASSUME NEW k \in Tasks
      PROVE  /\ checkpointed(metrics, w)[k] \in Metrics
             /\ checkpointed(metrics, w)[k].throws = metrics[k].throws + Share(w, k)
             /\ checkpointed(metrics, w)[k].total = metrics[k].total + Gain(w, k)
             /\ \/ checkpointed(metrics, w)[k].max_allocated = metrics[k].max_allocated
                \/ checkpointed(metrics, w)[k].max_allocated = w.metrics.max_allocated
  <2>1. metrics[k] \in Metrics /\ metrics[k].throws \in Int /\ metrics[k].total \in Int
    BY DEF Metrics
  <2>2. CASE k \in WorksFor(w)
    <3>1. checkpointed(metrics, w)[k] = add(metrics[k], w.metrics) /\ Share(w, k) = w.metrics.throws /\ Gain(w, k) = w.metrics.total
      BY <2>2 DEF checkpointed, Share, Gain
    <3> QED BY <1>1, <2>1, <3>1, Added
  <2>3. CASE k \notin WorksFor(w)
    <3>1. checkpointed(metrics, w)[k] = metrics[k] /\ Share(w, k) = 0 /\ Gain(w, k) = 0
      BY <2>3 DEF checkpointed, Share, Gain
    <3> QED BY <2>1, <3>1
  <2> QED BY <2>2, <2>3
<1>3. checkpointed(metrics, w) \in [Tasks -> Metrics]
  BY <1>2 DEF checkpointed
<1> QED BY <1>2, <1>3

(* The threads' records of a task, and their sum when one changes.         *)
LEMMA SharesChange ==
  ASSUME NEW workers \in [Workers -> WorkerStates], NEW t \in Workers, NEW w \in WorkerStates, NEW k \in Tasks
  PROVE  /\ SumFunction(Shares(workers, k)) \in Int
         /\ SumFunction(Shares([workers EXCEPT ![t] = w], k))
              = SumFunction(Shares(workers, k)) + (Share(w, k) - Share(workers[t], k))
<1> DEFINE f == Shares(workers, k)
           g == Shares([workers EXCEPT ![t] = w], k)
<1>1. \A u \in WorkerStates : Share(u, k) \in Int
  BY DEF Share, WorkerStates, Metrics
<1>2. f \in [Workers -> Int] /\ f[t] = Share(workers[t], k)
  BY <1>1 DEF Shares
<1>3. g \in [Workers -> Int] /\ g[t] = Share(w, k)
  BY <1>1 DEF Shares
<1>4. \A u \in Workers \ {t} : f[u] = g[u]
  BY DEF Shares
<1> HIDE DEF f, g
<1>5. SumFunction(g) = SumFunction(f) + (g[t] - f[t]) /\ SumFunction(f) \in Int
  BY <1>2, <1>3, <1>4, WorkersAssumption, SumChanged
<1>6. SumFunction(g) = SumFunction(f) + (Share(w, k) - Share(workers[t], k)) /\ SumFunction(f) \in Int
  BY <1>2, <1>3, <1>5
<1> QED BY <1>6 DEF f, g

(* What a thread has lost is a number, and not negative when its times are *)
(* past ones.                                                              *)
LEMMA LossType ==
  ASSUME NEW w \in WorkerStates, NEW k, NEW now \in Int
  PROVE  Loss(w, k, now) \in Int /\ (Timely(w, now) => Loss(w, k, now) >= 0)
<1>1. w.since \in Int /\ w.metrics.total \in Int /\ w.waiting \in BOOLEAN
  BY DEF WorkerStates, Metrics
<1>2. CASE w.waiting
  BY <1>1, <1>2 DEF Loss, Held, Timely
<1>3. CASE ~w.waiting
  BY <1>1, <1>3 DEF Loss, Held, Timely
<1> QED BY <1>2, <1>3

(* The time lost does not shrink when that of the thread and the task that *)
(* change does not.                                                        *)
LEMMA AccruedAfter ==
  ASSUME NEW now \in Int, NEW marks \in [Tasks -> Int], NEW st \in Books, Accrued(st, now, marks),
         NEW t \in Workers, NEW w, w = st.worker[t], NEW v \in WorkerStates, Timely(v, now),
         NEW new \in Books, new.worker = [st.worker EXCEPT ![t] = v], st.spoiled \subseteq new.spoiled,
         NoneLost(st, new, w, v, now)
  PROVE  Accrued(new, now, marks)
<1>1. st.worker \in [Workers -> WorkerStates] /\ st.metrics \in [Tasks -> Metrics] /\ new.metrics \in [Tasks -> Metrics]
  BY BooksFields
<1>2. ASSUME NEW u \in Workers PROVE Timely(new.worker[u], now)
  <2>1. CASE u = t
    BY <1>1, <2>1
  <2>2. CASE u # t
    <3>1. new.worker[u] = st.worker[u]
      BY <1>1, <2>2
    <3> QED BY <3>1 DEF Accrued
  <2> QED BY <2>1, <2>2
<1>3. ASSUME NEW k \in Tasks \ new.spoiled
      PROVE  marks[k] <= SumFunction(Losses(new.worker, k, now)) + new.metrics[k].total
  <2> DEFINE f == Losses(st.worker, k, now)
             g == Losses(new.worker, k, now)
  <2>1. \A u \in WorkerStates : Loss(u, k, now) \in Int
    BY LossType
  <2>2. f \in [Workers -> Int] /\ f[t] = Loss(w, k, now)
    BY <1>1, <2>1 DEF Losses
  <2>3. g \in [Workers -> Int] /\ g[t] = Loss(v, k, now)
    BY <1>1, <2>1 DEF Losses
  <2>4. \A u \in Workers \ {t} : f[u] = g[u]
    BY <1>1 DEF Losses
  <2> HIDE DEF f, g
  <2>5. SumFunction(g) = SumFunction(f) + (g[t] - f[t]) /\ SumFunction(f) \in Int
    BY <2>2, <2>3, <2>4, WorkersAssumption, SumChanged
  <2>6. PICK a \in Int, c \in Int, d \in Int, b \in Int, e \in Int :
          /\ a = SumFunction(f) /\ c = Loss(w, k, now) /\ d = Loss(v, k, now)
          /\ b = st.metrics[k].total /\ e = new.metrics[k].total
    <3>1. Loss(w, k, now) \in Int /\ Loss(v, k, now) \in Int
      BY <1>1, <2>1
    <3>2. st.metrics[k].total \in Int /\ new.metrics[k].total \in Int
      BY <1>1 DEF Metrics
    <3> QED BY <2>5, <3>1, <3>2
  <2>7. marks[k] <= a + b
    BY <2>6 DEF Accrued, f
  <2>8. c + b <= d + e
    BY <2>6 DEF NoneLost
  <2>9. SumFunction(g) = a + (d - c) /\ marks[k] \in Int
    BY <2>2, <2>3, <2>5, <2>6
  <2>10. marks[k] <= (a + (d - c)) + e
    BY <2>7, <2>8, <2>9
  <2> QED BY <2>6, <2>9, <2>10 DEF g
<1> QED BY <1>2, <1>3 DEF Accrued

(* Nor does it while time passes.                                          *)
LEMMA AccruedLater ==
  ASSUME NEW now \in Int, NEW later \in Int, now <= later,
         NEW marks \in [Tasks -> Int], NEW st \in Books, Accrued(st, now, marks)
  PROVE  Accrued(st, later, marks)
<1>1. st.worker \in [Workers -> WorkerStates] /\ st.metrics \in [Tasks -> Metrics]
  BY BooksFields
<1>2. ASSUME NEW u \in Workers PROVE Timely(st.worker[u], later)
  <2>1. Timely(st.worker[u], now) /\ st.worker[u].since \in Int /\ st.worker[u].retry_start \in Int
    BY <1>1 DEF Accrued, WorkerStates
  <2> QED BY <2>1 DEF Timely
<1>3. ASSUME NEW w \in WorkerStates, NEW k PROVE Loss(w, k, now) <= Loss(w, k, later)
  <2>1. PICK a \in Int, b \in Int : a = w.since /\ b = w.metrics.total
    BY DEF WorkerStates, Metrics
  <2>2. now - a + b <= later - a + b /\ 0 + b <= 0 + b /\ 0 <= 0
    OBVIOUS
  <2>3. CASE w.waiting
    BY <2>1, <2>2, <2>3 DEF Loss, Held
  <2>4. CASE ~w.waiting
    BY <2>1, <2>2, <2>4 DEF Loss, Held
  <2> QED BY <2>3, <2>4
<1>4. ASSUME NEW k \in Tasks \ st.spoiled
      PROVE  marks[k] <= SumFunction(Losses(st.worker, k, later)) + st.metrics[k].total
  <2> DEFINE f == Losses(st.worker, k, now)
             g == Losses(st.worker, k, later)
  <2>1. \A u \in WorkerStates : Loss(u, k, now) \in Int /\ Loss(u, k, later) \in Int
    BY LossType
  <2>2. f \in [Workers -> Int] /\ g \in [Workers -> Int]
    BY <1>1, <2>1 DEF Losses
  <2>3. \A u \in Workers : f[u] <= g[u]
    BY <1>1, <1>3 DEF Losses
  <2>4. marks[k] <= SumFunction(f) + st.metrics[k].total
    BY DEF Accrued
  <2> HIDE DEF f, g
  <2>5. SumFunction(f) <= SumFunction(g) /\ SumFunction(f) \in Int /\ SumFunction(g) \in Int
    BY <2>2, <2>3, WorkersAssumption, SumMonotone
  <2>6. PICK a \in Int, b \in Int, c \in Int : a = SumFunction(f) /\ b = SumFunction(g) /\ c = st.metrics[k].total
    BY <1>1, <2>5 DEF Metrics
  <2>7. marks[k] \in Int /\ a <= b /\ marks[k] <= a + c
    BY <2>4, <2>5, <2>6
  <2>8. marks[k] <= b + c
    BY <2>7
  <2> QED BY <2>6, <2>8 DEF g
<1> QED BY <1>2, <1>4 DEF Accrued

(* Nor when only other fields of the books change.                         *)
LEMMA AccruedStill ==
  ASSUME NEW now, NEW st \in Books, NEW new \in Books,
         \A t \in Workers : /\ SameTimes(st.worker[t], new.worker[t])
                             /\ new.worker[t].task = st.worker[t].task /\ new.worker[t].waiting = st.worker[t].waiting
                             /\ new.worker[t].metrics.total = st.worker[t].metrics.total,
         \A k \in Tasks : new.metrics[k].total = st.metrics[k].total, st.spoiled \subseteq new.spoiled
  PROVE  KeepsTime(st, new, now)
<1> SUFFICES ASSUME NEW marks \in [Tasks -> Int], Accrued(st, now, marks) PROVE Accrued(new, now, marks)
  BY DEF KeepsTime
<1>1. ASSUME NEW t \in Workers PROVE Timely(new.worker[t], now)
  BY DEF Accrued, Timely, SameTimes
<1>2. ASSUME NEW k \in Tasks PROVE Losses(new.worker, k, now) = Losses(st.worker, k, now)
  BY DEF Losses, Loss, Held, SameTimes
<1> QED BY <1>1, <1>2 DEF Accrued

(* A blank thread has no times.                                            *)
LEMMA AbsentTimes ==
  /\ Absent.waiting = FALSE /\ \A now \in Nat : Timely(Absent, now) /\ \A k \in Tasks : Loss(Absent, k, now) = 0
<1>1. Absent.waiting = FALSE /\ Absent.since = 0 /\ Absent.retry_start = 0 /\ Absent.retry_running = 0
  BY DEF Absent
<1>2. Absent.metrics.total = 0 /\ Absent.task = NoTask
  BY AbsentIsProper, ClearIsMetrics
<1>3. \A now \in Nat : Timely(Absent, now)
  BY <1>1, <1>2 DEF Timely
<1>4. \A now \in Nat, k \in Tasks : Loss(Absent, k, now) = 0
  BY <1>2, NoTaskAssumption DEF Loss
<1> QED BY <1>1, <1>3, <1>4

(* What a thread has lost does not shrink when its record does not.        *)
LEMMA SameHeld ==
  ASSUME NEW w \in WorkerStates, NEW v \in WorkerStates, NEW now \in Int,
         v.waiting = w.waiting, v.since = w.since, w.metrics.total <= v.metrics.total
  PROVE  Held(w, now) <= Held(v, now)
<1>1. PICK a \in Int, b \in Int, c \in Int : a = w.since /\ b = w.metrics.total /\ c = v.metrics.total
  BY DEF WorkerStates, Metrics
<1>2. b <= c
  BY <1>1
<1>3. CASE w.waiting
  <2>1. Held(w, now) = (now - a) + b /\ Held(v, now) = (now - a) + c
    BY <1>1, <1>3 DEF Held
  <2> QED BY <1>2, <2>1
<1>4. CASE ~w.waiting
  <2>1. Held(w, now) = 0 + b /\ Held(v, now) = 0 + c
    BY <1>1, <1>4 DEF Held
  <2> QED BY <1>2, <2>1
<1> QED BY <1>3, <1>4

(* A thread whose times stay is as timely when it is saved.                *)
LEMMA TimelySaved ==
  ASSUME NEW w \in WorkerStates, NEW v, NEW now \in Nat, Timely(w, now), v.metrics = Clear,
         v = Absent \/ SameTimes(w, v)
  PROVE  Timely(v, now)
<1>1. v.metrics.total = 0
  BY ClearIsMetrics
<1>2. CASE v = Absent
  <2>1. v.since = 0 /\ v.retry_start = 0 /\ v.retry_running = 0
    BY <1>2 DEF Absent
  <2> QED BY <1>1, <2>1 DEF Timely
<1>3. CASE SameTimes(w, v)
  BY <1>1, <1>3 DEF Timely, SameTimes
<1> QED BY <1>2, <1>3

-----------------------------------------------------------------------------
(* Moving records from threads to tasks. *)

(* A thread whose record is saved takes nothing away from any task.        *)
LEMMA SavingKeeps ==
  ASSUME NEW st \in Books, NEW due \in [Tasks -> Int], NEW high \in Nat, Balanced(st, due), Peaks(st, high),
         NEW t \in Workers, NEW w \in WorkerStates, w.metrics = Clear,
         NEW new \in Books, new.worker = [st.worker EXCEPT ![t] = w],
         new.metrics = checkpointed(st.metrics, st.worker[t]), st.spoiled \subseteq new.spoiled
  PROVE  Balanced(new, due) /\ Peaks(new, high)
<1>1. st.worker \in [Workers -> WorkerStates] /\ st.metrics \in [Tasks -> Metrics]
  BY BooksFields
<1>2. \A k \in Tasks : /\ new.metrics[k].throws = st.metrics[k].throws + Share(st.worker[t], k)
                       /\ \/ new.metrics[k].max_allocated = st.metrics[k].max_allocated
                          \/ new.metrics[k].max_allocated = st.worker[t].metrics.max_allocated
  <2>1. st.worker[t] \in WorkerStates
    BY <1>1
  <2> DEFINE c == checkpointed(st.metrics, st.worker[t])
  <2>2. \A k \in Tasks : /\ c[k].throws = st.metrics[k].throws + Share(st.worker[t], k)
                         /\ c[k].total = st.metrics[k].total + Gain(st.worker[t], k)
                         /\ \/ c[k].max_allocated = st.metrics[k].max_allocated
                            \/ c[k].max_allocated = st.worker[t].metrics.max_allocated
    BY <1>1, <2>1, Checkpointed
  <2> QED BY <2>2
<1>3. Balanced(new, due)
  <2> SUFFICES ASSUME NEW k \in Tasks \ new.spoiled
               PROVE  due[k] = SumFunction(Shares(new.worker, k)) + new.metrics[k].throws
    BY DEF Balanced
  <2> DEFINE a == SumFunction(Shares(st.worker, k))
             b == st.metrics[k].throws
             c == Share(st.worker[t], k)
  <2>1. due[k] = a + b
    BY DEF Balanced
  <2>2. Share(w, k) = 0
    BY ClearIsMetrics DEF Share
  <2>3. a \in Int /\ SumFunction(Shares(new.worker, k)) = a + (Share(w, k) - c)
    BY <1>1, SharesChange
  <2>4. b \in Int /\ c \in Int
    BY <1>1 DEF Metrics, WorkerStates, Share
  <2>5. new.metrics[k].throws = b + c
    BY <1>2
  <2> HIDE DEF a, b, c
  <2>6. SumFunction(Shares(new.worker, k)) = a - c
    BY <2>2, <2>3, <2>4
  <2> QED BY <2>1, <2>3, <2>4, <2>5, <2>6
<1>4. Peaks(new, high)
  <2>1. ASSUME NEW u \in Workers PROVE new.worker[u].metrics.max_allocated <= high
    <3>1. CASE u = t
      BY <1>1, <3>1, ClearIsMetrics
    <3>2. CASE u # t
      <4>1. new.worker[u] = st.worker[u]
        BY <1>1, <3>2
      <4> QED BY <4>1 DEF Peaks
    <3> QED BY <3>1, <3>2
  <2>2. ASSUME NEW k \in Tasks PROVE new.metrics[k].max_allocated <= high
    BY <1>2 DEF Peaks
  <2> QED BY <2>1, <2>2 DEF Peaks
<1> QED BY <1>3, <1>4

(* A thread is saved and goes on with its task: what it had on record the  *)
(* task has now.                                                           *)
LEMMA SavedTimes ==
  ASSUME NEW now \in Nat, NEW st \in Books,
         NEW t \in Workers, NEW w \in WorkerStates, w = st.worker[t],
         NEW v \in WorkerStates, v.metrics = Clear, SameTimes(w, v), v.task = w.task, v.waiting = w.waiting,
         NEW new \in Books, new.worker = [st.worker EXCEPT ![t] = v],
         new.metrics = checkpointed(st.metrics, w), st.spoiled \subseteq new.spoiled
  PROVE  KeepsTime(st, new, now)
<1> SUFFICES ASSUME NEW marks \in [Tasks -> Int], Accrued(st, now, marks) PROVE Accrued(new, now, marks)
  BY DEF KeepsTime
<1>1. st.metrics \in [Tasks -> Metrics]
  BY BooksFields
<1>3. Timely(w, now)
  BY DEF Accrued
<1>4. Timely(v, now)
  BY <1>3, TimelySaved
<1>5. ASSUME NEW k \in Tasks
      PROVE  Loss(w, k, now) + st.metrics[k].total <= Loss(v, k, now) + new.metrics[k].total
  <2>1. new.metrics[k].total = st.metrics[k].total + Gain(w, k)
    <3> DEFINE c == checkpointed(st.metrics, w)
    <3>1. c[k].total = st.metrics[k].total + Gain(w, k)
      BY <1>1, Checkpointed
    <3> QED BY <3>1
  <2>2. PICK a \in Int, b \in Int, l \in Int : a = st.metrics[k].total /\ b = w.metrics.total /\ l = now - w.since
    BY <1>1 DEF Metrics, WorkerStates
  <2>3. v.metrics.total = 0 /\ b >= 0
    BY <1>3, <2>2, ClearIsMetrics DEF Timely
  <2>4. now - v.since = l
    BY <2>2 DEF SameTimes
  <2>5. CASE w.task = k
    <3>1. k \in WorksFor(w)
      BY <2>5, NoTaskAssumption DEF WorksFor
    <3>2. Gain(w, k) = b
      BY <2>2, <3>1 DEF Gain
    <3>3. CASE w.waiting
      <4>1. Loss(w, k, now) = l + b /\ Loss(v, k, now) = l + 0
        BY <2>2, <2>3, <2>4, <2>5, <3>3 DEF Loss, Held
      <4> QED BY <2>1, <2>2, <3>2, <4>1
    <3>4. CASE ~w.waiting
      <4>1. Loss(w, k, now) = 0 + b /\ Loss(v, k, now) = 0 + 0
        BY <2>2, <2>3, <2>4, <2>5, <3>4 DEF Loss, Held
      <4> QED BY <2>1, <2>2, <3>2, <4>1
    <3> QED BY <3>3, <3>4
  <2>6. CASE w.task # k
    <3>1. Loss(w, k, now) = 0 /\ Loss(v, k, now) = 0
      BY <2>6 DEF Loss
    <3>2. Gain(w, k) \in Int /\ Gain(w, k) >= 0
      BY <2>2, <2>3 DEF Gain
    <3> QED BY <2>1, <2>2, <3>1, <3>2
  <2> QED BY <2>5, <2>6
<1>6. NoneLost(st, new, w, v, now)
  BY <1>5 DEF NoneLost
<1> QED BY <1>4, <1>6, AccruedAfter

(* What remove_thread_association makes of the books: the thread is saved  *)
(* and stays, or goes, at once or when it has woken.                       *)
LEMMA RemovedShape ==
  ASSUME NEW st \in Books, NEW t \in Workers, NEW k \in Tasks \cup {NoTask}, st.worker[t].state # "unknown"
  PROVE  LET w == st.worker[t]
             new == Removed(st, t, k)
         IN  /\ new \in Books
             /\ new.metrics = checkpointed(st.metrics, w)
             /\ st.spoiled \subseteq new.spoiled
             /\ \E v \in WorkerStates :
                  /\ new.worker = [st.worker EXCEPT ![t] = v]
                  /\ v.metrics = Clear
                  /\ v = Absent \/ SameTimes(w, v)
                  /\ \/ /\ v.state = w.state /\ v.task = w.task /\ v.waiting = w.waiting /\ v.pool \subseteq w.pool
                        /\ k \in Tasks => w.task # k
                        /\ new.listed = st.listed
                     \/ /\ \/ v = Absent
                           \/ w.state = "blocked" /\ v.state = "removing" /\ v.task = w.task /\ v.pool \subseteq w.pool
                        /\ k \in Tasks => new.listed = [st.listed EXCEPT ![k] = @ \ {t}]
                        /\ k \notin Tasks => new.listed = st.listed
                        /\ k \in Tasks /\ w.task # NoTask => w.task = k
                        /\ w.waiting => WorksFor(w) \subseteq new.spoiled
                        /\ k = NoTask /\ w.task # NoTask => Tasks \subseteq new.spoiled
<1> DEFINE w == st.worker[t]
           new == Removed(st, t, k)
           kept == IF w.task = NoTask THEN [cleared(w) EXCEPT !.pool = @ \ {k}] ELSE cleared(w)
           gone == k = NoTask \/ (IF w.task = NoTask THEN kept.pool = {} ELSE w.task = k)
           v == IF ~gone THEN kept ELSE IF w.state = "blocked" THEN [kept EXCEPT !.state = "removing"] ELSE Absent
           listed == IF gone /\ k # NoTask THEN [st.listed EXCEPT ![k] = @ \ {t}] ELSE st.listed
           lost == st.spoiled \cup (IF gone /\ w.waiting THEN WorksFor(w) ELSE {})
                                 \cup (IF k = NoTask /\ w.task # NoTask THEN Tasks ELSE {})
<1>1. /\ st.worker \in [Workers -> WorkerStates] /\ st.listed \in [Tasks -> SUBSET Workers]
      /\ st.metrics \in [Tasks -> Metrics] /\ st.spoiled \in SUBSET Tasks
  BY BooksFields
<1>2. w \in WorkerStates
  BY <1>1
<1>3. /\ kept \in WorkerStates /\ kept.metrics = Clear /\ kept.state = w.state /\ kept.task = w.task
      /\ kept.waiting = w.waiting /\ kept.pool \subseteq w.pool /\ SameTimes(w, kept)
  <2>1. /\ cleared(w) \in WorkerStates /\ cleared(w).metrics = Clear
        /\ cleared(w).state = w.state /\ cleared(w).task = w.task /\ cleared(w).pool = w.pool
        /\ cleared(w).waiting = w.waiting /\ SameTimes(w, cleared(w))
    BY <1>2, ClearedRecord
  <2> DEFINE c == cleared(w)
  <2> HIDE DEF c
  <2>2. c \in WorkerStates => LET d == [c EXCEPT !.pool = @ \ {k}]
                              IN  d \in WorkerStates /\ d.metrics = c.metrics /\ d.state = c.state /\ d.task = c.task
                                  /\ d.waiting = c.waiting /\ d.pool \subseteq c.pool
    BY DEF WorkerStates
  <2>3. c \in WorkerStates => SameTimes(c, [c EXCEPT !.pool = @ \ {k}])
    BY DEF WorkerStates, SameTimes
  <2>4. SameTimes(w, kept)
    <3>1. SameTimes(w, c) => SameTimes(w, [c EXCEPT !.pool = @ \ {k}])
      BY <2>1, <2>3 DEF SameTimes, c
    <3> QED BY <2>1, <3>1 DEF c
  <2> QED BY <2>1, <2>2, <2>4 DEF c
<1>4. new = [worker |-> [st.worker EXCEPT ![t] = v], listed |-> listed,
             metrics |-> checkpointed(st.metrics, w), spoiled |-> lost]
  BY DEF Removed
<1>5. WorksFor(w) \subseteq Tasks
  BY <1>2 DEF WorksFor, WorkerStates
<1> HIDE DEF kept
<1>6. v \in WorkerStates /\ v.metrics = Clear /\ (v = Absent \/ SameTimes(w, v))
      /\ (~gone => v = kept)
      /\ (gone => \/ v = Absent
                  \/ w.state = "blocked" /\ v.state = "removing" /\ v.task = kept.task /\ v.pool = kept.pool)
  <2>1. kept \in WorkerStates => LET d == [kept EXCEPT !.state = "removing"]
                                 IN  d \in WorkerStates /\ d.metrics = kept.metrics /\ d.state = "removing"
                                     /\ d.task = kept.task /\ d.pool = kept.pool
    BY DEF WorkerStates
  <2>2. SameTimes(kept, [kept EXCEPT !.state = "removing"])
    BY <1>3 DEF WorkerStates, SameTimes
  <2> HIDE DEF gone
  <2>3. v = Absent \/ SameTimes(w, v)
    <3>1. SameTimes(w, [kept EXCEPT !.state = "removing"])
      BY <1>3, <2>2 DEF SameTimes
    <3> QED BY <1>3, <3>1
  <2> QED BY <1>3, <2>1, <2>3, AbsentIsProper
<1>7. listed \in [Tasks -> SUBSET Workers] /\ lost \in SUBSET Tasks /\ st.spoiled \subseteq lost
  BY <1>1, <1>5
<1>8. (k \in Tasks => k # NoTask) /\ (k # NoTask => k \in Tasks)
  BY NoTaskAssumption
<1>9. gone => /\ k \in Tasks => listed = [st.listed EXCEPT ![k] = @ \ {t}]
              /\ k \notin Tasks => listed = st.listed
              /\ k \in Tasks /\ w.task # NoTask => w.task = k
              /\ w.waiting => WorksFor(w) \subseteq lost
              /\ k = NoTask /\ w.task # NoTask => Tasks \subseteq lost
  BY <1>8
<1>10. ~gone => listed = st.listed /\ (k \in Tasks => w.task # k)
  BY <1>8
<1> HIDE DEF v, listed, lost, gone, w, new
<1>11. checkpointed(st.metrics, w) \in [Tasks -> Metrics]
  BY <1>1, <1>2, Checkpointed
<1>12. [st.worker EXCEPT ![t] = v] \in [Workers -> WorkerStates]
  BY <1>1, <1>6
<1>13. new \in Books /\ new.worker = [st.worker EXCEPT ![t] = v] /\ new.listed = listed
       /\ new.metrics = checkpointed(st.metrics, w) /\ new.spoiled = lost
  BY <1>4, <1>7, <1>11, <1>12 DEF Books
<1>14. \/ /\ v.state = w.state /\ v.task = w.task /\ v.waiting = w.waiting /\ v.pool \subseteq w.pool
          /\ k \in Tasks => w.task # k
          /\ listed = st.listed
       \/ /\ \/ v = Absent
             \/ w.state = "blocked" /\ v.state = "removing" /\ v.task = w.task /\ v.pool \subseteq w.pool
          /\ k \in Tasks => listed = [st.listed EXCEPT ![k] = @ \ {t}]
          /\ k \notin Tasks => listed = st.listed
          /\ k \in Tasks /\ w.task # NoTask => w.task = k
          /\ w.waiting => WorksFor(w) \subseteq lost
          /\ k = NoTask /\ w.task # NoTask => Tasks \subseteq lost
  BY <1>3, <1>6, <1>9, <1>10
<1> QED BY <1>6, <1>7, <1>13, <1>14 DEF w, new

(* A removal keeps the books good, touches no other thread, and leaves a   *)
(* thread dedicated to the task only when the task has a loss.             *)
LEMMA RemovedGood ==
  ASSUME NEW due \in [Tasks -> Int], NEW high \in Nat, NEW st, Good(st, due, high),
         NEW t \in Workers, NEW k \in Tasks \cup {NoTask}
  PROVE  LET new == Removed(st, t, k)
         IN  /\ Good(new, due, high)
             /\ st.spoiled \subseteq new.spoiled
             /\ \A u \in Workers \ {t} : new.worker[u] = st.worker[u]
             /\ new.worker[t].task \in {st.worker[t].task, NoTask}
             /\ k \in Tasks => new.worker[t].task # k \/ k \in new.spoiled
<1> DEFINE w == st.worker[t]
           new == Removed(st, t, k)
<1>1. /\ st \in Books /\ Listing(st) /\ Balanced(st, due) /\ Peaks(st, high)
      /\ \A u \in Workers : Proper(st.worker[u])
  BY DEF Good
<1>2. /\ st.worker \in [Workers -> WorkerStates] /\ st.listed \in [Tasks -> SUBSET Workers]
      /\ w \in WorkerStates /\ Proper(w)
  BY <1>1, BooksFields
<1>3. CASE w.state = "unknown"
  <2>1. new = st
    BY <1>3 DEF Removed
  <2>2. k \in Tasks => w.task # k
    BY <1>2, <1>3, AbsentIsProper, NoTaskAssumption DEF Proper
  <2> QED BY <2>1, <2>2
<1>4. CASE w.state # "unknown"
  <2>2. PICK v \in WorkerStates :
          /\ new \in Books
          /\ new.metrics = checkpointed(st.metrics, w)
          /\ st.spoiled \subseteq new.spoiled
          /\ new.worker = [st.worker EXCEPT ![t] = v]
          /\ v.metrics = Clear
          /\ \/ /\ v.state = w.state /\ v.task = w.task /\ v.waiting = w.waiting /\ v.pool \subseteq w.pool
                /\ k \in Tasks => w.task # k
                /\ new.listed = st.listed
             \/ /\ \/ v = Absent
                   \/ w.state = "blocked" /\ v.state = "removing" /\ v.task = w.task /\ v.pool \subseteq w.pool
                /\ k \in Tasks => new.listed = [st.listed EXCEPT ![k] = @ \ {t}]
                /\ k \notin Tasks => new.listed = st.listed
                /\ k \in Tasks /\ w.task # NoTask => w.task = k
                /\ w.waiting => WorksFor(w) \subseteq new.spoiled
                /\ k = NoTask /\ w.task # NoTask => Tasks \subseteq new.spoiled
    BY <1>1, <1>4, RemovedShape
  <2>1. /\ new \in Books
        /\ new.metrics = checkpointed(st.metrics, w)
        /\ st.spoiled \subseteq new.spoiled
    BY <2>2
  <2> HIDE DEF new, w
  <2>3. Balanced(new, due) /\ Peaks(new, high)
    BY <1>1, <2>1, <2>2, SavingKeeps DEF w
  <2>4. new.worker[t] = v /\ \A u \in Workers \ {t} : new.worker[u] = st.worker[u]
    BY <1>2, <2>2
  <2>5. w.state = "blocked" => WorksFor(w) \subseteq new.spoiled \/ v.state = w.state
    BY <1>2, <2>2 DEF Proper
  <2>6. w.task # NoTask => w.task \in WorksFor(w)
    BY DEF WorksFor
  <2>7. Proper(v)
    <3>1. CASE v = Absent
      BY <3>1, AbsentIsProper
    <3>2. CASE v # Absent
      <4>1. v.pool \subseteq w.pool /\ v.task = w.task
        BY <2>2, <3>2
      <4>2. v.task # NoTask => v.pool = {}
        BY <1>2, <4>1 DEF Proper
      <4>3. v.state # "unknown"
        BY <1>4, <2>2, <3>2 DEF w
      <4>4. v.state = "blocked" => v.waiting
        BY <1>2, <2>2, <3>2 DEF Proper
      <4>5. v.metrics.throws = 0
        BY <2>2, ClearIsMetrics
      <4> QED BY <4>2, <4>3, <4>4, <4>5 DEF Proper
    <3> QED BY <3>1, <3>2
  <2>8. \A j \in Tasks : \A u \in Workers \ {t} : u \in new.listed[j] <=> u \in st.listed[j]
    BY <1>2, <2>2
  <2>9. Listing(new)
    <3> SUFFICES ASSUME NEW j \in Tasks, NEW u \in Workers
                 PROVE  /\ u \in new.listed[j] => (new.worker[u].task = j /\ new.worker[u].state # "removing")
                                                  \/ Tasks \subseteq new.spoiled
                        /\ new.worker[u].task = j => u \in new.listed[j] \/ j \in new.spoiled
      BY DEF Listing
    <3>1. CASE u # t
      BY <1>1, <2>1, <2>4, <2>8, <3>1 DEF Listing
    <3>2. CASE u = t /\ new.listed = st.listed /\ v.state = w.state /\ v.task = w.task
      BY <1>1, <2>1, <2>4, <3>2 DEF Listing, w
    <3>3. CASE /\ u = t
               /\ \/ v = Absent
                  \/ w.state = "blocked" /\ v.state = "removing" /\ v.task = w.task /\ v.pool \subseteq w.pool
               /\ k \in Tasks => new.listed = [st.listed EXCEPT ![k] = @ \ {t}]
               /\ k \notin Tasks => new.listed = st.listed
               /\ k \in Tasks /\ w.task # NoTask => w.task = k
               /\ w.waiting => WorksFor(w) \subseteq new.spoiled
               /\ k = NoTask /\ w.task # NoTask => Tasks \subseteq new.spoiled
      <4>1. ASSUME t \in new.listed[j] PROVE Tasks \subseteq new.spoiled
        <5>1. t \in st.listed[j] /\ (k \in Tasks => j # k)
          BY <1>2, <3>3, <4>1
        <5>2. w.task = j \/ Tasks \subseteq st.spoiled
          BY <1>1, <5>1 DEF Listing, w
        <5>3. j # NoTask
          BY NoTaskAssumption
        <5> QED BY <2>1, <3>3, <5>1, <5>2, <5>3
      <4>2. ASSUME v.task = j PROVE j \in new.spoiled
        <5>1. j # NoTask
          BY NoTaskAssumption
        <5>2. v # Absent
          BY <4>2, <5>1, AbsentIsProper
        <5>3. w.state = "blocked" /\ w.task = j
          BY <3>3, <4>2, <5>2
        <5>4. w.waiting
          BY <1>2, <5>3 DEF Proper
        <5> QED BY <2>6, <3>3, <5>1, <5>3, <5>4
      <4> QED BY <2>4, <3>3, <4>1, <4>2
    <3> QED BY <2>2, <3>1, <3>2, <3>3
  <2>10. v.task \in {w.task, NoTask}
    BY <2>2, AbsentIsProper
  <2>11. ASSUME k \in Tasks PROVE v.task # k \/ k \in new.spoiled
    <3>1. k # NoTask
      BY <2>11, NoTaskAssumption
    <3>2. CASE v = Absent
      BY <3>1, <3>2, AbsentIsProper
    <3>3. CASE v.task = w.task /\ w.task # k
      BY <3>3
    <3>4. CASE w.state = "blocked" /\ v.state = "removing" /\ v.task = w.task
               /\ (w.waiting => WorksFor(w) \subseteq new.spoiled)
      BY <1>2, <2>6, <3>1, <3>4 DEF Proper
    <3> QED BY <2>2, <2>11, <3>2, <3>3, <3>4
  <2>12. \A u \in Workers : Proper(new.worker[u])
    BY <1>1, <2>4, <2>7
  <2>13. Good(new, due, high)
    BY <2>1, <2>3, <2>9, <2>12 DEF Good
  <2> QED BY <2>1, <2>4, <2>10, <2>11, <2>13 DEF new, w
<1> QED BY <1>3, <1>4

(* A removal loses no time but that of a task that has a loss.             *)
LEMMA RemovedTimes ==
  ASSUME NEW now \in Nat, NEW st \in Books, NEW t \in Workers, NEW k \in Tasks \cup {NoTask}
  PROVE  KeepsTime(st, Removed(st, t, k), now)
<1> SUFFICES ASSUME NEW marks \in [Tasks -> Int], Accrued(st, now, marks)
             PROVE  Accrued(Removed(st, t, k), now, marks)
  BY DEF KeepsTime
<1> DEFINE w == st.worker[t]
           new == Removed(st, t, k)
<1>1. st.metrics \in [Tasks -> Metrics] /\ st.worker[t] \in WorkerStates
  BY BooksFields
<1>2. CASE st.worker[t].state = "unknown"
  BY <1>2 DEF Removed
<1>3. CASE st.worker[t].state # "unknown"
  <2>1. w \in WorkerStates /\ Timely(w, now)
    BY <1>1 DEF Accrued
  <2>2. PICK v \in WorkerStates :
          /\ new \in Books
          /\ new.metrics = checkpointed(st.metrics, w)
          /\ st.spoiled \subseteq new.spoiled
          /\ new.worker = [st.worker EXCEPT ![t] = v]
          /\ v.metrics = Clear
          /\ v = Absent \/ SameTimes(w, v)
          /\ \/ /\ v.state = w.state /\ v.task = w.task /\ v.waiting = w.waiting /\ v.pool \subseteq w.pool
                /\ k \in Tasks => w.task # k
                /\ new.listed = st.listed
             \/ /\ \/ v = Absent
                   \/ w.state = "blocked" /\ v.state = "removing" /\ v.task = w.task /\ v.pool \subseteq w.pool
                /\ k \in Tasks => new.listed = [st.listed EXCEPT ![k] = @ \ {t}]
                /\ k \notin Tasks => new.listed = st.listed
                /\ k \in Tasks /\ w.task # NoTask => w.task = k
                /\ w.waiting => WorksFor(w) \subseteq new.spoiled
                /\ k = NoTask /\ w.task # NoTask => Tasks \subseteq new.spoiled
    BY <1>3, RemovedShape
  <2> HIDE DEF new, w
  <2>3. CASE v # Absent /\ v.task = w.task /\ v.waiting = w.waiting
    <3>1. /\ new \in Books /\ new.metrics = checkpointed(st.metrics, w) /\ st.spoiled \subseteq new.spoiled
          /\ new.worker = [st.worker EXCEPT ![t] = v] /\ v.metrics = Clear /\ SameTimes(w, v)
      BY <2>2, <2>3
    <3>2. w = st.worker[t]
      BY DEF w
    <3>3. KeepsTime(st, new, now)
      BY <2>1, <2>3, <3>1, <3>2, SavedTimes
    <3> QED BY <3>3 DEF new, KeepsTime
  <2>4. CASE w.waiting => WorksFor(w) \subseteq new.spoiled
    <3>1. /\ new \in Books /\ new.metrics = checkpointed(st.metrics, w) /\ st.spoiled \subseteq new.spoiled
          /\ new.worker = [st.worker EXCEPT ![t] = v] /\ v.metrics = Clear /\ (v = Absent \/ SameTimes(w, v))
      BY <2>2
    <3>2. Timely(v, now)
      BY <2>1, <3>1, TimelySaved
    <3>3. ASSUME NEW j \in Tasks \ new.spoiled
          PROVE  Loss(w, j, now) + st.metrics[j].total <= Loss(v, j, now) + new.metrics[j].total
      <4>1. new.metrics[j].total = st.metrics[j].total + Gain(w, j)
        <5> DEFINE c == checkpointed(st.metrics, w)
        <5>1. c[j].total = st.metrics[j].total + Gain(w, j)
          BY <1>1, <2>1, Checkpointed
        <5> QED BY <3>1, <5>1
      <4>2. PICK a \in Int, b \in Int, l \in Int : a = st.metrics[j].total /\ b = w.metrics.total /\ l = Loss(v, j, now)
        <5>1. Loss(v, j, now) \in Int
          BY LossType
        <5> QED BY <1>1, <2>1, <5>1 DEF Metrics, WorkerStates
      <4>3. l >= 0 /\ b >= 0
        <5>1. Loss(v, j, now) >= 0
          BY <3>2, LossType
        <5> QED BY <2>1, <4>2, <5>1 DEF Timely
      <4>4. CASE w.task = j
        <5>1. j \in WorksFor(w)
          BY <4>4, NoTaskAssumption DEF WorksFor
        <5>2. ~w.waiting
          BY <2>4, <5>1
        <5>3. Gain(w, j) = b /\ Loss(w, j, now) = 0 + b
          BY <4>2, <4>4, <5>1, <5>2 DEF Gain, Loss, Held
        <5> QED BY <4>1, <4>2, <4>3, <5>3
      <4>5. CASE w.task # j
        <5>1. Loss(w, j, now) = 0 /\ Gain(w, j) \in Int /\ Gain(w, j) >= 0
          BY <4>2, <4>3, <4>5 DEF Gain, Loss
        <5> QED BY <4>1, <4>2, <4>3, <5>1
      <4> QED BY <4>4, <4>5
    <3>4. NoneLost(st, new, w, v, now)
      BY <3>3 DEF NoneLost
    <3>5. w = st.worker[t]
      BY DEF w
    <3>6. Accrued(new, now, marks)
      BY <3>1, <3>2, <3>4, <3>5, AccruedAfter
    <3> QED BY <3>6 DEF new
  <2>5. CASE v = Absent /\ v.state = w.state
    <3>1. w.state = "unknown"
      BY <2>5, AbsentIsProper
    <3> QED BY <1>3, <3>1 DEF w
  <2> QED BY <2>2, <2>3, <2>4, <2>5
<1> QED BY <1>2, <1>3

(* A removal and a release are functions of the books.                     *)
LEMMA RemovedBooks ==
  ASSUME NEW st \in Books, NEW t \in Workers, NEW k \in Tasks \cup {NoTask}
  PROVE  Removed(st, t, k) \in Books
<1>1. CASE st.worker[t].state = "unknown"
  BY <1>1 DEF Removed
<1>2. CASE st.worker[t].state # "unknown"
  BY <1>2, RemovedShape
<1> QED BY <1>1, <1>2

\* A thread taken off a task, and the books when it is not yet saved.
Without(w, k) == [w EXCEPT !.pool = @ \ {k}]
TakenOff(st, t, k) == [st EXCEPT !.worker[t].pool = @ \ {k},
                                 !.spoiled = @ \cup (IF st.worker[t].metrics # Clear THEN {k} ELSE {})]

(* Nothing but its pool changes.                                           *)
LEMMA WithoutShape ==
  ASSUME NEW w \in WorkerStates, NEW k
  PROVE  /\ Without(w, k) \in WorkerStates /\ Without(w, k).pool = w.pool \ {k}
         /\ Without(w, k).metrics = w.metrics /\ Without(w, k).task = w.task
         /\ Without(w, k).state = w.state /\ Without(w, k).waiting = w.waiting /\ SameTimes(w, Without(w, k))
<1>1. SameTimes(w, Without(w, k))
  BY DEF Without, WorkerStates, SameTimes
<1> QED BY <1>1 DEF Without, WorkerStates

(* What that changes in the books.                                         *)
LEMMA TakenOffShape ==
  ASSUME NEW st \in Books, NEW t \in Workers, NEW k \in Tasks
  PROVE  /\ TakenOff(st, t, k) \in Books
         /\ TakenOff(st, t, k).listed = st.listed /\ TakenOff(st, t, k).metrics = st.metrics
         /\ st.spoiled \subseteq TakenOff(st, t, k).spoiled
         /\ st.worker[t].metrics # Clear => k \in TakenOff(st, t, k).spoiled
         /\ TakenOff(st, t, k).worker = [st.worker EXCEPT ![t] = Without(st.worker[t], k)]
<1> DEFINE w == st.worker[t]
           v == Without(w, k)
           extra == IF w.metrics # Clear THEN {k} ELSE {}
           new == TakenOff(st, t, k)
<1>1. /\ st.worker \in [Workers -> WorkerStates] /\ st.listed \in [Tasks -> SUBSET Workers]
      /\ st.metrics \in [Tasks -> Metrics] /\ st.spoiled \in SUBSET Tasks
  BY BooksFields
<1>2. w \in WorkerStates
  BY <1>1
<1>3. v \in WorkerStates
  BY <1>2, WithoutShape
<1>4. st = [worker |-> st.worker, listed |-> st.listed, metrics |-> st.metrics, spoiled |-> st.spoiled]
  BY DEF Books
<1>5. new = [worker |-> [st.worker EXCEPT ![t] = v], listed |-> st.listed, metrics |-> st.metrics,
             spoiled |-> st.spoiled \cup extra]
  <2>1. new = [[st EXCEPT !.worker = [@ EXCEPT ![t] = v]] EXCEPT !.spoiled = @ \cup extra]
    BY DEF TakenOff, Books, Without
  <2> HIDE DEF v, w, new
  <2> QED BY <1>4, <2>1
<1>6. st.spoiled \cup extra \in SUBSET Tasks
  BY <1>1
<1> HIDE DEF v, new, w
<1>7. [st.worker EXCEPT ![t] = v] \in [Workers -> WorkerStates]
  BY <1>1, <1>3
<1>8. new \in Books /\ new.listed = st.listed /\ new.metrics = st.metrics /\ new.spoiled = st.spoiled \cup extra
      /\ new.worker = [st.worker EXCEPT ![t] = v]
  <2> HIDE DEF extra
  <2> QED BY <1>1, <1>5, <1>6, <1>7 DEF Books
<1>9. st.spoiled \subseteq new.spoiled /\ (w.metrics # Clear => k \in new.spoiled)
  BY <1>8
<1> QED BY <1>8, <1>9 DEF new, w, v

(* A release in terms of it.                                               *)
LEMMA ReleasedIs ==
  ASSUME NEW st, NEW t, NEW k
  PROVE  Released(st, t, k) = IF k \notin st.worker[t].pool THEN st
                              ELSE IF TakenOff(st, t, k).worker[t].pool = {}
                                   THEN Removed(TakenOff(st, t, k), t, k) ELSE TakenOff(st, t, k)
BY DEF Released, TakenOff

(* A release is a function of the books.                                   *)
LEMMA ReleasedBooks ==
  ASSUME NEW st \in Books, NEW t \in Workers, NEW k \in Tasks
  PROVE  Released(st, t, k) \in Books
<1> DEFINE less == TakenOff(st, t, k)
<1>1. less \in Books
  BY TakenOffShape
<1> HIDE DEF less
<1>2. Removed(less, t, k) \in Books
  BY <1>1, RemovedBooks
<1> QED BY <1>1, <1>2, ReleasedIs DEF less

(* A release keeps the books good, and makes no thread a dedicated one.    *)
LEMMA ReleasedGood ==
  ASSUME NEW due \in [Tasks -> Int], NEW high \in Nat, NEW st, Good(st, due, high),
         NEW t \in Workers, NEW k \in Tasks
  PROVE  LET new == Released(st, t, k)
         IN  /\ Good(new, due, high)
             /\ st.spoiled \subseteq new.spoiled
             /\ \A u \in Workers : new.worker[u].task \in {st.worker[u].task, NoTask}
<1> DEFINE w == st.worker[t]
           less == TakenOff(st, t, k)
<1>1. /\ st \in Books /\ Listing(st) /\ Balanced(st, due) /\ Peaks(st, high)
      /\ \A u \in Workers : Proper(st.worker[u])
  BY DEF Good
<1>2. /\ st.worker \in [Workers -> WorkerStates] /\ st.listed \in [Tasks -> SUBSET Workers]
      /\ st.metrics \in [Tasks -> Metrics] /\ w \in WorkerStates /\ Proper(w)
  BY <1>1, BooksFields
<1>3. CASE k \notin w.pool
  <2>1. Released(st, t, k) = st
    BY <1>3 DEF Released
  <2> QED BY <2>1
<1>4. CASE k \in w.pool
  <2> DEFINE v == Without(w, k)
  <2>1. /\ less \in Books /\ less.listed = st.listed /\ less.metrics = st.metrics
        /\ st.spoiled \subseteq less.spoiled /\ (w.metrics # Clear => k \in less.spoiled)
        /\ less.worker = [st.worker EXCEPT ![t] = v]
        /\ v \in WorkerStates /\ v.pool = w.pool \ {k} /\ v.metrics = w.metrics /\ v.task = w.task
        /\ v.state = w.state /\ v.waiting = w.waiting
    <3>1. st \in Books
      BY <1>1
    <3>2. /\ v \in WorkerStates /\ v.pool = w.pool \ {k} /\ v.metrics = w.metrics /\ v.task = w.task
          /\ v.state = w.state /\ v.waiting = w.waiting
      BY <1>2, WithoutShape
    <3> QED BY <3>1, <3>2, TakenOffShape
  <2> HIDE DEF less, w, v
  <2>2. w.task = NoTask /\ w.state # "unknown"
    BY <1>2, <1>4, AbsentIsProper DEF Proper
  <2>3. less.worker[t] = v /\ \A u \in Workers \ {t} : less.worker[u] = st.worker[u]
    BY <1>2, <2>1
  <2>4. Proper(v)
    <3>1. v.state = "removing" => v.metrics.throws = 0
      BY <1>2, <2>1 DEF Proper
    <3>2. v.state = "blocked" => v.waiting
      BY <1>2, <2>1 DEF Proper
    <3> QED BY <2>1, <2>2, <3>1, <3>2 DEF Proper
  <2>5. \A u \in Workers : Proper(less.worker[u])
    BY <1>1, <2>3, <2>4
  <2>6. \A u \in Workers : less.worker[u].task = st.worker[u].task /\ less.worker[u].state = st.worker[u].state
                           /\ less.worker[u].metrics = st.worker[u].metrics
    BY <2>1, <2>3 DEF w
  <2>7. Listing(less)
    BY <1>1, <2>1, <2>6 DEF Listing
  <2>8. Peaks(less, high)
    BY <1>1, <2>1, <2>6 DEF Peaks
  <2>9. Balanced(less, due)
    <3> SUFFICES ASSUME NEW j \in Tasks \ less.spoiled
                 PROVE  due[j] = SumFunction(Shares(less.worker, j)) + less.metrics[j].throws
      BY DEF Balanced
    <3>1. due[j] = SumFunction(Shares(st.worker, j)) + st.metrics[j].throws
      BY <1>1, <2>1 DEF Balanced
    <3>2. Share(v, j) = Share(w, j)
      <4>1. CASE j = k
        <5>1. w.metrics.throws = 0
          BY <2>1, <4>1, ClearIsMetrics
        <5> QED BY <2>1, <5>1 DEF Share
      <4>2. CASE j # k
        <5>1. j \in WorksFor(v) <=> j \in WorksFor(w)
          BY <2>1, <2>2, <4>2 DEF WorksFor
        <5> QED BY <2>1, <5>1 DEF Share
      <4> QED BY <4>1, <4>2
    <3>3. \A u \in Workers : Share(less.worker[u], j) = Share(st.worker[u], j)
      BY <2>3, <3>2 DEF w
    <3>4. Shares(less.worker, j) = Shares(st.worker, j)
      BY <3>3 DEF Shares
    <3> QED BY <2>1, <3>1, <3>4
  <2>10. Good(less, due, high)
    BY <2>1, <2>5, <2>7, <2>8, <2>9 DEF Good
  <2>11. CASE less.worker[t].pool = {}
    <3> DEFINE new == Removed(less, t, k)
    <3>1. k \in Tasks \cup {NoTask}
      OBVIOUS
    <3>2. /\ Good(new, due, high)
          /\ less.spoiled \subseteq new.spoiled
          /\ \A u \in Workers \ {t} : new.worker[u] = less.worker[u]
          /\ new.worker[t].task \in {less.worker[t].task, NoTask}
      BY <2>10, <3>1, RemovedGood
    <3>3. Released(st, t, k) = new
      BY <1>4, <2>11, ReleasedIs DEF less, w
    <3> HIDE DEF new
    <3>4. \A u \in Workers : new.worker[u].task \in {st.worker[u].task, NoTask}
      BY <2>6, <3>2
    <3> QED BY <2>1, <3>2, <3>3, <3>4
  <2>12. CASE less.worker[t].pool # {}
    <3>1. Released(st, t, k) = less
      BY <1>4, <2>12, ReleasedIs DEF less, w
    <3> QED BY <2>1, <2>6, <2>10, <3>1
  <2> QED BY <2>11, <2>12
<1> QED BY <1>3, <1>4

(* Nor does a release.                                                     *)
LEMMA ReleasedTimes ==
  ASSUME NEW now \in Nat, NEW st \in Books, NEW t \in Workers, NEW k \in Tasks
  PROVE  KeepsTime(st, Released(st, t, k), now)
<1> DEFINE w == st.worker[t]
           less == TakenOff(st, t, k)
           v == Without(w, k)
<1>1. w \in WorkerStates /\ st.worker \in [Workers -> WorkerStates]
  BY BooksFields
<1>2. /\ v.metrics = w.metrics /\ v.task = w.task /\ v.waiting = w.waiting /\ SameTimes(w, v)
  BY <1>1, WithoutShape
<1>3. /\ less \in Books /\ less.metrics = st.metrics /\ st.spoiled \subseteq less.spoiled
      /\ less.worker = [st.worker EXCEPT ![t] = v]
  BY TakenOffShape
<1>4. Released(st, t, k) \in {st, less, Removed(less, t, k)}
  BY ReleasedIs
<1> HIDE DEF v, less
<1>5. KeepsTime(st, less, now)
  <2>1. ASSUME NEW u \in Workers
        PROVE  /\ SameTimes(st.worker[u], less.worker[u])
               /\ less.worker[u].task = st.worker[u].task /\ less.worker[u].waiting = st.worker[u].waiting
               /\ less.worker[u].metrics.total = st.worker[u].metrics.total
    <3>1. CASE u = t
      BY <1>1, <1>2, <1>3, <3>1
    <3>2. CASE u # t
      <4>1. less.worker[u] = st.worker[u]
        BY <1>1, <1>3, <3>2
      <4> QED BY <4>1 DEF SameTimes
    <3> QED BY <3>1, <3>2
  <2> QED BY <1>3, <2>1, AccruedStill
<1>6. KeepsTime(less, Removed(less, t, k), now)
  BY <1>3, RemovedTimes
<1> QED BY <1>4, <1>5, <1>6 DEF KeepsTime

(* task_done's removals, one thread after another.                          *)
LEMMA RemovedFold ==
  ASSUME NEW k \in Tasks, NEW base \in Books, NEW S \in SUBSET Workers
  PROVE  \E it : /\ it[{}] = base
                 /\ \A s \in SUBSET S : s # {} => \E x \in s : it[s] = Removed(it[s \ {x}], x, k)
                 /\ FoldSet(LAMBDA t, st : Removed(st, t, k), base, S) = it[S]
<1> DEFINE c(s) == CHOOSE x \in s : TRUE
           F == [p \in S \X Books |-> Removed(p[2], p[1], k)]
           P(it) == it = [s \in SUBSET S |-> IF s = {} THEN base ELSE Removed(it[s \ {c(s)}], c(s), k)]
           sol == CHOOSE it : P(it)
<1>1. IsFiniteSet(S)
  BY WorkersAssumption, FS_Subset
<1>2. F \in [S \X Books -> Books]
  BY RemovedBooks
<1>3. PICK it \in [SUBSET S -> Books] : FoldsBy(it, F, base, S)
  <2> HIDE DEF F
  <2> QED BY <1>1, <1>2, FoldExists
<1>4. P(it)
  <2>1. ASSUME NEW s \in SUBSET S, s # {}
        PROVE  F[<<c(s), it[s \ {c(s)}]>>] = Removed(it[s \ {c(s)}], c(s), k)
    <3>1. c(s) \in s
      BY <2>1
    <3> HIDE DEF c
    <3>2. c(s) \in S /\ it[s \ {c(s)}] \in Books
      BY <3>1
    <3> QED BY <3>2
  <2> HIDE DEF F
  <2> QED BY <1>3, <2>1 DEF FoldsBy
<1>5. P(sol)
  <2> HIDE DEF P
  <2> QED BY <1>4
<1>6. FoldSet(LAMBDA t, st : Removed(st, t, k), base, S) = sol[S]
  BY DEF FoldSet, MapThenFoldSet
<1> HIDE DEF sol
<1>7. sol[{}] = base
  BY <1>5
<1>8. ASSUME NEW s \in SUBSET S, s # {}
      PROVE  \E x \in s : sol[s] = Removed(sol[s \ {x}], x, k)
  <2>1. c(s) \in s
    BY <1>8
  <2>2. sol[s] = Removed(sol[s \ {c(s)}], c(s), k)
    BY <1>5, <1>8
  <2> HIDE DEF c
  <2> QED BY <2>1, <2>2
<1> QED BY <1>6, <1>7, <1>8, Zenon

(* task_done's releases, one thread after another.                          *)
LEMMA ReleasedFold ==
  ASSUME NEW k \in Tasks, NEW base \in Books, NEW S \in SUBSET Workers
  PROVE  \E it : /\ it[{}] = base
                 /\ \A s \in SUBSET S : s # {} => \E x \in s : it[s] = Released(it[s \ {x}], x, k)
                 /\ FoldSet(LAMBDA t, s : Released(s, t, k), base, S) = it[S]
<1> DEFINE c(s) == CHOOSE x \in s : TRUE
           F == [p \in S \X Books |-> Released(p[2], p[1], k)]
           P(it) == it = [s \in SUBSET S |-> IF s = {} THEN base ELSE Released(it[s \ {c(s)}], c(s), k)]
           sol == CHOOSE it : P(it)
<1>1. IsFiniteSet(S)
  BY WorkersAssumption, FS_Subset
<1>2. F \in [S \X Books -> Books]
  BY ReleasedBooks
<1>3. PICK it \in [SUBSET S -> Books] : FoldsBy(it, F, base, S)
  <2> HIDE DEF F
  <2> QED BY <1>1, <1>2, FoldExists
<1>4. P(it)
  <2>1. ASSUME NEW s \in SUBSET S, s # {}
        PROVE  F[<<c(s), it[s \ {c(s)}]>>] = Released(it[s \ {c(s)}], c(s), k)
    <3>1. c(s) \in s
      BY <2>1
    <3> HIDE DEF c
    <3>2. c(s) \in S /\ it[s \ {c(s)}] \in Books
      BY <3>1
    <3> QED BY <3>2
  <2> HIDE DEF F
  <2> QED BY <1>3, <2>1 DEF FoldsBy
<1>5. P(sol)
  <2> HIDE DEF P
  <2> QED BY <1>4
<1>6. FoldSet(LAMBDA t, s : Released(s, t, k), base, S) = sol[S]
  BY DEF FoldSet, MapThenFoldSet
<1> HIDE DEF sol
<1>7. sol[{}] = base
  BY <1>5
<1>8. ASSUME NEW s \in SUBSET S, s # {}
      PROVE  \E x \in s : sol[s] = Released(sol[s \ {x}], x, k)
  <2>1. c(s) \in s
    BY <1>8
  <2>2. sol[s] = Released(sol[s \ {c(s)}], c(s), k)
    BY <1>5, <1>8
  <2> HIDE DEF c
  <2> QED BY <2>1, <2>2
<1> QED BY <1>6, <1>7, <1>8, Zenon

\* No thread is dedicated to a task, but for the losses.
Undedicated(st, k) == \A u \in Workers : st.worker[u].task # k \/ k \in st.spoiled

(* After its removals no thread is dedicated to the task: those that were  *)
(* not listed were not.                                                    *)
LEMMA RemovalsGood ==
  ASSUME NEW due \in [Tasks -> Int], NEW high \in Nat, NEW st, Good(st, due, high), NEW k \in Tasks,
         NEW now \in Nat
  PROVE  LET new == FoldSet(LAMBDA t, s : Removed(s, t, k), st, st.listed[k])
         IN  Good(new, due, high) /\ Undedicated(new, k) /\ KeepsTime(st, new, now)
<1>1. st \in Books /\ Listing(st)
  BY DEF Good
<1>2. PICK S : S = st.listed[k]
  OBVIOUS
<1>3. S \in SUBSET Workers /\ IsFiniteSet(S)
  <2>1. S \in SUBSET Workers
    BY <1>1, <1>2, BooksFields
  <2> QED BY <2>1, WorkersAssumption, FS_Subset
<1>4. PICK it : /\ it[{}] = st
                /\ \A s \in SUBSET S : s # {} => \E x \in s : it[s] = Removed(it[s \ {x}], x, k)
                /\ FoldSet(LAMBDA t, s : Removed(s, t, k), st, S) = it[S]
  BY <1>1, <1>3, RemovedFold, Zenon
<1> DEFINE Done(s) == /\ Good(it[s], due, high) /\ KeepsTime(st, it[s], now)
                      /\ \A u \in Workers \ (S \ s) : it[s].worker[u].task # k \/ k \in it[s].spoiled
           B == {s \in SUBSET S : Done(s)}
<1>5. Done({})
  <2>1. \A u \in Workers \ S : st.worker[u].task # k \/ k \in st.spoiled
    BY <1>1, <1>2 DEF Listing
  <2>2. KeepsTime(st, st, now)
    BY DEF KeepsTime
  <2> QED BY <1>4, <2>1, <2>2
<1>6. ASSUME NEW s \in SUBSET S, s # {}
      PROVE  \E x \in s : s \ {x} \in B => s \in B
  <2>1. PICK x \in s : it[s] = Removed(it[s \ {x}], x, k)
    BY <1>4, <1>6
  <2>2. SUFFICES ASSUME Done(s \ {x}) PROVE Done(s)
    BY <2>1
  <2> DEFINE old == it[s \ {x}]
             new == it[s]
  <2>3. Good(old, due, high) /\ KeepsTime(st, old, now)
        /\ \A u \in Workers \ (S \ (s \ {x})) : old.worker[u].task # k \/ k \in old.spoiled
    BY <2>2
  <2>4. x \in Workers /\ k \in Tasks \cup {NoTask}
    BY <1>3
  <2>5. new = Removed(old, x, k)
    BY <2>1
  <2> HIDE DEF old, new
  <2>6. /\ Good(new, due, high)
        /\ old.spoiled \subseteq new.spoiled
        /\ \A u \in Workers \ {x} : new.worker[u] = old.worker[u]
        /\ new.worker[x].task # k \/ k \in new.spoiled
    BY <2>3, <2>4, <2>5, RemovedGood
  <2>7. ASSUME NEW u \in Workers \ (S \ s) PROVE new.worker[u].task # k \/ k \in new.spoiled
    <3>1. CASE u = x
      BY <2>6, <3>1
    <3>2. CASE u # x
      <4>1. u \in Workers \ (S \ (s \ {x}))
        BY <3>2
      <4> QED BY <2>3, <2>6, <3>2, <4>1
    <3> QED BY <3>1, <3>2
  <2>8. KeepsTime(st, new, now)
    <3>1. old \in Books
      BY <2>3 DEF Good
    <3>2. KeepsTime(old, new, now)
      BY <2>4, <2>5, <3>1, RemovedTimes
    <3> QED BY <2>3, <3>2 DEF KeepsTime
  <2> QED BY <2>6, <2>7, <2>8 DEF new
<1>7. {} \in B
  BY <1>5
<1> HIDE DEF B
<1>8. S \in B
  BY <1>3, <1>6, <1>7, FiniteInduction
<1>9. Done(S)
  BY <1>8 DEF B
<1>10. Good(it[S], due, high) /\ Undedicated(it[S], k) /\ KeepsTime(st, it[S], now)
  BY <1>9 DEF Undedicated
<1>11. FoldSet(LAMBDA t, s : Removed(s, t, k), st, st.listed[k]) = it[S]
  BY <1>2, <1>4, Zenon
<1> QED BY <1>10, <1>11, Zenon

(* The releases do not change that.                                        *)
LEMMA ReleasesGood ==
  ASSUME NEW due \in [Tasks -> Int], NEW high \in Nat, NEW st, Good(st, due, high),
         NEW k \in Tasks, Undedicated(st, k), NEW now \in Nat
  PROVE  LET new == FoldSet(LAMBDA t, s : Released(s, t, k), st, Workers)
         IN  Good(new, due, high) /\ Undedicated(new, k) /\ KeepsTime(st, new, now)
<1>1. st \in Books
  BY DEF Good
<1>2. PICK it : /\ it[{}] = st
                /\ \A s \in SUBSET Workers : s # {} => \E x \in s : it[s] = Released(it[s \ {x}], x, k)
                /\ FoldSet(LAMBDA t, s : Released(s, t, k), st, Workers) = it[Workers]
  <2>1. Workers \in SUBSET Workers
    OBVIOUS
  <2> QED BY <1>1, <2>1, ReleasedFold, Zenon
<1> DEFINE Done(s) == Good(it[s], due, high) /\ Undedicated(it[s], k) /\ KeepsTime(st, it[s], now)
           B == {s \in SUBSET Workers : Done(s)}
<1>3. {} \in B
  <2>1. KeepsTime(st, st, now)
    BY DEF KeepsTime
  <2> QED BY <1>2, <2>1
<1>4. ASSUME NEW s \in SUBSET Workers, s # {}
      PROVE  \E x \in s : s \ {x} \in B => s \in B
  <2>1. PICK x \in s : it[s] = Released(it[s \ {x}], x, k)
    BY <1>2, <1>4
  <2>2. SUFFICES ASSUME Done(s \ {x}) PROVE Done(s)
    BY <2>1
  <2> DEFINE old == it[s \ {x}]
             new == it[s]
  <2>3. Good(old, due, high) /\ Undedicated(old, k) /\ KeepsTime(st, old, now)
    BY <2>2
  <2>4. new = Released(old, x, k) /\ x \in Workers
    BY <2>1
  <2> HIDE DEF old, new
  <2>5. /\ Good(new, due, high)
        /\ old.spoiled \subseteq new.spoiled
        /\ \A u \in Workers : new.worker[u].task \in {old.worker[u].task, NoTask}
    BY <2>3, <2>4, ReleasedGood
  <2>6. Undedicated(new, k)
    BY <2>3, <2>5, NoTaskAssumption DEF Undedicated
  <2>7. KeepsTime(st, new, now)
    <3>1. old \in Books
      BY <2>3 DEF Good
    <3>2. KeepsTime(old, new, now)
      BY <2>4, <3>1, ReleasedTimes
    <3> QED BY <2>3, <3>2 DEF KeepsTime
  <2> QED BY <2>5, <2>6, <2>7 DEF new
<1> HIDE DEF B
<1>5. Workers \in B
  BY <1>3, <1>4, WorkersAssumption, FiniteInduction
<1>6. Good(it[Workers], due, high) /\ Undedicated(it[Workers], k) /\ KeepsTime(st, it[Workers], now)
  BY <1>5 DEF B
<1> QED BY <1>2, <1>6, Zenon

(* The list of a task that no thread is dedicated to may be dropped.       *)
LEMMA ListDropped ==
  ASSUME NEW due \in [Tasks -> Int], NEW high \in Nat, NEW st, Good(st, due, high),
         NEW k \in Tasks, Undedicated(st, k), NEW now
  PROVE  LET new == [st EXCEPT !.listed[k] = {}] IN Good(new, due, high) /\ KeepsTime(st, new, now)
<1> DEFINE new == [st EXCEPT !.listed[k] = {}]
<1>1. st \in Books /\ Listing(st)
  BY DEF Good
<1>2. /\ st.worker \in [Workers -> WorkerStates] /\ st.listed \in [Tasks -> SUBSET Workers]
      /\ st.metrics \in [Tasks -> Metrics] /\ st.spoiled \in SUBSET Tasks
  BY <1>1, BooksFields
<1>3. PICK listed \in [Tasks -> SUBSET Workers] : listed = [st.listed EXCEPT ![k] = {}]
  BY <1>2
<1>4. st = [worker |-> st.worker, listed |-> st.listed, metrics |-> st.metrics, spoiled |-> st.spoiled]
  BY <1>1 DEF Books
<1>5. new = [worker |-> st.worker, listed |-> listed, metrics |-> st.metrics, spoiled |-> st.spoiled]
  BY <1>3, <1>4
<1> HIDE DEF new
<1>6. new.worker = st.worker /\ new.listed = listed /\ new.metrics = st.metrics /\ new.spoiled = st.spoiled
      /\ new \in Books
  BY <1>2, <1>5 DEF Books
<1>7. Listing(new)
  <2>1. \A j \in Tasks : \A u \in Workers : /\ u \in listed[j] => u \in st.listed[j]
                                            /\ u \in st.listed[j] => u \in listed[j] \/ j = k
    BY <1>2, <1>3
  <2> QED BY <1>1, <1>6, <2>1 DEF Listing, Undedicated
<1>8. Balanced(new, due) /\ Peaks(new, high) /\ \A u \in Workers : Proper(new.worker[u])
  BY <1>6 DEF Good, Balanced, Peaks
<1>9. KeepsTime(st, new, now)
  BY <1>6 DEF KeepsTime, Accrued
<1> QED BY <1>6, <1>7, <1>8, <1>9 DEF Good, new

-----------------------------------------------------------------------------
(* The other changes of the books. *)

\* The books with another record for one thread.
WithWorker(st, t, v) == [st EXCEPT !.worker[t] = v]

(* What that changes.                                                      *)
LEMMA WithWorkerShape ==
  ASSUME NEW st \in Books, NEW t \in Workers, NEW v \in WorkerStates
  PROVE  /\ WithWorker(st, t, v) \in Books
         /\ WithWorker(st, t, v).worker = [st.worker EXCEPT ![t] = v]
         /\ WithWorker(st, t, v).worker[t] = v
         /\ \A u \in Workers \ {t} : WithWorker(st, t, v).worker[u] = st.worker[u]
         /\ WithWorker(st, t, v).listed = st.listed
         /\ WithWorker(st, t, v).metrics = st.metrics
         /\ WithWorker(st, t, v).spoiled = st.spoiled
<1> DEFINE new == WithWorker(st, t, v)
<1>1. /\ st.worker \in [Workers -> WorkerStates] /\ st.listed \in [Tasks -> SUBSET Workers]
      /\ st.metrics \in [Tasks -> Metrics] /\ st.spoiled \in SUBSET Tasks
  BY BooksFields
<1>2. st = [worker |-> st.worker, listed |-> st.listed, metrics |-> st.metrics, spoiled |-> st.spoiled]
  BY DEF Books
<1>3. PICK workers \in [Workers -> WorkerStates] : workers = [st.worker EXCEPT ![t] = v]
  BY <1>1
<1>4. new = [worker |-> workers, listed |-> st.listed, metrics |-> st.metrics, spoiled |-> st.spoiled]
  BY <1>2, <1>3 DEF WithWorker
<1> HIDE DEF new
<1>5. new \in Books /\ new.worker = workers /\ new.listed = st.listed /\ new.metrics = st.metrics
      /\ new.spoiled = st.spoiled
  BY <1>1, <1>4 DEF Books
<1>6. workers[t] = v /\ \A u \in Workers \ {t} : workers[u] = st.worker[u]
  BY <1>1, <1>3
<1> QED BY <1>3, <1>5, <1>6 DEF new

(* A thread goes on working for the same tasks, and n exceptions are       *)
(* thrown for them.                                                        *)
LEMMA RecordUpdated ==
  ASSUME NEW due \in [Tasks -> Int], NEW high \in Nat, NEW st, Good(st, due, high),
         NEW t \in Workers, NEW v \in WorkerStates, Proper(v),
         v.task = st.worker[t].task, v.pool = st.worker[t].pool,
         v.state = "removing" => st.worker[t].state = "removing",
         NEW n \in Int, v.metrics.throws = st.worker[t].metrics.throws + n, v.metrics.max_allocated <= high,
         NEW owes \in [Tasks -> Int],
         \A k \in Tasks : owes[k] = due[k] + (IF k \in WorksFor(st.worker[t]) THEN n ELSE 0)
  PROVE  Good(WithWorker(st, t, v), owes, high)
<1> DEFINE w == st.worker[t]
           new == WithWorker(st, t, v)
<1>1. /\ st \in Books /\ Listing(st) /\ Balanced(st, due) /\ Peaks(st, high)
      /\ \A u \in Workers : Proper(st.worker[u])
  BY DEF Good
<1>2. /\ st.worker \in [Workers -> WorkerStates] /\ st.metrics \in [Tasks -> Metrics] /\ w \in WorkerStates
  BY <1>1, BooksFields
<1>3. /\ new \in Books /\ new.worker = [st.worker EXCEPT ![t] = v]
      /\ new.worker[t] = v /\ \A u \in Workers \ {t} : new.worker[u] = st.worker[u]
      /\ new.listed = st.listed /\ new.metrics = st.metrics /\ new.spoiled = st.spoiled
  BY <1>1, WithWorkerShape
<1> HIDE DEF new
<1>4. \A u \in Workers : Proper(new.worker[u])
  BY <1>1, <1>3
<1>5. Listing(new)
  BY <1>1, <1>3 DEF Listing
<1>6. Peaks(new, high)
  BY <1>1, <1>3 DEF Peaks
<1>7. Balanced(new, owes)
  <2> SUFFICES ASSUME NEW k \in Tasks \ new.spoiled
               PROVE  owes[k] = SumFunction(Shares(new.worker, k)) + new.metrics[k].throws
    BY DEF Balanced
  <2> DEFINE a == SumFunction(Shares(st.worker, k))
             b == st.metrics[k].throws
             d == IF k \in WorksFor(w) THEN n ELSE 0
  <2>1. due[k] = a + b
    BY <1>1, <1>3 DEF Balanced
  <2>2. a \in Int /\ SumFunction(Shares(new.worker, k)) = a + (Share(v, k) - Share(w, k))
    BY <1>2, <1>3, SharesChange
  <2>3. w.metrics.throws \in Int /\ b \in Int /\ d \in Int
    BY <1>2 DEF WorkerStates, Metrics
  <2>4. WorksFor(v) = WorksFor(w)
    BY DEF WorksFor
  <2>5. Share(v, k) - Share(w, k) = d
    BY <2>3, <2>4 DEF Share
  <2>6. owes[k] = due[k] + d
    OBVIOUS
  <2> HIDE DEF a, b, d
  <2>7. owes[k] = (a + d) + b
    BY <2>1, <2>2, <2>3, <2>6
  <2>8. SumFunction(Shares(new.worker, k)) = a + d
    BY <2>2, <2>5
  <2> QED BY <1>3, <2>7, <2>8 DEF b
<1> QED BY <1>3, <1>4, <1>5, <1>6, <1>7 DEF Good, new

(* A thread is saved and goes on; what it works for may change when it is  *)
(* a pool thread.                                                          *)
LEMMA SavedInPlace ==
  ASSUME NEW due \in [Tasks -> Int], NEW high \in Nat, NEW st, Good(st, due, high),
         NEW t \in Workers, NEW v \in WorkerStates, Proper(v), v.metrics = Clear,
         v.task = st.worker[t].task, v.state = "removing" => st.worker[t].state = "removing",
         NEW new \in Books, new.worker = [st.worker EXCEPT ![t] = v], new.listed = st.listed,
         new.metrics = checkpointed(st.metrics, st.worker[t]), new.spoiled = st.spoiled
  PROVE  Good(new, due, high)
<1>1. /\ st \in Books /\ Listing(st) /\ Balanced(st, due) /\ Peaks(st, high)
      /\ \A u \in Workers : Proper(st.worker[u])
  BY DEF Good
<1>2. st.worker \in [Workers -> WorkerStates]
  BY <1>1, BooksFields
<1>3. new.worker[t] = v /\ \A u \in Workers \ {t} : new.worker[u] = st.worker[u]
  BY <1>2
<1>4. Balanced(new, due) /\ Peaks(new, high)
  BY <1>1, SavingKeeps
<1>5. Listing(new)
  BY <1>1, <1>3 DEF Listing
<1>6. \A u \in Workers : Proper(new.worker[u])
  BY <1>1, <1>3
<1> QED BY <1>4, <1>5, <1>6 DEF Good

(* A thread that was being removed is erased.                              *)
LEMMA Erased ==
  ASSUME NEW due \in [Tasks -> Int], NEW high \in Nat, NEW st, Good(st, due, high),
         NEW t \in Workers, st.worker[t].state = "removing"
  PROVE  Good(WithWorker(st, t, Absent), due, high)
<1> DEFINE w == st.worker[t]
           new == WithWorker(st, t, Absent)
<1>1. /\ st \in Books /\ Listing(st) /\ Balanced(st, due) /\ Peaks(st, high)
      /\ \A u \in Workers : Proper(st.worker[u])
  BY DEF Good
<1>2. /\ st.worker \in [Workers -> WorkerStates] /\ st.metrics \in [Tasks -> Metrics] /\ w \in WorkerStates
  BY <1>1, BooksFields
<1>3. /\ new \in Books /\ new.worker = [st.worker EXCEPT ![t] = Absent]
      /\ new.worker[t] = Absent /\ \A u \in Workers \ {t} : new.worker[u] = st.worker[u]
      /\ new.listed = st.listed /\ new.metrics = st.metrics /\ new.spoiled = st.spoiled
  BY <1>1, AbsentIsProper, WithWorkerShape
<1> HIDE DEF new
<1>4. \A u \in Workers : Proper(new.worker[u])
  BY <1>1, <1>3, AbsentIsProper
<1>5. Listing(new)
  BY <1>1, <1>3, AbsentIsProper, NoTaskAssumption DEF Listing
<1>6. Peaks(new, high)
  BY <1>1, <1>3, AbsentIsProper, ClearIsMetrics DEF Peaks
<1>7. Balanced(new, due)
  <2> SUFFICES ASSUME NEW k \in Tasks \ new.spoiled
               PROVE  due[k] = SumFunction(Shares(new.worker, k)) + new.metrics[k].throws
    BY DEF Balanced
  <2>1. w.metrics.throws = 0
    BY <1>1 DEF Proper
  <2>2. Share(w, k) = 0 /\ Share(Absent, k) = 0
    BY <2>1, AbsentIsProper, ClearIsMetrics DEF Share
  <2>3. \A u \in Workers : Share(new.worker[u], k) = Share(st.worker[u], k)
    BY <1>3, <2>2
  <2>4. Shares(new.worker, k) = Shares(st.worker, k)
    BY <2>3 DEF Shares
  <2> QED BY <1>1, <1>3, <2>4 DEF Balanced
<1> QED BY <1>3, <1>4, <1>5, <1>6, <1>7 DEF Good, new

(* A dedicated thread is listed, for the first time or once more.          *)
LEMMA Registering ==
  ASSUME NEW due \in [Tasks -> Int], NEW high \in Nat, NEW st, Good(st, due, high),
         NEW t \in Workers, NEW k \in Tasks, NEW v \in WorkerStates, Proper(v), v.task = k,
         v.state # "removing", v.state # "unknown",
         v = st.worker[t] \/ (st.worker[t].state = "unknown" /\ v.metrics = Clear /\ v.waiting = FALSE /\ SameTimes(Absent, v)),
         NEW now \in Nat
  PROVE  LET new == [st EXCEPT !.worker[t] = v, !.listed[k] = @ \cup {t}]
         IN  Good(new, due, high) /\ KeepsTime(st, new, now)
<1> DEFINE w == st.worker[t]
           mid == WithWorker(st, t, v)
           new == [st EXCEPT !.worker[t] = v, !.listed[k] = @ \cup {t}]
<1>1. /\ st \in Books /\ Listing(st) /\ Balanced(st, due) /\ Peaks(st, high)
      /\ \A u \in Workers : Proper(st.worker[u])
  BY DEF Good
<1>2. /\ st.worker \in [Workers -> WorkerStates] /\ st.listed \in [Tasks -> SUBSET Workers]
      /\ st.metrics \in [Tasks -> Metrics] /\ st.spoiled \in SUBSET Tasks
  BY <1>1, BooksFields
<1>3. st = [worker |-> st.worker, listed |-> st.listed, metrics |-> st.metrics, spoiled |-> st.spoiled]
  BY <1>1 DEF Books
<1>4. PICK workers \in [Workers -> WorkerStates] : workers = [st.worker EXCEPT ![t] = v]
  BY <1>2
<1>5. PICK listed \in [Tasks -> SUBSET Workers] : listed = [st.listed EXCEPT ![k] = @ \cup {t}]
  BY <1>2
<1>6. new = [worker |-> workers, listed |-> listed, metrics |-> st.metrics, spoiled |-> st.spoiled]
  <2>1. new = [[st EXCEPT !.worker = [st.worker EXCEPT ![t] = v]] EXCEPT !.listed = [st.listed EXCEPT ![k] = @ \cup {t}]]
    BY <1>1 DEF Books
  <2> HIDE DEF new
  <2>2. new = [[st EXCEPT !.worker = workers] EXCEPT !.listed = listed]
    BY <1>4, <1>5, <2>1
  <2> QED BY <1>1, <2>2 DEF Books
<1> HIDE DEF new
<1>7. new \in Books /\ new.worker = workers /\ new.listed = listed /\ new.metrics = st.metrics
      /\ new.spoiled = st.spoiled
  BY <1>2, <1>6 DEF Books
<1>8. workers[t] = v /\ \A u \in Workers \ {t} : workers[u] = st.worker[u]
  BY <1>2, <1>4
<1>9. w.task # k => w = Absent /\ w.task = NoTask
  BY <1>1, AbsentIsProper DEF Proper
<1>10. Listing(new)
  <2> SUFFICES ASSUME NEW j \in Tasks, NEW u \in Workers
               PROVE  /\ u \in listed[j] => (workers[u].task = j /\ workers[u].state # "removing") \/ Tasks \subseteq st.spoiled
                      /\ workers[u].task = j => u \in listed[j] \/ j \in st.spoiled
    BY <1>7 DEF Listing
  <2>1. u \in listed[j] <=> u \in st.listed[j] \/ (j = k /\ u = t)
    BY <1>2, <1>5
  <2>2. CASE u # t
    BY <1>1, <1>8, <2>1, <2>2 DEF Listing
  <2>3. CASE u = t /\ j = k
    BY <1>8, <2>1, <2>3
  <2>4. CASE u = t /\ j # k
    <3>1. ~(workers[u].task = j)
      BY <1>8, <2>4
    <3>2. u \in listed[j] => w.task = j \/ Tasks \subseteq st.spoiled
      BY <1>1, <2>1, <2>4 DEF Listing
    <3>3. w.task # j
      BY <1>9, <2>4, NoTaskAssumption
    <3> QED BY <3>1, <3>2, <3>3
  <2> QED BY <2>2, <2>3, <2>4
<1>11. \A u \in Workers : Proper(workers[u])
  BY <1>1, <1>8
<1>12. Peaks(new, high)
  BY <1>1, <1>7, <1>8, ClearIsMetrics DEF Peaks
<1>13. \A j \in Tasks : Share(v, j) = Share(w, j)
  <2>1. CASE v = w
    BY <2>1
  <2>2. CASE w.state = "unknown" /\ v.metrics = Clear
    <3>1. w.metrics = Clear
      BY <1>1, <2>2, AbsentIsProper DEF Proper
    <3> QED BY <2>2, <3>1, ClearIsMetrics DEF Share
  <2> QED BY <2>1, <2>2
<1>14. Balanced(new, due)
  <2>1. \A j \in Tasks : \A u \in Workers : Share(workers[u], j) = Share(st.worker[u], j)
    BY <1>8, <1>13
  <2>2. \A j \in Tasks : Shares(workers, j) = Shares(st.worker, j)
    BY <2>1 DEF Shares
  <2> QED BY <1>1, <1>7, <2>2 DEF Balanced
<1>15. KeepsTime(st, new, now)
  <2>1. PICK o \in WorkerStates : o = w
    BY <1>2
  <2>2. CASE v = w
    <3>1. new.worker = st.worker
      BY <1>2, <1>4, <1>7, <2>2
    <3> QED BY <1>7, <3>1 DEF KeepsTime, Accrued
  <2>3. CASE v # w
    <3>1. o = Absent /\ v.metrics = Clear /\ v.waiting = FALSE /\ SameTimes(Absent, v)
      BY <1>1, <2>1, <2>3 DEF Proper
    <3>2. Timely(v, now)
      BY <3>1, AbsentTimes, TimelySaved, AbsentIsProper
    <3>3. ASSUME NEW j \in Tasks \ new.spoiled
          PROVE  Loss(o, j, now) + st.metrics[j].total <= Loss(v, j, now) + new.metrics[j].total
      <4>1. Loss(o, j, now) = 0
        BY <3>1, AbsentTimes
      <4>2. Loss(v, j, now) = 0
        <5>1. v.metrics.total = 0
          BY <3>1, ClearIsMetrics
        <5> QED BY <3>1, <5>1 DEF Loss, Held
      <4>3. st.metrics[j].total \in Int
        BY <1>2 DEF Metrics
      <4> QED BY <1>7, <4>1, <4>2, <4>3
    <3>4. NoneLost(st, new, o, v, now)
      BY <3>3 DEF NoneLost
    <3>5. /\ new \in Books /\ new.worker = [st.worker EXCEPT ![t] = v] /\ st.spoiled \subseteq new.spoiled
          /\ o = st.worker[t]
      BY <1>4, <1>7, <2>1
    <3>6. ASSUME NEW marks \in [Tasks -> Int], Accrued(st, now, marks) PROVE Accrued(new, now, marks)
      BY <1>1, <3>2, <3>4, <3>5, <3>6, AccruedAfter
    <3> QED BY <3>6 DEF KeepsTime
  <2> QED BY <2>2, <2>3
<1> QED BY <1>7, <1>10, <1>11, <1>12, <1>14, <1>15 DEF Good, new

-----------------------------------------------------------------------------
(* The calls. *)

(* How a step ends.                                                        *)
LEMMA StepEnds ==
  ASSUME BooksInv, NEW new, Good(new, owed', highWater'), owed' \in [Tasks -> Int], highWater' \in Nat,
         clock' \in Nat, gpu_memory_allocated_bytes' \in Int,
         worker' = new.worker, task_to_threads' = new.listed, task_to_metrics' = new.metrics,
         spoiled' = new.spoiled
  PROVE  BooksInv'
<1>1. new = [worker |-> worker', listed |-> task_to_threads', metrics |-> task_to_metrics', spoiled |-> spoiled']
  BY DEF Good, Books
<1>2. Good([worker |-> worker', listed |-> task_to_threads', metrics |-> task_to_metrics', spoiled |-> spoiled'],
           owed', highWater')
  BY <1>1
<1>3. Good(Current, owed, highWater)'
  BY <1>2 DEF Current
<1> QED BY <1>3 DEF BooksInv

(* More may have been allocated since.                                     *)
LEMMA GoodHigher ==
  ASSUME NEW due \in [Tasks -> Int], NEW high \in Nat, NEW st, Good(st, due, high), NEW higher \in Nat, high <= higher
  PROVE  Good(st, due, higher)
<1>1. st \in Books /\ Peaks(st, high)
  BY DEF Good
<1>2. /\ \A t \in Workers : st.worker[t].metrics.max_allocated \in Int
      /\ \A k \in Tasks : st.metrics[k].max_allocated \in Int
  BY <1>1, BooksFields DEF WorkerStates, Metrics
<1>3. Peaks(st, higher)
  BY <1>1, <1>2 DEF Peaks
<1> QED BY <1>3 DEF Good

(* What the invariant says of a thread.                                    *)
LEMMA WhatIsKnown ==
  ASSUME BooksInv
  PROVE  /\ Good(Current, owed, highWater) /\ Current \in Books /\ owed \in [Tasks -> Int] /\ highWater \in Nat
         /\ clock \in Nat /\ gpu_memory_allocated_bytes \in Int
         /\ Current.worker = worker /\ Current.listed = task_to_threads /\ Current.metrics = task_to_metrics
         /\ Current.spoiled = spoiled
         /\ worker \in [Workers -> WorkerStates] /\ task_to_threads \in [Tasks -> SUBSET Workers]
         /\ task_to_metrics \in [Tasks -> Metrics] /\ spoiled \in SUBSET Tasks
         /\ \A t \in Workers : Proper(worker[t]) /\ worker[t].metrics.max_allocated <= highWater
<1>1. Current.worker = worker /\ Current.listed = task_to_threads /\ Current.metrics = task_to_metrics
      /\ Current.spoiled = spoiled
  BY DEF Current
<1>2. /\ Good(Current, owed, highWater) /\ owed \in [Tasks -> Int] /\ highWater \in Nat
      /\ clock \in Nat /\ gpu_memory_allocated_bytes \in Int
  BY DEF BooksInv
<1>3. Current \in Books
  BY <1>2 DEF Good
<1>4. /\ worker \in [Workers -> WorkerStates] /\ task_to_threads \in [Tasks -> SUBSET Workers]
      /\ task_to_metrics \in [Tasks -> Metrics] /\ spoiled \in SUBSET Tasks
  BY <1>1, <1>3, BooksFields
<1>5. \A t \in Workers : Proper(worker[t]) /\ worker[t].metrics.max_allocated <= highWater
  BY <1>1, <1>2 DEF Good, Peaks
<1> QED BY <1>1, <1>2, <1>3, <1>4, <1>5

(* A thread's own record is replaced, and n exceptions were thrown.        *)
LEMMA UpdateEnds ==
  ASSUME BooksInv, NEW t \in Workers, NEW v \in WorkerStates, Proper(v),
         v.task = worker[t].task, v.pool = worker[t].pool,
         v.state = "removing" => worker[t].state = "removing",
         NEW n \in Int, v.metrics.throws = worker[t].metrics.throws + n, v.metrics.max_allocated <= highWater',
         highWater' \in Nat, highWater <= highWater', owed' \in [Tasks -> Int],
         \A k \in Tasks : owed'[k] = owed[k] + (IF k \in WorksFor(worker[t]) THEN n ELSE 0),
         worker' = [worker EXCEPT ![t] = v], clock' \in Nat, gpu_memory_allocated_bytes' \in Int,
         UNCHANGED <<task_to_threads, task_to_metrics, spoiled>>
  PROVE  BooksInv'
<1>1. /\ Current \in Books /\ Good(Current, owed, highWater)
      /\ owed \in [Tasks -> Int] /\ highWater \in Nat
      /\ Current.worker = worker /\ Current.listed = task_to_threads /\ Current.metrics = task_to_metrics
      /\ Current.spoiled = spoiled
  BY WhatIsKnown
<1>2. PICK owes \in [Tasks -> Int], higher \in Nat : owes = owed' /\ higher = highWater'
  OBVIOUS
<1>3. Good(Current, owed, higher)
  BY <1>1, <1>2, GoodHigher
<1> DEFINE new == WithWorker(Current, t, v)
<1>4. Good(new, owes, higher)
  BY <1>1, <1>2, <1>3, RecordUpdated
<1>5. new.worker = [worker EXCEPT ![t] = v] /\ new.listed = task_to_threads /\ new.metrics = task_to_metrics
      /\ new.spoiled = spoiled
  <2>1. PICK st \in Books : st = Current
    BY <1>1
  <2>2. st.worker = worker /\ st.listed = task_to_threads /\ st.metrics = task_to_metrics /\ st.spoiled = spoiled
    BY <1>1, <2>1
  <2>3. /\ WithWorker(st, t, v).worker = [st.worker EXCEPT ![t] = v] /\ WithWorker(st, t, v).listed = st.listed
        /\ WithWorker(st, t, v).metrics = st.metrics /\ WithWorker(st, t, v).spoiled = st.spoiled
    BY WithWorkerShape
  <2> QED BY <2>1, <2>2, <2>3
<1> HIDE DEF new
<1> QED BY <1>2, <1>4, <1>5, StepEnds

(* A thread's own record is replaced, and nothing was thrown.              *)
LEMMA QuietUpdate ==
  ASSUME BooksInv, NEW t \in Workers, NEW v \in WorkerStates, Proper(v),
         v.task = worker[t].task, v.pool = worker[t].pool,
         v.state = "removing" => worker[t].state = "removing",
         v.metrics.throws = worker[t].metrics.throws, v.metrics.max_allocated <= highWater',
         highWater' \in Nat, highWater <= highWater',
         worker' = [worker EXCEPT ![t] = v], clock' \in Nat, gpu_memory_allocated_bytes' \in Int,
         UNCHANGED <<task_to_threads, task_to_metrics, owed, spoiled>>
  PROVE  BooksInv'
<1>1. /\ worker[t] \in WorkerStates /\ owed \in [Tasks -> Int]
  BY WhatIsKnown
<1>2. PICK n \in Int : n = 0
  OBVIOUS
<1>3. worker[t].metrics.throws \in Int
  BY <1>1 DEF WorkerStates, Metrics
<1>4. v.metrics.throws = worker[t].metrics.throws + n
  BY <1>2, <1>3
<1>5. owed' \in [Tasks -> Int] /\ \A k \in Tasks : owed'[k] = owed[k] + (IF k \in WorksFor(worker[t]) THEN n ELSE 0)
  BY <1>1, <1>2
<1>6. UNCHANGED <<task_to_threads, task_to_metrics, spoiled>>
  OBVIOUS
<1> QED BY <1>4, <1>5, <1>6, UpdateEnds

(* The books are replaced by good ones.                                    *)
LEMMA BecomeEnds ==
  ASSUME BooksInv, NEW new, Good(new, owed, highWater), Become(new),
         UNCHANGED <<gpu_memory_allocated_bytes, clock, owed, highWater>>
  PROVE  BooksInv'
<1>1. /\ owed \in [Tasks -> Int] /\ highWater \in Nat /\ clock \in Nat /\ gpu_memory_allocated_bytes \in Int
  BY WhatIsKnown
<1>2. Good(new, owed', highWater')
  OBVIOUS
<1> QED BY <1>1, <1>2, StepEnds DEF Become

(* How a step that loses no time ends.                                     *)
LEMMA TimesEnd ==
  ASSUME BooksInv, NEW new \in Books, Become(new), clock' \in Nat,
         \A marks \in [Tasks -> Int] : Accrued(Current, clock, marks) => Accrued(new, clock', marks)
  PROVE  TimeKept
<1>1. new = [worker |-> worker', listed |-> task_to_threads', metrics |-> task_to_metrics', spoiled |-> spoiled']
  BY DEF Become, Books
<1>2. Current' = new
  BY <1>1 DEF Current
<1> QED BY <1>2 DEF TimeKept

(* The books are replaced by good ones that lose nothing.                  *)
LEMMA BooksReplaced ==
  ASSUME BooksInv, NEW new, Good(new, owed, highWater), Become(new), KeepsTime(Current, new, clock),
         UNCHANGED <<gpu_memory_allocated_bytes, clock, owed, highWater>>
  PROVE  BooksInv' /\ TimeKept
<1>1. BooksInv'
  BY BecomeEnds
<1>2. new \in Books /\ clock' = clock /\ clock' \in Nat
  BY WhatIsKnown DEF Good
<1>3. \A marks \in [Tasks -> Int] : Accrued(Current, clock, marks) => Accrued(new, clock', marks)
  BY <1>2 DEF KeepsTime
<1>4. TimeKept
  BY <1>2, <1>3, TimesEnd
<1> QED BY <1>1, <1>4

(* Only a thread's own record changes, and loses nothing.                  *)
LEMMA UpdateTimes ==
  ASSUME BooksInv, NEW t \in Workers, NEW w \in WorkerStates, w = worker[t],
         NEW v \in WorkerStates, v.task = w.task, NoLess(w, v, clock), worker' = [worker EXCEPT ![t] = v],
         UNCHANGED <<task_to_threads, task_to_metrics, clock, spoiled>>
  PROVE  TimeKept
<1>1. PICK st \in Books, now \in Nat :
        /\ st = Current /\ now = clock /\ st.worker = worker /\ st.listed = task_to_threads
        /\ st.metrics = task_to_metrics /\ st.spoiled = spoiled
  BY WhatIsKnown
<1> DEFINE new == WithWorker(st, t, v)
<1>2. /\ new \in Books /\ new.worker = [st.worker EXCEPT ![t] = v] /\ new.listed = st.listed
      /\ new.metrics = st.metrics /\ new.spoiled = st.spoiled
  BY WithWorkerShape
<1> HIDE DEF new
<1>3. Become(new) /\ clock' = now
  BY <1>1, <1>2 DEF Become
<1>4. ASSUME NEW marks \in [Tasks -> Int], Accrued(st, now, marks) PROVE Accrued(new, now, marks)
  <2>1. w = st.worker[t] /\ NoLess(w, v, now)
    BY <1>1
  <2>2. Timely(w, now)
    BY <1>4, <2>1 DEF Accrued
  <2>3. Timely(v, now) /\ Held(w, now) <= Held(v, now)
    BY <2>1, <2>2 DEF NoLess
  <2>4. NoneLost(st, new, w, v, now)
    <3> SUFFICES ASSUME NEW k \in Tasks \ new.spoiled
                 PROVE  Loss(w, k, now) + st.metrics[k].total <= Loss(v, k, now) + new.metrics[k].total
      BY DEF NoneLost
    <3>1. Loss(w, k, now) <= Loss(v, k, now)
      <4>1. 0 <= 0
        OBVIOUS
      <4> QED BY <2>3, <4>1 DEF Loss
    <3>2. st.metrics[k].total \in Int
      BY BooksFields DEF Metrics
    <3>3. PICK a \in Int, b \in Int, c \in Int : a = Loss(w, k, now) /\ b = Loss(v, k, now) /\ c = st.metrics[k].total
      BY <3>2, LossType
    <3>4. a + c <= b + c
      BY <3>1, <3>3
    <3> QED BY <1>2, <3>3, <3>4
  <2> QED BY <1>2, <1>4, <2>1, <2>3, <2>4, AccruedAfter
<1> QED BY <1>1, <1>2, <1>3, <1>4, TimesEnd

(* A known thread stays proper when only its times and peaks change.       *)
LEMMA SameProper ==
  ASSUME NEW w \in WorkerStates, NEW v \in WorkerStates, Proper(w), w.state # "unknown",
         v.state = w.state, v.task = w.task, v.pool = w.pool, v.waiting = w.waiting,
         v.metrics.throws = w.metrics.throws
  PROVE  Proper(v)
BY DEF Proper

\* reset_retry_state's and after_block's change of a thread.
RetryAt(w, begin, start) == [w EXCEPT !.retry_running = 0, !.in_retry = begin, !.retry_start = start]
RunsAgain(w, start) == [w EXCEPT !.waiting = FALSE, !.since = 0, !.retry_start = start]

(* The times are set, the rest stays.                                      *)
LEMMA RetrySet ==
  ASSUME NEW w \in WorkerStates, NEW begin \in BOOLEAN, NEW start \in Int
  PROVE  LET v == RetryAt(w, begin, start)
         IN  /\ v \in WorkerStates
             /\ v.state = w.state /\ v.task = w.task /\ v.pool = w.pool /\ v.waiting = w.waiting /\ v.metrics = w.metrics
             /\ v.since = w.since /\ v.retry_start = start /\ v.retry_running = 0
<1> DEFINE a == [w EXCEPT !.retry_running = 0]
           b == [a EXCEPT !.in_retry = begin]
           c == [b EXCEPT !.retry_start = start]
           v == RetryAt(w, begin, start)
<1>1. a \in WorkerStates
      /\ a.state = w.state /\ a.task = w.task /\ a.pool = w.pool /\ a.waiting = w.waiting /\ a.metrics = w.metrics
      /\ a.since = w.since /\ a.retry_running = 0
  BY DEF WorkerStates
<1>2. v = [[[w EXCEPT !.retry_running = 0] EXCEPT !.in_retry = begin] EXCEPT !.retry_start = start]
  BY Zenon DEF RetryAt
<1> HIDE DEF a
<1>3. b \in WorkerStates
      /\ b.state = a.state /\ b.task = a.task /\ b.pool = a.pool /\ b.waiting = a.waiting /\ b.metrics = a.metrics
      /\ b.since = a.since /\ b.retry_running = a.retry_running
  BY <1>1 DEF WorkerStates
<1> HIDE DEF b
<1>4. c \in WorkerStates
      /\ c.state = b.state /\ c.task = b.task /\ c.pool = b.pool /\ c.waiting = b.waiting /\ c.metrics = b.metrics
      /\ c.since = b.since /\ c.retry_running = b.retry_running /\ c.retry_start = start
  BY <1>3 DEF WorkerStates
<1> HIDE DEF c, v
<1>5. v = c
  BY <1>2 DEF a, b, c
<1> QED BY <1>1, <1>3, <1>4, <1>5 DEF v

\* pending_recorded's change of a thread.
Pended(w, i, now) == [w EXCEPT !.retry_running = i, !.retry_start = now]

(* Times are counted up to now.                                            *)
LEMMA PendedShape ==
  ASSUME NEW w \in WorkerStates, NEW i \in Int, NEW now \in Int
  PROVE  LET v == Pended(w, i, now)
         IN  /\ v \in WorkerStates
             /\ v.state = w.state /\ v.task = w.task /\ v.pool = w.pool /\ v.waiting = w.waiting /\ v.metrics = w.metrics
             /\ v.since = w.since /\ v.retry_start = now /\ v.retry_running = i
<1> DEFINE a == [w EXCEPT !.retry_running = i]
           b == [a EXCEPT !.retry_start = now]
           v == Pended(w, i, now)
<1>1. a \in WorkerStates
      /\ a.state = w.state /\ a.task = w.task /\ a.pool = w.pool /\ a.waiting = w.waiting /\ a.metrics = w.metrics
      /\ a.since = w.since /\ a.retry_running = i
  BY DEF WorkerStates
<1>2. v = [[w EXCEPT !.retry_running = i] EXCEPT !.retry_start = now]
  BY Zenon DEF Pended
<1> HIDE DEF a
<1>3. b \in WorkerStates
      /\ b.state = a.state /\ b.task = a.task /\ b.pool = a.pool /\ b.waiting = a.waiting /\ b.metrics = a.metrics
      /\ b.since = a.since /\ b.retry_running = a.retry_running /\ b.retry_start = now
  BY <1>1 DEF WorkerStates
<1> HIDE DEF b, v
<1>4. v = b
  BY <1>2 DEF a, b
<1> QED BY <1>1, <1>3, <1>4 DEF v

(* pending_recorded changes times only, and keeps them past ones.          *)
LEMMA PendingRecorded ==
  ASSUME NEW w \in WorkerStates, clock \in Nat
  PROVE  LET v == pending_recorded(w)
         IN  /\ v \in WorkerStates
             /\ v.state = w.state /\ v.task = w.task /\ v.pool = w.pool /\ v.waiting = w.waiting /\ v.metrics = w.metrics
             /\ v.since = w.since
             /\ Timely(w, clock) => Timely(v, clock)
<1> DEFINE v == pending_recorded(w)
<1>1. CASE w.in_retry
  <2>1. w.retry_running \in Int /\ w.retry_start \in Int
    BY DEF WorkerStates
  <2>2. PICK i \in Int, now \in Int : i = w.retry_running + clock - w.retry_start /\ now = clock
    BY <2>1
  <2>3. v = Pended(w, i, now)
    BY <1>1, <2>2 DEF pending_recorded, Pended
  <2> HIDE DEF v
  <2>4. /\ v \in WorkerStates
        /\ v.state = w.state /\ v.task = w.task /\ v.pool = w.pool /\ v.waiting = w.waiting /\ v.metrics = w.metrics
        /\ v.since = w.since /\ v.retry_start = now /\ v.retry_running = i
    BY <2>3, PendedShape
  <2>5. Timely(w, clock) => w.retry_start <= now /\ w.retry_running >= 0 /\ w.since <= now /\ w.metrics.total >= 0
    BY <2>2 DEF Timely
  <2>6. Timely(w, clock) => i >= 0
    BY <2>1, <2>2, <2>5
  <2>7. Timely(w, clock) => Timely(v, clock)
    <3>1. now <= now
      OBVIOUS
    <3> QED BY <2>2, <2>4, <2>5, <2>6, <3>1 DEF Timely
  <2> QED BY <2>4, <2>7 DEF v
<1>2. CASE ~w.in_retry
  <2>1. v = w
    BY <1>2 DEF pending_recorded
  <2> HIDE DEF v
  <2> QED BY <2>1 DEF v
<1> QED BY <1>1, <1>2

(* A thread with another record.                                           *)
LEMMA MetricsSet ==
  ASSUME NEW w \in WorkerStates, NEW m \in Metrics
  PROVE  LET v == [w EXCEPT !.metrics = m]
         IN  /\ v \in WorkerStates /\ v.metrics = m
             /\ v.state = w.state /\ v.task = w.task /\ v.pool = w.pool /\ v.waiting = w.waiting
             /\ v.retry_running = w.retry_running /\ SameTimes(w, v)
BY DEF WorkerStates, SameTimes

(* Fields of a record that are set.                                        *)
LEMMA FieldSet ==
  ASSUME NEW m \in Metrics, NEW i \in Int
  PROVE  /\ [m EXCEPT !.total = i] \in Metrics
         /\ [m EXCEPT !.total = i].total = i /\ [m EXCEPT !.throws = i].total = m.total
         /\ [m EXCEPT !.max_allocated = i].total = m.total
         /\ [m EXCEPT !.total = i].throws = m.throws /\ [m EXCEPT !.total = i].max_allocated = m.max_allocated
         /\ [m EXCEPT !.throws = i] \in Metrics
         /\ [m EXCEPT !.throws = i].throws = i /\ [m EXCEPT !.throws = i].max_allocated = m.max_allocated
         /\ [m EXCEPT !.max_allocated = i] \in Metrics
         /\ [m EXCEPT !.max_allocated = i].throws = m.throws /\ [m EXCEPT !.max_allocated = i].max_allocated = i
BY DEF Metrics

(* failed_recorded's change of a thread.                                   *)
LEMMA FailedRecorded ==
  ASSUME NEW w \in WorkerStates, clock \in Nat
  PROVE  LET v == failed_recorded(w)
         IN  /\ v \in WorkerStates
             /\ v.state = w.state /\ v.task = w.task /\ v.pool = w.pool /\ v.waiting = w.waiting
             /\ v.metrics.throws = w.metrics.throws /\ v.metrics.max_allocated = w.metrics.max_allocated
             /\ v.since = w.since
             /\ Timely(w, clock) => Timely(v, clock) /\ w.metrics.total <= v.metrics.total
<1> DEFINE p == pending_recorded(w)
           m == [p.metrics EXCEPT !.total = @ + p.retry_running]
           q == [p EXCEPT !.metrics = m]
           r == [q EXCEPT !.retry_running = 0]
<1>1. /\ p \in WorkerStates
      /\ p.state = w.state /\ p.task = w.task /\ p.pool = w.pool /\ p.waiting = w.waiting /\ p.metrics = w.metrics
      /\ p.since = w.since /\ (Timely(w, clock) => Timely(p, clock))
  BY PendingRecorded
<1>2. failed_recorded(w) = IF w.in_retry THEN r ELSE w
  BY <1>1 DEF failed_recorded, WorkerStates
<1> HIDE DEF p
<1>3. m \in Metrics /\ m.throws = w.metrics.throws /\ m.max_allocated = w.metrics.max_allocated
      /\ m.total = p.metrics.total + p.retry_running
  <2>1. p.metrics \in Metrics /\ p.metrics.total + p.retry_running \in Int
    BY <1>1 DEF WorkerStates, Metrics
  <2>2. PICK o \in Metrics, i \in Int : o = p.metrics /\ i = p.metrics.total + p.retry_running
    BY <2>1
  <2>3. m = [o EXCEPT !.total = i]
    BY <2>2
  <2> HIDE DEF m
  <2>4. m \in Metrics /\ m.throws = o.throws /\ m.max_allocated = o.max_allocated /\ m.total = i
    BY <2>3, FieldSet
  <2> QED BY <1>1, <2>2, <2>4
<1> HIDE DEF m
<1>4. q \in WorkerStates /\ q.metrics = m
      /\ q.state = p.state /\ q.task = p.task /\ q.pool = p.pool /\ q.waiting = p.waiting
      /\ SameTimes(p, q)
  BY <1>1, <1>3, MetricsSet
<1> HIDE DEF q
<1>5. r \in WorkerStates /\ r.metrics = q.metrics
      /\ r.state = q.state /\ r.task = q.task /\ r.pool = q.pool /\ r.waiting = q.waiting
      /\ r.since = q.since /\ r.retry_start = q.retry_start /\ r.retry_running = 0
  BY <1>4 DEF WorkerStates
<1> HIDE DEF r
<1>6. /\ r \in WorkerStates
      /\ r.state = w.state /\ r.task = w.task /\ r.pool = w.pool /\ r.waiting = w.waiting
      /\ r.metrics.throws = w.metrics.throws /\ r.metrics.max_allocated = w.metrics.max_allocated
  BY <1>1, <1>3, <1>4, <1>5
<1>7. r.since = w.since /\ r.retry_start = p.retry_start /\ r.metrics.total = w.metrics.total + p.retry_running
  BY <1>1, <1>3, <1>4, <1>5 DEF SameTimes
<1>8. ASSUME Timely(w, clock) PROVE Timely(r, clock) /\ w.metrics.total <= r.metrics.total
  <2>1. PICK a \in Int, b \in Int : a = w.metrics.total /\ b = p.retry_running
    BY <1>1 DEF WorkerStates, Metrics
  <2>2. a >= 0 /\ b >= 0 /\ p.retry_start <= clock /\ w.since <= clock
    BY <1>1, <1>8, <2>1 DEF Timely
  <2>3. r.metrics.total = a + b /\ a + b >= 0 /\ a <= a + b /\ r.retry_running >= 0
    BY <1>5, <1>7, <2>1, <2>2
  <2>4. Timely(r, clock)
    BY <1>7, <2>2, <2>3 DEF Timely
  <2> QED BY <2>1, <2>3, <2>4
<1>9. w.metrics.total <= w.metrics.total
  BY DEF WorkerStates, Metrics
<1> QED BY <1>2, <1>6, <1>7, <1>8, <1>9

(* wake's and after_block's change of a thread.                            *)
LEMMA Unblocked ==
  ASSUME NEW w \in WorkerStates, NEW now \in Int
  PROVE  /\ LET v == [w EXCEPT !.state = "running"]
            IN  v \in WorkerStates /\ v.state = "running"
                /\ v.task = w.task /\ v.pool = w.pool /\ v.metrics = w.metrics
                /\ v.waiting = w.waiting /\ SameTimes(w, v)
         /\ LET v == RunsAgain(w, now)
            IN  v \in WorkerStates /\ v.state = w.state /\ v.task = w.task /\ v.pool = w.pool /\ v.metrics = w.metrics
                /\ v.waiting = FALSE /\ v.since = 0 /\ v.retry_start = now /\ v.retry_running = w.retry_running
<1>1. LET v == [w EXCEPT !.state = "running"]
      IN  v \in WorkerStates /\ v.state = "running"
          /\ v.task = w.task /\ v.pool = w.pool /\ v.metrics = w.metrics
          /\ v.waiting = w.waiting /\ SameTimes(w, v)
  BY DEF WorkerStates, SameTimes
<1>2. LET v == RunsAgain(w, now)
      IN  v \in WorkerStates /\ v.state = w.state /\ v.task = w.task /\ v.pool = w.pool /\ v.metrics = w.metrics
          /\ v.waiting = FALSE /\ v.since = 0 /\ v.retry_start = now /\ v.retry_running = w.retry_running
  <2> DEFINE a == [w EXCEPT !.waiting = FALSE]
             b == [a EXCEPT !.since = 0]
             c == [b EXCEPT !.retry_start = now]
             v == RunsAgain(w, now)
  <2>1. a \in WorkerStates /\ a.state = w.state /\ a.task = w.task /\ a.pool = w.pool /\ a.metrics = w.metrics
        /\ a.waiting = FALSE /\ a.retry_running = w.retry_running
    BY DEF WorkerStates
  <2>2. v = [[[w EXCEPT !.waiting = FALSE] EXCEPT !.since = 0] EXCEPT !.retry_start = now]
    BY Zenon DEF RunsAgain
  <2> HIDE DEF a
  <2>3. b \in WorkerStates /\ b.state = a.state /\ b.task = a.task /\ b.pool = a.pool /\ b.metrics = a.metrics
        /\ b.waiting = a.waiting /\ b.retry_running = a.retry_running /\ b.since = 0
    BY <2>1 DEF WorkerStates
  <2> HIDE DEF b
  <2>4. c \in WorkerStates /\ c.state = b.state /\ c.task = b.task /\ c.pool = b.pool /\ c.metrics = b.metrics
        /\ c.waiting = b.waiting /\ c.retry_running = b.retry_running /\ c.since = b.since /\ c.retry_start = now
    BY <2>3 DEF WorkerStates
  <2> HIDE DEF c, v
  <2>5. v = c
    BY <2>2 DEF a, b, c
  <2> QED BY <2>1, <2>3, <2>4, <2>5 DEF v
<1> QED BY <1>1, <1>2

-----------------------------------------------------------------------------
(* Collecting keeps the invariant. *)

(* reset_retry_state.                                                      *)
LEMMA ResetKeeps ==
  ASSUME BooksInv, NEW t \in Workers, NEW begin \in BOOLEAN, reset_retry_state(t, begin)
  PROVE  BooksInv' /\ TimeKept
<1>1. /\ worker[t] \in WorkerStates /\ Proper(worker[t]) /\ worker[t].metrics.max_allocated <= highWater
      /\ highWater \in Nat /\ owed \in [Tasks -> Int] /\ clock \in Nat /\ gpu_memory_allocated_bytes \in Int
  BY WhatIsKnown
<1>2. PICK w \in WorkerStates, start \in Int : w = worker[t] /\ start = IF begin THEN clock ELSE 0
  BY <1>1
<1> DEFINE v == RetryAt(w, begin, start)
<1>3. w.state # "unknown" /\ worker' = [worker EXCEPT ![t] = v]
  BY <1>2 DEF reset_retry_state, Update, Registered, RetryAt
<1>4. /\ v \in WorkerStates
      /\ v.state = w.state /\ v.task = w.task /\ v.pool = w.pool /\ v.waiting = w.waiting /\ v.metrics = w.metrics
      /\ v.since = w.since /\ v.retry_start = start /\ v.retry_running = 0
  BY RetrySet
<1> HIDE DEF v
<1>5. Proper(v)
  BY <1>1, <1>2, <1>3, <1>4, SameProper
<1>6. UNCHANGED <<task_to_threads, task_to_metrics, gpu_memory_allocated_bytes, clock, owed, highWater, spoiled>>
  BY DEF reset_retry_state
<1>7. highWater <= highWater'
  BY <1>1, <1>6
<1>8. BooksInv'
  BY <1>1, <1>2, <1>3, <1>4, <1>5, <1>6, <1>7, QuietUpdate
<1>9. NoLess(w, v, clock)
  <2> SUFFICES ASSUME Timely(w, clock) PROVE Timely(v, clock) /\ Held(w, clock) <= Held(v, clock)
    BY DEF NoLess
  <2>1. start <= clock /\ 0 >= 0
    BY <1>1, <1>2
  <2>2. Timely(v, clock)
    BY <1>4, <2>1 DEF Timely
  <2>3. w.metrics.total <= v.metrics.total
    BY <1>4 DEF WorkerStates, Metrics
  <2>4. clock \in Int
    BY <1>1
  <2> QED BY <1>4, <2>2, <2>3, <2>4, SameHeld
<1>10. TimeKept
  BY <1>2, <1>3, <1>4, <1>6, <1>9, UpdateTimes
<1> QED BY <1>8, <1>10

(* before_block.                                                           *)
LEMMA BlockKeeps ==
  ASSUME BooksInv, NEW t \in Workers, before_block(t)
  PROVE  BooksInv' /\ TimeKept
<1>1. /\ worker[t] \in WorkerStates /\ Proper(worker[t]) /\ worker[t].metrics.max_allocated <= highWater
      /\ highWater \in Nat /\ owed \in [Tasks -> Int] /\ clock \in Nat /\ gpu_memory_allocated_bytes \in Int
  BY WhatIsKnown
<1>2. PICK w \in WorkerStates, p \in WorkerStates, now \in Int :
        /\ w = worker[t] /\ now = clock /\ p = pending_recorded(w)
        /\ p.state = w.state /\ p.task = w.task /\ p.pool = w.pool /\ p.metrics = w.metrics
        /\ p.since = w.since /\ (Timely(w, clock) => Timely(p, clock))
  BY <1>1, PendingRecorded
<1> DEFINE v == [p EXCEPT !.state = "blocked", !.waiting = TRUE, !.since = now]
<1>3. w.state = "running" /\ ~w.waiting /\ worker' = [worker EXCEPT ![t] = v]
  BY <1>2 DEF before_block, Update
<1>4. v \in WorkerStates /\ v.state = "blocked" /\ v.waiting = TRUE
      /\ v.task = w.task /\ v.pool = w.pool /\ v.metrics = w.metrics
      /\ v.since = now /\ v.retry_start = p.retry_start /\ v.retry_running = p.retry_running
  <2>1. v \in WorkerStates /\ v.state = "blocked" /\ v.waiting = TRUE
        /\ v.task = p.task /\ v.pool = p.pool /\ v.metrics = p.metrics
        /\ v.since = now /\ v.retry_start = p.retry_start /\ v.retry_running = p.retry_running
    BY DEF WorkerStates
  <2> QED BY <1>2, <2>1
<1> HIDE DEF v
<1>5. w.task # NoTask => w.pool = {}
  BY <1>1, <1>2 DEF Proper
<1>6. Proper(v)
  BY <1>4, <1>5 DEF Proper
<1>7. UNCHANGED <<task_to_threads, task_to_metrics, gpu_memory_allocated_bytes, clock, owed, highWater, spoiled>>
  BY DEF before_block
<1>8. highWater <= highWater'
  BY <1>1, <1>7
<1>9. BooksInv'
  BY <1>1, <1>2, <1>3, <1>4, <1>6, <1>7, <1>8, QuietUpdate
<1>10. NoLess(w, v, clock)
  <2> SUFFICES ASSUME Timely(w, clock) PROVE Timely(v, clock) /\ Held(w, clock) <= Held(v, clock)
    BY DEF NoLess
  <2>1. Timely(p, clock) /\ now <= clock
    BY <1>2
  <2>2. v.metrics.total = p.metrics.total
    BY <1>2, <1>4
  <2>3. Timely(v, clock)
    BY <1>4, <2>1, <2>2 DEF Timely
  <2>4. PICK a \in Int : a = w.metrics.total
    BY DEF WorkerStates, Metrics
  <2>5. Held(w, clock) = 0 + a /\ Held(v, clock) = (now - now) + a
    BY <1>2, <1>3, <1>4, <2>4 DEF Held
  <2> QED BY <2>3, <2>5
<1>11. TimeKept
  BY <1>2, <1>3, <1>4, <1>7, <1>10, UpdateTimes
<1> QED BY <1>9, <1>11

(* wake.                                                                   *)
LEMMA WakeKeeps ==
  ASSUME BooksInv, NEW t \in Workers, wake(t)
  PROVE  BooksInv' /\ TimeKept
<1>1. /\ worker[t] \in WorkerStates /\ Proper(worker[t]) /\ worker[t].metrics.max_allocated <= highWater
      /\ highWater \in Nat /\ owed \in [Tasks -> Int] /\ clock \in Nat /\ gpu_memory_allocated_bytes \in Int
  BY WhatIsKnown
<1>2. PICK w \in WorkerStates, now \in Int : w = worker[t] /\ now = clock
  BY <1>1
<1> DEFINE v == [w EXCEPT !.state = "running"]
<1>3. w.state = "blocked" /\ worker' = [worker EXCEPT ![t] = v]
  BY <1>2 DEF wake, Update
<1>4. v \in WorkerStates /\ v.state = "running" /\ v.task = w.task /\ v.pool = w.pool /\ v.metrics = w.metrics
      /\ v.waiting = w.waiting /\ SameTimes(w, v)
  BY <1>2, Unblocked
<1> HIDE DEF v
<1>5. w.task # NoTask => w.pool = {}
  BY <1>1, <1>2 DEF Proper
<1>6. Proper(v)
  BY <1>4, <1>5 DEF Proper
<1>7. UNCHANGED <<task_to_threads, task_to_metrics, gpu_memory_allocated_bytes, clock, owed, highWater, spoiled>>
  BY DEF wake
<1>8. highWater <= highWater'
  BY <1>1, <1>7
<1>9. BooksInv'
  BY <1>1, <1>2, <1>3, <1>4, <1>6, <1>7, <1>8, QuietUpdate
<1>10. NoLess(w, v, clock)
  <2>1. Timely(w, clock) => Timely(v, clock)
    BY <1>4 DEF Timely, SameTimes
  <2>2. w.metrics.total <= v.metrics.total /\ v.since = w.since
    BY <1>4 DEF WorkerStates, Metrics, SameTimes
  <2>3. clock \in Int
    BY <1>1
  <2> QED BY <1>4, <2>1, <2>2, <2>3, SameHeld DEF NoLess
<1>11. TimeKept
  BY <1>2, <1>3, <1>4, <1>7, <1>10, UpdateTimes
<1> QED BY <1>9, <1>11

(* after_block: a thread that is being removed has nothing on record.      *)
LEMMA UnblockKeeps ==
  ASSUME BooksInv, NEW t \in Workers, after_block(t)
  PROVE  BooksInv' /\ TimeKept
<1>1. /\ worker[t] \in WorkerStates /\ Proper(worker[t]) /\ worker[t].metrics.max_allocated <= highWater
      /\ highWater \in Nat /\ owed \in [Tasks -> Int] /\ clock \in Nat /\ gpu_memory_allocated_bytes \in Int
  BY WhatIsKnown
<1>2. UNCHANGED <<task_to_threads, task_to_metrics, gpu_memory_allocated_bytes, clock, owed, highWater, spoiled>>
  BY DEF after_block
<1>3. highWater <= highWater'
  BY <1>1, <1>2
<1>4. CASE worker[t].state = "removing"
  <2>1. PICK st \in Books : /\ st = Current /\ Good(st, owed, highWater) /\ st.worker = worker
                            /\ st.listed = task_to_threads /\ st.metrics = task_to_metrics /\ st.spoiled = spoiled
    BY WhatIsKnown
  <2> DEFINE new == WithWorker(st, t, Absent)
  <2>2. Good(new, owed, highWater)
    BY <1>1, <1>4, <2>1, Erased
  <2>3. new.worker = [st.worker EXCEPT ![t] = Absent] /\ new.listed = st.listed /\ new.metrics = st.metrics
        /\ new.spoiled = st.spoiled
    BY AbsentIsProper, WithWorkerShape
  <2>4. worker' = [worker EXCEPT ![t] = Absent]
    BY <1>4 DEF after_block, Update
  <2> HIDE DEF new
  <2>5. Become(new) /\ new \in Books
    BY <1>2, <2>1, <2>2, <2>3, <2>4 DEF Become, Good
  <2>6. BooksInv'
    BY <1>2, <2>2, <2>5, BecomeEnds
  <2>7. PICK now \in Nat, w \in WorkerStates : now = clock /\ w = st.worker[t] /\ w.state = "removing"
    BY <1>1, <1>4, <2>1
  <2>8. ASSUME NEW marks \in [Tasks -> Int], Accrued(st, now, marks) PROVE Accrued(new, now, marks)
    <3>1. Listing(st)
      BY <2>1 DEF Good
    <3>2. ASSUME NEW k \in Tasks \ new.spoiled
          PROVE  Loss(w, k, now) + st.metrics[k].total <= Loss(Absent, k, now) + new.metrics[k].total
      <4>1. w.task # k
        BY <2>3, <2>7, <3>1 DEF Listing
      <4>2. Loss(w, k, now) = 0 /\ Loss(Absent, k, now) = 0
        BY <4>1, AbsentTimes DEF Loss
      <4>3. st.metrics[k].total \in Int
        BY BooksFields DEF Metrics
      <4> QED BY <2>3, <4>2, <4>3
    <3>3. NoneLost(st, new, w, Absent, now)
      BY <3>2 DEF NoneLost
    <3>4. Timely(Absent, now) /\ Absent \in WorkerStates
      BY AbsentTimes, AbsentIsProper
    <3> QED BY <2>3, <2>5, <2>7, <2>8, <3>3, <3>4, AccruedAfter
  <2>9. clock' = now
    BY <1>2, <2>7
  <2>10. TimeKept
    BY <2>1, <2>5, <2>7, <2>8, <2>9, TimesEnd
  <2> QED BY <2>6, <2>10
<1>5. CASE worker[t].state # "removing"
  <2>1. worker[t].metrics \in Metrics
    BY <1>1 DEF WorkerStates
  <2>2. worker[t].metrics.total + clock - worker[t].since \in Int
    BY <1>1, <2>1 DEF WorkerStates, Metrics
  <2>3. PICK w \in WorkerStates, o \in Metrics, i \in Int, start \in Int :
          /\ w = worker[t] /\ o = worker[t].metrics /\ i = worker[t].metrics.total + clock - worker[t].since
          /\ start = IF worker[t].in_retry THEN clock ELSE 0
    BY <1>1, <2>1, <2>2
  <2> DEFINE m == [o EXCEPT !.total = i]
             p == [w EXCEPT !.metrics = m]
             v == RunsAgain(p, start)
  <2>4. worker' = [worker EXCEPT ![t] = v]
    <3>1. worker' = [worker EXCEPT ![t] =
                       [worker[t] EXCEPT !.metrics.total = @ + clock - worker[t].since, !.waiting = FALSE, !.since = 0,
                                         !.retry_start = IF worker[t].in_retry THEN clock ELSE 0]]
      BY <1>5 DEF after_block, Update
    <3>2. v = [w EXCEPT !.metrics = m, !.waiting = FALSE, !.since = 0, !.retry_start = start]
      BY Zenon DEF RunsAgain
    <3> QED BY <2>3, <3>1, <3>2
  <2>5. m \in Metrics /\ m.throws = o.throws /\ m.max_allocated = o.max_allocated /\ m.total = i
    BY FieldSet
  <2> HIDE DEF m
  <2>6. p \in WorkerStates /\ p.metrics = m /\ p.state = w.state /\ p.task = w.task /\ p.pool = w.pool
        /\ p.retry_running = w.retry_running
    BY <2>5, MetricsSet
  <2> HIDE DEF p
  <2>7. v \in WorkerStates /\ v.state = p.state /\ v.task = p.task /\ v.pool = p.pool /\ v.metrics = p.metrics
        /\ v.waiting = FALSE /\ v.since = 0 /\ v.retry_start = start /\ v.retry_running = p.retry_running
    BY <2>6, Unblocked
  <2> HIDE DEF v
  <2>8. w.state # "blocked" /\ w.state # "removing" /\ w.waiting
    BY <1>5, <2>3 DEF after_block
  <2>9. w.state # "unknown"
    <3>1. Absent.waiting = FALSE
      BY DEF Absent
    <3>2. w.state = "unknown" => w = Absent
      BY <1>1, <2>3 DEF Proper
    <3> QED BY <2>8, <3>1, <3>2
  <2>10. w.task # NoTask => w.pool = {}
    BY <1>1, <2>3 DEF Proper
  <2>11. Proper(v)
    BY <2>6, <2>7, <2>8, <2>9, <2>10 DEF Proper
  <2>12. v.metrics.throws = worker[t].metrics.throws /\ v.metrics.max_allocated <= highWater'
    BY <1>1, <1>2, <2>3, <2>5, <2>6, <2>7
  <2>13. BooksInv'
    BY <1>1, <1>2, <1>3, <2>3, <2>4, <2>6, <2>7, <2>11, <2>12, QuietUpdate
  <2>14. ASSUME Timely(w, clock) PROVE Timely(v, clock) /\ Held(w, clock) <= Held(v, clock)
    <3>1. PICK a \in Int, b \in Int, now \in Nat : a = w.since /\ b = w.metrics.total /\ now = clock
      BY <1>1 DEF WorkerStates, Metrics
    <3>2. i = b + now - a /\ start <= now /\ 0 <= now
      BY <1>1, <2>3, <3>1
    <3>3. a <= now /\ b >= 0 /\ w.retry_running >= 0
      BY <2>14, <3>1 DEF Timely
    <3>4. v.metrics.total = i /\ i >= 0
      BY <2>5, <2>6, <2>7, <3>2, <3>3
    <3>5. Timely(v, clock)
      BY <2>6, <2>7, <3>1, <3>2, <3>3, <3>4 DEF Timely
    <3>6. Held(w, clock) = (now - a) + b /\ Held(v, clock) = 0 + i
      BY <2>7, <2>8, <3>1, <3>4 DEF Held
    <3> QED BY <3>2, <3>5, <3>6
  <2>15. NoLess(w, v, clock)
    BY <2>14 DEF NoLess
  <2>16. TimeKept
    BY <1>2, <2>3, <2>4, <2>6, <2>7, <2>15, UpdateTimes
  <2> QED BY <2>13, <2>16
<1> QED BY <1>4, <1>5

(* throw_retry_oom: the exception is owed to every task the thread works   *)
(* for, and on its record.                                                 *)
LEMMA ThrowKeeps ==
  ASSUME BooksInv, NEW t \in Workers, throw_retry_oom(t)
  PROVE  BooksInv' /\ TimeKept
<1>1. /\ worker[t] \in WorkerStates /\ Proper(worker[t]) /\ worker[t].metrics.max_allocated <= highWater
      /\ highWater \in Nat /\ owed \in [Tasks -> Int] /\ clock \in Nat /\ gpu_memory_allocated_bytes \in Int
  BY WhatIsKnown
<1>2. PICK w \in WorkerStates, p \in WorkerStates :
        /\ w = worker[t] /\ p = failed_recorded(w)
        /\ p.state = w.state /\ p.task = w.task /\ p.pool = w.pool
        /\ p.metrics.throws = w.metrics.throws /\ p.metrics.max_allocated = w.metrics.max_allocated
        /\ p.waiting = w.waiting /\ p.since = w.since
        /\ (Timely(w, clock) => Timely(p, clock) /\ w.metrics.total <= p.metrics.total)
  BY <1>1, FailedRecorded
<1>3. p.metrics \in Metrics /\ p.metrics.throws \in Int /\ w.metrics.throws \in Int
  BY <1>2 DEF WorkerStates, Metrics
<1>4. PICK o \in Metrics, i \in Int : o = p.metrics /\ i = p.metrics.throws + 1
  BY <1>3
<1> DEFINE m == [o EXCEPT !.throws = i]
           v == [p EXCEPT !.metrics = m]
<1>5. w.state = "running" /\ worker' = [worker EXCEPT ![t] = v]
  <2>1. worker' = [worker EXCEPT ![t] = [failed_recorded(worker[t]) EXCEPT !.metrics.throws = @ + 1]]
    BY DEF throw_retry_oom, Update
  <2>2. w.state = "running"
    BY <1>2 DEF throw_retry_oom
  <2> QED BY <1>2, <1>4, <2>1, <2>2
<1>6. m \in Metrics /\ m.throws = i /\ m.max_allocated = o.max_allocated /\ m.total = o.total
  BY FieldSet
<1> HIDE DEF m
<1>7. v \in WorkerStates /\ v.metrics = m /\ v.state = p.state /\ v.task = p.task /\ v.pool = p.pool
      /\ v.waiting = p.waiting /\ SameTimes(p, v)
  BY <1>6, MetricsSet
<1> HIDE DEF v
<1>8. w.task # NoTask => w.pool = {}
  BY <1>1, <1>2 DEF Proper
<1>9. Proper(v)
  BY <1>2, <1>5, <1>7, <1>8 DEF Proper
<1>10. /\ UNCHANGED <<task_to_threads, task_to_metrics, gpu_memory_allocated_bytes, clock, highWater, spoiled>>
       /\ owed' = [k \in Tasks |-> IF k \in WorksFor(w) THEN owed[k] + 1 ELSE owed[k]]
  BY <1>2 DEF throw_retry_oom
<1>11. PICK n \in Int : n = 1
  OBVIOUS
<1>12. v.metrics.throws = worker[t].metrics.throws + n /\ v.metrics.max_allocated <= highWater'
  BY <1>1, <1>2, <1>3, <1>4, <1>6, <1>7, <1>10, <1>11
<1>13. owed' \in [Tasks -> Int]
  BY <1>1, <1>10
<1>14. \A k \in Tasks : owed'[k] = owed[k] + (IF k \in WorksFor(worker[t]) THEN n ELSE 0)
  BY <1>1, <1>2, <1>10, <1>11
<1>15. highWater <= highWater' /\ highWater' \in Nat /\ clock' \in Nat /\ gpu_memory_allocated_bytes' \in Int
  BY <1>1, <1>10
<1>16. v.task = worker[t].task /\ v.pool = worker[t].pool /\ v.state # "removing"
  BY <1>2, <1>5, <1>7
<1>17. BooksInv'
  BY <1>5, <1>7, <1>9, <1>10, <1>12, <1>13, <1>14, <1>15, <1>16, UpdateEnds
<1>18. NoLess(w, v, clock)
  <2> SUFFICES ASSUME Timely(w, clock) PROVE Timely(v, clock) /\ Held(w, clock) <= Held(v, clock)
    BY DEF NoLess
  <2>1. v.metrics.total = p.metrics.total /\ v.since = w.since /\ v.waiting = w.waiting
    BY <1>2, <1>4, <1>6, <1>7 DEF SameTimes
  <2>2. Timely(v, clock)
    BY <1>2, <1>7, <2>1 DEF Timely, SameTimes
  <2>3. w.metrics.total <= v.metrics.total /\ clock \in Int
    BY <1>1, <1>2, <2>1
  <2> QED BY <1>7, <2>1, <2>2, <2>3, SameHeld
<1>19. TimeKept
  BY <1>2, <1>5, <1>7, <1>10, <1>16, <1>18, UpdateTimes
<1> QED BY <1>17, <1>19

(* post_alloc_success: the peak of the thread was reached just now.        *)
LEMMA AllocKeeps ==
  ASSUME BooksInv, NEW t \in Workers, post_alloc_success(t)
  PROVE  BooksInv' /\ TimeKept
<1>1. /\ worker[t] \in WorkerStates /\ Proper(worker[t]) /\ worker[t].metrics.max_allocated <= highWater
      /\ highWater \in Nat /\ owed \in [Tasks -> Int] /\ clock \in Nat /\ gpu_memory_allocated_bytes \in Int
  BY WhatIsKnown
<1>2. worker[t].metrics \in Metrics /\ worker[t].metrics.max_allocated \in Int
  BY <1>1 DEF WorkerStates, Metrics
<1>3. PICK w \in WorkerStates, o \in Metrics, bytes \in Int, i \in Int :
        /\ w = worker[t] /\ o = worker[t].metrics /\ bytes = gpu_memory_allocated_bytes + 1
        /\ i = Larger(worker[t].metrics.max_allocated, bytes)
  BY <1>1, <1>2 DEF Larger
<1> DEFINE m == [o EXCEPT !.max_allocated = i]
           v == [w EXCEPT !.metrics = m]
<1>4. /\ w.state = "running" /\ worker' = [worker EXCEPT ![t] = v]
      /\ gpu_memory_allocated_bytes' = bytes /\ highWater' = Larger(highWater, bytes)
      /\ UNCHANGED <<task_to_threads, task_to_metrics, clock, owed, spoiled>>
  BY <1>3 DEF post_alloc_success, Update
<1>5. m \in Metrics /\ m.throws = o.throws /\ m.max_allocated = i /\ m.total = o.total
  BY FieldSet
<1> HIDE DEF m
<1>6. v \in WorkerStates /\ v.metrics = m /\ v.state = w.state /\ v.task = w.task /\ v.pool = w.pool
      /\ v.waiting = w.waiting /\ SameTimes(w, v)
  BY <1>5, MetricsSet
<1> HIDE DEF v
<1>7. w.task # NoTask => w.pool = {}
  BY <1>1, <1>3 DEF Proper
<1>8. Proper(v)
  BY <1>4, <1>6, <1>7 DEF Proper
<1>9. highWater <= highWater' /\ highWater' \in Nat /\ i <= highWater'
  BY <1>1, <1>2, <1>3, <1>4 DEF Larger
<1>10. v.metrics.throws = worker[t].metrics.throws /\ v.metrics.max_allocated <= highWater'
  BY <1>3, <1>5, <1>6, <1>9
<1>11. BooksInv'
  BY <1>1, <1>3, <1>4, <1>6, <1>8, <1>9, <1>10, QuietUpdate
<1>12. NoLess(w, v, clock)
  <2>1. v.metrics.total = w.metrics.total
    BY <1>3, <1>5, <1>6
  <2>2. Timely(w, clock) => Timely(v, clock)
    BY <1>6, <2>1 DEF Timely, SameTimes
  <2>3. w.metrics.total <= v.metrics.total /\ clock \in Int
    BY <1>1, <2>1 DEF WorkerStates, Metrics
  <2>4. v.since = w.since
    BY <1>6 DEF SameTimes
  <2> QED BY <1>6, <2>2, <2>3, <2>4, SameHeld DEF NoLess
<1>13. TimeKept
  BY <1>3, <1>4, <1>6, <1>12, UpdateTimes
<1> QED BY <1>11, <1>13

(* dealloc_core and the clock: no record changes.                          *)
LEMMA UntouchedKeeps ==
  ASSUME BooksInv, UNCHANGED <<worker, task_to_threads, task_to_metrics, owed, highWater, spoiled>>,
         clock' \in Nat, clock <= clock', gpu_memory_allocated_bytes' \in Int
  PROVE  BooksInv' /\ TimeKept
<1>1. PICK st : st = Current
  OBVIOUS
<1>2. Good(st, owed, highWater)
  BY <1>1, WhatIsKnown
<1>3. Become(st)
  BY <1>1 DEF Become, Current
<1>4. owed \in [Tasks -> Int] /\ highWater \in Nat
  BY WhatIsKnown
<1>5. Good(st, owed', highWater')
  BY <1>2
<1>6. BooksInv'
  BY <1>3, <1>4, <1>5, StepEnds DEF Become
<1>7. TimeKept
  <2>1. PICK now \in Nat, later \in Nat : now = clock /\ later = clock' /\ now <= later
    BY WhatIsKnown
  <2>2. st \in Books
    BY <1>1, WhatIsKnown
  <2>3. ASSUME NEW marks \in [Tasks -> Int], Accrued(st, now, marks) PROVE Accrued(st, later, marks)
    BY <2>1, <2>2, <2>3, AccruedLater
  <2> QED BY <1>1, <1>3, <2>1, <2>2, <2>3, TimesEnd
<1> QED BY <1>6, <1>7

-----------------------------------------------------------------------------
(* Changing what threads work for keeps the invariant. *)

(* remove_thread_association.                                              *)
LEMMA RemovalKeeps ==
  ASSUME BooksInv, NEW t \in Workers, NEW k \in Tasks \cup {NoTask}, remove_thread_association(t, k)
  PROVE  BooksInv' /\ TimeKept
<1>1. PICK st \in Books, due \in [Tasks -> Int], high \in Nat :
        st = Current /\ due = owed /\ high = highWater /\ Good(st, due, high) /\ clock \in Nat
  BY WhatIsKnown
<1> DEFINE new == Removed(st, t, k)
<1>2. Good(new, due, high)
  BY <1>1, RemovedGood
<1>3. Become(new) /\ UNCHANGED <<gpu_memory_allocated_bytes, clock, owed, highWater>>
  BY <1>1 DEF remove_thread_association
<1>4. KeepsTime(st, new, clock)
  BY <1>1, RemovedTimes
<1> HIDE DEF new
<1> QED BY <1>1, <1>2, <1>3, <1>4, BooksReplaced

(* task_done: the removals, the releases, and the list.                    *)
LEMMA DoneKeeps ==
  ASSUME BooksInv, NEW k \in Tasks, task_done(k)
  PROVE  BooksInv' /\ TimeKept
<1>1. PICK st \in Books, due \in [Tasks -> Int], high \in Nat :
        st = Current /\ due = owed /\ high = highWater /\ Good(st, due, high) /\ st.listed = task_to_threads
        /\ clock \in Nat
  BY WhatIsKnown
<1> DEFINE dedicated == FoldSet(LAMBDA t, s : Removed(s, t, k), st, st.listed[k])
           released == FoldSet(LAMBDA t, s : Released(s, t, k), dedicated, Workers)
           new == [released EXCEPT !.listed[k] = {}]
<1>2. PICK now \in Nat : now = clock
  BY <1>1
<1>3. Good(dedicated, due, high) /\ Undedicated(dedicated, k) /\ KeepsTime(st, dedicated, now)
  BY <1>1, RemovalsGood
<1>4. Become(new) /\ UNCHANGED <<gpu_memory_allocated_bytes, clock, owed, highWater>>
  BY <1>1, Zenon DEF task_done
<1> HIDE DEF dedicated
<1>5. Good(released, due, high) /\ Undedicated(released, k) /\ KeepsTime(dedicated, released, now)
  BY <1>3, ReleasesGood
<1> HIDE DEF released
<1>6. Good(new, due, high) /\ KeepsTime(released, new, now)
  BY <1>5, ListDropped
<1> HIDE DEF new
<1>7. KeepsTime(st, new, now)
  BY <1>3, <1>5, <1>6 DEF KeepsTime
<1> QED BY <1>1, <1>2, <1>4, <1>6, <1>7, BooksReplaced

(* start_dedicated_task_thread: the thread is taken from the task it was   *)
(* dedicated to, and registered, unless the call is refused.               *)
LEMMA StartKeeps ==
  ASSUME BooksInv, NEW t \in Workers, NEW k \in Tasks, start_dedicated_task_thread(t, k)
  PROVE  BooksInv' /\ TimeKept
<1>1. PICK cur \in Books, due \in [Tasks -> Int], high \in Nat :
        cur = Current /\ due = owed /\ high = highWater /\ Good(cur, due, high) /\ cur.worker = worker
        /\ clock \in Nat
  BY WhatIsKnown
<1>0. PICK now \in Nat : now = clock
  BY <1>1
<1>2. PICK st : /\ st = IF worker[t].task \in Tasks \ {k} THEN Removed(cur, t, worker[t].task) ELSE cur
                /\ Good(st, due, high) /\ KeepsTime(cur, st, now)
  <2>1. PICK j : j = worker[t].task
    OBVIOUS
  <2>2. CASE j \in Tasks \ {k}
    <3>1. Good(Removed(cur, t, j), due, high)
      BY <1>1, <2>2, RemovedGood
    <3>2. KeepsTime(cur, Removed(cur, t, j), now)
      BY <2>2, RemovedTimes
    <3> QED BY <2>1, <2>2, <3>1, <3>2
  <2>3. CASE j \notin Tasks \ {k}
    BY <1>1, <2>1, <2>3 DEF KeepsTime
  <2> QED BY <2>2, <2>3
<1> DEFINE w == st.worker[t]
           fresh == [Absent EXCEPT !.state = "running", !.task = k]
           accepted == w.state = "unknown" \/ (w.state # "removing" /\ w.task = k)
           known == IF w.state = "unknown" THEN fresh ELSE w
           new == [st EXCEPT !.worker[t] = known, !.listed[k] = @ \cup {t}]
<1>3. Become(IF accepted THEN new ELSE st) /\ UNCHANGED <<gpu_memory_allocated_bytes, clock, owed, highWater>>
  BY <1>1, <1>2 DEF start_dedicated_task_thread
<1>4. w \in WorkerStates /\ Proper(w)
  BY <1>2, BooksFields DEF Good
<1>5. CASE accepted
  <2>1. fresh \in WorkerStates /\ fresh.state = "running" /\ fresh.task = k /\ fresh.pool = {} /\ fresh.metrics = Clear
        /\ fresh.waiting = FALSE /\ SameTimes(Absent, fresh)
    <3>1. PICK a \in WorkerStates : a = Absent /\ a.pool = {} /\ a.metrics = Clear /\ a.waiting = FALSE
      BY AbsentIsProper, AbsentTimes
    <3>2. LET f == [a EXCEPT !.state = "running", !.task = k]
          IN  f \in WorkerStates /\ f.state = "running" /\ f.task = k /\ f.pool = a.pool /\ f.metrics = a.metrics
              /\ f.waiting = a.waiting /\ SameTimes(a, f)
      BY DEF WorkerStates, SameTimes
    <3> QED BY <3>1, <3>2
  <2> HIDE DEF fresh
  <2>2. Proper(fresh)
    BY <2>1, ClearIsMetrics DEF Proper
  <2>3. /\ known \in WorkerStates /\ Proper(known) /\ known.task = k /\ known.state # "removing"
        /\ known.state # "unknown" /\ (known = w \/ (w.state = "unknown" /\ known.metrics = Clear /\ known.waiting = FALSE /\ SameTimes(Absent, known)))
    BY <1>4, <1>5, <2>1, <2>2
  <2> HIDE DEF known
  <2>4. Good(new, due, high) /\ KeepsTime(st, new, now)
    BY <1>2, <2>3, Registering
  <2> HIDE DEF new
  <2>5. KeepsTime(cur, new, now)
    BY <1>2, <2>4 DEF KeepsTime
  <2> QED BY <1>0, <1>1, <1>3, <1>5, <2>4, <2>5, BooksReplaced
<1>6. CASE ~accepted
  <2>1. Become(st)
    BY <1>3, <1>6
  <2> QED BY <1>0, <1>1, <1>2, <1>3, <2>1, BooksReplaced
<1> QED BY <1>5, <1>6

(* A saved thread whose pool is another.                                   *)
LEMMA PoolSet ==
  ASSUME NEW w \in WorkerStates, NEW pool \in SUBSET Tasks
  PROVE  LET v == [cleared(w) EXCEPT !.pool = pool]
         IN  /\ v \in WorkerStates /\ v.metrics = Clear /\ v.pool = pool
             /\ v.state = w.state /\ v.task = w.task /\ v.waiting = w.waiting
             /\ SameTimes(w, v)
<1>1. PICK c \in WorkerStates : /\ c = cleared(w) /\ c.metrics = Clear /\ c.state = w.state /\ c.task = w.task
                                /\ c.waiting = w.waiting /\ SameTimes(w, c)
  BY ClearedRecord
<1>2. LET v == [c EXCEPT !.pool = pool]
      IN  /\ v \in WorkerStates /\ v.metrics = c.metrics /\ v.pool = pool
          /\ v.state = c.state /\ v.task = c.task /\ v.waiting = c.waiting
  BY DEF WorkerStates
<1>3. SameTimes(c, [c EXCEPT !.pool = pool])
  BY DEF WorkerStates, SameTimes
<1>4. SameTimes(w, [c EXCEPT !.pool = pool])
  BY <1>1, <1>3 DEF SameTimes
<1> QED BY <1>1, <1>2, <1>4

(* pool_thread_working_on_tasks: the thread is saved for the tasks it had. *)
LEMMA PoolKeeps ==
  ASSUME BooksInv, NEW t \in Workers, NEW ks \in SUBSET Tasks, pool_thread_working_on_tasks(t, ks)
  PROVE  BooksInv' /\ TimeKept
<1>1. PICK st \in Books, due \in [Tasks -> Int], high \in Nat :
        /\ st = Current /\ due = owed /\ high = highWater /\ Good(st, due, high)
        /\ st.worker = worker /\ st.listed = task_to_threads /\ st.metrics = task_to_metrics /\ st.spoiled = spoiled
        /\ worker \in [Workers -> WorkerStates] /\ task_to_threads \in [Tasks -> SUBSET Workers]
        /\ task_to_metrics \in [Tasks -> Metrics] /\ spoiled \in SUBSET Tasks /\ Proper(worker[t])
        /\ clock \in Nat
  BY WhatIsKnown
<1>2. PICK o \in WorkerStates : o = worker[t] /\ Proper(o)
  BY <1>1
<1> DEFINE fresh == [Absent EXCEPT !.state = "running"]
           w == IF o.state # "unknown" THEN o ELSE fresh
           v == [cleared(w) EXCEPT !.pool = w.pool \cup ks]
<1>3. /\ w.task = NoTask /\ w.state # "removing"
      /\ worker' = [worker EXCEPT ![t] = [cleared(w) EXCEPT !.pool = @ \cup ks]]
      /\ task_to_metrics' = checkpointed(task_to_metrics, w)
      /\ UNCHANGED <<task_to_threads, gpu_memory_allocated_bytes, clock, owed, highWater, spoiled>>
  <2> HIDE DEF v
  <2> QED BY <1>2 DEF pool_thread_working_on_tasks, Update, Registered
<1>4. fresh \in WorkerStates /\ fresh.state = "running" /\ fresh.task = NoTask /\ fresh.pool = {} /\ fresh.metrics = Clear
      /\ fresh.waiting = Absent.waiting /\ SameTimes(Absent, fresh)
  <2>1. PICK a \in WorkerStates : a = Absent /\ a.pool = {} /\ a.metrics = Clear /\ a.task = NoTask
    BY AbsentIsProper
  <2>2. LET f == [a EXCEPT !.state = "running"]
        IN  f \in WorkerStates /\ f.state = "running" /\ f.task = a.task /\ f.pool = a.pool /\ f.metrics = a.metrics
            /\ f.waiting = a.waiting /\ SameTimes(a, f)
    BY DEF WorkerStates, SameTimes
  <2> QED BY <2>1, <2>2
<1> HIDE DEF fresh
<1>5. /\ w \in WorkerStates /\ w.state # "unknown" /\ w.task = o.task /\ w.pool = o.pool /\ w.metrics = o.metrics
      /\ (w.state = "blocked" => w.waiting) /\ w.waiting = o.waiting /\ SameTimes(o, w)
  <2>1. CASE o.state # "unknown"
    <3>1. w = o
      BY <2>1
    <3> HIDE DEF w
    <3>2. o.state = "blocked" => o.waiting
      BY <1>2 DEF Proper
    <3>3. SameTimes(o, o)
      BY DEF SameTimes
    <3> QED BY <2>1, <3>1, <3>2, <3>3
  <2>2. CASE o.state = "unknown"
    <3>1. w = fresh /\ o = Absent
      BY <1>2, <2>2 DEF Proper
    <3> HIDE DEF w
    <3>2. w.state = "running"
      BY <1>4, <3>1
    <3> QED BY <1>4, <3>1, <3>2, AbsentIsProper
  <2> QED BY <2>1, <2>2
<1> HIDE DEF w
<1>6. w.pool \cup ks \in SUBSET Tasks /\ cleared(w).pool = w.pool
  BY <1>5, ClearedRecord DEF WorkerStates
<1>7. worker' = [worker EXCEPT ![t] = v]
  BY <1>3, <1>6
<1>8. /\ v \in WorkerStates /\ v.metrics = Clear /\ v.pool = w.pool \cup ks
      /\ v.state = w.state /\ v.task = w.task /\ v.waiting = w.waiting /\ SameTimes(w, v)
  BY <1>5, <1>6, PoolSet
<1> HIDE DEF v
<1>9. v.metrics.throws = 0
  BY <1>8, ClearIsMetrics
<1>10. v.state = "blocked" => v.waiting
  BY <1>5, <1>8
<1>11. Proper(v)
  BY <1>3, <1>5, <1>8, <1>9, <1>10 DEF Proper
<1> DEFINE new == [worker |-> [worker EXCEPT ![t] = v], listed |-> task_to_threads,
                   metrics |-> checkpointed(task_to_metrics, w), spoiled |-> spoiled]
<1>12. new \in Books
  <2>1. [worker EXCEPT ![t] = v] \in [Workers -> WorkerStates] /\ checkpointed(task_to_metrics, w) \in [Tasks -> Metrics]
    BY <1>1, <1>5, <1>8, Checkpointed
  <2> QED BY <1>1, <2>1 DEF Books
<1>13. checkpointed(task_to_metrics, w) = checkpointed(task_to_metrics, o)
  BY <1>5 DEF checkpointed, WorksFor
<1>14. /\ new.worker = [st.worker EXCEPT ![t] = v] /\ new.listed = st.listed
       /\ new.metrics = checkpointed(st.metrics, st.worker[t]) /\ new.spoiled = st.spoiled
  BY <1>1, <1>2, <1>13
<1>15. Become(new)
  BY <1>3, <1>7 DEF Become
<1> HIDE DEF new
<1>16. v.task = st.worker[t].task /\ v.state # "removing"
  BY <1>1, <1>2, <1>3, <1>5, <1>8
<1>17. Good(new, due, high)
  <2>1. PICK n \in Books : n = new
    BY <1>12
  <2>2. /\ n.worker = [st.worker EXCEPT ![t] = v] /\ n.listed = st.listed
        /\ n.metrics = checkpointed(st.metrics, st.worker[t]) /\ n.spoiled = st.spoiled
    BY <1>14, <2>1
  <2>3. Good(st, due, high) /\ v \in WorkerStates /\ v.metrics = Clear /\ Proper(v)
        /\ v.task = st.worker[t].task /\ (v.state = "removing" => st.worker[t].state = "removing")
    BY <1>1, <1>8, <1>11, <1>16
  <2>4. Good(n, due, high)
    BY <2>2, <2>3, SavedInPlace
  <2> QED BY <2>1, <2>4
<1>18. PICK now \in Nat : now = clock
  BY <1>1
<1>19. KeepsTime(st, new, now)
  <2>1. SameTimes(o, v) /\ v.task = o.task /\ v.waiting = o.waiting
    BY <1>5, <1>8 DEF SameTimes
  <2>2. PICK n \in Books : n = new
    BY <1>12
  <2>3. n.worker = [st.worker EXCEPT ![t] = v] /\ n.metrics = checkpointed(st.metrics, o) /\ st.spoiled \subseteq n.spoiled
        /\ o = st.worker[t]
    BY <1>1, <1>2, <1>14, <2>2
  <2>4. KeepsTime(st, n, now)
    BY <1>8, <2>1, <2>3, SavedTimes
  <2> QED BY <2>2, <2>4
<1> QED BY <1>1, <1>3, <1>15, <1>17, <1>18, <1>19, BooksReplaced

(* pool_thread_finished_for_tasks: saved, then taken off the tasks, and    *)
(* removed when none is left.                                              *)
LEMMA FinishedKeeps ==
  ASSUME BooksInv, NEW t \in Workers, NEW ks \in SUBSET Tasks, pool_thread_finished_for_tasks(t, ks)
  PROVE  BooksInv' /\ TimeKept
<1>1. PICK cur \in Books, due \in [Tasks -> Int], high \in Nat :
        /\ cur = Current /\ due = owed /\ high = highWater /\ Good(cur, due, high)
        /\ cur.worker = worker /\ worker \in [Workers -> WorkerStates] /\ Proper(worker[t])
        /\ clock \in Nat
  BY WhatIsKnown
<1>2. PICK w \in WorkerStates : w = worker[t] /\ Proper(w)
  BY <1>1
<1> DEFINE v == [cleared(w) EXCEPT !.pool = w.pool \ ks]
           saved == checkpointed(cur.metrics, w)
           st == [cur EXCEPT !.worker[t] = v, !.metrics = saved]
<1>3. /\ w.state # "unknown"
      /\ Become(IF w.pool \subseteq ks THEN Removed(st, t, NoTask) ELSE st)
      /\ UNCHANGED <<gpu_memory_allocated_bytes, clock, owed, highWater>>
  <2>1. cleared(w).pool = w.pool
    BY ClearedRecord
  <2>2. st = [cur EXCEPT !.worker[t] = [cleared(w) EXCEPT !.pool = @ \ ks], !.metrics = checkpointed(@, w)]
    BY <2>1
  <2> HIDE DEF st
  <2> QED BY <1>1, <1>2, <2>2 DEF pool_thread_finished_for_tasks, Registered
<1>4. w.pool \ ks \in SUBSET Tasks
  BY DEF WorkerStates
<1>5. /\ v \in WorkerStates /\ v.metrics = Clear /\ v.pool = w.pool \ ks
      /\ v.state = w.state /\ v.task = w.task /\ v.waiting = w.waiting /\ SameTimes(w, v)
  BY <1>4, PoolSet
<1> HIDE DEF v
<1>6. Proper(v)
  <2>1. v.metrics.throws = 0
    BY <1>5, ClearIsMetrics
  <2>2. v.state = "blocked" => v.waiting
    BY <1>2, <1>5 DEF Proper
  <2>3. v.task # NoTask => v.pool = {}
    BY <1>2, <1>5 DEF Proper
  <2> QED BY <1>3, <1>5, <2>1, <2>2, <2>3 DEF Proper
<1>7. /\ cur.worker \in [Workers -> WorkerStates] /\ cur.listed \in [Tasks -> SUBSET Workers]
      /\ cur.metrics \in [Tasks -> Metrics] /\ cur.spoiled \in SUBSET Tasks
  BY BooksFields
<1>8. PICK workers \in [Workers -> WorkerStates], metrics \in [Tasks -> Metrics] :
        workers = [cur.worker EXCEPT ![t] = v] /\ metrics = saved
  <2>1. [cur.worker EXCEPT ![t] = v] \in [Workers -> WorkerStates]
    BY <1>5, <1>7
  <2>2. saved \in [Tasks -> Metrics]
    BY <1>7, Checkpointed
  <2> HIDE DEF saved
  <2> QED BY <2>1, <2>2
<1>9. st = [worker |-> workers, listed |-> cur.listed, metrics |-> metrics, spoiled |-> cur.spoiled]
  <2> HIDE DEF saved
  <2>1. st = [[cur EXCEPT !.worker = [cur.worker EXCEPT ![t] = v]] EXCEPT !.metrics = saved]
    BY DEF Books
  <2> HIDE DEF st
  <2>2. st = [[cur EXCEPT !.worker = workers] EXCEPT !.metrics = metrics]
    BY <1>8, <2>1
  <2> QED BY <2>2 DEF Books
<1> HIDE DEF st
<1>10. /\ st \in Books /\ st.worker = [cur.worker EXCEPT ![t] = v] /\ st.listed = cur.listed
       /\ st.metrics = saved /\ st.spoiled = cur.spoiled
  BY <1>7, <1>8, <1>9 DEF Books
<1>11. cur.worker[t] = w
  BY <1>1, <1>2
<1>12. st.metrics = checkpointed(cur.metrics, cur.worker[t]) /\ v.task = cur.worker[t].task
       /\ (v.state = "removing" => cur.worker[t].state = "removing")
  BY <1>5, <1>10, <1>11
<1>13. Good(st, due, high)
  BY <1>1, <1>5, <1>6, <1>10, <1>12, SavedInPlace
<1>16. PICK now \in Nat : now = clock
  BY <1>1
<1>17. KeepsTime(cur, st, now)
  <2>1. /\ st \in Books /\ st.worker = [cur.worker EXCEPT ![t] = v] /\ st.metrics = checkpointed(cur.metrics, w)
        /\ cur.spoiled \subseteq st.spoiled /\ w = cur.worker[t]
    BY <1>10, <1>11
  <2> HIDE DEF saved
  <2> QED BY <1>5, <2>1, SavedTimes
<1>14. CASE w.pool \subseteq ks
  <2> DEFINE new == Removed(st, t, NoTask)
  <2>1. NoTask \in Tasks \cup {NoTask}
    OBVIOUS
  <2>2. Good(new, due, high)
    BY <1>13, <2>1, RemovedGood
  <2>3. Become(new)
    BY <1>3, <1>14
  <2>4. KeepsTime(st, new, now)
    BY <1>10, <2>1, RemovedTimes
  <2>5. KeepsTime(cur, new, now)
    BY <1>17, <2>4 DEF KeepsTime
  <2> HIDE DEF new
  <2> QED BY <1>1, <1>3, <1>16, <2>2, <2>3, <2>5, BooksReplaced
<1>15. CASE ~(w.pool \subseteq ks)
  <2>1. Become(st)
    BY <1>3, <1>15
  <2> QED BY <1>1, <1>3, <1>13, <1>16, <1>17, <2>1, BooksReplaced
<1> QED BY <1>14, <1>15

-----------------------------------------------------------------------------
(* Reporting keeps the invariant. *)

(* What is left of the threads' records when those of some are set to 0.   *)
LEMMA SharesWithout ==
  ASSUME NEW f \in [Workers -> Int], NEW g \in [Workers -> Int], NEW L \in SUBSET Workers,
         \A t \in L : g[t] = 0, \A t \in Workers \ L : g[t] = f[t]
  PROVE  /\ SumFunction(f) = SumFunction(Restrict(f, L)) + SumFunction(g)
         /\ SumFunction(Restrict(f, L)) \in Int
         /\ SumFunction(g) \in Int
BY WorkersAssumption, SumWithout

\* The books after a report of the exceptions of task k, of which L are the threads asked.
ThrowsReset(st, new, k, L) ==
    /\ new.listed = st.listed /\ new.spoiled = st.spoiled
    /\ \A t \in Workers : /\ Proper(new.worker[t])
                          /\ new.worker[t].state = st.worker[t].state /\ new.worker[t].task = st.worker[t].task
                          /\ new.worker[t].pool = st.worker[t].pool
                          /\ new.worker[t].metrics.max_allocated = st.worker[t].metrics.max_allocated
                          /\ new.worker[t].metrics.throws = IF t \in L THEN 0 ELSE st.worker[t].metrics.throws
    /\ \A j \in Tasks : /\ new.metrics[j].max_allocated = st.metrics[j].max_allocated
                        /\ new.metrics[j].throws = IF j = k THEN 0 ELSE st.metrics[j].throws
Settled(st, due, owes, k, L) ==
    owes = [due EXCEPT ![k] = @ - (SumFunction([t \in L |-> st.worker[t].metrics.throws]) + st.metrics[k].throws)]

(* The exceptions of a task are reported: those of the threads L, which    *)
(* are listed for it, and its own.  Unless it has a loss, these threads    *)
(* are dedicated to it, so that no other task misses anything.             *)
LEMMA ThrowsReported ==
  ASSUME NEW due \in [Tasks -> Int], NEW high \in Nat, NEW st, Good(st, due, high),
         NEW k \in Tasks, NEW L \in SUBSET st.listed[k],
         NEW new \in Books, ThrowsReset(st, new, k, L), NEW owes \in [Tasks -> Int], Settled(st, due, owes, k, L)
  PROVE  Good(new, owes, high)
<1> USE DEF ThrowsReset, Settled
<1>1. /\ st \in Books /\ Listing(st) /\ Balanced(st, due) /\ Peaks(st, high)
      /\ \A u \in Workers : Proper(st.worker[u])
  BY DEF Good
<1>2. /\ st.worker \in [Workers -> WorkerStates] /\ st.listed \in [Tasks -> SUBSET Workers]
      /\ st.metrics \in [Tasks -> Metrics] /\ new.worker \in [Workers -> WorkerStates]
  BY <1>1, BooksFields
<1>3. Peaks(new, high)
  BY <1>1 DEF Peaks
<1>4. Listing(new)
  BY <1>1 DEF Listing
<1>5. ASSUME NEW j \in Tasks \ st.spoiled
      PROVE  owes[j] = SumFunction(Shares(new.worker, j)) + new.metrics[j].throws
  <2> DEFINE f == Shares(st.worker, j)
             g == Shares(new.worker, j)
  <2>1. due[j] = SumFunction(f) + st.metrics[j].throws
    BY <1>1 DEF Balanced
  <2>2. f \in [Workers -> Int] /\ g \in [Workers -> Int]
    BY <1>2 DEF Shares, Share, WorkerStates, Metrics
  <2>3. \A t \in L : WorksFor(st.worker[t]) = {k}
    BY <1>1, <1>2, NoTaskAssumption DEF Listing, WorksFor
  <2>4. \A t \in Workers : WorksFor(new.worker[t]) = WorksFor(st.worker[t])
    BY DEF WorksFor
  <2>5. \A t \in Workers \ L : g[t] = f[t]
    BY <2>4 DEF Shares, Share
  <2>6. \A t \in L : g[t] = 0
    BY <1>2, <2>4 DEF Shares, Share
  <2>7. CASE j # k
    <3>1. \A t \in L : f[t] = 0
      BY <1>2, <2>3, <2>7 DEF Shares, Share
    <3>2. f = g
      <4> HIDE DEF f, g
      <4> QED BY <2>2, <2>5, <2>6, <3>1
    <3>3. owes[j] = due[j] /\ new.metrics[j].throws = st.metrics[j].throws
      BY <2>7
    <3> QED BY <2>1, <3>2, <3>3
  <2>8. CASE j = k
    <3> DEFINE h == [t \in L |-> st.worker[t].metrics.throws]
               b == st.metrics[k].throws
    <3>1. Restrict(f, L) = h
      BY <1>2, <2>3, <2>8 DEF Restrict, Shares, Share
    <3>2. L \in SUBSET Workers
      BY <1>2
    <3>3. SumFunction(f) = SumFunction(Restrict(f, L)) + SumFunction(g)
          /\ SumFunction(Restrict(f, L)) \in Int /\ SumFunction(g) \in Int
      <4> HIDE DEF f, g
      <4>1. PICK ff \in [Workers -> Int], gg \in [Workers -> Int], LL \in SUBSET Workers :
              ff = f /\ gg = g /\ LL = L
        BY <2>2, <3>2
      <4>2. (\A t \in LL : gg[t] = 0) /\ (\A t \in Workers \ LL : gg[t] = ff[t])
        BY <2>5, <2>6, <4>1
      <4>3. SumFunction(ff) = SumFunction(Restrict(ff, LL)) + SumFunction(gg)
            /\ SumFunction(Restrict(ff, LL)) \in Int /\ SumFunction(gg) \in Int
        BY <4>2, SharesWithout
      <4> QED BY <4>1, <4>3
    <3>4. owes[k] = due[k] - (SumFunction(h) + b) /\ new.metrics[k].throws = 0
      OBVIOUS
    <3>5. b \in Int
      BY <1>2 DEF Metrics
    <3> HIDE DEF f, g, h, b
    <3>6. PICK x \in Int, y \in Int : x = SumFunction(h) /\ y = SumFunction(g)
      BY <3>1, <3>3
    <3>7. due[k] = (x + y) + b
      BY <2>1, <2>8, <3>1, <3>3, <3>6 DEF b
    <3>8. owes[k] = y
      BY <3>4, <3>5, <3>6, <3>7
    <3>9. owes[k] = SumFunction(g) + new.metrics[k].throws
      BY <3>4, <3>6, <3>8
    <3> QED BY <2>8, <3>9 DEF g
  <2> QED BY <2>7, <2>8
<1>6. Balanced(new, owes)
  BY <1>5 DEF Balanced
<1> QED BY <1>3, <1>4, <1>6 DEF Good

\* The books after a report of a peak, or when a task's own record goes.
PeaksReset(st, new, high) ==
    /\ new.listed = st.listed /\ new.spoiled = st.spoiled
    /\ \A t \in Workers : /\ Proper(new.worker[t])
                          /\ new.worker[t].state = st.worker[t].state /\ new.worker[t].task = st.worker[t].task
                          /\ new.worker[t].pool = st.worker[t].pool
                          /\ new.worker[t].metrics.max_allocated <= high
                          /\ new.worker[t].metrics.throws = st.worker[t].metrics.throws
    /\ \A j \in Tasks : new.metrics[j].max_allocated <= high
Forgiven(st, new, due, owes) == \A j \in Tasks : owes[j] = due[j] - (st.metrics[j].throws - new.metrics[j].throws)

(* The peaks of a task are reported, or its own record goes.               *)
LEMMA PeaksReported ==
  ASSUME NEW due \in [Tasks -> Int], NEW high \in Nat, NEW st, Good(st, due, high),
         NEW new \in Books, PeaksReset(st, new, high), NEW owes \in [Tasks -> Int], Forgiven(st, new, due, owes)
  PROVE  Good(new, owes, high)
<1> USE DEF PeaksReset, Forgiven
<1>1. /\ st \in Books /\ Listing(st) /\ Balanced(st, due)
  BY DEF Good
<1>2. Peaks(new, high)
  BY DEF Peaks
<1>3. Listing(new)
  BY <1>1 DEF Listing
<1>4. /\ st.worker \in [Workers -> WorkerStates] /\ st.metrics \in [Tasks -> Metrics]
      /\ new.metrics \in [Tasks -> Metrics]
  BY <1>1, BooksFields
<1>5. ASSUME NEW j \in Tasks \ st.spoiled
      PROVE  owes[j] = SumFunction(Shares(new.worker, j)) + new.metrics[j].throws
  <2>1. due[j] = SumFunction(Shares(st.worker, j)) + st.metrics[j].throws
    BY <1>1 DEF Balanced
  <2>2. \A t \in Workers : WorksFor(new.worker[t]) = WorksFor(st.worker[t])
    BY DEF WorksFor
  <2>3. Shares(new.worker, j) = Shares(st.worker, j)
    BY <2>2 DEF Shares, Share
  <2>4. SumFunction(Shares(st.worker, j)) \in Int
    <3>1. Shares(st.worker, j) \in [Workers -> Int] /\ DOMAIN Shares(st.worker, j) = Workers
      BY <1>4 DEF Shares, Share, WorkerStates, Metrics
    <3> QED BY <3>1, WorkersAssumption, SumIsInt DEF SumFunction
  <2>5. PICK x \in Int, b \in Int, c \in Int :
          x = SumFunction(Shares(st.worker, j)) /\ b = st.metrics[j].throws /\ c = new.metrics[j].throws
    BY <1>4, <2>4 DEF Metrics
  <2>6. due[j] = x + b /\ owes[j] = due[j] - (b - c)
    BY <2>1, <2>5
  <2> QED BY <2>3, <2>5, <2>6
<1>6. Balanced(new, owes)
  BY <1>5 DEF Balanced
<1> QED BY <1>2, <1>3, <1>6 DEF Good

\* A thread with one field of its record reset.
ResetIn(w, f) == [w EXCEPT !.metrics[f] = 0]

(* It stays proper.                                                        *)
LEMMA FieldReset ==
  ASSUME NEW w \in WorkerStates, Proper(w), w.state # "unknown", NEW f \in {"throws", "max_allocated"}
  PROVE  LET v == ResetIn(w, f)
         IN  /\ v \in WorkerStates /\ Proper(v)
             /\ v.state = w.state /\ v.task = w.task /\ v.pool = w.pool
             /\ v.metrics.throws = IF f = "throws" THEN 0 ELSE w.metrics.throws
             /\ v.metrics.max_allocated = IF f = "throws" THEN w.metrics.max_allocated ELSE 0
             /\ v.waiting = w.waiting /\ SameTimes(w, v) /\ v.metrics.total = w.metrics.total
<1>1. PICK o \in Metrics : o = w.metrics
  BY DEF WorkerStates
<1> DEFINE m == IF f = "throws" THEN [o EXCEPT !.throws = 0] ELSE [o EXCEPT !.max_allocated = 0]
           v == [w EXCEPT !.metrics = m]
<1>2. ResetIn(w, f) = v
  <2>1. CASE f = "throws"
    BY <1>1, <2>1 DEF ResetIn
  <2>2. CASE f = "max_allocated"
    BY <1>1, <2>2 DEF ResetIn
  <2> QED BY <2>1, <2>2
<1>3. /\ m \in Metrics
      /\ m.throws = IF f = "throws" THEN 0 ELSE w.metrics.throws
      /\ m.max_allocated = IF f = "throws" THEN w.metrics.max_allocated ELSE 0
      /\ m.total = w.metrics.total
  <2>1. CASE f = "throws"
    BY <1>1, <2>1 DEF Metrics
  <2>2. CASE f # "throws"
    BY <1>1, <2>2 DEF Metrics
  <2> QED BY <2>1, <2>2
<1> HIDE DEF m
<1>4. v \in WorkerStates /\ v.metrics = m
      /\ v.state = w.state /\ v.task = w.task /\ v.pool = w.pool /\ v.waiting = w.waiting
      /\ SameTimes(w, v)
  BY <1>3, MetricsSet
<1> HIDE DEF v
<1>5. Proper(v)
  <2>1. v.state = "blocked" => v.waiting
    BY <1>4 DEF Proper
  <2>2. v.state = "removing" => v.metrics.throws = 0
    BY <1>3, <1>4 DEF Proper
  <2>3. v.task # NoTask => v.pool = {}
    BY <1>4 DEF Proper
  <2> QED BY <1>4, <2>1, <2>2, <2>3 DEF Proper
<1> QED BY <1>2, <1>3, <1>4, <1>5

(* get_and_reset_metric.                                                   *)
LEMMA ReportKeeps ==
  ASSUME BooksInv, NEW k \in Tasks, NEW f \in {"throws", "max_allocated"}, get_and_reset_metric(k, f)
  PROVE  BooksInv' /\ TimeKept
<1>1. PICK st \in Books, due \in [Tasks -> Int], high \in Nat :
        /\ st = Current /\ due = owed /\ high = highWater /\ Good(st, due, high)
        /\ st.worker = worker /\ st.listed = task_to_threads /\ st.metrics = task_to_metrics /\ st.spoiled = spoiled
        /\ clock \in Nat /\ gpu_memory_allocated_bytes \in Int
  BY WhatIsKnown
<1>2. /\ st.worker \in [Workers -> WorkerStates] /\ st.listed \in [Tasks -> SUBSET Workers]
      /\ st.metrics \in [Tasks -> Metrics] /\ st.spoiled \in SUBSET Tasks
      /\ \A t \in Workers : Proper(st.worker[t])
  BY BooksFields, <1>1 DEF Good
<1> DEFINE L == {t \in st.listed[k] : st.worker[t].state # "unknown"}
           W == [t \in Workers |-> IF t \in L THEN [st.worker[t] EXCEPT !.metrics[f] = 0] ELSE st.worker[t]]
           M == [st.metrics EXCEPT ![k][f] = 0]
<1>3. Listed(k) = L
  BY <1>1 DEF Listed, Registered
<1>4. worker' = W /\ task_to_metrics' = M
      /\ UNCHANGED <<task_to_threads, gpu_memory_allocated_bytes, clock, highWater, spoiled>>
      /\ owed' = IF f = "throws" THEN [owed EXCEPT ![k] = @ - get_metric(k, f)] ELSE owed
  BY <1>1, <1>3 DEF get_and_reset_metric
<1>5. L \in SUBSET st.listed[k] /\ L \in SUBSET Workers
  BY <1>2
<1>6. ASSUME NEW t \in Workers
      PROVE  /\ W[t] \in WorkerStates /\ Proper(W[t])
             /\ W[t].state = st.worker[t].state /\ W[t].task = st.worker[t].task /\ W[t].pool = st.worker[t].pool
             /\ W[t].metrics.throws = IF t \in L /\ f = "throws" THEN 0 ELSE st.worker[t].metrics.throws
             /\ W[t].metrics.max_allocated = IF t \in L /\ f # "throws" THEN 0 ELSE st.worker[t].metrics.max_allocated
             /\ W[t].waiting = st.worker[t].waiting /\ SameTimes(st.worker[t], W[t])
             /\ W[t].metrics.total = st.worker[t].metrics.total
  <2>1. PICK w \in WorkerStates : w = st.worker[t] /\ Proper(w)
    BY <1>2
  <2>2. CASE t \in L
    <3>1. W[t] = ResetIn(w, f) /\ w.state # "unknown"
      BY <2>1, <2>2 DEF ResetIn
    <3> HIDE DEF W
    <3>2. /\ W[t] \in WorkerStates /\ Proper(W[t])
          /\ W[t].state = w.state /\ W[t].task = w.task /\ W[t].pool = w.pool
          /\ W[t].metrics.throws = IF f = "throws" THEN 0 ELSE w.metrics.throws
          /\ W[t].metrics.max_allocated = IF f = "throws" THEN w.metrics.max_allocated ELSE 0
          /\ W[t].waiting = w.waiting /\ SameTimes(w, W[t]) /\ W[t].metrics.total = w.metrics.total
      BY <2>1, <3>1, FieldReset
    <3> HIDE DEF L
    <3> QED BY <2>1, <2>2, <3>2
  <2>3. CASE t \notin L
    <3>1. W[t] = w
      BY <2>1, <2>3
    <3> HIDE DEF W, L
    <3>2. SameTimes(w, w)
      BY DEF SameTimes
    <3> QED BY <2>1, <2>3, <3>1, <3>2
  <2> QED BY <2>2, <2>3
<1>7. W \in [Workers -> WorkerStates]
  <2>1. W = [t \in Workers |-> W[t]]
    OBVIOUS
  <2> HIDE DEF W
  <2> QED BY <1>6, <2>1
<1>8. /\ M \in [Tasks -> Metrics]
      /\ \A j \in Tasks : 
           /\ M[j].throws = IF j = k /\ f = "throws" THEN 0 ELSE st.metrics[j].throws
           /\ M[j].max_allocated = IF j = k /\ f # "throws" THEN 0 ELSE st.metrics[j].max_allocated
           /\ M[j].total = st.metrics[j].total
  <2>1. PICK o \in Metrics : o = st.metrics[k]
    BY <1>2
  <2>2. PICK m \in Metrics : /\ m = [o EXCEPT ![f] = 0]
                             /\ m.throws = IF f = "throws" THEN 0 ELSE o.throws
                             /\ m.max_allocated = IF f # "throws" THEN 0 ELSE o.max_allocated
                             /\ m.total = o.total
    <3> DEFINE m == [o EXCEPT ![f] = 0]
    <3>1. m \in Metrics /\ m.total = o.total /\ m.throws = (IF f = "throws" THEN 0 ELSE o.throws)
          /\ m.max_allocated = IF f # "throws" THEN 0 ELSE o.max_allocated
      <4>1. CASE f = "throws"
        BY <4>1 DEF Metrics
      <4>2. CASE f = "max_allocated"
        BY <4>2 DEF Metrics
      <4> QED BY <4>1, <4>2
    <3> QED BY <3>1
  <2>3. M = [st.metrics EXCEPT ![k] = m]
    BY <2>1, <2>2
  <2> HIDE DEF M
  <2>4. M \in [Tasks -> Metrics] /\ M[k] = m /\ \A j \in Tasks \ {k} : M[j] = st.metrics[j]
    BY <1>2, <2>3
  <2> QED BY <2>1, <2>2, <2>4
<1> HIDE DEF M, W, L
<1>9. PICK new \in Books : new.worker = W /\ new.listed = st.listed /\ new.metrics = M /\ new.spoiled = st.spoiled
  <2>1. [worker |-> W, listed |-> st.listed, metrics |-> M, spoiled |-> st.spoiled] \in Books
    BY <1>2, <1>7, <1>8 DEF Books
  <2> QED BY <2>1
<1>10. Become(new)
  BY <1>1, <1>4, <1>9 DEF Become
<1>11. highWater' \in Nat /\ highWater' = high /\ clock' \in Nat /\ gpu_memory_allocated_bytes' \in Int
  BY <1>1, <1>4
<1>14. TimeKept
  <2>1. PICK now \in Nat : now = clock
    BY <1>1
  <2>2. KeepsTime(st, new, now)
    <3>1. ASSUME NEW t \in Workers
          PROVE  /\ SameTimes(st.worker[t], new.worker[t])
                 /\ new.worker[t].task = st.worker[t].task /\ new.worker[t].waiting = st.worker[t].waiting
                 /\ new.worker[t].metrics.total = st.worker[t].metrics.total
      BY <1>6, <1>9
    <3>2. ASSUME NEW j \in Tasks PROVE new.metrics[j].total = st.metrics[j].total
      BY <1>8, <1>9
    <3> QED BY <1>9, <3>1, <3>2, AccruedStill
  <2>3. clock' = now
    BY <1>4, <2>1
  <2> QED BY <1>1, <1>10, <2>1, <2>2, <2>3, TimesEnd DEF KeepsTime
<1>12. CASE f = "throws"
  <2> DEFINE h == [t \in L |-> st.worker[t].metrics.throws]
  <2>1. get_metric(k, f) = SumFunction(h) + st.metrics[k].throws
    BY <1>1, <1>3, <1>12 DEF get_metric
  <2>2. h \in [L -> Int] /\ IsFiniteSet(L) /\ DOMAIN h = L
    BY <1>2, <1>5, WorkersAssumption, FS_Subset DEF WorkerStates, Metrics
  <2>3. SumFunction(h) \in Int
    <3> HIDE DEF h
    <3> QED BY <2>2, SumIsInt DEF SumFunction
  <2>4. st.metrics[k].throws \in Int /\ due[k] \in Int
    BY <1>2 DEF Metrics
  <2>5. PICK owes \in [Tasks -> Int] : owes = [due EXCEPT ![k] = @ - (SumFunction(h) + st.metrics[k].throws)]
    <3> HIDE DEF h
    <3>1. due[k] - (SumFunction(h) + st.metrics[k].throws) \in Int
      BY <2>3, <2>4
    <3> QED BY <3>1
  <2>6. owed' = owes
    BY <1>1, <1>4, <1>12, <2>1, <2>5
  <2>7. \A t \in Workers : /\ Proper(new.worker[t])
                           /\ new.worker[t].state = st.worker[t].state /\ new.worker[t].task = st.worker[t].task
                           /\ new.worker[t].pool = st.worker[t].pool
                           /\ new.worker[t].metrics.max_allocated = st.worker[t].metrics.max_allocated
                           /\ new.worker[t].metrics.throws = IF t \in L THEN 0 ELSE st.worker[t].metrics.throws
    BY <1>6, <1>9, <1>12
  <2>8. \A j \in Tasks : /\ new.metrics[j].max_allocated = st.metrics[j].max_allocated
                         /\ new.metrics[j].throws = IF j = k THEN 0 ELSE st.metrics[j].throws
    BY <1>8, <1>9, <1>12
  <2>9. Good(new, owes, high)
    <3>1. ThrowsReset(st, new, k, L)
      BY <1>9, <2>7, <2>8 DEF ThrowsReset
    <3>2. Settled(st, due, owes, k, L)
      BY <2>5 DEF Settled
    <3> QED BY <1>1, <1>5, <3>1, <3>2, ThrowsReported
  <2>10. BooksInv'
    BY <1>10, <1>11, <2>6, <2>9, StepEnds DEF Become
  <2> QED BY <1>14, <2>10
<1>13. CASE f = "max_allocated"
  <2>1. owed' = due
    BY <1>1, <1>4, <1>13
  <2>2. Peaks(st, high)
    BY <1>1 DEF Good
  <2>3. \A t \in Workers : /\ Proper(new.worker[t])
                           /\ new.worker[t].state = st.worker[t].state /\ new.worker[t].task = st.worker[t].task
                           /\ new.worker[t].pool = st.worker[t].pool
                           /\ new.worker[t].metrics.max_allocated <= high
                           /\ new.worker[t].metrics.throws = st.worker[t].metrics.throws
    BY <1>6, <1>9, <1>13, <2>2 DEF Peaks
  <2>4. \A j \in Tasks : new.metrics[j].max_allocated <= high
    BY <1>8, <1>9, <1>13, <2>2 DEF Peaks
  <2>5. \A j \in Tasks : due[j] = due[j] - (st.metrics[j].throws - new.metrics[j].throws)
    <3>1. \A j \in Tasks : due[j] \in Int /\ st.metrics[j].throws \in Int /\ new.metrics[j].throws = st.metrics[j].throws
      BY <1>2, <1>8, <1>9, <1>13 DEF Metrics
    <3> QED BY <3>1
  <2>6. Good(new, due, high)
    <3>1. PeaksReset(st, new, high)
      BY <1>9, <2>3, <2>4 DEF PeaksReset
    <3>2. Forgiven(st, new, due, due)
      BY <2>5 DEF Forgiven
    <3> QED BY <1>1, <3>1, <3>2, PeaksReported
  <2>7. BooksInv'
    BY <1>10, <1>11, <2>1, <2>6, StepEnds DEF Become
  <2> QED BY <1>14, <2>7
<1> QED BY <1>12, <1>13

(* remove_task_metrics: what the task's own record held is owed no more.   *)
LEMMA ForgetKeeps ==
  ASSUME BooksInv, NEW k \in Tasks, remove_task_metrics(k)
  PROVE  BooksInv'
<1>1. PICK st \in Books, due \in [Tasks -> Int], high \in Nat :
        /\ st = Current /\ due = owed /\ high = highWater /\ Good(st, due, high)
        /\ st.worker = worker /\ st.listed = task_to_threads /\ st.metrics = task_to_metrics /\ st.spoiled = spoiled
        /\ clock \in Nat /\ gpu_memory_allocated_bytes \in Int
  BY WhatIsKnown
<1>2. /\ st.worker \in [Workers -> WorkerStates] /\ st.listed \in [Tasks -> SUBSET Workers]
      /\ st.metrics \in [Tasks -> Metrics] /\ st.spoiled \in SUBSET Tasks
      /\ \A t \in Workers : Proper(st.worker[t])
  BY BooksFields, <1>1 DEF Good
<1>3. PICK M \in [Tasks -> Metrics] : M = [st.metrics EXCEPT ![k] = Clear]
  BY <1>2, ClearIsMetrics
<1>4. task_to_metrics' = M /\ owed' = [due EXCEPT ![k] = @ - st.metrics[k].throws]
      /\ UNCHANGED <<worker, task_to_threads, gpu_memory_allocated_bytes, clock, highWater, spoiled>>
  BY <1>1, <1>3 DEF remove_task_metrics
<1>5. PICK new \in Books : new.worker = st.worker /\ new.listed = st.listed /\ new.metrics = M
                           /\ new.spoiled = st.spoiled
  <2>1. [worker |-> st.worker, listed |-> st.listed, metrics |-> M, spoiled |-> st.spoiled] \in Books
    BY <1>2 DEF Books
  <2> QED BY <2>1
<1>6. \A j \in Tasks : due[j] \in Int /\ st.metrics[j].throws \in Int
  BY <1>2 DEF Metrics
<1>7. PICK owes \in [Tasks -> Int] : owes = [due EXCEPT ![k] = @ - st.metrics[k].throws]
  <2>1. due[k] - st.metrics[k].throws \in Int
    BY <1>6
  <2> QED BY <2>1
<1>8. new.metrics[k] = Clear /\ \A j \in Tasks \ {k} : new.metrics[j] = st.metrics[j]
  BY <1>2, <1>3, <1>5
<1>9. \A j \in Tasks : owes[j] = due[j] - (st.metrics[j].throws - new.metrics[j].throws)
  <2>1. ASSUME NEW j \in Tasks PROVE owes[j] = due[j] - (st.metrics[j].throws - new.metrics[j].throws)
    <3>1. CASE j = k
      <4>1. new.metrics[j].throws = 0 /\ owes[j] = due[j] - st.metrics[j].throws
        BY <1>7, <1>8, <3>1, ClearIsMetrics
      <4> QED BY <1>6, <4>1
    <3>2. CASE j # k
      <4>1. new.metrics[j].throws = st.metrics[j].throws /\ owes[j] = due[j]
        BY <1>7, <1>8, <3>2
      <4> QED BY <1>6, <4>1
    <3> QED BY <3>1, <3>2
  <2> QED BY <2>1
<1>10. Peaks(st, high)
  BY <1>1 DEF Good
<1>11. \A j \in Tasks : new.metrics[j].max_allocated <= high
  <2>1. 0 <= high
    OBVIOUS
  <2> QED BY <1>8, <1>10, <2>1, ClearIsMetrics DEF Peaks
<1>12. \A t \in Workers : /\ Proper(new.worker[t])
                          /\ new.worker[t].state = st.worker[t].state /\ new.worker[t].task = st.worker[t].task
                          /\ new.worker[t].pool = st.worker[t].pool
                          /\ new.worker[t].metrics.max_allocated <= high
                          /\ new.worker[t].metrics.throws = st.worker[t].metrics.throws
  BY <1>2, <1>5, <1>10 DEF Peaks
<1>13. Good(new, owes, high)
  <2>1. PeaksReset(st, new, high)
    BY <1>5, <1>11, <1>12 DEF PeaksReset
  <2>2. Forgiven(st, new, due, owes)
    BY <1>9 DEF Forgiven
  <2> QED BY <1>1, <2>1, <2>2, PeaksReported
<1>14. owed' = owes /\ highWater' = high /\ highWater' \in Nat /\ clock' \in Nat /\ gpu_memory_allocated_bytes' \in Int
       /\ worker' = new.worker /\ task_to_threads' = new.listed /\ task_to_metrics' = new.metrics
       /\ spoiled' = new.spoiled
  BY <1>1, <1>4, <1>5, <1>7
<1> QED BY <1>13, <1>14, StepEnds

-----------------------------------------------------------------------------
(* The theorems. *)

(* Threads that have nothing add up to nothing.                            *)
LEMMA NothingAddsUp ==
  ASSUME NEW f \in [Workers -> Int], \A t \in Workers : f[t] = 0
  PROVE  SumFunction(f) = 0
<1> DEFINE none == Restrict(f, {})
<1>1. none \in [{} -> Int] /\ DOMAIN none = {}
  BY DEF Restrict
<1>2. {} \in SUBSET Workers /\ \A t \in Workers \ {} : f[t] = 0
  OBVIOUS
<1>3. SumFunction(f) = SumFunction(none)
  BY <1>2, WorkersAssumption, SumOfZeroes
<1> HIDE DEF none
<1>4. SumFunction(none) = 0
  BY <1>1, SumOfNothing DEF SumFunction
<1> QED BY <1>3, <1>4

(* The invariant holds before the first call.                              *)
LEMMA MetricsInitially == MetricsInit => MetricsInv
<1> SUFFICES ASSUME MetricsInit PROVE MetricsInv
  OBVIOUS
<1>1. /\ worker = [t \in Workers |-> Absent] /\ task_to_threads = [k \in Tasks |-> {}]
      /\ task_to_metrics = [k \in Tasks |-> Clear] /\ spoiled = {} /\ owed = [k \in Tasks |-> 0] /\ highWater = 0
  BY DEF MetricsInit
<1>2. Current \in Books
  <2>1. worker \in [Workers -> WorkerStates] /\ task_to_metrics \in [Tasks -> Metrics]
    BY <1>1, AbsentIsProper, ClearIsMetrics
  <2> QED BY <1>1, <2>1 DEF Books, Current
<1>3. Current.worker = worker /\ Current.listed = task_to_threads /\ Current.metrics = task_to_metrics
      /\ Current.spoiled = {}
  BY <1>1 DEF Current
<1>4. \A t \in Workers : Proper(Current.worker[t])
  BY <1>1, <1>3, AbsentIsProper
<1>5. Listing(Current)
  BY <1>1, <1>3, AbsentIsProper, NoTaskAssumption DEF Listing
<1>6. Peaks(Current, highWater)
  BY <1>1, <1>3, AbsentIsProper, ClearIsMetrics DEF Peaks
<1>7. ASSUME NEW k \in Tasks PROVE SumFunction(Shares(worker, k)) = 0
  <2>1. Shares(worker, k) \in [Workers -> Int] /\ \A t \in Workers : Shares(worker, k)[t] = 0
    BY <1>1, AbsentIsProper, ClearIsMetrics DEF Shares, Share
  <2> QED BY <2>1, NothingAddsUp
<1>8. Balanced(Current, owed)
  <2>1. \A k \in Tasks : owed[k] = 0 /\ task_to_metrics[k].throws = 0
    BY <1>1, ClearIsMetrics
  <2> QED BY <1>3, <1>7, <2>1 DEF Balanced
<1>9. owed \in [Tasks -> Int] /\ highWater \in Nat
  BY <1>1
<1>10. clock \in Nat /\ gpu_memory_allocated_bytes \in Int /\ watched \in DOMAIN Clear
  BY DEF MetricsInit
<1>11. Good(Current, owed, highWater)
  BY <1>2, <1>4, <1>5, <1>6, <1>8 DEF Good
<1> QED BY <1>9, <1>10, <1>11 DEF MetricsInv, BooksInv

(* Every call but remove_task_metrics keeps it, and no time lost is lost.  *)
LEMMA CallsKeep ==
  ASSUME MetricsInv, Work \/ Change \/ Report \/ UNCHANGED metricsVars
  PROVE  MetricsInv' /\ TimeKept
<1>1. BooksInv /\ watched \in DOMAIN Clear
  BY DEF MetricsInv
<1>2. clock \in Nat /\ gpu_memory_allocated_bytes \in Int
  BY <1>1, WhatIsKnown
<1>3. CASE Work
  <2>1. watched' = watched
    BY <1>3 DEF Work
  <2>2. CASE Tick
    <3>1. UNCHANGED <<worker, task_to_threads, task_to_metrics, owed, highWater, spoiled>>
          /\ clock' \in Nat /\ clock <= clock' /\ gpu_memory_allocated_bytes' \in Int
      BY <1>2, <2>2 DEF Tick
    <3> QED BY <1>1, <2>1, <3>1, UntouchedKeeps DEF MetricsInv
  <2>3. ASSUME NEW t \in Workers, before_block(t) PROVE MetricsInv' /\ TimeKept
    BY <1>1, <2>1, <2>3, BlockKeeps DEF MetricsInv
  <2>4. ASSUME NEW t \in Workers, wake(t) PROVE MetricsInv' /\ TimeKept
    BY <1>1, <2>1, <2>4, WakeKeeps DEF MetricsInv
  <2>5. ASSUME NEW t \in Workers, after_block(t) PROVE MetricsInv' /\ TimeKept
    BY <1>1, <2>1, <2>5, UnblockKeeps DEF MetricsInv
  <2>6. ASSUME NEW t \in Workers, NEW begin \in BOOLEAN, reset_retry_state(t, begin) PROVE MetricsInv' /\ TimeKept
    BY <1>1, <2>1, <2>6, ResetKeeps DEF MetricsInv
  <2>7. ASSUME NEW t \in Workers, post_alloc_success(t) PROVE MetricsInv' /\ TimeKept
    BY <1>1, <2>1, <2>7, AllocKeeps DEF MetricsInv
  <2>8. ASSUME NEW t \in Workers, dealloc_core(t) PROVE MetricsInv' /\ TimeKept
    <3>1. UNCHANGED <<worker, task_to_threads, task_to_metrics, owed, highWater, spoiled>>
          /\ clock' \in Nat /\ clock <= clock' /\ gpu_memory_allocated_bytes' \in Int
      BY <1>2, <2>8 DEF dealloc_core
    <3> QED BY <1>1, <2>1, <3>1, UntouchedKeeps DEF MetricsInv
  <2>9. ASSUME NEW t \in Workers, throw_retry_oom(t) PROVE MetricsInv' /\ TimeKept
    BY <1>1, <2>1, <2>9, ThrowKeeps DEF MetricsInv
  <2> QED BY <1>3, <2>2, <2>3, <2>4, <2>5, <2>6, <2>7, <2>8, <2>9 DEF Work
<1>4. CASE Change
  <2>1. watched' = watched
    BY <1>4 DEF Change
  <2>2. ASSUME NEW t \in Workers, NEW k \in Tasks, start_dedicated_task_thread(t, k) PROVE MetricsInv' /\ TimeKept
    BY <1>1, <2>1, <2>2, StartKeeps DEF MetricsInv
  <2>3. ASSUME NEW t \in Workers, NEW k \in Tasks \cup {NoTask}, remove_thread_association(t, k) PROVE MetricsInv' /\ TimeKept
    BY <1>1, <2>1, <2>3, RemovalKeeps DEF MetricsInv
  <2>4. ASSUME NEW t \in Workers, NEW ks \in SUBSET Tasks, pool_thread_working_on_tasks(t, ks) PROVE MetricsInv' /\ TimeKept
    BY <1>1, <2>1, <2>4, PoolKeeps DEF MetricsInv
  <2>5. ASSUME NEW t \in Workers, NEW ks \in SUBSET Tasks, pool_thread_finished_for_tasks(t, ks) PROVE MetricsInv' /\ TimeKept
    BY <1>1, <2>1, <2>5, FinishedKeeps DEF MetricsInv
  <2>6. ASSUME NEW k \in Tasks, task_done(k) PROVE MetricsInv' /\ TimeKept
    BY <1>1, <2>1, <2>6, DoneKeeps DEF MetricsInv
  <2> QED BY <1>4, <2>2, <2>3, <2>4, <2>5, <2>6 DEF Change
<1>5. CASE Report
  <2>1. watched' = watched
    BY <1>5 DEF Report
  <2>2. PICK k \in Tasks, f \in {watched} \ {"total"} : get_and_reset_metric(k, f)
    BY <1>5 DEF Report
  <2>3. DOMAIN Clear = {"throws", "total", "max_allocated"}
    BY DEF Clear
  <2>4. f \in {"throws", "max_allocated"}
    BY <1>1, <2>2, <2>3
  <2> QED BY <1>1, <2>1, <2>2, <2>4, ReportKeeps DEF MetricsInv
<1>6. CASE UNCHANGED metricsVars
  <2>1. UNCHANGED <<worker, task_to_threads, task_to_metrics, owed, highWater, spoiled>>
        /\ clock' \in Nat /\ clock <= clock' /\ gpu_memory_allocated_bytes' \in Int /\ watched' = watched
    BY <1>2, <1>6 DEF metricsVars
  <2> QED BY <1>1, <2>1, UntouchedKeeps DEF MetricsInv
<1> QED BY <1>3, <1>4, <1>5, <1>6

(* Every step keeps it.                                                    *)
LEMMA MetricsStep == MetricsInv /\ [MetricsNext]_metricsVars => MetricsInv'
<1> SUFFICES ASSUME MetricsInv, [MetricsNext]_metricsVars PROVE MetricsInv'
  OBVIOUS
<1>1. CASE Work \/ Change \/ Report \/ UNCHANGED metricsVars
  BY <1>1, CallsKeep
<1>2. CASE \E k \in Tasks : remove_task_metrics(k) /\ UNCHANGED <<watched, changes>>
  BY <1>2, ForgetKeeps DEF MetricsInv
<1> QED BY <1>1, <1>2 DEF MetricsNext

(* The books of SparkResourceAdaptorJni.cpp balance after every call: what *)
(* every task is owed is with its threads or in its own record.            *)
THEOREM MetricsInvariant == MetricsSpec => []MetricsInv
BY MetricsInitially, MetricsStep, PTL DEF MetricsSpec

(* What get_total_blocked_or_lost returns is a number.                     *)
LEMMA TotalType ==
  ASSUME NEW st \in Books, NEW k \in Tasks, NEW now \in Int
  PROVE  /\ Reported(st, k) \in SUBSET Workers
         /\ [t \in Reported(st, k) |-> Counted(st.worker[t], now)] \in [Reported(st, k) -> Int]
         /\ Total(st, k, now) \in Int
<1>1. /\ st.worker \in [Workers -> WorkerStates] /\ st.listed \in [Tasks -> SUBSET Workers]
      /\ st.metrics \in [Tasks -> Metrics]
  BY BooksFields
<1> DEFINE L == Reported(st, k)
           f == [t \in L |-> Counted(st.worker[t], now)]
<1>2. L \in SUBSET Workers
  BY <1>1 DEF Reported
<1> HIDE DEF L
<1>3. ASSUME NEW t \in L PROVE Counted(st.worker[t], now) \in Int
  <2>1. PICK a \in Int, b \in Int : a = st.worker[t].since /\ b = st.worker[t].metrics.total
    BY <1>1, <1>2 DEF WorkerStates, Metrics
  <2>2. (IF st.worker[t].state = "blocked" THEN now - a ELSE 0) \in Int
    OBVIOUS
  <2> QED BY <2>1, <2>2 DEF Counted
<1>4. f \in [L -> Int] /\ DOMAIN f = L
  BY <1>3
<1> HIDE DEF f
<1>5. IsFiniteSet(L)
  BY <1>2, WorkersAssumption, FS_Subset
<1>6. SumFunction(f) \in Int
  BY <1>4, <1>5, SumIsInt DEF SumFunction
<1>7. st.metrics[k].total \in Int
  BY <1>1 DEF Metrics
<1>8. SumFunction(f) + st.metrics[k].total \in Int
  BY <1>6, <1>7
<1> QED BY <1>2, <1>4, <1>8 DEF Total, L, f

(* A report counts no more than was lost, and all of it unless a thread    *)
(* has been woken and has not run yet.                                     *)
LEMMA TotalBounds ==
  ASSUME NEW due, NEW high, NEW st \in Books, Good(st, due, high), NEW now \in Int,
         \A t \in Workers : Timely(st.worker[t], now), NEW k \in Tasks \ st.spoiled
  PROVE  /\ Total(st, k, now) <= SumFunction(Losses(st.worker, k, now)) + st.metrics[k].total
         /\ (\A t \in Reported(st, k) : ~Woken(st.worker[t]))
              => Total(st, k, now) = SumFunction(Losses(st.worker, k, now)) + st.metrics[k].total
<1>1. /\ st.worker \in [Workers -> WorkerStates] /\ st.listed \in [Tasks -> SUBSET Workers]
      /\ st.metrics \in [Tasks -> Metrics]
  BY BooksFields
<1>2. Listing(st) /\ \A t \in Workers : Proper(st.worker[t])
  BY DEF Good
<1> DEFINE L == Reported(st, k)
           c == [t \in L |-> Counted(st.worker[t], now)]
           f == Losses(st.worker, k, now)
           r == Restrict(f, L)
<1>3. L \in SUBSET Workers /\ c \in [L -> Int]
  BY TotalType
<1>4. ASSUME NEW t \in L PROVE st.worker[t].task = k
  BY <1>2, <1>3 DEF Listing, Reported
<1>5. ASSUME NEW t \in Workers, st.worker[t].task = k PROVE t \in L
  <2>1. t \in st.listed[k]
    BY <1>2, <1>5 DEF Listing
  <2>2. st.worker[t].state # "unknown"
    BY <1>2, <1>5, AbsentIsProper, NoTaskAssumption DEF Proper
  <2> QED BY <2>1, <2>2 DEF Reported
<1>6. f \in [Workers -> Int]
  BY <1>1, LossType DEF Losses
<1>7. \A t \in Workers \ L : f[t] = 0
  BY <1>5 DEF Losses, Loss
<1>8. \A t \in L : f[t] = Held(st.worker[t], now)
  BY <1>3, <1>4 DEF Losses, Loss
<1>9. ASSUME NEW t \in L
      PROVE  Counted(st.worker[t], now) <= Held(st.worker[t], now)
             /\ (~Woken(st.worker[t]) => Counted(st.worker[t], now) = Held(st.worker[t], now))
  <2>1. PICK a \in Int, b \in Int : a = st.worker[t].since /\ b = st.worker[t].metrics.total
    BY <1>1, <1>3 DEF WorkerStates, Metrics
  <2>2. a <= now
    BY <1>3, <2>1 DEF Timely
  <2>3. st.worker[t].waiting \in BOOLEAN /\ (st.worker[t].state = "blocked" => st.worker[t].waiting)
    BY <1>1, <1>2, <1>3 DEF WorkerStates, Proper
  <2>4. now - a + b <= now - a + b /\ 0 + b <= 0 + b /\ 0 + b <= now - a + b
    BY <2>2
  <2>5. CASE st.worker[t].state = "blocked"
    BY <2>1, <2>3, <2>4, <2>5 DEF Counted, Held
  <2>6. CASE st.worker[t].state # "blocked" /\ st.worker[t].waiting
    BY <2>1, <2>4, <2>6 DEF Counted, Held, Woken
  <2>7. CASE st.worker[t].state # "blocked" /\ ~st.worker[t].waiting
    BY <2>1, <2>4, <2>7 DEF Counted, Held
  <2> QED BY <2>3, <2>5, <2>6, <2>7
<1>10. r \in [L -> Int] /\ \A t \in L : r[t] = Held(st.worker[t], now)
  BY <1>3, <1>6, <1>8 DEF Restrict
<1>11. \A t \in L : c[t] <= r[t]
  BY <1>9, <1>10
<1>12. (\A t \in L : ~Woken(st.worker[t])) => c = r
  BY <1>3, <1>9, <1>10
<1> HIDE DEF f, L
<1>13. SumFunction(f) = SumFunction(r)
  BY <1>3, <1>6, <1>7, WorkersAssumption, SumOfZeroes
<1> HIDE DEF c, r
<1>14. IsFiniteSet(L)
  BY <1>3, WorkersAssumption, FS_Subset
<1>15. SumFunction(c) <= SumFunction(r) /\ SumFunction(c) \in Int /\ SumFunction(r) \in Int
  BY <1>3, <1>10, <1>11, <1>14, SumMonotone
<1>16. PICK x \in Int, y \in Int, m \in Int : x = SumFunction(c) /\ y = SumFunction(r) /\ m = st.metrics[k].total
  BY <1>1, <1>15 DEF Metrics
<1>17. x + m <= y + m
  BY <1>15, <1>16
<1>18. Total(st, k, now) = x + m
  BY <1>16 DEF Total, c, L
<1>19. (\A t \in L : ~Woken(st.worker[t])) => x = y
  BY <1>12, <1>16
<1> QED BY <1>13, <1>16, <1>17, <1>18, <1>19 DEF f, L

(* Reporting the time lost raises no mark above what was lost.             *)
LEMMA MarksRaised ==
  ASSUME NEW due, NEW high, NEW st \in Books, Good(st, due, high), NEW now \in Int,
         \A t \in Workers : Timely(st.worker[t], now), NEW marks,
         \A k \in Tasks \ st.spoiled :
            \/ marks[k] = Total(st, k, now)
            \/ marks[k] <= SumFunction(Losses(st.worker, k, now)) + st.metrics[k].total
  PROVE  Accrued(st, now, marks)
BY TotalBounds DEF Accrued

(* The model's report is the one of these books.                           *)
LEMMA TotalIs ==
  ASSUME NEW k
  PROVE  /\ get_total_blocked_or_lost(k) = Total(Current, k, clock)
         /\ Listed(k) = Reported(Current, k)
<1>1. Current.worker = worker /\ Current.listed = task_to_threads /\ Current.metrics = task_to_metrics
  BY DEF Current
<1>2. Listed(k) = Reported(Current, k)
  BY <1>1 DEF Listed, Registered, Reported
<1>3. \A t : currently_blocked_for(t) + worker[t].metrics.total = Counted(Current.worker[t], clock)
  BY <1>1 DEF currently_blocked_for, Counted
<1>4. [t \in Listed(k) |-> currently_blocked_for(t) + worker[t].metrics.total]
        = [t \in Reported(Current, k) |-> Counted(Current.worker[t], clock)]
  BY <1>2, <1>3
<1> QED BY <1>1, <1>2, <1>4 DEF get_total_blocked_or_lost, Total

(* So it is after a step.                                                  *)
LEMMA TotalAfter ==
  ASSUME NEW k
  PROVE  get_total_blocked_or_lost(k)' = Total(Current', k, clock')
<1>1. Current'.worker = worker' /\ Current'.listed = task_to_threads' /\ Current'.metrics = task_to_metrics'
  BY DEF Current
<1>2. Listed(k)' = Reported(Current', k)
  BY <1>1 DEF Listed, Registered, Reported
<1>3. \A t : (currently_blocked_for(t) + worker[t].metrics.total)' = Counted(Current'.worker[t], clock')
  BY <1>1 DEF currently_blocked_for, Counted
<1>4. [t \in Listed(k) |-> currently_blocked_for(t) + worker[t].metrics.total]'
        = [t \in Reported(Current', k) |-> Counted(Current'.worker[t], clock')]
  BY <1>2, <1>3
<1> QED BY <1>1, <1>2, <1>4 DEF get_total_blocked_or_lost, Total

(* No time is lost before the first call.                                  *)
LEMMA TimesInitially == MetricsInit => TimesInv
<1> SUFFICES ASSUME MetricsInit PROVE TimesInv
  OBVIOUS
<1>1. /\ Current.worker = [t \in Workers |-> Absent] /\ Current.metrics = [k \in Tasks |-> Clear]
      /\ clock = 0 /\ highest = [k \in Tasks |-> 0]
  BY DEF MetricsInit, Current
<1>2. \A t \in Workers : Timely(Current.worker[t], clock)
  BY <1>1, AbsentTimes
<1>3. ASSUME NEW k \in Tasks PROVE highest[k] <= SumFunction(Losses(Current.worker, k, clock)) + Current.metrics[k].total
  <2>1. Losses(Current.worker, k, clock) \in [Workers -> Int]
        /\ \A t \in Workers : Losses(Current.worker, k, clock)[t] = 0
    BY <1>1, AbsentTimes DEF Losses
  <2>2. SumFunction(Losses(Current.worker, k, clock)) = 0
    BY <2>1, NothingAddsUp
  <2>3. Current.metrics[k].total = 0 /\ highest[k] = 0
    BY <1>1, ClearIsMetrics
  <2> QED BY <2>2, <2>3
<1> QED BY <1>1, <1>2, <1>3 DEF TimesInv, Accrued

(* remove_task_metrics: the marks of the task start again.                 *)
LEMMA ForgetTimes ==
  ASSUME MetricsInv, MetricsInv', TimesInv, NEW k \in Tasks, remove_task_metrics(k),
         highest' = [highest EXCEPT ![k] = get_total_blocked_or_lost(k)']
  PROVE  TimesInv'
<1>1. PICK st \in Books, marks \in [Tasks -> Int], now \in Nat :
        st = Current /\ marks = highest /\ now = clock /\ Accrued(st, now, marks)
        /\ st.worker = worker /\ st.metrics = task_to_metrics /\ st.spoiled = spoiled
  BY WhatIsKnown DEF TimesInv, MetricsInv
<1>2. Good(Current, owed, highWater)' /\ clock' = now
  BY <1>1 DEF MetricsInv, BooksInv, remove_task_metrics
<1>3. PICK new, due, high : new = Current' /\ due = owed' /\ high = highWater'
  OBVIOUS
<1>4. Good(new, due, high) /\ new \in Books
  BY <1>2, <1>3 DEF Good
<1>5. new.worker = st.worker /\ new.spoiled = st.spoiled /\ new.metrics = [st.metrics EXCEPT ![k] = Clear]
  BY <1>1, <1>3 DEF Current, remove_task_metrics
<1>6. get_total_blocked_or_lost(k)' = Total(new, k, now)
  BY <1>2, <1>3, TotalAfter
<1>7. PICK total \in Int : total = Total(new, k, now)
  BY <1>4, TotalType
<1>8. PICK more \in [Tasks -> Int] : more = [marks EXCEPT ![k] = total] /\ more = highest'
  BY <1>1, <1>6, <1>7
<1>9. \A t \in Workers : Timely(new.worker[t], now)
  BY <1>1, <1>5 DEF Accrued
<1>10. ASSUME NEW j \in Tasks \ new.spoiled
       PROVE  \/ more[j] = Total(new, j, now)
              \/ more[j] <= SumFunction(Losses(new.worker, j, now)) + new.metrics[j].total
  <2>1. CASE j = k
    BY <1>7, <1>8, <2>1
  <2>2. CASE j # k
    <3>1. more[j] = marks[j] /\ new.metrics[j] = st.metrics[j]
      BY <1>5, <1>8, <2>2, BooksFields
    <3> QED BY <1>1, <1>5, <3>1 DEF Accrued
  <2> QED BY <2>1, <2>2
<1>11. Accrued(new, now, more)
  BY <1>4, <1>9, <1>10, MarksRaised
<1> QED BY <1>2, <1>3, <1>8, <1>11 DEF TimesInv

(* Every step keeps the time lost above the marks.                         *)
LEMMA TimesStep == MetricsInv /\ MetricsInv' /\ TimesInv /\ [MetricsNext]_metricsVars => TimesInv'
<1> SUFFICES ASSUME MetricsInv, MetricsInv', TimesInv, [MetricsNext]_metricsVars PROVE TimesInv'
  OBVIOUS
<1>1. PICK new, due, high : new = Current' /\ due = owed' /\ high = highWater'
  OBVIOUS
<1>2. Good(new, due, high) /\ new \in Books
  BY <1>1 DEF Good, MetricsInv, BooksInv
<1>3. PICK later \in Nat : later = clock'
  BY DEF MetricsInv, BooksInv
<1>4. PICK marks \in [Tasks -> Int] : marks = highest
  BY DEF TimesInv
<1>5. CASE (Work \/ Change \/ Report) /\ Recorded
  <2>1. Accrued(new, later, marks)
    <3>1. TimeKept
      BY <1>5, CallsKeep
    <3> QED BY <1>1, <1>3, <1>4, <3>1 DEF TimeKept, TimesInv
  <2>2. \A k \in Tasks : get_total_blocked_or_lost(k)' = Total(new, k, later)
    BY <1>1, <1>3, TotalAfter
  <2>3. highest' = [k \in Tasks |-> Larger(marks[k], Total(new, k, later))]
    BY <1>4, <1>5, <2>2 DEF Recorded
  <2>4. \A k \in Tasks : Total(new, k, later) \in Int
    BY <1>2, TotalType
  <2>5. PICK more \in [Tasks -> Int] : more = highest' /\ \A k \in Tasks : more[k] = marks[k] \/ more[k] = Total(new, k, later)
    BY <2>3, <2>4 DEF Larger
  <2>6. Accrued(new, later, more)
    BY <1>2, <2>1, <2>5, MarksRaised DEF Accrued
  <2> QED BY <1>1, <1>3, <2>5, <2>6 DEF TimesInv
<1>6. CASE UNCHANGED metricsVars
  <2>1. TimeKept
    BY <1>6, CallsKeep
  <2>2. highest' = marks
    BY <1>4, <1>6 DEF metricsVars
  <2> QED BY <1>4, <2>1, <2>2 DEF TimeKept, TimesInv
<1>7. CASE \E k \in Tasks : remove_task_metrics(k) /\ highest' = [highest EXCEPT ![k] = get_total_blocked_or_lost(k)']
  BY <1>7, ForgetTimes
<1> QED BY <1>5, <1>6, <1>7 DEF MetricsNext

(* The time a task lost, as get_total_blocked_or_lost reports it, never    *)
(* shrinks between two reports, whatever the thread that lost it did in    *)
(* between and however it was saved, unless a thread of the task has been  *)
(* woken by another and has not run yet.                                   *)
THEOREM TimeIsKept == MetricsSpec => []TimeLostNeverShrinks
<1>1. MetricsInv /\ TimesInv => TimeLostNeverShrinks
  <2> SUFFICES ASSUME MetricsInv, TimesInv, NEW k \in Tasks \ spoiled,
                      ~\E t \in Listed(k) : worker[t].waiting /\ worker[t].state # "blocked"
               PROVE  get_total_blocked_or_lost(k) >= highest[k]
    BY DEF TimeLostNeverShrinks
  <2>1. PICK st \in Books, due \in [Tasks -> Int], high \in Nat, now \in Nat :
          /\ st = Current /\ due = owed /\ high = highWater /\ now = clock /\ Good(st, due, high)
          /\ st.worker = worker /\ st.spoiled = spoiled
    BY WhatIsKnown DEF MetricsInv
  <2>2. Accrued(st, now, highest) /\ highest \in [Tasks -> Int]
    BY <2>1 DEF TimesInv
  <2>3. get_total_blocked_or_lost(k) = Total(st, k, now) /\ Listed(k) = Reported(st, k)
    BY <2>1, TotalIs
  <2>4. \A t \in Reported(st, k) : ~Woken(st.worker[t])
    BY <2>1, <2>3 DEF Woken
  <2>5. \A t \in Workers : Timely(st.worker[t], now)
    BY <2>2 DEF Accrued
  <2>6. Total(st, k, now) = SumFunction(Losses(st.worker, k, now)) + st.metrics[k].total
    BY <2>1, <2>4, <2>5, TotalBounds
  <2>7. highest[k] <= Total(st, k, now)
    BY <2>1, <2>2, <2>6 DEF Accrued
  <2>8. Total(st, k, now) \in Int /\ highest[k] \in Int
    BY <2>1, <2>2, TotalType
  <2> QED BY <2>3, <2>7, <2>8
<1>2. TimesInv /\ MetricsInv /\ MetricsInv' /\ [MetricsNext]_metricsVars => TimesInv'
  BY TimesStep
<1> QED BY <1>1, <1>2, TimesInitially, MetricsInvariant, PTL DEF MetricsSpec

(* Every exception thrown for a task is in its reports or with a pool      *)
(* thread not yet saved, exactly once, whatever checkpoint_metrics,        *)
(* remove_thread_association and task_done moved in between, for any       *)
(* number of threads and tasks.                                            *)
THEOREM NothingThrownIsLost == MetricsSpec => []ThrowsReachTheirTask
<1>1. MetricsInv => ThrowsReachTheirTask
  <2> SUFFICES ASSUME MetricsInv, NEW k \in Tasks \ spoiled
               PROVE  owed[k] = get_metric(k, "throws")
                        + SumFunction([t \in {u \in Workers : k \in worker[u].pool} |-> worker[t].metrics.throws])
    BY DEF ThrowsReachTheirTask
  <2>1. BooksInv
    BY DEF MetricsInv
  <2>2. PICK st \in Books, due \in [Tasks -> Int], high \in Nat :
          /\ st = Current /\ due = owed /\ Good(st, due, high)
          /\ st.worker = worker /\ st.listed = task_to_threads /\ st.metrics = task_to_metrics /\ st.spoiled = spoiled
          /\ worker \in [Workers -> WorkerStates] /\ task_to_threads \in [Tasks -> SUBSET Workers]
          /\ task_to_metrics \in [Tasks -> Metrics] /\ \A t \in Workers : Proper(worker[t])
    BY <2>1, WhatIsKnown
  <2> DEFINE f == Shares(worker, k)
             L == Listed(k)
             P == {u \in Workers : k \in worker[u].pool}
             inL == [t \in L |-> worker[t].metrics.throws]
             inP == [t \in P |-> worker[t].metrics.throws]
             own == task_to_metrics[k].throws
  <2>3. Listing(st) /\ Balanced(st, due)
    BY <2>2 DEF Good
  <2>4. owed[k] = SumFunction(f) + own
    BY <2>2, <2>3 DEF Balanced
  <2>5. f \in [Workers -> Int]
    BY <2>2 DEF Shares, Share, WorkerStates, Metrics
  <2>6. L \in SUBSET Workers /\ P \in SUBSET Workers
    BY <2>2 DEF Listed
  <2>7. \A t \in L : worker[t].task = k /\ worker[t].pool = {} /\ k \in WorksFor(worker[t])
    BY <2>2, <2>3, NoTaskAssumption DEF Listing, Listed, Proper, WorksFor
  <2>8. \A t \in P : k \in WorksFor(worker[t])
    BY <2>2, <2>6 DEF Proper, WorksFor
  <2>9. L \cap P = {}
    BY <2>7
  <2>10. \A t \in Workers : k \in WorksFor(worker[t]) => t \in L \cup P
    <3> SUFFICES ASSUME NEW t \in Workers, k \in WorksFor(worker[t]) PROVE t \in L \cup P
      OBVIOUS
    <3>1. CASE worker[t].task = NoTask
      BY <3>1 DEF WorksFor
    <3>2. CASE worker[t].task # NoTask
      <4>1. worker[t].task = k
        BY <3>2 DEF WorksFor
      <4>2. t \in task_to_threads[k]
        BY <2>2, <2>3, <4>1 DEF Listing
      <4>3. Registered(t)
        BY <2>2, <3>2, AbsentIsProper DEF Registered, Proper
      <4> QED BY <4>2, <4>3 DEF Listed
    <3> QED BY <3>1, <3>2
  <2>11. Restrict(f, L) = inL /\ Restrict(f, P) = inP
    BY <2>6, <2>7, <2>8 DEF Restrict, Shares, Share
  <2>12. \A t \in Workers \ (L \cup P) : f[t] = 0
    BY <2>10 DEF Shares, Share
  <2>13. get_metric(k, "throws") = SumFunction(inL) + own
    BY DEF get_metric
  <2> HIDE DEF f, L, P, inL, inP
  <2>14. PICK ff \in [Workers -> Int], LL \in SUBSET Workers, PP \in SUBSET Workers : ff = f /\ LL = L /\ PP = P
    BY <2>5, <2>6
  <2>15. SumFunction(Restrict(ff, LL \cup PP)) = SumFunction(Restrict(ff, LL)) + SumFunction(Restrict(ff, PP))
    <3>1. LL \cap PP = {}
      BY <2>9, <2>14
    <3> QED BY <3>1, WorkersAssumption, SumOfUnion
  <2>16. SumFunction(ff) = SumFunction(Restrict(ff, LL \cup PP))
    <3>1. \A t \in Workers \ (LL \cup PP) : ff[t] = 0
      BY <2>12, <2>14
    <3> QED BY <3>1, WorkersAssumption, SumOfZeroes
  <2>17. SumFunction(f) = SumFunction(inL) + SumFunction(inP)
    BY <2>11, <2>14, <2>15, <2>16
  <2>18. SumFunction(inL) \in Int /\ SumFunction(inP) \in Int
    <3>1. /\ IsFiniteSet(LL) /\ Restrict(ff, LL) \in [LL -> Int] /\ DOMAIN Restrict(ff, LL) = LL
          /\ IsFiniteSet(PP) /\ Restrict(ff, PP) \in [PP -> Int] /\ DOMAIN Restrict(ff, PP) = PP
      BY WorkersAssumption, FS_Subset DEF Restrict
    <3>2. SumFunction(Restrict(ff, LL)) \in Int /\ SumFunction(Restrict(ff, PP)) \in Int
      BY <3>1, SumIsInt DEF SumFunction
    <3> QED BY <2>11, <2>14, <3>2
  <2>19. PICK a \in Int, b \in Int, c \in Int : a = SumFunction(inL) /\ b = SumFunction(inP) /\ c = own
    BY <2>2, <2>18 DEF Metrics
  <2> HIDE DEF own
  <2>20. owed[k] = get_metric(k, "throws") + SumFunction(inP)
    BY <2>4, <2>13, <2>17, <2>19
  <2> QED BY <2>20 DEF inP, P
<1> QED BY <1>1, MetricsInvariant, PTL

(* No thread and no task ever has more memory on record than was allocated *)
(* at one time: add takes the larger of two peaks and every peak was set   *)
(* by post_alloc_success when it was reached.                              *)
THEOREM PeaksAreReal == MetricsSpec => []PeaksWereReached
<1>1. MetricsInv => PeaksWereReached
  <2> SUFFICES ASSUME BooksInv PROVE PeaksWereReached
    BY DEF MetricsInv
  <2>1. Good(Current, owed, highWater) /\ Current.worker = worker /\ Current.metrics = task_to_metrics
    BY WhatIsKnown
  <2> QED BY <2>1 DEF Good, Peaks, PeaksWereReached
<1> QED BY <1>1, MetricsInvariant, PTL
=============================================================================
