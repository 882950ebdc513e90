# A TLA+ development for spark-rapids-jni

This directory holds TLA+ modules, TLC configurations and TLAPS proofs about
the native code and the Java front end of spark-rapids-jni.  The first and
hardest part is the resource adaptor: the object that pauses, rolls back and
splits the work of Spark task threads when GPU or host memory runs out.  It is
a few thousand lines of lock-protected state machine whose bugs show up as
hung executors.  Around it stand the other parts of the library that keep state,
run concurrently or do arithmetic close to a boundary: task metrics, the Kudo
shuffle format on the host and on the GPU, the profiler and its converter, fault
injection, the GPU monitor, row conversion, JSON paths, decimals, time zones and
calendars, casts of strings to numbers, and the pruning of Parquet footers.

`PROJECT.json` lists the components, the runs, the mutated definitions each
property is shown to notice, the source lines every definition stands for, the
disagreements between code and documentation, the hazards and the theorems.
Paths below are relative to `src/src/main/` unless they start with `docs/`.

## The system

| Component | State | Operations | What makes it correct |
|---|---|---|---|
| Resource adaptor, `cpp/src/SparkResourceAdaptorJni.cpp` | `threads` (one `full_thread_state` per native thread), `task_to_threads`, the condition variables, `shutting_down` | register and unregister threads, `pre_alloc`/`post_alloc_*`/`dealloc` around every allocation, `block_thread_until_ready`, `check_and_break_deadlocks`, `all_done`, injected exceptions | no wake-up is lost; threads move along the documented diagram; a deadlock is always found and broken; nobody is left asleep at shutdown |
| Task priorities, `cpp/src/TaskPriorityJni.cpp` | table from task attempt to number, a decreasing counter | `get_task_priority`, `task_done` | numbers are distinct and first come, first ranked |
| Java front end, `RmmSpark.java`, `SparkResourceAdaptor.java` | the current adaptor behind a read/write lock, the watchdog thread | forwards every call, polls for deadlocks, closes the adaptor | registration order, no call into a deleted adaptor |
| `ThreadStateRegistry.java` | native id to Java thread | `addThread`, `removeThread`, `blockedThreadIds` | the watchdog sees every registered thread |
| Task metrics, same file as the adaptor | per thread and per task counters | checkpoint, report, report and reset | what a thread counts reaches its tasks once |
| Kudo on the host, `java/.../kudo` | none beyond one call | slice, write, read, merge | merge of slices is the concatenation |
| Kudo on the GPU, `cpp/src/shuffle_*.cu` | none beyond one call | split, assemble by concurrent batches | the same, in the same format |
| Profiler, `cpp/profiler` | buffer pool, queue to the writer thread, the file | init, start, stop, shutdown, CUPTI's callbacks | every accepted record is written once; a shutdown returns |
| Profile converter, `cpp/profiler` | open ranges | to nvtxt, JSON, nvtxw | every complete activity is drawn once |
| CUDA fault injection, `cpp/faultinj` | configuration, counters, reload thread | intercept, reload, exit | about the configured number of faults; the process can exit |
| NVML monitor, `java/.../nvml` | flag, loop thread, per GPU statistics | initialize, start, stop, poll | one loop at a time, but for loops whose join timed out; samples go to their GPU |
| Row conversion, `cpp/src/row_conversion.cu` | none beyond one call | columns to rows and back, tile by tile | round trip, batches within their limit, no two blocks write one byte differently; the tiles and batches for which the code falls short of this are named |
| JSON, `cpp/src/get_json_object.cu`, `json_parser.cuh` | one buffer per path that all rows write to | parse, evaluate, launch again with larger slots | agrees with a recursive reference; no write behind the buffer |
| Decimals, `cpp/src/decimal_utils.cu` | none | add, subtract, multiply, divide, integer divide, remainder | exact result rounded once, or overflow |
| Time zones, `cpp/src/timezones.cu`, `datetime_utils.cuh` | none | conversions from and to UTC, cast, ORC | java.time's rules |
| Time zone database, `GpuTimeZoneDB.java` | four static fields set by a loading thread | load, read, shut down | all four or none, but after an `Error`; only a shutdown breaks a call |
| Dates, `cpp/src/datetime_rebase.cu`, `datetime_truncate.cu`, `iceberg/` | none | Julian to Gregorian and back, truncation, units since 1970 | the two calendars |
| Casts, `cpp/src/cast_string.cu`, `number_converter.cu` | none | strings to integers and decimals, numbers to another base | the number the string denotes, or null |
| Parquet footer, `cpp/src/NativeParquetJni.cpp`, `ParquetFooter.java` | the parsed footer behind a handle | prune columns, choose a split's row groups | the schema is the asked-for part of the tree; each group goes to one split |
| Other column functions (floats, hashes, sketches, URIs, ...) | none | pure functions | not modelled |

How the parts meet.  A Spark task thread registers through `RmmSpark`, which
adds it to `ThreadStateRegistry` before it calls the adaptor.  Every GPU
allocation of cuDF goes through the adaptor's `do_allocate`, every large host
allocation through `cpu_prealloc` and `post_cpu_alloc_*`: the adaptor may put
the thread to sleep, throw a retry or a split exception through it, or let the
wrapped resource work on the allocation.  That resource may call back into Java
to spill, and the spill may allocate and free on the same thread.  Frees, ends
of tasks, removals and the watchdog, all on other threads, move sleeping
threads on and notify them.  The adaptor asks the priority service which of
several threads comes first.  All of it is serialised by one mutex, which is
given up only inside `wake_condition->wait` and while the wrapped resource
works.  Tasks exchange tables in the Kudo format: written by the host
serializer or the GPU split, read from a stream, merged on the host or
assembled on the GPU, in every combination.  The column functions share nothing
but the device; profiler, fault injector and monitor each have a background
thread of their own.

What is hard about it: a thread's record is changed by other threads while the
thread sleeps or is in the wrapped resource; a thread that was notified does not
run before it gets the mutex again and its record may have changed or be gone by
then; the deadlock check must recognise every mixture of dedicated, pool and
shuffle threads that are BLOCKED, BUFN or blocked in Java; allocations nest; an
exception may leave a call at any of several points.  In the data formats: slices
that begin and end at any bit, kernel blocks that share words, batches and slots
at their limit, memory that was not cleared.  In the rest: background threads
that are started, stopped and joined while they work, a configuration replaced
while it is used, a load that fails half-way.

## Modules

| Module | Stands for |
|---|---|
| `TaskOrder` | what the priority service promises: an order of tasks by first request, from which finished tasks are taken out |
| `TaskPriority` | `TaskPriorityJni.cpp`: the table and the counter; implements `TaskOrder` through the mapping `ByPriority` |
| `SparkResourceAdaptor` | the adaptor, over `TaskOrder` (it only ever compares priorities) |
| `TaskMetrics` | the adaptor's counters, over the part of a thread's life they depend on |
| `DocumentedClaims` | statements of comments and docs about the adaptor that the code does not keep |
| `KudoBytes`, `KudoTable` | bytes, words and shifts of both machines; schemas, columns and slices |
| `KudoSerializer`, `KudoMerger` | the host writer and reader; the host merger |
| `ShuffleSplit`, `ShuffleAssemble` | the GPU writer; the GPU reader |
| `KudoShuffle` | composes the four over one stream |
| `ProfileFormat`, `Profiler` | what is serialized and how it is converted; the session, the queue, the threads |
| `NvmlMonitor`, `FaultInjection` | the monitor; the injector |
| `RowConversion`, `RowExchange` | layout, tiles and copies as functions; the launches, blocks in any order |
| `JsonParser`, `JsonPath`, `JsonColumn` | the token reader; the path evaluation as a stack machine; the launches over a column, and the reference `Answer` |
| `Decimals`, `TimeZones`, `Dates`, `Casts` | the arithmetic of columns and its references |
| `ParquetFooter` | the request through JNI, the pruning of schema, chunks and row groups, and a reference on trees |
| `ColumnFunctions` | calls of all these, and the properties that compare them with their references |
| `TimeZoneDB` | the static fields of `GpuTimeZoneDB` under load, reads and shutdown |
| `MCTasks`, `MCAdaptor`, `MCDevices`, `MCServices`, `MCColumns` | inputs of the runs |
| `FiniteOrders` | lemmas about orders, folds and sums over finite sets |
| `TaskPriorityProofs`, `SparkResourceAdaptorProofs`, `AdaptorCallsProofs`, `TaskMetricsProofs`, `ProfilerProofs`, `DeviceProofs`, `TimeZoneProofs` | theorems about the module each is named after, `AdaptorCallsProofs` about the calls of the adaptor, `DeviceProofs` about `NvmlMonitor` and `FaultInjection`, `TimeZoneProofs` about `TimeZoneDB`, `TimeZones` and `Dates` |

`MCTasks`, `MCDevices`, `MCServices` and `MCColumns` join components that share nothing: their
variable `part` is chosen in the initial state and says which of them the
behaviour is about, so that the components do not multiply each other's states.
Values that are costly to compute are handed to local operators as parameters
rather than named in a `LET`: TLC evaluates an argument once.

### How `SparkResourceAdaptor` corresponds to the code

* **State.** `threads[t]` is the `full_thread_state` of a thread; an absent
  entry of the map is the record `Unregistered`, whose state `UNKNOWN` is the
  value `get_thread_state_as_int` gives for it.  `task_to_threads`, and
  `known_threads` (the registry) are sets.  `order` is the table of priorities.
  `adaptor` is `open`, `shutting_down`, or how `all_done()` returned; `crashed`
  when the process died of undefined behaviour.
* **Atomicity.** Each public entry point holds `state_mutex` throughout, so an
  action is the code between two releases of it.  Helpers are operators from
  locked state to locked state, composed inside the action in the order in which
  the code calls them: `post_alloc_failed`, for example, ends with the deadlock
  check, on every path.
* **Calls in progress.** `stack[t]` holds the calls thread `t` has begun.  A frame is
  `pre_alloc` while the thread waits or is about to try again, `allocate` while
  the wrapped resource works, `ready` inside `block_thread_until_ready`.  A
  spill is an allocation begun while the top frame is `allocate`; the model
  keeps `is_recursive`/`was_recursive` in the frame, as the code keeps it in a
  local variable.
* **Condition variables.** `wake` is `waiting` inside `wait`, `notified` from
  `notify_all` to the moment the thread has the mutex again.  Between these two,
  anybody else may take the mutex.  Spurious wake-ups only repeat the loop body
  and are not modelled.
* **Throwing.** An exception ends the call: the frame is popped and the record is
  what the code wrote before it threw.  Which exception it is does not matter to
  the state.
* **Scans.** `check_and_update_for_bufn` and `wake_next_highest_priority_blocked`
  walk the map in the order of thread ids and call `priority()` on each
  candidate, which may give a task its number.  `Scan` is the order after such a
  walk, `Highest` and `Lowest` the thread a walk ends with.
* **Erased sleepers.** A thread that was notified while its record is erased
  wakes up to `threads.end()`.  That is undefined behaviour; `WakeUpErased`
  lets the process die, or the call return, or the allocation begin.
* **Closing.** `RmmSpark` holds a write lock around close, so calls that go through it need an open
  adaptor; allocations, frees and wake-ups go to the native object and go on
  until it is deleted (`all_done_returns`).

Inputs are constants: which thread registers for what, which allocations and
removals happen, what is injected.  The bounds are `MaxDepth` (nesting of
allocations), `RetryLimit` (500 in the code) and `CanShutDown`.  The definitions
called *slips* each sit before the definition they distort; they are not used by
any specification and show what a property would notice.

### How the other modules correspond to the code

* **`TaskMetrics`.** One action per operation that changes a counter or moves
  it; all hold the mutex.  Of a thread's states the three are kept that metrics
  tell apart.  `watched` chooses one of the counters per behaviour (they do not
  influence each other); `owed`, `highest`, `highWater` and `spoiled` are
  history.  `spoiled` marks tasks hit by one of the known losses (see below), so
  that the properties say what holds of all the others.
* **Kudo.** Bytes are numbers, and a byte has 3 bits (`ByteBits`), a word 4
  bytes: every boundary between bits, bytes, words and batches is met with
  tables of 26 rows.  Headers are big-endian and offsets little-endian, as
  written.  `KudoMerger` copies validity by the three cases of
  `ValidityBufferMerger`; Java's shifts wrap at the word length, CUDA's clamp
  (`Shl`, `CudaShl`).  Memory nobody wrote holds `Fills`.
  `ShuffleAssemble` computes the batches and applies them in either order.
* **Profiler, converter.** A session is a `subscriber_state`; they are never
  deleted.  CUPTI fills buffers with a script of activities and completes them
  when it likes.  Each hold of the queue's lock is an action; `crash` may happen at any
  time and cuts the file inside a flatbuffer.  The converters are functions of
  the file.
* **`NvmlMonitor`.** The owner's calls are serialised by `synchronized`; a loop
  is a program of five steps, between any two of which the flag may change.
* **`FaultInjection`.** The handler is cut where the lock is given up: look-up,
  decision on the values read, lowering of the count, injection.  What it keeps
  across these is a reference, and a reload frees the node.  `handler_decide_stale`
  then reads any settings: the call is passed over, counted or injected.
  `handler_count_stale` writes to memory that is nobody's or a count of the new
  tree (`corrupted`).  The same accesses may end the process, which shows nothing.
* **Rows.** A cell is bytes that say where they come from.  Warp, alignment, batch and shared
  memory are scaled down together; the limit of a batch stays 2^n - 1.  Each block of a
  tiled kernel is one action.  `Overrun` and `HasTile` say which bytes and columns the
  tiles lose.
* **JSON.** Texts are sequences of character codes.  `evaluate_step` is one turn
  of `evaluate_path`'s loop over its explicit stack; each row and path is a GPU
  thread, and all rows of a path write into one buffer, in any interleaving.
* **Decimals and time zones.** 256 bits are four chunks of `ChunkBits` = 5 bits,
  38 digits are 2, a day has 24 units and a second 3 fractions; the formulas
  are unchanged, overflow wraps.  References: unbounded integers; java.time's rules
  stated by existence of instants.
* **Dates.** Days are the real ones, a day has 96 ticks.  A year is an int in `to_date`,
  and a short in a `year_month_day` (`year16`), through which rebasing and truncation
  go; days so near to the ends of 32 bits that the sums of `to_date` overflow are no inputs.  The
  references count days by the lengths of the months and the leap years
  (`JulianDayNumber`), and say what a truncated date or a number of units is by
  the first days of the units, never by the formulas of the code.
* **Casts.** A string is a sequence of letters, integers have 8 and 16 bits.  The
  two passes of the decimal cast are folds over the string with the code's
  variables as state; the sign at the end of a blank row is the next character
  of the column (`Behind`).  The reference splits the string by its grammar.
* **`ParquetFooter`.** The flattened lists and index arithmetic are the code's; the
  reference `Wanted` prunes the tree itself.  Thrift is external: a footer is
  its record.  Files lay out lists in every way the format allows, and their
  row groups state their place by column metadata or by file offsets, some of
  them wrong.
* **`TimeZoneDB`.** Every access to one of the four static fields is a step of
  its own, also the ones inside the monitor, since readers do not take it.  The
  model is sequentially consistent; `tzNameToIndexMap` is volatile and written
  last, which orders the others for a reader that tests it first.  A load ends by itself, by
  an `Exception`, after which everything is closed (`load_fails`), or by an `Error`, say an
  `OutOfMemoryError`, which neither catch sees (`load_error`).

## Properties

Adaptor:

* `TypeOK`: types; among them, `num_times_retried` never passes the limit.
* `NoLostWakeup`: a thread asleep without a notification is in a state in which it should sleep.
* `FollowsDiagram`: no step of anybody moves a thread off the diagram of
  `docs/memory_management.md` (closed under moves made in one hold of the mutex).
* `TaskKnowsItsThreads`: `task_done` will find every dedicated thread.
* `PausedThreadsArePaused`: a thread the deadlock check takes for stuck is inside
  an allocation that failed, or asleep.
* `StrictTotalOrder`: comparisons of priorities always have one winner.
* `NoInternalError`: the `std::invalid_argument`/"internal error" throws of
  `post_alloc_*_core` cannot happen.
* `DeadlockIsBroken`: if all registered threads are BLOCKED or BUFN, the next
  check moves one, whatever the watchdog believes about Java.
* `ShutdownReachesEveryone`: after `all_done()` gave up the mutex, nobody sleeps without a notification.
* `SomebodyWakes` (liveness): registered threads never all sleep for good.

Priorities and metrics: `DistinctPriorities`, `ImplementsTaskOrder` (refinement);
`ThrowsReachTheirTask` (what threads counted is reported once),
`TimeLostNeverShrinks`, `PeaksWereReached`.

Kudo: `MergedIsConcatenation` (any writers, any merger, any order of batches, any
garbage), `ReadsExactlyWhatArrived` (a stream cut anywhere).

Devices: `NoRecordLost`, `BuffersHaveOneOwner`, `ConversionDrawsAll`,
`ShutdownReturns`; `LoopsAreAccountedFor`, `StatsDescribeTheirGPU`, `LoopsEnd`.

Fault injector: `InjectionsStayNearCount` (injections made, under way and left add up to the
configured count, which is overdrawn by fewer than there are threads, unless a call
wrote to the configuration through a stale reference),
`ExitReturns`.

Columns: `RowsRoundTrip` (every cell comes back but those the tiles lose, of which `LostWriting` and
`LostReading` say exactly which), `BatchesFit` (a batch is below the limit but for
its first row), `CellsAreStable` (an action property:
two blocks never write one byte differently, but for the bytes behind a tile its copy
takes along); `ResultsAreReference`,
`ScratchSuffices`; `DecimalsAreExact`; `ConversionsFollowTheRules`,
`OverflowIsNull`; `DatesFollowTheCalendars` (rebased, truncated and counted dates, but for those
`Wraps` names: years beyond 16 bits where the code goes through one);
`NumbersAreRead` (casts and bases); `FootersArePruned` (schema, chunks and row groups
of every split).

Zone database: `DatabaseIsAllOrNothing` (with the monitor free the fields are all set, all null, or
`HalfMade`: what a load ended by an `Error` left, without the index of names by which readers
tell whether it is loaded), `OnlyShutdownBreaksCalls`, `CallsReturn`.

## Runs

| Run | Instance | Checks |
|---|---|---|
| `tasks` | 3 attempts, numbers 8 down to 0; 2 threads and 2 tasks for the metrics | `DistinctPriorities`, refinement of `TaskOrder`, the three metrics properties |
| `lifecycle` | 2 threads, dedicated to either of 2 tasks or one of them from a pool, any removal, task ends, a watchdog that may believe either thread blocked, `all_done()`, retry limit 0 | `TypeOK`, `TaskKnowsItsThreads`, `ShutdownReachesEveryone`, `FollowsDiagram` |
| `contention` | 3 dedicated threads of 2 tasks, a task loses its rank, retry limit 1 | `StrictTotalOrder`, `PausedThreadsArePaused` |
| `pools` | 2 dedicated threads and a pool thread for any of their tasks | `DeadlockIsBroken` |
| `allocations` | 2 threads, GPU, blocking and non-blocking CPU allocations, one inside another; injected retry, split and cuDF exceptions | `NoInternalError`, `NoLostWakeup` |
| `liveness` | a dedicated, a pool and a shuffle thread | `SomebodyWakes` |
| `devices` | 2 sessions, 3 activities, buffers of 2; 2 starts of the monitor, 2 GPUs | the profiler's four properties and the monitor's three |
| `services` | 2 or 3 slices of a flat, a nested, a hollow and a column-less table, 26 rows, batches of 4 bytes; 2 callers of CUDA, 3 calls, 1 reload; 3 threads with 3 calls to the zone database | the two Kudo properties, the injector's two, the database's three |
| `columns` | 16 tables, 67 JSON queries, some thousand calls | the eleven column properties |
| `claim_*` | see below | one violated claim each |

Why these bounds.  The adaptor treats threads alike and compares them pairwise:
two tasks are enough for one to hold what the other wants, three threads for one
task to have two threads or for all three kinds of thread to meet.  One
nesting level produces every transition of the `recursive` flag, since an inner
allocation never starts another kind of frame.  A retry limit of 0 or 1 reaches
the limit.  Nothing is symmetric: thread ids break ties between threads of a
task and decide the order of a scan.  The Kudo slices begin and end inside and
at the edges of bytes, words and batches and in the middle of one of each; three of them make
a middle table whose first and last word are both shared.  Two sessions, two loops
and two callers are what it takes for an old one to meet a new one.  Three
threads on the database are a loader, a reader and a shutdown.  The JSON paths
contain every instruction in every position the evaluation tells apart, the
documents grow by escaping, are cut off, and nest to the limit.  The
decimals are all signs, ties, powers of ten and limits of the reduced width.
Strings are all of up to three letters over an alphabet of digits, point,
exponent, sign and blank, and longer ones at limits and ties; dates surround
the change of calendars, leap days, the year 0 and 1970, and the ends of 16-bit years.  The tables have
one to three tiles across, a third tile in the middle of a word, a last
column in no tile, and rows of which a power of two fill a batch to the byte.

Deadlock checking is off where the system may stop: the process may crash, the
adaptor may be deleted, inputs are used up (`lifecycle`, `pools`,
`allocations`, `liveness`, `devices`, `services`).

Fairness.  `liveness`: weak fairness of the watchdog, as the daemon
thread started in `SparkResourceAdaptor.java` polls, every 100 ms by default, as
long as the adaptor is open; of `WakeUp(t)`, as a notified thread gets the mutex
eventually, every hold of it being finite; of `RetryAlloc(t)`, as between two
iterations of the loop in `do_allocate` the thread only computes.  Nothing is assumed
about allocations succeeding, about frees or about tasks ending.  `devices`: weak
fairness of threads that are running: the writer and the caller inside
`nativeShutdown`, the loops and the join with its timeout.  CUPTI and the owner's calls
are not fair.  `services`: weak fairness of the injector's watcher (its
`select` times out after 5 s) and handler, not of who writes the file; of a thread inside a call to the
database: nobody holds the monitor for ever.

## Code and documentation that disagree

The first three have a run in which TLC finds the contradiction.

* `claim_waiting_not_removed`.  The comment on `remove_thread_association` says a
  thread that is "currently blocked/waiting" is not removed but told to throw.
  A thread that has been notified, but has not got the mutex, is already
  `RUNNING`; `task_done` erases its record, and the code after the wait uses the
  erased entry.
* `claim_invalid_row`.  `calc_scratch_size` relies on the kernel to check bounds,
  so that "we will not have data corruption".  A row that escapes to more than
  its slot and only then turns out invalid reports the size 0: its neighbours'
  output is overwritten and no second launch is asked for.
* `claim_timestamp_overflow`.  `get_timestamp_overflow` is to return "true if
  overflow occurred".  In the first second of the 64-bit range its
  comparison is the wrong way round.

Six more are statements beside the code they are about.  TLC finds each violated when it is added to the
properties of `columns`, `CachingCaches` and `CountsAddUp` to those of `services`:

* `BatchesStayBelowTheLimit`.  `build_batches` takes care "to avoid a batch larger than 2 gigs", but
  does not measure the first row of a batch.  The rounding to 32 rows mostly takes the
  row too many away again; not from the last batch, and not when rows of 2^k bytes make
  the count a multiple of 32.  The batch then has 2^31 bytes or more, `num_bytes` is negative
  and the allocation throws.
* `EveryCellComesBack`.  `determine_tiles` wants a tile boundary "to match alignment of output
  row", but measures a tile from where its first column ends.  The second tile may then end in
  the middle of a word, its copy is rounded up to one, and whether the first cell of
  the third tile survives depends on which block runs last.  With 48 KB of shared memory it takes
  a table of 765 columns of 4 bytes.
* `EveryColumnHasATile`.  "Determines what data should be operated on by each tile": a last
  column that does not fit into the open tile opens one of width 0, which is not built.  With 48 KB,
  the last of 383 columns of 4 bytes.
* `NoChangeSinceTheSwitch`.  "No change since this time", 1582-10-15: a day of the year 32768 goes through a year of 16
  bits, compares as earlier and is moved.  Truncation goes the same way:
  a day of the year 34824, truncated to the year, is in -30712.
* `CachingCaches`.  "If cache is exits, do not load cache again": a load that an `Error` ended
  leaves `fixedTransitions` set, which `cacheDatabaseImpl` takes for the cache, and no names.
* `CountsAddUp`.  "unlock we have a copy from the prior parse": it is a reference, and a call that
  outlives a reload may lower a count of the configuration that came with it.

Three more are stated in `DocumentedClaims` and violated by the instances named
there: `all_done()` does not wait "until threads is empty" (the predicate of
`wait_for` is negated); BUFN pool threads of a task without a dedicated thread
keep `all_bufn` from ever holding, and nobody is split; a dedicated thread that
registers for another task is taken out of `ThreadStateRegistry` just after
`RmmSpark` put it there.

Smaller ones, seen while modelling and visible in the definitions.  Adaptor:

* `docs/memory_management.md` says the lowest priority BUFN thread splits;
  `split_highest_bufn` is what the code does.
* The comment on `thread_priority` says a higher task id is a lower priority; the
  number is given at the first comparison, so whichever task competes first ranks first.
* The comment in `block_thread_until_ready` says `BUFN_THROW` and `SPLIT_THROW`
  "should never happen unless this is being called from within an alloc"; a
  thread rolled back by an allocation goes to `BUFN` and is told to split inside
  the public `block_thread_until_ready`.
* `is_retry_alloc_before_bufn` stays set when the retried allocation fails for a
  reason other than OOM; a later OOM of the thread is then rolled back without a pause.
* An injected exception thrown on the second iteration of `do_allocate` leaves a
  running thread in state `BLOCKED`.
* Metrics: `task_done` takes a pool thread's task id off before its metrics are
  checkpointed; a removal with id -1 leaves the thread in `task_to_threads`; a
  removal of a blocked thread loses its blocked time; frees by unregistered
  threads are not subtracted.  `getAndResetGpuMaxMemoryAllocated` adds maxima of
  different moments: `ReportedPeakWasReached` is violated by two threads that
  allocate one after the other.

Kudo:

* `shuffle_assemble` computes the rows of a validity batch in unsigned arithmetic:
  a column whose source bits begin late in a byte can need one more batch than its
  rows do, and that batch wraps to a full one (`Starts = {0, 5}`,
  `Lengths = {1, 11}`, `UseOffsets = {}`).
* `shuffle_split` of a sliced view counts the view's offset in the rows but not
  in the header's row index (`Starts = {0, 5}`, `Lengths = {}`, `UseOffsets = {1}`).
* A stream that ends inside the magic number ends without an error.

Devices:

* A failed `nativeInit` leaves its writer thread, which then shares the next
  session's queue; `notify_one` may wake the wrong one and `nativeShutdown` waits for ever.
* `convert_to_nsys_rep`'s dump tests `device` before it uses `memset`; a file with a
  header only is reported as "Unexpected EOF"; ranges that cross an nvtxw chunk are lost.
* A stop followed by a start within the loop's interval revives the old loop; with
  `verbose`, a GPU that cannot be read throws a null pointer on every turn, before
  the sleep; an `onError` that throws ends the loop while `isMonitoring()` stays true.
* A reload that turns `dynamic` off leaves the watcher unjoined at exit.

Columns:

* Rows of which fewer than 32 fit a batch make the loop of `build_batches` stand still;
  `copy_strings_to_rows` compares a table row with the rows of the batch.
* Rounding of a remainder of exactly -2^126 is decided by a wrapped value.
* Timestamps before 1970 with a fraction are looked up one second late.
* Casts to decimal.  "if true leading and trailing white space is ignored", but
  blanks behind an exponent make the string null.  "if there is no data left, this
  is invalid", but the sign is looked for first: a blank row in front of a row
  that begins with a sign becomes 0.  A zero with a large exponent is null, and so
  is a fraction that rounds to a power of ten when all the precision is behind
  the point (`0.095` as `decimal(2,2)`); a number without digits before its exponent is 0.  An exponent
  beyond 32 bits is added to a 32-bit location and wraps.  `MayBeNull`,
  `MayBeZero` and `MayWrap` of `Casts` say exactly where.
* Footers: a list or map of structs of which no field is asked for keeps its
  groups, with a count of children that were taken out (`LosesElement`), although
  `schema_num_children` is to hold "the new values for num children after the
  schema is gathered".
* `GpuTimeZoneDB`: "If `shutdown` was called ever, then will not load the cache"
  has no counterpart in the code; a conversion begun while the table is loading
  can fail with a null pointer instead of waiting.

## Proofs

Checked by TLAPS for every value of the constants that satisfies the named
assumptions.  They say: threads, tasks, workers, GPUs and callers are finite sets,
thread ids are positive and task ids natural numbers, the inputs of the adaptor are well-typed,
the GPUs are numbered from 1, the scripts of the profiler are sequences of activities,
its stack of free buffers has a natural capacity, the sentinels (`NoTask`, `NoThread`,
`NoSession`, `Unlimited`) are not among what they stand in for, configuration files hold records of the right
fields, and the bounds are naturals.

| Module | Theorem | States |
|---|---|---|
| `TaskPriorityProofs` | `PrioritiesDistinct` | `DistinctPriorities` |
| | `PriorityImplementsOrder` | `ImplementsTaskOrder` (refinement) |
| `SparkResourceAdaptorProofs` | `AdaptorTypeCorrect` | `TypeOK` |
| | `PrioritiesTotallyOrdered` | `StrictTotalOrder` |
| | `WakeupsAreNotLost` | `NoLostWakeup` |
| `AdaptorCallsProofs` | `AllocationsFindTheirState` | `NoInternalError` |
| | `TasksKnowTheirThreads` | `TaskKnowsItsThreads` |
| | `ShutdownIsNoticed` | `ShutdownReachesEveryone` |
| | `DiagramIsFollowed` | `FollowsDiagram`, if nothing is injected |
| | `PausedMeansPaused` | `PausedThreadsArePaused`, if nothing is injected and CPU allocations block |
| | `DeadlocksAreBroken` | `DeadlockIsBroken` |
| `TaskMetricsProofs` | `NothingThrownIsLost` | `ThrowsReachTheirTask` |
| | `TimeIsKept` | `TimeLostNeverShrinks` |
| | `PeaksAreReal` | `PeaksWereReached` |
| `ProfilerProofs` | `EveryRecordIsWritten` | `NoRecordLost` |
| | `EveryBufferHasOneOwner` | `BuffersHaveOneOwner` |
| `DeviceProofs` | `LoopsAreCounted` | `LoopsAreAccountedFor` |
| | `StatsAreOfTheirGPU` | `StatsDescribeTheirGPU` |
| | `CountsAreKept` | `InjectionsStayNearCount` |
| `TimeZoneProofs` | `TableIsAllOrNothing` | `DatabaseIsAllOrNothing` |
| | `UndisturbedCallsSucceed` | `OnlyShutdownBreaksCalls` |
| | `DaysAreDates`, `DatesAreDays` | `to_date` and `to_epoch_day` are inverse |
| | `RebaseIsUndone` | rebasing to the Julian calendar and back, in years of 16 bits |
| | `DatesAreTruncated` | `IsTruncation`, of dates by week, and in years of 16 bits by year, quarter or month |

`TaskPriorityProofs`.  `DistinctPriorities` is inductive with the types
(`TypeCorrect`), and each call is a step or a stutter of `TaskOrder` under `ByPriority`.

`SparkResourceAdaptorProofs`.  Its three theorems come from one inductive invariant

    AdaptorInv == TypeOK /\ StrictTotalOrder /\ NoLostWakeup /\ SleepersAreInCalls

Why each part is needed.  `NoLostWakeup` alone is not inductive: an action of
a thread's own code (a failed allocation, a throw) changes the state without
notifying, so the thread must be known to be awake, which is
`SleepersAreInCalls`: whoever sleeps has a waiting call on top of its stack,
never `allocate` and never nothing.  `StrictTotalOrder` is needed because the
thread that is woken is the winner of a scan: were the order not total there
might be none, and the choice could fall on any thread.

The argument.  `FiniteOrders` proves that a set of naturals has a least element
and that a strict total order on a finite set has a greatest one (by a minimal counterexample in the
well-founded order of finite subsets).  `ScanKeepsOrder` and `ScanFindsOne` use
them: a scan keeps the order total and finds its thread.  The `...Nudges` lemmas
say that each helper only moves paused threads, along `Pokes`, notifying each
one it moves; `RemoveSound` says the same of removals.  `LeaveKeepsInv`,
`WaitKeepsInv` and `UnlockKeepsInv` are the three ways in which an action gives
up the mutex, and one lemma per action reduces it to one of these.

`AdaptorCallsProofs` adds

    CallInv == (\A t : Fine(threads[t], stack[t])) /\ TaskKnowsItsThreads /\ ShutdownReachesEveryone

where `Fine` relates a thread's record to the calls on its stack.  `Framed` is
why `NoInternalError` holds: a registered thread in `ALLOC` or `ALLOC_FREE` has a
stack of allocations only, of which exactly the outermost is not recursive and
has the kind the record says (`Nested`); in any other state it has at most one call,
which waits.  So the allocation that ends finds the state it expects even if a
spill allocated inside it and others freed, removed or injected meanwhile.
`Blank` says that an erased record keeps no task.  `Calm` is what is true while nothing is
injected: a thread that is paused is where it paused.

The argument again goes through the helpers.  `Apart` is what may happen to a thread
while its stack stays as it is, and every helper keeps to it for all threads but the one that
called (`Turn`); `Onward` is what the properties need of any change of a record, a step of the
diagram among it (`ApartOnward`).
`CallStep` is both facts at once, so that `DiagramIsFollowed` and the invariant come
from the same case analysis, one lemma per action.  For `DeadlocksAreBroken` a
cardinality argument on the tasks shows that all threads being stuck makes
`is_in_deadlock` true for any belief about the Java threads; then a scan of a
non-empty set finds somebody to roll back, and if nobody is `BLOCKED`, somebody to split.

Two theorems have premises, and without them the statements are false.  An
injected exception (`force_retry_oom` and its like exist for tests) leaves a thread
`BLOCKED` while it runs its own code; it can then be told to throw for
its removal and register afresh, a move the diagram does not have.  A CPU allocation tried with
`blocking = false` may take a stale `is_retry_alloc_before_bufn` with it and leave
the thread in `BUFN_THROW` in its own code.

`TaskMetricsProofs`.  `MetricsInv` has four parts.  `Balanced` is the balance:
what a task is owed is what the threads that work for it have on record plus its own
record.  `Listing` (a task lists the threads dedicated to it) and `Proper` (a dedicated thread is
in no pool, a thread that is being removed has nothing on record) make a
checkpoint move each amount exactly once.  `Peaks` bounds every maximum by the high-water
mark.  `task_done` removes a set of threads one after another and then takes the
task from all pools: both are folds, and `FiniteOrders` supplies the
induction over a finite set and the lemmas on sums.  The balance holds at each
intermediate step.

`TimeLostNeverShrinks` needs a second balance, `TimesInv`.  It cannot be stated with what a
report counts: while a thread is woken and has not run, its time is in no report, and
the property says nothing.  So `Held` counts the time of a thread that waits
whether it is blocked or woken, and `Accrued` says that what the threads of a task hold
and what the task has on record are at least the highest total reported.  Each call proves
with the invariant that it keeps what is accrued (`TimeKept`, for any marks, so that the
folds of `task_done` compose); `Timely`, all times are past and no time is negative,
is what makes it true of a wait that ends and of a retry that fails.  `TotalBounds` then says
that a report counts no more than is accrued, and all of it when no thread is woken.

`ProfilerProofs`.  `StepKinds` first reduces every step to what it does to buffers
and records: it hands buffers to a queue, lets CUPTI request or fill one, lets a writer take,
process or return one, ends a writer, or moves nothing.  Each of two invariants is then
kept kind by kind.

`Written` says of a session whose writer is the only thread and did not fail at
the start: the flatbuffers of its file, the flatbuffer being built, the rest of the
buffer at work and its queue, through the filters, are what the queue ever accepted, in
this order; and a writer that ended left nothing, its queue being shut.  `NoRecordLost` says
less, kind by kind.  It needs `Placed`: a thread without a buffer has nothing at work, and
a wait is in the queue of a session that was started, so a lone writer reads its own
queue.  That the writer may take the head of the queue, that a flush may
hand over many buffers and that a flatbuffer may be closed between any two records are facts about the
recursion `FlattenSeq`: flattening, and so filtering, distributes over
concatenation.  They are proved from the recursion by a minimal counterexample.

`Owners` says that the places (stacks, queues, writers, CUPTI's full buffers and the one
in use) hold sequences of numbers that repeat nothing and share nothing, all of
them numbers that were given out; the last part is why a new buffer is nobody's.  Every step
moves some numbers from their places to one other (`Moves`), or loses some
(`Shrinks`): a closed queue frees what it is given, and so does a full stack.  This
holds also when a failed `init` leaves two writers on one queue, where
`NoRecordLost` says nothing.

`DeviceProofs`.  `LoopsAreAccountedFor` is not inductive: nothing in it says
which of several loops a stop waits for.  `Abandoned` does: the live loops other
than the current one are at most as many as the joins that timed out.
`ResultsInPlace` says that the array a loop fills has at each index data of that
GPU, which is what `update` relies on when it packs results by index;
`Describes` says that count, sum and extremes are those of the samples added so far.

The count of a fault is read without the lock under which it is
lowered.  `Balanced` says that what is left, made and under way make up the configured
count.  `Covered` says that the count minus the threads that are past the check but have
not lowered it stays above minus their number, or that it is still the configured one; the count
is only read above zero, so the next thread past the check leaves `Covered`
true.  `Numbered` keeps references into an older tree, which a reload replaced, apart from
the one in force.  A call that holds such a reference may lower any count; the tree is
`corrupted` from then on, and the invariant says nothing more of its counts.

`TimeZoneProofs`.  `Phases` says how far `loadData` and `closeResources` have come
from where their thread is, `Placed` that only the thread inside either holds the monitor:
together the fields are all set or all null whenever the monitor is free, on the
paths of exceptions too.  An `Error` may leave the load at any point; `Left` says that what is then
there is of a load that escaped, in the order in which it was made and without the names, and that
it stays so until a shutdown or a load of all four.  `Counts` says what a call that no shutdown met may count on;
it needs that the field written last is the one readers test first.

Its second half is about the calendars.  `DaysAreDates` and `DatesAreDays` are about `to_date`, for
every integer as a day.  Rebasing and truncation go through `year_month_day`: their
theorems assume a date in a year of 16 bits (`YearFits`), since beyond it they are
false (`NoChangeSinceTheSwitch`); such days are far inside 32 bits.  The code estimates the year of an era and
corrects the estimate; `DateIs` says that the day then lies within the year, and
`YearsOrdered` that it lies in no other.  With `DatesInOrder`, which compares dates as
`DateCode` does, this gives the round trips and truncation.  `RebaseIsUndone` also excludes the ten days
between the calendars, which the code sends to 1582-10-15; the other way round rebasing is not
lossless, since 1500-02-29 is Julian only.  No theorem names
`DatesFollowTheCalendars`: it counts leap years with sets, compares with `DayNumber`, and lies in a
module over recursive ones.

Only model-checked.  Liveness, being under fairness: `SomebodyWakes`,
`ShutdownReturns`, `LoopsEnd`, `ExitReturns`, `CallsReturn`.
`ConversionDrawsAll` and `CellsAreStable`, whose converter and whose row layout are
folds over data.  What compares a computation with a reference, which is an
induction over data that these provers cannot do: Kudo, rows, JSON,
decimals, casts, footers, time zones, and of dates what the theorems above leave (timestamps,
units since 1970, days counted year by year); `JsonParser`, `JsonPath`,
`JsonColumn`, `KudoMerger` and `ParquetFooter` moreover are recursive.

## Not modelled

In the adaptor: spill ranges and the footprint metrics that depend on them,
logging, the text and class of exceptions.  The wrapped resource and the spill
framework belong to cuDF: an allocation succeeds or fails as it likes, and the
memory that is free is not counted, so nothing is said about an allocation ever
succeeding.  The read/write lock of `RmmSpark` and the monitor of
`SparkResourceAdaptor.java` appear only as guards.  Java thread states are arbitrary.

Kudo: dumps and metrics of the writer, dictionaries, launch sizes.  Profiler: the
text of the converter's output and the nsys-rep dump.  JSON: `from_json_to_structs`
and `from_json_to_raw_map`, which post-process tokens of cuDF's reader.
Decimals: `floating_point_to_decimal` (double arithmetic).  Casts: floats, which are
tables of constants and double arithmetic, the grammar of dates and
timestamps, and the formatting of numbers.  Footers: thrift, the bytes of the serialized file
and lower case beyond ASCII.

Hashes, sketches, joins and the remaining column functions are stateless functions of text, floating point numbers or hash
bits; a model would have to transliterate them to say anything.  `PROJECT.json`
gives the reason for each.

## What could follow

1. Theorems about timestamps: rebasing and truncation of ticks, from those about days.
2. A memory pool below the adaptor: tasks with finite demands, frees on
   roll-back; every task finishes or is told to split, under fairness.
3. The grammar of dates and timestamps, and reassembly of 64-bit sums.
