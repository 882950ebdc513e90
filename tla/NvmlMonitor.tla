---------------------------- MODULE NvmlMonitor ----------------------------
(***************************************************************************)
(* The GPU monitor: NVML.java and NVMLJni.cpp below, NVMLMonitor.java with *)
(* its GPULifecycleStats above.  One Java thread starts and stops the      *)
(* monitor; every start makes a loop thread, which samples all GPUs,       *)
(* sleeps and looks at the flag monitoring again.  A stop waits 2 s for    *)
(* the newest loop only.                                                   *)
(*                                                                         *)
(* The nine sub-objects of a GPUInfo are of two kinds, the device info a   *)
(* sample cannot do without and the readings it can; "utilization" stands  *)
(* for the latter.  A GPU answers a query by no handle at all or by        *)
(* [device, utilization], each a value or Failed.                          *)
(***************************************************************************)
EXTENDS Integers, Sequences, FiniteSets, FiniteSetsExt, SequencesExt

CONSTANTS
    GPUs,         \* GPU indices, 1 .. n
    Replies,      \* what the GPUs may answer to a query, GPU by GPU
    NoHandle,     \* nvmlDeviceGetHandleByIndex failed
    Failed,       \* an NVML query of one sub-object failed
    Verbose,      \* NVMLMonitor.verbose
    MaxStarts,    \* bound on startMonitoring
    MaxQueries    \* queries, of all loops, that GPUs answer

ASSUME GPUsAssumption == IsFiniteSet(GPUs) /\ GPUs = 1 .. Cardinality(GPUs)
ASSUME RepliesAssumption ==
    /\ \A reply \in Replies : \A g \in GPUs :
         reply[g] # NoHandle => reply[g].utilization = Failed \/ reply[g].utilization \in Int
    /\ Failed \notin Int
ASSUME StartsAssumption == MaxStarts \in Nat

VARIABLES
    nvml,            \* [loaded, initialized] of NVML.java
    monitoring,      \* the flag the loops look at
    loop,            \* [pc, results, i] of every loop thread
    monitoringThread,\* the newest loop, 0 before the first
    stopping,        \* stopMonitoring is in its join
    lifecycleStats,  \* index -> GPULifecycleStats, for the GPUs that have one
    lateJoins,       \* history: joins that timed out
    queries          \* history: queries made

nvmlVars == <<nvml, monitoring, loop, monitoringThread, stopping, lifecycleStats, lateJoins, queries>>

Loops == 1 .. MaxStarts

NvmlInit ==
    /\ nvml = [loaded |-> FALSE, initialized |-> FALSE]
    /\ monitoring = FALSE
    /\ loop = [l \in Loops |-> [pc |-> "none", results |-> << >>, i |-> 0]]
    /\ monitoringThread = 0 /\ stopping = FALSE
    /\ lifecycleStats = << >>
    /\ lateJoins = 0 /\ queries = 0

-----------------------------------------------------------------------------
(* NVMLJni.cpp and GPULifecycleStats. *)

\* populate_gpu_info_from_device: a sub-object is set when its query
\* succeeded; the code is that of the first query that failed.
populate_gpu_info_from_device(g, answer) ==
    [code |-> IF answer.device = Failed THEN "device" ELSE IF answer.utilization = Failed THEN "utilization"
              ELSE "success",
     data |-> <<[gpu |-> g, device |-> answer.device, utilization |-> answer.utilization]>>]

\* One element of nvmlGetAllGPUInfo; data is << >> for null.
gpu_result(g, answer) ==
    IF answer = NoHandle THEN [code |-> "handle", data |-> << >>]
    ELSE populate_gpu_info_from_device(g, answer)

\* The arrays getAllGPUInfo may return: none when NVML is not available or
\* the GPUs cannot be counted.
getAllGPUInfo ==
    {<< >>} \cup (IF ~(nvml.loaded /\ nvml.initialized) THEN {}
                  ELSE {[g \in GPUs |-> gpu_result(g, reply[g])] : reply \in Replies})

NoStats == [samples |-> << >>, min |-> 0, max |-> 0, sum |-> 0, count |-> 0]

\* IntegerStats.addValue, getMin and getMax (0 when nothing was added).
addValue(st, v) ==
    [st EXCEPT !.min = IF st.count = 0 \/ v < @ THEN v ELSE @,
               !.max = IF st.count = 0 \/ v > @ THEN v ELSE @,
               !.sum = @ + v, !.count = @ + 1]

\* GPULifecycleStats.addSample.
addSample(st, info) ==
    IF info.device = Failed THEN st
    ELSE LET kept == [st EXCEPT !.samples = Append(@, info)]
         IN  IF info.utilization = Failed THEN kept ELSE addValue(kept, info.utilization)

-----------------------------------------------------------------------------
(* NVML.java. *)

\* The library is loaded, then NVML initialized; either may fail.
initialize ==
    /\ ~stopping /\ ~nvml.initialized
    /\ \E loaded, initialized \in BOOLEAN :
        /\ nvml.loaded => loaded
        /\ initialized => loaded
        /\ nvml' = [loaded |-> loaded, initialized |-> initialized]
    /\ UNCHANGED <<monitoring, loop, monitoringThread, stopping, lifecycleStats, lateJoins, queries>>

nvml_shutdown ==
    /\ ~stopping /\ nvml.initialized /\ nvml.loaded
    /\ nvml' = [nvml EXCEPT !.initialized = FALSE]
    /\ UNCHANGED <<monitoring, loop, monitoringThread, stopping, lifecycleStats, lateJoins, queries>>

-----------------------------------------------------------------------------
(* NVMLMonitor, synchronized: one call at a time. *)

\* The stats of a GPU that answers are replaced, those of one that does not
\* answer stay.
startMonitoring ==
    /\ ~stopping /\ ~monitoring /\ nvml.loaded /\ nvml.initialized
    /\ monitoringThread < MaxStarts
    /\ \E results \in getAllGPUInfo :
        LET answered == {g \in DOMAIN results : results[g].data # << >> /\ results[g].data[1].device # Failed}
        IN  lifecycleStats' = [g \in DOMAIN lifecycleStats \cup answered |->
                                 IF g \in answered THEN NoStats ELSE lifecycleStats[g]]
    /\ monitoring' = TRUE
    /\ monitoringThread' = monitoringThread + 1
    /\ loop' = [loop EXCEPT ![monitoringThread + 1].pc = "check"]
    /\ UNCHANGED <<nvml, stopping, lateJoins, queries>>

\* Mutant: returns without waiting for the loop.
stopMonitoring_unjoined ==
    /\ ~stopping /\ monitoring
    /\ monitoring' = FALSE
    /\ UNCHANGED <<nvml, loop, monitoringThread, stopping, lifecycleStats, lateJoins, queries>>

\* stopMonitoring up to its join, then the join's two ends; only the thread
\* of the last start is joined, and the sleep is not interrupted.
stopMonitoring ==
    /\ ~stopping /\ monitoring
    /\ monitoring' = FALSE /\ stopping' = TRUE
    /\ UNCHANGED <<nvml, loop, monitoringThread, lifecycleStats, lateJoins, queries>>

joined ==
    /\ stopping /\ loop[monitoringThread].pc = "ended"
    /\ stopping' = FALSE
    /\ UNCHANGED <<nvml, monitoring, loop, monitoringThread, lifecycleStats, lateJoins, queries>>

join_timeout ==
    /\ stopping /\ loop[monitoringThread].pc # "ended"
    /\ stopping' = FALSE
    /\ lateJoins' = lateJoins + 1
    /\ UNCHANGED <<nvml, monitoring, loop, monitoringThread, lifecycleStats, queries>>

-----------------------------------------------------------------------------
(* monitoringLoop. *)

loopKeeps == <<nvml, monitoring, monitoringThread, stopping, lateJoins>>

\* Mutant: does not look at the flag again.
loop_check_deaf(l) ==
    /\ loop[l].pc = "check"
    /\ loop' = [loop EXCEPT ![l].pc = "query"]
    /\ UNCHANGED <<lifecycleStats, queries, loopKeeps>>

loop_check(l) ==
    /\ loop[l].pc = "check"
    /\ loop' = [loop EXCEPT ![l].pc = IF monitoring THEN "query" ELSE "ended"]
    /\ UNCHANGED <<lifecycleStats, queries, loopKeeps>>

\* Mutant: leaves out the GPUs that gave no info.
loop_query_packed(l) ==
    /\ loop[l].pc = "query"
    /\ \E results \in (IF queries < MaxQueries THEN getAllGPUInfo ELSE {<< >>}) :
        LET given == SelectSeq([g \in DOMAIN results |-> results[g].data], LAMBDA data : data # << >>)
        IN  loop' = [loop EXCEPT ![l] = [pc |-> IF given = << >> THEN "sleep" ELSE "update",
                                         results |-> given, i |-> 1]]
    /\ queries' = Min({queries + 1, MaxQueries})
    /\ UNCHANGED <<lifecycleStats, loopKeeps>>

\* The array read once; results stay at their GPU's index.
loop_query(l) ==
    /\ loop[l].pc = "query"
    /\ \E results \in (IF queries < MaxQueries THEN getAllGPUInfo ELSE {<< >>}) :
        loop' = [loop EXCEPT ![l] = [pc |-> IF results = << >> THEN "sleep" ELSE "update",
                                     results |-> [g \in DOMAIN results |-> results[g].data], i |-> 1]]
    /\ queries' = Min({queries + 1, MaxQueries})
    /\ UNCHANGED <<lifecycleStats, loopKeeps>>

\* One GPU's sample; the stats are looked up when it is added.
loop_update(l) ==
    LET lp == loop[l]
        infos == lp.results[lp.i]
    IN  /\ lp.pc = "update" /\ lp.i <= Len(lp.results)
        /\ lifecycleStats' =
             IF infos # << >> /\ lp.i \in DOMAIN lifecycleStats
             THEN [lifecycleStats EXCEPT ![lp.i] = addSample(@, infos[1])] ELSE lifecycleStats
        /\ loop' = [loop EXCEPT ![l].i = @ + 1]
        /\ UNCHANGED <<queries, loopKeeps>>

\* Verbose output and callback: an exception (a null info when verbose, or
\* one the callback throws) skips the sleep; one that onError throws ends the
\* loop and leaves monitoring set.
loop_report(l) ==
    LET lp == loop[l]
        broken == Verbose /\ \E g \in DOMAIN lp.results : lp.results[g] = << >>
    IN  /\ lp.pc = "update" /\ lp.i > Len(lp.results)
        /\ \E pc \in (IF broken THEN {"check", "ended"} ELSE {"sleep", "check", "ended"}) :
             loop' = [loop EXCEPT ![l] = [pc |-> pc, results |-> << >>, i |-> 0]]
        /\ UNCHANGED <<lifecycleStats, queries, loopKeeps>>

loop_sleep(l) ==
    /\ loop[l].pc = "sleep"
    /\ loop' = [loop EXCEPT ![l].pc = "check"]
    /\ UNCHANGED <<lifecycleStats, queries, loopKeeps>>

monitoringLoop(l) == loop_check(l) \/ loop_query(l) \/ loop_update(l) \/ loop_report(l) \/ loop_sleep(l)

NvmlNext ==
    \/ initialize \/ nvml_shutdown
    \/ startMonitoring \/ stopMonitoring \/ joined \/ join_timeout
    \/ \E l \in Loops : monitoringLoop(l)

NvmlSpec == NvmlInit /\ [][NvmlNext]_nvmlVars

\* Loop threads run; a join ends.
NvmlFairness ==
    /\ WF_nvmlVars(joined \/ join_timeout)
    /\ \A l \in Loops : WF_nvmlVars(monitoringLoop(l))

-----------------------------------------------------------------------------
(* Properties. *)

Live == {l \in Loops : loop[l].pc \notin {"none", "ended"}}

\* More than one loop samples the GPUs only when a join timed out: the loop
\* it gave up on sees the flag of the next start and goes on.
LoopsAreAccountedFor ==
    /\ Cardinality(Live) <= lateJoins + 1
    /\ ~monitoring /\ ~stopping => Cardinality(Live) <= lateJoins

\* The utilizations that the samples of st have.
readings(st) == [k \in {n \in DOMAIN st.samples : st.samples[n].utilization # Failed} |-> st.samples[k].utilization]

\* However loops, restarts and failing GPUs interleave, the stats at an
\* index are those of that GPU's samples.
StatsDescribeTheirGPU ==
    \A g \in DOMAIN lifecycleStats :
        LET st == lifecycleStats[g]
            values == readings(st)
        IN  /\ \A k \in DOMAIN st.samples : st.samples[k].gpu = g /\ st.samples[k].device # Failed
            /\ st.count = Cardinality(DOMAIN values)
            /\ st.sum = SumFunction(values)
            /\ DOMAIN values # {} => st.min = Min(Range(values)) /\ st.max = Max(Range(values))

\* After a stop every loop ends, also the ones not joined, unless the monitor
\* is started again.
LoopsEnd == (~monitoring /\ ~stopping) ~> (Live = {} \/ monitoring)
=============================================================================
