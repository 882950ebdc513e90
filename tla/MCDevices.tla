----------------------------- MODULE MCDevices -----------------------------
(* The profiler and the GPU monitor, which share nothing: a behaviour is one *)
(* of the two.                                                               *)
EXTENDS Profiler, NvmlMonitor

VARIABLE part

\* Activities: defaults, and what a script changes.
R(n, kind) == [kind |-> kind, no |-> n, ok |-> TRUE, call |-> "launch", id |-> 1, flag |-> "start",
               object |-> "thread", process |-> 1, thread |-> 5, stream |-> 2]
Start(n, id) == [R(n, "marker") EXCEPT !.id = id]
End(n, id) == [R(n, "marker") EXCEPT !.id = id, !.flag = "end"]

MCScripts == {
    <<Start(1, 7), R(2, "kernel"), End(3, 7)>>,
    <<[R(1, "api") EXCEPT !.call = "alloc"], R(2, "memset"), [R(3, "overhead") EXCEPT !.object = "unknown"]>>}

Answer(device, utilization) == [device |-> device, utilization |-> utilization]
MCReplies == {
    <<NoHandle, Answer(1, 2)>>, <<Answer(1, 1), NoHandle>>, <<Answer(1, 2), Answer(1, 1)>>,
    <<Answer(Failed, 1), Answer(1, Failed)>>}
MCGPUs == 1 .. 2

vars == <<part, profilerVars, nvmlVars>>

Init ==
    /\ part \in {"profiler", "monitor"}
    /\ ProfilerInit /\ NvmlInit
    /\ part # "profiler" => script = CHOOSE s \in Scripts : TRUE

Next ==
    \/ part = "profiler" /\ ProfilerNext /\ UNCHANGED <<part, nvmlVars>>
    \/ part = "monitor" /\ NvmlNext /\ UNCHANGED <<part, profilerVars>>

Spec == Init /\ [][Next]_vars /\ ProfilerFairness /\ NvmlFairness
=============================================================================
