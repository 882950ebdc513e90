--------------------------- MODULE FaultInjection ---------------------------
(***************************************************************************)
(* libcufaultinj: InitializeInjection, the callback every CUDA API call of *)
(* every thread goes through, and the thread that reads the configuration  *)
(* file again when it changes.                                             *)
(*                                                                         *)
(* A configuration file is [ok, dynamic, faults]; faults is a function on  *)
(* the keys it names (an API's callback id, its function name, or "*") to  *)
(* [type, percent, count], count Unlimited when it has none.  The driver   *)
(* and the runtime domain are handled alike; one is modelled.              *)
(***************************************************************************)
EXTENDS Integers, FiniteSets, FiniteSetsExt

CONSTANTS
    Callers,       \* host threads that call CUDA
    ApiIds,        \* callback id of every API: API -> id
    FakeLaunch,    \* the injector's own kernel launch, as an API
    ConfigFiles,   \* contents the configuration file may have
    Unlimited,     \* INT_MAX
    NoConfig,      \* no matching fault
    MaxReloads,    \* bound on changes of the file
    MaxIntercepted \* bound on intercepted calls

\* One entry of the file: the kind of injection, percent and interceptionCount.
FaultRecord == [type : {"trap", "assert", "return value"}, percent : Int, count : Int \cup {Unlimited}]

ASSUME CallersAssumption == IsFiniteSet(Callers)
ASSUME UnlimitedAssumption == Unlimited \notin Int
ASSUME ConfigFilesAssumption ==
    \A f \in ConfigFiles : /\ f.faults = [k \in DOMAIN f.faults |-> f.faults[k]]
                           /\ \A k \in DOMAIN f.faults : f.faults[k] \in FaultRecord
ASSUME ReloadsAssumption == MaxReloads \in Nat

VARIABLES
    configFile,    \* the file's content now
    tree,          \* globalControl: [dynamic, faults, version]
    changed,       \* inotify has an event
    watcher,       \* dynamicReconfig: "none", "select", "ended"
    exiting,       \* "no", "joining", "done": atExitHandler
    terminateThread,
    caller,        \* [pc, key, version, fault] of every thread
    intercepted,   \* history: how many calls were intercepted
    reloads,       \* history: changes of the file
    injected,      \* history: injections by version and key
    corrupted      \* history: versions of the tree written to through a stale reference

faultVars == <<configFile, tree, changed, watcher, exiting, terminateThread, caller, intercepted, reloads, injected, corrupted>>

Idle == [pc |-> "idle", key |-> NoConfig, version |-> 0, fault |-> NoConfig]
NoFaults == [k \in {} |-> NoConfig]

FaultInit ==
    /\ configFile \in ConfigFiles
    /\ tree = [initialized |-> FALSE, dynamic |-> FALSE, faults |-> NoFaults, version |-> 0]
    /\ changed = FALSE /\ watcher = "none" /\ exiting = "no" /\ terminateThread = FALSE
    /\ caller = [c \in Callers |-> Idle]
    /\ intercepted = 0 /\ reloads = 0
    /\ injected = [v \in 0 .. MaxReloads + 1 |-> << >>] /\ corrupted = {}

-----------------------------------------------------------------------------
(* Configuration. *)

\* readFaultInjectorConfig, under the write lock.  A file that does not parse
\* leaves what was read before; otherwise the tree is replaced.
readFaultInjectorConfig(file, old) ==
    IF ~file.ok THEN old
    ELSE [initialized |-> TRUE, dynamic |-> file.dynamic, faults |-> file.faults, version |-> old.version + 1]

\* InitializeInjection: read the file, make the watcher when it says so; the
\* watcher ends at once when it cannot watch the file.
InitializeInjection ==
    /\ ~tree.initialized /\ exiting = "no"
    /\ LET read == [readFaultInjectorConfig(configFile, tree) EXCEPT !.initialized = TRUE]
       IN  /\ tree' = read
           /\ watcher' \in IF read.dynamic THEN {"select", "ended"} ELSE {"none"}
    /\ UNCHANGED <<configFile, changed, exiting, terminateThread, caller, intercepted, reloads, injected, corrupted>>

\* Someone writes the file.
edit_config ==
    /\ reloads < MaxReloads /\ exiting = "no" /\ tree.initialized
    /\ configFile' \in ConfigFiles
    /\ changed' = TRUE
    /\ reloads' = reloads + 1
    /\ UNCHANGED <<tree, watcher, exiting, terminateThread, caller, intercepted, injected, corrupted>>

\* dynamicReconfig, once around its loop: the select of eventCheck returns
\* for an event or after 5 s; the flag is looked at before it.
dynamicReconfig ==
    /\ watcher = "select"
    /\ IF terminateThread THEN watcher' = "ended" /\ UNCHANGED <<tree, changed>>
       ELSE /\ changed
            /\ changed' = FALSE
            /\ tree' = readFaultInjectorConfig(configFile, tree)
            /\ UNCHANGED watcher
    /\ UNCHANGED <<configFile, exiting, terminateThread, caller, intercepted, reloads, injected, corrupted>>

\* Mutant: waits without telling the watcher to end.
atExitHandler_silent ==
    /\ exiting = "no" /\ tree.initialized
    /\ exiting' = IF tree.dynamic THEN "joining" ELSE "done"
    /\ UNCHANGED <<configFile, tree, changed, watcher, terminateThread, caller, intercepted, reloads, injected, corrupted>>

\* atExitHandler asks for the watcher's end and waits for it, if the
\* configuration is dynamic now.
atExitHandler ==
    /\ exiting = "no" /\ tree.initialized
    /\ IF tree.dynamic THEN exiting' = "joining" /\ terminateThread' = TRUE
       ELSE exiting' = "done" /\ UNCHANGED terminateThread
    /\ UNCHANGED <<configFile, tree, changed, watcher, caller, intercepted, reloads, injected, corrupted>>

\* pthread_join of the watcher.
join_watcher ==
    /\ exiting = "joining" /\ watcher = "ended"
    /\ exiting' = "done"
    /\ UNCHANGED <<configFile, tree, changed, watcher, terminateThread, caller, intercepted, reloads, injected, corrupted>>

-----------------------------------------------------------------------------
(* faultInjectionCallbackHandler, by the locks it takes and releases. *)

\* lookupConfig: the callback id before the name before "*".
lookupConfig(faults, api) ==
    IF ApiIds[api] \in DOMAIN faults THEN ApiIds[api]
    ELSE IF api \in DOMAIN faults THEN api
    ELSE IF "*" \in DOMAIN faults THEN "*" ELSE NoConfig

\* Under the read lock: the fault of a call that returns; the injector's own
\* launches match nothing.
handler_lookup(c, api) ==
    /\ caller[c].pc = "idle" /\ tree.initialized /\ exiting # "done" /\ intercepted < MaxIntercepted
    /\ intercepted' = intercepted + 1
    /\ LET key == IF api = FakeLaunch THEN NoConfig ELSE lookupConfig(tree.faults, api)
       IN  caller' = IF key = NoConfig THEN caller
                     ELSE [caller EXCEPT ![c] = [pc |-> "matched", key |-> key, version |-> tree.version,
                                                 fault |-> NoConfig]]
    /\ UNCHANGED <<configFile, tree, changed, watcher, exiting, terminateThread, reloads, injected, corrupted>>

\* The handler keeps a reference to the node it looked up, not a copy, and
\* gives up the lock.  A reload frees the node.
Valid(c) == caller[c].version = tree.version

\* Mutant: an exhausted count is not minded.
handler_decide_uncounted(c) ==
    /\ caller[c].pc = "matched" /\ Valid(c)
    /\ LET fault == tree.faults[caller[c].key]
       IN  \E hit \in {fault.percent >= 100, fault.percent > 0} :
             caller' = [caller EXCEPT ![c] =
               IF ~hit THEN Idle
               ELSE [@ EXCEPT !.pc = IF fault.count = Unlimited THEN "inject" ELSE "count", !.fault = fault]]
    /\ UNCHANGED <<configFile, tree, changed, watcher, exiting, terminateThread, intercepted, reloads, injected, corrupted>>

\* The settings read without the lock: an exhausted count or a chance below
\* the percentage ends the call.
handler_decide(c) ==
    /\ caller[c].pc = "matched" /\ Valid(c)
    /\ LET fault == tree.faults[caller[c].key]
           skip == fault.count # Unlimited /\ fault.count <= 0
       IN  \E hit \in {fault.percent >= 100, fault.percent > 0} :
             caller' = [caller EXCEPT ![c] =
               IF skip \/ ~hit THEN Idle
               ELSE [@ EXCEPT !.pc = IF fault.count = Unlimited THEN "inject" ELSE "count", !.fault = fault]]
    /\ UNCHANGED <<configFile, tree, changed, watcher, exiting, terminateThread, intercepted, reloads, injected, corrupted>>

\* Under the write lock: the count is read again and lowered, whatever it is.
handler_count(c) ==
    /\ caller[c].pc = "count" /\ Valid(c)
    /\ tree' = [tree EXCEPT !.faults[caller[c].key].count = @ - 1]
    /\ caller' = [caller EXCEPT ![c].pc = "inject"]
    /\ UNCHANGED <<configFile, changed, watcher, exiting, terminateThread, intercepted, reloads, injected, corrupted>>

\* A trap or assert kernel is launched and waited for, or the return code
\* replaced.
handler_inject(c) ==
    /\ caller[c].pc = "inject"
    /\ LET at == caller[c].version
           key == caller[c].key
       IN  injected' = [injected EXCEPT ![at] =
             [k \in DOMAIN @ \cup {key} |-> (IF k \in DOMAIN @ THEN @[k] ELSE 0) + (IF k = key THEN 1 ELSE 0)]]
    /\ caller' = [caller EXCEPT ![c] = Idle]
    /\ UNCHANGED <<configFile, tree, changed, watcher, exiting, terminateThread, intercepted, reloads, corrupted>>

\* The settings read from a freed node: whatever the memory holds now, so
\* that the call is passed over, counted or injected.  (The reads may also
\* end the process, here and below: no step.)
handler_decide_stale(c) ==
    /\ caller[c].pc = "matched" /\ ~Valid(c)
    /\ \E next \in {Idle, [caller[c] EXCEPT !.pc = "count"], [caller[c] EXCEPT !.pc = "inject"]} :
         caller' = [caller EXCEPT ![c] = next]
    /\ UNCHANGED <<configFile, tree, changed, watcher, exiting, terminateThread, intercepted, reloads, injected, corrupted>>

\* The count of a freed node is lowered.  Its memory may be a node of the
\* tree in force by now, whose count it is then.
handler_count_stale(c) ==
    /\ caller[c].pc = "count" /\ ~Valid(c)
    /\ \/ UNCHANGED <<tree, corrupted>>
       \/ \E key \in {k \in DOMAIN tree.faults : tree.faults[k].count # Unlimited} :
            /\ tree' = [tree EXCEPT !.faults[key].count = @ - 1]
            /\ corrupted' = corrupted \cup {tree.version}
    /\ caller' = [caller EXCEPT ![c].pc = "inject"]
    /\ UNCHANGED <<configFile, changed, watcher, exiting, terminateThread, intercepted, reloads, injected>>

handler_stale(c) == handler_decide_stale(c) \/ handler_count_stale(c)

handler(c) == handler_decide(c) \/ handler_count(c) \/ handler_inject(c) \/ handler_stale(c)

FaultNext ==
    \/ InitializeInjection \/ edit_config \/ dynamicReconfig \/ atExitHandler \/ join_watcher
    \/ \E c \in Callers : handler(c) \/ \E api \in DOMAIN ApiIds : handler_lookup(c, api)

\* Threads run: the watcher's select returns, callers go on.
FaultFairness ==
    /\ WF_faultVars(dynamicReconfig) /\ WF_faultVars(join_watcher)
    /\ \A c \in Callers : WF_faultVars(handler(c))

FaultSpec == FaultInit /\ [][FaultNext]_faultVars /\ FaultFairness

-----------------------------------------------------------------------------
(* Properties. *)

\* What was injected, what is about to be and what is left of the count make
\* up the configured one, and the count falls below 0 by no more than the
\* other threads that were past the check.
CountsAddUp ==
    \A key \in DOMAIN tree.faults :
        LET now == tree.faults[key]
            made == IF key \in DOMAIN injected[tree.version] THEN injected[tree.version][key] ELSE 0
            passed == Cardinality({c \in Callers : caller[c].pc = "inject" /\ caller[c].key = key
                                                     /\ caller[c].version = tree.version})
            allowed == {f.faults[key].count : f \in {g \in ConfigFiles : g.ok /\ key \in DOMAIN g.faults}}
        IN  now.count # Unlimited =>
              \E configured \in allowed \ {Unlimited} :
                /\ now.count + made + passed = configured
                /\ now.count < configured => now.count >= 1 - Cardinality(Callers)

\* The count is read before the lock that lowers it is taken, so a fault may
\* be injected more often than its interceptionCount, but never by more than
\* the other threads that were past the check.  A tree that a handler wrote
\* to through a reference into the one before is left out.
InjectionsStayNearCount == tree.version \notin corrupted => CountsAddUp

\* A process that exits while its configuration is dynamic gets past the join
\* of the watcher thread.
ExitReturns == exiting = "joining" ~> exiting = "done"
=============================================================================
